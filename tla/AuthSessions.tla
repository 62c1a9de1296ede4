---------------------------- MODULE AuthSessions ----------------------------
(***************************************************************************)
(* Desktop clients in front of AuthService: AuthViewModel, the retry loop  *)
(* of ApiClient and the tokens SecureStorage keeps across restarts of the  *)
(* application.  A device has at most one authentication request under     *)
(* way, but a lost answer leaves its handler running on the server while   *)
(* the device sends the request again.                                     *)
(***************************************************************************)
EXTENDS AuthService

CONSTANTS
    Device,
    UserOf,         \* the user who signs in on a device
    MaxRetries,     \* kMaxApiRetries
    LogoutCalls,    \* does anyone call the logout endpoints?  The desktop
                    \* client does not, they are open to other API clients
    NoCall

ASSUME SessionsAssumption ==
    /\ UserOf \in [Device -> User]
    /\ MaxRetries \in Nat
    /\ LogoutCalls \in BOOLEAN
    /\ NoCall \notin Call

VARIABLES
    stored,         \* refresh token in SecureStorage (and in ApiClient)
    app,            \* what the application is doing
    request,        \* the request under way: its kind
    attempt,        \* and how often it has been retried
    slot            \* the server call whose answer the device waits for

deviceVars == <<stored, app, request, attempt, slot>>
vars == <<authVars, deviceVars>>

SessionsTypeOK ==
    /\ AuthTypeOK
    /\ stored \in [Device -> Token \cup {NoToken}]
    /\ app \in [Device -> {"start", "signedOut", "signedIn", "waiting", "backoff"}]
    /\ request \in [Device -> {"none", "register", "login", "refresh"}]
    /\ attempt \in [Device -> 0..MaxRetries]
    /\ slot \in [Device -> Call \cup {NoCall}]

Init ==
    /\ AuthInit
    /\ stored = [d \in Device |-> NoToken]
    /\ app = [d \in Device |-> "start"]
    /\ request = [d \in Device |-> "none"]
    /\ attempt = [d \in Device |-> 0]
    /\ slot = [d \in Device |-> NoCall]

-----------------------------------------------------------------------------
Busy == {d \in Device : app[d] \in {"waiting", "backoff"}}

\* Bound on the pool of token ids: a device starts a request only while there
\* is an id left for every handler that may still issue one, its retries
\* included, so no handler is ever stuck for want of an id.
Budget ==
    Cardinality(issued) + Cardinality({c \in Call : call[c].pc \in Running})
        + (MaxRetries + 1) * Cardinality(Busy) + MaxRetries < Cardinality(Token)

Send(d, kind, c) ==
    /\ CASE kind = "register" -> ReceiveRegister(c, UserOf[d])
         [] kind = "login" -> ReceiveLogin(c, UserOf[d])
         [] kind = "refresh" -> ReceiveRefresh(c, stored[d])
    /\ slot' = [slot EXCEPT ![d] = c]
    /\ app' = [app EXCEPT ![d] = "waiting"]
    /\ request' = [request EXCEPT ![d] = kind]

\* bootstrapSession, once when the application starts.
Bootstrap(d) ==
    /\ app[d] = "start"
    /\ IF stored[d] = NoToken
         THEN /\ app' = [app EXCEPT ![d] = "signedOut"]
              /\ UNCHANGED <<authVars, stored, request, attempt, slot>>
         ELSE /\ Budget
              /\ \E c \in Call : Send(d, "refresh", c)
              /\ attempt' = [attempt EXCEPT ![d] = 0]
              /\ UNCHANGED stored

\* login and registerUser
SignIn(d) ==
    /\ app[d] = "signedOut" /\ Budget
    /\ \E kind \in {"register", "login"}, c \in Call : Send(d, kind, c)
    /\ attempt' = [attempt EXCEPT ![d] = 0]
    /\ UNCHANGED stored

\* Mutant: the attempt is not counted.
SameAttempt(a) == a

\* The single-shot timer of sendObjectRequest sends the same request again.
NextAttempt(a) == a + 1

Retry(d) ==
    /\ app[d] = "backoff"
    /\ \E c \in Call : Send(d, request[d], c)
    /\ attempt' = [attempt EXCEPT ![d] = NextAttempt(@)]
    /\ UNCHANGED stored

Done(d, state) ==
    /\ app' = [app EXCEPT ![d] = state]
    /\ request' = [request EXCEPT ![d] = "none"]
    /\ attempt' = [attempt EXCEPT ![d] = 0]
    /\ slot' = [slot EXCEPT ![d] = NoCall]

\* callback(false): a failed bootstrap clears the storage, a failed login does
\* not touch it (nothing is stored while signed out).
GiveUp(d) ==
    /\ Done(d, "signedOut")
    /\ stored' = IF request[d] = "refresh"
                 THEN [stored EXCEPT ![d] = NoToken] ELSE stored

\* Mutant: one retry too many.
MayRetryOnceMore(d) == attempt[d] <= MaxRetries

MayRetry(d) == attempt[d] < MaxRetries

\* A retryable failure: a 5xx answer, a timeout or a closed connection.
RetryOrGiveUp(d) ==
    IF MayRetry(d)
    THEN /\ app' = [app EXCEPT ![d] = "backoff"]
         /\ slot' = [slot EXCEPT ![d] = NoCall]
         /\ UNCHANGED <<stored, request, attempt>>
    ELSE GiveUp(d)

\* Mutant: a token that is stored already is kept.
ApplyFirstResponse(d, t) ==
    /\ stored' = [stored EXCEPT ![d] = IF @ = NoToken THEN t ELSE @]
    /\ Done(d, "signedIn")

\* applyAuthResponse
ApplyAuthResponse(d, t) ==
    /\ stored' = [stored EXCEPT ![d] = t]
    /\ Done(d, "signedIn")

Deliver(d) ==
    /\ app[d] = "waiting" /\ slot[d] # NoCall
    /\ Respond(slot[d])
    /\ CASE call[slot[d]].pc = "ok" -> ApplyAuthResponse(d, call[slot[d]].token)
         [] call[slot[d]].pc = "rejected" -> GiveUp(d)
         [] call[slot[d]].pc = "failed" -> RetryOrGiveUp(d)

\* The connection drops or times out.  The handler, if it still runs, goes on.
LoseReply(d) ==
    /\ app[d] = "waiting" /\ slot[d] # NoCall
    /\ RetryOrGiveUp(d)
    /\ UNCHANGED authVars

\* AuthViewModel::logout forgets the tokens and tells the server nothing.
Logout(d) ==
    /\ app[d] = "signedIn"
    /\ stored' = [stored EXCEPT ![d] = NoToken]
    /\ Done(d, "signedOut")
    /\ UNCHANGED authVars

\* The application ends at any moment and is started again.
AppRestart(d) ==
    /\ Done(d, "start")
    /\ UNCHANGED <<authVars, stored>>

\* An answer nobody waits for.
Orphaned(c) == \A d \in Device : slot[d] # c

DropAnswer(c) == Orphaned(c) /\ Respond(c) /\ UNCHANGED deviceVars

\* POST /auth/logout and /auth/logout-all from other API clients.
LogoutRequest(c) ==
    /\ LogoutCalls
    /\ \/ \E t \in issued : ReceiveLogout(c, t)
       \/ \E u \in User : ReceiveLogoutAll(c, u)
    /\ UNCHANGED deviceVars

ServerStep(c) == Step(c) /\ UNCHANGED deviceVars

\* Every connection breaks with the server process.
ServerRestart ==
    /\ Restart
    /\ slot' = [d \in Device |-> NoCall]
    /\ UNCHANGED <<stored, app, request, attempt>>

\* The device learns that the server dropped its connection.
ConnectionClosed(d) ==
    /\ app[d] = "waiting" /\ slot[d] = NoCall
    /\ RetryOrGiveUp(d)
    /\ UNCHANGED authVars

DeviceStep(d) ==
    \/ Bootstrap(d) \/ Retry(d) \/ Deliver(d) \/ LoseReply(d) \/ ConnectionClosed(d)

Next ==
    \/ \E d \in Device : DeviceStep(d) \/ SignIn(d) \/ Logout(d) \/ AppRestart(d)
    \/ \E c \in Call : ServerStep(c) \/ DropAnswer(c) \/ LogoutRequest(c)
    \/ (\E t \in Token : Expire(t)) /\ UNCHANGED deviceVars
    \/ ServerRestart

Spec == Init /\ [][Next]_vars

-----------------------------------------------------------------------------
\* A signed-in device holds the newest token of its chain: the row is its
\* user's, nobody has rotated it, and only a logout can have revoked it -
\* though retries of the request that got it may still be running.
SignedInTokenCurrent ==
    \A d \in Device : app[d] = "signedIn" =>
        /\ stored[d] \in issued /\ userId[stored[d]] = UserOf[d]
        /\ \A t \in issued : rotatedFrom[t] # stored[d]
        /\ stored[d] \in revoked => stored[d] \in loggedOut

\* The scheduler: node runs every handler to its end, and every request of a
\* device ends in an answer, a timeout or a closed connection.
FairSpec ==
    /\ Spec
    /\ \A c \in Call : WF_vars(ServerStep(c)) /\ WF_vars(DropAnswer(c))
    /\ \A d \in Device : WF_vars(DeviceStep(d))

\* Every request settles: the retry loop of sendObjectRequest is bounded, and
\* the interface never stays busy for ever.
RequestsSettle == \A d \in Device : d \in Busy ~> d \notin Busy
=============================================================================

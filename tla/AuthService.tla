----------------------------- MODULE AuthService -----------------------------
(***************************************************************************)
(* The refresh-token part of the server's AuthService                      *)
(* (server/src/auth/auth.service.ts).  Every REST call runs as an async    *)
(* function: between two awaits it is atomic, and calls interleave at the  *)
(* awaits.  A call is a slot of Call and its pc names the await it is      *)
(* waiting on.  The RefreshToken table is kept by column.                  *)
(***************************************************************************)
EXTENDS FiniteSets, Integers

CONSTANTS
    User,       \* user ids
    Token,      \* refresh-token ids (randomBytes(16), so never reused)
    Call,       \* slots for the REST calls in flight
    NoUser, NoToken

ASSUME AuthAssumption ==
    /\ NoUser \notin User
    /\ NoToken \notin Token

VARIABLES
    registered,     \* users with a row in User
    issued,         \* tokens with a row in RefreshToken
    userId,         \* column userId
    rotatedFrom,    \* column rotatedFromId
    revoked,        \* rows with revokedAt set
    expired,        \* rows with expiresAt < now
    call,           \* the calls in flight
    loggedOut,      \* history: valid tokens a logout or logout-all has revoked
    escaped,        \* history: tokens issued by a refresh that had passed its
                    \* check before a logout revoked the token it rotates
    forked          \* history: tokens a refresh read as valid while another
                    \* one had read them as valid and not yet revoked them

tableVars == <<issued, userId, rotatedFrom, revoked, expired>>
historyVars == <<loggedOut, escaped, forked>>
authVars == <<registered, tableVars, call, historyVars>>

Running == {"registerFind", "registerCreate", "login", "find", "revoke",
            "issue", "logoutFind", "logoutRevoke", "revokeAll"}
Answered == {"ok", "rejected", "failed"}   \* 200, 400/401, 500

\* raced: history, the token was logged out after the call had checked it.
CallState == [pc : Running \cup Answered \cup {"idle"},
              user : User \cup {NoUser},
              token : Token \cup {NoToken},
              raced : BOOLEAN]

IdleCall == [pc |-> "idle", user |-> NoUser, token |-> NoToken, raced |-> FALSE]

AuthTypeOK ==
    /\ registered \subseteq User
    /\ issued \subseteq Token
    /\ userId \in [Token -> User \cup {NoUser}]
    /\ rotatedFrom \in [Token -> Token \cup {NoToken}]
    /\ revoked \subseteq Token
    /\ expired \subseteq Token
    /\ call \in [Call -> CallState]
    /\ loggedOut \subseteq Token
    /\ escaped \subseteq Token
    /\ forked \subseteq Token

AuthInit ==
    /\ registered = {}
    /\ issued = {}
    /\ userId = [t \in Token |-> NoUser]
    /\ rotatedFrom = [t \in Token |-> NoToken]
    /\ revoked = {}
    /\ expired = {}
    /\ call = [c \in Call |-> IdleCall]
    /\ loggedOut = {}
    /\ escaped = {}
    /\ forked = {}

-----------------------------------------------------------------------------
Accept(c, pc, u, t) ==
    /\ call[c].pc = "idle"
    /\ call' = [call EXCEPT ![c] = [pc |-> pc, user |-> u, token |-> t, raced |-> FALSE]]

Goto(c, pc) == call' = [call EXCEPT ![c] = [call[c] EXCEPT !.pc = pc]]

\* POST /auth/register
ReceiveRegister(c, u) ==
    /\ Accept(c, "registerFind", u, NoToken)
    /\ UNCHANGED <<registered, tableVars, historyVars>>

RegisterFind(c) ==
    /\ call[c].pc = "registerFind"
    /\ Goto(c, IF call[c].user \in registered THEN "rejected" ELSE "registerCreate")
    /\ UNCHANGED <<registered, tableVars, historyVars>>

\* A second registration that got past RegisterFind meets the unique index on
\* User.email and ends in a 500.
RegisterCreate(c) ==
    /\ call[c].pc = "registerCreate"
    /\ IF call[c].user \in registered
         THEN Goto(c, "failed") /\ UNCHANGED registered
         ELSE Goto(c, "issue") /\ registered' = registered \cup {call[c].user}
    /\ UNCHANGED <<tableVars, historyVars>>

\* POST /auth/login.  A wrong password is rejected like an unknown user.
ReceiveLogin(c, u) ==
    /\ Accept(c, "login", u, NoToken)
    /\ UNCHANGED <<registered, tableVars, historyVars>>

LoginVerify(c) ==
    /\ call[c].pc = "login"
    /\ \E valid \in BOOLEAN :
          Goto(c, IF valid /\ call[c].user \in registered THEN "issue" ELSE "rejected")
    /\ UNCHANGED <<registered, tableVars, historyVars>>

\* POST /auth/refresh
ReceiveRefresh(c, t) ==
    /\ Accept(c, "find", NoUser, t)
    /\ UNCHANGED <<registered, tableVars, historyVars>>

\* Mutant: revokedAt is not looked at.
UsableIfRevoked(t) == t \in issued /\ t \notin expired

Usable(t) == t \in issued /\ t \notin revoked /\ t \notin expired

\* The refreshes that have read a token of S as valid and not yet revoked it.
PastCheck(S) == {c \in Call : call[c].pc = "revoke" /\ call[c].token \in S}

RefreshFind(c) ==
    /\ call[c].pc = "find"
    /\ call' = [call EXCEPT ![c] =
                  IF Usable(call[c].token)
                  THEN [call[c] EXCEPT !.pc = "revoke", !.user = userId[call[c].token]]
                  ELSE [call[c] EXCEPT !.pc = "rejected"]]
    /\ forked' = forked \cup {t \in {call[c].token} : Usable(t) /\ PastCheck({t}) # {}}
    /\ UNCHANGED <<registered, tableVars, loggedOut, escaped>>

\* Mutant: the old token is left valid.
RefreshKeepsOld(c) ==
    /\ call[c].pc = "revoke"
    /\ Goto(c, "issue")
    /\ UNCHANGED <<registered, tableVars, historyVars>>

RefreshRevoke(c) ==
    /\ call[c].pc = "revoke"
    /\ revoked' = revoked \cup {call[c].token}
    /\ Goto(c, "issue")
    /\ UNCHANGED <<registered, issued, userId, rotatedFrom, expired, historyVars>>

\* issueTokenPair: the row is created under a fresh id, pointing back at the
\* token it rotates (none for register and login).  The answer carries the id.
IssueTokenPair(c, n) ==
    /\ call[c].pc = "issue"
    /\ n \in Token \ issued
    /\ issued' = issued \cup {n}
    /\ userId' = [userId EXCEPT ![n] = call[c].user]
    /\ rotatedFrom' = [rotatedFrom EXCEPT ![n] = call[c].token]
    /\ call' = [call EXCEPT ![c] = [call[c] EXCEPT !.pc = "ok", !.token = n]]
    /\ escaped' = IF call[c].raced THEN escaped \cup {n} ELSE escaped
    /\ UNCHANGED <<registered, revoked, expired, loggedOut, forked>>

LogOut(c, S) ==
    /\ revoked' = revoked \cup S
    /\ loggedOut' = loggedOut \cup (S \ revoked)
    /\ call' = [d \in Call |->
                  CASE d = c -> [call[d] EXCEPT !.pc = "ok"]
                    [] d # c /\ d \in PastCheck(S \ revoked) -> [call[d] EXCEPT !.raced = TRUE]
                    [] OTHER -> call[d]]
    /\ UNCHANGED <<registered, issued, userId, rotatedFrom, expired, escaped, forked>>

\* POST /auth/logout
ReceiveLogout(c, t) ==
    /\ Accept(c, "logoutFind", NoUser, t)
    /\ UNCHANGED <<registered, tableVars, historyVars>>

LogoutFind(c) ==
    /\ call[c].pc = "logoutFind"
    /\ Goto(c, IF call[c].token \in issued THEN "logoutRevoke" ELSE "rejected")
    /\ UNCHANGED <<registered, tableVars, historyVars>>

LogoutRevoke(c) ==
    /\ call[c].pc = "logoutRevoke"
    /\ LogOut(c, {call[c].token})

\* POST /auth/logout-all
ReceiveLogoutAll(c, u) ==
    /\ Accept(c, "revokeAll", u, NoToken)
    /\ UNCHANGED <<registered, tableVars, historyVars>>

TokensOf(u) == {t \in issued : userId[t] = u}

RevokeAll(c) ==
    /\ call[c].pc = "revokeAll"
    /\ LogOut(c, TokensOf(call[c].user) \ revoked)

-----------------------------------------------------------------------------
\* The answer leaves the server (whether or not anyone still waits for it).
Respond(c) ==
    /\ call[c].pc \in Answered
    /\ call' = [call EXCEPT ![c] = IdleCall]
    /\ UNCHANGED <<registered, tableVars, historyVars>>

\* expiresAt passes.
Expire(t) ==
    /\ t \in issued \ expired
    /\ expired' = expired \cup {t}
    /\ UNCHANGED <<registered, issued, userId, rotatedFrom, revoked, call, historyVars>>

\* The process dies: the calls in flight are gone, the tables stay.
Restart ==
    /\ \E c \in Call : call[c].pc # "idle"
    /\ call' = [c \in Call |-> IdleCall]
    /\ UNCHANGED <<registered, tableVars, historyVars>>

Step(c) ==
    \/ RegisterFind(c) \/ RegisterCreate(c)
    \/ LoginVerify(c)
    \/ RefreshFind(c) \/ RefreshRevoke(c)
    \/ \E n \in Token : IssueTokenPair(c, n)
    \/ LogoutFind(c) \/ LogoutRevoke(c)
    \/ RevokeAll(c)

Receive(c) ==
    \/ \E u \in User : ReceiveRegister(c, u) \/ ReceiveLogin(c, u) \/ ReceiveLogoutAll(c, u)
    \/ \E t \in Token : ReceiveRefresh(c, t) \/ ReceiveLogout(c, t)

AuthNext ==
    \/ \E c \in Call : Receive(c) \/ Step(c) \/ Respond(c)
    \/ \E t \in Token : Expire(t)
    \/ Restart

AuthSpec == AuthInit /\ [][AuthNext]_authVars

-----------------------------------------------------------------------------
\* The rotation chain is sound: a token that was issued by rotating another
\* one points at a row that exists, is revoked and is the same user's, at every
\* moment, whatever calls overlap (refresh revokes first and creates second).
RotationSound ==
    \A t \in issued :
        rotatedFrom[t] # NoToken =>
            /\ rotatedFrom[t] \in issued \cap revoked
            /\ userId[rotatedFrom[t]] = userId[t]

\* logout and logout-all are final up to the refreshes they race with: a valid
\* token they revoked has a successor only if the refresh that made it had
\* already read the token as valid when the logout wrote.
LogoutFinal ==
    \A t \in issued : rotatedFrom[t] \in loggedOut => t \in escaped

\* "hashed refresh credentials with rotation chain" (docs/DB.md:5), as far as it
\* goes: a token has two successors only if two refreshes of it had read it as
\* valid before either revoked it - no loss, retry or restart in any other
\* order makes the chain a tree.
ForksOnlyByOverlap ==
    \A t1, t2 \in issued :
        rotatedFrom[t1] = rotatedFrom[t2] /\ rotatedFrom[t1] # NoToken /\ t1 # t2 =>
            rotatedFrom[t1] \in forked
=============================================================================

-------------------------- MODULE AuthSessionsProofs --------------------------
(***************************************************************************)
(* What AuthService guarantees for any number of users, tokens and calls,  *)
(* and what the devices in front of it may rely on, for any number of them *)
(* and of retries.  RotationSound and LogoutFinal are not inductive: both  *)
(* depend on what a refresh still knows after its check, so the invariant  *)
(* adds what holds of a call at each await.                                *)
(***************************************************************************)
EXTENDS AuthSessions, TLAPS

\* A refresh past its check: its token has a row of the call's user; once the
\* row is revoked it stays so; if a logout got in between, the call is marked.
CallsSound ==
    \A c \in Call :
        /\ call[c].pc \in {"registerFind", "registerCreate", "login"} =>
              call[c].token = NoToken
        /\ call[c].pc \in {"registerFind", "registerCreate", "login", "revoke", "issue"} =>
              call[c].user \in User
        /\ call[c].pc \in {"revoke", "issue"} /\ call[c].token # NoToken =>
              /\ call[c].token \in issued
              /\ userId[call[c].token] = call[c].user
              /\ call[c].token \in loggedOut => call[c].raced
        /\ call[c].pc \in {"revoke", "logoutFind", "logoutRevoke"} =>
              call[c].token # NoToken
        /\ call[c].pc = "issue" /\ call[c].token # NoToken => call[c].token \in revoked

LoggedOutRevoked == loggedOut \subseteq revoked

RowsOwned == \A t \in issued : userId[t] \in User

IInv ==
    /\ AuthTypeOK /\ CallsSound /\ LoggedOutRevoked /\ RowsOwned
    /\ RotationSound /\ LogoutFinal

-----------------------------------------------------------------------------
\* The invariant holds of an empty database and an idle server.
LEMMA InitIInv == AuthInit => IInv
  BY AuthAssumption
     DEF AuthInit, IInv, AuthTypeOK, CallsSound, LoggedOutRevoked, RowsOwned,
         RotationSound, LogoutFinal, IdleCall, CallState, Running, Answered

\* Steps that only move one call on and touch no table keep the invariant, if
\* the call's new state is sound.
LEMMA MoveCall ==
  ASSUME IInv, NEW c \in Call, NEW s \in CallState,
         call' = [call EXCEPT ![c] = s],
         UNCHANGED <<tableVars, loggedOut, escaped>>,
         registered' \subseteq User, forked' \subseteq Token,
         s.pc \in {"registerFind", "registerCreate", "login"} => s.token = NoToken,
         s.pc \in {"registerFind", "registerCreate", "login", "revoke", "issue"} =>
            s.user \in User,
         s.pc = "revoke" => /\ s.token \in issued \ revoked
                            /\ userId[s.token] = s.user,
         s.pc \in {"logoutFind", "logoutRevoke"} => s.token # NoToken,
         s.pc = "issue" => s.token = NoToken
  PROVE  IInv'
<1>1. AuthTypeOK'
  BY DEF IInv, AuthTypeOK, tableVars
<1>2. CallsSound'
  BY AuthAssumption DEF IInv, AuthTypeOK, CallsSound, LoggedOutRevoked, tableVars
<1>3. LoggedOutRevoked' /\ RowsOwned' /\ RotationSound' /\ LogoutFinal'
  BY DEF IInv, LoggedOutRevoked, RowsOwned, RotationSound, LogoutFinal, tableVars
<1>4. QED
  BY <1>1, <1>2, <1>3 DEF IInv

\* Taking a request in.
LEMMA AcceptKeeps ==
  ASSUME IInv, NEW c \in Call, NEW pc \in Running, NEW u \in User \cup {NoUser},
         NEW t \in Token \cup {NoToken},
         pc \in {"registerFind", "login"} => u \in User /\ t = NoToken,
         pc \in {"logoutFind", "logoutRevoke"} => t # NoToken,
         pc \notin {"registerCreate", "revoke", "issue"},
         Accept(c, pc, u, t),
         UNCHANGED <<registered, tableVars, historyVars>>
  PROVE  IInv'
<1> DEFINE s == [pc |-> pc, user |-> u, token |-> t, raced |-> FALSE]
<1>1. s \in CallState
  BY DEF CallState
<1>2. /\ registered' \subseteq User /\ forked' \subseteq Token
      /\ UNCHANGED <<tableVars, loggedOut, escaped>>
  BY DEF IInv, AuthTypeOK, historyVars
<1>3. call' = [call EXCEPT ![c] = s]
  BY DEF Accept
<1>4. s.pc = pc /\ s.user = u /\ s.token = t
  OBVIOUS
<1> HIDE DEF s
<1>5. QED
  BY <1>1, <1>2, <1>3, <1>4, MoveCall

\* Every request that is taken in.
LEMMA ReceiveKeeps ==
  ASSUME IInv, NEW c \in Call, Receive(c)
  PROVE  IInv'
<1>1. ASSUME NEW u \in User, ReceiveRegister(c, u) PROVE IInv'
  BY <1>1, AcceptKeeps DEF ReceiveRegister, Running
<1>2. ASSUME NEW u \in User, ReceiveLogin(c, u) PROVE IInv'
  BY <1>2, AcceptKeeps DEF ReceiveLogin, Running
<1>3. ASSUME NEW u \in User, ReceiveLogoutAll(c, u) PROVE IInv'
  BY <1>3, AcceptKeeps DEF ReceiveLogoutAll, Running
<1>4. ASSUME NEW t \in Token, ReceiveRefresh(c, t) PROVE IInv'
  BY <1>4, AcceptKeeps DEF ReceiveRefresh, Running
<1>5. ASSUME NEW t \in Token, ReceiveLogout(c, t) PROVE IInv'
  BY <1>5, AcceptKeeps, AuthAssumption DEF ReceiveLogout, Running
<1>6. QED
  BY <1>1, <1>2, <1>3, <1>4, <1>5 DEF Receive

\* The steps that write a table, one lemma each: registration and login.
LEMMA RegisterKeeps ==
  ASSUME IInv, NEW c \in Call, RegisterFind(c) \/ RegisterCreate(c) \/ LoginVerify(c)
  PROVE  IInv'
<1>1. call[c] \in CallState
  BY DEF IInv, AuthTypeOK
<1>2. PICK pc \in {"rejected", "registerCreate", "failed", "issue"} :
         /\ Goto(c, pc)
         /\ call[c].token = NoToken /\ call[c].user \in User
         /\ registered' \subseteq User
         /\ UNCHANGED <<tableVars, historyVars>>
  <2>1. CASE RegisterFind(c)
    BY <2>1 DEF RegisterFind, IInv, AuthTypeOK, CallsSound
  <2>2. CASE RegisterCreate(c)
    BY <2>2 DEF RegisterCreate, IInv, AuthTypeOK, CallsSound
  <2>3. CASE LoginVerify(c)
    BY <2>3 DEF LoginVerify, IInv, AuthTypeOK, CallsSound
  <2>4. QED
    BY <2>1, <2>2, <2>3
<1> DEFINE s == [call[c] EXCEPT !.pc = pc]
<1>3. s \in CallState /\ s.pc = pc /\ s.token = NoToken /\ s.user = call[c].user
  BY <1>1, <1>2 DEF CallState, Running, Answered
<1>4. /\ call' = [call EXCEPT ![c] = s]
      /\ UNCHANGED <<tableVars, loggedOut, escaped>> /\ forked' \subseteq Token
  BY <1>2 DEF Goto, historyVars, IInv, AuthTypeOK
<1> HIDE DEF s
<1>5. QED
  BY <1>2, <1>3, <1>4, MoveCall

\* The check of a refresh.
LEMMA RefreshFindKeeps ==
  ASSUME IInv, NEW c \in Call, RefreshFind(c)
  PROVE  IInv'
<1>1. call[c] \in CallState /\ call[c].token \in Token \cup {NoToken}
  BY DEF IInv, AuthTypeOK, CallState
<1>2. CASE Usable(call[c].token)
  <2> DEFINE s == [call[c] EXCEPT !.pc = "revoke", !.user = userId[call[c].token]]
  <2>1. call[c].token \in issued \ revoked /\ userId[call[c].token] \in User
    BY <1>2 DEF Usable, IInv, RowsOwned
  <2>2. /\ s \in CallState /\ s.pc = "revoke"
        /\ s.token = call[c].token /\ s.user = userId[call[c].token]
    BY <1>1, <2>1 DEF CallState, Running, Answered
  <2>3. call' = [call EXCEPT ![c] = s] /\ UNCHANGED <<registered, tableVars, loggedOut, escaped>>
    BY <1>2 DEF RefreshFind
  <2>4. registered' \subseteq User /\ forked' \subseteq Token
    BY <2>1, <2>3 DEF RefreshFind, IInv, AuthTypeOK
  <2> HIDE DEF s
  <2>5. QED
    BY <2>1, <2>2, <2>3, <2>4, MoveCall
<1>3. CASE ~Usable(call[c].token)
  <2> DEFINE s == [call[c] EXCEPT !.pc = "rejected"]
  <2>1. s \in CallState /\ s.pc = "rejected"
    BY <1>1 DEF CallState, Running, Answered
  <2>2. call' = [call EXCEPT ![c] = s] /\ UNCHANGED <<registered, tableVars, loggedOut, escaped>>
    BY <1>3 DEF RefreshFind
  <2>3. registered' \subseteq User /\ forked' \subseteq Token
    BY <1>3, <2>2 DEF RefreshFind, IInv, AuthTypeOK
  <2> HIDE DEF s
  <2>4. QED
    BY <2>1, <2>2, <2>3, MoveCall
<1>4. QED
  BY <1>2, <1>3

\* The revocation of the old token.
LEMMA RefreshRevokeKeeps ==
  ASSUME IInv, NEW c \in Call, RefreshRevoke(c)
  PROVE  IInv'
<1>1. /\ call[c] \in CallState /\ call[c].pc = "revoke"
      /\ call[c].token \in Token \cap issued
      /\ call' = [call EXCEPT ![c] = [call[c] EXCEPT !.pc = "issue"]]
      /\ revoked' = revoked \cup {call[c].token}
      /\ UNCHANGED <<registered, issued, userId, rotatedFrom, expired, loggedOut, escaped, forked>>
  BY DEF RefreshRevoke, Goto, historyVars, IInv, AuthTypeOK, CallsSound, CallState
<1>2. AuthTypeOK'
  BY <1>1 DEF IInv, AuthTypeOK, CallState, Running
<1>3. CallsSound'
  BY <1>1 DEF IInv, AuthTypeOK, CallsSound, CallState
<1>4. LoggedOutRevoked' /\ RowsOwned' /\ RotationSound' /\ LogoutFinal'
  BY <1>1 DEF IInv, LoggedOutRevoked, RowsOwned, RotationSound, LogoutFinal
<1>5. QED
  BY <1>2, <1>3, <1>4 DEF IInv

\* The row of the new token.
LEMMA IssueKeeps ==
  ASSUME IInv, NEW c \in Call, NEW n \in Token, IssueTokenPair(c, n)
  PROVE  IInv'
<1>1. /\ call[c] \in CallState /\ call[c].pc = "issue" /\ call[c].user \in User
      /\ call[c].token \in Token \cup {NoToken}
      /\ n \in Token \ issued
      /\ call' = [call EXCEPT ![c] = [call[c] EXCEPT !.pc = "ok", !.token = n]]
      /\ issued' = issued \cup {n}
      /\ userId' = [userId EXCEPT ![n] = call[c].user]
      /\ rotatedFrom' = [rotatedFrom EXCEPT ![n] = call[c].token]
      /\ escaped' = IF call[c].raced THEN escaped \cup {n} ELSE escaped
      /\ UNCHANGED <<registered, revoked, expired, loggedOut, forked>>
  BY DEF IssueTokenPair, IInv, AuthTypeOK, CallsSound, CallState
<1>2. AuthTypeOK'
  BY <1>1 DEF IInv, AuthTypeOK, CallState, Answered
<1>3. CallsSound'
  BY <1>1 DEF IInv, AuthTypeOK, CallsSound, CallState
<1>4. LoggedOutRevoked' /\ RowsOwned'
  BY <1>1 DEF IInv, AuthTypeOK, LoggedOutRevoked, RowsOwned
<1>5. RotationSound'
  BY <1>1 DEF IInv, AuthTypeOK, CallsSound, RotationSound
<1>6. LogoutFinal'
  BY <1>1, AuthAssumption DEF IInv, AuthTypeOK, CallsSound, LogoutFinal
<1>7. QED
  BY <1>2, <1>3, <1>4, <1>5, <1>6 DEF IInv

\* A logout write.  It marks the refreshes it overtakes, so none of them can
\* produce an unmarked successor later.
LEMMA LogOutKeeps ==
  ASSUME IInv, NEW c \in Call, NEW S \in SUBSET Token, LogOut(c, S),
         call[c].pc \in {"logoutRevoke", "revokeAll"}
  PROVE  IInv'
<1>1. \A d \in Call : /\ call[d] \in CallState
                      /\ call'[d] \in CallState
                      /\ d = c => call'[d].pc = "ok"
                      /\ d # c => /\ call'[d].pc = call[d].pc
                                  /\ call'[d].user = call[d].user
                                  /\ call'[d].token = call[d].token
                                  /\ call[d].raced => call'[d].raced
                                  /\ d \in PastCheck(S \ revoked) => call'[d].raced
  BY DEF LogOut, IInv, AuthTypeOK, CallState, Answered
<1>2. /\ revoked' = revoked \cup S
      /\ loggedOut' = loggedOut \cup (S \ revoked)
      /\ UNCHANGED <<registered, issued, userId, rotatedFrom, expired, escaped, forked>>
  BY DEF LogOut
<1>3. AuthTypeOK'
  BY <1>1, <1>2 DEF LogOut, IInv, AuthTypeOK
<1>4. CallsSound'
  BY <1>1, <1>2 DEF IInv, CallsSound, PastCheck
<1>5. LoggedOutRevoked' /\ RowsOwned' /\ RotationSound'
  BY <1>2 DEF IInv, LoggedOutRevoked, RowsOwned, RotationSound
<1>6. LogoutFinal'
  <2>1. SUFFICES ASSUME NEW t \in issued, rotatedFrom[t] \in S \ revoked PROVE FALSE
    BY <1>2 DEF IInv, LogoutFinal
  <2>2. rotatedFrom[t] \in revoked
    BY <2>1, AuthAssumption DEF IInv, RotationSound
  <2>3. QED
    BY <2>1, <2>2
<1>7. QED
  BY <1>3, <1>4, <1>5, <1>6 DEF IInv

\* The steps of logout and logout-all.
LEMMA LogoutKeeps ==
  ASSUME IInv, NEW c \in Call, LogoutFind(c) \/ LogoutRevoke(c) \/ RevokeAll(c)
  PROVE  IInv'
<1>1. call[c] \in CallState
  BY DEF IInv, AuthTypeOK
<1>2. CASE LogoutFind(c)
  <2>1. PICK pc \in {"logoutRevoke", "rejected"} :
           Goto(c, pc) /\ UNCHANGED <<registered, tableVars, historyVars>>
    BY <1>2 DEF LogoutFind
  <2>2. call[c].token # NoToken
    BY <1>2 DEF LogoutFind, IInv, CallsSound
  <2> DEFINE s == [call[c] EXCEPT !.pc = pc]
  <2>3. s \in CallState /\ s.pc = pc /\ s.token = call[c].token
    BY <1>1 DEF CallState, Running, Answered
  <2>4. /\ call' = [call EXCEPT ![c] = s] /\ registered' \subseteq User
        /\ UNCHANGED <<tableVars, loggedOut, escaped>> /\ forked' \subseteq Token
    BY <2>1 DEF Goto, historyVars, IInv, AuthTypeOK
  <2> HIDE DEF s
  <2>5. QED
    BY <2>1, <2>2, <2>3, <2>4, MoveCall
<1>3. CASE LogoutRevoke(c)
  <2>1. call[c].token \in Token
    BY <1>1, <1>3 DEF LogoutRevoke, IInv, CallsSound, CallState
  <2>2. QED
    BY <1>3, <2>1, LogOutKeeps DEF LogoutRevoke
<1>4. CASE RevokeAll(c)
  BY <1>4, LogOutKeeps DEF RevokeAll, TokensOf, IInv, AuthTypeOK
<1>5. QED
  BY <1>2, <1>3, <1>4

\* Answers, expiry and restarts.
LEMMA EnvironmentKeeps ==
  ASSUME IInv, Restart \/ (\E t \in Token : Expire(t)) \/ (\E c \in Call : Respond(c))
  PROVE  IInv'
<1>1. IdleCall \in CallState /\ IdleCall.pc = "idle"
  BY DEF IdleCall, CallState
<1>2. CASE \E t \in Token : Expire(t)
  BY <1>2 DEF Expire, historyVars, IInv, AuthTypeOK, CallsSound, LoggedOutRevoked,
              RowsOwned, RotationSound, LogoutFinal
<1>3. CASE Restart
  BY <1>1, <1>3 DEF Restart, tableVars, historyVars, IInv, AuthTypeOK, CallsSound,
              LoggedOutRevoked, RowsOwned, RotationSound, LogoutFinal
<1>4. ASSUME NEW c \in Call, Respond(c) PROVE IInv'
  <2>1. /\ registered' \subseteq User /\ forked' \subseteq Token
        /\ UNCHANGED <<tableVars, loggedOut, escaped>>
    BY <1>4 DEF Respond, historyVars, IInv, AuthTypeOK
  <2>2. QED
    BY <1>1, <1>4, <2>1, MoveCall DEF Respond
<1>5. QED
  BY <1>2, <1>3, <1>4

-----------------------------------------------------------------------------
\* Every step keeps the invariant.
LEMMA NextKeeps == IInv /\ [AuthNext]_authVars => IInv'
<1> SUFFICES ASSUME IInv, [AuthNext]_authVars PROVE IInv'
  OBVIOUS
<1>1. ASSUME NEW c \in Call, Step(c) PROVE IInv'
  BY <1>1, RegisterKeeps, RefreshFindKeeps, RefreshRevokeKeeps, IssueKeeps, LogoutKeeps
     DEF Step
<1>2. CASE UNCHANGED authVars
  BY <1>2 DEF authVars, tableVars, historyVars, IInv, AuthTypeOK, CallsSound,
              LoggedOutRevoked, RowsOwned, RotationSound, LogoutFinal
<1>3. QED
  BY <1>1, <1>2, ReceiveKeeps, EnvironmentKeeps DEF AuthNext

\* The inductive invariant holds of every behaviour of the service.
THEOREM AuthInvariant == AuthSpec => []IInv
  BY InitIInv, NextKeeps, PTL DEF AuthSpec

\* The columns keep their types.
THEOREM AuthTypeCorrect == AuthSpec => []AuthTypeOK
<1>1. IInv => AuthTypeOK
  BY DEF IInv
<1>2. QED
  BY <1>1, AuthInvariant, PTL

\* Whatever refreshes, logouts and restarts overlap, a rotated token is revoked
\* before its successor exists, and the two belong to the same user.
THEOREM RotationSoundTheorem == AuthSpec => []RotationSound
<1>1. IInv => RotationSound
  BY DEF IInv
<1>2. QED
  BY <1>1, AuthInvariant, PTL

\* A logout is final but for the refreshes it overtakes.
THEOREM LogoutFinalTheorem == AuthSpec => []LogoutFinal
<1>1. IInv => LogoutFinal
  BY DEF IInv
<1>2. QED
  BY <1>1, AuthInvariant, PTL

-----------------------------------------------------------------------------
\* Who still has a token in hand: the refreshes past its check, and the tokens
\* issued for it.
Holds(c, t) == call[c].pc \in {"revoke", "issue"} /\ call[c].token = t
Succeeds(n, t) == n \in issued /\ rotatedFrom[n] = t

\* A token that was never forked is rotated once: one refresh past its check or
\* one successor, never both.
SingleUse ==
    \A t \in Token \ forked :
        /\ \A c, d \in Call : Holds(c, t) /\ Holds(d, t) => c = d
        /\ \A c \in Call, n \in Token : ~(Holds(c, t) /\ Succeeds(n, t))
        /\ \A m, n \in Token : Succeeds(m, t) /\ Succeeds(n, t) => m = n

\* A step that gives no call a token it did not hold and issues nothing.
LEMMA HoldersShrink ==
  ASSUME SingleUse, UNCHANGED <<issued, rotatedFrom>>, forked \subseteq forked',
         \A c \in Call, t \in Token : Holds(c, t)' => Holds(c, t)
  PROVE  SingleUse'
BY DEF SingleUse, Succeeds

\* The check: a token that is valid has no successor and no refresh past its
\* revocation, so a second refresh past the check forks it.
LEMMA FindSingle ==
  ASSUME IInv, SingleUse, NEW c \in Call, RefreshFind(c)
  PROVE  SingleUse'
<1> DEFINE r == call[c].token
<1>1. /\ UNCHANGED <<issued, rotatedFrom>> /\ forked \subseteq forked'
      /\ \A d \in Call \ {c} : call'[d] = call[d]
      /\ call'[c].token = r /\ call'[c].pc \in {"revoke", "rejected"}
      /\ call'[c].pc = "revoke" => Usable(r)
      /\ Usable(r) /\ PastCheck({r}) # {} => r \in forked'
  BY DEF RefreshFind, tableVars, IInv, AuthTypeOK, CallState
<1>2. CASE ~Usable(r)
  BY <1>1, <1>2, HoldersShrink DEF Holds
<1>3. CASE Usable(r)
  <2>1. \A n \in Token : ~Succeeds(n, r)
    BY <1>3, AuthAssumption DEF Usable, Succeeds, IInv, AuthTypeOK, RotationSound
  <2>2. \A d \in Call : ~(call[d].pc = "issue" /\ call[d].token = r)
    BY <1>3, AuthAssumption DEF Usable, IInv, AuthTypeOK, CallsSound
  <2>3. r \notin forked' => \A d \in Call : ~Holds(d, r)
    BY <1>1, <1>3, <2>2 DEF Holds, PastCheck
  <2>4. \A d \in Call, t \in Token : t # r => (Holds(d, t)' => Holds(d, t))
    BY <1>1 DEF Holds
  <2>5. \A d \in Call \ {c}, t \in Token : Holds(d, t)' => Holds(d, t)
    BY <1>1 DEF Holds
  <2>6. \A n, t \in Token : Succeeds(n, t)' => Succeeds(n, t)
    BY <1>1 DEF Succeeds
  <2> SUFFICES ASSUME NEW t \in Token, t \notin forked'
               PROVE  /\ \A a, b \in Call : Holds(a, t)' /\ Holds(b, t)' => a = b
                      /\ \A a \in Call, n \in Token : ~(Holds(a, t)' /\ Succeeds(n, t)')
                      /\ \A m, n \in Token : Succeeds(m, t)' /\ Succeeds(n, t)' => m = n
    BY DEF SingleUse
  <2> HIDE DEF r
  <2>7. /\ \A a, b \in Call : Holds(a, t) /\ Holds(b, t) => a = b
        /\ \A a \in Call, n \in Token : ~(Holds(a, t) /\ Succeeds(n, t))
        /\ \A m, n \in Token : Succeeds(m, t) /\ Succeeds(n, t) => m = n
    BY <1>1 DEF SingleUse
  <2>8. CASE t = r
    BY <2>1, <2>3, <2>5, <2>6, <2>7, <2>8
  <2>9. CASE t # r
    BY <2>4, <2>6, <2>7, <2>9
  <2>10. QED
    BY <2>8, <2>9
<1>4. QED
  BY <1>2, <1>3

\* The new row turns the refresh that holds the token into its successor.
LEMMA IssueSingle ==
  ASSUME IInv, SingleUse, NEW c \in Call, NEW n \in Token, IssueTokenPair(c, n)
  PROVE  SingleUse'
<1> DEFINE r == call[c].token
<1>1. /\ issued' = issued \cup {n} /\ n \notin issued
      /\ rotatedFrom' = [rotatedFrom EXCEPT ![n] = r]
      /\ rotatedFrom \in [Token -> Token \cup {NoToken}]
      /\ forked' = forked /\ call[c].pc = "issue"
      /\ \A d \in Call \ {c} : call'[d] = call[d]
      /\ call'[c].pc = "ok"
  BY DEF IssueTokenPair, IInv, AuthTypeOK, CallState
<1>2. \A d \in Call, t \in Token : Holds(d, t)' => Holds(d, t) /\ d # c
  BY <1>1 DEF Holds
<1>3. \A m, t \in Token : Succeeds(m, t)' => Succeeds(m, t) \/ (m = n /\ t = r)
  BY <1>1 DEF Succeeds
<1>4. Holds(c, r)
  BY <1>1 DEF Holds
<1> HIDE DEF r
<1>5. QED
  BY <1>1, <1>2, <1>3, <1>4 DEF SingleUse

\* Every other step moves calls on without giving one a token to rotate.
LEMMA OthersSingle ==
  ASSUME IInv, SingleUse, [AuthNext]_authVars,
         \A c \in Call : ~RefreshFind(c) /\ \A n \in Token : ~IssueTokenPair(c, n)
  PROVE  SingleUse'
<1>1. ASSUME NEW c \in Call, Receive(c) PROVE SingleUse'
  <2>1. PICK pc \in {"registerFind", "login", "revokeAll", "find", "logoutFind"},
             u \in User \cup {NoUser}, t \in Token \cup {NoToken} : Accept(c, pc, u, t)
    BY <1>1 DEF Receive, ReceiveRegister, ReceiveLogin, ReceiveLogoutAll, ReceiveRefresh,
                ReceiveLogout
  <2>2. UNCHANGED <<issued, rotatedFrom, forked>>
    BY <1>1 DEF Receive, ReceiveRegister, ReceiveLogin, ReceiveLogoutAll, ReceiveRefresh,
                ReceiveLogout, tableVars, historyVars
  <2>3. \A d \in Call, x \in Token : Holds(d, x)' => Holds(d, x)
    BY <2>1 DEF Accept, Holds, IInv, AuthTypeOK
  <2>4. QED
    BY <2>2, <2>3, HoldersShrink
<1>2. ASSUME NEW c \in Call, RegisterFind(c) \/ RegisterCreate(c) \/ LoginVerify(c)
      PROVE  SingleUse'
  <2>1. call[c].token = NoToken
    BY <1>2 DEF RegisterFind, RegisterCreate, LoginVerify, IInv, CallsSound
  <2>2. \E pc \in {"rejected", "registerCreate", "failed", "issue"} : Goto(c, pc)
    BY <1>2 DEF RegisterFind, RegisterCreate, LoginVerify
  <2>3. UNCHANGED <<issued, rotatedFrom, forked>>
    BY <1>2 DEF RegisterFind, RegisterCreate, LoginVerify, tableVars, historyVars
  <2>4. \A d \in Call, x \in Token : Holds(d, x)' => Holds(d, x)
    BY <2>1, <2>2, AuthAssumption DEF Goto, Holds, IInv, AuthTypeOK, CallState
  <2>5. QED
    BY <2>3, <2>4, HoldersShrink
<1>3. ASSUME NEW c \in Call, RefreshRevoke(c) \/ LogoutFind(c) PROVE SingleUse'
  <2>1. UNCHANGED <<issued, rotatedFrom, forked>>
    BY <1>3 DEF RefreshRevoke, LogoutFind, tableVars, historyVars
  <2>2. \A d \in Call, t \in Token : Holds(d, t)' => Holds(d, t)
    BY <1>3 DEF RefreshRevoke, LogoutFind, Goto, Holds, IInv, AuthTypeOK, CallState
  <2>3. QED
    BY <2>1, <2>2, HoldersShrink
<1>4. ASSUME NEW c \in Call, LogoutRevoke(c) \/ RevokeAll(c) PROVE SingleUse'
  <2>1. PICK S : LogOut(c, S)
    BY <1>4 DEF LogoutRevoke, RevokeAll
  <2>2. UNCHANGED <<issued, rotatedFrom, forked>>
    BY <2>1 DEF LogOut
  <2>3. \A d \in Call, t \in Token : Holds(d, t)' => Holds(d, t)
    BY <2>1 DEF LogOut, Holds, IInv, AuthTypeOK, CallState
  <2>4. QED
    BY <2>2, <2>3, HoldersShrink
<1>5. ASSUME NEW c \in Call, Respond(c) PROVE SingleUse'
  BY <1>5, HoldersShrink
     DEF Respond, IdleCall, Holds, tableVars, historyVars, IInv, AuthTypeOK
<1>6. CASE Restart
  BY <1>6, HoldersShrink DEF Restart, IdleCall, Holds, tableVars, historyVars
<1>7. CASE \E t \in Token : Expire(t)
  BY <1>7, HoldersShrink DEF Expire, Holds, historyVars
<1>8. CASE UNCHANGED authVars
  BY <1>8, HoldersShrink DEF authVars, tableVars, historyVars, Holds
<1>9. QED
  BY <1>1, <1>2, <1>3, <1>4, <1>5, <1>6, <1>7, <1>8 DEF AuthNext, Step

\* Whatever is lost, retried or restarted, a token has two successors only if
\* two refreshes had read it as valid before either revoked it.
THEOREM ForksOnlyByOverlapTheorem == AuthSpec => []ForksOnlyByOverlap
<1>1. AuthInit => SingleUse
  BY DEF AuthInit, SingleUse, Holds, Succeeds, IdleCall
<1>2. IInv /\ SingleUse /\ [AuthNext]_authVars => SingleUse'
  BY FindSingle, IssueSingle, OthersSingle
<1>3. IInv /\ SingleUse => ForksOnlyByOverlap
  BY DEF SingleUse, Succeeds, ForksOnlyByOverlap, IInv, AuthTypeOK
<1>4. QED
  BY <1>1, <1>2, <1>3, AuthInvariant, PTL DEF AuthSpec

-----------------------------------------------------------------------------
(***************************************************************************)
(* From here on: the devices.  Every session is one of the service, and a  *)
(* device that is signed in holds a token that nobody else will ever       *)
(* rotate.                                                                 *)
(***************************************************************************)

Signing == {"registerFind", "registerCreate", "login", "issue"}
Refreshing == {"find", "revoke", "issue"}

\* A call that was answered, with a token if it succeeded.
Settled(k) == k.pc \in {"rejected", "failed"} \/ (k.pc = "ok" /\ k.token # NoToken)

\* The call a device waits for is the one it has sent.
SlotSound(d) ==
    slot[d] # NoCall =>
        /\ app[d] = "waiting"
        /\ \/ Settled(call[slot[d]])
           \/ /\ request[d] # "refresh" /\ call[slot[d]].pc \in Signing
              /\ call[slot[d]].user = UserOf[d] /\ call[slot[d]].token = NoToken
           \/ /\ request[d] = "refresh" /\ call[slot[d]].pc \in Refreshing
              /\ call[slot[d]].token = stored[d]

SlotsSound ==
    /\ \A d \in Device : SlotSound(d)
    /\ \A d, e \in Device : slot[d] # NoCall /\ slot[d] = slot[e] => d = e

\* A stored token has a row; a device that is signed in, or refreshes, stores one;
\* one that will retry may.
DeviceSound(d) ==
    /\ stored[d] # NoToken => stored[d] \in issued /\ userId[stored[d]] = UserOf[d]
    /\ app[d] = "signedIn" => stored[d] # NoToken
    /\ app[d] \in {"waiting", "backoff"} => request[d] # "none"
    /\ app[d] \in {"waiting", "backoff"} /\ request[d] = "refresh" => stored[d] # NoToken
    /\ app[d] = "backoff" => attempt[d] < MaxRetries

DevicesSound == \A d \in Device : DeviceSound(d)

\* No call has a token that was not issued.
CallsKnown ==
    /\ \A c \in Call : call[c].pc \in {"find", "logoutRevoke"} => call[c].token \in issued
    /\ revoked \subseteq issued

\* The newest token of a device: stored when it is signed in, or on its way to it.
Held(d, t) ==
    \/ app[d] = "signedIn" /\ stored[d] = t
    \/ slot[d] # NoCall /\ call[slot[d]].pc = "ok" /\ call[slot[d]].token = t

\* Nobody has rotated a token, and no refresh that runs will.
Unused(t) ==
    /\ \A n \in issued : rotatedFrom[n] # t
    /\ \A c \in Call : call[c].pc \in Refreshing => call[c].token # t
    /\ t \in revoked => t \in loggedOut

Newest(d, t) ==
    /\ t \in issued /\ userId[t] = UserOf[d]
    /\ Unused(t)
    /\ \A e \in Device \ {d} : stored[e] # t /\ ~Held(e, t)

HeldSound == \A d \in Device, t \in Token : Held(d, t) => Newest(d, t)

DeviceTypeOK ==
    /\ stored \in [Device -> Token \cup {NoToken}]
    /\ app \in [Device -> {"start", "signedOut", "signedIn", "waiting", "backoff"}]
    /\ request \in [Device -> {"none", "register", "login", "refresh"}]
    /\ attempt \in [Device -> 0..MaxRetries]
    /\ slot \in [Device -> Call \cup {NoCall}]

\* SignedInTokenCurrent is not inductive: an answer on its way, a request that was
\* given up and still runs, and a second device could each undo it.
SessionsInv ==
    DeviceTypeOK /\ SlotsSound /\ DevicesSound /\ CallsKnown /\ HeldSound

-----------------------------------------------------------------------------
\* What a device does is a step of the service, or none.
LEMMA ServiceStep ==
  ASSUME [Next]_vars, AuthTypeOK, DeviceTypeOK, DevicesSound
  PROVE  [AuthNext]_authVars
<1> USE SessionsAssumption DEF DeviceTypeOK
<1>1. ASSUME NEW d \in Device, NEW c \in Call, NEW kind, Send(d, kind, c),
             kind \in {"register", "login", "refresh"}, kind = "refresh" => stored[d] # NoToken
      PROVE  Receive(c)
  <2>1. UserOf[d] \in User /\ (kind = "refresh" => stored[d] \in Token)
    BY <1>1
  <2>2. CASE kind = "register"
    BY <1>1, <2>1, <2>2 DEF Send, Receive
  <2>3. CASE kind = "login"
    BY <1>1, <2>1, <2>3 DEF Send, Receive
  <2>4. CASE kind = "refresh"
    BY <1>1, <2>1, <2>4 DEF Send, Receive
  <2>5. QED
    BY <1>1, <2>2, <2>3, <2>4
<1>2. ASSUME NEW d \in Device, DeviceStep(d)
      PROVE  [AuthNext]_authVars
  <2>1. CASE Bootstrap(d)
    BY <1>1, <2>1 DEF Bootstrap, AuthNext
  <2>2. CASE Retry(d)
    BY <1>1, <2>2 DEF Retry, AuthNext, DevicesSound, DeviceSound
  <2>3. CASE Deliver(d)
    BY <2>3 DEF Deliver, AuthNext
  <2>4. CASE LoseReply(d) \/ ConnectionClosed(d)
    BY <2>4 DEF LoseReply, ConnectionClosed
  <2>5. QED
    BY <1>2, <2>1, <2>2, <2>3, <2>4 DEF DeviceStep
<1>3. ASSUME NEW d \in Device, SignIn(d) \/ Logout(d) \/ AppRestart(d)
      PROVE  [AuthNext]_authVars
  <2>1. CASE SignIn(d)
    BY <1>1, <2>1 DEF SignIn, AuthNext
  <2>2. CASE Logout(d) \/ AppRestart(d)
    BY <2>2 DEF Logout, AppRestart
  <2>3. QED
    BY <1>3, <2>1, <2>2
<1>4. ASSUME NEW c \in Call, ServerStep(c) \/ DropAnswer(c)
      PROVE  [AuthNext]_authVars
  BY <1>4 DEF ServerStep, DropAnswer, AuthNext
<1>5. ASSUME NEW c \in Call, LogoutRequest(c)
      PROVE  [AuthNext]_authVars
  BY <1>5 DEF LogoutRequest, AuthNext, Receive, AuthTypeOK
<1>6. CASE ServerRestart \/ \E t \in Token : Expire(t)
  BY <1>6 DEF ServerRestart, AuthNext
<1>7. CASE UNCHANGED vars
  BY <1>7 DEF vars
<1>8. QED
  BY <1>2, <1>3, <1>4, <1>5, <1>6, <1>7 DEF Next

\* A step that gives no device a new token leaves the newest tokens alone, if no
\* call is given one of them.
LEMMA NewestFrame ==
  ASSUME HeldSound, issued \subseteq issued', \A t \in issued : userId'[t] = userId[t],
         \A d \in Device, t \in Token : Held(d, t)' => Held(d, t),
         \A e \in Device, t \in Token : stored'[e] = t => stored[e] = t \/ Held(e, t),
         \A d \in Device, t \in Token : Held(d, t) /\ Newest(d, t) => Unused(t)'
  PROVE  HeldSound'
<1> SUFFICES ASSUME NEW d \in Device, NEW t \in Token, Held(d, t)'
             PROVE  Newest(d, t)'
  BY DEF HeldSound
<1>1. Held(d, t) /\ Newest(d, t) /\ Unused(t)'
  BY DEF HeldSound
<1>2. t \in issued' /\ userId'[t] = UserOf[d]
  BY <1>1 DEF Newest
<1>3. \A e \in Device \ {d} : stored'[e] # t /\ ~Held(e, t)'
  BY <1>1 DEF Newest
<1>4. QED
  BY <1>1, <1>2, <1>3 DEF Newest

\* Whatever ends or interrupts the request of a device: the device waits no more,
\* and stores what it stored, nothing, or the token it was waiting for.
LEMMA RequestOver ==
  ASSUME AuthTypeOK, SessionsInv, NEW d \in Device, DeviceTypeOK',
         slot'[d] = NoCall, app'[d] # "waiting",
         \A e \in Device \ {d} : /\ app'[e] = app[e] /\ stored'[e] = stored[e]
                                 /\ request'[e] = request[e] /\ attempt'[e] = attempt[e]
                                 /\ slot'[e] = slot[e],
         UNCHANGED <<tableVars, loggedOut>>,
         \A c \in Call : \/ call'[c] = call[c]
                         \/ call'[c] = IdleCall /\ \A e \in Device \ {d} : slot[e] # c,
         stored'[d] \in {stored[d], NoToken} \/ Held(d, stored'[d]),
         app'[d] = "signedIn" => stored'[d] # NoToken /\ Held(d, stored'[d]),
         app'[d] = "backoff" => /\ request'[d] # "none" /\ attempt'[d] < MaxRetries
                                /\ request'[d] = "refresh" => stored'[d] # NoToken
  PROVE  SessionsInv'
<1> USE SessionsAssumption, AuthAssumption
<1>1. /\ DeviceTypeOK /\ SlotsSound /\ DevicesSound /\ CallsKnown /\ HeldSound
      /\ UNCHANGED <<issued, userId, rotatedFrom, revoked, loggedOut>>
  BY DEF SessionsInv, tableVars
<1> DEFINE w == stored'[d]
<1>2. w \in Token \cup {NoToken}
  BY DEF DeviceTypeOK
<1>4. \A e \in Device \ {d} : /\ app'[e] = app[e] /\ stored'[e] = stored[e]
                              /\ request'[e] = request[e] /\ attempt'[e] = attempt[e]
                              /\ slot'[e] = slot[e]
                              /\ slot[e] # NoCall => call'[slot[e]] = call[slot[e]]
  BY <1>1 DEF DeviceTypeOK
<1>5. SlotsSound'
  <2>1. ASSUME NEW e \in Device PROVE SlotSound(e)'
    <3>1. CASE e = d
      BY <1>4, <3>1 DEF SlotSound
    <3>2. CASE e # d
      BY <1>1, <1>4, <3>2 DEF SlotsSound, SlotSound
    <3>3. QED
      BY <3>1, <3>2
  <2>2. QED
    BY <1>1, <1>4, <2>1 DEF SlotsSound
<1>6. DevicesSound'
  <2> SUFFICES ASSUME NEW e \in Device PROVE DeviceSound(e)'
    BY DEF DevicesSound
  <2>1. CASE e = d
    <3>1. w # NoToken => w \in issued /\ userId[w] = UserOf[d]
      <4>1. CASE w = stored[d]
        BY <1>1, <4>1 DEF DevicesSound, DeviceSound
      <4>2. CASE w \in Token /\ Held(d, w)
        BY <1>1, <4>2 DEF HeldSound, Newest
      <4>3. QED
        BY <1>2, <4>1, <4>2
    <3>2. QED
      BY <1>1, <1>4, <2>1, <3>1 DEF DeviceSound
  <2>2. CASE e # d
    BY <1>1, <1>4, <2>2 DEF DevicesSound, DeviceSound
  <2>3. QED
    BY <2>1, <2>2
<1>7. \A c \in Call : call'[c] = call[c] \/ call'[c].pc = "idle"
  BY DEF IdleCall
<1>8. CallsKnown'
  BY <1>1, <1>7 DEF CallsKnown
<1>9. \A e \in Device, t \in Token : Held(e, t)' => Held(e, t)
  <2> SUFFICES ASSUME NEW e \in Device, NEW t \in Token, Held(e, t)' PROVE Held(e, t)
    OBVIOUS
  <2>1. CASE e = d
    BY <1>4, <2>1 DEF Held
  <2>2. CASE e # d
    BY <1>4, <2>2 DEF Held
  <2>3. QED
    BY <2>1, <2>2
<1>10. \A e \in Device, t \in Token : stored'[e] = t => stored[e] = t \/ Held(e, t)
  BY <1>4
<1>11. \A e \in Device, t \in Token : Newest(e, t) => Unused(t)'
  BY <1>1, <1>7 DEF Newest, Unused, Refreshing
<1>12. HeldSound'
  BY <1>1, <1>9, <1>10, <1>11, NewestFrame
<1>13. QED
  BY <1>5, <1>6, <1>8, <1>12 DEF SessionsInv

\* A request is sent, by a device that neither waits nor is signed in.
LEMMA SendKeeps ==
  ASSUME AuthTypeOK, SessionsInv, NEW d \in Device, NEW kind \in {"register", "login", "refresh"},
         NEW c \in Call, Send(d, kind, c), UNCHANGED stored,
         attempt' \in [Device -> 0..MaxRetries],
         \A e \in Device \ {d} : attempt'[e] = attempt[e],
         app[d] \in {"start", "signedOut", "backoff"},
         kind = "refresh" => stored[d] # NoToken
  PROVE  SessionsInv'
<1> USE SessionsAssumption, AuthAssumption
<1>1. /\ DeviceTypeOK /\ SlotsSound /\ DevicesSound /\ CallsKnown /\ HeldSound
      /\ slot' = [slot EXCEPT ![d] = c] /\ app' = [app EXCEPT ![d] = "waiting"]
      /\ request' = [request EXCEPT ![d] = kind] /\ stored' = stored
  BY DEF SessionsInv, Send
<1>2. PICK pc \in Running, u \in User \cup {NoUser}, t \in Token \cup {NoToken} :
         /\ Accept(c, pc, u, t)
         /\ kind # "refresh" => pc \in {"registerFind", "login"} /\ u = UserOf[d] /\ t = NoToken
         /\ kind = "refresh" => pc = "find" /\ t = stored[d]
         /\ UNCHANGED <<registered, tableVars, historyVars>>
  <2>1. UserOf[d] \in User /\ stored[d] \in Token \cup {NoToken}
    BY <1>1 DEF DeviceTypeOK
  <2>2. CASE kind = "register"
    BY <2>1, <2>2 DEF Send, ReceiveRegister, Running
  <2>3. CASE kind = "login"
    BY <2>1, <2>3 DEF Send, ReceiveLogin, Running
  <2>4. CASE kind = "refresh"
    BY <2>1, <2>4 DEF Send, ReceiveRefresh, Running
  <2>5. QED
    BY <2>2, <2>3, <2>4
<1>3. /\ call[c].pc = "idle" /\ call'[c].pc = pc /\ call'[c].user = u /\ call'[c].token = t
      /\ \A x \in Call \ {c} : call'[x] = call[x]
      /\ UNCHANGED <<issued, userId, rotatedFrom, revoked, loggedOut>>
  BY <1>2 DEF Accept, AuthTypeOK, tableVars, historyVars
<1>4. slot[d] = NoCall /\ app[d] \notin {"waiting", "signedIn"}
  BY <1>1 DEF SlotsSound, SlotSound
<1>5. \A e \in Device : slot[e] # c
  BY <1>1, <1>3 DEF SlotsSound, SlotSound, Settled, Signing, Refreshing
<1>6. /\ slot'[d] = c /\ app'[d] = "waiting" /\ request'[d] = kind
      /\ \A e \in Device \ {d} : /\ app'[e] = app[e] /\ request'[e] = request[e]
                                 /\ attempt'[e] = attempt[e] /\ slot'[e] = slot[e]
                                 /\ slot[e] # NoCall => call'[slot[e]] = call[slot[e]]
  BY <1>1, <1>3, <1>5 DEF DeviceTypeOK
<1>7. DeviceTypeOK'
  BY <1>1 DEF DeviceTypeOK
<1>8. SlotsSound'
  <2>1. ASSUME NEW e \in Device PROVE SlotSound(e)'
    <3>1. CASE e = d
      BY <1>1, <1>2, <1>3, <1>6, <3>1 DEF SlotSound, Signing, Refreshing
    <3>2. CASE e # d
      BY <1>1, <1>6, <3>2 DEF SlotsSound, SlotSound
    <3>3. QED
      BY <3>1, <3>2
  <2>2. QED
    BY <1>1, <1>5, <1>6, <2>1 DEF SlotsSound
<1>9. DevicesSound'
  <2> SUFFICES ASSUME NEW e \in Device PROVE DeviceSound(e)'
    BY DEF DevicesSound
  <2>1. CASE e = d
    BY <1>1, <1>3, <1>6, <2>1 DEF DevicesSound, DeviceSound
  <2>2. CASE e # d
    BY <1>1, <1>3, <1>6, <2>2 DEF DevicesSound, DeviceSound
  <2>3. QED
    BY <2>1, <2>2
<1>10. CallsKnown'
  <2>1. pc = "find" => t \in issued
    BY <1>1, <1>2 DEF DevicesSound, DeviceSound
  <2>2. pc # "logoutRevoke"
    BY <1>2
  <2>3. QED
    BY <1>1, <1>3, <2>1, <2>2 DEF CallsKnown
<1>11. \A e \in Device, x \in Token : Held(e, x)' => Held(e, x)
  <2> SUFFICES ASSUME NEW e \in Device, NEW x \in Token, Held(e, x)' PROVE Held(e, x)
    OBVIOUS
  <2>1. CASE e = d
    BY <1>2, <1>3, <1>6, <2>1 DEF Held
  <2>2. CASE e # d
    BY <1>1, <1>6, <2>2 DEF Held
  <2>3. QED
    BY <2>1, <2>2
<1>12. ASSUME NEW e \in Device, NEW x \in Token, Held(e, x), Newest(e, x)
       PROVE  Unused(x)'
  <2>1. e # d
    BY <1>4, <1>12 DEF Held
  <2>2. stored[d] # x
    BY <1>12, <2>1 DEF Newest
  <2>3. ~(pc \in Refreshing /\ t = x)
    BY <1>2, <2>2 DEF Refreshing
  <2>4. QED
    BY <1>3, <1>12, <2>3 DEF Newest, Unused
<1>13. HeldSound'
  BY <1>1, <1>3, <1>11, <1>12, NewestFrame
<1>14. QED
  BY <1>7, <1>8, <1>9, <1>10, <1>13 DEF SessionsInv

-----------------------------------------------------------------------------
\* How one call moves on, and what a step of the server leaves alone.
Advances(c) ==
    /\ UNCHANGED deviceVars
    /\ \A x \in Call \ {c} : /\ call'[x].pc = call[x].pc /\ call'[x].user = call[x].user
                             /\ call'[x].token = call[x].token
    /\ call[c].pc \in Running
    /\ call[c].pc \in Signing =>
          \/ Settled(call'[c])
          \/ /\ call'[c].pc \in Signing
             /\ call'[c].user = call[c].user /\ call'[c].token = call[c].token
    /\ call[c].pc \in Refreshing =>
          \/ Settled(call'[c])
          \/ call'[c].pc \in {"revoke", "issue"} /\ call'[c].token = call[c].token
    /\ issued \subseteq issued' /\ \A t \in issued : userId'[t] = userId[t]

\* The devices do not notice.
LEMMA AdvanceFacts ==
  ASSUME SessionsInv, NEW c \in Call, Advances(c)
  PROVE  DeviceTypeOK' /\ SlotsSound' /\ DevicesSound'
<1> USE SessionsAssumption, AuthAssumption
<1>1. /\ DeviceTypeOK /\ SlotsSound /\ DevicesSound
      /\ UNCHANGED <<stored, app, request, attempt, slot>>
  BY DEF SessionsInv, Advances, deviceVars
<1>2. DeviceTypeOK'
  BY <1>1 DEF DeviceTypeOK
<1>3. ASSUME NEW d \in Device PROVE SlotSound(d)'
  <2>1. CASE slot[d] = NoCall
    BY <1>1, <2>1 DEF SlotSound
  <2>2. CASE slot[d] = c
    <3>1. ~Settled(call[c])
      BY DEF Advances, Running, Settled
    <3>2. SlotSound(d) /\ c # NoCall
      BY <1>1 DEF SlotsSound
    <3>3. \/ /\ request[d] # "refresh" /\ call[c].pc \in Signing
             /\ call[c].user = UserOf[d] /\ call[c].token = NoToken
          \/ /\ request[d] = "refresh" /\ call[c].pc \in Refreshing
             /\ call[c].token = stored[d]
      BY <2>2, <3>1, <3>2 DEF SlotSound
    <3>4. \/ Settled(call'[c])
          \/ /\ request[d] # "refresh" /\ call'[c].pc \in Signing
             /\ call'[c].user = UserOf[d] /\ call'[c].token = NoToken
          \/ /\ request[d] = "refresh" /\ call'[c].pc \in {"revoke", "issue"}
             /\ call'[c].token = stored[d]
      BY <3>3 DEF Advances
    <3>5. app[d] = "waiting"
      BY <2>2, <3>2 DEF SlotSound
    <3>6. QED
      BY <1>1, <2>2, <3>4, <3>5 DEF SlotSound, Refreshing
  <2>3. CASE slot[d] # NoCall /\ slot[d] # c
    <3>1. slot[d] \in Call \ {c} /\ SlotSound(d)
      BY <1>1, <2>3 DEF DeviceTypeOK, SlotsSound
    <3>2. /\ call'[slot[d]].pc = call[slot[d]].pc /\ call'[slot[d]].user = call[slot[d]].user
          /\ call'[slot[d]].token = call[slot[d]].token
      BY <3>1 DEF Advances
    <3>3. QED
      BY <1>1, <3>1, <3>2 DEF SlotSound, Settled
  <2>4. QED
    BY <2>1, <2>2, <2>3
<1>4. SlotsSound'
  BY <1>1, <1>3 DEF SlotsSound
<1>5. DevicesSound'
  BY <1>1 DEF DevicesSound, DeviceSound, Advances
<1>6. QED
  BY <1>2, <1>4, <1>5

\* A step that issues no token, gives no refresh a token, and revokes none that is
\* a device's newest but by a logout.
LEMMA AdvanceKeeps ==
  ASSUME SessionsInv, NEW c \in Call, Advances(c), UNCHANGED <<issued, rotatedFrom>>,
         call'[c].pc = "ok" => call[c].pc \in {"logoutRevoke", "revokeAll"},
         call'[c].pc \in Refreshing =>
            \/ call'[c].token = NoToken
            \/ call[c].pc \in Refreshing /\ call'[c].token = call[c].token,
         call'[c].pc \in {"find", "logoutRevoke"} => call'[c].token \in issued,
         revoked' \subseteq issued, loggedOut \subseteq loggedOut',
         \A t \in Token : t \in revoked' =>
            \/ t \in revoked \/ t \in loggedOut'
            \/ \E x \in Call : call[x].pc \in Refreshing /\ call[x].token = t
  PROVE  SessionsInv'
<1> USE AuthAssumption
<1>1. CallsKnown /\ HeldSound /\ SlotsSound
  BY DEF SessionsInv
<1>2. CallsKnown'
  BY <1>1 DEF CallsKnown, Advances
<1>3. \A d \in Device : slot[d] = c => call'[c].pc # "ok"
  BY <1>1, SessionsAssumption
     DEF SlotsSound, SlotSound, Signing, Refreshing, Settled, Advances, Running
<1>4. \A d \in Device, t \in Token : Held(d, t)' => Held(d, t)
  <2> SUFFICES ASSUME NEW d \in Device, NEW t \in Token, Held(d, t)' PROVE Held(d, t)
    OBVIOUS
  <2>1. UNCHANGED <<app, stored, slot>> /\ slot[d] \in Call \cup {NoCall}
    BY DEF Advances, deviceVars, SessionsInv, DeviceTypeOK
  <2>2. slot[d] \in Call \ {c} => /\ call'[slot[d]].pc = call[slot[d]].pc
                                  /\ call'[slot[d]].token = call[slot[d]].token
    BY DEF Advances
  <2>3. QED
    BY <1>3, <2>1, <2>2 DEF Held
<1>5. ASSUME NEW d \in Device, NEW t \in Token, Newest(d, t)
      PROVE  Unused(t)'
  <2>1. Unused(t)
    BY <1>5 DEF Newest
  <2>2. \A n \in issued' : rotatedFrom'[n] # t
    BY <2>1 DEF Unused
  <2>3. \A x \in Call : call'[x].pc \in Refreshing => call'[x].token # t
    BY <2>1 DEF Unused, Advances
  <2>4. t \in revoked' => t \in loggedOut'
    BY <2>1 DEF Unused
  <2>5. QED
    BY <2>2, <2>3, <2>4 DEF Unused
<1>6. \A e \in Device, t \in Token : stored'[e] = t => stored[e] = t
  BY DEF Advances, deviceVars
<1>7. HeldSound'
  BY <1>1, <1>4, <1>5, <1>6, NewestFrame DEF Advances
<1>8. QED
  BY <1>2, <1>7, AdvanceFacts DEF SessionsInv

\* Steps of the server that write no row of a token.
LEMMA PlainStepKeeps ==
  ASSUME IInv, SessionsInv, NEW c \in Call, UNCHANGED deviceVars,
         RegisterFind(c) \/ RegisterCreate(c) \/ LoginVerify(c) \/ RefreshFind(c) \/ LogoutFind(c)
  PROVE  SessionsInv'
<1> USE AuthAssumption
<1>1. /\ call \in [Call -> CallState] /\ CallsSound /\ CallsKnown
  BY DEF IInv, AuthTypeOK, SessionsInv
<1>2. PICK pc \in Running \cup Answered :
         /\ call'[c].pc = pc /\ call'[c].token = call[c].token
         /\ call[c].pc # "find" => call'[c].user = call[c].user
         /\ \A x \in Call \ {c} : call'[x] = call[x]
         /\ \/ call[c].pc = "registerFind" /\ pc \in {"rejected", "registerCreate"}
            \/ call[c].pc = "registerCreate" /\ pc \in {"failed", "issue"}
            \/ call[c].pc = "login" /\ pc \in {"rejected", "issue"}
            \/ call[c].pc = "find" /\ pc \in {"rejected", "revoke"}
            \/ /\ call[c].pc = "logoutFind" /\ pc \in {"rejected", "logoutRevoke"}
               /\ pc = "logoutRevoke" => call[c].token \in issued
         /\ UNCHANGED <<tableVars, loggedOut>>
  <2>1. CASE RegisterFind(c)
    BY <1>1, <2>1 DEF RegisterFind, Goto, CallState, historyVars, Running, Answered
  <2>2. CASE RegisterCreate(c)
    BY <1>1, <2>2 DEF RegisterCreate, Goto, CallState, historyVars, Running, Answered
  <2>3. CASE LoginVerify(c)
    BY <1>1, <2>3 DEF LoginVerify, Goto, CallState, historyVars, Running, Answered
  <2>4. CASE RefreshFind(c)
    BY <1>1, <2>4 DEF RefreshFind, CallState, Running, Answered
  <2>5. CASE LogoutFind(c)
    BY <1>1, <2>5 DEF LogoutFind, Goto, CallState, historyVars, Running, Answered
  <2>6. QED
    BY <2>1, <2>2, <2>3, <2>4, <2>5
<1>3. UNCHANGED <<issued, userId, rotatedFrom, revoked, loggedOut>>
  BY <1>2 DEF tableVars
<1>4. Advances(c)
  BY <1>2, <1>3 DEF Advances, Running, Settled, Signing, Refreshing
<1>5. call'[c].pc \in Refreshing => \/ call'[c].token = NoToken
                                    \/ call[c].pc \in Refreshing /\ call'[c].token = call[c].token
  BY <1>1, <1>2 DEF CallsSound, Refreshing
<1>6. call'[c].pc # "ok" /\ (call'[c].pc \in {"find", "logoutRevoke"} => call'[c].token \in issued)
  BY <1>2
<1>7. revoked' \subseteq issued
  BY <1>1, <1>3 DEF CallsKnown
<1>8. QED
  BY <1>3, <1>4, <1>5, <1>6, <1>7, AdvanceKeeps

\* The revocation of the old token: a refresh of it runs, so no device has it newest.
LEMMA RevokeKeepsSessions ==
  ASSUME IInv, SessionsInv, NEW c \in Call, UNCHANGED deviceVars, RefreshRevoke(c)
  PROVE  SessionsInv'
<1>1. /\ call \in [Call -> CallState] /\ CallsSound /\ CallsKnown
  BY DEF IInv, AuthTypeOK, SessionsInv
<1>2. /\ call[c].pc = "revoke" /\ call'[c].pc = "issue" /\ call'[c].token = call[c].token
      /\ call'[c].user = call[c].user
      /\ \A x \in Call \ {c} : call'[x] = call[x]
      /\ revoked' = revoked \cup {call[c].token}
      /\ UNCHANGED <<issued, userId, rotatedFrom, loggedOut>>
  BY <1>1 DEF RefreshRevoke, Goto, CallState, historyVars
<1>3. Advances(c)
  BY <1>2 DEF Advances, Running, Signing, Refreshing
<1>4. call[c].token \in issued
  BY <1>1, <1>2 DEF CallsSound
<1>5. revoked' \subseteq issued
  BY <1>1, <1>2, <1>4 DEF CallsKnown
<1>6. call[c].pc \in Refreshing
  BY <1>2 DEF Refreshing
<1>7. QED
  BY <1>2, <1>3, <1>5, <1>6, AdvanceKeeps

\* The writes of logout and logout-all.
LEMMA LogOutKeepsSessions ==
  ASSUME IInv, SessionsInv, NEW c \in Call, UNCHANGED deviceVars, LogoutRevoke(c) \/ RevokeAll(c)
  PROVE  SessionsInv'
<1>1. /\ call \in [Call -> CallState] /\ CallsKnown /\ issued \subseteq Token
  BY DEF IInv, AuthTypeOK, SessionsInv
<1>2. PICK S \in SUBSET issued : LogOut(c, S) /\ call[c].pc \in {"logoutRevoke", "revokeAll"}
  BY <1>1 DEF LogoutRevoke, RevokeAll, CallsKnown, TokensOf
<1>3. /\ revoked' = revoked \cup S /\ loggedOut' = loggedOut \cup (S \ revoked)
      /\ UNCHANGED <<issued, userId, rotatedFrom>>
  BY <1>2 DEF LogOut
<1>4. /\ call'[c].pc = "ok"
      /\ \A x \in Call \ {c} : /\ call'[x].pc = call[x].pc /\ call'[x].user = call[x].user
                               /\ call'[x].token = call[x].token
  BY <1>1, <1>2 DEF LogOut, CallState
<1>5. Advances(c)
  BY <1>2, <1>3, <1>4 DEF Advances, Running, Signing, Refreshing
<1>6. revoked' \subseteq issued
  BY <1>1, <1>3 DEF CallsKnown
<1>7. \A t \in Token : t \in revoked' => t \in revoked \/ t \in loggedOut'
  BY <1>3
<1>8. QED
  BY <1>2, <1>3, <1>4, <1>5, <1>6, <1>7, AdvanceKeeps DEF Refreshing

\* The row of a new token: it is the newest of the device that waits for it, if one does.
LEMMA IssueKeepsSessions ==
  ASSUME IInv, SessionsInv, NEW c \in Call, NEW n \in Token, UNCHANGED deviceVars,
         IssueTokenPair(c, n)
  PROVE  SessionsInv'
<1> USE AuthAssumption, SessionsAssumption
<1>1. /\ call \in [Call -> CallState] /\ CallsSound /\ CallsKnown /\ RotationSound
      /\ HeldSound /\ SlotsSound /\ DevicesSound /\ DeviceTypeOK
      /\ userId \in [Token -> User \cup {NoUser}]
      /\ rotatedFrom \in [Token -> Token \cup {NoToken}] /\ issued \subseteq Token
  BY DEF IInv, AuthTypeOK, SessionsInv
<1>2. /\ call[c].pc = "issue" /\ call'[c].pc = "ok" /\ call'[c].token = n
      /\ \A x \in Call \ {c} : call'[x] = call[x]
      /\ n \notin issued /\ issued' = issued \cup {n}
      /\ userId'[n] = call[c].user /\ rotatedFrom'[n] = call[c].token
      /\ \A t \in issued : userId'[t] = userId[t] /\ rotatedFrom'[t] = rotatedFrom[t]
      /\ UNCHANGED <<revoked, loggedOut>>
  BY <1>1 DEF IssueTokenPair, CallState
<1>3. UNCHANGED <<stored, app, request, attempt, slot>>
  BY DEF deviceVars
<1>4. Advances(c)
  BY <1>2 DEF Advances, Running, Settled
<1>5. CallsKnown'
  BY <1>1, <1>2 DEF CallsKnown
<1>6. ASSUME NEW t \in issued, Unused(t)
      PROVE  Unused(t)'
  <2>1. rotatedFrom'[n] # t
    BY <1>2, <1>6 DEF Unused, Refreshing
  <2>2. QED
    BY <1>2, <1>6, <2>1 DEF Unused, Refreshing
<1>7. Unused(n)'
  <2>1. \A m \in issued : rotatedFrom[m] # n
    BY <1>1, <1>2 DEF RotationSound
  <2>2. \A x \in Call : call[x].pc \in Refreshing => call[x].token # n
    BY <1>1, <1>2 DEF CallsSound, CallsKnown, Refreshing
  <2>3. n \notin revoked
    BY <1>1, <1>2 DEF CallsKnown
  <2>4. call[c].token # n
    BY <1>2, <2>2 DEF Refreshing
  <2>5. \A x \in Call : call'[x].pc \in Refreshing => call'[x].token # n
    BY <1>2, <2>2 DEF Refreshing
  <2>6. QED
    BY <1>2, <2>1, <2>3, <2>4, <2>5 DEF Unused
<1>8. \A e \in Device : stored[e] # n
  BY <1>1, <1>2 DEF DevicesSound, DeviceSound
<1>9. ASSUME NEW d \in Device, NEW t \in Token, Held(d, t)', ~Held(d, t)
      PROVE  slot[d] = c /\ t = n
  BY <1>1, <1>2, <1>3, <1>9 DEF Held, DeviceTypeOK
<1>10. ASSUME NEW d \in Device, slot[d] = c PROVE call[c].user = UserOf[d]
  <2>1. \/ call[c].user = UserOf[d]
        \/ call[c].token = stored[d] /\ request[d] = "refresh" /\ app[d] = "waiting"
    BY <1>1, <1>2, <1>10 DEF SlotsSound, SlotSound, Settled
  <2>2. CASE call[c].token = stored[d] /\ request[d] = "refresh" /\ app[d] = "waiting"
    BY <1>1, <1>2, <2>2 DEF DevicesSound, DeviceSound, CallsSound
  <2>3. QED
    BY <2>1, <2>2
<1>11. HeldSound'
  <2> SUFFICES ASSUME NEW d \in Device, NEW t \in Token, Held(d, t)' PROVE Newest(d, t)'
    BY DEF HeldSound
  <2>1. CASE Held(d, t)
    <3>1. Newest(d, t) /\ t \in issued
      BY <1>1, <2>1 DEF HeldSound, Newest
    <3>2. \A e \in Device \ {d} : stored'[e] # t /\ ~Held(e, t)'
      BY <1>2, <1>3, <1>9, <3>1 DEF Newest
    <3>3. Unused(t)'
      BY <1>6, <3>1 DEF Newest
    <3>4. QED
      BY <1>2, <3>1, <3>2, <3>3 DEF Newest
  <2>2. CASE ~Held(d, t)
    <3>1. slot[d] = c /\ t = n
      BY <1>9, <2>2
    <3>2. ASSUME NEW e \in Device \ {d} PROVE ~Held(e, n)'
      <4>1. slot[e] # c
        BY <1>1, <3>1 DEF SlotsSound
      <4>2. ~Held(e, n)
        BY <1>1, <1>2 DEF HeldSound, Newest
      <4>3. QED
        BY <1>9, <4>1, <4>2
    <3>3. QED
      BY <1>2, <1>3, <1>7, <1>8, <1>10, <3>1, <3>2 DEF Newest
  <2>3. QED
    BY <2>1, <2>2
<1>12. QED
  BY <1>4, <1>5, <1>11, AdvanceFacts DEF SessionsInv

-----------------------------------------------------------------------------
\* What does not concern the devices: a logout that somebody asks for, an answer
\* nobody waits for, a token that expires.
LEMMA BystandersKeep ==
  ASSUME AuthTypeOK, SessionsInv, UNCHANGED deviceVars,
         UNCHANGED <<issued, userId, rotatedFrom, revoked, loggedOut>>,
         \A x \in Call : \/ call'[x] = call[x]
                         \/ /\ \A d \in Device : slot[d] # x
                            /\ \/ call'[x].pc \in {"idle", "revokeAll"}
                               \/ call'[x].pc = "logoutFind" /\ call'[x].token \in issued
  PROVE  SessionsInv'
<1> USE SessionsAssumption, AuthAssumption
<1>1. /\ DeviceTypeOK /\ SlotsSound /\ DevicesSound /\ CallsKnown /\ HeldSound
      /\ UNCHANGED <<stored, app, request, attempt, slot>>
  BY DEF SessionsInv, deviceVars
<1>2. \A d \in Device : slot[d] # NoCall => call'[slot[d]] = call[slot[d]]
  BY <1>1 DEF DeviceTypeOK
<1>3. DeviceTypeOK' /\ DevicesSound'
  BY <1>1 DEF DeviceTypeOK, DevicesSound, DeviceSound
<1>4. SlotsSound'
  BY <1>1, <1>2 DEF SlotsSound, SlotSound
<1>5. CallsKnown'
  BY <1>1 DEF CallsKnown
<1>6. \A d \in Device, t \in Token : Held(d, t)' => Held(d, t)
  BY <1>1, <1>2 DEF Held
<1>7. \A d \in Device, t \in Token : Newest(d, t) => Unused(t)'
  BY DEF Newest, Unused, Refreshing
<1>8. HeldSound'
  BY <1>1, <1>6, <1>7, NewestFrame
<1>9. QED
  BY <1>3, <1>4, <1>5, <1>8 DEF SessionsInv

LEMMA OutsideKeeps ==
  ASSUME AuthTypeOK, SessionsInv,
         \/ \E c \in Call : DropAnswer(c) \/ LogoutRequest(c)
         \/ (\E t \in Token : Expire(t)) /\ UNCHANGED deviceVars
         \/ UNCHANGED vars
  PROVE  SessionsInv'
<1> USE SessionsAssumption, AuthAssumption
<1>1. ASSUME NEW c \in Call, DropAnswer(c) PROVE SessionsInv'
  <2>1. /\ call'[c].pc = "idle" /\ \A x \in Call \ {c} : call'[x] = call[x]
        /\ \A d \in Device : slot[d] # c
        /\ UNCHANGED deviceVars /\ UNCHANGED <<issued, userId, rotatedFrom, revoked, loggedOut>>
    BY <1>1 DEF DropAnswer, Orphaned, Respond, IdleCall, AuthTypeOK, tableVars, historyVars
  <2>2. QED
    BY <2>1, BystandersKeep
<1>2. ASSUME NEW c \in Call, LogoutRequest(c) PROVE SessionsInv'
  <2>1. PICK pc \in {"logoutFind", "revokeAll"}, u \in User \cup {NoUser}, t \in Token \cup {NoToken} :
           /\ Accept(c, pc, u, t)
           /\ pc = "logoutFind" => t \in issued
           /\ UNCHANGED <<tableVars, historyVars>>
    BY <1>2 DEF LogoutRequest, ReceiveLogout, ReceiveLogoutAll, AuthTypeOK
  <2>2. /\ call[c].pc = "idle" /\ call'[c].pc = pc /\ call'[c].token = t
        /\ \A x \in Call \ {c} : call'[x] = call[x]
        /\ UNCHANGED <<issued, userId, rotatedFrom, revoked, loggedOut>>
    BY <2>1 DEF Accept, AuthTypeOK, tableVars, historyVars
  <2>3. \A d \in Device : slot[d] # c
    BY <2>2 DEF SessionsInv, SlotsSound, SlotSound, Settled, Signing, Refreshing
  <2>4. UNCHANGED deviceVars
    BY <1>2 DEF LogoutRequest
  <2>5. QED
    BY <2>1, <2>2, <2>3, <2>4, BystandersKeep
<1>3. CASE (\E t \in Token : Expire(t)) /\ UNCHANGED deviceVars
  <2>1. UNCHANGED <<issued, userId, rotatedFrom, revoked, loggedOut, call>>
    BY <1>3 DEF Expire, historyVars
  <2>2. QED
    BY <1>3, <2>1, BystandersKeep
<1>4. CASE UNCHANGED vars
  <2>1. UNCHANGED deviceVars /\ UNCHANGED <<issued, userId, rotatedFrom, revoked, loggedOut, call>>
    BY <1>4 DEF vars, authVars, tableVars, historyVars
  <2>2. QED
    BY <2>1, BystandersKeep
<1>5. QED
  BY <1>1, <1>2, <1>3, <1>4

\* The server process dies: every device waits for an answer that will not come.
LEMMA ServerRestartKeeps ==
  ASSUME SessionsInv, ServerRestart
  PROVE  SessionsInv'
<1>1. /\ DeviceTypeOK /\ DevicesSound /\ CallsKnown /\ HeldSound
      /\ UNCHANGED <<stored, app, request, attempt>>
      /\ UNCHANGED <<issued, userId, rotatedFrom, revoked, loggedOut>>
      /\ \A d \in Device : slot'[d] = NoCall
      /\ \A c \in Call : call'[c].pc = "idle"
  BY DEF SessionsInv, ServerRestart, Restart, tableVars, historyVars, IdleCall
<1>2. DeviceTypeOK' /\ DevicesSound'
  BY <1>1 DEF DeviceTypeOK, DevicesSound, DeviceSound, ServerRestart
<1>3. SlotsSound' /\ CallsKnown'
  BY <1>1 DEF SlotsSound, SlotSound, CallsKnown
<1>4. \A d \in Device, t \in Token : Held(d, t)' => Held(d, t)
  BY <1>1 DEF Held
<1>5. \A d \in Device, t \in Token : Newest(d, t) => Unused(t)'
  BY <1>1 DEF Newest, Unused, Refreshing
<1>6. HeldSound'
  BY <1>1, <1>4, <1>5, NewestFrame
<1>7. QED
  BY <1>2, <1>3, <1>6 DEF SessionsInv

\* A request that has failed, and one that is given up.
LEMMA FailedKeeps ==
  ASSUME AuthTypeOK, SessionsInv, NEW d \in Device, app[d] = "waiting",
         GiveUp(d) \/ RetryOrGiveUp(d),
         UNCHANGED <<tableVars, loggedOut>>,
         \A c \in Call : \/ call'[c] = call[c]
                         \/ call'[c] = IdleCall /\ \A e \in Device \ {d} : slot[e] # c
  PROVE  SessionsInv'
<1> USE SessionsAssumption, AuthAssumption
<1>1. DeviceTypeOK /\ DeviceSound(d)
  BY DEF SessionsInv, DevicesSound
<1>2. CASE GiveUp(d)
  <2>1. /\ app' = [app EXCEPT ![d] = "signedOut"] /\ request' = [request EXCEPT ![d] = "none"]
        /\ attempt' = [attempt EXCEPT ![d] = 0] /\ slot' = [slot EXCEPT ![d] = NoCall]
        /\ stored' \in {stored, [stored EXCEPT ![d] = NoToken]}
    BY <1>2 DEF GiveUp, Done
  <2>2. DeviceTypeOK'
    BY <1>1, <2>1 DEF DeviceTypeOK
  <2>3. /\ slot'[d] = NoCall /\ app'[d] = "signedOut" /\ stored'[d] \in {stored[d], NoToken}
        /\ \A e \in Device \ {d} : /\ app'[e] = app[e] /\ stored'[e] = stored[e]
                                   /\ request'[e] = request[e] /\ attempt'[e] = attempt[e]
                                   /\ slot'[e] = slot[e]
    BY <1>1, <2>1 DEF DeviceTypeOK
  <2>4. QED
    BY <2>2, <2>3, RequestOver
<1>3. CASE ~GiveUp(d)
  <2>1. /\ attempt[d] < MaxRetries
        /\ app' = [app EXCEPT ![d] = "backoff"] /\ slot' = [slot EXCEPT ![d] = NoCall]
        /\ UNCHANGED <<stored, request, attempt>>
    BY <1>3 DEF RetryOrGiveUp, MayRetry
  <2>2. DeviceTypeOK'
    BY <1>1, <2>1 DEF DeviceTypeOK
  <2>3. /\ slot'[d] = NoCall /\ app'[d] = "backoff" /\ stored'[d] = stored[d]
        /\ attempt'[d] < MaxRetries
        /\ \A e \in Device \ {d} : /\ app'[e] = app[e] /\ stored'[e] = stored[e]
                                   /\ request'[e] = request[e] /\ attempt'[e] = attempt[e]
                                   /\ slot'[e] = slot[e]
    BY <1>1, <2>1 DEF DeviceTypeOK
  <2>4. request'[d] # "none" /\ (request'[d] = "refresh" => stored'[d] # NoToken)
    BY <1>1, <2>1 DEF DeviceSound
  <2>5. QED
    BY <2>2, <2>3, <2>4, RequestOver
<1>4. QED
  BY <1>2, <1>3

\* The steps of a device.
LEMMA DeviceKeeps ==
  ASSUME AuthTypeOK, SessionsInv, NEW d \in Device,
         DeviceStep(d) \/ SignIn(d) \/ Logout(d) \/ AppRestart(d)
  PROVE  SessionsInv'
<1> USE SessionsAssumption, AuthAssumption
<1>1. DeviceTypeOK /\ DeviceSound(d) /\ SlotsSound /\ HeldSound
  BY DEF SessionsInv, DevicesSound
<1>2. CASE Bootstrap(d)
  <2>1. CASE stored[d] = NoToken
    <3>1. /\ app' = [app EXCEPT ![d] = "signedOut"] /\ app[d] = "start"
          /\ UNCHANGED <<authVars, stored, request, attempt, slot>>
      BY <1>2, <2>1 DEF Bootstrap
    <3>2. DeviceTypeOK'
      BY <1>1, <3>1 DEF DeviceTypeOK
    <3>3. /\ slot'[d] = NoCall /\ app'[d] = "signedOut" /\ stored'[d] = stored[d]
          /\ \A e \in Device \ {d} : /\ app'[e] = app[e] /\ stored'[e] = stored[e]
                                     /\ request'[e] = request[e] /\ attempt'[e] = attempt[e]
                                     /\ slot'[e] = slot[e]
      BY <1>1, <3>1 DEF DeviceTypeOK, SlotsSound, SlotSound
    <3>4. UNCHANGED <<tableVars, loggedOut>> /\ call' = call
      BY <3>1 DEF authVars, historyVars
    <3>5. QED
      BY <3>2, <3>3, <3>4, RequestOver
  <2>2. CASE stored[d] # NoToken
    <3>1. PICK c \in Call : Send(d, "refresh", c)
      BY <1>2, <2>2 DEF Bootstrap
    <3>2. /\ attempt' \in [Device -> 0..MaxRetries]
          /\ \A e \in Device \ {d} : attempt'[e] = attempt[e]
          /\ UNCHANGED stored /\ app[d] = "start"
      BY <1>1, <1>2, <2>2 DEF Bootstrap, DeviceTypeOK
    <3>3. QED
      BY <2>2, <3>1, <3>2, SendKeeps
  <2>3. QED
    BY <2>1, <2>2
<1>3. CASE SignIn(d)
  <2>1. PICK kind \in {"register", "login"}, c \in Call : Send(d, kind, c)
    BY <1>3 DEF SignIn
  <2>2. /\ attempt' \in [Device -> 0..MaxRetries]
        /\ \A e \in Device \ {d} : attempt'[e] = attempt[e]
        /\ UNCHANGED stored /\ app[d] = "signedOut"
    BY <1>1, <1>3 DEF SignIn, DeviceTypeOK
  <2>3. QED
    BY <2>1, <2>2, SendKeeps
<1>4. CASE Retry(d)
  <2>1. PICK c \in Call : Send(d, request[d], c)
    BY <1>4 DEF Retry
  <2>2. /\ attempt' = [attempt EXCEPT ![d] = attempt[d] + 1] /\ UNCHANGED stored
        /\ app[d] = "backoff"
    BY <1>4 DEF Retry, NextAttempt
  <2>3. /\ request[d] \in {"register", "login", "refresh"} /\ attempt[d] + 1 \in 0..MaxRetries
        /\ request[d] = "refresh" => stored[d] # NoToken
    BY <1>1, <2>2 DEF DeviceTypeOK, DeviceSound
  <2>4. /\ attempt' \in [Device -> 0..MaxRetries]
        /\ \A e \in Device \ {d} : attempt'[e] = attempt[e]
    BY <1>1, <2>2, <2>3 DEF DeviceTypeOK
  <2>5. QED
    BY <2>1, <2>2, <2>3, <2>4, SendKeeps
<1>5. CASE Deliver(d)
  <2> DEFINE c == slot[d]
  <2>1. /\ app[d] = "waiting" /\ c \in Call /\ c # NoCall /\ call[c].pc \in Answered
        /\ call' = [call EXCEPT ![c] = IdleCall]
        /\ UNCHANGED <<tableVars, loggedOut>>
    BY <1>1, <1>5 DEF Deliver, Respond, DeviceTypeOK, historyVars
  <2>2. \A x \in Call : \/ call'[x] = call[x]
                        \/ call'[x] = IdleCall /\ \A e \in Device \ {d} : slot[e] # x
    <3>1. \A e \in Device \ {d} : slot[e] # c
      BY <1>1, <2>1 DEF SlotsSound
    <3>2. \A x \in Call : call'[x] = call[x] \/ (x = c /\ call'[x] = IdleCall)
      BY <2>1 DEF AuthTypeOK
    <3>3. QED
      BY <3>1, <3>2
  <2>3. CASE call[c].pc = "ok"
    <3> DEFINE t == call[c].token
    <3>1. /\ stored' = [stored EXCEPT ![d] = t] /\ app' = [app EXCEPT ![d] = "signedIn"]
          /\ request' = [request EXCEPT ![d] = "none"]
          /\ attempt' = [attempt EXCEPT ![d] = 0] /\ slot' = [slot EXCEPT ![d] = NoCall]
      BY <1>5, <2>3 DEF Deliver, ApplyAuthResponse, Done
    <3>2. t \in Token \cup {NoToken} /\ Held(d, t)
      BY <2>1, <2>3 DEF AuthTypeOK, CallState, Held
    <3>3. t # NoToken
      BY <1>1, <2>1, <2>3 DEF SlotsSound, SlotSound, Settled, Signing, Refreshing
    <3> HIDE DEF t, c
    <3>4. DeviceTypeOK'
      BY <1>1, <3>1, <3>2 DEF DeviceTypeOK
    <3>5. /\ slot'[d] = NoCall /\ app'[d] = "signedIn" /\ stored'[d] = t
          /\ \A e \in Device \ {d} : /\ app'[e] = app[e] /\ stored'[e] = stored[e]
                                     /\ request'[e] = request[e] /\ attempt'[e] = attempt[e]
                                     /\ slot'[e] = slot[e]
      BY <1>1, <3>1 DEF DeviceTypeOK
    <3>6. QED
      BY <2>1, <2>2, <3>2, <3>3, <3>4, <3>5, RequestOver
  <2>4. CASE call[c].pc # "ok"
    <3>1. GiveUp(d) \/ RetryOrGiveUp(d)
      BY <1>5, <2>1, <2>4 DEF Deliver, Answered
    <3>2. QED
      BY <2>1, <2>2, <3>1, FailedKeeps
  <2>5. QED
    BY <2>3, <2>4
<1>6. CASE LoseReply(d) \/ ConnectionClosed(d)
  <2>1. /\ app[d] = "waiting" /\ RetryOrGiveUp(d) /\ UNCHANGED authVars
    BY <1>6 DEF LoseReply, ConnectionClosed
  <2>2. UNCHANGED <<tableVars, loggedOut>> /\ call' = call
    BY <2>1 DEF authVars, historyVars
  <2>3. QED
    BY <2>1, <2>2, FailedKeeps
<1>7. CASE Logout(d) \/ AppRestart(d)
  <2>1. /\ app' \in {[app EXCEPT ![d] = "signedOut"], [app EXCEPT ![d] = "start"]}
        /\ request' = [request EXCEPT ![d] = "none"]
        /\ attempt' = [attempt EXCEPT ![d] = 0] /\ slot' = [slot EXCEPT ![d] = NoCall]
        /\ stored' \in {stored, [stored EXCEPT ![d] = NoToken]} /\ UNCHANGED authVars
    BY <1>7 DEF Logout, AppRestart, Done
  <2>2. DeviceTypeOK'
    BY <1>1, <2>1 DEF DeviceTypeOK
  <2>3. /\ slot'[d] = NoCall /\ app'[d] \in {"signedOut", "start"}
        /\ stored'[d] \in {stored[d], NoToken}
        /\ \A e \in Device \ {d} : /\ app'[e] = app[e] /\ stored'[e] = stored[e]
                                   /\ request'[e] = request[e] /\ attempt'[e] = attempt[e]
                                   /\ slot'[e] = slot[e]
    BY <1>1, <2>1 DEF DeviceTypeOK
  <2>4. UNCHANGED <<tableVars, loggedOut>> /\ call' = call
    BY <2>1 DEF authVars, historyVars
  <2>5. QED
    BY <2>2, <2>3, <2>4, RequestOver
<1>8. QED
  BY <1>2, <1>3, <1>4, <1>5, <1>6, <1>7 DEF DeviceStep

-----------------------------------------------------------------------------
\* The invariant holds before anything has run.
LEMMA InitSessions == Init => SessionsInv
<1> USE SessionsAssumption, AuthAssumption
<1>1. Init => DeviceTypeOK
  BY DEF Init, DeviceTypeOK
<1>2. Init => SlotsSound /\ DevicesSound
  BY DEF Init, SlotsSound, SlotSound, DevicesSound, DeviceSound
<1>3. Init => CallsKnown
  BY DEF Init, AuthInit, CallsKnown, IdleCall
<1>4. Init => HeldSound
  BY DEF Init, HeldSound, Held
<1>5. QED
  BY <1>1, <1>2, <1>3, <1>4 DEF SessionsInv

\* Every step keeps it, given what holds of the service.
LEMMA SessionsKeep == IInv /\ SessionsInv /\ [Next]_vars => SessionsInv'
<1> SUFFICES ASSUME IInv, SessionsInv, [Next]_vars PROVE SessionsInv'
  OBVIOUS
<1>1. AuthTypeOK
  BY DEF IInv
<1>2. ASSUME NEW c \in Call, ServerStep(c) PROVE SessionsInv'
  BY <1>2, PlainStepKeeps, RevokeKeepsSessions, IssueKeepsSessions, LogOutKeepsSessions
     DEF ServerStep, Step
<1>3. QED
  BY <1>1, <1>2, DeviceKeeps, OutsideKeeps, ServerRestartKeeps DEF Next

\* Whatever the devices do, the service behaves as it does with any callers: what
\* holds of every behaviour of the service holds of this one.
THEOREM SessionsUseService == Spec => AuthSpec
<1>1. IInv /\ SessionsInv /\ [Next]_vars => [AuthNext]_authVars
  BY ServiceStep DEF IInv, SessionsInv
<1>2. IInv /\ SessionsInv /\ [Next]_vars => (IInv /\ SessionsInv)'
  BY <1>1, NextKeeps, SessionsKeep
<1>3. Init => AuthInit /\ IInv /\ SessionsInv
  BY InitIInv, InitSessions DEF Init
<1>4. QED
  BY <1>1, <1>2, <1>3, PTL DEF Spec, AuthSpec

\* The inductive invariant of the devices.
THEOREM SessionsInvariant == Spec => []SessionsInv
<1>1. Init => SessionsInv
  BY InitSessions
<1>2. QED
  BY <1>1, SessionsUseService, AuthInvariant, SessionsKeep, PTL DEF Spec

\* The columns of the server and the state of the devices keep their types.
THEOREM SessionsTypeCorrect == Spec => []SessionsTypeOK
<1>1. AuthTypeOK /\ SessionsInv => SessionsTypeOK
  BY DEF SessionsInv, DeviceTypeOK, SessionsTypeOK
<1>2. QED
  BY <1>1, SessionsInvariant, SessionsUseService, AuthTypeCorrect, PTL

\* However often answers are lost, requests are repeated and either side is
\* restarted, a device that is signed in holds the newest token of its chain: the
\* row is its user's, it was not rotated, and only a logout can have revoked it.
THEOREM SignedInTokenCurrentTheorem == Spec => []SignedInTokenCurrent
<1>1. SessionsInv => SignedInTokenCurrent
  <2> SUFFICES ASSUME SessionsInv, NEW d \in Device, app[d] = "signedIn"
               PROVE  /\ stored[d] \in issued /\ userId[stored[d]] = UserOf[d]
                      /\ \A t \in issued : rotatedFrom[t] # stored[d]
                      /\ stored[d] \in revoked => stored[d] \in loggedOut
    BY DEF SignedInTokenCurrent
  <2>1. stored[d] \in Token
    BY DEF SessionsInv, DeviceTypeOK, DevicesSound, DeviceSound
  <2>2. Newest(d, stored[d])
    BY <2>1 DEF SessionsInv, HeldSound, Held
  <2>3. QED
    BY <2>2 DEF Newest, Unused
<1>2. QED
  BY <1>1, SessionsInvariant, PTL

\* The token of a device that is signed in is stored by no other device, so no other
\* device can use it up.
THEOREM TokensNotShared ==
    Spec => [](\A d, e \in Device : stored[d] = stored[e] /\ app[d] = "signedIn" => d = e)
<1>1. SessionsInv => \A d, e \in Device : stored[d] = stored[e] /\ app[d] = "signedIn" => d = e
  BY DEF SessionsInv, DeviceTypeOK, DevicesSound, DeviceSound, HeldSound, Held, Newest
<1>2. QED
  BY <1>1, SessionsInvariant, PTL
===============================================================================

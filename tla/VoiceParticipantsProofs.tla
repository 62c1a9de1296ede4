------------------------- MODULE VoiceParticipantsProofs -------------------------
(***************************************************************************)
(* What the desktop client shows of the voice channels, for any number of  *)
(* users and channels and any length of the queue.                         *)
(*                                                                         *)
(* In the scenarios without overtaking answers the queue is read as the    *)
(* history of the server: the invariant (HistoryInv) says that there are   *)
(* situations, one between any two messages, of which the lists on the     *)
(* screen show the first and the server is in the last, and that each      *)
(* message leads from one to the next (Leads).  Where answers overtake     *)
(* there is no such history; of the user of the client the invariant says  *)
(* then (OwnInv) that each list has them right or that an event of theirs, *)
(* a list that has them right or a reason to fetch one is on its way.      *)
(***************************************************************************)
EXTENDS VoiceParticipants, WellFoundedInduction, FiniteSetTheorems, SequenceTheorems, TLAPS

\* Where a user can be.
PartyPlace == VoiceChannel \cup {NoVoiceChannel}

\* Where every user is, and whether they are muted.
Situation == [User -> [channel : PartyPlace, muted : BOOLEAN]]

\* Answers and events, by kind.
PartyArriving ==
    [kind : StateEvents, channel : VoiceChannel, user : User, muted : BOOLEAN]
    \cup [kind : {"joined", "left"}, channel : VoiceChannel]
    \cup [kind : {"rows"}, channel : VoiceChannel, sync : BOOLEAN, list : Seq(Row)]
    \cup [kind : {"limit", "fail"}, channel : VoiceChannel]
    \cup [kind : {"preview"}, channel : VoiceChannel, list : Seq(Row)]

\* The types, with that of what is on its way.
PartyTypes == PartyTypeOK /\ arriving \in Seq(PartyArriving)

\* A list with one more row.
PartyAdds(n, list, m) ==
    /\ Len(n) = Len(list) + 1 /\ n[Len(n)] = m
    /\ \A k \in 1..Len(list) : n[k] = list[k]

\* The i-th is m, the rest as in list.
PartySets(n, list, i, m) ==
    /\ i \in 1..Len(list) /\ Len(n) = Len(list)
    /\ \A k \in 1..Len(list) : n[k] = IF k = i THEN m ELSE list[k]

\* The i-th is gone.
PartyLacks(n, list, i) ==
    /\ i \in 1..Len(list) /\ Len(n) + 1 = Len(list)
    /\ \A k \in 1..Len(n) : n[k] = IF k < i THEN list[k] ELSE list[k + 1]

-----------------------------------------------------------------------------
(* Fetches. *)

\* An answer to a fetch of c.
IsAnswer(m, c) == m.kind \in {"rows", "limit", "fail"} /\ m.channel = c
\* Where those are in the queue.
PartyAnswers(q, c) == {i \in 1..Len(q) : IsAnswer(q[i], c)}

\* A fetch is under way while its answer is, and no channel has two.
OneAnswer(q, f) ==
    \A c \in VoiceChannel :
        /\ c \in f.inFlight <=> PartyAnswers(q, c) # {}
        /\ \A i, j \in PartyAnswers(q, c) : i = j

\* What fails, and the lists of loadChannels, are of their scenarios.
OfScenario(q) ==
    \A i \in 1..Len(q) : q[i].kind \in {"fail", "preview"} => q[i].kind \in partyEnv

\* An answer to joinVoice or leaveVoice.
IsOwnAnswer(m) == m.kind \in {"joined", "left"}

\* The user joins, or leaves, once at a time.
OneOwnAnswer(q) ==
    \A i, j \in 1..Len(q) : IsOwnAnswer(q[i]) /\ IsOwnAnswer(q[j]) => i = j

\* Who is being answered to joinVoice is in no channel yet.
JoinsFromNowhere(q, act) ==
    \A i \in 1..Len(q) : q[i].kind = "joined" => act = NoVoiceChannel

-----------------------------------------------------------------------------
(* The user of the client. *)

\* An event of the user of the client.
SelfEvent(m) == m.kind \in StateEvents /\ m.user = Self

\* The list of c has the user where they are, p.
OwnRow(list, p, c) ==
    /\ \A i \in 1..Len(list) : list[i].user = Self => p.channel = c /\ list[i].muted = p.muted
    /\ p.channel = c => \E i \in 1..Len(list) : list[i].user = Self

\* The list of c has the user right, or will.
OnItsWay(q, f, list, p, c) ==
    \/ \E i \in 1..Len(q) : SelfEvent(q[i]) /\ q[i].channel = c
    \/ c \in f.pending
    \/ f.retry[c] > 0
    \/ \E i \in 1..Len(q) : q[i].kind = "limit" /\ q[i].channel = c
    \/ \E i \in 1..Len(q) : q[i].kind = "rows" /\ q[i].channel = c /\ OwnRow(q[i].list, p, c)
    \/ c \notin f.inFlight /\ OwnRow(list, p, c)

\* A join elsewhere is followed by an event of the channel where the user is now.
MovedOn(q, p) ==
    \A i \in 1..Len(q) :
        SelfEvent(q[i]) /\ q[i].kind = "join" /\ q[i].channel # p.channel /\ p.channel # NoVoiceChannel =>
            \E j \in (i + 1)..Len(q) : SelfEvent(q[j]) /\ q[j].channel = p.channel

-----------------------------------------------------------------------------
(* The queue as a history of the server. *)

\* The list of c in the situation s.
Right(list, c, s) ==
    /\ \A i, j \in 1..Len(list) : list[i].user = list[j].user => i = j
    /\ \A i \in 1..Len(list) :
          s[list[i].user].channel = c /\ s[list[i].user].muted = list[i].muted
    /\ \A u \in User : s[u].channel = c => \E i \in 1..Len(list) : list[i].user = u

\* The event m leads from the situation s to t.
UserMoves(s, m, t) ==
    /\ \A u \in User \ {m.user} : t[u] = s[u]
    /\ m.kind = "leave" => s[m.user].channel = m.channel /\ t[m.user].channel = NoVoiceChannel
    /\ m.kind = "join" => /\ s[m.user].channel = NoVoiceChannel
                          /\ t[m.user].channel = m.channel /\ t[m.user].muted = m.muted
    /\ m.kind = "update" => /\ s[m.user].channel = m.channel /\ s[m.user].muted # m.muted
                            /\ t[m.user].channel = m.channel /\ t[m.user].muted = m.muted

\* The message m fits between the situations s and t.
Leads(s, m, t) ==
    /\ m.kind \in StateEvents => UserMoves(s, m, t)
    /\ m.kind \notin StateEvents => t = s
    /\ m.kind \in {"rows", "preview"} => Right(m.list, m.channel, s)
    /\ m.kind = "left" => s[Self].channel # m.channel

\* h[k] is the situation after the first k of q.
Story(h, q, s) ==
    /\ h \in [0..Len(q) -> Situation]
    /\ h[Len(q)] = s
    /\ \A k \in 1..Len(q) : Leads(h[k - 1], q[k], h[k])

\* So have all lists.
AllRight(r, s) == \A c \in VoiceChannel : Right(r[c], c, s)

\* What the user leaves is answered.
LeaveAnswered(q) ==
    \A i \in 1..Len(q) : SelfEvent(q[i]) /\ q[i].kind = "leave" =>
        \E j \in (i + 1)..Len(q) : IsOwnAnswer(q[j])

\* The dock is empty or the list of the active channel; or leaveVoice is answered.
DockRight(q, act, list, s) ==
    /\ act # NoVoiceChannel => list = <<>> \/ Right(list, act, s)
    /\ act = NoVoiceChannel => list = <<>> \/ \E i \in 1..Len(q) : q[i].kind = "left"

-----------------------------------------------------------------------------
(* Lists: what is appended, replaced and taken out.                        *)

\* Append, EXCEPT and RemoveAt.
LEMMA PartyAppended ==
  ASSUME NEW S, NEW list \in Seq(S), NEW m \in S, NEW n, n = Append(list, m)
  PROVE  n \in Seq(S) /\ PartyAdds(n, list, m)
BY DEF PartyAdds

\* A row is replaced.
LEMMA PartyReplaced ==
  ASSUME NEW S, NEW list \in Seq(S), NEW i \in 1..Len(list), NEW m \in S,
         NEW n, n = [list EXCEPT ![i] = m]
  PROVE  n \in Seq(S) /\ PartySets(n, list, i, m)
BY ExceptSeq DEF PartySets

\* RemoveAt takes out one.
LEMMA PartyRemoved ==
  ASSUME NEW S, NEW q \in Seq(S), NEW i \in 1..Len(q), NEW rest, rest = RemoveAt(q, i)
  PROVE  rest \in Seq(S) /\ PartyLacks(rest, q, i)
<1>1. Len(q) \in Nat /\ \A k \in 1..Len(q) : q[k] \in S
  BY ElementOfSeq, LenProperties
<1>2. PICK p : p = SubSeq(q, 1, i - 1)
  OBVIOUS
<1>3. /\ p \in Seq(S) /\ Len(p) = i - 1
      /\ \A k \in 1..(i - 1) : p[k] = q[k]
  <2>1. 1 \in Int /\ i - 1 \in Int /\ \A k \in 1..(i - 1) : q[k] \in S
    BY <1>1
  <2>2. /\ p \in Seq(S) /\ Len(p) = (IF 1 <= i - 1 THEN i - 1 - 1 + 1 ELSE 0)
        /\ \A k \in 1..(i - 1 - 1 + 1) : p[k] = q[1 + k - 1]
    BY <1>2, <2>1, SubSeqProperties
  <2>3. QED
    BY <2>2
<1>4. PICK e : e = SubSeq(q, i + 1, Len(q))
  OBVIOUS
<1>5. /\ e \in Seq(S) /\ Len(e) = Len(q) - i
      /\ \A k \in 1..(Len(q) - i) : e[k] = q[i + k]
  <2>1. i + 1 \in Int /\ Len(q) \in Int /\ \A k \in (i + 1)..Len(q) : q[k] \in S
    BY <1>1
  <2>2. /\ e \in Seq(S) /\ Len(e) = (IF i + 1 <= Len(q) THEN Len(q) - (i + 1) + 1 ELSE 0)
        /\ \A k \in 1..(Len(q) - (i + 1) + 1) : e[k] = q[i + 1 + k - 1]
    BY <1>4, <2>1, SubSeqProperties
  <2>3. Len(q) - (i + 1) + 1 = Len(q) - i /\ \A k \in Int : i + 1 + k - 1 = i + k
    BY <1>1
  <2>4. i + 1 <= Len(q) <=> ~(Len(q) - i = 0)
    BY <1>1
  <2>5. Len(e) = Len(q) - i
    BY <1>1, <2>2, <2>3, <2>4
  <2>6. ASSUME NEW k \in 1..(Len(q) - i)
        PROVE  e[k] = q[i + k]
    <3>1. k \in 1..(Len(q) - (i + 1) + 1) /\ i + 1 + k - 1 = i + k
      BY <2>3
    <3>2. QED
      BY <2>2, <3>1
  <2>7. QED
    BY <2>2, <2>5, <2>6
<1>6. rest = p \o e
  BY <1>2, <1>4 DEF RemoveAt
<1>7. /\ rest \in Seq(S) /\ Len(rest) = Len(p) + Len(e)
      /\ \A k \in 1..(Len(p) + Len(e)) : rest[k] = IF k <= Len(p) THEN p[k] ELSE e[k - Len(p)]
  <2>1. p \in Seq(S) /\ e \in Seq(S)
    BY <1>3, <1>5
  <2>2. /\ p \o e \in Seq(S) /\ Len(p \o e) = Len(p) + Len(e)
        /\ \A k \in 1..(Len(p) + Len(e)) :
              (p \o e)[k] = IF k <= Len(p) THEN p[k] ELSE e[k - Len(p)]
    BY <2>1, ConcatProperties
  <2>3. QED
    BY <1>6, <2>2
<1>8. Len(rest) + 1 = Len(q)
  BY <1>1, <1>3, <1>5, <1>7
<1>9. ASSUME NEW k \in 1..Len(rest)
      PROVE  rest[k] = IF k < i THEN q[k] ELSE q[k + 1]
  <2>1. CASE k < i
    <3>1. k \in 1..(i - 1) /\ k <= Len(p) /\ k \in 1..(Len(p) + Len(e))
      BY <1>1, <1>3, <1>5, <1>7, <2>1
    <3>2. QED
      BY <1>3, <1>7, <2>1, <3>1
  <2>2. CASE ~(k < i)
    <3>1. /\ ~(k <= Len(p)) /\ k \in 1..(Len(p) + Len(e))
          /\ k - Len(p) \in 1..(Len(q) - i) /\ i + (k - Len(p)) = k + 1
      BY <1>1, <1>3, <1>5, <1>7, <2>2
    <3>2. QED
      BY <1>5, <1>7, <2>2, <3>1
  <2>3. QED
    BY <2>1, <2>2
<1>10. QED
  BY <1>7, <1>8, <1>9 DEF PartyLacks

\* A set of numbers has a least one.
LEMMA PartyLeastNumber ==
  ASSUME NEW T \in SUBSET Nat, T # {}
  PROVE  \E x \in T : \A y \in T : x <= y
<1>1. PICK R : R = OpToRel(<, Nat)
  BY Zenon
<1>2. IsWellFoundedOn(R, Nat)
  BY <1>1, NatLessThanWellFounded, Zenon
<1>3. PICK x \in T : \A y \in T : ~(<<y, x>> \in R)
  BY <1>2, WFMin
<1>4. ASSUME NEW y \in T
      PROVE  x <= y
  <2>1. x \in Nat /\ y \in Nat
    OBVIOUS
  <2>2. y < x => <<y, x>> \in R
    BY <1>1, <2>1 DEF OpToRel
  <2>3. QED
    BY <1>3, <2>1, <2>2
<1>5. QED
  BY <1>4

\* The k-th of a finite set of numbers.
LEMMA PartyCounted ==
  ASSUME NEW T \in SUBSET Nat, IsFiniteSet(T), NEW k \in 1..Cardinality(T)
  PROVE  \E i \in T : Cardinality({j \in T : j <= i}) = k
<1>1. PICK n : n = Cardinality(T)
  OBVIOUS
<1>2. n \in Nat
  BY <1>1, FS_CardinalityType
<1> DEFINE Bad == {b \in Nat : b \in 1..n /\ ~\E i \in T : Cardinality({j \in T : j <= i}) = b}
<1>3. SUFFICES ASSUME Bad # {}
               PROVE  FALSE
  BY <1>1, <1>2
<1>4. PICK b \in Bad : \A y \in Bad : b <= y
  <2>1. Bad \in SUBSET Nat
    OBVIOUS
  <2>2. QED
    BY <1>3, <2>1, PartyLeastNumber
<1>5. b \in Nat /\ b \in 1..n
  OBVIOUS
<1>6. ~\E i \in T : Cardinality({j \in T : j <= i}) = b
  OBVIOUS
<1>0. \A y \in Nat : y \in 1..n /\ y \notin Bad => \E i \in T : Cardinality({j \in T : j <= i}) = y
  OBVIOUS
<1>10. \A i \in T : i \in Nat
  OBVIOUS
<1> HIDE DEF Bad
<1>7. CASE b = 1
  <2>1. T # {}
    <3>1. Cardinality({}) = 0
      BY FS_EmptySet
    <3>2. QED
      BY <1>1, <1>2, <1>5, <1>7, <3>1
  <2>2. PICK x \in T : \A y \in T : x <= y
    BY <2>1, PartyLeastNumber
  <2>3. {j \in T : j <= x} = {x}
    <3>1. \A j \in T : j <= x <=> j = x
      BY <1>10, <2>2
    <3>2. QED
      BY <3>1
  <2>4. Cardinality({x}) = 1
    BY FS_Singleton
  <2>5. QED
    BY <1>6, <1>7, <2>3, <2>4
<1>8. CASE b # 1
  <2>1. b - 1 \in Nat /\ b - 1 \in 1..n /\ ~(b <= b - 1)
    BY <1>2, <1>5, <1>8
  <2>2. b - 1 \notin Bad
    BY <1>4, <2>1, Zenon
  <2>3. PICK i \in T : Cardinality({j \in T : j <= i}) = b - 1
    BY <1>0, <2>1, <2>2
  <2>4. PICK U : U = {j \in T : j <= i}
    OBVIOUS
  <2>5. U \in SUBSET T /\ IsFiniteSet(U)
    BY <2>4, FS_Subset
  <2>6. T \ U # {}
    <3>1. U # T
      <4>1. Cardinality(U) = b - 1
        BY <2>3, <2>4
      <4>2. b - 1 # n
        BY <1>2, <1>5
      <4>3. QED
        BY <1>1, <4>1, <4>2
    <3>2. QED
      BY <2>5, <3>1
  <2>7. PICK y \in T \ U : \A z \in T \ U : y <= z
    <3>1. T \ U \in SUBSET Nat
      OBVIOUS
    <3>2. QED
      BY <2>6, <3>1, PartyLeastNumber
  <2>8. {j \in T : j <= y} = U \cup {y}
    <3>1. y \in T /\ y \in Nat /\ i \in Nat /\ ~(y <= i)
      BY <1>10, <2>4, <2>7
    <3>2. ASSUME NEW j \in T, j <= y
          PROVE  j \in U \cup {y}
      <4>1. j \in Nat
        BY <1>10
      <4>2. j \in U \/ y <= j
        BY <2>7
      <4>3. QED
        BY <3>1, <3>2, <4>1, <4>2
    <3>3. ASSUME NEW j \in U
          PROVE  j \in T /\ j <= y
      <4>1. j \in T /\ j <= i /\ j \in Nat
        BY <1>10, <2>4
      <4>2. QED
        BY <3>1, <4>1
    <3>4. \A j \in T : j <= y <=> j \in U \cup {y}
      BY <3>1, <3>2, <3>3
    <3>5. U \cup {y} \in SUBSET T
      BY <2>5, <3>1
    <3>6. QED
      BY <3>4, <3>5
  <2>9. Cardinality(U \cup {y}) = Cardinality(U) + 1
    BY <2>5, <2>7, FS_AddElement
  <2>10. Cardinality(U \cup {y}) = b
    BY <1>5, <2>3, <2>4, <2>9
  <2>11. QED
    BY <1>6, <2>7, <2>8, <2>10
<1>9. QED
  BY <1>7, <1>8

\* It is the only one.
LEMMA CountedOnce ==
  ASSUME NEW T \in SUBSET Nat, IsFiniteSet(T), NEW a \in T, NEW b \in T,
         Cardinality({j \in T : j <= a}) = Cardinality({j \in T : j <= b})
  PROVE  a = b
<1>1. a \in Nat /\ b \in Nat
  OBVIOUS
<1>2. ASSUME NEW x \in T, NEW y \in T, x < y,
             Cardinality({j \in T : j <= x}) = Cardinality({j \in T : j <= y})
      PROVE  FALSE
  <2>1. PICK U : U = {j \in T : j <= x}
    OBVIOUS
  <2>2. PICK V : V = {j \in T : j <= y}
    OBVIOUS
  <2>3. x \in Nat /\ y \in Nat
    OBVIOUS
  <2>4. U \in SUBSET V /\ y \in V /\ y \notin U
    <3>1. \A j \in T : j \in Nat
      OBVIOUS
    <3>2. \A j \in T : j <= x => j <= y
      BY <1>2, <2>3, <3>1
    <3>3. y <= y /\ ~(y <= x)
      BY <1>2, <2>3
    <3>4. QED
      BY <2>1, <2>2, <3>2, <3>3
  <2>5. IsFiniteSet(V)
    BY <2>2, FS_Subset
  <2>6. Cardinality(V) = Cardinality(U)
    BY <1>2, <2>1, <2>2
  <2>7. V = U
    BY <2>4, <2>5, <2>6, FS_Subset
  <2>8. QED
    BY <2>4, <2>7
<1>3. a < b \/ b < a \/ a = b
  BY <1>1
<1>4. QED
  BY <1>2, <1>3

-----------------------------------------------------------------------------
\* FirstOf finds a row of the user, if there is one.
LEMMA FirstFacts ==
  ASSUME NEW list \in Seq(Row), NEW u, NEW at, at = FirstOf(list, u)
  PROVE  \/ at = 0 /\ \A i \in 1..Len(list) : list[i].user # u
         \/ at \in 1..Len(list) /\ list[at].user = u
<1>1. CASE RowsOf(list, u) = {}
  BY <1>1 DEF FirstOf, RowsOf
<1>2. CASE RowsOf(list, u) # {}
  <2>1. PICK T : T = RowsOf(list, u)
    OBVIOUS
  <2>2. Len(list) \in Nat
    OBVIOUS
  <2>3. T \in SUBSET Nat /\ T # {}
    BY <1>2, <2>1, <2>2 DEF RowsOf
  <2>4. \E x \in T : \A y \in T : x <= y
    BY <2>3, PartyLeastNumber
  <2>5. at = CHOOSE i \in T : \A j \in T : i <= j
    BY <1>2, <2>1 DEF FirstOf
  <2>6. at \in T
    BY <2>4, <2>5
  <2>7. QED
    BY <2>1, <2>6 DEF RowsOf
<1>3. QED
  BY <1>1, <1>2

\* No user is twice in the list.
PartyUnlike(list) == \A i, j \in 1..Len(list) : list[i].user = list[j].user => i = j

\* n is what list is without the rows of u.
Keeps(n, list, u) ==
    /\ \A k \in 1..Len(n) : \E i \in 1..Len(list) : n[k] = list[i] /\ list[i].user # u
    /\ \A i \in 1..Len(list) : list[i].user # u => \E k \in 1..Len(n) : n[k] = list[i]
    /\ PartyUnlike(list) => PartyUnlike(n)

\* Without keeps the rows of the others.
LEMMA WithoutFacts ==
  ASSUME NEW list \in Seq(Row), NEW u, NEW n, n = Without(list, u)
  PROVE  n \in Seq(Row) /\ Keeps(n, list, u)
<1>1. PICK T : T = (1..Len(list)) \ RowsOf(list, u)
  OBVIOUS
<1>2. Len(list) \in Nat /\ \A i \in 1..Len(list) : list[i] \in Row
  OBVIOUS
<1>3. T \in SUBSET Nat /\ T \in SUBSET (1..Len(list))
      /\ \A i \in 1..Len(list) : i \in T <=> list[i].user # u
  BY <1>1, <1>2 DEF RowsOf
<1>4. IsFiniteSet(T)
  <2>1. PICK l \in Nat : l = Len(list)
    BY <1>2
  <2>2. IsFiniteSet(1..l)
    BY FS_Interval
  <2>3. QED
    BY <1>3, <2>1, <2>2, FS_Subset
<1>5. PICK m : m = Cardinality(T)
  OBVIOUS
<1>6. m \in Nat
  BY <1>4, <1>5, FS_CardinalityType
<1>7. PICK e : e = [k \in 1..m |-> CHOOSE i \in T : Cardinality({j \in T : j <= i}) = k]
  OBVIOUS
<1>8. ASSUME NEW k \in 1..m
      PROVE  e[k] \in T /\ Cardinality({j \in T : j <= e[k]}) = k
  <2>1. \E i \in T : Cardinality({j \in T : j <= i}) = k
    BY <1>3, <1>4, <1>5, PartyCounted
  <2>2. e[k] = CHOOSE i \in T : Cardinality({j \in T : j <= i}) = k
    BY <1>7
  <2>3. QED
    BY <2>1, <2>2
<1>9. n = [k \in 1..m |-> list[e[k]]]
  <2>1. n = [k \in 1..m |-> list[CHOOSE i \in T : Cardinality({j \in T : j <= i}) = k]]
    BY <1>1, <1>5 DEF Without
  <2>2. QED
    BY <1>7, <2>1
<1>10. n \in Seq(Row) /\ Len(n) = m /\ \A k \in 1..m : n[k] = list[e[k]]
  <2>1. \A k \in 1..m : list[e[k]] \in Row
    BY <1>2, <1>3, <1>8
  <2>2. QED
    BY <1>6, <1>9, <2>1
<1>11. ASSUME NEW i \in 1..Len(list), list[i].user # u
       PROVE  \E k \in 1..m : n[k] = list[i]
  <2>1. i \in T
    BY <1>3, <1>11
  <2>2. PICK U : U = {j \in T : j <= i}
    OBVIOUS
  <2>3. U \in SUBSET T /\ i \in U
    BY <1>3, <2>1, <2>2
  <2>4. IsFiniteSet(U) /\ Cardinality(U) <= m
    BY <1>4, <1>5, <2>3, FS_Subset
  <2>5. Cardinality(U) \in Nat /\ Cardinality(U) # 0
    BY <2>3, <2>4, FS_CardinalityType, FS_EmptySet
  <2>6. PICK k \in 1..m : k = Cardinality(U)
    BY <1>6, <2>4, <2>5
  <2>7. e[k] = i
    <3>1. PICK x : x = e[k]
      OBVIOUS
    <3>2. x \in T /\ Cardinality({j \in T : j <= x}) = k
      BY <1>8, <3>1
    <3>3. Cardinality({j \in T : j <= x}) = Cardinality({j \in T : j <= i})
      BY <2>2, <2>6, <3>2
    <3>4. T \in SUBSET Nat
      BY <1>3
    <3>5. x = i
      BY <1>4, <2>1, <3>2, <3>3, <3>4, CountedOnce
    <3>6. QED
      BY <3>1, <3>5
  <2>8. QED
    BY <1>10, <2>7
<1>12. ASSUME PartyUnlike(list)
       PROVE  PartyUnlike(n)
  <2>1. ASSUME NEW a \in 1..m, NEW b \in 1..m, n[a].user = n[b].user
        PROVE  a = b
    <3>1. e[a] \in 1..Len(list) /\ e[b] \in 1..Len(list)
      BY <1>3, <1>8
    <3>2. list[e[a]].user = list[e[b]].user
      BY <1>10, <2>1
    <3>3. e[a] = e[b]
      BY <1>12, <3>1, <3>2 DEF PartyUnlike
    <3>4. QED
      BY <1>8, <3>3
  <2>2. QED
    BY <1>10, <2>1 DEF PartyUnlike
<1>13. ASSUME NEW k \in 1..m
       PROVE  \E i \in 1..Len(list) : n[k] = list[i] /\ list[i].user # u
  BY <1>3, <1>8, <1>10
<1>14. QED
  BY <1>10, <1>11, <1>12, <1>13 DEF Keeps

-----------------------------------------------------------------------------
(* The lists of the channels, and an event.                                *)

\* The fields of an event.
IsEvent(m) ==
    m.kind \in StateEvents /\ m.channel \in VoiceChannel /\ m.user \in User /\ m.muted \in BOOLEAN

\* The row is written over one of its user's, or joins the list.
Written(n, list, row) ==
    \/ \E i \in 1..Len(list) : list[i].user = row.user /\ list[i] # row /\ PartySets(n, list, i, row)
    \/ /\ PartyAdds(n, list, row)
       /\ (\A i \in 1..Len(list) : list[i].user # row.user) \/ \E i \in 1..Len(list) : list[i] = row

\* The first row of the user goes, if there is one.
Taken(n, list, u) ==
    \/ n = list /\ \A i \in 1..Len(list) : list[i].user # u
    \/ \E i \in 1..Len(list) : list[i].user = u /\ PartyLacks(n, list, i)

\* A row for what the event m says.
RowOf(row, m) == row \in Row /\ row.user = m.user /\ row.muted = m.muted

\* What m makes of the list of c.
Applied(n, list, m, c) ==
    /\ n \in Seq(Row)
    /\ c # m.channel /\ m.kind = "join" => Keeps(n, list, m.user)
    /\ c # m.channel /\ m.kind # "join" => n = list
    /\ c = m.channel /\ m.kind = "leave" => Taken(n, list, m.user)
    /\ c = m.channel /\ m.kind # "leave" => \E row : RowOf(row, m) /\ Written(n, list, row)

\* updateVoiceParticipantState without removal.
LEMMA PatchedFacts ==
  ASSUME NEW list \in Seq(Row), NEW u \in User, NEW new \in Row, new.user = u,
         NEW n, n = Patched(list, u, new)
  PROVE  n \in Seq(Row) /\ Written(n, list, new)
<1>1. PICK at : at = FirstOf(list, u)
  OBVIOUS
<1>2. \/ at = 0 /\ \A i \in 1..Len(list) : list[i].user # u
      \/ at \in 1..Len(list) /\ list[at].user = u
  BY <1>1, FirstFacts
<1>3. n = IF at # 0 /\ list[at] # new THEN [list EXCEPT ![at] = new] ELSE Append(list, new)
  BY <1>1 DEF Patched
<1>4. CASE at # 0 /\ list[at] # new
  <2>1. at \in 1..Len(list) /\ list[at].user = new.user
    BY <1>2, <1>4
  <2>2. n = [list EXCEPT ![at] = new]
    BY <1>3, <1>4
  <2>3. n \in Seq(Row) /\ PartySets(n, list, at, new)
    BY <2>1, <2>2, PartyReplaced
  <2>4. QED
    BY <1>4, <2>1, <2>3 DEF Written
<1>5. CASE ~(at # 0 /\ list[at] # new)
  <2>1. n = Append(list, new)
    BY <1>3, <1>5
  <2>2. n \in Seq(Row) /\ PartyAdds(n, list, new)
    BY <2>1, PartyAppended
  <2>3. (\A i \in 1..Len(list) : list[i].user # new.user) \/ \E i \in 1..Len(list) : list[i] = new
    BY <1>2, <1>5
  <2>4. QED
    BY <2>2, <2>3 DEF Written
<1>6. QED
  BY <1>4, <1>5

\* voice_state_update: every list of channels.
LEMMA EventFacts ==
  ASSUME NEW r \in [VoiceChannel -> Seq(Row)], NEW m, IsEvent(m), NEW n, n = EventApplied(r, m)
  PROVE  /\ n \in [VoiceChannel -> Seq(Row)]
         /\ \A c \in VoiceChannel : Applied(n[c], r[c], m, c)
<1>1. m.kind \in {"join", "update", "leave"} /\ m.channel \in VoiceChannel /\ m.user \in User
      /\ m.muted \in BOOLEAN
  BY DEF IsEvent, StateEvents
<1>2. PICK row : row = [user |-> m.user, muted |-> m.muted, speaking |-> "no"]
  OBVIOUS
<1>3. RowOf(row, m)
  BY <1>1, <1>2 DEF RowOf, Row
<1>4. PICK at : at = FirstOf(r[m.channel], m.user)
  OBVIOUS
<1>5. n = [c \in VoiceChannel |->
             IF c # m.channel
             THEN IF m.kind = "join" THEN Without(r[c], m.user) ELSE r[c]
             ELSE IF m.kind = "leave" THEN IF at = 0 THEN r[c] ELSE RemoveAt(r[c], at)
             ELSE Patched(r[c], m.user, row)]
  BY <1>2, <1>4 DEF EventApplied
<1>6. ASSUME NEW c \in VoiceChannel
      PROVE  Applied(n[c], r[c], m, c)
  <2>1. PICK list : list = r[c]
    OBVIOUS
  <2>2. PICK new : new = n[c]
    OBVIOUS
  <2>3. list \in Seq(Row)
    BY <2>1
  <2>4. CASE c # m.channel /\ m.kind = "join"
    <3>1. new = Without(list, m.user)
      BY <1>5, <2>1, <2>2, <2>4
    <3>2. new \in Seq(Row) /\ Keeps(new, list, m.user)
      BY <2>3, <3>1, WithoutFacts
    <3>3. QED
      BY <2>1, <2>2, <2>4, <3>2 DEF Applied
  <2>5. CASE c # m.channel /\ m.kind # "join"
    <3>1. new = list
      BY <1>5, <2>1, <2>2, <2>5
    <3>2. QED
      BY <2>1, <2>2, <2>3, <2>5, <3>1 DEF Applied
  <2>6. CASE c = m.channel /\ m.kind = "leave"
    <3>1. new = IF at = 0 THEN list ELSE RemoveAt(list, at)
      BY <1>5, <2>1, <2>2, <2>6
    <3>2. \/ at = 0 /\ \A i \in 1..Len(list) : list[i].user # m.user
          \/ at \in 1..Len(list) /\ list[at].user = m.user
      BY <1>4, <2>1, <2>3, <2>6, FirstFacts
    <3>3. CASE at = 0
      <4>1. \A i \in 1..Len(list) : list[i].user # m.user
        <5>1. Len(list) \in Nat
          BY <2>3
        <5>2. at \notin 1..Len(list)
          BY <3>3, <5>1
        <5>3. QED
          BY <3>2, <5>2
      <4>2. new = list
        BY <3>1, <3>3
      <4>3. QED
        BY <2>1, <2>2, <2>3, <2>6, <4>1, <4>2 DEF Applied, Taken
    <3>4. CASE at # 0
      <4>1. at \in 1..Len(list) /\ list[at].user = m.user /\ new = RemoveAt(list, at)
        BY <3>1, <3>2, <3>4
      <4>2. new \in Seq(Row) /\ PartyLacks(new, list, at)
        BY <2>3, <4>1, PartyRemoved
      <4>3. QED
        BY <2>1, <2>2, <2>6, <4>1, <4>2 DEF Applied, Taken
    <3>5. QED
      BY <3>3, <3>4
  <2>7. CASE c = m.channel /\ m.kind # "leave"
    <3>1. new = Patched(list, m.user, row)
      BY <1>5, <2>1, <2>2, <2>7
    <3>2. row \in Row /\ row.user = m.user
      BY <1>3 DEF RowOf
    <3>3. new \in Seq(Row) /\ Written(new, list, row)
      BY <1>1, <2>3, <3>1, <3>2, PatchedFacts
    <3>4. QED
      BY <1>3, <2>1, <2>2, <2>7, <3>3 DEF Applied
  <2>8. QED
    BY <2>4, <2>5, <2>6, <2>7
<1>7. n \in [VoiceChannel -> Seq(Row)]
  <2>1. \A c \in VoiceChannel : n[c] \in Seq(Row)
    BY <1>6 DEF Applied
  <2>2. DOMAIN n = VoiceChannel /\ n = [c \in VoiceChannel |-> n[c]]
    BY <1>5
  <2>3. QED
    BY <2>1, <2>2
<1>8. QED
  BY <1>6, <1>7

-----------------------------------------------------------------------------
(* Lists and situations. *)

\* The rows of a list.
LEMMA RowFacts ==
  ASSUME NEW list \in Seq(Row)
  PROVE  \A i \in 1..Len(list) : list[i] \in Row /\ list[i].user \in User /\ list[i].muted \in BOOLEAN
<1>1. ASSUME NEW i \in 1..Len(list)
      PROVE  list[i] \in Row
  BY ElementOfSeq
<1>2. \A row \in Row : row.user \in User /\ row.muted \in BOOLEAN
  BY DEF Row
<1>3. QED
  BY <1>1, <1>2

\* An event leaves the lists of other channels right.
LEMMA OthersRight ==
  ASSUME NEW list \in Seq(Row), NEW c \in VoiceChannel, NEW s \in Situation, NEW t \in Situation,
         NEW m, IsEvent(m), UserMoves(s, m, t), c # m.channel, Right(list, c, s)
  PROVE  Right(list, c, t) /\ \A i \in 1..Len(list) : list[i].user # m.user
<1>1. c # NoVoiceChannel
  BY PartyAssumption DEF PartyAssumption
<1>2. m.kind \in {"join", "update", "leave"}
  BY DEF IsEvent, StateEvents
<1>3. s[m.user].channel # c /\ t[m.user].channel # c
  BY <1>1, <1>2 DEF UserMoves
<1>4. \A i \in 1..Len(list) : list[i].user # m.user
  BY <1>3 DEF Right
<1>5. \A i \in 1..Len(list) : list[i].user \in User
  BY RowFacts
<1>6. \A i \in 1..Len(list) : t[list[i].user] = s[list[i].user]
  BY <1>4, <1>5 DEF UserMoves
<1>7. \A u \in User : t[u].channel = c => s[u].channel = c
  BY <1>3 DEF UserMoves
<1>8. QED
  BY <1>4, <1>6, <1>7 DEF Right

\* So does a row that is not there when it is taken out.
LEMMA KeepsRight ==
  ASSUME NEW list \in Seq(Row), NEW n \in Seq(Row), NEW c, NEW t, NEW u,
         Keeps(n, list, u), Right(list, c, t), \A i \in 1..Len(list) : list[i].user # u
  PROVE  Right(n, c, t)
<1>1. PartyUnlike(n)
  BY DEF Keeps, Right, PartyUnlike
<1>2. ASSUME NEW k \in 1..Len(n)
      PROVE  t[n[k].user].channel = c /\ t[n[k].user].muted = n[k].muted
  <2>1. PICK i \in 1..Len(list) : n[k] = list[i]
    BY DEF Keeps
  <2>2. t[list[i].user].channel = c /\ t[list[i].user].muted = list[i].muted
    BY DEF Right
  <2>3. QED
    BY <2>1, <2>2
<1>3. ASSUME NEW v \in User, t[v].channel = c
      PROVE  \E k \in 1..Len(n) : n[k].user = v
  BY <1>3 DEF Keeps, Right
<1>4. QED
  BY <1>1, <1>2, <1>3 DEF Right, PartyUnlike

\* Who leaves has one row, which goes.
LEMMA TakenRight ==
  ASSUME NEW list \in Seq(Row), NEW n \in Seq(Row), NEW c \in VoiceChannel,
         NEW s \in Situation, NEW t \in Situation,
         NEW m, IsEvent(m), UserMoves(s, m, t), m.kind = "leave", c = m.channel, Right(list, c, s),
         Taken(n, list, m.user)
  PROVE  Right(n, c, t)
<1>1. PICK a \in 1..Len(list) : list[a].user = m.user /\ PartyLacks(n, list, a)
  <2>1. s[m.user].channel = c /\ m.user \in User
    BY DEF UserMoves, IsEvent
  <2>2. \E i \in 1..Len(list) : list[i].user = m.user
    BY <2>1 DEF Right
  <2>3. QED
    BY <2>2 DEF Taken
<1>2. Len(list) \in Nat /\ Len(n) \in Nat /\ Len(n) + 1 = Len(list)
      /\ \A k \in 1..Len(n) : n[k] = IF k < a THEN list[k] ELSE list[k + 1]
  BY <1>1 DEF PartyLacks
<1>3. \A k \in 1..Len(n) : \E i \in 1..Len(list) : n[k] = list[i] /\ i # a /\ i = IF k < a THEN k ELSE k + 1
  BY <1>2
<1>4. \A i \in 1..Len(list) : i # a => \E k \in 1..Len(n) : n[k] = list[i]
  <2>1. ASSUME NEW i \in 1..Len(list), i # a
        PROVE  \E k \in 1..Len(n) : n[k] = list[i]
    <3>1. CASE i < a
      <4>1. i \in 1..Len(n)
        BY <1>2, <3>1
      <4>2. QED
        BY <1>2, <3>1, <4>1
    <3>2. CASE ~(i < a)
      <4>1. i - 1 \in 1..Len(n) /\ ~(i - 1 < a) /\ i - 1 + 1 = i
        BY <1>2, <2>1, <3>2
      <4>2. QED
        BY <1>2, <4>1
    <3>3. QED
      BY <3>1, <3>2
  <2>2. QED
    BY <2>1
<1>5. ASSUME NEW k \in 1..Len(n), NEW l \in 1..Len(n), n[k].user = n[l].user
      PROVE  k = l
  <2>1. PICK i \in 1..Len(list) : n[k] = list[i] /\ i = IF k < a THEN k ELSE k + 1
    BY <1>3
  <2>2. PICK j \in 1..Len(list) : n[l] = list[j] /\ j = IF l < a THEN l ELSE l + 1
    BY <1>3
  <2>3. i = j
    BY <1>5, <2>1, <2>2 DEF Right
  <2>4. QED
    BY <1>2, <2>1, <2>2, <2>3
<1>6. ASSUME NEW k \in 1..Len(n)
      PROVE  t[n[k].user].channel = c /\ t[n[k].user].muted = n[k].muted
  <2>1. PICK i \in 1..Len(list) : n[k] = list[i] /\ i # a
    BY <1>3
  <2>2. list[i].user # m.user
    BY <1>1, <2>1 DEF Right
  <2>3. list[i].user \in User
    BY RowFacts
  <2>4. t[list[i].user] = s[list[i].user]
    BY <2>2, <2>3 DEF UserMoves
  <2>5. QED
    BY <2>1, <2>4 DEF Right
<1>7. ASSUME NEW u \in User, t[u].channel = c
      PROVE  \E k \in 1..Len(n) : n[k].user = u
  <2>1. c # NoVoiceChannel
    BY PartyAssumption DEF PartyAssumption
  <2>2. u # m.user /\ s[u].channel = c
    BY <1>7, <2>1 DEF UserMoves
  <2>3. PICK i \in 1..Len(list) : list[i].user = u
    BY <2>2 DEF Right
  <2>4. i # a
    BY <1>1, <2>2, <2>3
  <2>5. QED
    BY <1>4, <2>3, <2>4
<1>8. QED
  BY <1>5, <1>6, <1>7 DEF Right

\* Who joins has a new row, who is muted another one.
LEMMA WrittenRight ==
  ASSUME NEW list \in Seq(Row), NEW n \in Seq(Row), NEW c \in VoiceChannel,
         NEW s \in Situation, NEW t \in Situation,
         NEW m, IsEvent(m), UserMoves(s, m, t), m.kind # "leave", c = m.channel, Right(list, c, s),
         NEW row, RowOf(row, m), Written(n, list, row)
  PROVE  Right(n, c, t)
<1>1. Len(list) \in Nat /\ m.user \in User /\ row.user = m.user /\ row.muted = m.muted
      /\ t[m.user].channel = c /\ t[m.user].muted = m.muted
  BY DEF IsEvent, StateEvents, UserMoves, RowOf
<1>2. \A u \in User : u # m.user => t[u] = s[u]
  BY DEF UserMoves
<1>3. \A i \in 1..Len(list) : list[i].user \in User
  BY RowFacts
<1>4. CASE m.kind = "join"
  <2>1. \A i \in 1..Len(list) : list[i].user # m.user
    <3>1. s[m.user].channel # c
      BY <1>4, PartyAssumption DEF UserMoves, PartyAssumption
    <3>2. QED
      BY <3>1 DEF Right
  <2>2. PartyAdds(n, list, row)
    BY <1>1, <2>1 DEF Written
  <2>3. Len(n) = Len(list) + 1 /\ n[Len(n)] = row /\ \A k \in 1..Len(list) : n[k] = list[k]
    BY <2>2 DEF PartyAdds
  <2>4. \A k \in 1..Len(n) : k \in 1..Len(list) \/ k = Len(n)
    BY <1>1, <2>3
  <2>5. ASSUME NEW k \in 1..Len(n), NEW l \in 1..Len(n), n[k].user = n[l].user
        PROVE  k = l
    BY <1>1, <2>1, <2>3, <2>4, <2>5 DEF Right
  <2>6. ASSUME NEW k \in 1..Len(n)
        PROVE  t[n[k].user].channel = c /\ t[n[k].user].muted = n[k].muted
    <3>1. CASE k = Len(n)
      BY <1>1, <2>3, <3>1
    <3>2. CASE k \in 1..Len(list)
      BY <1>2, <1>3, <2>1, <2>3, <3>2 DEF Right
    <3>3. QED
      BY <2>4, <3>1, <3>2
  <2>7. ASSUME NEW u \in User, t[u].channel = c
        PROVE  \E k \in 1..Len(n) : n[k].user = u
    <3>1. Len(n) \in 1..Len(n) /\ \A k \in 1..Len(list) : k \in 1..Len(n)
      BY <1>1, <2>3
    <3>2. CASE u = m.user
      BY <1>1, <2>3, <3>1, <3>2
    <3>3. CASE u # m.user
      <4>1. PICK i \in 1..Len(list) : list[i].user = u
        BY <1>2, <2>7, <3>3 DEF Right
      <4>2. QED
        BY <2>3, <3>1, <4>1
    <3>4. QED
      BY <3>2, <3>3
  <2>8. QED
    BY <2>5, <2>6, <2>7 DEF Right
<1>5. CASE m.kind # "join"
  <2>1. s[m.user].channel = c /\ s[m.user].muted # m.muted
    BY <1>5 DEF IsEvent, StateEvents, UserMoves
  <2>2. \E i \in 1..Len(list) : list[i].user = m.user
    BY <1>1, <2>1 DEF Right
  <2>3. ~\E i \in 1..Len(list) : list[i] = row
    BY <1>1, <2>1 DEF Right
  <2>4. PICK a \in 1..Len(list) : list[a].user = m.user /\ PartySets(n, list, a, row)
    BY <1>1, <2>2, <2>3 DEF Written
  <2>5. Len(n) = Len(list) /\ \A k \in 1..Len(list) : n[k] = IF k = a THEN row ELSE list[k]
    BY <2>4 DEF PartySets
  <2>6. \A k \in 1..Len(n) : k \in 1..Len(list) /\ n[k].user = list[k].user
    BY <1>1, <2>4, <2>5
  <2>7. ASSUME NEW k \in 1..Len(n)
        PROVE  t[n[k].user].channel = c /\ t[n[k].user].muted = n[k].muted
    <3>1. CASE k = a
      BY <1>1, <2>4, <2>5, <3>1
    <3>2. CASE k # a
      <4>1. list[k].user # m.user /\ k \in 1..Len(list)
        BY <2>4, <2>6, <3>2 DEF Right
      <4>2. QED
        BY <1>2, <1>3, <2>5, <3>2, <4>1 DEF Right
    <3>3. QED
      BY <3>1, <3>2
  <2>8. ASSUME NEW u \in User, t[u].channel = c
        PROVE  \E k \in 1..Len(n) : n[k].user = u
    <3>1. s[u].channel = c
      BY <1>2, <2>1, <2>8
    <3>2. PICK i \in 1..Len(list) : list[i].user = u
      BY <3>1 DEF Right
    <3>3. QED
      BY <2>5, <2>6, <3>2
  <2>9. \A k, l \in 1..Len(n) : n[k].user = n[l].user => k = l
    BY <2>6 DEF Right
  <2>10. QED
    BY <2>7, <2>8, <2>9 DEF Right
<1>6. QED
  BY <1>4, <1>5

\* An event keeps all lists right.
LEMMA EventKeepsRight ==
  ASSUME NEW r \in [VoiceChannel -> Seq(Row)], NEW s \in Situation, NEW t \in Situation,
         NEW m, IsEvent(m), UserMoves(s, m, t), AllRight(r, s), NEW n, n = EventApplied(r, m)
  PROVE  AllRight(n, t)
<1>1. ASSUME NEW c \in VoiceChannel
      PROVE  Right(n[c], c, t)
  <2>1. Applied(n[c], r[c], m, c)
    BY EventFacts
  <2>2. PICK list \in Seq(Row) : list = r[c]
    OBVIOUS
  <2>3. PICK new : new = n[c]
    OBVIOUS
  <2>4. Applied(new, list, m, c) /\ Right(list, c, s)
    BY <2>1, <2>2, <2>3 DEF AllRight
  <2>5. new \in Seq(Row)
    BY <2>4 DEF Applied
  <2>6. CASE c # m.channel
    <3>1. Right(list, c, t) /\ \A i \in 1..Len(list) : list[i].user # m.user
      BY <2>4, <2>6, OthersRight
    <3>2. CASE m.kind = "join"
      <4>1. Keeps(new, list, m.user)
        BY <2>4, <2>6, <3>2 DEF Applied
      <4>2. Right(new, c, t)
        BY <2>5, <3>1, <4>1, KeepsRight
      <4>3. QED
        BY <2>3, <4>2
    <3>3. CASE m.kind # "join"
      <4>1. new = list
        BY <2>4, <2>6, <3>3 DEF Applied
      <4>2. QED
        BY <2>3, <3>1, <4>1
    <3>4. QED
      BY <3>2, <3>3
  <2>7. CASE c = m.channel /\ m.kind = "leave"
    <3>1. Taken(new, list, m.user)
      BY <2>4, <2>7 DEF Applied
    <3>2. Right(new, c, t)
      BY <2>4, <2>5, <2>7, <3>1, TakenRight
    <3>3. QED
      BY <2>3, <3>2
  <2>8. CASE c = m.channel /\ m.kind # "leave"
    <3>1. PICK row : RowOf(row, m) /\ Written(new, list, row)
      BY <2>4, <2>8 DEF Applied
    <3>2. Right(new, c, t)
      BY <2>4, <2>5, <2>8, <3>1, WrittenRight
    <3>3. QED
      BY <2>3, <3>2
  <2>9. QED
    BY <2>6, <2>7, <2>8
<1>2. QED
  BY <1>1 DEF AllRight

-----------------------------------------------------------------------------
(* The rows of the user; lists that are made anew.                         *)

\* n has the same rows of the user of the client as list.
SameOwn(n, list) ==
    /\ \A k \in 1..Len(n) : n[k].user = Self =>
          \E i \in 1..Len(list) : list[i].user = Self /\ list[i].muted = n[k].muted
    /\ \A i \in 1..Len(list) : list[i].user = Self => \E k \in 1..Len(n) : n[k].user = Self

\* Events of others do not touch them.
LEMMA OthersOwn ==
  ASSUME NEW list \in Seq(Row), NEW n, NEW c, NEW p, NEW m, IsEvent(m),
         m.user # Self, Applied(n, list, m, c), OwnRow(list, p, c)
  PROVE  OwnRow(n, p, c)
<1>1. n \in Seq(Row) /\ Len(n) \in Nat /\ Len(list) \in Nat
  BY DEF Applied
<1>2. SUFFICES SameOwn(n, list)
  <2>1. ASSUME SameOwn(n, list), NEW k \in 1..Len(n), n[k].user = Self
        PROVE  p.channel = c /\ n[k].muted = p.muted
    <3>1. PICK i \in 1..Len(list) : list[i].user = Self /\ list[i].muted = n[k].muted
      BY <2>1 DEF SameOwn
    <3>2. QED
      BY <3>1 DEF OwnRow
  <2>2. ASSUME SameOwn(n, list), p.channel = c
        PROVE  \E k \in 1..Len(n) : n[k].user = Self
    BY <2>2 DEF SameOwn, OwnRow
  <2>3. QED
    BY <2>1, <2>2 DEF OwnRow
<1>3. CASE c # m.channel /\ m.kind = "join"
  <2>1. Keeps(n, list, m.user)
    BY <1>3 DEF Applied
  <2>2. ASSUME NEW k \in 1..Len(n), n[k].user = Self
        PROVE  \E i \in 1..Len(list) : list[i].user = Self /\ list[i].muted = n[k].muted
    <3>1. PICK i \in 1..Len(list) : n[k] = list[i]
      BY <2>1 DEF Keeps
    <3>2. QED
      BY <2>2, <3>1
  <2>3. ASSUME NEW i \in 1..Len(list), list[i].user = Self
        PROVE  \E k \in 1..Len(n) : n[k].user = Self
    <3>1. PICK k \in 1..Len(n) : n[k] = list[i]
      BY <2>1, <2>3 DEF Keeps
    <3>2. QED
      BY <2>3, <3>1
  <2>4. QED
    BY <2>2, <2>3 DEF SameOwn
<1>4. CASE c # m.channel /\ m.kind # "join"
  BY <1>4 DEF Applied, SameOwn
<1>5. CASE c = m.channel /\ m.kind = "leave"
  <2>1. CASE n = list
    BY <2>1 DEF SameOwn
  <2>2. CASE n # list
    <3>1. PICK a \in 1..Len(list) : list[a].user = m.user /\ PartyLacks(n, list, a)
      BY <1>5, <2>2 DEF Applied, Taken
    <3>2. Len(n) + 1 = Len(list) /\ \A k \in 1..Len(n) : n[k] = IF k < a THEN list[k] ELSE list[k + 1]
      BY <3>1 DEF PartyLacks
    <3>3. ASSUME NEW k \in 1..Len(n)
          PROVE  \E i \in 1..Len(list) : n[k] = list[i]
      <4>1. k \in 1..Len(list) /\ k + 1 \in 1..Len(list)
        BY <1>1, <3>2
      <4>2. QED
        BY <3>2, <4>1
    <3>4. ASSUME NEW i \in 1..Len(list), list[i].user = Self
          PROVE  \E k \in 1..Len(n) : n[k].user = Self
      <4>1. i # a
        BY <3>1, <3>4
      <4>2. CASE i < a
        <5>1. i \in 1..Len(n)
          BY <1>1, <3>2, <4>2
        <5>2. QED
          BY <3>2, <3>4, <4>2, <5>1
      <4>3. CASE ~(i < a)
        <5>1. i - 1 \in 1..Len(n) /\ ~(i - 1 < a) /\ i - 1 + 1 = i
          BY <1>1, <3>2, <4>1, <4>3
        <5>2. n[i - 1] = list[i]
          BY <3>2, <5>1
        <5>3. QED
          BY <3>4, <5>1, <5>2
      <4>4. QED
        BY <4>2, <4>3
    <3>5. QED
      BY <3>3, <3>4 DEF SameOwn
  <2>3. QED
    BY <2>1, <2>2
<1>6. CASE c = m.channel /\ m.kind # "leave"
  <2>1. PICK row : RowOf(row, m) /\ Written(n, list, row)
    BY <1>6 DEF Applied
  <2>2. row.user # Self
    BY <2>1 DEF RowOf
  <2>3. CASE PartyAdds(n, list, row)
    <3>1. Len(n) = Len(list) + 1 /\ n[Len(n)] = row /\ \A k \in 1..Len(list) : n[k] = list[k]
      BY <2>3 DEF PartyAdds
    <3>2. \A k \in 1..Len(n) : k = Len(n) \/ k \in 1..Len(list)
      BY <1>1, <3>1
    <3>3. \A k \in 1..Len(list) : k \in 1..Len(n)
      BY <1>1, <3>1
    <3>4. QED
      BY <2>2, <3>1, <3>2, <3>3 DEF SameOwn
  <2>4. CASE ~PartyAdds(n, list, row)
    <3>1. PICK a \in 1..Len(list) : list[a].user = row.user /\ PartySets(n, list, a, row)
      BY <2>1, <2>4 DEF Written
    <3>2. Len(n) = Len(list) /\ \A k \in 1..Len(list) : n[k] = IF k = a THEN row ELSE list[k]
      BY <3>1 DEF PartySets
    <3>3. QED
      BY <2>2, <3>1, <3>2 DEF SameOwn
  <2>5. QED
    BY <2>3, <2>4
<1>7. QED
  BY <1>3, <1>4, <1>5, <1>6

\* Nor do their own events those of other channels, where they are not.
LEMMA ElsewhereOwn ==
  ASSUME NEW list \in Seq(Row), NEW n, NEW c, NEW p, NEW m,
         m.user = Self, c # m.channel, Applied(n, list, m, c), OwnRow(list, p, c),
         m.kind = "join" => p.channel # c
  PROVE  OwnRow(n, p, c)
<1>1. CASE m.kind = "join"
  <2>1. \A k \in 1..Len(n) : n[k].user # Self
    BY <1>1 DEF Applied, Keeps
  <2>2. QED
    BY <1>1, <2>1 DEF OwnRow
<1>2. CASE m.kind # "join"
  BY <1>2 DEF Applied
<1>3. QED
  BY <1>1, <1>2

\* The same users, muted alike.
SameRows(n, list) ==
    Len(n) = Len(list) /\ \A k \in 1..Len(list) : n[k].user = list[k].user /\ n[k].muted = list[k].muted

\* They are as right.
LEMMA SameRight ==
  ASSUME NEW list, NEW n, NEW c, NEW s, SameRows(n, list), Right(list, c, s)
  PROVE  Right(n, c, s)
BY DEF SameRows, Right

\* setVoiceSpeakingUsers changes nothing else.
LEMMA SpeakingFacts ==
  ASSUME NEW list \in Seq(Row), NEW speaking, NEW n, n = SpeakingSet(list, speaking)
  PROVE  n \in Seq(Row) /\ SameRows(n, list)
<1>1. Len(list) \in Nat
  OBVIOUS
<1>2. PICK w : w = [i \in 1..Len(list) |-> IF list[i].user \in speaking THEN "yes" ELSE "no"]
  OBVIOUS
<1>3. n = [i \in 1..Len(list) |->
             IF (list[i].speaking = "yes") = (w[i] = "yes") THEN list[i]
             ELSE [list[i] EXCEPT !.speaking = w[i]]]
  BY <1>2 DEF SpeakingSet
<1>4. \A i \in 1..Len(list) : w[i] \in {"no", "yes"}
  BY <1>2
<1>5. ASSUME NEW i \in 1..Len(list)
      PROVE  n[i] \in Row /\ n[i].user = list[i].user /\ n[i].muted = list[i].muted
  <2>1. PICK row \in Row : row = list[i]
    BY RowFacts
  <2>2. PICK v \in {"no", "yes"} : v = w[i]
    BY <1>4
  <2>3. PICK new : new = [row EXCEPT !.speaking = v]
    OBVIOUS
  <2>4. new \in Row /\ new.user = row.user /\ new.muted = row.muted
    BY <2>3 DEF Row
  <2>5. n[i] = row \/ n[i] = new
    BY <1>3, <2>1, <2>2, <2>3
  <2>6. QED
    BY <2>1, <2>4, <2>5
<1>6. n \in Seq(Row) /\ Len(n) = Len(list)
  BY <1>1, <1>3, <1>5
<1>7. QED
  BY <1>5, <1>6 DEF SameRows

-----------------------------------------------------------------------------
\* f lists the set S.
ListsAll(f, S) ==
    /\ f \in Seq(S)
    /\ \A i, j \in 1..Len(f) : f[i] = f[j] => i = j
    /\ \A x \in S : \E i \in 1..Len(f) : f[i] = x

\* A finite set as a list.
LEMMA Listing ==
  ASSUME NEW S, IsFiniteSet(S)
  PROVE  ListsAll(SetToSeq(S), S)
<1>0. PICK f : f = SetToSeq(S)
  OBVIOUS
<1>1. PICK n : n = Cardinality(S)
  OBVIOUS
<1>2. n \in Nat /\ ExistsBijection(1..n, S)
  BY <1>1, FS_CardinalityType
<1>3. PICK g : g \in Bijection(1..n, S)
  BY <1>2 DEF ExistsBijection
<1>4. g \in [1..n -> S] /\ IsInjective(g)
  BY <1>3 DEF Bijection, Injection, IsInjective
<1>5. f = CHOOSE e \in [1..n -> S] : IsInjective(e)
  BY <1>0, <1>1 DEF SetToSeq
<1>6. f \in [1..n -> S] /\ IsInjective(f)
  BY <1>4, <1>5
<1>7. f \in Seq(S) /\ Len(f) = n
  BY <1>2, <1>6
<1>8. \A i, j \in 1..n : f[i] = f[j] => i = j
  BY <1>6 DEF IsInjective
<1>9. f \in Injection(1..n, S)
  BY <1>6, <1>8 DEF Injection, IsInjective
<1>10. IsFiniteSet(1..n) /\ Cardinality(1..n) = n
  <2>1. IsFiniteSet(1..n) /\ Cardinality(1..n) = IF 1 > n THEN 0 ELSE n - 1 + 1
    BY <1>2, FS_Interval
  <2>2. (IF 1 > n THEN 0 ELSE n - 1 + 1) = n
    BY <1>2
  <2>3. QED
    BY <2>1, <2>2
<1>11. f \in Surjection(1..n, S)
  BY <1>1, <1>9, <1>10, FS_Injection
<1>12. \A x \in S : \E i \in 1..n : f[i] = x
  BY <1>11 DEF Surjection
<1>13. QED
  BY <1>0, <1>7, <1>8, <1>12 DEF ListsAll

\* The list of a channel that the server sends.
LEMMA ListedFacts ==
  ASSUME NEW s \in Situation, NEW c \in VoiceChannel, NEW n, n = Listed(s, c)
  PROVE  n \in Seq(Row) /\ Right(n, c, s)
<1>2. PICK S : S = {u \in User : s[u].channel = c}
  OBVIOUS
<1>1. PICK f : f = SetToSeq(S)
  OBVIOUS
<1>3. IsFiniteSet(S)
  <2>1. S \in SUBSET User
    BY <1>2
  <2>2. IsFiniteSet(User)
    BY PartyAssumption DEF PartyAssumption
  <2>3. QED
    BY <2>1, <2>2, FS_Subset
<1>4. /\ f \in Seq(S)
      /\ \A i, j \in 1..Len(f) : f[i] = f[j] => i = j
      /\ \A x \in S : \E i \in 1..Len(f) : f[i] = x
  <2>1. ListsAll(SetToSeq(S), S)
    BY <1>3, Listing
  <2>2. ListsAll(f, S)
    BY <1>1, <2>1
  <2>3. QED
    BY <2>2 DEF ListsAll
<1>5. Len(f) \in Nat /\ \A i \in 1..Len(f) : f[i] \in S
  BY <1>4
<1>6. n = [i \in 1..Len(f) |-> [user |-> f[i], muted |-> s[f[i]].muted, speaking |-> "unset"]]
  BY <1>1, <1>2 DEF Listed
<1>7. ASSUME NEW i \in 1..Len(f)
      PROVE  /\ n[i] \in Row /\ n[i].user = f[i] /\ n[i].user \in User
             /\ s[n[i].user].channel = c /\ s[n[i].user].muted = n[i].muted
  <2>1. f[i] \in User /\ s[f[i]].channel = c
    BY <1>2, <1>5
  <2>2. PICK b \in BOOLEAN : b = s[f[i]].muted
    BY <2>1 DEF Situation
  <2>3. n[i] = [user |-> f[i], muted |-> b, speaking |-> "unset"]
    BY <1>6, <2>2
  <2>4. n[i] \in Row /\ n[i].user = f[i] /\ n[i].muted = b
    BY <2>1, <2>3 DEF Row
  <2>5. QED
    BY <2>1, <2>2, <2>4
<1>8. n \in Seq(Row) /\ Len(n) = Len(f)
  BY <1>5, <1>6, <1>7
<1>9. ASSUME NEW u \in User, s[u].channel = c
      PROVE  \E i \in 1..Len(f) : n[i].user = u
  <2>1. u \in S
    BY <1>2, <1>9
  <2>2. QED
    BY <1>4, <1>7, <2>1
<1>10. \A i, j \in 1..Len(f) : n[i].user = n[j].user => i = j
  BY <1>4, <1>7
<1>11. QED
  BY <1>7, <1>8, <1>9, <1>10 DEF Right

\* A list that is right has the user right.
LEMMA RightOwn ==
  ASSUME NEW s, NEW c, NEW list, Right(list, c, s)
  PROVE  OwnRow(list, s[Self], c)
<1>1. Self \in User
  BY PartyAssumption DEF PartyAssumption
<1>2. QED
  BY <1>1 DEF Right, OwnRow

-----------------------------------------------------------------------------
(* The invariant, of a queue that grows.                                   *)

\* The bookkeeping of the fetches.
FetchRecord == [inFlight : SUBSET VoiceChannel, pending : SUBSET VoiceChannel,
                recent : SUBSET VoiceChannel, retry : [VoiceChannel -> Nat]]

\* Fetches and answers fit.
QueueInv(q, f, act) ==
    /\ f.pending \subseteq f.inFlight /\ OneAnswer(q, f) /\ OfScenario(q)
    /\ OneOwnAnswer(q) /\ JoinsFromNowhere(q, act)

\* The lists have the user right, or will, but for the channels D, which are asked for next.
OwnInv(q, s, f, r, D) ==
    partyEnv \subseteq {"others", "mute", "late", "limit", "same"} =>
        /\ \A c \in VoiceChannel \ D : OnItsWay(q, f, r[c], s[Self], c)
        /\ MovedOn(q, s[Self])

\* The situations h account for the queue, the lists r and the dock d.
TellsSo(h, q, s, act, r, d) ==
    /\ Story(h, q, s)
    /\ AllRight(r, h[0])
    /\ partyEnv \subseteq {"others", "mute"} => DockRight(q, act, d, h[0])

\* In the scenarios without overtaking and failures there are such situations.
HistoryInv(q, s, act, r, d) ==
    partyEnv \subseteq {"others", "mute", "limit", "speak", "preview"} =>
        \E h \in [0..Len(q) -> Situation] : TellsSo(h, q, s, act, r, d)

\* The invariant, of the queue q, the situation s, the fetches f, the active channel
\* act, the lists r and the dock d.
QInv(q, s, f, act, r, d, D) ==
    QueueInv(q, f, act) /\ OwnInv(q, s, f, r, D) /\ HistoryInv(q, s, act, r, d)

-----------------------------------------------------------------------------
(* One more message. *)

\* The fields of what arrives.
LEMMA PartyArrivingFields ==
  ASSUME NEW m \in PartyArriving
  PROVE  /\ m.kind \in StateEvents \cup {"joined", "left", "rows", "limit", "fail", "preview"}
         /\ m.channel \in VoiceChannel
         /\ m.kind \in StateEvents => IsEvent(m)
         /\ m.kind \in {"rows", "preview"} => m.list \in Seq(Row)
         /\ m.kind = "rows" => m.sync \in BOOLEAN
BY DEF PartyArriving, IsEvent, StateEvents

\* What is in the queue stays, and the last is the new one.
LEMMA AddsIn ==
  ASSUME NEW q \in Seq(PartyArriving), NEW m \in PartyArriving, NEW n, n = Append(q, m)
  PROVE  /\ n \in Seq(PartyArriving) /\ Len(q) \in Nat /\ Len(n) \in Nat /\ Len(n) = Len(q) + 1
         /\ n[Len(n)] = m /\ Len(n) \in 1..Len(n)
         /\ \A k \in 1..Len(q) : n[k] = q[k] /\ k \in 1..Len(n) /\ k # Len(n)
         /\ \A k \in 1..Len(n) : k \in 1..Len(q) \/ k = Len(n)
<1>1. n \in Seq(PartyArriving) /\ PartyAdds(n, q, m)
  BY PartyAppended
<1>2. Len(q) \in Nat
  OBVIOUS
<1>3. Len(n) = Len(q) + 1 /\ n[Len(n)] = m /\ \A k \in 1..Len(q) : n[k] = q[k]
  BY <1>1 DEF PartyAdds
<1>4. QED
  BY <1>1, <1>2, <1>3

\* What is on its way stays so.
LEMMA OnItsWayMore ==
  ASSUME NEW q \in Seq(PartyArriving), NEW m \in PartyArriving, NEW n, n = Append(q, m),
         NEW f, NEW list, NEW p, NEW c, OnItsWay(q, f, list, p, c)
  PROVE  OnItsWay(n, f, list, p, c)
<1>1. \A k \in 1..Len(q) : n[k] = q[k] /\ k \in 1..Len(n)
  BY AddsIn
<1>2. CASE \E i \in 1..Len(q) : SelfEvent(q[i]) /\ q[i].channel = c
  <2>1. PICK i \in 1..Len(q) : SelfEvent(q[i]) /\ q[i].channel = c
    BY <1>2
  <2>2. SelfEvent(n[i]) /\ n[i].channel = c /\ i \in 1..Len(n)
    BY <1>1, <2>1
  <2>3. QED
    BY <2>2 DEF OnItsWay
<1>3. CASE \E i \in 1..Len(q) : q[i].kind = "limit" /\ q[i].channel = c
  BY <1>1, <1>3 DEF OnItsWay
<1>4. CASE \E i \in 1..Len(q) : q[i].kind = "rows" /\ q[i].channel = c /\ OwnRow(q[i].list, p, c)
  <2>1. PICK i \in 1..Len(q) : q[i].kind = "rows" /\ q[i].channel = c /\ OwnRow(q[i].list, p, c)
    BY <1>4
  <2>2. n[i].kind = "rows" /\ n[i].channel = c /\ OwnRow(n[i].list, p, c) /\ i \in 1..Len(n)
    BY <1>1, <2>1
  <2>3. QED
    BY <2>2 DEF OnItsWay
<1>5. QED
  BY <1>2, <1>3, <1>4 DEF OnItsWay

\* The situations of more messages: one more, t.
LEMMA StoryMore ==
  ASSUME NEW q \in Seq(PartyArriving), NEW m \in PartyArriving, NEW n, n = Append(q, m),
         NEW s \in Situation, NEW t \in Situation, Leads(s, m, t),
         NEW h, Story(h, q, s)
  PROVE  \E g \in [0..Len(n) -> Situation] : Story(g, n, t) /\ g[0] = h[0]
<1>1. /\ Len(q) \in Nat /\ Len(n) = Len(q) + 1 /\ n[Len(n)] = m
      /\ \A k \in 1..Len(q) : n[k] = q[k]
      /\ \A k \in 1..Len(n) : k \in 1..Len(q) \/ k = Len(n)
  BY AddsIn
<1>2. /\ h \in [0..Len(q) -> Situation] /\ h[Len(q)] = s
      /\ \A k \in 1..Len(q) : Leads(h[k - 1], q[k], h[k])
  BY DEF Story
<1>3. PICK g : g = [k \in 0..Len(n) |-> IF k = Len(n) THEN t ELSE h[k]]
  OBVIOUS
<1>4. \A k \in 0..Len(q) : k \in 0..Len(n) /\ k # Len(n)
  BY <1>1
<1>5. \A k \in 0..Len(n) : k = Len(n) \/ k \in 0..Len(q)
  BY <1>1
<1>6. g \in [0..Len(n) -> Situation] /\ g[Len(n)] = t /\ \A k \in 0..Len(q) : g[k] = h[k]
  <2>1. Len(n) \in 0..Len(n)
    BY <1>1
  <2>2. QED
    BY <1>2, <1>3, <1>4, <1>5, <2>1
<1>7. ASSUME NEW k \in 1..Len(n)
      PROVE  Leads(g[k - 1], n[k], g[k])
  <2>1. CASE k \in 1..Len(q)
    <3>1. k - 1 \in 0..Len(q) /\ k \in 0..Len(q)
      BY <1>1, <2>1
    <3>2. g[k - 1] = h[k - 1] /\ g[k] = h[k] /\ n[k] = q[k]
      BY <1>1, <1>6, <2>1, <3>1
    <3>3. QED
      BY <1>2, <2>1, <3>2
  <2>2. CASE k = Len(n)
    <3>1. k - 1 = Len(q) /\ Len(q) \in 0..Len(q)
      BY <1>1, <2>2
    <3>2. g[k - 1] = s /\ g[k] = t /\ n[k] = m
      BY <1>1, <1>2, <1>6, <2>2, <3>1
    <3>3. QED
      BY <3>2
  <2>3. QED
    BY <1>1, <2>1, <2>2
<1>8. g[0] = h[0]
  <2>1. 0 \in 0..Len(q)
    BY <1>1
  <2>2. QED
    BY <1>6, <2>1
<1>9. QED
  BY <1>6, <1>7, <1>8 DEF Story

\* The dock stays right.
LEMMA DockMore ==
  ASSUME NEW q \in Seq(PartyArriving), NEW m \in PartyArriving, NEW n, n = Append(q, m),
         NEW act, NEW d, NEW s, DockRight(q, act, d, s)
  PROVE  DockRight(n, act, d, s)
<1>1. \A k \in 1..Len(q) : n[k] = q[k] /\ k \in 1..Len(n)
  BY AddsIn
<1>2. QED
  BY <1>1 DEF DockRight

\* All of it.
LEMMA HistoryMore ==
  ASSUME NEW q \in Seq(PartyArriving), NEW m \in PartyArriving, NEW n, n = Append(q, m),
         NEW s \in Situation, NEW t \in Situation, NEW act, NEW r, NEW d,
         partyEnv \subseteq {"others", "mute", "limit", "speak", "preview"} => Leads(s, m, t),
         HistoryInv(q, s, act, r, d)
  PROVE  HistoryInv(n, t, act, r, d)
<1>1. SUFFICES ASSUME partyEnv \subseteq {"others", "mute", "limit", "speak", "preview"}
               PROVE  \E g \in [0..Len(n) -> Situation] : TellsSo(g, n, t, act, r, d)
  BY DEF HistoryInv
<1>2. PICK h : TellsSo(h, q, s, act, r, d)
  BY <1>1 DEF HistoryInv
<1>3. PICK g \in [0..Len(n) -> Situation] : Story(g, n, t) /\ g[0] = h[0]
  BY <1>1, <1>2, StoryMore DEF TellsSo
<1>4. partyEnv \subseteq {"others", "mute"} => DockRight(n, act, d, g[0])
  BY <1>2, <1>3, DockMore DEF TellsSo
<1>5. QED
  BY <1>2, <1>3, <1>4 DEF TellsSo

\* The message answers no fetch.
LEMMA QueueMore ==
  ASSUME NEW q \in Seq(PartyArriving), NEW m \in PartyArriving, NEW n, n = Append(q, m),
         NEW f, NEW act, QueueInv(q, f, act), m.kind \notin {"rows", "limit", "fail"},
         m.kind = "preview" => "preview" \in partyEnv,
         m.kind = "joined" => act = NoVoiceChannel,
         IsOwnAnswer(m) => \A k \in 1..Len(q) : ~IsOwnAnswer(q[k])
  PROVE  QueueInv(n, f, act)
<1>1. /\ n[Len(n)] = m /\ Len(n) \in 1..Len(n)
      /\ \A k \in 1..Len(q) : n[k] = q[k] /\ k \in 1..Len(n) /\ k # Len(n)
      /\ \A k \in 1..Len(n) : k \in 1..Len(q) \/ k = Len(n)
  BY AddsIn
<1>2. \A c : PartyAnswers(n, c) = PartyAnswers(q, c)
  BY <1>1 DEF PartyAnswers, IsAnswer
<1>3. OneAnswer(n, f)
  BY <1>2 DEF QueueInv, OneAnswer
<1>4. OfScenario(n)
  BY <1>1 DEF QueueInv, OfScenario
<1>5. OneOwnAnswer(n)
  <2>1. ASSUME NEW i \in 1..Len(n), NEW j \in 1..Len(n), IsOwnAnswer(n[i]), IsOwnAnswer(n[j])
        PROVE  i = j
    <3>1. CASE i \in 1..Len(q) /\ j \in 1..Len(q)
      <4>1. IsOwnAnswer(q[i]) /\ IsOwnAnswer(q[j])
        BY <1>1, <2>1, <3>1
      <4>2. QED
        BY <3>1, <4>1 DEF QueueInv, OneOwnAnswer
    <3>2. CASE i \notin 1..Len(q) /\ j \in 1..Len(q)
      <4>1. IsOwnAnswer(m) /\ IsOwnAnswer(q[j])
        BY <1>1, <2>1, <3>2
      <4>2. QED
        BY <3>2, <4>1
    <3>3. CASE i \in 1..Len(q) /\ j \notin 1..Len(q)
      <4>1. IsOwnAnswer(m) /\ IsOwnAnswer(q[i])
        BY <1>1, <2>1, <3>3
      <4>2. QED
        BY <3>3, <4>1
    <3>4. QED
      BY <1>1, <3>1, <3>2, <3>3
  <2>2. QED
    BY <2>1 DEF OneOwnAnswer
<1>6. JoinsFromNowhere(n, act)
  BY <1>1 DEF QueueInv, JoinsFromNowhere
<1>7. QED
  BY <1>3, <1>4, <1>5, <1>6 DEF QueueInv

-----------------------------------------------------------------------------
(* What is told.                                                           *)

\* The event of the change from s to t; a join where the user is changes nothing.
EventStep(s, m, t) ==
    UserMoves(s, m, t) \/ (t = s /\ m.kind = "join" /\ "same" \in partyEnv /\ s[m.user].channel = m.channel)

\* A message that is no event changes nothing of where the user moved.
LEMMA MovedOnMore ==
  ASSUME NEW q \in Seq(PartyArriving), NEW m \in PartyArriving, NEW n, n = Append(q, m),
         NEW p, MovedOn(q, p), ~SelfEvent(m)
  PROVE  MovedOn(n, p)
<1>1. /\ n[Len(n)] = m /\ Len(n) \in Nat /\ Len(q) \in Nat
      /\ \A k \in 1..Len(q) : n[k] = q[k] /\ k \in 1..Len(n)
      /\ \A k \in 1..Len(n) : k \in 1..Len(q) \/ k = Len(n)
  BY AddsIn
<1>2. ASSUME NEW i \in 1..Len(n), SelfEvent(n[i]), n[i].kind = "join", n[i].channel # p.channel,
             p.channel # NoVoiceChannel
      PROVE  \E j \in (i + 1)..Len(n) : SelfEvent(n[j]) /\ n[j].channel = p.channel
  <2>1. i \in 1..Len(q) /\ n[i] = q[i]
    BY <1>1, <1>2
  <2>2. SelfEvent(q[i]) /\ q[i].kind = "join" /\ q[i].channel # p.channel
    BY <1>2, <2>1
  <2>3. PICK j \in (i + 1)..Len(q) : SelfEvent(q[j]) /\ q[j].channel = p.channel
    BY <1>2, <2>1, <2>2 DEF MovedOn
  <2>4. j \in 1..Len(q) /\ j \in (i + 1)..Len(n)
    BY <1>1, <2>1
  <2>5. n[j] = q[j]
    BY <1>1, <2>4
  <2>6. SelfEvent(n[j]) /\ n[j].channel = p.channel
    BY <2>3, <2>5
  <2>7. QED
    BY <2>4, <2>6
<1>3. QED
  BY <1>2 DEF MovedOn

\* After an event of the user what moved on before is followed by it.
LEMMA MovedOnEvent ==
  ASSUME NEW q \in Seq(PartyArriving), NEW m \in PartyArriving, NEW n, n = Append(q, m), SelfEvent(m),
         NEW p, p.channel = m.channel \/ p.channel = NoVoiceChannel
  PROVE  MovedOn(n, p)
<1>1. /\ n[Len(n)] = m /\ Len(n) \in Nat /\ Len(q) \in Nat /\ Len(n) = Len(q) + 1
      /\ \A k \in 1..Len(n) : k \in 1..Len(q) \/ k = Len(n)
  BY AddsIn
<1>2. ASSUME NEW i \in 1..Len(n), SelfEvent(n[i]), n[i].kind = "join", n[i].channel # p.channel,
             p.channel # NoVoiceChannel
      PROVE  \E j \in (i + 1)..Len(n) : SelfEvent(n[j]) /\ n[j].channel = p.channel
  <2>1. p.channel = m.channel
    BY <1>2
  <2>2. i # Len(n)
    BY <1>1, <1>2, <2>1
  <2>3. Len(n) \in (i + 1)..Len(n)
    BY <1>1, <2>2
  <2>4. SelfEvent(n[Len(n)]) /\ n[Len(n)].channel = p.channel
    BY <1>1, <2>1
  <2>5. QED
    BY <2>3, <2>4
<1>3. QED
  BY <1>2 DEF MovedOn

\* A list has who is not there right wherever they are else.
LEMMA ElsewhereRow ==
  ASSUME NEW list, NEW a, NEW b, NEW c, a.channel # c, b.channel # c, OwnRow(list, a, c)
  PROVE  OwnRow(list, b, c)
BY DEF OwnRow

\* So what is on its way is.
LEMMA ElsewhereOnItsWay ==
  ASSUME NEW q, NEW f, NEW list, NEW a, NEW b, NEW c, a.channel # c, b.channel # c,
         OnItsWay(q, f, list, a, c)
  PROVE  OnItsWay(q, f, list, b, c)
<1>1. CASE \E i \in 1..Len(q) : q[i].kind = "rows" /\ q[i].channel = c /\ OwnRow(q[i].list, a, c)
  <2>1. PICK i \in 1..Len(q) : q[i].kind = "rows" /\ q[i].channel = c /\ OwnRow(q[i].list, a, c)
    BY <1>1
  <2>2. OwnRow(q[i].list, b, c)
    BY <2>1, ElsewhereRow
  <2>3. QED
    BY <2>1, <2>2 DEF OnItsWay
<1>2. CASE c \notin f.inFlight /\ OwnRow(list, a, c)
  <2>1. OwnRow(list, b, c)
    BY <1>2, ElsewhereRow
  <2>2. QED
    BY <1>2, <2>1 DEF OnItsWay
<1>3. QED
  BY <1>1, <1>2 DEF OnItsWay

\* An event is told.
LEMMA TellEvent ==
  ASSUME NEW q \in Seq(PartyArriving), NEW m \in PartyArriving, NEW n, n = Append(q, m), IsEvent(m),
         NEW s \in Situation, NEW t \in Situation, EventStep(s, m, t),
         NEW f, NEW act, NEW r, NEW d, QInv(q, s, f, act, r, d, {})
  PROVE  QInv(n, t, f, act, r, d, {})
<1>1. m.kind \in {"join", "update", "leave"} /\ m.channel \in VoiceChannel /\ m.user \in User
      /\ m.channel # NoVoiceChannel /\ Self \in User
  BY PartyAssumption DEF IsEvent, StateEvents, PartyAssumption
<1>2. QueueInv(n, f, act)
  <2>1. QueueInv(q, f, act)
    BY DEF QInv
  <2>2. m.kind \notin {"rows", "limit", "fail", "preview", "joined"} /\ ~IsOwnAnswer(m)
    BY <1>1 DEF IsOwnAnswer
  <2>3. QED
    BY <2>1, <2>2, QueueMore
<1>3. HistoryInv(n, t, act, r, d)
  <2>1. HistoryInv(q, s, act, r, d)
    BY DEF QInv
  <2>2. partyEnv \subseteq {"others", "mute", "limit", "speak", "preview"} => Leads(s, m, t)
    <3>1. partyEnv \subseteq {"others", "mute", "limit", "speak", "preview"} => "same" \notin partyEnv
      OBVIOUS
    <3>2. partyEnv \subseteq {"others", "mute", "limit", "speak", "preview"} => UserMoves(s, m, t)
      BY <3>1 DEF EventStep
    <3>3. m.kind \in StateEvents /\ m.kind \notin {"rows", "preview", "left"}
      BY <1>1 DEF StateEvents
    <3>4. QED
      BY <3>2, <3>3 DEF Leads
  <2>3. QED
    BY <2>1, <2>2, HistoryMore
<1>4. OwnInv(n, t, f, r, {})
  <2>1. SUFFICES ASSUME partyEnv \subseteq {"others", "mute", "late", "limit", "same"}
                 PROVE  /\ \A c \in VoiceChannel : OnItsWay(n, f, r[c], t[Self], c)
                        /\ MovedOn(n, t[Self])
    BY DEF OwnInv
  <2>2. /\ \A c \in VoiceChannel : OnItsWay(q, f, r[c], s[Self], c)
        /\ MovedOn(q, s[Self])
    BY <2>1 DEF QInv, OwnInv
  <2>3. \A c \in VoiceChannel : OnItsWay(n, f, r[c], s[Self], c)
    BY <2>2, OnItsWayMore
  <2>4. CASE m.user # Self
    <3>1. t[Self] = s[Self]
      BY <1>1, <2>4 DEF EventStep, UserMoves
    <3>2. ~SelfEvent(m)
      BY <2>4 DEF SelfEvent
    <3>3. MovedOn(n, s[Self])
      BY <2>2, <3>2, MovedOnMore
    <3>4. QED
      BY <2>3, <3>1, <3>3
  <2>5. CASE m.user = Self
    <3>1. SelfEvent(m)
      BY <1>1, <2>5 DEF SelfEvent, StateEvents
    <3>2. t[Self].channel = m.channel \/ t[Self].channel = NoVoiceChannel
      BY <1>1, <2>5 DEF EventStep, UserMoves
    <3>3. MovedOn(n, t[Self])
      BY <3>1, <3>2, MovedOnEvent
    <3>4. ASSUME NEW c \in VoiceChannel
          PROVE  OnItsWay(n, f, r[c], t[Self], c)
      <4>1. CASE c = m.channel
        <5>1. n[Len(n)] = m /\ Len(n) \in 1..Len(n)
          BY AddsIn
        <5>2. QED
          BY <3>1, <4>1, <5>1 DEF OnItsWay
      <4>2. CASE c # m.channel
        <5>1. CASE t = s
          BY <2>3, <5>1
        <5>2. CASE t # s
          <6>1. c # NoVoiceChannel
            BY PartyAssumption DEF PartyAssumption
          <6>2. s[Self].channel # c /\ t[Self].channel # c
            BY <1>1, <2>5, <4>2, <5>2, <6>1 DEF EventStep, UserMoves
          <6>3. QED
            BY <2>3, <6>2, ElsewhereOnItsWay
        <5>3. QED
          BY <5>1, <5>2
      <4>3. QED
        BY <4>1, <4>2
    <3>5. QED
      BY <3>3, <3>4
  <2>6. QED
    BY <2>4, <2>5
<1>5. QED
  BY <1>2, <1>3, <1>4 DEF QInv

\* So is an answer to joinVoice or leaveVoice, or a list of loadChannels.
LEMMA TellOther ==
  ASSUME NEW q \in Seq(PartyArriving), NEW m \in PartyArriving, NEW n, n = Append(q, m),
         NEW s \in Situation, NEW f, NEW act, NEW r, NEW d, QInv(q, s, f, act, r, d, {}),
         m.kind \in {"joined", "left", "preview"},
         m.kind = "preview" => "preview" \in partyEnv /\ Right(m.list, m.channel, s),
         m.kind = "joined" => act = NoVoiceChannel,
         m.kind = "left" => s[Self].channel # m.channel,
         IsOwnAnswer(m) => \A k \in 1..Len(q) : ~IsOwnAnswer(q[k])
  PROVE  QInv(n, s, f, act, r, d, {})
<1>1. m.kind \notin StateEvents
  BY DEF StateEvents
<1>2. QueueInv(n, f, act)
  <2>1. QueueInv(q, f, act)
    BY DEF QInv
  <2>2. QED
    BY <2>1, QueueMore
<1>3. HistoryInv(n, s, act, r, d)
  <2>1. HistoryInv(q, s, act, r, d)
    BY DEF QInv
  <2>2. Leads(s, m, s)
    BY <1>1 DEF Leads
  <2>3. QED
    BY <2>1, <2>2, HistoryMore
<1>4. OwnInv(n, s, f, r, {})
  <2>1. SUFFICES ASSUME partyEnv \subseteq {"others", "mute", "late", "limit", "same"}
                 PROVE  /\ \A c \in VoiceChannel : OnItsWay(n, f, r[c], s[Self], c)
                        /\ MovedOn(n, s[Self])
    BY DEF OwnInv
  <2>2. /\ \A c \in VoiceChannel : OnItsWay(q, f, r[c], s[Self], c)
        /\ MovedOn(q, s[Self])
    BY <2>1 DEF QInv, OwnInv
  <2>3. \A c \in VoiceChannel : OnItsWay(n, f, r[c], s[Self], c)
    BY <2>2, OnItsWayMore
  <2>4. ~SelfEvent(m)
    BY <1>1 DEF SelfEvent
  <2>5. MovedOn(n, s[Self])
    BY <2>2, <2>4, MovedOnMore
  <2>6. QED
    BY <2>3, <2>5
<1>5. QED
  BY <1>2, <1>3, <1>4 DEF QInv

-----------------------------------------------------------------------------
(* Fetches.                                                                *)

\* The answer to a fetch that was served in the situation s.
AnswerFor(m, c, s) ==
    /\ m \in PartyArriving /\ m.channel = c
    /\ \/ m.kind = "rows" /\ Right(m.list, c, s)
       \/ m.kind \in {"limit", "fail"} /\ m.kind \in partyEnv

\* A fetch that is not made, because one is under way or was just made; with D it is put off.
PartyQuiet(g, f, c, D) ==
    /\ g.inFlight = f.inFlight /\ g.retry = f.retry
    /\ f.pending \subseteq g.pending /\ g.pending \subseteq f.pending \cup (f.inFlight \cap {c})
    /\ D # {} => c \in g.pending

\* A fetch of c is made.
Asks(g, f, c) ==
    c \notin f.inFlight /\ g.inFlight = f.inFlight \cup {c} /\ g.pending = f.pending /\ g.retry = f.retry

\* The list of c is asked for, or not; D: it has to be.
Asked(n, g, q, f, c, s, D) ==
    \/ n = q /\ PartyQuiet(g, f, c, D)
    \/ Asks(g, f, c) /\ \E m : AnswerFor(m, c, s) /\ n = Append(q, m)

\* What is on its way stays so when a fetch is not made.
LEMMA QuietOnItsWay ==
  ASSUME NEW q, NEW f, NEW g, NEW c, NEW D, PartyQuiet(g, f, c, D), NEW list, NEW p, NEW e,
         OnItsWay(q, f, list, p, e)
  PROVE  OnItsWay(q, g, list, p, e)
BY DEF PartyQuiet, OnItsWay

\* An answer to a fetch of c is on its way.
LEMMA AskedOnItsWay ==
  ASSUME NEW q \in Seq(PartyArriving), NEW m \in PartyArriving, NEW n, n = Append(q, m),
         NEW f, NEW g, NEW c, Asks(g, f, c), NEW s, AnswerFor(m, c, s), "fail" \notin partyEnv,
         NEW list, NEW e, e = c \/ OnItsWay(q, f, list, s[Self], e)
  PROVE  OnItsWay(n, g, list, s[Self], e)
<1>1. CASE e = c
  <2>1. n[Len(n)] = m /\ Len(n) \in 1..Len(n)
    BY AddsIn
  <2>2. CASE m.kind = "rows"
    <3>1. Right(m.list, c, s) /\ m.channel = c
      BY <2>2 DEF AnswerFor
    <3>2. OwnRow(m.list, s[Self], c)
      BY <3>1, RightOwn
    <3>3. n[Len(n)].kind = "rows" /\ n[Len(n)].channel = c /\ OwnRow(n[Len(n)].list, s[Self], c)
      BY <2>1, <2>2, <3>1, <3>2
    <3>4. QED
      BY <1>1, <2>1, <3>3 DEF OnItsWay
  <2>3. CASE m.kind # "rows"
    <3>1. m.kind = "limit" /\ m.channel = c
      BY <2>3 DEF AnswerFor
    <3>2. n[Len(n)].kind = "limit" /\ n[Len(n)].channel = c
      BY <2>1, <3>1
    <3>3. QED
      BY <1>1, <2>1, <3>2 DEF OnItsWay
  <2>4. QED
    BY <2>2, <2>3
<1>2. CASE e # c
  <2>1. OnItsWay(n, f, list, s[Self], e)
    BY <1>2, OnItsWayMore
  <2>2. (e \in f.inFlight <=> e \in g.inFlight) /\ f.pending = g.pending /\ f.retry = g.retry
    BY <1>2 DEF Asks
  <2>3. QED
    BY <2>1, <2>2 DEF OnItsWay
<1>3. QED
  BY <1>1, <1>2

\* A fetch keeps the invariant.
LEMMA AskKeeps ==
  ASSUME NEW q \in Seq(PartyArriving), NEW n, NEW f, NEW g, NEW c \in VoiceChannel, NEW s \in Situation,
         NEW D \in SUBSET {c}, Asked(n, g, q, f, c, s, D),
         NEW act, NEW r, NEW d, QInv(q, s, f, act, r, d, D)
  PROVE  QInv(n, s, g, act, r, d, {})
<1>1. CASE n = q /\ PartyQuiet(g, f, c, D)
  <2>1. g.inFlight = f.inFlight /\ g.pending \subseteq f.pending \cup (f.inFlight \cap {c})
    BY <1>1 DEF PartyQuiet
  <2>2. QueueInv(n, g, act)
    BY <1>1, <2>1 DEF QInv, QueueInv, OneAnswer
  <2>3. HistoryInv(n, s, act, r, d)
    BY <1>1 DEF QInv
  <2>4. OwnInv(n, s, g, r, {})
    <3>1. SUFFICES ASSUME partyEnv \subseteq {"others", "mute", "late", "limit", "same"}
                   PROVE  /\ \A e \in VoiceChannel : OnItsWay(n, g, r[e], s[Self], e)
                          /\ MovedOn(n, s[Self])
      BY DEF OwnInv
    <3>2. /\ \A e \in VoiceChannel \ D : OnItsWay(n, f, r[e], s[Self], e)
          /\ MovedOn(n, s[Self])
      BY <1>1, <3>1 DEF QInv, OwnInv
    <3>3. \A e \in VoiceChannel \ D : OnItsWay(n, g, r[e], s[Self], e)
      BY <1>1, <3>2, QuietOnItsWay
    <3>4. \A e \in D : OnItsWay(n, g, r[e], s[Self], e)
      BY <1>1 DEF PartyQuiet, OnItsWay
    <3>5. QED
      BY <3>2, <3>3, <3>4
  <2>5. QED
    BY <2>2, <2>3, <2>4 DEF QInv
<1>2. ASSUME Asks(g, f, c), NEW m, AnswerFor(m, c, s), n = Append(q, m)
      PROVE  QInv(n, s, g, act, r, d, {})
  <2>1. m \in PartyArriving /\ m.channel = c /\ m.kind \in {"rows", "limit", "fail"}
    BY <1>2 DEF AnswerFor
  <2>2. m.kind \notin StateEvents
    BY <2>1 DEF StateEvents
  <2>3. /\ n[Len(n)] = m /\ Len(n) \in 1..Len(n)
        /\ \A k \in 1..Len(q) : n[k] = q[k] /\ k \in 1..Len(n) /\ k # Len(n)
        /\ \A k \in 1..Len(n) : k \in 1..Len(q) \/ k = Len(n)
    BY <1>2, <2>1, AddsIn
  <2>4. QueueInv(n, g, act)
    <3>1. QueueInv(q, f, act)
      BY DEF QInv
    <3>2. g.pending \subseteq g.inFlight
      BY <1>2, <3>1 DEF Asks, QueueInv
    <3>3. OneAnswer(n, g)
      <4>1. PartyAnswers(q, c) = {}
        BY <1>2, <3>1 DEF Asks, QueueInv, OneAnswer
      <4>2. ASSUME NEW e \in VoiceChannel, e # c
            PROVE  PartyAnswers(n, e) = PartyAnswers(q, e)
        BY <2>1, <2>3, <4>2 DEF PartyAnswers, IsAnswer
      <4>3. PartyAnswers(n, c) = {Len(n)}
        BY <2>1, <2>3, <4>1 DEF PartyAnswers, IsAnswer
      <4>4. \A e \in VoiceChannel : e # c => (e \in g.inFlight <=> e \in f.inFlight)
        BY <1>2 DEF Asks
      <4>5. c \in g.inFlight
        BY <1>2 DEF Asks
      <4>6. ASSUME NEW e \in VoiceChannel
            PROVE  /\ e \in g.inFlight <=> PartyAnswers(n, e) # {}
                   /\ \A i, j \in PartyAnswers(n, e) : i = j
        <5>1. CASE e = c
          BY <4>3, <4>5, <5>1
        <5>2. CASE e # c
          BY <3>1, <4>2, <4>4, <5>2 DEF QueueInv, OneAnswer
        <5>3. QED
          BY <5>1, <5>2
      <4>7. QED
        BY <4>6 DEF OneAnswer
    <3>4. OfScenario(n)
      <4>1. m.kind \in {"fail", "preview"} => m.kind \in partyEnv
        BY <1>2 DEF AnswerFor
      <4>2. OfScenario(q)
        BY <3>1 DEF QueueInv
      <4>3. QED
        BY <2>3, <4>1, <4>2 DEF OfScenario
    <3>5. OneOwnAnswer(n)
      <4>1. ~IsOwnAnswer(m)
        BY <2>1 DEF IsOwnAnswer
      <4>2. OneOwnAnswer(q)
        BY <3>1 DEF QueueInv
      <4>3. \A i \in 1..Len(n) : IsOwnAnswer(n[i]) => i \in 1..Len(q) /\ IsOwnAnswer(q[i])
        BY <2>3, <4>1
      <4>4. QED
        BY <4>2, <4>3 DEF OneOwnAnswer
    <3>6. JoinsFromNowhere(n, act)
      <4>1. JoinsFromNowhere(q, act)
        BY <3>1 DEF QueueInv
      <4>2. m.kind # "joined"
        BY <2>1
      <4>3. QED
        BY <2>3, <4>1, <4>2 DEF JoinsFromNowhere
    <3>7. QED
      BY <3>2, <3>3, <3>4, <3>5, <3>6 DEF QueueInv
  <2>5. HistoryInv(n, s, act, r, d)
    <3>1. HistoryInv(q, s, act, r, d)
      BY DEF QInv
    <3>2. Leads(s, m, s)
      BY <1>2, <2>1, <2>2 DEF Leads, AnswerFor
    <3>3. QED
      BY <1>2, <2>1, <3>1, <3>2, HistoryMore
  <2>6. OwnInv(n, s, g, r, {})
    <3>1. SUFFICES ASSUME partyEnv \subseteq {"others", "mute", "late", "limit", "same"}
                   PROVE  /\ \A e \in VoiceChannel : OnItsWay(n, g, r[e], s[Self], e)
                          /\ MovedOn(n, s[Self])
      BY DEF OwnInv
    <3>2. /\ \A e \in VoiceChannel \ D : OnItsWay(q, f, r[e], s[Self], e)
          /\ MovedOn(q, s[Self])
      BY <3>1 DEF QInv, OwnInv
    <3>3. "fail" \notin partyEnv
      BY <3>1
    <3>4. ASSUME NEW e \in VoiceChannel
          PROVE  OnItsWay(n, g, r[e], s[Self], e)
      <4>1. e = c \/ OnItsWay(q, f, r[e], s[Self], e)
        BY <3>2
      <4>2. QED
        BY <1>2, <2>1, <3>3, <4>1, AskedOnItsWay
    <3>5. MovedOn(n, s[Self])
      <4>1. ~SelfEvent(m)
        BY <2>2 DEF SelfEvent
      <4>2. QED
        BY <1>2, <2>1, <3>2, <4>1, MovedOnMore
    <3>6. QED
      BY <3>4, <3>5
  <2>7. QED
    BY <2>4, <2>5, <2>6 DEF QInv
<1>3. QED
  BY <1>1, <1>2 DEF Asked

\* One request, for the list of c.
OneCall(calls, c) == Len(calls) = 1 /\ calls[1].channel = c /\ calls[1].sync \in BOOLEAN

\* What fetchChannelParticipants and refreshChannelParticipants come to.
Fetches(x, f, c, D) ==
    /\ x.fetch \in FetchRecord
    /\ \/ x.calls = <<>> /\ PartyQuiet(x.fetch, f, c, D)
       \/ OneCall(x.calls, c) /\ Asks(x.fetch, f, c)

\* A fetch that is not made.
LEMMA NoFetchFacts ==
  ASSUME NEW g \in FetchRecord, NEW f, NEW c, NEW D, PartyQuiet(g, f, c, D),
         NEW x, x = [fetch |-> g, calls |-> <<>>]
  PROVE  Fetches(x, f, c, D)
<1>1. x.fetch = g /\ x.calls = <<>>
  OBVIOUS
<1>2. QED
  BY <1>1 DEF Fetches

\* fetchChannelParticipants asks if no fetch is under way.
LEMMA FetchFacts ==
  ASSUME NEW f \in FetchRecord, NEW c \in VoiceChannel, NEW sync \in BOOLEAN,
         NEW x, x = FetchParticipants(f, c, sync)
  PROVE  /\ Fetches(x, f, c, {})
         /\ c \notin f.inFlight => OneCall(x.calls, c) /\ Asks(x.fetch, f, c)
<1>1. CASE c \in f.inFlight
  <2>1. x = [fetch |-> f, calls |-> <<>>]
    BY <1>1 DEF FetchParticipants, NoFetch
  <2>2. PartyQuiet(f, f, c, {})
    BY DEF PartyQuiet
  <2>3. Fetches(x, f, c, {})
    BY <2>1, <2>2, NoFetchFacts
  <2>4. QED
    BY <1>1, <2>3
<1>2. CASE c \notin f.inFlight
  <2>1. PICK g : g = [f EXCEPT !.inFlight = @ \cup {c}]
    OBVIOUS
  <2>2. PICK call : call = [channel |-> c, sync |-> sync]
    OBVIOUS
  <2>3. x = [fetch |-> g, calls |-> <<call>>]
    BY <1>2, <2>1, <2>2 DEF FetchParticipants
  <2>4. /\ g \in FetchRecord /\ g.inFlight = f.inFlight \cup {c}
        /\ g.pending = f.pending /\ g.retry = f.retry
    BY <2>1 DEF FetchRecord
  <2>5. call.channel = c /\ call.sync \in BOOLEAN
    BY <2>2
  <2>6. Len(x.calls) = 1 /\ x.calls[1] = call /\ x.fetch = g
    BY <2>3
  <2>7. QED
    BY <1>2, <2>4, <2>5, <2>6 DEF Fetches, Asks, OneCall
<1>3. QED
  BY <1>1, <1>2

\* refreshChannelParticipants asks, or puts off what is forced.
LEMMA RefreshFacts ==
  ASSUME NEW f \in FetchRecord, NEW c \in VoiceChannel, NEW force \in BOOLEAN, NEW act,
         NEW x, x = RefreshParticipants(f, c, force, act), NEW D \in SUBSET {c}, D # {} => force
  PROVE  Fetches(x, f, c, D)
<1>1. CASE c \in f.inFlight
  <2>1. PICK g : g = [f EXCEPT !.pending = @ \cup {c}]
    OBVIOUS
  <2>2. g \in FetchRecord /\ g.inFlight = f.inFlight /\ g.retry = f.retry /\ g.pending = f.pending \cup {c}
    BY <2>1 DEF FetchRecord
  <2>3. CASE force
    <3>1. x = [fetch |-> g, calls |-> <<>>]
      BY <1>1, <2>1, <2>3 DEF RefreshParticipants, NoFetch
    <3>2. PartyQuiet(g, f, c, D)
      BY <1>1, <2>2 DEF PartyQuiet
    <3>3. QED
      BY <2>2, <3>1, <3>2, NoFetchFacts
  <2>4. CASE ~force
    <3>1. x = [fetch |-> f, calls |-> <<>>]
      BY <1>1, <2>4 DEF RefreshParticipants, NoFetch
    <3>2. D = {}
      BY <2>4
    <3>3. PartyQuiet(f, f, c, D)
      BY <3>2 DEF PartyQuiet
    <3>4. QED
      BY <3>1, <3>3, NoFetchFacts
  <2>5. QED
    BY <2>3, <2>4
<1>2. CASE c \notin f.inFlight /\ ~force /\ c \in f.recent
  <2>1. x = [fetch |-> f, calls |-> <<>>]
    BY <1>2 DEF RefreshParticipants, NoFetch
  <2>2. D = {}
    BY <1>2
  <2>3. PartyQuiet(f, f, c, D)
    BY <2>2 DEF PartyQuiet
  <2>4. QED
    BY <2>1, <2>3, NoFetchFacts
<1>3. CASE c \notin f.inFlight /\ ~(~force /\ c \in f.recent)
  <2>1. PICK g : g = [f EXCEPT !.recent = @ \cup {c}]
    OBVIOUS
  <2>2. g \in FetchRecord /\ g.inFlight = f.inFlight /\ g.retry = f.retry /\ g.pending = f.pending
    BY <2>1 DEF FetchRecord
  <2>3. PICK sync \in BOOLEAN : sync = (c = act)
    BY Zenon
  <2>4. x = FetchParticipants(g, c, c = act)
    BY <1>3, <2>1, Zenon DEF RefreshParticipants
  <2>5. x = FetchParticipants(g, c, sync)
    BY <2>3, <2>4, Zenon
  <2>6. Fetches(x, g, c, {}) /\ OneCall(x.calls, c) /\ Asks(x.fetch, g, c)
    BY <1>3, <2>2, <2>5, FetchFacts
  <2>7. Asks(x.fetch, f, c)
    BY <2>2, <2>6 DEF Asks
  <2>8. QED
    BY <2>6, <2>7 DEF Fetches
<1>4. QED
  BY <1>1, <1>2, <1>3

-----------------------------------------------------------------------------
\* A sequence of one is an Append.
LEMMA OneConcat ==
  ASSUME NEW S, NEW q \in Seq(S), NEW m \in S, NEW x, x \in Seq(S), Len(x) = 1, x[1] = m
  PROVE  q \o x = Append(q, m)
<1>1. x = <<m>>
  <2>1. <<m>> \in Seq(S) /\ Len(<<m>>) = 1 /\ <<m>>[1] = m
    OBVIOUS
  <2>2. \A i \in 1..Len(x) : x[i] = <<m>>[i]
    BY <2>1
  <2>3. QED
    BY <2>1, <2>2, SeqEqual
<1>2. QED
  BY <1>1, AppendIsConcat

\* The answer of the server to one request.
LEMMA ServeOne ==
  ASSUME NEW rest \in Seq(PartyArriving), NEW calls, NEW c \in VoiceChannel, OneCall(calls, c),
         where' \in Situation, refused \in 0..MaxRefused, Serve(calls, rest)
  PROVE  /\ refused' \in 0..MaxRefused
         /\ \E m : AnswerFor(m, c, where') /\ arriving' = Append(rest, m)
<1>1. Len(calls) = 1 /\ calls[1].channel = c
  BY DEF OneCall
<1>2. PICK sync \in BOOLEAN : sync = calls[1].sync
  BY DEF OneCall
<1>3. PICK list : list = Listed(where', c)
  OBVIOUS
<1>4. list \in Seq(Row) /\ Right(list, c, where')
  BY <1>3, ListedFacts
<1>5. CASE /\ arriving' = rest \o [i \in 1..Len(calls) |->
                [kind |-> "rows", channel |-> calls[i].channel, sync |-> calls[i].sync,
                 list |-> Listed(where', calls[i].channel)]]
           /\ UNCHANGED refused
  <2>1. PICK m : m = [kind |-> "rows", channel |-> c, sync |-> sync, list |-> list]
    OBVIOUS
  <2>2. m \in PartyArriving /\ m.kind = "rows" /\ m.channel = c /\ m.list = list
    BY <1>4, <2>1 DEF PartyArriving
  <2>3. PICK x : x = [i \in 1..Len(calls) |->
                        [kind |-> "rows", channel |-> calls[i].channel, sync |-> calls[i].sync,
                         list |-> Listed(where', calls[i].channel)]]
    OBVIOUS
  <2>4. x[1] = [kind |-> "rows", channel |-> c, sync |-> sync, list |-> list]
    BY <1>1, <1>2, <1>3, <2>3
  <2>5. x = [i \in 1..1 |-> m]
    <3>1. DOMAIN x = 1..1 /\ x = [i \in 1..1 |-> x[i]]
      BY <1>1, <2>3
    <3>2. \A i \in 1..1 : i = 1
      OBVIOUS
    <3>3. x[1] = m
      BY <2>1, <2>4
    <3>4. \A i \in 1..1 : x[i] = m
      BY <3>2, <3>3
    <3>5. QED
      BY <3>1, <3>4
  <2>6. x \in Seq(PartyArriving) /\ Len(x) = 1 /\ x[1] = m
    BY <2>2, <2>5
  <2>7. arriving' = Append(rest, m)
    BY <1>5, <2>2, <2>3, <2>6, OneConcat
  <2>8. AnswerFor(m, c, where')
    BY <1>4, <2>2 DEF AnswerFor
  <2>9. QED
    BY <1>5, <2>7, <2>8
<1>6. CASE /\ calls # <<>> /\ refused < MaxRefused
           /\ \E why \in {"limit", "fail"} \cap partyEnv :
                 arriving' = rest \o [i \in 1..Len(calls) |-> [kind |-> why, channel |-> calls[i].channel]]
           /\ refused' = refused + 1
  <2>1. PICK why \in {"limit", "fail"} \cap partyEnv :
                 arriving' = rest \o [i \in 1..Len(calls) |-> [kind |-> why, channel |-> calls[i].channel]]
    BY <1>6
  <2>2. PICK m : m = [kind |-> why, channel |-> c]
    OBVIOUS
  <2>3. m \in PartyArriving /\ m.kind = why /\ m.channel = c
    BY <2>2 DEF PartyArriving
  <2>4. PICK x : x = [i \in 1..Len(calls) |-> [kind |-> why, channel |-> calls[i].channel]]
    OBVIOUS
  <2>5. x \in Seq(PartyArriving) /\ Len(x) = 1 /\ x[1] = m
    <3>1. x = [i \in 1..1 |-> [kind |-> why, channel |-> calls[i].channel]]
      BY <1>1, <2>4
    <3>2. \A i \in 1..1 : i = 1
      OBVIOUS
    <3>3. \A i \in 1..1 : x[i] = m
      BY <1>1, <2>2, <3>1, <3>2
    <3>4. QED
      BY <2>3, <3>1, <3>3
  <2>6. arriving' = Append(rest, m)
    BY <2>1, <2>3, <2>4, <2>5, OneConcat
  <2>7. AnswerFor(m, c, where')
    BY <2>1, <2>3 DEF AnswerFor
  <2>8. refused' \in 0..MaxRefused
    BY <1>6, PartyAssumption DEF PartyAssumption
  <2>9. QED
    BY <2>6, <2>7, <2>8
<1>7. QED
  BY <1>5, <1>6 DEF Serve

\* The answer of the server to none.
LEMMA ServeNone ==
  ASSUME NEW rest \in Seq(PartyArriving), Serve(<<>>, rest)
  PROVE  arriving' = rest /\ refused' = refused
<1>1. /\ arriving' = rest \o [i \in 1..Len(<<>>) |->
             [kind |-> "rows", channel |-> <<>>[i].channel, sync |-> <<>>[i].sync,
              list |-> Listed(where', <<>>[i].channel)]]
      /\ refused' = refused
  BY DEF Serve
<1>2. PICK x : x = [i \in 1..Len(<<>>) |->
             [kind |-> "rows", channel |-> <<>>[i].channel, sync |-> <<>>[i].sync,
              list |-> Listed(where', <<>>[i].channel)]]
  OBVIOUS
<1>3. x = <<>>
  <2>1. \A i : i \notin 1..Len(<<>>)
    BY EmptySeq
  <2>2. DOMAIN x = {} 
    BY <1>2, <2>1
  <2>3. QED
    BY <1>2, <2>2
<1>4. QED
  BY <1>1, <1>2, <1>3, ConcatEmptySeq

\* A list is asked for, or not.
LEMMA AskFacts ==
  ASSUME NEW f \in FetchRecord, NEW c \in VoiceChannel, NEW D, NEW x, Fetches(x, f, c, D),
         NEW rest \in Seq(PartyArriving), where \in Situation, UNCHANGED where,
         refused \in 0..MaxRefused, Serve(x.calls, rest)
  PROVE  /\ Asked(arriving', x.fetch, rest, f, c, where, D)
         /\ x.fetch \in FetchRecord /\ refused' \in 0..MaxRefused
         /\ arriving' \in Seq(PartyArriving) /\ Len(arriving') = Len(rest) + Len(x.calls)
         /\ Len(arriving') <= Len(rest) + 1
<1>1. x.fetch \in FetchRecord /\ Len(rest) \in Nat
  BY DEF Fetches
<1>2. CASE x.calls = <<>> /\ PartyQuiet(x.fetch, f, c, D)
  <2>1. arriving' = rest /\ refused' = refused
    BY <1>2, ServeNone
  <2>2. Len(x.calls) = 0
    BY <1>2
  <2>3. Len(arriving') = Len(rest) + Len(x.calls) /\ Len(arriving') <= Len(rest) + 1
    BY <1>1, <2>1, <2>2
  <2>4. QED
    BY <1>1, <1>2, <2>1, <2>3 DEF Asked
<1>3. CASE OneCall(x.calls, c) /\ Asks(x.fetch, f, c)
  <2>1. /\ refused' \in 0..MaxRefused
        /\ \E m : AnswerFor(m, c, where') /\ arriving' = Append(rest, m)
    BY <1>3, ServeOne
  <2>2. PICK m : AnswerFor(m, c, where) /\ arriving' = Append(rest, m)
    BY <2>1
  <2>3. m \in PartyArriving
    BY <2>2 DEF AnswerFor
  <2>4. arriving' \in Seq(PartyArriving) /\ Len(arriving') = Len(rest) + 1
    BY <2>2, <2>3, AddsIn
  <2>5. Len(x.calls) = 1
    BY <1>3 DEF OneCall
  <2>6. Len(arriving') = Len(rest) + Len(x.calls) /\ Len(arriving') <= Len(rest) + 1
    BY <1>1, <2>4, <2>5
  <2>7. Asked(arriving', x.fetch, rest, f, c, where, D)
    BY <1>3, <2>2 DEF Asked
  <2>8. QED
    BY <1>1, <2>1, <2>4, <2>6, <2>7
<1>4. QED
  BY <1>2, <1>3 DEF Fetches

-----------------------------------------------------------------------------
(* The invariant of the state.                                             *)

\* What the user left is answered, in the plain scenarios.
LeaveInv == partyEnv \subseteq {"others", "mute"} => LeaveAnswered(arriving)

\* The invariant.
PartyInv == PartyTypes /\ QInv(arriving, where, fetch, active, rows, dock, {}) /\ LeaveInv

\* The types of the state.
LEMMA StateTypes ==
  ASSUME PartyTypes
  PROVE  /\ where \in Situation /\ active \in PartyPlace /\ rows \in [VoiceChannel -> Seq(Row)]
         /\ dock \in Seq(Row) /\ fetch \in FetchRecord /\ refused \in 0..MaxRefused
         /\ arriving \in Seq(PartyArriving) /\ Len(arriving) \in Nat /\ Len(arriving) <= MaxArriving
         /\ partyEnv \in PartyScenarios /\ Self \in User /\ NoVoiceChannel \notin VoiceChannel
         /\ MaxArriving \in Nat
BY PartyAssumption DEF PartyTypes, PartyTypeOK, Situation, PartyPlace, FetchRecord, PartyAssumption

\* A message of the server about a user.
LEMMA EventIs ==
  ASSUME NEW kind \in StateEvents, NEW c \in VoiceChannel, NEW u \in User, NEW muted \in BOOLEAN,
         NEW m, m = Event(kind, c, u, muted)
  PROVE  /\ m \in PartyArriving /\ IsEvent(m) /\ m.kind = kind /\ m.channel = c /\ m.user = u
         /\ m.muted = muted /\ ~IsOwnAnswer(m)
<1>1. m = [kind |-> kind, channel |-> c, user |-> u, muted |-> muted]
  BY DEF Event
<1>2. m \in PartyArriving /\ m.kind = kind /\ m.channel = c /\ m.user = u /\ m.muted = muted
  BY <1>1 DEF PartyArriving
<1>3. QED
  BY <1>2 DEF IsEvent, IsOwnAnswer, StateEvents

\* Messages are told one after the other.
LEMMA Chain ==
  ASSUME NEW q \in Seq(PartyArriving), NEW a \in Seq(PartyArriving), NEW m \in PartyArriving, NEW b \in Seq(PartyArriving)
  PROVE  q \o (a \o <<m>> \o b) = Append(q \o a, m) \o b
<1>1. PICK o : o = <<m>>
  OBVIOUS
<1>2. o \in Seq(PartyArriving)
  BY <1>1
<1>3. a \o o \in Seq(PartyArriving) /\ q \o a \in Seq(PartyArriving)
  <2>1. a \o o \in Seq(PartyArriving)
    BY <1>2, ConcatProperties
  <2>2. q \o a \in Seq(PartyArriving)
    BY ConcatProperties
  <2>3. QED
    BY <2>1, <2>2
<1>4. q \o ((a \o o) \o b) = (q \o (a \o o)) \o b
  <2>1. PICK e \in Seq(PartyArriving) : e = a \o o
    BY <1>3
  <2>2. q \o (e \o b) = (q \o e) \o b
    BY ConcatAssociative
  <2>3. QED
    BY <2>1, <2>2
<1>5. q \o (a \o o) = (q \o a) \o o
  <2>1. PICK e \in Seq(PartyArriving) : e = o
    BY <1>2
  <2>2. (q \o a) \o e = q \o (a \o e)
    BY ConcatAssociative
  <2>3. QED
    BY <2>1, <2>2
<1>6. (q \o a) \o o = Append(q \o a, m)
  BY <1>1, <1>3, AppendIsConcat
<1>7. QED
  BY <1>1, <1>4, <1>5, <1>6

\* Whoever leaves is told, or is not there.
LEMMA LeaveFacts ==
  ASSUME PartyTypes, NEW u \in User, where[u].channel # NoVoiceChannel
  PROVE  \E m \in PartyArriving : /\ Leave(u) = <<m>> /\ IsEvent(m) /\ ~IsOwnAnswer(m)
                                  /\ m.kind = "leave" /\ m.channel = where[u].channel /\ m.user = u
<1>1. where[u].channel \in VoiceChannel /\ where[u].muted \in BOOLEAN
  BY StateTypes DEF Situation, PartyPlace
<1>2. PICK c \in VoiceChannel : c = where[u].channel
  BY <1>1
<1>3. PICK b \in BOOLEAN : b = where[u].muted
  BY <1>1
<1>4. PICK m : m = Event("leave", c, u, b)
  OBVIOUS
<1>5. "leave" \in StateEvents
  BY DEF StateEvents
<1>6. /\ m \in PartyArriving /\ IsEvent(m) /\ m.kind = "leave" /\ m.channel = c /\ m.user = u
      /\ ~IsOwnAnswer(m)
  BY <1>4, <1>5, EventIs
<1>7. Leave(u) = <<m>>
  BY <1>2, <1>3, <1>4 DEF Leave
<1>8. QED
  BY <1>2, <1>6, <1>7

-----------------------------------------------------------------------------
\* An event is told: which answers are in the queue then.
LEMMA EventTold ==
  ASSUME NEW q \in Seq(PartyArriving), NEW m \in PartyArriving, NEW n, n = Append(q, m), ~IsOwnAnswer(m)
  PROVE  /\ (\A k \in 1..Len(q) : ~IsOwnAnswer(q[k])) => \A k \in 1..Len(n) : ~IsOwnAnswer(n[k])
         /\ LeaveAnswered(q) /\ ~(SelfEvent(m) /\ m.kind = "leave") => LeaveAnswered(n)
<1>1. /\ n[Len(n)] = m /\ Len(n) \in Nat /\ Len(q) \in Nat /\ Len(n) = Len(q) + 1
      /\ \A k \in 1..Len(q) : n[k] = q[k] /\ k \in 1..Len(n)
      /\ \A k \in 1..Len(n) : k \in 1..Len(q) \/ k = Len(n)
  BY AddsIn
<1>2. ASSUME \A k \in 1..Len(q) : ~IsOwnAnswer(q[k]), NEW k \in 1..Len(n)
      PROVE  ~IsOwnAnswer(n[k])
  BY <1>1, <1>2
<1>3. ASSUME LeaveAnswered(q), ~(SelfEvent(m) /\ m.kind = "leave"),
             NEW i \in 1..Len(n), SelfEvent(n[i]), n[i].kind = "leave"
      PROVE  \E j \in (i + 1)..Len(n) : IsOwnAnswer(n[j])
  <2>1. i \in 1..Len(q) /\ n[i] = q[i]
    BY <1>1, <1>3
  <2>2. SelfEvent(q[i]) /\ q[i].kind = "leave"
    BY <1>3, <2>1
  <2>3. PICK j \in (i + 1)..Len(q) : IsOwnAnswer(q[j])
    BY <1>3, <2>1, <2>2 DEF LeaveAnswered
  <2>4. j \in 1..Len(q) /\ j \in (i + 1)..Len(n)
    BY <1>1, <2>1
  <2>5. IsOwnAnswer(n[j])
    BY <1>1, <2>3, <2>4
  <2>6. QED
    BY <2>4, <2>5
<1>4. QED
  BY <1>2, <1>3 DEF LeaveAnswered

\* With an answer to the user at the end every leave is answered.
LEMMA AnswerTold ==
  ASSUME NEW q \in Seq(PartyArriving), NEW m \in PartyArriving, NEW n, n = Append(q, m), IsOwnAnswer(m)
  PROVE  LeaveAnswered(n)
<1>1. n[Len(n)] = m /\ Len(n) \in Nat /\ Len(n) \in 1..Len(n)
  BY AddsIn
<1>2. ASSUME NEW i \in 1..Len(n), SelfEvent(n[i]), n[i].kind = "leave"
      PROVE  \E j \in (i + 1)..Len(n) : IsOwnAnswer(n[j])
  <2>1. i # Len(n)
    BY <1>1, <1>2 DEF IsOwnAnswer
  <2>2. Len(n) \in (i + 1)..Len(n)
    BY <1>1, <2>1
  <2>3. QED
    BY <1>1, <2>2
<1>3. QED
  BY <1>2 DEF LeaveAnswered

\* What a user's move leaves to be said: answer.
Moved(u, answer) ==
    /\ where' \in Situation
    /\ Len(arriving') <= MaxArriving
    /\ \E q \in Seq(PartyArriving) :
          /\ arriving' = q \o answer
          /\ QInv(q, where', fetch, active, rows, dock, {})
          /\ (\A k \in 1..Len(arriving) : ~IsOwnAnswer(arriving[k])) =>
                \A k \in 1..Len(q) : ~IsOwnAnswer(q[k])
          /\ LeaveAnswered(arriving) /\ u # Self => LeaveAnswered(q)

\* A situation where u is in channel c, or in none.
Put(t, s, u, c) == t = [s EXCEPT ![u].channel = c]

\* The others stay where they are.
LEMMA SituationSet ==
  ASSUME NEW s \in Situation, NEW u \in User, NEW c \in PartyPlace, NEW t, Put(t, s, u, c)
  PROVE  /\ t \in Situation /\ t[u].channel = c /\ t[u].muted = s[u].muted
         /\ \A v \in User \ {u} : t[v] = s[v]
<1>1. PICK x : x = [s[u] EXCEPT !.channel = c]
  OBVIOUS
<1>2. t = [s EXCEPT ![u] = x]
  BY <1>1 DEF Put
<1>3. s[u] \in [channel : PartyPlace, muted : BOOLEAN]
  BY DEF Situation
<1>4. x \in [channel : PartyPlace, muted : BOOLEAN] /\ x.channel = c /\ x.muted = s[u].muted
  BY <1>1, <1>3
<1>5. QED
  BY <1>2, <1>4 DEF Situation

\* A user quits.
LEMMA QuitMoves ==
  ASSUME PartyInv, NEW u \in User, NEW answer \in Seq(PartyArriving), Quit(u, answer)
  PROVE  Moved(u, answer) /\ where'[u].channel = NoVoiceChannel
<1>1. /\ where \in Situation /\ arriving \in Seq(PartyArriving)
      /\ QInv(arriving, where, fetch, active, rows, dock, {})
  BY StateTypes DEF PartyInv
<1>2. /\ where[u].channel # NoVoiceChannel
      /\ Put(where', where, u, NoVoiceChannel)
      /\ Len(arriving') <= MaxArriving
      /\ arriving' = arriving \o (Leave(u) \o answer)
  <2>1. /\ where[u].channel # NoVoiceChannel
        /\ Put(where', where, u, NoVoiceChannel)
        /\ Tell(Leave(u) \o answer)
    BY DEF Quit, Put
  <2>2. PICK m \in PartyArriving : Leave(u) = <<m>>
    BY <2>1, LeaveFacts DEF PartyInv
  <2>3. PICK items : items = Leave(u) \o answer
    OBVIOUS
  <2>4. items \in Seq(PartyArriving)
    <3>1. <<m>> \in Seq(PartyArriving)
      OBVIOUS
    <3>2. QED
      BY <2>2, <2>3, <3>1, ConcatProperties
  <2>5. Len(arriving) + Len(items) <= MaxArriving /\ arriving' = arriving \o items
    BY <2>1, <2>3 DEF Tell
  <2>6. Len(arriving') = Len(arriving) + Len(items)
    BY <1>1, <2>4, <2>5, ConcatProperties
  <2>7. QED
    BY <2>1, <2>3, <2>5, <2>6
<1>3. PICK m \in PartyArriving : /\ Leave(u) = <<m>> /\ IsEvent(m) /\ ~IsOwnAnswer(m)
                                 /\ m.kind = "leave" /\ m.channel = where[u].channel /\ m.user = u
  BY <1>2, LeaveFacts DEF PartyInv
<1>4. /\ where' \in Situation /\ where'[u].channel = NoVoiceChannel
      /\ \A v \in User \ {u} : where'[v] = where[v]
  <2>1. NoVoiceChannel \in PartyPlace
    BY DEF PartyPlace
  <2>2. QED
    BY <1>1, <1>2, <2>1, SituationSet
<1>5. UserMoves(where, m, where')
  BY <1>3, <1>4 DEF UserMoves
<1>6. PICK q : q = Append(arriving, m)
  OBVIOUS
<1>7. q \in Seq(PartyArriving)
  BY <1>1, <1>6
<1>8. arriving' = q \o answer
  <2>1. PICK o : o = <<m>>
    OBVIOUS
  <2>2. o \in Seq(PartyArriving)
    BY <2>1
  <2>3. arriving \o (o \o answer) = (arriving \o o) \o answer
    BY <1>1, <2>2, ConcatAssociative
  <2>4. arriving \o o = q
    BY <1>1, <1>6, <2>1, AppendIsConcat
  <2>5. QED
    BY <1>2, <1>3, <2>1, <2>3, <2>4
<1>9. QInv(q, where', fetch, active, rows, dock, {})
  <2>1. EventStep(where, m, where')
    BY <1>5 DEF EventStep
  <2>2. QED
    BY <1>1, <1>3, <1>4, <1>6, <2>1, TellEvent
<1>10. ~(u # Self /\ SelfEvent(m))
  BY <1>3 DEF SelfEvent
<1>11. /\ (\A k \in 1..Len(arriving) : ~IsOwnAnswer(arriving[k])) =>
              \A k \in 1..Len(q) : ~IsOwnAnswer(q[k])
       /\ LeaveAnswered(arriving) /\ u # Self => LeaveAnswered(q)
  BY <1>1, <1>3, <1>6, <1>10, EventTold
<1>12. QED
  BY <1>2, <1>4, <1>7, <1>8, <1>9, <1>11 DEF Moved

\* The invariant after a step.
LEMMA PartyAfter ==
  ASSUME PartyTypes, UNCHANGED partyEnv, where' \in Situation, active' \in PartyPlace,
         rows' \in [VoiceChannel -> Seq(Row)], dock' \in Seq(Row), fetch' \in FetchRecord,
         refused' \in 0..MaxRefused, arriving' \in Seq(PartyArriving), Len(arriving') <= MaxArriving,
         QInv(arriving', where', fetch', active', rows', dock', {}),
         partyEnv \subseteq {"others", "mute"} => LeaveAnswered(arriving')
  PROVE  PartyInv'
<1>1. PartyTypes'
  BY DEF PartyTypes, PartyTypeOK, Situation, PartyPlace, FetchRecord
<1>2. LeaveInv'
  BY DEF LeaveInv
<1>3. QInv(arriving, where, fetch, active, rows, dock, {})'
  <2>1. QueueInv(arriving', fetch', active') /\ OwnInv(arriving', where', fetch', rows', {})
        /\ HistoryInv(arriving', where', active', rows', dock')
    BY DEF QInv
  <2>2. QueueInv(arriving, fetch, active)'
    BY <2>1 DEF QueueInv, OfScenario
  <2>3. OwnInv(arriving, where, fetch, rows, {})'
    BY <2>1 DEF OwnInv
  <2>4. HistoryInv(arriving, where, active, rows, dock)'
    BY <2>1 DEF HistoryInv, TellsSo
  <2>5. QED
    BY <2>2, <2>3, <2>4 DEF QInv
<1>4. QED
  BY <1>1, <1>2, <1>3 DEF PartyInv

\* A user joins or moves.
LEMMA JoinMoves ==
  ASSUME PartyInv, NEW u \in User, NEW c \in VoiceChannel, NEW answer \in Seq(PartyArriving),
         Join(u, c, answer)
  PROVE  Moved(u, answer)
<1>1. /\ where \in Situation /\ arriving \in Seq(PartyArriving)
      /\ QInv(arriving, where, fetch, active, rows, dock, {})
  BY StateTypes DEF PartyInv
<1>2. /\ where[u].channel = c => "same" \in partyEnv
      /\ Put(where', where, u, c)
      /\ Tell((IF where[u].channel = c THEN <<>> ELSE Leave(u))
              \o <<Event("join", c, u, where[u].muted)>> \o answer)
  BY DEF Join, Put
<1>3. PICK b \in BOOLEAN : b = where[u].muted
  BY <1>1 DEF Situation
<1>4. PICK m : m = Event("join", c, u, b)
  OBVIOUS
<1>5. m \in PartyArriving /\ IsEvent(m) /\ m.kind = "join" /\ m.channel = c /\ m.user = u /\ m.muted = b
      /\ ~IsOwnAnswer(m)
  <2>1. "join" \in StateEvents
    BY DEF StateEvents
  <2>2. QED
    BY <1>4, <2>1, EventIs
<1>6. c \in PartyPlace /\ NoVoiceChannel \in PartyPlace /\ c # NoVoiceChannel
  BY PartyAssumption DEF PartyPlace, PartyAssumption
<1>7. /\ where' \in Situation /\ where'[u].channel = c /\ where'[u].muted = b
      /\ \A v \in User \ {u} : where'[v] = where[v]
  BY <1>1, <1>2, <1>3, <1>6, SituationSet
<1>8. PICK a : a = IF where[u].channel = c THEN <<>> ELSE Leave(u)
  OBVIOUS
<1>9. Tell(a \o <<m>> \o answer)
  BY <1>2, <1>3, <1>4, <1>8
<1>10. SUFFICES ASSUME NEW p \in Seq(PartyArriving), NEW s \in Situation,
                       a \in Seq(PartyArriving), p = arriving \o a, EventStep(s, m, where'),
                       QInv(p, s, fetch, active, rows, dock, {}),
                       (\A k \in 1..Len(arriving) : ~IsOwnAnswer(arriving[k])) =>
                           \A k \in 1..Len(p) : ~IsOwnAnswer(p[k]),
                       LeaveAnswered(arriving) /\ u # Self => LeaveAnswered(p)
                PROVE  Moved(u, answer)
  <2>1. CASE where[u].channel = c
    <3>1. a = <<>>
      BY <1>8, <2>1
    <3>2. a \in Seq(PartyArriving) /\ arriving = arriving \o a
      BY <1>1, <3>1, ConcatEmptySeq
    <3>3. where' = where
      <4>1. where'[u].channel = where[u].channel /\ where'[u].muted = where[u].muted
        BY <1>3, <1>7, <2>1
      <4>2. where'[u] = where[u]
        <5>1. where[u] \in [channel : PartyPlace, muted : BOOLEAN]
              /\ where'[u] \in [channel : PartyPlace, muted : BOOLEAN]
          BY <1>1, <1>7 DEF Situation
        <5>2. QED
          BY <4>1, <5>1
      <4>3. \A v \in User : where'[v] = where[v]
        BY <1>7, <4>2
      <4>4. QED
        BY <1>1, <1>7, <4>3 DEF Situation
    <3>4. EventStep(where, m, where')
      BY <1>2, <1>5, <2>1, <3>3 DEF EventStep
    <3>5. QED
      BY <1>1, <1>10, <3>2, <3>4
  <2>2. CASE where[u].channel # c /\ where[u].channel = NoVoiceChannel
    <3>1. a = <<>>
      BY <1>8, <2>2 DEF Leave
    <3>2. a \in Seq(PartyArriving) /\ arriving = arriving \o a
      BY <1>1, <3>1, ConcatEmptySeq
    <3>3. EventStep(where, m, where')
      BY <1>5, <1>7, <2>2 DEF EventStep, UserMoves
    <3>4. QED
      BY <1>1, <1>10, <3>2, <3>3
  <2>3. CASE where[u].channel # c /\ where[u].channel # NoVoiceChannel
    <3>1. PICK l \in PartyArriving : /\ Leave(u) = <<l>> /\ IsEvent(l) /\ ~IsOwnAnswer(l)
                                     /\ l.kind = "leave" /\ l.channel = where[u].channel /\ l.user = u
      BY <2>3, LeaveFacts DEF PartyInv
    <3>2. PICK p : p = Append(arriving, l)
      OBVIOUS
    <3>3. a = <<l>>
      BY <1>8, <2>3, <3>1
    <3>4. p \in Seq(PartyArriving) /\ a \in Seq(PartyArriving) /\ p = arriving \o a
      BY <1>1, <3>2, <3>3, AppendIsConcat
    <3>5. PICK s : Put(s, where, u, NoVoiceChannel)
      BY DEF Put
    <3>6. /\ s \in Situation /\ s[u].channel = NoVoiceChannel
          /\ \A v \in User \ {u} : s[v] = where[v]
      BY <1>1, <1>6, <3>5, SituationSet
    <3>7. EventStep(where, l, s)
      BY <3>1, <3>6 DEF EventStep, UserMoves
    <3>8. QInv(p, s, fetch, active, rows, dock, {})
      BY <1>1, <3>1, <3>2, <3>6, <3>7, TellEvent
    <3>9. EventStep(s, m, where')
      BY <1>5, <1>7, <3>6 DEF EventStep, UserMoves
    <3>10. ~(u # Self /\ SelfEvent(l))
      BY <3>1 DEF SelfEvent
    <3>11. /\ (\A k \in 1..Len(arriving) : ~IsOwnAnswer(arriving[k])) =>
                 \A k \in 1..Len(p) : ~IsOwnAnswer(p[k])
           /\ LeaveAnswered(arriving) /\ u # Self => LeaveAnswered(p)
      BY <1>1, <3>1, <3>2, <3>10, EventTold
    <3>12. QED
      BY <1>10, <3>4, <3>6, <3>8, <3>9, <3>11
  <2>4. QED
    BY <2>1, <2>2, <2>3
<1>11. PICK q : q = Append(p, m)
  OBVIOUS
<1>12. q \in Seq(PartyArriving)
  BY <1>5, <1>11
<1>13. QInv(q, where', fetch, active, rows, dock, {})
  BY <1>5, <1>7, <1>10, <1>11, TellEvent
<1>14. ~(SelfEvent(m) /\ m.kind = "leave")
  BY <1>5
<1>15. /\ (\A k \in 1..Len(arriving) : ~IsOwnAnswer(arriving[k])) =>
             \A k \in 1..Len(q) : ~IsOwnAnswer(q[k])
       /\ LeaveAnswered(arriving) /\ u # Self => LeaveAnswered(q)
  <2>1. /\ (\A k \in 1..Len(p) : ~IsOwnAnswer(p[k])) => \A k \in 1..Len(q) : ~IsOwnAnswer(q[k])
        /\ LeaveAnswered(p) => LeaveAnswered(q)
    BY <1>5, <1>10, <1>11, <1>14, EventTold
  <2>2. QED
    BY <1>10, <2>1
<1>16. arriving' = q \o answer /\ Len(arriving') <= MaxArriving
  <2>1. PICK items : items = a \o <<m>> \o answer
    OBVIOUS
  <2>2. items \in Seq(PartyArriving)
    <3>1. PICK o : o = <<m>>
      OBVIOUS
    <3>2. o \in Seq(PartyArriving)
      BY <1>5, <3>1
    <3>3. a \o o \in Seq(PartyArriving)
      BY <1>10, <3>2, ConcatProperties
    <3>4. PICK e \in Seq(PartyArriving) : e = a \o o
      BY <3>3
    <3>5. e \o answer \in Seq(PartyArriving)
      BY ConcatProperties
    <3>6. QED
      BY <2>1, <3>1, <3>4, <3>5
  <2>3. Len(arriving) + Len(items) <= MaxArriving /\ arriving' = arriving \o items
    BY <1>9, <2>1 DEF Tell
  <2>4. Len(arriving') = Len(arriving) + Len(items)
    BY <1>1, <2>2, <2>3, ConcatProperties
  <2>5. arriving \o items = q \o answer
    <3>1. PICK z \in Seq(PartyArriving) : z = arriving
      BY <1>1
    <3>2. a \in Seq(PartyArriving) /\ m \in PartyArriving
      BY <1>5, <1>10
    <3>3. z \o (a \o <<m>> \o answer) = Append(z \o a, m) \o answer
      BY <3>2, Chain, Zenon
    <3>4. z \o items = z \o (a \o <<m>> \o answer)
      BY <2>1, Zenon
    <3>5. Append(z \o a, m) = q
      BY <1>10, <1>11, <3>1, Zenon
    <3>6. QED
      BY <3>1, <3>3, <3>4, <3>5, Zenon
  <2>6. QED
    BY <2>3, <2>4, <2>5
<1>17. QED
  BY <1>7, <1>12, <1>13, <1>15, <1>16 DEF Moved

-----------------------------------------------------------------------------
(* The users.                                                              *)

\* Of a user's move nothing more is said.
LEMMA MovedQuietly ==
  ASSUME PartyInv, NEW u \in User \ {Self}, Moved(u, <<>>),
         UNCHANGED <<partyEnv, active, rows, dock, fetch, refused>>
  PROVE  PartyInv'
<1>1. PartyTypes /\ LeaveInv
  BY DEF PartyInv
<1>2. PICK q \in Seq(PartyArriving) : /\ arriving' = q \o <<>>
                                      /\ QInv(q, where', fetch, active, rows, dock, {})
                                      /\ LeaveAnswered(arriving) => LeaveAnswered(q)
  BY DEF Moved
<1>3. arriving' = q
  BY <1>2, ConcatEmptySeq
<1>4. QInv(arriving', where', fetch', active', rows', dock', {})
  BY <1>2, <1>3
<1>5. partyEnv \subseteq {"others", "mute"} => LeaveAnswered(arriving')
  BY <1>1, <1>2, <1>3 DEF LeaveInv
<1>6. where' \in Situation /\ Len(arriving') <= MaxArriving /\ arriving' \in Seq(PartyArriving)
  BY <1>2, <1>3 DEF Moved
<1>7. QED
  BY <1>1, <1>4, <1>5, <1>6, StateTypes, PartyAfter

\* The user is answered.
LEMMA MovedAnswered ==
  ASSUME PartyInv, NEW m \in PartyArriving, Moved(Self, <<m>>), m.kind \in {"joined", "left"},
         m.kind = "joined" => active = NoVoiceChannel,
         m.kind = "left" => where'[Self].channel # m.channel,
         ~\E i \in 1..Len(arriving) : arriving[i].kind \in {"joined", "left"},
         UNCHANGED <<partyEnv, active, rows, dock, fetch, refused>>
  PROVE  PartyInv'
<1>1. PartyTypes /\ IsOwnAnswer(m) /\ \A k \in 1..Len(arriving) : ~IsOwnAnswer(arriving[k])
  BY DEF PartyInv, IsOwnAnswer
<1>2. PICK q \in Seq(PartyArriving) : /\ arriving' = q \o <<m>>
                                      /\ QInv(q, where', fetch, active, rows, dock, {})
                                      /\ \A k \in 1..Len(q) : ~IsOwnAnswer(q[k])
  BY <1>1 DEF Moved
<1>3. where' \in Situation /\ Len(arriving') <= MaxArriving
  BY DEF Moved
<1>4. arriving' = Append(q, m) /\ arriving' \in Seq(PartyArriving)
  BY <1>2, AppendIsConcat
<1>5. PICK n : n = Append(q, m)
  OBVIOUS
<1>6. QInv(n, where', fetch, active, rows, dock, {})
  BY <1>1, <1>2, <1>3, <1>5, TellOther
<1>7. LeaveAnswered(n)
  BY <1>1, <1>5, AnswerTold
<1>8. QInv(arriving', where', fetch', active', rows', dock', {}) /\ LeaveAnswered(arriving')
  BY <1>4, <1>5, <1>6, <1>7
<1>9. QED
  BY <1>1, <1>3, <1>4, <1>8, StateTypes, PartyAfter

\* A mute button.
LEMMA ToggleKeeps ==
  ASSUME PartyInv, NEW u \in User, ToggleMuted(u),
         UNCHANGED <<partyEnv, active, rows, dock, fetch, refused>>
  PROVE  PartyInv'
<1>1. /\ PartyTypes /\ LeaveInv /\ where \in Situation /\ arriving \in Seq(PartyArriving)
      /\ QInv(arriving, where, fetch, active, rows, dock, {})
  BY StateTypes DEF PartyInv
<1>2. PICK w \in [channel : PartyPlace, muted : BOOLEAN] : w = where[u]
  BY <1>1 DEF Situation
<1>3. PICK c \in VoiceChannel : c = where[u].channel
  BY <1>1, <1>2 DEF ToggleMuted, PartyPlace
<1>4. PICK b \in BOOLEAN : b = ~where[u].muted
  BY Zenon
<1>5. b # where[u].muted
  <2>1. where[u].muted \in BOOLEAN
    BY <1>2
  <2>2. QED
    BY <1>4, <2>1
<1>6. PICK x : x = [where[u] EXCEPT !.muted = b]
  OBVIOUS
<1>7. x \in [channel : PartyPlace, muted : BOOLEAN] /\ x.channel = c /\ x.muted = b
  BY <1>2, <1>3, <1>6
<1>8. where' = [where EXCEPT ![u] = x]
  <2>1. where' = [where EXCEPT ![u].muted = ~@]
    BY DEF ToggleMuted
  <2>2. QED
    BY <1>4, <1>6, <2>1, Zenon
<1>9. where' \in Situation /\ where'[u] = x /\ \A v \in User \ {u} : where'[v] = where[v]
  BY <1>1, <1>7, <1>8 DEF Situation
<1>10. PICK m : m = Event("update", c, u, b)
  OBVIOUS
<1>11. m \in PartyArriving /\ IsEvent(m) /\ m.kind = "update" /\ m.channel = c /\ m.user = u
       /\ m.muted = b /\ ~IsOwnAnswer(m)
  <2>1. "update" \in StateEvents
    BY DEF StateEvents
  <2>2. QED
    BY <1>10, <2>1, EventIs
<1>12. Tell(<<m>>)
  <2>1. Tell(<<Event("update", where[u].channel, u, ~where[u].muted)>>)
    BY DEF ToggleMuted
  <2>2. QED
    BY <1>3, <1>4, <1>10, <2>1, Zenon
<1>13. PICK n : n = Append(arriving, m)
  OBVIOUS
<1>14. arriving' = n /\ arriving' \in Seq(PartyArriving) /\ Len(arriving') <= MaxArriving
  <2>1. Len(arriving) + Len(<<m>>) <= MaxArriving /\ arriving' = arriving \o <<m>>
    BY <1>12 DEF Tell
  <2>2. arriving' = n
    BY <1>1, <1>11, <1>13, <2>1, AppendIsConcat
  <2>3. n \in Seq(PartyArriving) /\ Len(n) = Len(arriving) + 1
    BY <1>1, <1>11, <1>13, AddsIn
  <2>4. Len(<<m>>) = 1
    OBVIOUS
  <2>5. QED
    BY <2>1, <2>2, <2>3, <2>4
<1>15. UserMoves(where, m, where')
  BY <1>3, <1>5, <1>7, <1>9, <1>11 DEF UserMoves
<1>16. QInv(n, where', fetch, active, rows, dock, {})
  <2>1. EventStep(where, m, where')
    BY <1>15 DEF EventStep
  <2>2. QED
    BY <1>1, <1>9, <1>11, <1>13, <2>1, TellEvent
<1>17. LeaveAnswered(arriving) => LeaveAnswered(n)
  <2>1. ~(SelfEvent(m) /\ m.kind = "leave")
    BY <1>11
  <2>2. QED
    BY <1>1, <1>11, <1>13, <2>1, EventTold
<1>18. partyEnv \subseteq {"others", "mute"} => LeaveAnswered(arriving')
  BY <1>1, <1>14, <1>17 DEF LeaveInv
<1>19. QInv(arriving', where', fetch', active', rows', dock', {})
  BY <1>14, <1>16
<1>20. QED
  BY <1>1, <1>9, <1>14, <1>18, <1>19, StateTypes, PartyAfter

\* The others, and the mute buttons.
LEMMA OthersKeeps ==
  ASSUME PartyInv, OthersInVoice
  PROVE  PartyInv'
<1>1. UNCHANGED <<partyEnv, active, rows, dock, fetch, refused>>
  BY DEF OthersInVoice
<1>2. <<>> \in Seq(PartyArriving)
  OBVIOUS
<1>3. ASSUME NEW u \in User, ToggleMuted(u)
      PROVE  PartyInv'
  BY <1>1, <1>3, ToggleKeeps
<1>4. ASSUME NEW u \in User \ {Self}, Quit(u, <<>>)
      PROVE  PartyInv'
  <2>1. Moved(u, <<>>)
    BY <1>2, <1>4, QuitMoves
  <2>2. QED
    BY <1>1, <2>1, MovedQuietly
<1>5. ASSUME NEW u \in User \ {Self}, NEW c \in VoiceChannel, Join(u, c, <<>>)
      PROVE  PartyInv'
  <2>1. Moved(u, <<>>)
    BY <1>2, <1>5, JoinMoves
  <2>2. QED
    BY <1>1, <2>1, MovedQuietly
<1>6. QED
  BY <1>3, <1>4, <1>5 DEF OthersInVoice

\* joinVoice.
LEMMA JoinKeeps ==
  ASSUME PartyInv, NEW c \in VoiceChannel, JoinVoice(c)
  PROVE  PartyInv'
<1>1. PICK m : m = [kind |-> "joined", channel |-> c]
  OBVIOUS
<1>2. m \in PartyArriving /\ m.kind = "joined"
  BY <1>1 DEF PartyArriving
<1>3. <<m>> \in Seq(PartyArriving) /\ Self \in User
  BY <1>2, PartyAssumption DEF PartyAssumption
<1>4. Join(Self, c, <<m>>) /\ active = NoVoiceChannel
      /\ UNCHANGED <<partyEnv, active, rows, dock, fetch, refused>>
      /\ ~\E i \in 1..Len(arriving) : arriving[i].kind \in {"joined", "left"}
  BY <1>1 DEF JoinVoice
<1>5. Moved(Self, <<m>>)
  BY <1>3, <1>4, JoinMoves
<1>6. QED
  BY <1>2, <1>4, <1>5, MovedAnswered

\* leaveVoice.
LEMMA LeaveKeeps ==
  ASSUME PartyInv, LeaveVoice
  PROVE  PartyInv'
<1>1. active \in VoiceChannel /\ Self \in User
  BY StateTypes DEF PartyInv, LeaveVoice, PartyPlace
<1>2. PICK c \in VoiceChannel : c = active
  BY <1>1
<1>3. PICK m : m = [kind |-> "left", channel |-> c]
  OBVIOUS
<1>4. m \in PartyArriving /\ m.kind = "left" /\ m.channel = c
  BY <1>3 DEF PartyArriving
<1>5. <<m>> \in Seq(PartyArriving) /\ c # NoVoiceChannel
  BY <1>4, PartyAssumption DEF PartyAssumption
<1>6. Quit(Self, <<m>>) /\ UNCHANGED <<partyEnv, active, rows, dock, fetch, refused>>
      /\ ~\E i \in 1..Len(arriving) : arriving[i].kind \in {"joined", "left"}
  BY <1>2, <1>3 DEF LeaveVoice
<1>7. Moved(Self, <<m>>) /\ where'[Self].channel = NoVoiceChannel
  BY <1>1, <1>5, <1>6, QuitMoves
<1>8. QED
  BY <1>4, <1>5, <1>6, <1>7, MovedAnswered

\* loadChannels.
LEMMA PreviewKeeps ==
  ASSUME PartyInv, NEW c \in VoiceChannel, Preview(c)
  PROVE  PartyInv'
<1>1. /\ PartyTypes /\ LeaveInv /\ where \in Situation /\ arriving \in Seq(PartyArriving)
      /\ QInv(arriving, where, fetch, active, rows, dock, {})
  BY StateTypes DEF PartyInv
<1>2. "preview" \in partyEnv /\ UNCHANGED <<partyEnv, where, active, rows, dock, fetch, refused>>
  BY DEF Preview
<1>3. PICK list : list = Listed(where, c)
  OBVIOUS
<1>4. list \in Seq(Row) /\ Right(list, c, where)
  BY <1>1, <1>3, ListedFacts
<1>5. PICK m : m = [kind |-> "preview", channel |-> c, list |-> list]
  OBVIOUS
<1>6. m \in PartyArriving /\ m.kind = "preview" /\ m.channel = c /\ m.list = list /\ ~IsOwnAnswer(m)
  BY <1>4, <1>5 DEF PartyArriving, IsOwnAnswer
<1>7. Tell(<<m>>)
  BY <1>3, <1>5 DEF Preview
<1>8. PICK n : n = Append(arriving, m)
  OBVIOUS
<1>9. arriving' = n /\ arriving' \in Seq(PartyArriving) /\ Len(arriving') <= MaxArriving
  <2>1. Len(arriving) + Len(<<m>>) <= MaxArriving /\ arriving' = arriving \o <<m>>
    BY <1>7 DEF Tell
  <2>2. arriving' = n
    BY <1>1, <1>6, <1>8, <2>1, AppendIsConcat
  <2>3. n \in Seq(PartyArriving) /\ Len(n) = Len(arriving) + 1
    BY <1>1, <1>6, <1>8, AddsIn
  <2>4. Len(<<m>>) = 1
    OBVIOUS
  <2>5. QED
    BY <2>1, <2>2, <2>3, <2>4
<1>10. QInv(n, where, fetch, active, rows, dock, {})
  BY <1>1, <1>2, <1>4, <1>6, <1>8, TellOther
<1>11. QInv(arriving', where', fetch', active', rows', dock', {})
  BY <1>2, <1>9, <1>10
<1>12. partyEnv \subseteq {"others", "mute"} => LeaveAnswered(arriving')
  BY <1>2
<1>13. QED
  BY <1>1, <1>2, <1>9, <1>11, <1>12, StateTypes, PartyAfter

-----------------------------------------------------------------------------
(* A queue that gets shorter.                                              *)

\* rest is the queue without the i-th, m.
IsRest(rest, q, i, m) == i \in 1..Len(q) /\ m = q[i] /\ rest = RemoveAt(q, i)

\* Where the k-th of the rest was.
Before(k, i) == IF k < i THEN k ELSE k + 1

\* What is left when a message has arrived.
LEMMA RestFacts ==
  ASSUME NEW q \in Seq(PartyArriving), NEW i, NEW m, NEW rest, IsRest(rest, q, i, m)
  PROVE  /\ rest \in Seq(PartyArriving) /\ m \in PartyArriving /\ i \in 1..Len(q) /\ m = q[i]
         /\ Len(q) \in Nat /\ Len(rest) \in Nat /\ Len(rest) + 1 = Len(q)
         /\ \A k \in 1..Len(rest) : Before(k, i) \in 1..Len(q) /\ Before(k, i) # i
                                    /\ rest[k] = q[Before(k, i)]
         /\ \A j \in 1..Len(q) : j # i => \E k \in 1..Len(rest) : Before(k, i) = j /\ rest[k] = q[j]
<1>1. i \in 1..Len(q) /\ m = q[i] /\ rest = RemoveAt(q, i)
  BY DEF IsRest
<1>2. rest \in Seq(PartyArriving) /\ PartyLacks(rest, q, i)
  BY <1>1, PartyRemoved
<1>3. /\ Len(q) \in Nat /\ Len(rest) \in Nat /\ Len(rest) + 1 = Len(q)
      /\ \A k \in 1..Len(rest) : rest[k] = IF k < i THEN q[k] ELSE q[k + 1]
  <2>1. Len(q) \in Nat /\ Len(rest) \in Nat
    BY <1>2
  <2>2. QED
    BY <1>2, <2>1 DEF PartyLacks
<1>4. ASSUME NEW k \in 1..Len(rest)
      PROVE  Before(k, i) \in 1..Len(q) /\ Before(k, i) # i /\ rest[k] = q[Before(k, i)]
  BY <1>1, <1>3 DEF Before
<1>5. ASSUME NEW j \in 1..Len(q), j # i
      PROVE  \E k \in 1..Len(rest) : Before(k, i) = j /\ rest[k] = q[j]
  <2>1. CASE j < i
    <3>1. j \in 1..Len(rest) /\ Before(j, i) = j
      BY <1>1, <1>3, <2>1 DEF Before
    <3>2. QED
      BY <1>4, <3>1
  <2>2. CASE ~(j < i)
    <3>1. j - 1 \in 1..Len(rest) /\ Before(j - 1, i) = j
      BY <1>1, <1>3, <1>5, <2>2 DEF Before
    <3>2. QED
      BY <1>4, <3>1
  <2>3. QED
    BY <2>1, <2>2
<1>6. m \in PartyArriving
  BY <1>1
<1>7. QED
  BY <1>1, <1>2, <1>3, <1>4, <1>5, <1>6

\* The order stays.
LEMMA BeforeOrder ==
  ASSUME NEW k \in Nat, NEW l \in Nat, NEW i \in Nat
  PROVE  (k < l <=> Before(k, i) < Before(l, i)) /\ (Before(k, i) = Before(l, i) => k = l)
BY DEF Before

\* The fetch that m answers is no longer under way.
Frees(g, f, m) ==
    /\ g.pending \subseteq g.inFlight
    /\ \A c \in VoiceChannel : c \in g.inFlight <=> (c \in f.inFlight /\ ~IsAnswer(m, c))

\* The fetches, when an answer of theirs or another message has arrived.
LEMMA QueueLess ==
  ASSUME NEW q \in Seq(PartyArriving), NEW i, NEW m, NEW rest, IsRest(rest, q, i, m),
         NEW f, NEW act, QueueInv(q, f, act), NEW g, Frees(g, f, m),
         NEW a, a = act \/ a = NoVoiceChannel \/ IsOwnAnswer(m)
  PROVE  QueueInv(rest, g, a)
<1>1. /\ i \in 1..Len(q) /\ Len(q) \in Nat /\ Len(rest) \in Nat /\ Len(rest) + 1 = Len(q)
      /\ \A k \in 1..Len(rest) : Before(k, i) \in 1..Len(q) /\ Before(k, i) # i
                                 /\ rest[k] = q[Before(k, i)]
      /\ \A j \in 1..Len(q) : j # i => \E k \in 1..Len(rest) : Before(k, i) = j /\ rest[k] = q[j]
      /\ m = q[i]
  BY RestFacts
<1>2. OneAnswer(q, f) /\ OfScenario(q) /\ OneOwnAnswer(q) /\ JoinsFromNowhere(q, act)
  BY DEF QueueInv
<1>3. \A k, l \in 1..Len(rest) : Before(k, i) = Before(l, i) => k = l
  <2>1. \A k \in 1..Len(rest) : k \in Nat
    BY <1>1
  <2>2. i \in Nat
    BY <1>1
  <2>3. QED
    BY <2>1, <2>2, BeforeOrder
<1>4. ASSUME NEW c \in VoiceChannel
      PROVE  /\ c \in g.inFlight <=> PartyAnswers(rest, c) # {}
             /\ \A k, l \in PartyAnswers(rest, c) : k = l
  <2>1. \A j \in 1..Len(q) : j \in PartyAnswers(q, c) <=> IsAnswer(q[j], c)
    BY DEF PartyAnswers
  <2>2. \A k \in 1..Len(rest) : k \in PartyAnswers(rest, c) <=> IsAnswer(rest[k], c)
    BY DEF PartyAnswers
  <2>3. c \in f.inFlight <=> PartyAnswers(q, c) # {}
    BY <1>2 DEF OneAnswer
  <2>4. \A j, l \in PartyAnswers(q, c) : j = l
    BY <1>2 DEF OneAnswer
  <2>5. \A k \in PartyAnswers(rest, c) : k \in 1..Len(rest) /\ Before(k, i) \in PartyAnswers(q, c)
    <3>1. ASSUME NEW k \in PartyAnswers(rest, c)
          PROVE  k \in 1..Len(rest) /\ Before(k, i) \in PartyAnswers(q, c)
      <4>1. k \in 1..Len(rest) /\ IsAnswer(rest[k], c)
        BY <3>1 DEF PartyAnswers
      <4>2. Before(k, i) \in 1..Len(q) /\ rest[k] = q[Before(k, i)]
        BY <1>1, <4>1
      <4>3. IsAnswer(q[Before(k, i)], c)
        BY <4>1, <4>2
      <4>4. QED
        BY <2>1, <4>1, <4>2, <4>3
    <3>2. QED
      BY <3>1
  <2>6. \A k, l \in PartyAnswers(rest, c) : k = l
    BY <1>3, <2>4, <2>5
  <2>7. CASE IsAnswer(m, c)
    <3>1. i \in PartyAnswers(q, c)
      BY <1>1, <2>1, <2>7
    <3>2. PartyAnswers(rest, c) = {}
      BY <1>1, <2>4, <2>5, <3>1
    <3>3. c \notin g.inFlight
      BY <2>7 DEF Frees
    <3>4. QED
      BY <3>2, <3>3
  <2>8. CASE ~IsAnswer(m, c)
    <3>1. c \in g.inFlight <=> c \in f.inFlight
      BY <2>8 DEF Frees
    <3>2. PartyAnswers(q, c) # {} => PartyAnswers(rest, c) # {}
      <4>1. ASSUME NEW j \in PartyAnswers(q, c)
            PROVE  PartyAnswers(rest, c) # {}
        <5>1. j \in 1..Len(q) /\ IsAnswer(q[j], c)
          BY <4>1 DEF PartyAnswers
        <5>2. j # i
          BY <1>1, <2>8, <5>1
        <5>3. PICK k \in 1..Len(rest) : rest[k] = q[j]
          BY <1>1, <5>1, <5>2
        <5>4. k \in PartyAnswers(rest, c)
          BY <2>2, <5>1, <5>3
        <5>5. QED
          BY <5>4
      <4>2. QED
        BY <4>1
    <3>3. PartyAnswers(rest, c) # {} => PartyAnswers(q, c) # {}
      BY <2>5
    <3>4. QED
      BY <2>3, <2>6, <3>1, <3>2, <3>3
  <2>9. QED
    BY <2>7, <2>8
<1>5. OneAnswer(rest, g)
  BY <1>4 DEF OneAnswer
<1>6. OfScenario(rest)
  BY <1>1, <1>2 DEF OfScenario
<1>7. OneOwnAnswer(rest)
  BY <1>1, <1>2, <1>3 DEF OneOwnAnswer
<1>8. JoinsFromNowhere(rest, a)
  <2>1. ASSUME NEW k \in 1..Len(rest), rest[k].kind = "joined", a # NoVoiceChannel
        PROVE  FALSE
    <3>1. PICK j \in 1..Len(q) : j = Before(k, i)
      BY <1>1
    <3>2. j # i /\ q[j].kind = "joined" /\ IsOwnAnswer(q[j])
      BY <1>1, <2>1, <3>1 DEF IsOwnAnswer
    <3>3. act = NoVoiceChannel
      BY <1>2, <3>2 DEF JoinsFromNowhere
    <3>4. IsOwnAnswer(q[i])
      BY <1>1, <2>1, <3>3
    <3>5. QED
      BY <1>1, <1>2, <3>2, <3>4 DEF OneOwnAnswer
  <2>2. QED
    BY <2>1 DEF JoinsFromNowhere
<1>9. QED
  BY <1>5, <1>6, <1>7, <1>8 DEF QueueInv, Frees

\* What is on its way to the list of e stays so when something else arrives.
LEMMA OnItsWayLess ==
  ASSUME NEW q \in Seq(PartyArriving), NEW i, NEW m, NEW rest, IsRest(rest, q, i, m),
         NEW f, NEW g, NEW list, NEW new, NEW p, NEW e, OnItsWay(q, f, list, p, e),
         m.channel # e \/ (m.kind \notin {"rows", "limit"} /\ ~SelfEvent(m)),
         e \in f.pending => e \in g.pending,
         f.retry[e] > 0 => g.retry[e] > 0,
         e \notin f.inFlight => e \notin g.inFlight,
         OwnRow(list, p, e) => OwnRow(new, p, e)
  PROVE  OnItsWay(rest, g, new, p, e)
<1>1. /\ \A j \in 1..Len(q) : j # i => \E k \in 1..Len(rest) : rest[k] = q[j]
      /\ m = q[i]
  BY RestFacts
<1>2. CASE \E j \in 1..Len(q) : SelfEvent(q[j]) /\ q[j].channel = e
  <2>1. PICK j \in 1..Len(q) : SelfEvent(q[j]) /\ q[j].channel = e
    BY <1>2
  <2>2. j # i
    BY <1>1, <2>1
  <2>3. PICK k \in 1..Len(rest) : rest[k] = q[j]
    BY <1>1, <2>2
  <2>4. SelfEvent(rest[k]) /\ rest[k].channel = e
    BY <2>1, <2>3
  <2>5. QED
    BY <2>4 DEF OnItsWay
<1>3. CASE \E j \in 1..Len(q) : q[j].kind = "limit" /\ q[j].channel = e
  <2>1. PICK j \in 1..Len(q) : q[j].kind = "limit" /\ q[j].channel = e
    BY <1>3
  <2>2. j # i
    BY <1>1, <2>1
  <2>3. PICK k \in 1..Len(rest) : rest[k] = q[j]
    BY <1>1, <2>2
  <2>4. QED
    BY <2>1, <2>3 DEF OnItsWay
<1>4. CASE \E j \in 1..Len(q) : q[j].kind = "rows" /\ q[j].channel = e /\ OwnRow(q[j].list, p, e)
  <2>1. PICK j \in 1..Len(q) : q[j].kind = "rows" /\ q[j].channel = e /\ OwnRow(q[j].list, p, e)
    BY <1>4
  <2>2. j # i
    BY <1>1, <2>1
  <2>3. PICK k \in 1..Len(rest) : rest[k] = q[j]
    BY <1>1, <2>2
  <2>4. rest[k].kind = "rows" /\ rest[k].channel = e /\ OwnRow(rest[k].list, p, e)
    BY <2>1, <2>3
  <2>5. QED
    BY <2>4 DEF OnItsWay
<1>5. QED
  BY <1>2, <1>3, <1>4 DEF OnItsWay

\* Where the user moved stays told, when the events arrive in their order.
LEMMA MovedOnLess ==
  ASSUME NEW q \in Seq(PartyArriving), NEW i, NEW m, NEW rest, IsRest(rest, q, i, m),
         NEW p, MovedOn(q, p), SelfEvent(m) => \A j \in 1..(i - 1) : ~SelfEvent(q[j])
  PROVE  MovedOn(rest, p)
<1>1. /\ i \in 1..Len(q) /\ Len(q) \in Nat /\ Len(rest) \in Nat /\ Len(rest) + 1 = Len(q)
      /\ \A k \in 1..Len(rest) : Before(k, i) \in 1..Len(q) /\ Before(k, i) # i
                                 /\ rest[k] = q[Before(k, i)]
      /\ \A j \in 1..Len(q) : j # i => \E k \in 1..Len(rest) : Before(k, i) = j /\ rest[k] = q[j]
      /\ m = q[i]
  BY RestFacts
<1>2. ASSUME NEW k \in 1..Len(rest), SelfEvent(rest[k]), rest[k].kind = "join",
             rest[k].channel # p.channel, p.channel # NoVoiceChannel
      PROVE  \E l \in (k + 1)..Len(rest) : SelfEvent(rest[l]) /\ rest[l].channel = p.channel
  <2>1. PICK a \in 1..Len(q) : a = Before(k, i)
    BY <1>1
  <2>2. SelfEvent(q[a]) /\ q[a].kind = "join" /\ q[a].channel # p.channel /\ a # i
    BY <1>1, <1>2, <2>1
  <2>3. PICK b \in (a + 1)..Len(q) : SelfEvent(q[b]) /\ q[b].channel = p.channel
    BY <1>2, <2>2 DEF MovedOn
  <2>4. b \in 1..Len(q) /\ a < b
    BY <1>1
  <2>5. b # i
    <3>1. ASSUME b = i
          PROVE  FALSE
      <4>1. a \in 1..(i - 1) /\ SelfEvent(m)
        BY <1>1, <2>3, <2>4, <3>1
      <4>2. QED
        BY <2>2, <4>1
    <3>2. QED
      BY <3>1
  <2>6. PICK l \in 1..Len(rest) : Before(l, i) = b /\ rest[l] = q[b]
    BY <1>1, <2>4, <2>5
  <2>7. k \in Nat /\ l \in Nat /\ i \in Nat
    BY <1>1
  <2>8. k < l
    BY <2>1, <2>4, <2>6, <2>7, BeforeOrder
  <2>9. l \in (k + 1)..Len(rest)
    BY <1>1, <2>7, <2>8
  <2>10. SelfEvent(rest[l]) /\ rest[l].channel = p.channel
    BY <2>3, <2>6
  <2>11. QED
    BY <2>9, <2>10
<1>3. QED
  BY <1>2 DEF MovedOn

\* The situations when the first has arrived.
LEMMA StoryLess ==
  ASSUME NEW q \in Seq(PartyArriving), NEW m, NEW rest, IsRest(rest, q, 1, m),
         NEW h, NEW s, Story(h, q, s)
  PROVE  /\ h[0] \in Situation /\ h[1] \in Situation /\ Leads(h[0], m, h[1])
         /\ \E g \in [0..Len(rest) -> Situation] : Story(g, rest, s) /\ g[0] = h[1]
<1>1. /\ 1 \in 1..Len(q) /\ Len(q) \in Nat /\ Len(rest) \in Nat /\ Len(rest) + 1 = Len(q)
      /\ \A k \in 1..Len(rest) : Before(k, 1) \in 1..Len(q) /\ rest[k] = q[Before(k, 1)]
      /\ m = q[1]
  BY RestFacts
<1>2. /\ h \in [0..Len(q) -> Situation] /\ h[Len(q)] = s
      /\ \A k \in 1..Len(q) : Leads(h[k - 1], q[k], h[k])
  BY DEF Story
<1>3. PICK g : g = [k \in 0..Len(rest) |-> h[k + 1]]
  OBVIOUS
<1>4. \A k \in 0..Len(rest) : k + 1 \in 0..Len(q)
  BY <1>1
<1>5. g \in [0..Len(rest) -> Situation]
  BY <1>2, <1>3, <1>4
<1>6. g[Len(rest)] = s /\ g[0] = h[1]
  <2>1. Len(rest) \in 0..Len(rest) /\ 0 \in 0..Len(rest) /\ 0 + 1 = 1
    BY <1>1
  <2>2. QED
    BY <1>1, <1>2, <1>3, <2>1
<1>7. ASSUME NEW k \in 1..Len(rest)
      PROVE  Leads(g[k - 1], rest[k], g[k])
  <2>1. k - 1 \in 0..Len(rest) /\ k \in 0..Len(rest) /\ k - 1 + 1 = k /\ k + 1 \in 1..Len(q)
        /\ k + 1 - 1 = k /\ Before(k, 1) = k + 1
    BY <1>1 DEF Before
  <2>2. g[k - 1] = h[k] /\ g[k] = h[k + 1] /\ rest[k] = q[k + 1]
    BY <1>1, <1>3, <2>1
  <2>3. Leads(h[k + 1 - 1], q[k + 1], h[k + 1])
    BY <1>2, <2>1
  <2>4. QED
    BY <2>1, <2>2, <2>3
<1>8. Story(g, rest, s)
  BY <1>5, <1>6, <1>7 DEF Story
<1>9. h[0] \in Situation /\ h[1] \in Situation /\ Leads(h[0], m, h[1])
  <2>1. 0 \in 0..Len(q) /\ 1 \in 0..Len(q) /\ 1 - 1 = 0
    BY <1>1
  <2>2. Leads(h[1 - 1], q[1], h[1])
    BY <1>1, <1>2
  <2>3. QED
    BY <1>1, <1>2, <2>1, <2>2
<1>10. QED
  BY <1>5, <1>6, <1>8, <1>9

\* The lists stay right when m is taken in.
StepRight(m, r, r2) ==
    \A x, t \in Situation : Leads(x, m, t) /\ AllRight(r, x) => AllRight(r2, t)

\* So does the dock.
StepDock(q, rest, m, act, a, r2, d, d2) ==
    \A x, t \in Situation :
        Leads(x, m, t) /\ AllRight(r2, t) /\ DockRight(q, act, d, x) => DockRight(rest, a, d2, t)

\* The scenarios where the queue is a history.
PartyCalm == partyEnv \subseteq {"others", "mute", "limit", "speak", "preview"}
\* Those where the dock is looked at.
Plain == partyEnv \subseteq {"others", "mute"}

\* The history without what has arrived.
LEMMA HistoryLess ==
  ASSUME NEW q \in Seq(PartyArriving), NEW i, NEW m, NEW rest, IsRest(rest, q, i, m),
         PartyCalm => i = 1, NEW s, NEW act, NEW r, NEW d, HistoryInv(q, s, act, r, d),
         NEW a, NEW r2, NEW d2, PartyCalm => StepRight(m, r, r2),
         Plain => StepDock(q, rest, m, act, a, r2, d, d2)
  PROVE  HistoryInv(rest, s, a, r2, d2)
<1>1. SUFFICES ASSUME PartyCalm
               PROVE  \E g \in [0..Len(rest) -> Situation] : TellsSo(g, rest, s, a, r2, d2)
  BY DEF HistoryInv, PartyCalm
<1>2. PICK h : TellsSo(h, q, s, act, r, d)
  BY <1>1 DEF HistoryInv, PartyCalm
<1>3. Story(h, q, s) /\ AllRight(r, h[0]) /\ IsRest(rest, q, 1, m)
  BY <1>1, <1>2 DEF TellsSo
<1>4. h[0] \in Situation /\ h[1] \in Situation /\ Leads(h[0], m, h[1])
  BY <1>3, StoryLess
<1>5. PICK g \in [0..Len(rest) -> Situation] : Story(g, rest, s) /\ g[0] = h[1]
  BY <1>3, StoryLess
<1>6. AllRight(r2, h[1])
  BY <1>1, <1>3, <1>4 DEF StepRight
<1>7. Plain => DockRight(rest, a, d2, h[1])
  BY <1>2, <1>4, <1>6 DEF StepDock, TellsSo, Plain
<1>8. QED
  BY <1>5, <1>6, <1>7 DEF TellsSo, Plain

\* What the user left stays answered, when the first has arrived.
LEMMA LeaveLess ==
  ASSUME NEW q \in Seq(PartyArriving), NEW m, NEW rest, IsRest(rest, q, 1, m), LeaveAnswered(q)
  PROVE  LeaveAnswered(rest)
<1>1. /\ Len(q) \in Nat /\ Len(rest) \in Nat /\ Len(rest) + 1 = Len(q)
      /\ \A k \in 1..Len(rest) : Before(k, 1) \in 1..Len(q) /\ rest[k] = q[Before(k, 1)]
  BY RestFacts
<1>2. \A k \in 1..Len(rest) : k + 1 \in 1..Len(q) /\ rest[k] = q[k + 1]
  BY <1>1 DEF Before
<1>3. ASSUME NEW k \in 1..Len(rest), SelfEvent(rest[k]), rest[k].kind = "leave"
      PROVE  \E l \in (k + 1)..Len(rest) : IsOwnAnswer(rest[l])
  <2>1. SelfEvent(q[k + 1]) /\ q[k + 1].kind = "leave"
    BY <1>2, <1>3
  <2>2. PICK j \in (k + 1 + 1)..Len(q) : IsOwnAnswer(q[j])
    BY <1>2, <2>1 DEF LeaveAnswered
  <2>3. j - 1 \in (k + 1)..Len(rest) /\ j - 1 \in 1..Len(rest) /\ j - 1 + 1 = j
    BY <1>1, <2>2
  <2>4. rest[j - 1] = q[j]
    BY <1>2, <2>3
  <2>5. QED
    BY <2>2, <2>3, <2>4
<1>4. QED
  BY <1>3 DEF LeaveAnswered

\* The answer to leaveVoice stays.
LEMMA LeftLess ==
  ASSUME NEW q \in Seq(PartyArriving), NEW i, NEW m, NEW rest, IsRest(rest, q, i, m), m.kind # "left",
         \E j \in 1..Len(q) : q[j].kind = "left"
  PROVE  \E k \in 1..Len(rest) : rest[k].kind = "left"
<1>1. PICK j \in 1..Len(q) : q[j].kind = "left"
  OBVIOUS
<1>2. j # i
  BY <1>1 DEF IsRest
<1>3. PICK k \in 1..Len(rest) : rest[k] = q[j]
  BY <1>2, RestFacts
<1>4. QED
  BY <1>1, <1>3

\* What arrives is the first, or the first event, unless answers come late.
LEMMA ArrivesFacts ==
  ASSUME PartyInv, NEW i, NEW kind, Arrives(i, kind), NEW m, m = arriving[i],
         NEW rest, rest = RemoveAt(arriving, i)
  PROVE  /\ IsRest(rest, arriving, i, m) /\ m.kind = kind /\ (PartyCalm => i = 1)
         /\ kind \in StateEvents => \A j \in 1..(i - 1) : arriving[j].kind \notin StateEvents
<1>1. i \in 1..Len(arriving) /\ m.kind = kind
  BY DEF Arrives
<1>2. IsRest(rest, arriving, i, m)
  BY <1>1 DEF IsRest
<1>3. i = 1 \/ /\ "late" \in partyEnv
               /\ kind \in StateEvents => \A j \in 1..(i - 1) : arriving[j].kind \notin StateEvents
  BY DEF Arrives
<1>4. \A j : j \notin 1..(1 - 1)
  OBVIOUS
<1>5. kind \in StateEvents => \A j \in 1..(i - 1) : arriving[j].kind \notin StateEvents
  BY <1>3, <1>4
<1>6. PartyCalm => i = 1
  BY <1>3 DEF PartyCalm
<1>7. QED
  BY <1>1, <1>2, <1>5, <1>6

\* An answer to a fetch leaves what the user left answered.
LEMMA AskLeaves ==
  ASSUME NEW q \in Seq(PartyArriving), NEW n, NEW f, NEW g, NEW c, NEW s, NEW D,
         Asked(n, g, q, f, c, s, D), LeaveAnswered(q)
  PROVE  LeaveAnswered(n)
<1>1. CASE n = q
  BY <1>1
<1>2. CASE n # q
  <2>1. PICK m : AnswerFor(m, c, s) /\ n = Append(q, m)
    BY <1>2 DEF Asked
  <2>2. m \in PartyArriving /\ m.kind \in {"rows", "limit", "fail"}
    BY <2>1 DEF AnswerFor
  <2>3. ~IsOwnAnswer(m) /\ ~SelfEvent(m)
    BY <2>2 DEF IsOwnAnswer, SelfEvent, StateEvents
  <2>4. QED
    BY <2>1, <2>2, <2>3, EventTold
<1>3. QED
  BY <1>1, <1>2

\* A fetch is made, or not, and that is all.
LEMMA Asking ==
  ASSUME PartyInv, NEW q \in Seq(PartyArriving), Len(q) + 1 <= MaxArriving \/ Len(arriving') <= MaxArriving,
         Plain => LeaveAnswered(q),
         NEW f \in FetchRecord, NEW c \in VoiceChannel, NEW D \in SUBSET {c}, NEW x,
         Fetches(x, f, c, D), fetch' = x.fetch, UNCHANGED where, UNCHANGED partyEnv,
         Serve(x.calls, q),
         active' \in PartyPlace, rows' \in [VoiceChannel -> Seq(Row)], dock' \in Seq(Row),
         QInv(q, where, f, active', rows', dock', D)
  PROVE  PartyInv'
<1>1. PartyTypes /\ where \in Situation /\ refused \in 0..MaxRefused /\ MaxArriving \in Nat
  BY StateTypes DEF PartyInv
<1>2. /\ Asked(arriving', x.fetch, q, f, c, where, D)
      /\ x.fetch \in FetchRecord /\ refused' \in 0..MaxRefused
      /\ arriving' \in Seq(PartyArriving) /\ Len(arriving') <= Len(q) + 1
  BY <1>1, AskFacts
<1>3. PICK s \in Situation : s = where
  BY <1>1
<1>4. PICK act : act = active'
  OBVIOUS
<1>5. PICK r : r = rows'
  OBVIOUS
<1>6. PICK d : d = dock'
  OBVIOUS
<1>7. PICK n : n = arriving'
  OBVIOUS
<1>8. PICK g : g = x.fetch
  OBVIOUS
<1>9. Asked(n, g, q, f, c, s, D) /\ QInv(q, s, f, act, r, d, D)
  BY <1>2, <1>3, <1>4, <1>5, <1>6, <1>7, <1>8
<1>10. QInv(n, s, g, act, r, d, {})
  BY <1>9, AskKeeps
<1>11. Plain => LeaveAnswered(n)
  BY <1>9, AskLeaves
<1>12. QInv(arriving', where', fetch', active', rows', dock', {})
  BY <1>3, <1>4, <1>5, <1>6, <1>7, <1>8, <1>10
<1>13. partyEnv \subseteq {"others", "mute"} => LeaveAnswered(arriving')
  BY <1>7, <1>11 DEF Plain
<1>14. Len(arriving') <= MaxArriving
  <2>1. Len(q) \in Nat /\ Len(arriving') \in Nat
    BY <1>2
  <2>2. QED
    BY <1>1, <1>2, <2>1
<1>15. where' \in Situation /\ fetch' \in FetchRecord
  BY <1>1, <1>2
<1>16. QED
  BY <1>1, <1>2, <1>12, <1>13, <1>14, <1>15, PartyAfter

\* Something arrives, and a fetch is made, or not.
LEMMA PartyDelivered ==
  ASSUME PartyInv, NEW i, NEW m, NEW rest, IsRest(rest, arriving, i, m), PartyCalm => i = 1,
         NEW f \in FetchRecord, NEW c \in VoiceChannel, NEW D \in SUBSET {c}, NEW x,
         Fetches(x, f, c, D), fetch' = x.fetch, UNCHANGED where, UNCHANGED partyEnv,
         Serve(x.calls, rest),
         active' \in PartyPlace, rows' \in [VoiceChannel -> Seq(Row)], dock' \in Seq(Row),
         QInv(rest, where, f, active', rows', dock', D)
  PROVE  PartyInv'
<1>1. arriving \in Seq(PartyArriving) /\ Len(arriving) <= MaxArriving /\ LeaveInv
  BY StateTypes DEF PartyInv
<1>2. rest \in Seq(PartyArriving) /\ Len(rest) + 1 = Len(arriving)
  BY <1>1, RestFacts
<1>3. Plain => LeaveAnswered(rest)
  <2>1. ASSUME Plain
        PROVE  LeaveAnswered(rest)
    <3>1. i = 1
      BY <2>1 DEF Plain, PartyCalm
    <3>2. LeaveAnswered(arriving)
      BY <1>1, <2>1 DEF LeaveInv, Plain
    <3>3. QED
      BY <1>1, <3>1, <3>2, LeaveLess
  <2>2. QED
    BY <2>1
<1>4. Len(rest) + 1 <= MaxArriving
  BY <1>1, <1>2
<1>5. QED
  BY <1>2, <1>3, <1>4, Asking

\* Something arrives, and no fetch is made.
LEMMA TakenIn ==
  ASSUME PartyInv, NEW i, NEW m, NEW rest, IsRest(rest, arriving, i, m), PartyCalm => i = 1,
         arriving' = rest, fetch' \in FetchRecord, UNCHANGED <<where, partyEnv, refused>>,
         active' \in PartyPlace, rows' \in [VoiceChannel -> Seq(Row)], dock' \in Seq(Row),
         QInv(rest, where, fetch', active', rows', dock', {})
  PROVE  PartyInv'
<1>1. /\ PartyTypes /\ where \in Situation /\ refused \in 0..MaxRefused /\ MaxArriving \in Nat
      /\ arriving \in Seq(PartyArriving) /\ Len(arriving) <= MaxArriving /\ LeaveInv
  BY StateTypes DEF PartyInv
<1>2. rest \in Seq(PartyArriving) /\ Len(rest) \in Nat /\ Len(rest) + 1 = Len(arriving)
  BY <1>1, RestFacts
<1>3. Plain => LeaveAnswered(rest)
  <2>1. ASSUME Plain
        PROVE  LeaveAnswered(rest)
    <3>1. i = 1
      BY <2>1 DEF Plain, PartyCalm
    <3>2. LeaveAnswered(arriving)
      BY <1>1, <2>1 DEF LeaveInv, Plain
    <3>3. QED
      BY <1>1, <3>1, <3>2, LeaveLess
  <2>2. QED
    BY <2>1
<1>4. arriving' \in Seq(PartyArriving) /\ Len(arriving') <= MaxArriving
  BY <1>1, <1>2
<1>5. partyEnv \subseteq {"others", "mute"} => LeaveAnswered(arriving')
  BY <1>3 DEF Plain
<1>6. QInv(arriving', where', fetch', active', rows', dock', {})
  OBVIOUS
<1>7. where' \in Situation /\ refused' \in 0..MaxRefused /\ UNCHANGED partyEnv
  BY <1>1
<1>8. QED
  BY <1>1, <1>4, <1>5, <1>6, <1>7, PartyAfter

-----------------------------------------------------------------------------
\* A message that answers no fetch leaves the fetches.
LEMMA FreesNone ==
  ASSUME NEW q, NEW f, NEW act, QueueInv(q, f, act), NEW m, m.kind \notin {"rows", "limit", "fail"}
  PROVE  Frees(f, f, m)
BY DEF QueueInv, Frees, IsAnswer

\* The scenarios where the lists have the user right.
Own == partyEnv \subseteq {"others", "mute", "late", "limit", "same"}

\* The lists that have the user right still do, or will, but for those of D.
StaysOwn(q, rest, f, g, r, r2, p, D) ==
    \A e \in VoiceChannel \ D : OnItsWay(q, f, r[e], p, e) => OnItsWay(rest, g, r2[e], p, e)

\* The user's rows when a message has arrived.
LEMMA OwnLess ==
  ASSUME NEW q \in Seq(PartyArriving), NEW i, NEW m, NEW rest, IsRest(rest, q, i, m),
         NEW s, NEW f, NEW r, OwnInv(q, s, f, r, {}), NEW g, NEW r2, NEW D,
         SelfEvent(m) => \A j \in 1..(i - 1) : ~SelfEvent(q[j]),
         Own => StaysOwn(q, rest, f, g, r, r2, s[Self], D)
  PROVE  OwnInv(rest, s, g, r2, D)
<1>1. SUFFICES ASSUME Own
               PROVE  /\ \A e \in VoiceChannel \ D : OnItsWay(rest, g, r2[e], s[Self], e)
                      /\ MovedOn(rest, s[Self])
  BY DEF OwnInv, Own
<1>2. /\ \A e \in VoiceChannel : OnItsWay(q, f, r[e], s[Self], e)
      /\ MovedOn(q, s[Self])
  BY <1>1 DEF OwnInv, Own
<1>3. \A e \in VoiceChannel \ D : OnItsWay(rest, g, r2[e], s[Self], e)
  BY <1>1, <1>2 DEF StaysOwn
<1>4. PICK p : p = s[Self]
  OBVIOUS
<1>5. MovedOn(rest, p)
  BY <1>2, <1>4, MovedOnLess
<1>6. QED
  BY <1>3, <1>4, <1>5

\* Lists that are not of the message stay.
LEMMA SameStays ==
  ASSUME NEW q \in Seq(PartyArriving), NEW i, NEW m, NEW rest, IsRest(rest, q, i, m),
         NEW f, NEW r, NEW r2, NEW p, NEW D,
         \A e \in VoiceChannel \ D :
            r2[e] = r[e] /\ (m.channel # e \/ (m.kind \notin {"rows", "limit"} /\ ~SelfEvent(m)))
  PROVE  StaysOwn(q, rest, f, f, r, r2, p, D)
<1>1. ASSUME NEW e \in VoiceChannel \ D, OnItsWay(q, f, r[e], p, e)
      PROVE  OnItsWay(rest, f, r2[e], p, e)
  <2>1. PICK list : list = r[e]
    OBVIOUS
  <2>2. r2[e] = list /\ (m.channel # e \/ (m.kind \notin {"rows", "limit"} /\ ~SelfEvent(m)))
    BY <2>1
  <2>3. OnItsWay(q, f, list, p, e)
    BY <1>1, <2>1
  <2>4. OnItsWay(rest, f, list, p, e)
    BY <2>2, <2>3, OnItsWayLess
  <2>5. QED
    BY <2>2, <2>4
<1>2. QED
  BY <1>1 DEF StaysOwn

-----------------------------------------------------------------------------
(* What comes back.                                                        *)

\* A message that is no list and no event changes no situation.
LEMMA NoChange ==
  ASSUME NEW m, m.kind \notin StateEvents, NEW r
  PROVE  StepRight(m, r, r) /\ \A x, t : Leads(x, m, t) => t = x
BY DEF StepRight, Leads

\* The answer of joinVoice.
LEMMA JoinedKeeps ==
  ASSUME PartyInv, NEW i, Joined(i)
  PROVE  PartyInv'
<1>1. PICK m : m = arriving[i]
  OBVIOUS
<1>2. PICK rest : rest = RemoveAt(arriving, i)
  OBVIOUS
<1>3. IsRest(rest, arriving, i, m) /\ m.kind = "joined" /\ (PartyCalm => i = 1)
  BY <1>1, <1>2, ArrivesFacts DEF Joined
<1>4. /\ arriving \in Seq(PartyArriving) /\ fetch \in FetchRecord /\ rows \in [VoiceChannel -> Seq(Row)]
      /\ dock \in Seq(Row) /\ where \in Situation /\ active \in PartyPlace
  BY StateTypes DEF PartyInv
<1>5. m \in PartyArriving /\ i \in 1..Len(arriving)
  BY <1>3, <1>4, RestFacts
<1>6. PICK c \in VoiceChannel : c = m.channel
  BY <1>5, PartyArrivingFields
<1>7. PICK x : x = FetchParticipants(fetch, c, TRUE)
  OBVIOUS
<1>8. /\ active' = c /\ fetch' = x.fetch /\ UNCHANGED where /\ Serve(x.calls, rest)
      /\ UNCHANGED <<partyEnv, rows, dock>>
  BY <1>1, <1>2, <1>6, <1>7 DEF Joined
<1>9. Fetches(x, fetch, c, {})
  <2>1. TRUE \in BOOLEAN
    OBVIOUS
  <2>2. QED
    BY <1>4, <1>7, <2>1, FetchFacts
<1>10. m.kind \notin StateEvents /\ IsOwnAnswer(m) /\ ~SelfEvent(m)
  BY <1>3 DEF StateEvents, IsOwnAnswer, SelfEvent
<1>11. QueueInv(arriving, fetch, active) /\ OwnInv(arriving, where, fetch, rows, {})
       /\ HistoryInv(arriving, where, active, rows, dock)
  BY DEF PartyInv, QInv
<1>12. QueueInv(rest, fetch, c)
  <2>1. Frees(fetch, fetch, m)
    BY <1>3, <1>11, FreesNone
  <2>2. QED
    BY <1>3, <1>4, <1>10, <1>11, <2>1, QueueLess
<1>13. OwnInv(rest, where, fetch, rows, {})
  <2>1. PICK p : p = where[Self]
    OBVIOUS
  <2>2. StaysOwn(arriving, rest, fetch, fetch, rows, rows, p, {})
    BY <1>3, <1>4, <1>10, SameStays
  <2>3. QED
    BY <1>3, <1>4, <1>10, <1>11, <2>1, <2>2, OwnLess
<1>14. active = NoVoiceChannel /\ ~\E j \in 1..Len(arriving) : arriving[j].kind = "left"
  <2>1. OneOwnAnswer(arriving) /\ JoinsFromNowhere(arriving, active)
    BY <1>11 DEF QueueInv
  <2>2. active = NoVoiceChannel
    BY <1>1, <1>3, <1>5, <2>1 DEF JoinsFromNowhere
  <2>3. ASSUME NEW j \in 1..Len(arriving), arriving[j].kind = "left"
        PROVE  FALSE
    <3>1. IsOwnAnswer(arriving[j]) /\ IsOwnAnswer(arriving[i])
      BY <1>1, <1>10, <2>3 DEF IsOwnAnswer
    <3>2. j = i
      BY <1>5, <2>1, <3>1 DEF OneOwnAnswer
    <3>3. QED
      BY <1>1, <1>3, <2>3, <3>2
  <2>4. QED
    BY <2>2, <2>3
<1>15. HistoryInv(rest, where, c, rows, dock)
  <2>1. StepRight(m, rows, rows)
    BY <1>10, NoChange
  <2>2. StepDock(arriving, rest, m, active, c, rows, dock, dock)
    <3>1. ASSUME NEW y \in Situation, DockRight(arriving, active, dock, y)
          PROVE  dock = <<>>
      BY <1>14, <3>1 DEF DockRight
    <3>2. ASSUME NEW t \in Situation, dock = <<>>
          PROVE  DockRight(rest, c, dock, t)
      BY <3>2 DEF DockRight
    <3>3. QED
      BY <3>1, <3>2 DEF StepDock
  <2>3. QED
    BY <1>3, <1>4, <1>11, <2>1, <2>2, HistoryLess
<1>16. QInv(rest, where, fetch, active', rows', dock', {})
  BY <1>8, <1>12, <1>13, <1>15 DEF QInv
<1>17. active' \in PartyPlace /\ rows' \in [VoiceChannel -> Seq(Row)] /\ dock' \in Seq(Row)
       /\ UNCHANGED partyEnv
  BY <1>4, <1>6, <1>8 DEF PartyPlace
<1>18. QED
  BY <1>3, <1>4, <1>8, <1>9, <1>16, <1>17, PartyDelivered

\* The answer of leaveVoice.
LEMMA LeftKeeps ==
  ASSUME PartyInv, NEW i, Left(i)
  PROVE  PartyInv'
<1>1. PICK m : m = arriving[i]
  OBVIOUS
<1>2. PICK rest : rest = RemoveAt(arriving, i)
  OBVIOUS
<1>3. IsRest(rest, arriving, i, m) /\ m.kind = "left" /\ (PartyCalm => i = 1)
  BY <1>1, <1>2, ArrivesFacts DEF Left
<1>4. /\ arriving \in Seq(PartyArriving) /\ fetch \in FetchRecord /\ rows \in [VoiceChannel -> Seq(Row)]
      /\ dock \in Seq(Row) /\ where \in Situation /\ active \in PartyPlace
  BY StateTypes DEF PartyInv
<1>5. m \in PartyArriving /\ i \in 1..Len(arriving)
  BY <1>3, <1>4, RestFacts
<1>6. PICK c \in VoiceChannel : c = m.channel
  BY <1>5, PartyArrivingFields
<1>7. PICK x : x = RefreshParticipants(fetch, c, TRUE, NoVoiceChannel)
  OBVIOUS
<1>8. /\ active' = NoVoiceChannel /\ dock' = <<>> /\ rows' = [rows EXCEPT ![c] = Without(@, Self)]
      /\ fetch' = x.fetch /\ UNCHANGED where /\ Serve(x.calls, rest)
      /\ UNCHANGED partyEnv
  BY <1>1, <1>2, <1>6, <1>7 DEF Left
<1>9. Fetches(x, fetch, c, {c})
  <2>1. TRUE \in BOOLEAN /\ {c} \in SUBSET {c}
    OBVIOUS
  <2>2. QED
    BY <1>4, <1>7, <2>1, RefreshFacts
<1>10. m.kind \notin StateEvents /\ IsOwnAnswer(m) /\ ~SelfEvent(m)
  BY <1>3 DEF StateEvents, IsOwnAnswer, SelfEvent
<1>11. QueueInv(arriving, fetch, active) /\ OwnInv(arriving, where, fetch, rows, {})
       /\ HistoryInv(arriving, where, active, rows, dock)
  BY DEF PartyInv, QInv
<1>12. QueueInv(rest, fetch, NoVoiceChannel)
  <2>1. Frees(fetch, fetch, m)
    BY <1>3, <1>11, FreesNone
  <2>2. QED
    BY <1>3, <1>4, <1>10, <1>11, <2>1, QueueLess
<1>20. PICK n : n = Without(rows[c], Self)
  OBVIOUS
<1>21. n \in Seq(Row) /\ Keeps(n, rows[c], Self)
  <2>1. PICK list \in Seq(Row) : list = rows[c]
    BY <1>4
  <2>2. QED
    BY <1>20, <2>1, WithoutFacts
<1>22. rows' \in [VoiceChannel -> Seq(Row)] /\ rows'[c] = n
       /\ \A e \in VoiceChannel \ {c} : rows'[e] = rows[e]
  BY <1>4, <1>8, <1>20, <1>21
<1>23. PICK r2 : r2 = rows'
  OBVIOUS
<1>13. OwnInv(rest, where, fetch, r2, {c})
  <2>1. PICK p : p = where[Self]
    OBVIOUS
  <2>2. StaysOwn(arriving, rest, fetch, fetch, rows, r2, p, {c})
    <3>1. \A e \in VoiceChannel \ {c} :
            r2[e] = rows[e] /\ (m.channel # e \/ (m.kind \notin {"rows", "limit"} /\ ~SelfEvent(m)))
      BY <1>6, <1>22, <1>23
    <3>2. QED
      BY <1>3, <1>4, <3>1, SameStays
  <2>3. QED
    BY <1>3, <1>4, <1>10, <1>11, <2>1, <2>2, OwnLess
<1>15. HistoryInv(rest, where, NoVoiceChannel, r2, <<>>)
  <2>1. StepRight(m, rows, r2)
    <3>1. ASSUME NEW y \in Situation, NEW t \in Situation, Leads(y, m, t), AllRight(rows, y),
                 NEW e \in VoiceChannel
          PROVE  Right(r2[e], e, t)
      <4>1. t = y /\ y[Self].channel # c
        BY <1>3, <1>6, <1>10, <3>1 DEF Leads
      <4>2. Right(rows[e], e, t)
        BY <3>1, <4>1 DEF AllRight
      <4>3. CASE e = c
        <5>1. PICK list \in Seq(Row) : list = rows[c]
          BY <1>4
        <5>2. Right(list, c, t) /\ Keeps(n, list, Self)
          BY <1>21, <4>2, <4>3, <5>1
        <5>3. \A k \in 1..Len(list) : list[k].user # Self
          BY <4>1, <5>2 DEF Right
        <5>4. Right(n, c, t)
          BY <1>21, <5>2, <5>3, KeepsRight
        <5>5. QED
          BY <1>22, <1>23, <4>3, <5>4
      <4>4. CASE e # c
        BY <1>22, <1>23, <4>2, <4>4
      <4>5. QED
        BY <4>3, <4>4
    <3>2. QED
      BY <3>1 DEF StepRight, AllRight
  <2>2. StepDock(arriving, rest, m, active, NoVoiceChannel, r2, dock, <<>>)
    BY DEF StepDock, DockRight
  <2>3. QED
    BY <1>3, <1>4, <1>11, <2>1, <2>2, HistoryLess
<1>16. QInv(rest, where, fetch, active', rows', dock', {c})
  BY <1>8, <1>12, <1>13, <1>15, <1>23 DEF QInv
<1>17. active' \in PartyPlace /\ dock' \in Seq(Row) /\ UNCHANGED partyEnv /\ {c} \in SUBSET {c}
  BY <1>8 DEF PartyPlace
<1>18. QED
  BY <1>3, <1>4, <1>8, <1>9, <1>16, <1>17, <1>22, PartyDelivered

\* A list of loadChannels arrives.
LEMMA PreviewListedKeeps ==
  ASSUME PartyInv, NEW i, PreviewListed(i)
  PROVE  PartyInv'
<1>1. PICK m : m = arriving[i]
  OBVIOUS
<1>2. PICK rest : rest = RemoveAt(arriving, i)
  OBVIOUS
<1>3. IsRest(rest, arriving, i, m) /\ m.kind = "preview" /\ (PartyCalm => i = 1)
  BY <1>1, <1>2, ArrivesFacts DEF PreviewListed
<1>4. /\ arriving \in Seq(PartyArriving) /\ fetch \in FetchRecord /\ rows \in [VoiceChannel -> Seq(Row)]
      /\ dock \in Seq(Row) /\ where \in Situation /\ active \in PartyPlace
  BY StateTypes DEF PartyInv
<1>5. m \in PartyArriving /\ i \in 1..Len(arriving)
  BY <1>3, <1>4, RestFacts
<1>6. PICK c \in VoiceChannel : c = m.channel
  BY <1>5, PartyArrivingFields
<1>7. m.list \in Seq(Row)
  BY <1>3, <1>5, PartyArrivingFields
<1>8. /\ rows' = [rows EXCEPT ![c] = m.list] /\ arriving' = rest
      /\ UNCHANGED <<partyEnv, where, active, dock, fetch, refused>>
  BY <1>1, <1>2, <1>6 DEF PreviewListed
<1>9. rows' \in [VoiceChannel -> Seq(Row)] /\ rows'[c] = m.list
      /\ \A e \in VoiceChannel \ {c} : rows'[e] = rows[e]
  BY <1>4, <1>7, <1>8
<1>10. m.kind \notin StateEvents
  BY <1>3 DEF StateEvents
<1>11. QueueInv(arriving, fetch, active) /\ OfScenario(arriving)
       /\ HistoryInv(arriving, where, active, rows, dock)
  BY DEF PartyInv, QInv, QueueInv
<1>12. "preview" \in partyEnv
  BY <1>1, <1>3, <1>5, <1>11 DEF OfScenario
<1>13. QueueInv(rest, fetch, active)
  <2>1. Frees(fetch, fetch, m)
    BY <1>3, <1>11, FreesNone
  <2>2. QED
    BY <1>3, <1>4, <1>11, <2>1, QueueLess
<1>14. PICK r2 : r2 = rows'
  OBVIOUS
<1>15. OwnInv(rest, where, fetch, r2, {})
  BY <1>12 DEF OwnInv
<1>16. HistoryInv(rest, where, active, r2, dock)
  <2>1. StepRight(m, rows, r2)
    <3>1. ASSUME NEW y \in Situation, NEW t \in Situation, Leads(y, m, t), AllRight(rows, y),
                 NEW e \in VoiceChannel
          PROVE  Right(r2[e], e, t)
      <4>1. t = y /\ Right(m.list, c, y)
        BY <1>3, <1>6, <1>10, <3>1 DEF Leads
      <4>2. Right(rows[e], e, t)
        BY <3>1, <4>1 DEF AllRight
      <4>3. QED
        BY <1>9, <1>14, <4>1, <4>2
    <3>2. QED
      BY <3>1 DEF StepRight, AllRight
  <2>2. ~Plain
    BY <1>12 DEF Plain
  <2>3. QED
    BY <1>3, <1>4, <1>11, <2>1, <2>2, HistoryLess
<1>17. QInv(rest, where, fetch', active', rows', dock', {})
  BY <1>8, <1>13, <1>14, <1>15, <1>16 DEF QInv
<1>18. active' \in PartyPlace /\ dock' \in Seq(Row) /\ fetch' \in FetchRecord
       /\ UNCHANGED <<where, partyEnv, refused>>
  BY <1>4, <1>8
<1>19. QED
  BY <1>3, <1>8, <1>9, <1>17, <1>18, TakenIn

\* The fetch of c is over.
Freed(g, f, c) ==
    /\ g \in FetchRecord /\ g.inFlight = f.inFlight \ {c} /\ g.pending = f.pending \ {c}
    /\ g.retry = f.retry

\* c, if a fetch of it was put off.
Wanted(f, c) == IF c \in f.pending THEN {c} ELSE {}

\* A fetch that was put off has its turn.
LEMMA AnsweredFacts ==
  ASSUME NEW f \in FetchRecord, NEW c \in VoiceChannel, NEW act, NEW x, x = Answered(f, c, act)
  PROVE  \E g : Freed(g, f, c) /\ Fetches(x, g, c, Wanted(f, c))
<1>1. PICK g : g = [f EXCEPT !.inFlight = @ \ {c}, !.pending = @ \ {c}]
  OBVIOUS
<1>2. Freed(g, f, c)
  BY <1>1 DEF Freed, FetchRecord
<1>3. g \in FetchRecord
  BY <1>2 DEF Freed
<1>4. CASE c \in f.pending
  <2>1. x = RefreshParticipants(g, c, TRUE, act)
    BY <1>1, <1>4 DEF Answered
  <2>2. TRUE \in BOOLEAN /\ {c} \in SUBSET {c} /\ Wanted(f, c) = {c}
    BY <1>4 DEF Wanted
  <2>3. Fetches(x, g, c, {c})
    BY <1>3, <2>1, <2>2, RefreshFacts
  <2>4. QED
    BY <1>2, <2>2, <2>3
<1>5. CASE c \notin f.pending
  <2>1. x = [fetch |-> g, calls |-> <<>>]
    BY <1>1, <1>5 DEF Answered, NoFetch
  <2>2. Wanted(f, c) = {}
    BY <1>5 DEF Wanted
  <2>3. PartyQuiet(g, g, c, {})
    BY DEF PartyQuiet
  <2>4. Fetches(x, g, c, {})
    BY <1>3, <2>1, <2>3, NoFetchFacts
  <2>5. QED
    BY <1>2, <2>2, <2>4
<1>6. QED
  BY <1>4, <1>5

\* Its answer has arrived.
LEMMA FreedFrees ==
  ASSUME NEW q, NEW f, NEW act, QueueInv(q, f, act), NEW m, NEW c \in VoiceChannel, IsAnswer(m, c),
         NEW g, Freed(g, f, c)
  PROVE  Frees(g, f, m)
<1>1. f.pending \subseteq f.inFlight
  BY DEF QueueInv
<1>2. \A e : IsAnswer(m, e) <=> e = c
  BY DEF IsAnswer
<1>3. g.pending \subseteq g.inFlight
  BY <1>1 DEF Freed
<1>4. \A e \in VoiceChannel : e \in g.inFlight <=> (e \in f.inFlight /\ ~IsAnswer(m, e))
  BY <1>2 DEF Freed
<1>5. QED
  BY <1>3, <1>4 DEF Frees

\* A list arrives.
LEMMA ListedKeeps ==
  ASSUME PartyInv, NEW i, ParticipantsListed(i)
  PROVE  PartyInv'
<1>1. PICK m : m = arriving[i]
  OBVIOUS
<1>2. PICK rest : rest = RemoveAt(arriving, i)
  OBVIOUS
<1>3. IsRest(rest, arriving, i, m) /\ m.kind = "rows" /\ (PartyCalm => i = 1)
  BY <1>1, <1>2, ArrivesFacts DEF ParticipantsListed
<1>4. /\ arriving \in Seq(PartyArriving) /\ fetch \in FetchRecord /\ rows \in [VoiceChannel -> Seq(Row)]
      /\ dock \in Seq(Row) /\ where \in Situation /\ active \in PartyPlace
  BY StateTypes DEF PartyInv
<1>5. m \in PartyArriving /\ i \in 1..Len(arriving)
  BY <1>3, <1>4, RestFacts
<1>6. PICK c \in VoiceChannel : c = m.channel
  BY <1>5, PartyArrivingFields
<1>7. m.list \in Seq(Row)
  BY <1>3, <1>5, PartyArrivingFields
<1>8. PICK x : x = Answered(fetch, c, active)
  OBVIOUS
<1>9. /\ rows' = [rows EXCEPT ![c] = m.list]
      /\ dock' = IF m.sync /\ c = active THEN m.list ELSE dock
      /\ fetch' = x.fetch /\ UNCHANGED where /\ Serve(x.calls, rest)
      /\ UNCHANGED <<partyEnv, active>>
  BY <1>1, <1>2, <1>6, <1>8 DEF ParticipantsListed
<1>10. rows' \in [VoiceChannel -> Seq(Row)] /\ rows'[c] = m.list
       /\ \A e \in VoiceChannel \ {c} : rows'[e] = rows[e]
  BY <1>4, <1>7, <1>9
<1>11. PICK g : Freed(g, fetch, c) /\ Fetches(x, g, c, Wanted(fetch, c))
  BY <1>4, <1>8, AnsweredFacts
<1>12. m.kind \notin StateEvents /\ ~SelfEvent(m) /\ IsAnswer(m, c)
  BY <1>3, <1>6 DEF StateEvents, SelfEvent, IsAnswer
<1>13. QueueInv(arriving, fetch, active) /\ OwnInv(arriving, where, fetch, rows, {})
       /\ HistoryInv(arriving, where, active, rows, dock)
  BY DEF PartyInv, QInv
<1>14. QueueInv(rest, g, active)
  <2>1. Frees(g, fetch, m)
    BY <1>11, <1>12, <1>13, FreedFrees
  <2>2. QED
    BY <1>3, <1>4, <1>13, <2>1, QueueLess
<1>15. PICK r2 : r2 = rows'
  OBVIOUS
<1>16. PICK d2 : d2 = dock'
  OBVIOUS
<1>17. OwnInv(rest, where, g, r2, Wanted(fetch, c))
  <2>1. PICK p : p = where[Self]
    OBVIOUS
  <2>2. ASSUME NEW e \in VoiceChannel, e # c, OnItsWay(arriving, fetch, rows[e], p, e)
        PROVE  OnItsWay(rest, g, r2[e], p, e)
    <3>1. PICK list : list = rows[e]
      OBVIOUS
    <3>2. r2[e] = list /\ m.channel # e /\ OnItsWay(arriving, fetch, list, p, e)
      BY <1>6, <1>10, <1>15, <2>2, <3>1
    <3>3. (e \in fetch.pending => e \in g.pending) /\ (fetch.retry[e] > 0 => g.retry[e] > 0)
          /\ (e \notin fetch.inFlight => e \notin g.inFlight)
      BY <1>11, <2>2 DEF Freed
    <3>4. OnItsWay(rest, g, list, p, e)
      BY <1>3, <1>4, <3>2, <3>3, OnItsWayLess
    <3>5. QED
      BY <3>2, <3>4
  <2>3. ASSUME c \notin fetch.pending, OnItsWay(arriving, fetch, rows[c], p, c)
        PROVE  OnItsWay(rest, g, r2[c], p, c)
    <3>1. i \in PartyAnswers(arriving, c)
      BY <1>1, <1>5, <1>12 DEF PartyAnswers
    <3>2. c \in fetch.inFlight /\ \A j \in PartyAnswers(arriving, c) : j = i
      BY <1>13, <3>1 DEF QueueInv, OneAnswer
    <3>3. r2[c] = m.list /\ c \notin g.inFlight /\ g.retry = fetch.retry
      BY <1>10, <1>11, <1>15 DEF Freed
    <3>4. CASE \E j \in 1..Len(arriving) : SelfEvent(arriving[j]) /\ arriving[j].channel = c
      <4>1. PICK j \in 1..Len(arriving) : SelfEvent(arriving[j]) /\ arriving[j].channel = c
        BY <3>4
      <4>2. j # i
        BY <1>1, <1>12, <4>1
      <4>3. PICK k \in 1..Len(rest) : rest[k] = arriving[j]
        BY <1>3, <1>4, <4>2, RestFacts
      <4>4. SelfEvent(rest[k]) /\ rest[k].channel = c
        BY <4>1, <4>3
      <4>5. QED
        BY <4>4 DEF OnItsWay
    <3>5. CASE fetch.retry[c] > 0
      BY <3>3, <3>5 DEF OnItsWay
    <3>6. CASE \E j \in 1..Len(arriving) : arriving[j].kind = "limit" /\ arriving[j].channel = c
      <4>1. PICK j \in 1..Len(arriving) : arriving[j].kind = "limit" /\ arriving[j].channel = c
        BY <3>6
      <4>2. j \in PartyAnswers(arriving, c)
        BY <4>1 DEF PartyAnswers, IsAnswer
      <4>3. j = i
        BY <3>2, <4>2
      <4>4. QED
        BY <1>1, <1>3, <4>1, <4>3
    <3>7. CASE \E j \in 1..Len(arriving) :
                  arriving[j].kind = "rows" /\ arriving[j].channel = c /\ OwnRow(arriving[j].list, p, c)
      <4>1. PICK j \in 1..Len(arriving) :
                  arriving[j].kind = "rows" /\ arriving[j].channel = c /\ OwnRow(arriving[j].list, p, c)
        BY <3>7
      <4>2. j \in PartyAnswers(arriving, c)
        BY <4>1 DEF PartyAnswers, IsAnswer
      <4>3. j = i
        BY <3>2, <4>2
      <4>4. OwnRow(m.list, p, c)
        BY <1>1, <4>1, <4>3
      <4>5. QED
        BY <3>3, <4>4 DEF OnItsWay
    <3>8. QED
      BY <2>3, <3>2, <3>4, <3>5, <3>6, <3>7 DEF OnItsWay
  <2>4. StaysOwn(arriving, rest, fetch, g, rows, r2, p, Wanted(fetch, c))
    <3>1. \A e \in VoiceChannel \ Wanted(fetch, c) : e # c \/ c \notin fetch.pending
      BY DEF Wanted
    <3>2. QED
      BY <2>2, <2>3, <3>1 DEF StaysOwn
  <2>5. QED
    BY <1>3, <1>4, <1>12, <1>13, <2>1, <2>4, OwnLess
<1>18. HistoryInv(rest, where, active, r2, d2)
  <2>1. ASSUME NEW y \in Situation, NEW t \in Situation, Leads(y, m, t)
        PROVE  t = y /\ Right(m.list, c, y)
    BY <1>3, <1>6, <1>12, <2>1 DEF Leads
  <2>2. StepRight(m, rows, r2)
    <3>1. ASSUME NEW y \in Situation, NEW t \in Situation, Leads(y, m, t), AllRight(rows, y),
                 NEW e \in VoiceChannel
          PROVE  Right(r2[e], e, t)
      <4>1. t = y /\ Right(m.list, c, y)
        BY <2>1, <3>1
      <4>2. Right(rows[e], e, t)
        BY <3>1, <4>1 DEF AllRight
      <4>3. QED
        BY <1>10, <1>15, <4>1, <4>2
    <3>2. QED
      BY <3>1 DEF StepRight, AllRight
  <2>3. StepDock(arriving, rest, m, active, active, r2, dock, d2)
    <3>1. ASSUME NEW y \in Situation, NEW t \in Situation, Leads(y, m, t), DockRight(arriving, active, dock, y)
          PROVE  DockRight(rest, active, d2, t)
      <4>1. t = y /\ Right(m.list, c, y)
        BY <2>1, <3>1
      <4>2. CASE c = active /\ d2 = m.list
        <5>1. active # NoVoiceChannel
          BY <4>2, PartyAssumption DEF PartyAssumption
        <5>2. QED
          BY <4>1, <4>2, <5>1 DEF DockRight
      <4>3. CASE d2 = dock
        <5>1. m.kind # "left"
          BY <1>3
        <5>2. (\E j \in 1..Len(arriving) : arriving[j].kind = "left") =>
                 \E k \in 1..Len(rest) : rest[k].kind = "left"
          BY <1>3, <1>4, <5>1, LeftLess
        <5>3. QED
          BY <3>1, <4>1, <4>3, <5>2 DEF DockRight
      <4>4. (c = active /\ d2 = m.list) \/ d2 = dock
        BY <1>9, <1>16
      <4>5. QED
        BY <4>2, <4>3, <4>4
    <3>2. QED
      BY <3>1 DEF StepDock
  <2>4. QED
    BY <1>3, <1>4, <1>13, <2>2, <2>3, HistoryLess
<1>19. QInv(rest, where, g, active', rows', dock', Wanted(fetch, c))
  BY <1>9, <1>14, <1>15, <1>16, <1>17, <1>18 DEF QInv
<1>20. active' \in PartyPlace /\ UNCHANGED partyEnv /\ Wanted(fetch, c) \in SUBSET {c} /\ g \in FetchRecord
       /\ dock' \in Seq(Row)
  BY <1>4, <1>7, <1>9, <1>11 DEF Wanted, Freed
<1>21. QED
  BY <1>3, <1>9, <1>10, <1>11, <1>19, <1>20, PartyDelivered

\* A fetch has failed.
LEMMA FailedKeeps ==
  ASSUME PartyInv, NEW i, ParticipantsFailed(i)
  PROVE  PartyInv'
<1>1. PICK m : m = arriving[i]
  OBVIOUS
<1>2. PICK rest : rest = RemoveAt(arriving, i)
  OBVIOUS
<1>3. IsRest(rest, arriving, i, m) /\ m.kind = "fail" /\ (PartyCalm => i = 1)
  BY <1>1, <1>2, ArrivesFacts DEF ParticipantsFailed
<1>4. /\ arriving \in Seq(PartyArriving) /\ fetch \in FetchRecord /\ rows \in [VoiceChannel -> Seq(Row)]
      /\ dock \in Seq(Row) /\ where \in Situation /\ active \in PartyPlace
  BY StateTypes DEF PartyInv
<1>5. m \in PartyArriving /\ i \in 1..Len(arriving)
  BY <1>3, <1>4, RestFacts
<1>6. PICK c \in VoiceChannel : c = m.channel
  BY <1>5, PartyArrivingFields
<1>7. PICK x : x = Answered(fetch, c, active)
  OBVIOUS
<1>8. /\ fetch' = x.fetch /\ UNCHANGED where /\ Serve(x.calls, rest)
      /\ UNCHANGED <<partyEnv, active, rows, dock>>
  BY <1>1, <1>2, <1>6, <1>7 DEF ParticipantsFailed
<1>9. PICK g : Freed(g, fetch, c) /\ Fetches(x, g, c, Wanted(fetch, c))
  BY <1>4, <1>7, AnsweredFacts
<1>10. QueueInv(arriving, fetch, active) /\ OfScenario(arriving) /\ IsAnswer(m, c)
  BY <1>3, <1>6 DEF PartyInv, QInv, QueueInv, IsAnswer
<1>11. "fail" \in partyEnv
  BY <1>1, <1>3, <1>5, <1>10 DEF OfScenario
<1>12. QueueInv(rest, g, active)
  <2>1. Frees(g, fetch, m)
    BY <1>9, <1>10, FreedFrees
  <2>2. QED
    BY <1>3, <1>4, <1>10, <2>1, QueueLess
<1>13. OwnInv(rest, where, g, rows, Wanted(fetch, c)) /\ HistoryInv(rest, where, active, rows, dock)
  BY <1>11 DEF OwnInv, HistoryInv
<1>14. QInv(rest, where, g, active', rows', dock', Wanted(fetch, c))
  BY <1>8, <1>12, <1>13 DEF QInv
<1>15. active' \in PartyPlace /\ UNCHANGED partyEnv /\ Wanted(fetch, c) \in SUBSET {c} /\ g \in FetchRecord
       /\ dock' \in Seq(Row) /\ rows' \in [VoiceChannel -> Seq(Row)]
  BY <1>4, <1>8, <1>9 DEF Wanted, Freed
<1>16. QED
  BY <1>3, <1>8, <1>9, <1>14, <1>15, PartyDelivered

\* A fetch was refused: another one later.
LEMMA RefusedKeeps ==
  ASSUME PartyInv, NEW i, ParticipantsRefused(i)
  PROVE  PartyInv'
<1>1. PICK m : m = arriving[i]
  OBVIOUS
<1>2. PICK rest : rest = RemoveAt(arriving, i)
  OBVIOUS
<1>3. IsRest(rest, arriving, i, m) /\ m.kind = "limit" /\ (PartyCalm => i = 1)
  BY <1>1, <1>2, ArrivesFacts DEF ParticipantsRefused
<1>4. /\ arriving \in Seq(PartyArriving) /\ fetch \in FetchRecord /\ rows \in [VoiceChannel -> Seq(Row)]
      /\ dock \in Seq(Row) /\ where \in Situation /\ active \in PartyPlace
  BY StateTypes DEF PartyInv
<1>5. m \in PartyArriving /\ i \in 1..Len(arriving)
  BY <1>3, <1>4, RestFacts
<1>6. PICK c \in VoiceChannel : c = m.channel
  BY <1>5, PartyArrivingFields
<1>7. PICK g : g = [fetch EXCEPT !.inFlight = @ \ {c}, !.pending = @ \ {c}, !.retry[c] = @ + 1]
  OBVIOUS
<1>8. /\ fetch' = g /\ arriving' = rest /\ UNCHANGED <<partyEnv, where, active, rows, dock, refused>>
  BY <1>1, <1>2, <1>6, <1>7 DEF ParticipantsRefused
<1>9. /\ g \in FetchRecord /\ g.inFlight = fetch.inFlight \ {c} /\ g.pending = fetch.pending \ {c}
      /\ g.retry[c] > 0 /\ \A e \in VoiceChannel \ {c} : g.retry[e] = fetch.retry[e]
  <2>1. PICK v \in [VoiceChannel -> Nat] : v = fetch.retry
    BY <1>4 DEF FetchRecord
  <2>2. PICK w : w = [v EXCEPT ![c] = @ + 1]
    OBVIOUS
  <2>3. w \in [VoiceChannel -> Nat] /\ w[c] > 0 /\ \A e \in VoiceChannel \ {c} : w[e] = v[e]
    BY <2>2
  <2>4. g = [fetch EXCEPT !.inFlight = @ \ {c}, !.pending = @ \ {c}, !.retry = w]
    BY <1>4, <1>7, <2>1, <2>2 DEF FetchRecord
  <2>5. /\ g \in FetchRecord /\ g.inFlight = fetch.inFlight \ {c} /\ g.pending = fetch.pending \ {c}
        /\ g.retry = w
    BY <1>4, <2>3, <2>4 DEF FetchRecord
  <2>6. QED
    BY <2>1, <2>3, <2>5
<1>10. m.kind \notin StateEvents /\ ~SelfEvent(m) /\ IsAnswer(m, c)
  BY <1>3, <1>6 DEF StateEvents, SelfEvent, IsAnswer
<1>11. QueueInv(arriving, fetch, active) /\ OwnInv(arriving, where, fetch, rows, {})
       /\ HistoryInv(arriving, where, active, rows, dock)
  BY DEF PartyInv, QInv
<1>12. QueueInv(rest, g, active)
  <2>1. Frees(g, fetch, m)
    <3>1. \A e : IsAnswer(m, e) <=> e = c
      BY <1>10 DEF IsAnswer
    <3>2. fetch.pending \subseteq fetch.inFlight
      BY <1>11 DEF QueueInv
    <3>3. QED
      BY <1>9, <3>1, <3>2 DEF Frees
  <2>2. QED
    BY <1>3, <1>4, <1>11, <2>1, QueueLess
<1>13. OwnInv(rest, where, g, rows, {})
  <2>1. PICK p : p = where[Self]
    OBVIOUS
  <2>2. ASSUME NEW e \in VoiceChannel, OnItsWay(arriving, fetch, rows[e], p, e)
        PROVE  OnItsWay(rest, g, rows[e], p, e)
    <3>1. CASE e = c
      BY <1>9, <3>1 DEF OnItsWay
    <3>2. CASE e # c
      <4>1. PICK list : list = rows[e]
        OBVIOUS
      <4>2. (e \in fetch.pending => e \in g.pending) /\ (fetch.retry[e] > 0 => g.retry[e] > 0)
            /\ (e \notin fetch.inFlight => e \notin g.inFlight) /\ m.channel # e
        BY <1>6, <1>9, <3>2
      <4>3. OnItsWay(rest, g, list, p, e)
        BY <1>3, <1>4, <2>2, <4>1, <4>2, OnItsWayLess
      <4>4. QED
        BY <4>1, <4>3
    <3>3. QED
      BY <3>1, <3>2
  <2>3. StaysOwn(arriving, rest, fetch, g, rows, rows, p, {})
    BY <2>2 DEF StaysOwn
  <2>4. QED
    BY <1>3, <1>4, <1>10, <1>11, <2>1, <2>3, OwnLess
<1>14. HistoryInv(rest, where, active, rows, dock)
  <2>1. StepRight(m, rows, rows) /\ \A y, t : Leads(y, m, t) => t = y
    BY <1>10, NoChange
  <2>2. StepDock(arriving, rest, m, active, active, rows, dock, dock)
    <3>1. (\E j \in 1..Len(arriving) : arriving[j].kind = "left") =>
             \E k \in 1..Len(rest) : rest[k].kind = "left"
      <4>1. m.kind # "left"
        BY <1>3
      <4>2. QED
        BY <1>3, <1>4, <4>1, LeftLess
    <3>2. \A y : DockRight(arriving, active, dock, y) => DockRight(rest, active, dock, y)
      BY <3>1 DEF DockRight
    <3>3. QED
      BY <2>1, <3>2 DEF StepDock
  <2>3. QED
    BY <1>3, <1>4, <1>11, <2>1, <2>2, HistoryLess
<1>15. QInv(rest, where, fetch', active', rows', dock', {})
  BY <1>8, <1>12, <1>13, <1>14 DEF QInv
<1>16. active' \in PartyPlace /\ dock' \in Seq(Row) /\ fetch' \in FetchRecord
       /\ rows' \in [VoiceChannel -> Seq(Row)] /\ UNCHANGED <<where, partyEnv, refused>>
  BY <1>4, <1>8, <1>9
<1>17. QED
  BY <1>3, <1>8, <1>15, <1>16, TakenIn

-----------------------------------------------------------------------------
(* voice_state_update.                                                     *)

\* The lists after an event have the user right, or will.
LEMMA EventStaysOwn ==
  ASSUME NEW q \in Seq(PartyArriving), NEW i, NEW m, NEW rest, IsRest(rest, q, i, m), IsEvent(m),
         NEW f, NEW r \in [VoiceChannel -> Seq(Row)], NEW r2, r2 = EventApplied(r, m),
         NEW p, MovedOn(q, p), NEW D, m.user = Self => m.channel \in D
  PROVE  StaysOwn(q, rest, f, f, r, r2, p, D)
<1>1. ASSUME NEW e \in VoiceChannel \ D, OnItsWay(q, f, r[e], p, e)
      PROVE  OnItsWay(rest, f, r2[e], p, e)
  <2>1. PICK list \in Seq(Row) : list = r[e]
    OBVIOUS
  <2>2. PICK new : new = r2[e]
    OBVIOUS
  <2>3. Applied(new, list, m, e) /\ OnItsWay(q, f, list, p, e)
    <3>1. e \in VoiceChannel
      OBVIOUS
    <3>2. Applied(r2[e], r[e], m, e)
      BY <3>1, EventFacts
    <3>3. QED
      BY <1>1, <2>1, <2>2, <3>2
  <2>4. m.kind \notin {"rows", "limit"}
    BY DEF IsEvent, StateEvents
  <2>5. CASE m.user # Self
    <3>1. OwnRow(list, p, e) => OwnRow(new, p, e)
      BY <2>3, <2>5, OthersOwn
    <3>2. ~SelfEvent(m)
      BY <2>5 DEF SelfEvent
    <3>3. OnItsWay(rest, f, new, p, e)
      BY <2>3, <2>4, <3>1, <3>2, OnItsWayLess
    <3>4. QED
      BY <2>2, <3>3
  <2>6. CASE m.user = Self /\ ~(m.kind = "join" /\ p.channel = e)
    <3>1. e # m.channel
      BY <1>1, <2>6
    <3>2. OwnRow(list, p, e) => OwnRow(new, p, e)
      BY <2>3, <2>6, <3>1, ElsewhereOwn
    <3>3. OnItsWay(rest, f, new, p, e)
      BY <2>3, <3>1, <3>2, OnItsWayLess
    <3>4. QED
      BY <2>2, <3>3
  <2>7. CASE m.user = Self /\ m.kind = "join" /\ p.channel = e
    <3>1. m.channel # p.channel /\ p.channel # NoVoiceChannel /\ SelfEvent(m)
      BY <1>1, <2>7, PartyAssumption DEF PartyAssumption, SelfEvent, IsEvent
    <3>2. i \in 1..Len(q) /\ m = q[i] /\ Len(q) \in Nat
      BY DEF IsRest
    <3>3. PICK j \in (i + 1)..Len(q) : SelfEvent(q[j]) /\ q[j].channel = p.channel
      BY <2>7, <3>1, <3>2 DEF MovedOn
    <3>4. j \in 1..Len(q) /\ j # i
      BY <3>2
    <3>5. PICK k \in 1..Len(rest) : rest[k] = q[j]
      BY <3>4, RestFacts
    <3>6. SelfEvent(rest[k]) /\ rest[k].channel = e
      BY <2>7, <3>3, <3>5
    <3>7. QED
      BY <3>6 DEF OnItsWay
  <2>8. QED
    BY <2>5, <2>6, <2>7
<1>2. QED
  BY <1>1 DEF StaysOwn

\* The dock after an event.
LEMMA EventDock ==
  ASSUME NEW q \in Seq(PartyArriving), NEW i, NEW m, NEW rest, IsRest(rest, q, i, m), IsEvent(m),
         NEW f, NEW act \in PartyPlace, QueueInv(q, f, act), LeaveAnswered(q), i = 1,
         NEW r2, NEW d \in Seq(Row), NEW a, NEW d2,
         a = IF m.user = Self /\ m.kind = "leave" THEN NoVoiceChannel ELSE act,
         d2 = IF m.channel = a THEN r2[m.channel] ELSE d
  PROVE  StepDock(q, rest, m, act, a, r2, d, d2)
<1>1. m.channel \in VoiceChannel /\ m.channel # NoVoiceChannel /\ m.kind # "left" /\ m.kind \in StateEvents
      /\ ~IsOwnAnswer(m)
  BY PartyAssumption DEF PartyAssumption, IsEvent, StateEvents, IsOwnAnswer
<1>2. (\E j \in 1..Len(q) : q[j].kind = "left") => \E k \in 1..Len(rest) : rest[k].kind = "left"
  BY <1>1, LeftLess
<1>3. ASSUME NEW x \in Situation, NEW t \in Situation, Leads(x, m, t), AllRight(r2, t),
             DockRight(q, act, d, x)
      PROVE  DockRight(rest, a, d2, t)
  <2>1. CASE a = NoVoiceChannel
    <3>1. d2 = d
      BY <1>1, <2>1
    <3>2. d = <<>> \/ \E j \in 1..Len(q) : q[j].kind = "left"
      <4>1. CASE act = NoVoiceChannel
        BY <1>3, <4>1 DEF DockRight
      <4>2. CASE act # NoVoiceChannel
        <5>1. SelfEvent(m) /\ m.kind = "leave"
          BY <1>1, <2>1, <4>2 DEF SelfEvent
        <5>2. i \in 1..Len(q) /\ m = q[i] /\ Len(q) \in Nat
          BY DEF IsRest
        <5>3. PICK j \in (i + 1)..Len(q) : IsOwnAnswer(q[j])
          BY <5>1, <5>2 DEF LeaveAnswered
        <5>4. j \in 1..Len(q)
          BY <5>2
        <5>5. q[j].kind # "joined"
          BY <4>2, <5>4 DEF QueueInv, JoinsFromNowhere
        <5>6. QED
          BY <5>3, <5>4, <5>5 DEF IsOwnAnswer
      <4>3. QED
        BY <4>1, <4>2
    <3>3. QED
      BY <1>2, <2>1, <3>1, <3>2 DEF DockRight
  <2>2. CASE a # NoVoiceChannel
    <3>1. a = act /\ a \in VoiceChannel
      BY <2>2 DEF PartyPlace
    <3>2. CASE m.channel = a
      <4>1. d2 = r2[a] /\ Right(r2[a], a, t)
        BY <1>3, <3>1, <3>2 DEF AllRight
      <4>2. QED
        BY <2>2, <4>1 DEF DockRight
    <3>3. CASE m.channel # a
      <4>1. d2 = d /\ (d = <<>> \/ Right(d, a, x))
        BY <1>3, <2>2, <3>1, <3>3 DEF DockRight
      <4>2. UserMoves(x, m, t)
        BY <1>1, <1>3 DEF Leads
      <4>3. Right(d, a, x) => Right(d, a, t)
        BY <3>1, <3>3, <4>2, OthersRight
      <4>4. QED
        BY <2>2, <4>1, <4>3 DEF DockRight
    <3>4. QED
      BY <3>2, <3>3
  <2>3. QED
    BY <2>1, <2>2
<1>4. QED
  BY <1>3 DEF StepDock

\* voice_state_update.
LEMMA EventKeeps ==
  ASSUME PartyInv, NEW i, StateEvent(i)
  PROVE  PartyInv'
<1>1. PICK m : m = arriving[i]
  OBVIOUS
<1>2. PICK rest : rest = RemoveAt(arriving, i)
  OBVIOUS
<1>3. /\ IsRest(rest, arriving, i, m) /\ m.kind \in StateEvents /\ (PartyCalm => i = 1)
      /\ \A j \in 1..(i - 1) : arriving[j].kind \notin StateEvents
  <2>1. PICK kind \in StateEvents : Arrives(i, kind)
    BY DEF StateEvent
  <2>2. QED
    BY <1>1, <1>2, <2>1, ArrivesFacts
<1>4. /\ arriving \in Seq(PartyArriving) /\ fetch \in FetchRecord /\ rows \in [VoiceChannel -> Seq(Row)]
      /\ dock \in Seq(Row) /\ where \in Situation /\ active \in PartyPlace
  BY StateTypes DEF PartyInv
<1>5. m \in PartyArriving /\ i \in 1..Len(arriving)
  BY <1>3, <1>4, RestFacts
<1>6. IsEvent(m)
  BY <1>3, <1>5, PartyArrivingFields
<1>7. PICK c \in VoiceChannel : c = m.channel
  BY <1>6 DEF IsEvent
<1>8. PICK a : a = active'
  OBVIOUS
<1>9. PICK b \in BOOLEAN : b = (m.user = Self)
  BY Zenon
<1>10. PICK x : x = RefreshParticipants(fetch, c, b, a)
  OBVIOUS
<1>11. /\ a = (IF m.user = Self /\ m.kind = "leave" THEN NoVoiceChannel ELSE active)
       /\ rows' = EventApplied(rows, m)
       /\ dock' = IF c = a THEN rows'[c] ELSE dock
       /\ UNCHANGED where /\ UNCHANGED partyEnv
  BY <1>1, <1>7, <1>8 DEF StateEvent
<1>12. fetch' = x.fetch /\ Serve(x.calls, rest)
  <2>1. x = RefreshParticipants(fetch, m.channel, m.user = Self, active')
    BY <1>7, <1>8, <1>9, <1>10, Zenon
  <2>2. /\ fetch' = RefreshParticipants(fetch, m.channel, m.user = Self, active').fetch
        /\ Serve(RefreshParticipants(fetch, m.channel, m.user = Self, active').calls, rest)
    BY <1>1, <1>2, Zenon DEF StateEvent
  <2>3. QED
    BY <2>1, <2>2, Zenon
<1>13. PICK D \in SUBSET {c} : D = IF m.user = Self THEN {c} ELSE {}
  OBVIOUS
<1>14. Fetches(x, fetch, c, D)
  <2>1. D # {} => b
    BY <1>9, <1>13
  <2>2. QED
    BY <1>4, <1>10, <2>1, RefreshFacts
<1>15. QueueInv(arriving, fetch, active) /\ OwnInv(arriving, where, fetch, rows, {})
       /\ HistoryInv(arriving, where, active, rows, dock)
  BY DEF PartyInv, QInv
<1>16. PICK r2 : r2 = rows'
  OBVIOUS
<1>17. PICK d2 : d2 = dock'
  OBVIOUS
<1>18. r2 = EventApplied(rows, m) /\ r2 \in [VoiceChannel -> Seq(Row)]
  BY <1>4, <1>6, <1>11, <1>16, EventFacts
<1>19. QueueInv(rest, fetch, a)
  <2>1. m.kind \notin {"rows", "limit", "fail"}
    BY <1>3 DEF StateEvents
  <2>2. Frees(fetch, fetch, m)
    BY <1>15, <2>1, FreesNone
  <2>3. a = active \/ a = NoVoiceChannel
    BY <1>11
  <2>4. QED
    BY <1>3, <1>4, <1>15, <2>2, <2>3, QueueLess
<1>20. OwnInv(rest, where, fetch, r2, D)
  <2>1. PICK p : p = where[Self]
    OBVIOUS
  <2>2. ASSUME Own
        PROVE  StaysOwn(arriving, rest, fetch, fetch, rows, r2, p, D)
    <3>1. MovedOn(arriving, p)
      BY <1>15, <2>1, <2>2 DEF OwnInv, Own
    <3>2. m.user = Self => m.channel \in D
      BY <1>7, <1>13
    <3>3. QED
      BY <1>3, <1>4, <1>6, <1>18, <3>1, <3>2, EventStaysOwn
  <2>3. \A j \in 1..(i - 1) : ~SelfEvent(arriving[j])
    BY <1>3 DEF SelfEvent
  <2>4. QED
    BY <1>3, <1>4, <1>15, <2>1, <2>2, <2>3, OwnLess
<1>21. HistoryInv(rest, where, a, r2, d2)
  <2>1. StepRight(m, rows, r2)
    <3>1. ASSUME NEW y \in Situation, NEW t \in Situation, Leads(y, m, t), AllRight(rows, y)
          PROVE  AllRight(r2, t)
      <4>1. UserMoves(y, m, t)
        BY <1>3, <3>1 DEF Leads
      <4>2. QED
        BY <1>4, <1>6, <1>18, <3>1, <4>1, EventKeepsRight
    <3>2. QED
      BY <3>1 DEF StepRight
  <2>2. ASSUME Plain
        PROVE  StepDock(arriving, rest, m, active, a, r2, dock, d2)
    <3>1. i = 1
      BY <1>3, <2>2 DEF Plain, PartyCalm
    <3>2. LeaveAnswered(arriving)
      BY <2>2 DEF PartyInv, LeaveInv, Plain
    <3>3. d2 = IF m.channel = a THEN r2[m.channel] ELSE dock
      BY <1>7, <1>11, <1>16, <1>17
    <3>4. QED
      BY <1>3, <1>4, <1>6, <1>11, <1>15, <3>1, <3>2, <3>3, EventDock
  <2>3. QED
    BY <1>3, <1>4, <1>15, <2>1, <2>2, HistoryLess
<1>22. QInv(rest, where, fetch, active', rows', dock', D)
  BY <1>8, <1>16, <1>17, <1>19, <1>20, <1>21 DEF QInv
<1>23. active' \in PartyPlace /\ rows' \in [VoiceChannel -> Seq(Row)] /\ dock' \in Seq(Row)
  BY <1>4, <1>8, <1>11, <1>16, <1>18 DEF PartyPlace
<1>24. QED
  BY <1>3, <1>4, <1>11, <1>12, <1>14, <1>22, <1>23, PartyDelivered

-----------------------------------------------------------------------------
(* Retries and speakers.                                                   *)

\* Another try, some time after a refusal.
LEMMA RetryKeeps ==
  ASSUME PartyInv, NEW c \in VoiceChannel, RetryFires(c)
  PROVE  PartyInv'
<1>1. /\ arriving \in Seq(PartyArriving) /\ fetch \in FetchRecord /\ rows \in [VoiceChannel -> Seq(Row)]
      /\ dock \in Seq(Row) /\ where \in Situation /\ active \in PartyPlace
      /\ refused \in 0..MaxRefused /\ LeaveInv
  BY StateTypes DEF PartyInv
<1>2. PICK v \in [VoiceChannel -> Nat] : v = fetch.retry
  BY <1>1 DEF FetchRecord
<1>3. v[c] > 0
  BY <1>2 DEF RetryFires
<1>4. PICK w : w = [v EXCEPT ![c] = @ - 1]
  OBVIOUS
<1>5. w \in [VoiceChannel -> Nat] /\ \A e \in VoiceChannel \ {c} : w[e] = v[e]
  <2>1. v[c] - 1 \in Nat
    BY <1>3
  <2>2. QED
    BY <1>4, <2>1
<1>6. PICK g : g = [fetch EXCEPT !.retry[c] = @ - 1]
  OBVIOUS
<1>7. g \in FetchRecord /\ g.inFlight = fetch.inFlight /\ g.pending = fetch.pending /\ g.retry = w
  <2>1. g = [fetch EXCEPT !.retry = w]
    BY <1>1, <1>2, <1>4, <1>6 DEF FetchRecord
  <2>2. QED
    BY <1>1, <1>5, <2>1 DEF FetchRecord
<1>8. PICK x : x = RefreshParticipants(g, c, TRUE, active)
  OBVIOUS
<1>9. /\ Len(arriving) + Len(x.calls) <= MaxArriving
      /\ fetch' = x.fetch /\ UNCHANGED where /\ Serve(x.calls, arriving)
      /\ UNCHANGED <<partyEnv, active, rows, dock>>
  BY <1>6, <1>8 DEF RetryFires
<1>10. Fetches(x, g, c, {c})
  <2>1. TRUE \in BOOLEAN /\ {c} \in SUBSET {c}
    OBVIOUS
  <2>2. QED
    BY <1>7, <1>8, <2>1, RefreshFacts
<1>11. QueueInv(arriving, fetch, active) /\ OwnInv(arriving, where, fetch, rows, {})
       /\ HistoryInv(arriving, where, active, rows, dock)
  BY DEF PartyInv, QInv
<1>12. QueueInv(arriving, g, active)
  BY <1>7, <1>11 DEF QueueInv, OneAnswer
<1>13. OwnInv(arriving, where, g, rows, {c})
  <2>1. ASSUME Own
        PROVE  /\ \A e \in VoiceChannel \ {c} : OnItsWay(arriving, g, rows[e], where[Self], e)
               /\ MovedOn(arriving, where[Self])
    <3>1. /\ \A e \in VoiceChannel : OnItsWay(arriving, fetch, rows[e], where[Self], e)
          /\ MovedOn(arriving, where[Self])
      BY <1>11, <2>1 DEF OwnInv, Own
    <3>2. \A e \in VoiceChannel \ {c} : OnItsWay(arriving, g, rows[e], where[Self], e)
      BY <1>2, <1>5, <1>7, <3>1 DEF OnItsWay
    <3>3. QED
      BY <3>1, <3>2
  <2>2. QED
    BY <2>1 DEF OwnInv, Own
<1>14. QInv(arriving, where, g, active', rows', dock', {c})
  BY <1>9, <1>11, <1>12, <1>13 DEF QInv
<1>15. Len(arriving') <= MaxArriving
  <2>1. Len(arriving') = Len(arriving) + Len(x.calls)
    BY <1>1, <1>7, <1>9, <1>10, AskFacts
  <2>2. QED
    BY <1>9, <2>1
<1>16. Plain => LeaveAnswered(arriving)
  BY <1>1 DEF LeaveInv, Plain
<1>17. active' \in PartyPlace /\ rows' \in [VoiceChannel -> Seq(Row)] /\ dock' \in Seq(Row)
       /\ UNCHANGED partyEnv /\ {c} \in SUBSET {c}
  BY <1>1, <1>9
<1>18. QED
  BY <1>1, <1>7, <1>9, <1>10, <1>14, <1>15, <1>16, <1>17, Asking

\* A fetch may be made again.
LEMMA RecentKeeps ==
  ASSUME PartyInv, NEW c \in VoiceChannel, NoLongerRecent(c)
  PROVE  PartyInv'
<1>1. /\ arriving \in Seq(PartyArriving) /\ fetch \in FetchRecord /\ rows \in [VoiceChannel -> Seq(Row)]
      /\ dock \in Seq(Row) /\ where \in Situation /\ active \in PartyPlace
      /\ refused \in 0..MaxRefused /\ LeaveInv /\ PartyTypes /\ Len(arriving) <= MaxArriving
  BY StateTypes DEF PartyInv
<1>2. fetch' = [fetch EXCEPT !.recent = @ \ {c}]
      /\ UNCHANGED <<partyEnv, where, active, rows, dock, refused, arriving>>
  BY DEF NoLongerRecent
<1>3. /\ fetch' \in FetchRecord /\ fetch'.inFlight = fetch.inFlight
      /\ fetch'.pending = fetch.pending /\ fetch'.retry = fetch.retry
  BY <1>1, <1>2 DEF FetchRecord
<1>4. PICK g : g = fetch'
  OBVIOUS
<1>5. QueueInv(arriving, fetch, active) /\ OwnInv(arriving, where, fetch, rows, {})
      /\ HistoryInv(arriving, where, active, rows, dock)
  BY DEF PartyInv, QInv
<1>6. QueueInv(arriving, g, active)
  BY <1>3, <1>4, <1>5 DEF QueueInv, OneAnswer
<1>7. OwnInv(arriving, where, g, rows, {})
  BY <1>3, <1>4, <1>5 DEF OwnInv, OnItsWay
<1>8. QInv(arriving, where, g, active, rows, dock, {})
  BY <1>5, <1>6, <1>7 DEF QInv
<1>9. QInv(arriving', where', fetch', active', rows', dock', {})
  BY <1>2, <1>4, <1>8
<1>10. partyEnv \subseteq {"others", "mute"} => LeaveAnswered(arriving')
  BY <1>1, <1>2 DEF LeaveInv
<1>11. QED
  BY <1>1, <1>2, <1>3, <1>9, <1>10, PartyAfter

-----------------------------------------------------------------------------
(* Speakers. *)

\* The lists are as right as before.
LEMMA RowsChange ==
  ASSUME PartyInv, "speak" \in partyEnv, UNCHANGED <<partyEnv, where, active, fetch, refused, arriving>>,
         rows' \in [VoiceChannel -> Seq(Row)], dock' \in Seq(Row),
         NEW r2, r2 = rows',
         \A h : Story(h, arriving, where) /\ AllRight(rows, h[0]) => AllRight(r2, h[0])
  PROVE  PartyInv'
<1>1. /\ arriving \in Seq(PartyArriving) /\ fetch \in FetchRecord
      /\ where \in Situation /\ active \in PartyPlace
      /\ refused \in 0..MaxRefused /\ PartyTypes /\ Len(arriving) <= MaxArriving
  BY StateTypes DEF PartyInv
<1>2. ~Plain /\ ~Own
  BY DEF Plain, Own
<1>3. QueueInv(arriving, fetch, active) /\ HistoryInv(arriving, where, active, rows, dock)
  BY DEF PartyInv, QInv
<1>4. PICK d2 : d2 = dock'
  OBVIOUS
<1>5. HistoryInv(arriving, where, active, r2, d2)
  <2>1. SUFFICES ASSUME PartyCalm
                 PROVE  \E h \in [0..Len(arriving) -> Situation] : TellsSo(h, arriving, where, active, r2, d2)
    BY DEF HistoryInv, PartyCalm
  <2>2. PICK h \in [0..Len(arriving) -> Situation] : TellsSo(h, arriving, where, active, rows, dock)
    BY <1>3, <2>1 DEF HistoryInv, PartyCalm
  <2>3. Story(h, arriving, where) /\ AllRight(rows, h[0])
    BY <2>2 DEF TellsSo
  <2>4. AllRight(r2, h[0])
    BY <2>3
  <2>5. TellsSo(h, arriving, where, active, r2, d2)
    BY <1>2, <2>3, <2>4 DEF TellsSo, Plain
  <2>6. QED
    BY <2>2, <2>5
<1>6. OwnInv(arriving, where, fetch, r2, {})
  BY <1>2 DEF OwnInv, Own
<1>7. QInv(arriving, where, fetch, active, r2, d2, {})
  BY <1>3, <1>5, <1>6 DEF QInv
<1>8. QInv(arriving', where', fetch', active', rows', dock', {})
  BY <1>4, <1>7
<1>9. partyEnv \subseteq {"others", "mute"} => LeaveAnswered(arriving')
  BY <1>2 DEF Plain
<1>10. QED
  BY <1>1, <1>8, <1>9, PartyAfter

\* setVoiceSpeakingUsers.
LEMMA SpeakersKeep ==
  ASSUME PartyInv, NEW speaking, SpeakersChanged(speaking)
  PROVE  PartyInv'
<1>1. rows \in [VoiceChannel -> Seq(Row)] /\ active \in VoiceChannel
  BY StateTypes DEF PartyInv, SpeakersChanged, PartyPlace
<1>2. /\ "speak" \in partyEnv /\ rows' = [rows EXCEPT ![active] = SpeakingSet(@, speaking)]
      /\ dock' = rows'[active] /\ UNCHANGED <<partyEnv, where, active, fetch, refused, arriving>>
  BY DEF SpeakersChanged
<1>3. PICK list \in Seq(Row) : list = rows[active]
  BY <1>1
<1>4. PICK n : n = SpeakingSet(list, speaking)
  OBVIOUS
<1>5. n \in Seq(Row) /\ SameRows(n, list)
  BY <1>4, SpeakingFacts
<1>6. rows' \in [VoiceChannel -> Seq(Row)] /\ rows'[active] = n
      /\ \A e \in VoiceChannel \ {active} : rows'[e] = rows[e]
  BY <1>1, <1>2, <1>3, <1>4, <1>5
<1>7. PICK r2 : r2 = rows'
  OBVIOUS
<1>8. ASSUME NEW h, AllRight(rows, h[0])
      PROVE  AllRight(r2, h[0])
  <2>1. PICK s : s = h[0]
    OBVIOUS
  <2>2. ASSUME NEW e \in VoiceChannel
        PROVE  Right(r2[e], e, s)
    <3>1. Right(rows[e], e, s)
      BY <1>8, <2>1 DEF AllRight
    <3>2. CASE e = active
      <4>1. Right(list, e, s)
        BY <1>3, <3>1, <3>2
      <4>2. Right(n, e, s)
        BY <1>5, <4>1, SameRight
      <4>3. QED
        BY <1>6, <1>7, <3>2, <4>2
    <3>3. CASE e # active
      BY <1>6, <1>7, <3>1, <3>3
    <3>4. QED
      BY <3>2, <3>3
  <2>3. QED
    BY <2>1, <2>2 DEF AllRight
<1>9. dock' \in Seq(Row)
  BY <1>2, <1>5, <1>6
<1>10. QED
  BY <1>2, <1>6, <1>7, <1>8, <1>9, RowsChange

\* Of whom nothing is on its way the first situation knows where they are.
LEMMA SameSince ==
  ASSUME NEW q \in Seq(PartyArriving), NEW h, NEW s, Story(h, q, s), NEW u \in User,
         \A i \in 1..Len(q) : q[i].kind \in StateEvents => q[i].user # u
  PROVE  h[0][u] = s[u]
<1>1. Len(q) \in Nat /\ h[Len(q)] = s /\ \A k \in 1..Len(q) : Leads(h[k - 1], q[k], h[k])
  BY DEF Story
<1>2. ASSUME NEW k \in 1..Len(q)
      PROVE  h[k][u] = h[k - 1][u]
  <2>1. Leads(h[k - 1], q[k], h[k])
    BY <1>1
  <2>2. PICK m : m = q[k]
    OBVIOUS
  <2>3. CASE m.kind \in StateEvents
    <3>1. m.user # u /\ UserMoves(h[k - 1], m, h[k])
      BY <2>1, <2>2, <2>3 DEF Leads
    <3>2. QED
      BY <3>1 DEF UserMoves
  <2>4. CASE m.kind \notin StateEvents
    BY <2>1, <2>2, <2>4 DEF Leads
  <2>5. QED
    BY <2>3, <2>4
<1>3. PICK Bad : Bad = {k \in 0..Len(q) : h[k][u] # h[0][u]}
  OBVIOUS
<1>4. Bad = {}
  <2>1. SUFFICES ASSUME Bad # {}
                 PROVE  FALSE
    OBVIOUS
  <2>2. Bad \in SUBSET Nat
    BY <1>1, <1>3
  <2>3. PICK k \in Bad : \A y \in Bad : k <= y
    BY <2>1, <2>2, PartyLeastNumber
  <2>4. k \in 0..Len(q) /\ h[k][u] # h[0][u]
    BY <1>3
  <2>5. k # 0
    BY <2>4
  <2>6. k \in 1..Len(q) /\ k - 1 \in 0..Len(q) /\ ~(k <= k - 1)
    BY <1>1, <2>4, <2>5
  <2>7. k - 1 \notin Bad
    BY <2>3, <2>6
  <2>8. h[k - 1][u] = h[0][u]
    BY <1>3, <2>6, <2>7
  <2>9. QED
    BY <1>2, <2>4, <2>6, <2>8
<1>5. Len(q) \in 0..Len(q)
  BY <1>1
<1>6. QED
  BY <1>1, <1>3, <1>4, <1>5

\* Speech begins or ends: the row of the user, who is listed.
LEMMA SpeechKeeps ==
  ASSUME PartyInv, NEW u \in User, NEW speaking \in BOOLEAN, SpeakingEvent(u, speaking)
  PROVE  PartyInv'
<1>1. rows \in [VoiceChannel -> Seq(Row)] /\ where \in Situation /\ dock \in Seq(Row)
      /\ arriving \in Seq(PartyArriving)
  BY StateTypes DEF PartyInv
<1>2. where[u].channel \in VoiceChannel /\ "speak" \in partyEnv
      /\ UNCHANGED <<partyEnv, where, active, fetch, refused, arriving>>
  BY <1>1 DEF SpeakingEvent, Situation, PartyPlace
<1>3. PICK c \in VoiceChannel : c = where[u].channel
  BY <1>2
<1>4. PICK list \in Seq(Row) : list = rows[c]
  BY <1>1
<1>5. PICK at : at = FirstOf(list, u)
  OBVIOUS
<1>6. PICK now \in {"yes", "no"} : now = IF speaking THEN "yes" ELSE "no"
  OBVIOUS
<1>7. PICK new : new = IF at = 0 THEN [user |-> u, muted |-> FALSE, speaking |-> now]
                       ELSE [list[at] EXCEPT !.speaking = now]
  OBVIOUS
<1>8. PICK n : n = Patched(list, u, new)
  OBVIOUS
<1>9. /\ \A i \in 1..Len(arriving) : arriving[i].kind \in StateEvents => arriving[i].user # u
      /\ at # 0 => list[at] # new
      /\ rows' = [rows EXCEPT ![c] = n]
      /\ dock' = IF c = active THEN rows'[c] ELSE dock
  BY <1>3, <1>4, <1>5, <1>6, <1>7, <1>8 DEF SpeakingEvent
<1>10. \/ at = 0 /\ \A i \in 1..Len(list) : list[i].user # u
       \/ at \in 1..Len(list) /\ list[at].user = u
  BY <1>5, FirstFacts
<1>11. /\ new \in Row /\ new.user = u
       /\ at \in 1..Len(list) => new.muted = list[at].muted
  <2>1. CASE at = 0
    <3>1. new = [user |-> u, muted |-> FALSE, speaking |-> now]
      BY <1>7, <2>1
    <3>2. at \notin 1..Len(list)
      BY <2>1
    <3>3. QED
      BY <3>1, <3>2 DEF Row
  <2>2. CASE at # 0
    <3>1. at \in 1..Len(list) /\ list[at].user = u
      BY <1>10, <2>2
    <3>2. PICK row \in Row : row = list[at]
      BY <3>1, RowFacts
    <3>3. new = [row EXCEPT !.speaking = now]
      BY <1>7, <2>2, <3>2
    <3>4. new \in Row /\ new.user = row.user /\ new.muted = row.muted
      BY <3>3 DEF Row
    <3>5. QED
      BY <3>1, <3>2, <3>4
  <2>3. QED
    BY <2>1, <2>2
<1>12. n \in Seq(Row)
  BY <1>8, <1>11, PatchedFacts
<1>13. rows' \in [VoiceChannel -> Seq(Row)] /\ rows'[c] = n
       /\ \A e \in VoiceChannel \ {c} : rows'[e] = rows[e]
  BY <1>1, <1>9, <1>12
<1>14. dock' \in Seq(Row)
  BY <1>1, <1>9, <1>12, <1>13
<1>15. PICK r2 : r2 = rows'
  OBVIOUS
<1>16. ASSUME NEW h, Story(h, arriving, where), AllRight(rows, h[0])
       PROVE  AllRight(r2, h[0])
  <2>1. PICK s : s = h[0]
    OBVIOUS
  <2>2. s[u] = where[u]
    BY <1>1, <1>9, <1>16, <2>1, SameSince
  <2>3. Right(list, c, s)
    BY <1>4, <1>16, <2>1 DEF AllRight
  <2>4. at \in 1..Len(list) /\ list[at].user = u
    <3>1. \E i \in 1..Len(list) : list[i].user = u
      BY <1>3, <2>2, <2>3 DEF Right
    <3>2. QED
      BY <1>10, <3>1
  <2>5. at # 0
    BY <2>4
  <2>6. n = [list EXCEPT ![at] = new]
    BY <1>5, <1>8, <1>9, <2>5 DEF Patched
  <2>7. PartySets(n, list, at, new)
    BY <1>11, <2>4, <2>6, PartyReplaced
  <2>8. SameRows(n, list)
    <3>1. Len(n) = Len(list) /\ \A k \in 1..Len(list) : n[k] = IF k = at THEN new ELSE list[k]
      BY <2>7 DEF PartySets
    <3>2. QED
      BY <1>11, <2>4, <3>1 DEF SameRows
  <2>9. Right(n, c, s)
    BY <2>3, <2>8, SameRight
  <2>10. ASSUME NEW e \in VoiceChannel
         PROVE  Right(r2[e], e, s)
    <3>1. Right(rows[e], e, s)
      BY <1>16, <2>1 DEF AllRight
    <3>2. QED
      BY <1>13, <1>15, <2>9, <3>1
  <2>11. QED
    BY <2>1, <2>10 DEF AllRight
<1>17. QED
  BY <1>2, <1>13, <1>14, <1>15, <1>16, RowsChange

-----------------------------------------------------------------------------
(* The theorems.                                                           *)

\* The first state.
LEMMA PartyInitFacts ==
  ASSUME PartyInit
  PROVE  PartyInv
<1>1. /\ partyEnv \in PartyScenarios /\ active = NoVoiceChannel /\ dock = <<>> /\ refused = 0
      /\ arriving = <<>>
      /\ where = [u \in User |-> [channel |-> NoVoiceChannel, muted |-> FALSE]]
      /\ rows = [c \in VoiceChannel |-> <<>>]
      /\ fetch = [inFlight |-> {}, pending |-> {}, recent |-> {}, retry |-> [c \in VoiceChannel |-> 0]]
  BY DEF PartyInit
<1>2. Self \in User /\ NoVoiceChannel \notin VoiceChannel /\ MaxArriving \in Nat /\ MaxRefused \in Nat
  BY PartyAssumption DEF PartyAssumption
<1>3. Len(arriving) = 0 /\ arriving \in Seq(PartyArriving) /\ \A i : i \notin 1..Len(arriving)
  BY <1>1
<1>4. where \in Situation /\ \A u \in User : where[u].channel = NoVoiceChannel
  BY <1>1 DEF Situation, PartyPlace
<1>5. rows \in [VoiceChannel -> Seq(Row)] /\ \A c \in VoiceChannel : Len(rows[c]) = 0
  BY <1>1
<1>6. /\ fetch \in FetchRecord /\ fetch.inFlight = {} /\ fetch.pending = {}
  BY <1>1 DEF FetchRecord
<1>7. PartyTypes
  BY <1>1, <1>2, <1>3, <1>4, <1>5, <1>6 DEF PartyTypes, PartyTypeOK, Situation, PartyPlace, FetchRecord
<1>8. QueueInv(arriving, fetch, active)
  <2>1. \A c : PartyAnswers(arriving, c) = {}
    BY <1>3 DEF PartyAnswers
  <2>2. OneAnswer(arriving, fetch)
    BY <1>6, <2>1 DEF OneAnswer
  <2>3. OfScenario(arriving) /\ OneOwnAnswer(arriving) /\ JoinsFromNowhere(arriving, active)
    BY <1>3 DEF OfScenario, OneOwnAnswer, JoinsFromNowhere
  <2>4. QED
    BY <1>6, <2>2, <2>3 DEF QueueInv
<1>9. \A i : i \notin 1..0
  OBVIOUS
<1>10. OwnInv(arriving, where, fetch, rows, {})
  <2>1. MovedOn(arriving, where[Self])
    BY <1>3 DEF MovedOn
  <2>2. ASSUME NEW c \in VoiceChannel
        PROVE  OnItsWay(arriving, fetch, rows[c], where[Self], c)
    <3>1. where[Self].channel # c
      BY <1>2, <1>4
    <3>2. OwnRow(rows[c], where[Self], c)
      BY <1>5, <1>9, <3>1 DEF OwnRow
    <3>3. QED
      BY <1>6, <3>2 DEF OnItsWay
  <2>3. QED
    BY <2>1, <2>2 DEF OwnInv
<1>11. ASSUME NEW c \in VoiceChannel
       PROVE  Right(rows[c], c, where)
  <2>1. \A u \in User : where[u].channel # c
    BY <1>2, <1>4
  <2>2. QED
    BY <1>5, <1>9, <2>1 DEF Right
<1>12. HistoryInv(arriving, where, active, rows, dock)
  <2>1. PICK h : h = [k \in 0..0 |-> where]
    OBVIOUS
  <2>2. h \in [0..Len(arriving) -> Situation] /\ h[0] = where /\ h[Len(arriving)] = where
    <3>1. 0 \in 0..0
      OBVIOUS
    <3>2. QED
      BY <1>3, <1>4, <2>1, <3>1
  <2>3. Story(h, arriving, where)
    BY <1>3, <2>2 DEF Story
  <2>4. AllRight(rows, h[0])
    BY <1>11, <2>2 DEF AllRight
  <2>5. DockRight(arriving, active, dock, h[0])
    BY <1>1 DEF DockRight
  <2>6. QED
    BY <2>2, <2>3, <2>4, <2>5 DEF HistoryInv, TellsSo
<1>13. LeaveInv
  BY <1>3 DEF LeaveInv, LeaveAnswered
<1>14. QED
  BY <1>7, <1>8, <1>10, <1>12, <1>13 DEF PartyInv, QInv

\* Nothing happens.
LEMMA PartyStutter ==
  ASSUME PartyInv, UNCHANGED partyVars
  PROVE  PartyInv'
<1>1. /\ arriving \in Seq(PartyArriving) /\ fetch \in FetchRecord /\ rows \in [VoiceChannel -> Seq(Row)]
      /\ dock \in Seq(Row) /\ where \in Situation /\ active \in PartyPlace
      /\ refused \in 0..MaxRefused /\ LeaveInv /\ PartyTypes /\ Len(arriving) <= MaxArriving
      /\ QInv(arriving, where, fetch, active, rows, dock, {})
  BY StateTypes DEF PartyInv
<1>2. UNCHANGED <<partyEnv, where, active, rows, dock, fetch, refused, arriving>>
  BY DEF partyVars
<1>3. QInv(arriving', where', fetch', active', rows', dock', {})
  BY <1>1, <1>2
<1>4. partyEnv \subseteq {"others", "mute"} => LeaveAnswered(arriving')
  BY <1>1, <1>2 DEF LeaveInv
<1>5. QED
  BY <1>1, <1>2, <1>3, <1>4, PartyAfter

\* Every step.
LEMMA PartyStep ==
  ASSUME PartyInv, [PartyNext]_partyVars
  PROVE  PartyInv'
<1>1. CASE OthersInVoice
  BY <1>1, OthersKeeps
<1>2. CASE LeaveVoice
  BY <1>2, LeaveKeeps
<1>3. ASSUME NEW c \in VoiceChannel, JoinVoice(c) \/ Preview(c) \/ RetryFires(c) \/ NoLongerRecent(c)
      PROVE  PartyInv'
  BY <1>3, JoinKeeps, PreviewKeeps, RetryKeeps, RecentKeeps
<1>4. ASSUME NEW speaking \in SUBSET User, SpeakersChanged(speaking)
      PROVE  PartyInv'
  BY <1>4, SpeakersKeep
<1>5. ASSUME NEW u \in User, NEW b \in BOOLEAN, SpeakingEvent(u, b)
      PROVE  PartyInv'
  BY <1>5, SpeechKeeps
<1>6. ASSUME NEW i \in 1..MaxArriving, Joined(i) \/ Left(i) \/ StateEvent(i)
      PROVE  PartyInv'
  BY <1>6, JoinedKeeps, LeftKeeps, EventKeeps
<1>7. ASSUME NEW i \in 1..MaxArriving,
             ParticipantsListed(i) \/ PreviewListed(i) \/ ParticipantsFailed(i) \/ ParticipantsRefused(i)
      PROVE  PartyInv'
  BY <1>7, ListedKeeps, PreviewListedKeeps, FailedKeeps, RefusedKeeps
<1>8. CASE UNCHANGED partyVars
  BY <1>8, PartyStutter
<1>9. QED
  BY <1>1, <1>2, <1>3, <1>4, <1>5, <1>6, <1>7, <1>8, Zenon DEF PartyNext

-----------------------------------------------------------------------------
\* A list that is right shows who is there, once each.
LEMMA ShownPresent ==
  ASSUME NEW list \in Seq(Row), NEW c \in VoiceChannel, where \in Situation, Right(list, c, where)
  PROVE  Shown(list) = Present(c) /\ Len(list) = Cardinality(Present(c))
<1>1. Len(list) \in Nat /\ \A i \in 1..Len(list) : list[i].user \in User
  BY RowFacts
<1>2. /\ \A i, j \in 1..Len(list) : list[i].user = list[j].user => i = j
      /\ \A i \in 1..Len(list) :
            where[list[i].user].channel = c /\ where[list[i].user].muted = list[i].muted
      /\ \A u \in User : where[u].channel = c => \E i \in 1..Len(list) : list[i].user = u
  BY DEF Right
<1>3. PICK f : f = [i \in 1..Len(list) |-> [user |-> list[i].user, muted |-> list[i].muted]]
  OBVIOUS
<1>4. PICK P : P = Present(c)
  OBVIOUS
<1>5. P = {[user |-> u, muted |-> where[u].muted] : u \in {v \in User : where[v].channel = c}}
  BY <1>4 DEF Present
<1>6. ASSUME NEW i \in 1..Len(list)
      PROVE  f[i] \in P
  <2>1. PICK u \in User : u = list[i].user
    BY <1>1
  <2>2. where[u].channel = c /\ where[u].muted = list[i].muted
    BY <1>2, <2>1
  <2>3. f[i] = [user |-> u, muted |-> where[u].muted]
    BY <1>3, <2>1, <2>2
  <2>4. QED
    BY <1>5, <2>2, <2>3
<1>7. ASSUME NEW x \in P
      PROVE  \E i \in 1..Len(list) : f[i] = x
  <2>1. PICK u \in User : where[u].channel = c /\ x = [user |-> u, muted |-> where[u].muted]
    BY <1>5
  <2>2. PICK i \in 1..Len(list) : list[i].user = u
    BY <1>2, <2>1
  <2>3. f[i] = [user |-> u, muted |-> where[u].muted]
    BY <1>2, <1>3, <2>2
  <2>4. QED
    BY <2>1, <2>3
<1>8. \A i, j \in 1..Len(list) : f[i] = f[j] => i = j
  <2>1. \A i \in 1..Len(list) : f[i].user = list[i].user
    BY <1>3
  <2>2. QED
    BY <1>2, <2>1
<1>9. Shown(list) = P
  <2>1. \A x : x \in Shown(list) <=> \E i \in 1..Len(list) : f[i] = x
    BY <1>3 DEF Shown
  <2>2. \A x : x \in Shown(list) <=> x \in P
    BY <1>6, <1>7, <2>1
  <2>3. QED
    BY <2>2
<1>10. Cardinality(P) = Len(list)
  <2>1. PICK n \in Nat : n = Len(list)
    BY <1>1
  <2>2. f \in [1..n -> P]
    BY <1>3, <1>6, <2>1
  <2>3. f \in Bijection(1..n, P)
    BY <1>7, <1>8, <2>1, <2>2 DEF Bijection, Injection, Surjection, IsInjective
  <2>4. ExistsBijection(1..n, P)
    BY <2>3 DEF ExistsBijection
  <2>5. IsFiniteSet(1..n) /\ Cardinality(1..n) = IF 1 > n THEN 0 ELSE n - 1 + 1
    BY FS_Interval
  <2>6. Cardinality(P) = Cardinality(1..n)
    BY <2>4, <2>5, FS_Bijection
  <2>7. (IF 1 > n THEN 0 ELSE n - 1 + 1) = n
    OBVIOUS
  <2>8. QED
    BY <2>1, <2>5, <2>6, <2>7
<1>11. QED
  BY <1>4, <1>9, <1>10

\* A list that has the user right.
LEMMA ShownSelf ==
  ASSUME NEW list \in Seq(Row), NEW c \in VoiceChannel, where \in Situation,
         OwnRow(list, where[Self], c)
  PROVE  {r \in Shown(list) : r.user = Self} = {r \in Present(c) : r.user = Self}
<1>1. Self \in User
  BY PartyAssumption DEF PartyAssumption
<1>2. /\ \A i \in 1..Len(list) : list[i].user = Self =>
            where[Self].channel = c /\ list[i].muted = where[Self].muted
      /\ where[Self].channel = c => \E i \in 1..Len(list) : list[i].user = Self
  BY DEF OwnRow
<1>3. ASSUME NEW r \in Shown(list), r.user = Self
      PROVE  r \in Present(c)
  <2>1. PICK i \in 1..Len(list) : r = [user |-> list[i].user, muted |-> list[i].muted]
    BY DEF Shown
  <2>2. list[i].user = Self
    BY <1>3, <2>1
  <2>3. where[Self].channel = c /\ r = [user |-> Self, muted |-> where[Self].muted]
    BY <1>2, <2>1, <2>2
  <2>4. QED
    BY <1>1, <2>3 DEF Present
<1>4. ASSUME NEW r \in Present(c), r.user = Self
      PROVE  r \in Shown(list)
  <2>1. PICK u \in User : where[u].channel = c /\ r = [user |-> u, muted |-> where[u].muted]
    BY DEF Present
  <2>2. u = Self
    BY <1>4, <2>1
  <2>3. PICK i \in 1..Len(list) : list[i].user = Self
    BY <1>2, <2>1, <2>2
  <2>4. r = [user |-> list[i].user, muted |-> list[i].muted]
    BY <1>2, <2>1, <2>2, <2>3
  <2>5. QED
    BY <2>4 DEF Shown
<1>5. QED
  BY <1>3, <1>4

\* The invariant gives what was to be shown.
LEMMA PartyInvSound ==
  ASSUME PartyInv
  PROVE  PartySound
<1>1. /\ where \in Situation /\ active \in PartyPlace /\ rows \in [VoiceChannel -> Seq(Row)]
      /\ dock \in Seq(Row) /\ fetch \in FetchRecord /\ NoVoiceChannel \notin VoiceChannel
  BY StateTypes DEF PartyInv
<1>2. /\ QueueInv(arriving, fetch, active) /\ OwnInv(arriving, where, fetch, rows, {})
      /\ HistoryInv(arriving, where, active, rows, dock)
  BY DEF PartyInv, QInv
<1>3. Settled => Len(arriving) = 0 /\ \A i : i \notin 1..Len(arriving)
  BY DEF Settled
<1>4. PendingIsFetched
  BY <1>2 DEF QueueInv, PendingIsFetched
<1>5. InFlightExact
  <2>1. \A c : PartyAnswers(arriving, c) # {} <=>
           \E i \in 1..Len(arriving) : arriving[i].kind \in {"rows", "limit", "fail"} /\ arriving[i].channel = c
    BY DEF PartyAnswers, IsAnswer
  <2>2. QED
    BY <1>2, <2>1 DEF QueueInv, OneAnswer, InFlightExact
<1>6. ASSUME PartyCalm, Settled
      PROVE  AllRight(rows, where) /\ (Plain => DockRight(arriving, active, dock, where))
  <2>1. PICK h : TellsSo(h, arriving, where, active, rows, dock)
    BY <1>2, <1>6 DEF HistoryInv, PartyCalm
  <2>2. h[0] = where
    BY <1>3, <1>6, <2>1 DEF TellsSo, Story
  <2>3. QED
    BY <2>1, <2>2 DEF TellsSo, Plain
<1>7. RowsAgree
  <2>1. ASSUME PartyCalm, Settled, NEW c \in VoiceChannel
        PROVE  Shown(rows[c]) = Present(c) /\ Len(rows[c]) = Cardinality(Present(c))
    <3>1. PICK list \in Seq(Row) : list = rows[c]
      BY <1>1
    <3>2. Right(list, c, where)
      BY <1>6, <2>1, <3>1 DEF AllRight
    <3>3. QED
      BY <1>1, <3>1, <3>2, ShownPresent
  <2>2. QED
    BY <2>1 DEF RowsAgree, PartyCalm
<1>8. SelfAgrees
  <2>1. ASSUME Own, Settled, NEW c \in VoiceChannel
        PROVE  {r \in Shown(rows[c]) : r.user = Self} = {r \in Present(c) : r.user = Self}
    <3>1. PICK list \in Seq(Row) : list = rows[c]
      BY <1>1
    <3>2. OnItsWay(arriving, fetch, list, where[Self], c)
      BY <1>2, <2>1, <3>1 DEF OwnInv, Own
    <3>3. c \notin fetch.pending
      <4>1. PartyAnswers(arriving, c) = {}
        BY <1>3, <2>1 DEF PartyAnswers
      <4>2. QED
        BY <1>2, <4>1 DEF QueueInv, OneAnswer
    <3>4. ~(fetch.retry[c] > 0)
      BY <2>1 DEF Settled
    <3>5. OwnRow(list, where[Self], c)
      BY <1>3, <2>1, <3>2, <3>3, <3>4 DEF OnItsWay
    <3>6. QED
      BY <1>1, <3>1, <3>5, ShownSelf
  <2>2. QED
    BY <2>1 DEF SelfAgrees, Own
<1>9. DockOfChannel
  <2>1. ASSUME Plain, Settled, active # NoVoiceChannel
        PROVE  Shown(dock) \in {{}, Shown(rows[active])}
    <3>1. active \in VoiceChannel /\ PartyCalm
      BY <1>1, <2>1 DEF PartyPlace, Plain, PartyCalm
    <3>2. dock = <<>> \/ Right(dock, active, where)
      BY <1>6, <2>1, <3>1 DEF DockRight
    <3>3. CASE dock = <<>>
      <4>1. \A i : i \notin 1..Len(dock)
        BY <3>3
      <4>2. Shown(dock) = {}
        BY <4>1 DEF Shown
      <4>3. QED
        BY <4>2
    <3>4. CASE Right(dock, active, where)
      <4>1. PICK c \in VoiceChannel : c = active
        BY <3>1
      <4>2. Shown(dock) = Present(c)
        BY <1>1, <3>4, <4>1, ShownPresent
      <4>3. PICK list \in Seq(Row) : list = rows[c]
        BY <1>1
      <4>4. Right(list, c, where)
        BY <1>6, <2>1, <3>1, <4>3 DEF AllRight
      <4>5. Shown(list) = Present(c)
        BY <1>1, <4>4, ShownPresent
      <4>6. QED
        BY <4>1, <4>2, <4>3, <4>5
    <3>5. QED
      BY <3>2, <3>3, <3>4
  <2>2. QED
    BY <2>1 DEF DockOfChannel, Plain
<1>10. QED
  BY <1>4, <1>5, <1>7, <1>8, <1>9 DEF PartySound

\* It is an invariant.
LEMMA PartyInvariant == PartySpec => []PartyInv
<1>1. PartyInit => PartyInv
  BY PartyInitFacts
<1>2. PartyInv /\ [PartyNext]_partyVars => PartyInv'
  BY PartyStep
<1>3. QED
  BY <1>1, <1>2, PTL DEF PartySpec

\* The lists of voice participants, the bookkeeping of the fetches and the queue have
\* their types in every reachable state.
THEOREM PartyIsTyped == PartySpec => []PartyTypeOK
<1>1. PartyInv => PartyTypeOK
  BY DEF PartyInv, PartyTypes
<1>2. QED
  BY <1>1, PartyInvariant, PTL

\* What the client shows of the voice channels is right when nothing is under way: every
\* channel lists exactly the users it has, where answers keep their order, the user of
\* the client themself is right also where they do not, the dock is of the active
\* channel; and always a fetch that is put off has its turn and the set of fetches
\* under way is that of the answers (AppStore.cpp, VoiceViewModel.cpp).
THEOREM PartyIsSound == PartySpec => []PartySound
<1>1. PartyInv => PartySound
  BY PartyInvSound
<1>2. QED
  BY <1>1, PartyInvariant, PTL
==================================================================================

-------------------------- MODULE ChatTimelineProofs --------------------------
(***************************************************************************)
(* What holds of the messages on the screen, for any number of places and  *)
(* messages and any length of the queue.  Answers and events are told in   *)
(* the order in which the server wrote them, so the queue is read as the   *)
(* history of the selected place: the invariant (Synced) says that there   *)
(* are states of its log, one between any two messages, of which the       *)
(* screen shows the first and the log is the last, and that each message   *)
(* leads from one to the next (Follows); or that a list under way, which   *)
(* replaces the screen, is of one of them.  Where requests overlap nothing *)
(* of this is claimed, and only what is served and untold is kept typed.   *)
(***************************************************************************)
EXTENDS ChatTimeline, WellFoundedInduction, FiniteSetTheorems, SequenceTheorems, TLAPS

\* Answers and events, by kind.
Arriving ==
    [kind : {"create", "update"}, place : Place, msg : ServerMessage]
    \cup [kind : {"delete"}, place : Place, id : 1..MaxMessages]
    \cup [kind : {"react"}, id : 1..MaxMessages, add : BOOLEAN]
    \cup [kind : {"message"}, msg : ServerMessage]
    \cup [kind : {"deleted"}, id : 1..MaxMessages]
    \cup [kind : {"list"}, list : ListKind, reset : BOOLEAN,
          page : [items : Seq(ServerMessage), next : 0..MaxMessages]]
    \cup [kind : {"failed"}]

\* No message is in the list twice.
Unlike(list) == \A i, j \in 1..Len(list) : list[i].id = list[j].id => i = j

\* What the log of a place was at some time.
Snapshot == {s \in Seq(ServerMessage) : Unlike(s)}

\* A list with one more message, with another i-th message, without its i-th.
Adds(n, list, m) ==
    /\ Len(n) = Len(list) + 1 /\ n[Len(n)] = m
    /\ \A k \in 1..Len(list) : n[k] = list[k]
Sets(n, list, i, m) ==
    /\ i \in 1..Len(list) /\ Len(n) = Len(list)
    /\ \A k \in 1..Len(list) : n[k] = IF k = i THEN m ELSE list[k]
Lacks(n, list, i) ==
    /\ i \in 1..Len(list) /\ Len(n) + 1 = Len(list)
    /\ \A k \in 1..Len(n) : n[k] = IF k < i THEN list[k] ELSE list[k + 1]

-----------------------------------------------------------------------------
\* Append, EXCEPT and RemoveAt.
LEMMA Appended ==
  ASSUME NEW S, NEW list \in Seq(S), NEW m \in S, NEW n, n = Append(list, m)
  PROVE  n \in Seq(S) /\ Adds(n, list, m)
BY DEF Adds

\* A message is replaced.
LEMMA Replaced ==
  ASSUME NEW S, NEW list \in Seq(S), NEW i \in 1..Len(list), NEW m \in S,
         NEW n, n = [list EXCEPT ![i] = m]
  PROVE  n \in Seq(S) /\ Sets(n, list, i, m)
BY ExceptSeq DEF Sets

\* RemoveAt takes out one.
LEMMA Removed ==
  ASSUME NEW S, NEW q \in Seq(S), NEW i \in 1..Len(q), NEW rest, rest = RemoveAt(q, i)
  PROVE  rest \in Seq(S) /\ Lacks(rest, q, i)
<1>1. Len(q) \in Nat /\ \A k \in 1..Len(q) : q[k] \in S
  BY ElementOfSeq, LenProperties
<1>2. PICK p : p = SubSeq(q, 1, i - 1)
  OBVIOUS
<1>3. /\ p \in Seq(S) /\ Len(p) = i - 1
      /\ \A k \in 1..(i - 1) : p[k] = q[k]
  <2>1. 1 \in Int /\ i - 1 \in Int /\ \A k \in 1..(i - 1) : q[k] \in S
    BY <1>1
  <2>2. /\ p \in Seq(S) /\ Len(p) = (IF 1 <= i - 1 THEN i - 1 - 1 + 1 ELSE 0)
        /\ \A k \in 1..(i - 1 - 1 + 1) : p[k] = q[1 + k - 1]
    BY <1>2, <2>1, SubSeqProperties
  <2>3. QED
    BY <2>2
<1>4. PICK e : e = SubSeq(q, i + 1, Len(q))
  OBVIOUS
<1>5. /\ e \in Seq(S) /\ Len(e) = Len(q) - i
      /\ \A k \in 1..(Len(q) - i) : e[k] = q[i + k]
  <2>1. i + 1 \in Int /\ Len(q) \in Int /\ \A k \in (i + 1)..Len(q) : q[k] \in S
    BY <1>1
  <2>2. /\ e \in Seq(S) /\ Len(e) = (IF i + 1 <= Len(q) THEN Len(q) - (i + 1) + 1 ELSE 0)
        /\ \A k \in 1..(Len(q) - (i + 1) + 1) : e[k] = q[i + 1 + k - 1]
    BY <1>4, <2>1, SubSeqProperties
  <2>3. Len(q) - (i + 1) + 1 = Len(q) - i /\ \A k \in Int : i + 1 + k - 1 = i + k
    BY <1>1
  <2>4. i + 1 <= Len(q) <=> ~(Len(q) - i = 0)
    BY <1>1
  <2>5. Len(e) = Len(q) - i
    BY <1>1, <2>2, <2>3, <2>4
  <2>6. ASSUME NEW k \in 1..(Len(q) - i)
        PROVE  e[k] = q[i + k]
    <3>1. k \in 1..(Len(q) - (i + 1) + 1) /\ i + 1 + k - 1 = i + k
      BY <2>3
    <3>2. QED
      BY <2>2, <3>1
  <2>7. QED
    BY <2>2, <2>5, <2>6
<1>6. rest = p \o e
  BY <1>2, <1>4 DEF RemoveAt
<1>7. /\ rest \in Seq(S) /\ Len(rest) = Len(p) + Len(e)
      /\ \A k \in 1..(Len(p) + Len(e)) : rest[k] = IF k <= Len(p) THEN p[k] ELSE e[k - Len(p)]
  <2>1. p \in Seq(S) /\ e \in Seq(S)
    BY <1>3, <1>5
  <2>2. /\ p \o e \in Seq(S) /\ Len(p \o e) = Len(p) + Len(e)
        /\ \A k \in 1..(Len(p) + Len(e)) :
              (p \o e)[k] = IF k <= Len(p) THEN p[k] ELSE e[k - Len(p)]
    BY <2>1, ConcatProperties
  <2>3. QED
    BY <1>6, <2>2
<1>8. Len(rest) + 1 = Len(q)
  BY <1>1, <1>3, <1>5, <1>7
<1>9. ASSUME NEW k \in 1..Len(rest)
      PROVE  rest[k] = IF k < i THEN q[k] ELSE q[k + 1]
  <2>1. CASE k < i
    <3>1. k \in 1..(i - 1) /\ k <= Len(p) /\ k \in 1..(Len(p) + Len(e))
      BY <1>1, <1>3, <1>5, <1>7, <2>1
    <3>2. QED
      BY <1>3, <1>7, <2>1, <3>1
  <2>2. CASE ~(k < i)
    <3>1. /\ ~(k <= Len(p)) /\ k \in 1..(Len(p) + Len(e))
          /\ k - Len(p) \in 1..(Len(q) - i) /\ i + (k - Len(p)) = k + 1
      BY <1>1, <1>3, <1>5, <1>7, <2>2
    <3>2. QED
      BY <1>5, <1>7, <2>2, <3>1
  <2>3. QED
    BY <2>1, <2>2
<1>10. QED
  BY <1>7, <1>8, <1>9 DEF Lacks

\* A set of numbers has a least one.
LEMMA LeastNumber ==
  ASSUME NEW T \in SUBSET Nat, T # {}
  PROVE  \E x \in T : \A y \in T : x <= y
<1>1. PICK R : R = OpToRel(<, Nat)
  BY Zenon
<1>2. IsWellFoundedOn(R, Nat)
  BY <1>1, NatLessThanWellFounded, Zenon
<1>3. PICK x \in T : \A y \in T : ~(<<y, x>> \in R)
  BY <1>2, WFMin
<1>4. ASSUME NEW y \in T
      PROVE  x <= y
  <2>1. x \in Nat /\ y \in Nat
    OBVIOUS
  <2>2. y < x => <<y, x>> \in R
    BY <1>1, <2>1 DEF OpToRel
  <2>3. QED
    BY <1>3, <2>1, <2>2
<1>5. QED
  BY <1>4

-----------------------------------------------------------------------------
\* The first message with the id, if there is one.
LEMMA FirstWithId ==
  ASSUME NEW list \in Seq(Message), NEW id, Index(list, id) # {},
         NEW i, i = CHOOSE k \in Index(list, id) : \A j \in Index(list, id) : k <= j
  PROVE  i \in 1..Len(list) /\ list[i].id = id
<1>1. Index(list, id) \in SUBSET Nat
  BY DEF Index
<1>2. \E k \in Index(list, id) : \A j \in Index(list, id) : k <= j
  BY <1>1, LeastNumber
<1>3. i \in Index(list, id)
  BY <1>2
<1>4. QED
  BY <1>3 DEF Index

\* upsertMessage: the message is added or replaced.
LEMMA Upserted ==
  ASSUME NEW list \in Seq(Message), NEW m \in Message, NEW n, n = UpsertMessage(list, m)
  PROVE  \/ (\A k \in 1..Len(list) : list[k].id # m.id) /\ n = Append(list, m)
         \/ \E i \in 1..Len(list) : list[i].id = m.id /\ n = [list EXCEPT ![i] = m]
<1>1. CASE Index(list, m.id) = {}
  BY <1>1 DEF UpsertMessage, Index
<1>2. CASE Index(list, m.id) # {}
  <2>1. PICK i : i = CHOOSE k \in Index(list, m.id) : \A j \in Index(list, m.id) : k <= j
    OBVIOUS
  <2>2. i \in 1..Len(list) /\ list[i].id = m.id
    BY <1>2, <2>1, FirstWithId
  <2>3. n = [list EXCEPT ![i] = m]
    BY <1>2, <2>1 DEF UpsertMessage
  <2>4. QED
    BY <2>2, <2>3
<1>3. QED
  BY <1>1, <1>2

\* removeMessage: the message goes, if it is there.
LEMMA Dropped ==
  ASSUME NEW list \in Seq(Message), NEW id, NEW n, n = RemoveMessage(list, id)
  PROVE  \/ (\A k \in 1..Len(list) : list[k].id # id) /\ n = list
         \/ \E i \in 1..Len(list) : list[i].id = id /\ n = RemoveAt(list, i)
<1>1. CASE Index(list, id) = {}
  BY <1>1 DEF RemoveMessage, Index
<1>2. CASE Index(list, id) # {}
  <2>1. PICK i : i = CHOOSE k \in Index(list, id) : \A j \in Index(list, id) : k <= j
    OBVIOUS
  <2>2. i \in 1..Len(list) /\ list[i].id = id
    BY <1>2, <2>1, FirstWithId
  <2>3. n = RemoveAt(list, i)
    BY <1>2, <2>1 DEF RemoveMessage
  <2>4. QED
    BY <2>2, <2>3
<1>3. QED
  BY <1>1, <1>2

\* What a reaction event makes of a message.
Counted(m, add) ==
    [m EXCEPT !.reactions = IF add THEN @ + 1 ELSE IF @ = 0 THEN 0 ELSE @ - 1]

\* What a reaction event makes of a list.
Reacted(list, id, add) ==
    LET at == Index(list, id)
        first == CHOOSE j \in at : \A k \in at : j <= k
    IN IF at = {} THEN list
       ELSE [list EXCEPT ![first].reactions = IF add THEN @ + 1 ELSE IF @ = 0 THEN 0 ELSE @ - 1]

\* In the list, the i-th message is counted.
Counts(n, list, i, add) == n = [list EXCEPT ![i] = Counted(list[i], add)]

\* It changes the message, if it is there.
LEMMA ReactedFacts ==
  ASSUME NEW list \in Seq(Message), NEW id, NEW add, NEW n, n = Reacted(list, id, add)
  PROVE  \/ (\A k \in 1..Len(list) : list[k].id # id) /\ n = list
         \/ \E i \in 1..Len(list) : list[i].id = id /\ Counts(n, list, i, add)
<1>1. CASE Index(list, id) = {}
  BY <1>1 DEF Reacted, Index
<1>2. CASE Index(list, id) # {}
  <2>1. PICK i : i = CHOOSE k \in Index(list, id) : \A j \in Index(list, id) : k <= j
    OBVIOUS
  <2>2. i \in 1..Len(list) /\ list[i].id = id
    BY <1>2, <2>1, FirstWithId
  <2>3. n = [list EXCEPT ![i].reactions = IF add THEN @ + 1 ELSE IF @ = 0 THEN 0 ELSE @ - 1]
    BY <1>2, <2>1 DEF Reacted
  <2>4. Counts(n, list, i, add)
    BY <2>3 DEF Counted, Counts
  <2>5. QED
    BY <2>2, <2>4
<1>3. QED
  BY <1>1, <1>2

\* The record that comes of it.
LEMMA CountedFacts ==
  ASSUME NEW m \in Message, NEW add \in BOOLEAN
  PROVE  /\ Counted(m, add) \in Message /\ Counted(m, add).id = m.id
         /\ Counted(m, add).text = m.text
BY DEF Message, Counted

-----------------------------------------------------------------------------
(* Lists without repetitions, and what a message makes of them.            *)

\* The message is in the list.
In(m, list) == \E j \in 1..Len(list) : list[j] = m
\* No message of the list has the id.
NoId(id, list) == \A k \in 1..Len(list) : list[k].id # id

\* Messages that are not twice in a list, are not when one is added, ...
LEMMA AddedUnlike ==
  ASSUME NEW list, NEW n, NEW m, Adds(n, list, m), Len(list) \in Nat, Unlike(list), NoId(m.id, list)
  PROVE  Unlike(n)
BY DEF Adds, Unlike, NoId

\* ... one changes ...
LEMMA SetUnlike ==
  ASSUME NEW list, NEW n, NEW i, NEW m, Sets(n, list, i, m), Len(list) \in Nat, Unlike(list),
         m.id = list[i].id
  PROVE  Unlike(n)
BY DEF Sets, Unlike

\* ... or one goes.
LEMMA LackUnlike ==
  ASSUME NEW list, NEW n, NEW i, Lacks(n, list, i), Len(list) \in Nat, Len(n) \in Nat, Unlike(list)
  PROVE  Unlike(n)
<1> SUFFICES ASSUME NEW j \in 1..Len(n), NEW k \in 1..Len(n), n[j].id = n[k].id
             PROVE  j = k
  BY DEF Unlike
<1>1. PICK a \in 1..Len(list) : n[j] = list[a] /\ a = IF j < i THEN j ELSE j + 1
  BY DEF Lacks
<1>2. PICK b \in 1..Len(list) : n[k] = list[b] /\ b = IF k < i THEN k ELSE k + 1
  BY DEF Lacks
<1>3. a = b
  BY <1>1, <1>2 DEF Unlike
<1>4. QED
  BY <1>1, <1>2, <1>3 DEF Lacks

\* What is in the list then.
LEMMA StaysIn ==
  ASSUME NEW list, Len(list) \in Nat, NEW n, Len(n) \in Nat, NEW m, NEW i
  PROVE  /\ Adds(n, list, m) => In(m, n) /\ \A x : In(x, list) => In(x, n)
         /\ Sets(n, list, i, m) => In(m, n) /\ \A x : In(x, list) /\ x.id # list[i].id => In(x, n)
         /\ Lacks(n, list, i) => \A x : In(x, list) /\ x.id # list[i].id => In(x, n)
<1>1. ASSUME Adds(n, list, m)
      PROVE  In(m, n) /\ \A x : In(x, list) => In(x, n)
  BY <1>1 DEF Adds, In
<1>2. ASSUME Sets(n, list, i, m)
      PROVE  In(m, n) /\ \A x : In(x, list) /\ x.id # list[i].id => In(x, n)
  BY <1>2 DEF Sets, In
<1>3. ASSUME Lacks(n, list, i), NEW x, In(x, list), x.id # list[i].id
      PROVE  In(x, n)
  <2>1. PICK j \in 1..Len(list) : list[j] = x
    BY <1>3 DEF In
  <2>2. i \in 1..Len(list) /\ j # i
    BY <1>3, <2>1 DEF Lacks
  <2>3. CASE j < i
    <3>1. j \in 1..Len(n) /\ n[j] = x
      BY <1>3, <2>1, <2>2, <2>3 DEF Lacks
    <3>2. QED
      BY <3>1 DEF In
  <2>4. CASE i < j
    <3>1. j - 1 \in 1..Len(n) /\ ~(j - 1 < i) /\ j - 1 + 1 = j
      BY <1>3, <2>1, <2>2, <2>4 DEF Lacks
    <3>2. n[j - 1] = x
      BY <1>3, <2>1, <3>1 DEF Lacks
    <3>3. QED
      BY <3>1, <3>2 DEF In
  <2>5. QED
    BY <2>2, <2>3, <2>4
<1>4. QED
  BY <1>1, <1>2, <1>3

-----------------------------------------------------------------------------
\* What the screen shows of a log s, with the cursor cur: all of it, or messages of it.
Shows(tl, cur, s) ==
    /\ tl \in Seq(Message) /\ Unlike(tl)
    /\ IF cur = NoCursor THEN tl = s ELSE \A k \in 1..Len(tl) : In(tl[k], s)

\* A page of the log s, the newest first, that is all of it if it has no cursor.
PageOf(page, s) ==
    /\ page.items \in Seq(ServerMessage) /\ Unlike(page.items)
    /\ page.next = NoCursor =>
          Len(page.items) = Len(s) /\ \A k \in 1..Len(s) : page.items[k] = s[Len(s) + 1 - k]
    /\ \A k \in 1..Len(page.items) : In(page.items[k], s)

\* The log of the place was s when the message m was sent, and t afterwards; or m is
\* the answer to a request of the user about that place.
Follows(s, m, p, kind, t) ==
    /\ m.kind \in {"create", "update", "delete"} /\ m.place # p => t = s
    /\ m.kind = "create" /\ m.place = p => t = Append(s, m.msg) /\ NoId(m.msg.id, s)
    /\ m.kind = "update" /\ m.place = p =>
          \E i \in 1..Len(s) : s[i].id = m.msg.id /\ t = [s EXCEPT ![i] = m.msg]
    /\ m.kind = "delete" /\ m.place = p =>
          \E i \in 1..Len(s) : s[i].id = m.id /\ t = RemoveAt(s, i)
    /\ m.kind = "react" =>
          \/ NoId(m.id, s) /\ t = s
          \/ \E i \in 1..Len(s) : s[i].id = m.id /\ Counts(t, s, i, m.add)
    /\ m.kind = "message" => t = s /\ In(m.msg, s)
    /\ m.kind = "deleted" => t = s /\ NoId(m.id, s)
    /\ m.kind = "list" => t = s /\ m.list = kind /\ m.reset /\ PageOf(m.page, s)
    /\ m.kind # "failed"

\* What a message that is not a list makes of what is shown of the place p.
ChatAfter(tl, m, p) ==
    IF m.kind \in {"create", "update", "delete"} /\ m.place # p THEN tl
    ELSE IF m.kind \in {"create", "update", "message"} THEN UpsertMessage(tl, m.msg)
    ELSE IF m.kind \in {"delete", "deleted"} THEN RemoveMessage(tl, m.id)
    ELSE Reacted(tl, m.id, m.add)

\* The fields of what arrives.
LEMMA ArrivingFields ==
  ASSUME NEW m \in Arriving
  PROVE  /\ m.kind \in {"create", "update", "message"} => m.msg \in ServerMessage
         /\ m.kind \in {"create", "update", "delete"} => m.place \in Place
         /\ m.kind \in {"delete", "react", "deleted"} => m.id \in 1..MaxMessages
         /\ m.kind = "react" => m.add \in BOOLEAN
         /\ m.kind = "list" =>
               /\ m.list \in ListKind /\ m.reset \in BOOLEAN
               /\ m.page.items \in Seq(ServerMessage) /\ m.page.next \in 0..MaxMessages
         /\ m.kind \in {"create", "update", "delete", "react", "message", "deleted", "list", "failed"}
BY DEF Arriving

\* Messages of the server are messages.
LEMMA ServerMessages == ServerMessage \subseteq Message /\ Seq(ServerMessage) \subseteq Seq(Message)
<1>1. ServerMessage \subseteq Message
  BY DEF ServerMessage, Message
<1>2. QED
  BY <1>1, SeqMonotonic

\* A message keeps the list without repetitions.
LEMMA AfterUnlike ==
  ASSUME NEW tl \in Seq(Message), NEW m \in Arriving, m.kind \notin {"list", "failed"},
         NEW p, NEW n, n = ChatAfter(tl, m, p)
  PROVE  n \in Seq(Message) /\ (Unlike(tl) => Unlike(n))
<1>1. Len(tl) \in Nat
  BY LenProperties
<1>2. CASE n = tl
  BY <1>2
<1>3. CASE m.kind \in {"create", "update", "message"} /\ n = UpsertMessage(tl, m.msg)
  <2>1. PICK x \in Message : x = m.msg
    BY <1>3, ArrivingFields, ServerMessages
  <2>2. CASE NoId(x.id, tl) /\ n = Append(tl, x)
    BY <1>1, <2>2, Appended, AddedUnlike
  <2>3. CASE \E i \in 1..Len(tl) : tl[i].id = x.id /\ n = [tl EXCEPT ![i] = x]
    <3>1. PICK i \in 1..Len(tl) : tl[i].id = x.id /\ n = [tl EXCEPT ![i] = x]
      BY <2>3
    <3>2. n \in Seq(Message) /\ Sets(n, tl, i, x)
      BY <3>1, Replaced
    <3>3. QED
      BY <1>1, <3>1, <3>2, SetUnlike
  <2>4. n = UpsertMessage(tl, x)
    BY <1>3, <2>1
  <2>5. \/ (\A k \in 1..Len(tl) : tl[k].id # x.id) /\ n = Append(tl, x)
        \/ \E i \in 1..Len(tl) : tl[i].id = x.id /\ n = [tl EXCEPT ![i] = x]
    BY <2>4, Upserted
  <2>6. QED
    BY <2>2, <2>3, <2>5 DEF NoId
<1>4. CASE n = RemoveMessage(tl, m.id)
  <2>1. CASE \E i \in 1..Len(tl) : tl[i].id = m.id /\ n = RemoveAt(tl, i)
    BY <1>1, <2>1, Removed, LackUnlike, LenProperties
  <2>2. QED
    BY <1>2, <1>4, <2>1, Dropped
<1>5. CASE m.kind = "react" /\ n = Reacted(tl, m.id, m.add)
  <2>1. m.add \in BOOLEAN
    BY <1>5, ArrivingFields
  <2>2. ASSUME NEW i \in 1..Len(tl), Counts(n, tl, i, m.add)
        PROVE  n \in Seq(Message) /\ (Unlike(tl) => Unlike(n))
    <3>1. PICK x \in Message : x = Counted(tl[i], m.add) /\ x.id = tl[i].id
      BY <2>1, CountedFacts, ElementOfSeq
    <3>2. tl[i] \in Message
      BY ElementOfSeq
    <3>3. n \in Seq(Message) /\ Sets(n, tl, i, x)
      BY <2>2, <3>1, Replaced DEF Counts
    <3>4. QED
      BY <1>1, <3>1, <3>3, SetUnlike
  <2>3. QED
    BY <1>2, <1>5, <2>2, ReactedFacts
<1>6. QED
  BY <1>2, <1>3, <1>4, <1>5, ArrivingFields DEF ChatAfter

-----------------------------------------------------------------------------
(* A log, changed as the client changes the screen, is the log again.      *)

\* Every message shown is in the log s.
AllIn(tl, s) == \A k \in 1..Len(tl) : In(tl[k], s)

\* What is in s and has another id than the message changed is in t.
Spares(s, id, t) == \A y : In(y, s) /\ y.id # id => In(y, t)

\* A part of s that is changed like s is a part of what comes of it.
LEMMA PartStays ==
  ASSUME NEW tl \in Seq(Message), Unlike(tl), NEW s, AllIn(tl, s), NEW t, NEW id, Spares(s, id, t),
         NEW n, Len(n) \in Nat, NEW x, NEW j
  PROVE  /\ NoId(id, tl) => AllIn(tl, t)
         /\ Adds(n, tl, x) /\ NoId(id, tl) /\ In(x, t) => AllIn(n, t)
         /\ Sets(n, tl, j, x) /\ tl[j].id = id /\ In(x, t) => AllIn(n, t)
         /\ Lacks(n, tl, j) /\ tl[j].id = id => AllIn(n, t)
<1>1. Len(tl) \in Nat
  BY LenProperties
<1>2. ASSUME NEW k \in 1..Len(tl), tl[k].id # id
      PROVE  In(tl[k], t)
  BY <1>2 DEF AllIn, Spares
<1>3. ASSUME NoId(id, tl)
      PROVE  AllIn(tl, t)
  BY <1>2, <1>3 DEF NoId, AllIn
<1>4. ASSUME Adds(n, tl, x), NoId(id, tl), In(x, t)
      PROVE  AllIn(n, t)
  <2>1. \A k \in 1..Len(n) : k = Len(n) \/ k \in 1..Len(tl)
    BY <1>1, <1>4 DEF Adds
  <2>2. QED
    BY <1>3, <1>4, <2>1 DEF Adds, AllIn
<1>5. ASSUME Sets(n, tl, j, x), tl[j].id = id, In(x, t)
      PROVE  AllIn(n, t)
  <2>1. ASSUME NEW k \in 1..Len(n)
        PROVE  In(n[k], t)
    <3>1. k \in 1..Len(tl) /\ j \in 1..Len(tl) /\ n[k] = IF k = j THEN x ELSE tl[k]
      BY <1>5 DEF Sets
    <3>2. k # j => tl[k].id # id
      BY <1>5, <3>1 DEF Unlike
    <3>3. QED
      BY <1>2, <1>5, <3>1, <3>2
  <2>2. QED
    BY <2>1 DEF AllIn
<1>6. ASSUME Lacks(n, tl, j), tl[j].id = id
      PROVE  AllIn(n, t)
  <2>1. ASSUME NEW k \in 1..Len(n)
        PROVE  In(n[k], t)
    <3>1. PICK l \in 1..Len(tl) : n[k] = tl[l] /\ l # j /\ j \in 1..Len(tl)
      <4>1. CASE k < j
        BY <1>1, <1>6, <4>1 DEF Lacks
      <4>2. CASE ~(k < j)
        <5>1. k + 1 \in 1..Len(tl) /\ k + 1 # j /\ n[k] = tl[k + 1] /\ j \in 1..Len(tl)
          BY <1>1, <1>6, <4>2 DEF Lacks
        <5>2. QED
          BY <5>1
      <4>3. QED
        BY <4>1, <4>2
    <3>2. tl[l].id # id
      BY <1>6, <3>1 DEF Unlike
    <3>3. QED
      BY <1>2, <3>1, <3>2
  <2>2. QED
    BY <2>1 DEF AllIn
<1>7. QED
  BY <1>3, <1>4, <1>5, <1>6

-----------------------------------------------------------------------------
\* All of a log, changed as the log is, is all of it again.
LEMMA WholeFollows ==
  ASSUME NEW s \in Snapshot, NEW t, NEW m \in Arriving, m.kind # "list",
         NEW p, NEW kind, Follows(s, m, p, kind, t), NEW n, n = ChatAfter(s, m, p)
  PROVE  n = t
<1>1. s \in Seq(ServerMessage) /\ s \in Seq(Message) /\ Unlike(s)
  BY ServerMessages DEF Snapshot
<1>2. CASE m.kind \in {"create", "update", "delete"} /\ m.place # p
  BY <1>2 DEF Follows, ChatAfter
<1>3. ASSUME m.kind \in {"create", "update"} => m.place = p, m.kind \in {"create", "update", "message"}
      PROVE  n = t
  <2>1. PICK x \in Message : x = m.msg
    BY <1>3, ArrivingFields, ServerMessages
  <2>2. n = UpsertMessage(s, x)
    BY <1>3, <2>1 DEF ChatAfter
  <2>3. \/ NoId(x.id, s) /\ n = Append(s, x)
        \/ \E i \in 1..Len(s) : s[i].id = x.id /\ n = [s EXCEPT ![i] = x]
    BY <1>1, <2>2, Upserted DEF NoId
  <2>4. CASE m.kind = "create"
    <3>1. t = Append(s, x) /\ NoId(x.id, s)
      BY <1>3, <2>1, <2>4 DEF Follows
    <3>2. QED
      BY <2>3, <3>1 DEF NoId
  <2>5. CASE m.kind = "update"
    <3>1. PICK i \in 1..Len(s) : s[i].id = x.id /\ t = [s EXCEPT ![i] = x]
      BY <1>3, <2>1, <2>5 DEF Follows
    <3>2. PICK j \in 1..Len(s) : s[j].id = x.id /\ n = [s EXCEPT ![j] = x]
      BY <2>3, <3>1 DEF NoId
    <3>3. i = j
      BY <1>1, <3>1, <3>2 DEF Unlike
    <3>4. QED
      BY <3>1, <3>2, <3>3
  <2>6. CASE m.kind = "message"
    <3>1. PICK i \in 1..Len(s) : t = s /\ s[i] = x
      BY <2>1, <2>6 DEF Follows, In
    <3>2. PICK j \in 1..Len(s) : s[j].id = x.id /\ n = [s EXCEPT ![j] = x]
      BY <2>3, <3>1 DEF NoId
    <3>3. i = j
      BY <1>1, <3>1, <3>2 DEF Unlike
    <3>4. n \in Seq(Message) /\ Len(n) = Len(s) /\ \A k \in 1..Len(n) : n[k] = s[k]
      BY <1>1, <3>1, <3>2, <3>3, ExceptSeq
    <3>5. n = s
      BY <1>1, <3>4, SeqEqual
    <3>6. QED
      BY <3>1, <3>5
  <2>7. QED
    BY <1>3, <2>4, <2>5, <2>6
<1>4. CASE m.kind \in {"delete", "deleted"} /\ (m.kind = "delete" => m.place = p)
  <2>1. n = RemoveMessage(s, m.id)
    BY <1>4 DEF ChatAfter
  <2>2. \/ NoId(m.id, s) /\ n = s
        \/ \E i \in 1..Len(s) : s[i].id = m.id /\ n = RemoveAt(s, i)
    BY <1>1, <2>1, Dropped DEF NoId
  <2>3. CASE m.kind = "deleted"
    BY <2>2, <2>3 DEF Follows, NoId
  <2>4. CASE m.kind = "delete"
    <3>1. PICK i \in 1..Len(s) : s[i].id = m.id /\ t = RemoveAt(s, i)
      BY <1>4, <2>4 DEF Follows
    <3>2. PICK j \in 1..Len(s) : s[j].id = m.id /\ n = RemoveAt(s, j)
      BY <2>2, <3>1 DEF NoId
    <3>3. i = j
      BY <1>1, <3>1, <3>2 DEF Unlike
    <3>4. QED
      BY <3>1, <3>2, <3>3
  <2>5. QED
    BY <1>4, <2>3, <2>4
<1>5. CASE m.kind = "react"
  <2>1. n = Reacted(s, m.id, m.add)
    BY <1>5 DEF ChatAfter
  <2>2. \/ NoId(m.id, s) /\ n = s
        \/ \E i \in 1..Len(s) : s[i].id = m.id /\ Counts(n, s, i, m.add)
    <3>1. PICK id, add : id = m.id /\ add = m.add /\ n = Reacted(s, id, add)
      BY <2>1
    <3>2. \/ (\A k \in 1..Len(s) : s[k].id # id) /\ n = s
          \/ \E i \in 1..Len(s) : s[i].id = id /\ Counts(n, s, i, add)
      BY <1>1, <3>1, ReactedFacts
    <3>3. QED
      BY <3>1, <3>2 DEF NoId
  <2>3. \/ NoId(m.id, s) /\ t = s
        \/ \E i \in 1..Len(s) : s[i].id = m.id /\ Counts(t, s, i, m.add)
    BY <1>5 DEF Follows
  <2>4. CASE NoId(m.id, s)
    BY <2>2, <2>3, <2>4 DEF NoId
  <2>5. CASE ~NoId(m.id, s)
    <3>1. PICK i \in 1..Len(s) : s[i].id = m.id /\ Counts(t, s, i, m.add)
      BY <2>3, <2>5
    <3>2. PICK j \in 1..Len(s) : s[j].id = m.id /\ Counts(n, s, j, m.add)
      BY <2>2, <2>5
    <3>3. i = j
      BY <1>1, <3>1, <3>2 DEF Unlike
    <3>4. QED
      BY <3>1, <3>2, <3>3 DEF Counts
  <2>6. QED
    BY <2>4, <2>5
<1>6. QED
  BY <1>2, <1>3, <1>4, <1>5, ArrivingFields DEF Follows

\* Messages of a log, changed as the log is, are of it again.
LEMMA PartFollows ==
  ASSUME NEW s \in Snapshot, NEW t \in Snapshot, NEW m \in Arriving, m.kind # "list",
         NEW p, NEW kind, Follows(s, m, p, kind, t),
         NEW tl \in Seq(Message), Unlike(tl), AllIn(tl, s), NEW n, n = ChatAfter(tl, m, p)
  PROVE  AllIn(n, t)
<1>1. /\ s \in Seq(ServerMessage) /\ t \in Seq(ServerMessage) /\ Unlike(s)
      /\ Len(s) \in Nat /\ Len(t) \in Nat /\ Len(tl) \in Nat
  BY LenProperties DEF Snapshot
<1>2. n \in Seq(Message) /\ Len(n) \in Nat
  BY AfterUnlike, LenProperties DEF Follows
<1>3. ASSUME NEW id, NoId(id, s)
      PROVE  NoId(id, tl)
  BY <1>3 DEF NoId, AllIn, In
<1>4. CASE m.kind \in {"create", "update", "delete"} /\ m.place # p
  BY <1>4 DEF Follows, ChatAfter
<1>5. ASSUME m.kind \in {"create", "update"} => m.place = p, m.kind \in {"create", "update", "message"}
      PROVE  AllIn(n, t)
  <2>1. PICK x \in ServerMessage : x = m.msg
    BY <1>5, ArrivingFields
  <2>2. x \in Message /\ n = UpsertMessage(tl, x)
    BY <1>5, <2>1, ServerMessages DEF ChatAfter
  <2>3. \/ NoId(x.id, tl) /\ n = Append(tl, x)
        \/ \E i \in 1..Len(tl) : tl[i].id = x.id /\ n = [tl EXCEPT ![i] = x]
    BY <2>2, Upserted DEF NoId
  <2>4. In(x, t) /\ Spares(s, x.id, t)
    <3>1. CASE m.kind = "create"
      <4>1. t = Append(s, x)
        BY <1>5, <2>1, <3>1 DEF Follows
      <4>2. Adds(t, s, x)
        BY <1>1, <4>1, Appended
      <4>3. QED
        BY <1>1, <4>2, StaysIn DEF Spares
    <3>2. CASE m.kind = "update"
      <4>1. PICK i \in 1..Len(s) : s[i].id = x.id /\ t = [s EXCEPT ![i] = x]
        BY <1>5, <2>1, <3>2 DEF Follows
      <4>2. Sets(t, s, i, x)
        BY <1>1, <4>1, Replaced
      <4>3. QED
        BY <1>1, <4>1, <4>2, StaysIn DEF Spares
    <3>3. CASE m.kind = "message"
      BY <2>1, <3>3 DEF Follows, Spares
    <3>4. QED
      BY <1>5, <3>1, <3>2, <3>3
  <2>5. CASE NoId(x.id, tl) /\ n = Append(tl, x)
    <3>1. Adds(n, tl, x)
      BY <2>2, <2>5, Appended
    <3>2. QED
      BY <1>2, <2>4, <2>5, <3>1, PartStays
  <2>6. ASSUME NEW i \in 1..Len(tl), tl[i].id = x.id, n = [tl EXCEPT ![i] = x]
        PROVE  AllIn(n, t)
    <3>1. Sets(n, tl, i, x)
      BY <2>2, <2>6, Replaced
    <3>2. QED
      BY <1>2, <2>4, <2>6, <3>1, PartStays
  <2>7. QED
    BY <2>3, <2>5, <2>6
<1>6. CASE m.kind = "deleted"
  <2>1. NoId(m.id, tl) /\ t = s /\ n = RemoveMessage(tl, m.id)
    BY <1>3, <1>6 DEF Follows, ChatAfter
  <2>2. n = tl
    BY <2>1, Dropped DEF NoId
  <2>3. QED
    BY <2>1, <2>2
<1>7. CASE m.kind = "delete" /\ m.place = p
  <2>1. PICK id : id = m.id
    OBVIOUS
  <2>2. n = RemoveMessage(tl, id)
    BY <1>7, <2>1 DEF ChatAfter
  <2>3. \/ NoId(id, tl) /\ n = tl
        \/ \E i \in 1..Len(tl) : tl[i].id = id /\ n = RemoveAt(tl, i)
    BY <2>2, Dropped DEF NoId
  <2>4. PICK i \in 1..Len(s) : s[i].id = id /\ t = RemoveAt(s, i)
    BY <1>7, <2>1 DEF Follows
  <2>5. Lacks(t, s, i)
    BY <1>1, <2>4, Removed
  <2>6. Spares(s, id, t)
    BY <1>1, <2>4, <2>5, StaysIn DEF Spares
  <2>7. CASE NoId(id, tl) /\ n = tl
    BY <1>2, <2>6, <2>7, PartStays
  <2>8. ASSUME NEW j \in 1..Len(tl), tl[j].id = id, n = RemoveAt(tl, j)
        PROVE  AllIn(n, t)
    <3>1. Lacks(n, tl, j)
      BY <2>8, Removed
    <3>2. QED
      BY <1>2, <2>6, <2>8, <3>1, PartStays
  <2>9. QED
    BY <2>3, <2>7, <2>8
<1>8. CASE m.kind = "react"
  <2>1. PICK id, add : add \in BOOLEAN /\ id = m.id /\ add = m.add /\ n = Reacted(tl, id, add)
    BY <1>8, ArrivingFields DEF ChatAfter
  <2>2. \/ NoId(id, tl) /\ n = tl
        \/ \E i \in 1..Len(tl) : tl[i].id = id /\ Counts(n, tl, i, add)
    BY <2>1, ReactedFacts DEF NoId
  <2> add \in BOOLEAN
    BY <2>1
  <2>3. CASE NoId(id, s) /\ t = s
    <3>1. NoId(id, tl)
      BY <1>3, <2>3
    <3>2. n = tl
      BY <2>2, <3>1 DEF NoId
    <3>3. QED
      BY <2>3, <3>2
  <2>4. ASSUME NEW i \in 1..Len(s), s[i].id = id, Counts(t, s, i, add)
        PROVE  AllIn(n, t)
    <3>1. PICK y \in Message : y = s[i]
      BY <1>1, ElementOfSeq, ServerMessages
    <3>2. PICK x \in Message : x = Counted(y, add) /\ x.id = id
      BY <2>4, <3>1, CountedFacts
    <3>3. s \in Seq(Message) /\ t = [s EXCEPT ![i] = x]
      BY <1>1, <2>4, <3>1, <3>2, ServerMessages DEF Counts
    <3>4. Sets(t, s, i, x)
      BY <3>3, Replaced
    <3>5. In(x, t) /\ Spares(s, id, t)
      BY <1>1, <2>4, <3>4, StaysIn DEF Spares
    <3>6. CASE NoId(id, tl) /\ n = tl
      BY <1>2, <3>5, <3>6, PartStays
    <3>7. ASSUME NEW j \in 1..Len(tl), tl[j].id = id, Counts(n, tl, j, add)
          PROVE  AllIn(n, t)
      <4>1. PICK k \in 1..Len(s) : s[k] = tl[j]
        BY DEF AllIn, In
      <4>2. k = i
        BY <1>1, <2>4, <3>7, <4>1 DEF Unlike
      <4>3. n = [tl EXCEPT ![j] = x]
        BY <3>1, <3>2, <3>7, <4>1, <4>2 DEF Counts
      <4>4. Sets(n, tl, j, x)
        BY <4>3, Replaced
      <4>5. QED
        BY <1>2, <3>5, <3>7, <4>4, PartStays
    <3>8. QED
      BY <2>2, <3>6, <3>7
  <2>5. QED
    BY <1>8, <2>1, <2>3, <2>4 DEF Follows
<1>9. QED
  BY <1>4, <1>5, <1>6, <1>7, <1>8, ArrivingFields DEF Follows

\* What is shown stays right.
LEMMA ShowsAfter ==
  ASSUME NEW s \in Snapshot, NEW t \in Snapshot, NEW m \in Arriving, m.kind # "list",
         NEW p, NEW kind, Follows(s, m, p, kind, t),
         NEW tl, NEW cur, Shows(tl, cur, s), NEW n, n = ChatAfter(tl, m, p)
  PROVE  Shows(n, cur, t)
<1>1. tl \in Seq(Message) /\ Unlike(tl)
  BY DEF Shows
<1>2. n \in Seq(Message) /\ Unlike(n)
  BY <1>1, AfterUnlike DEF Follows
<1>3. CASE cur = NoCursor
  <2>1. tl = s
    BY <1>3 DEF Shows
  <2>2. n = t
    BY <2>1, WholeFollows
  <2>3. QED
    BY <1>2, <1>3, <2>2 DEF Shows
<1>4. CASE cur # NoCursor
  <2>1. AllIn(tl, s)
    BY <1>4 DEF Shows, AllIn
  <2>2. AllIn(n, t)
    BY <1>1, <2>1, PartFollows
  <2>3. QED
    BY <1>2, <1>4, <2>2 DEF Shows, AllIn
<1>5. QED
  BY <1>3, <1>4

\* A list the other way round.
LEMMA ReversedFacts ==
  ASSUME NEW items \in Seq(ServerMessage), NEW n, n = Reverse(items)
  PROVE  /\ n \in Seq(Message) /\ n \in Seq(ServerMessage) /\ Len(n) = Len(items) /\ Len(items) \in Nat
         /\ \A i \in 1..Len(items) :
               (Len(items) - i) + 1 \in 1..Len(items) /\ n[i] = items[(Len(items) - i) + 1]
         /\ Unlike(items) => Unlike(n)
<1>1. /\ Len(items) \in Nat /\ n = [i \in 1..Len(items) |-> items[(Len(items) - i) + 1]]
      /\ \A i \in 1..Len(items) : items[i] \in ServerMessage
  BY LenProperties, ElementOfSeq DEF Reverse
<1>2. n \in Seq(ServerMessage) /\ Len(n) = Len(items)
  <2>1. \A i \in 1..Len(items) : (Len(items) - i) + 1 \in 1..Len(items)
    BY <1>1
  <2>2. QED
    BY <1>1, <2>1
<1>3. \A i \in 1..Len(items) :
          (Len(items) - i) + 1 \in 1..Len(items) /\ n[i] = items[(Len(items) - i) + 1]
  BY <1>1
<1>4. n \in Seq(Message)
  BY <1>2, ServerMessages
<1>5. ASSUME Unlike(items)
      PROVE  Unlike(n)
  <2>1. ASSUME NEW i \in 1..Len(n), NEW j \in 1..Len(n), n[i].id = n[j].id
        PROVE  i = j
    <3>1. PICK a \in 1..Len(items) : a = (Len(items) - i) + 1 /\ n[i] = items[a]
      BY <1>2, <1>3
    <3>2. PICK b \in 1..Len(items) : b = (Len(items) - j) + 1 /\ n[j] = items[b]
      BY <1>2, <1>3
    <3>3. a = b
      BY <1>5, <2>1, <3>1, <3>2 DEF Unlike
    <3>4. QED
      BY <1>1, <1>2, <3>1, <3>2, <3>3
  <2>2. QED
    BY <2>1 DEF Unlike
<1>6. QED
  BY <1>1, <1>2, <1>3, <1>4, <1>5

\* A list that has arrived is right.
LEMMA ShowsListed ==
  ASSUME NEW s \in Snapshot, NEW page, PageOf(page, s), NEW n, n = Reverse(page.items)
  PROVE  Shows(n, page.next, s)
<1>1. PICK items \in Seq(ServerMessage) : items = page.items /\ Unlike(items)
  BY DEF PageOf
<1>2. /\ n \in Seq(Message) /\ n \in Seq(ServerMessage) /\ Unlike(n)
      /\ Len(n) = Len(items) /\ Len(items) \in Nat
  BY <1>1, ReversedFacts
<1>3. \A i \in 1..Len(items) :
          (Len(items) - i) + 1 \in 1..Len(items) /\ n[i] = items[(Len(items) - i) + 1]
  BY <1>1, ReversedFacts
<1>4. CASE page.next = NoCursor
  <2>1. Len(items) = Len(s) /\ \A k \in 1..Len(s) : items[k] = s[Len(s) + 1 - k]
    BY <1>1, <1>4 DEF PageOf
  <2>2. ASSUME NEW i \in 1..Len(n)
        PROVE  n[i] = s[i]
    <3>1. /\ (Len(items) - i) + 1 \in 1..Len(s) /\ n[i] = items[(Len(items) - i) + 1]
          /\ Len(s) + 1 - ((Len(items) - i) + 1) = i
      BY <1>2, <1>3, <2>1
    <3>2. QED
      BY <2>1, <3>1
  <2>3. n = s
    BY <1>2, <2>1, <2>2, SeqEqual DEF Snapshot
  <2>4. QED
    BY <1>2, <1>4, <2>3 DEF Shows
<1>5. CASE page.next # NoCursor
  BY <1>1, <1>2, <1>3, <1>5 DEF Shows, PageOf
<1>6. QED
  BY <1>4, <1>5

-----------------------------------------------------------------------------
(* The queue as a history of the log.                                      *)

\* The log of the place was S[k] when the k-th message of the queue had been sent.
\* The messages behind the k0-th tell how it changed, and that one, if k0 is not 0,
\* is a list of it.
Told(q, S, k0, p, kind) ==
    /\ S \in [0..Len(q) -> Snapshot] /\ k0 \in 0..Len(q)
    /\ \A k \in 1..Len(q) : k > k0 => Follows(S[k - 1], q[k], p, kind, S[k])
    /\ k0 > 0 => /\ q[k0].kind = "list" /\ q[k0].list = kind /\ q[k0].reset
                 /\ PageOf(q[k0].page, S[k0])

\* What is shown of the place p comes to what the log of p is when the messages of the
\* queue have been delivered: it is what the log was, or will be replaced.
Synced(q, p, kind, tl, cur, log1) ==
    \E S, k0 : /\ Told(q, S, k0, p, kind) /\ S[Len(q)] = log1
               /\ k0 = 0 => Shows(tl, cur, S[0])

\* One more message.
LEMMA SyncedMore ==
  ASSUME NEW q \in Seq(Arriving), NEW p, NEW kind, NEW tl, NEW cur, NEW s,
         Synced(q, p, kind, tl, cur, s),
         NEW m \in Arriving, NEW t \in Snapshot, Follows(s, m, p, kind, t),
         NEW r, r = Append(q, m)
  PROVE  Synced(r, p, kind, tl, cur, t)
<1>1. PICK S, k0 : /\ Told(q, S, k0, p, kind) /\ S[Len(q)] = s
                   /\ k0 = 0 => Shows(tl, cur, S[0])
  BY DEF Synced
<1>2. PICK n \in Nat : n = Len(q)
  BY LenProperties
<1>3. Len(r) = n + 1 /\ r[n + 1] = m /\ \A k \in 1..n : r[k] = q[k]
  BY <1>2, Appended DEF Adds
<1>4. PICK T : T = [k \in 0..(n + 1) |-> IF k = n + 1 THEN t ELSE S[k]]
  OBVIOUS
<1>5. /\ S \in [0..n -> Snapshot] /\ k0 \in 0..n
      /\ \A k \in 1..n : k > k0 => Follows(S[k - 1], q[k], p, kind, S[k])
  BY <1>1, <1>2 DEF Told
<1>6. /\ T \in [0..(n + 1) -> Snapshot] /\ T[n + 1] = t
      /\ \A k \in 0..n : T[k] = S[k]
  BY <1>2, <1>4, <1>5
<1>7. ASSUME NEW k \in 1..(n + 1), k > k0
      PROVE  Follows(T[k - 1], r[k], p, kind, T[k])
  <2>1. CASE k = n + 1
    <3>1. k - 1 = n /\ n \in 0..n
      BY <1>2, <2>1
    <3>2. T[k - 1] = s /\ r[k] = m /\ T[k] = t
      BY <1>1, <1>2, <1>3, <1>6, <2>1, <3>1
    <3>3. QED
      BY <3>2
  <2>2. CASE k # n + 1
    <3>1. k \in 1..n /\ k \in 0..n /\ k - 1 \in 0..n
      BY <1>2, <2>2
    <3>2. T[k - 1] = S[k - 1] /\ r[k] = q[k] /\ T[k] = S[k]
      BY <1>3, <1>6, <3>1
    <3>3. Follows(S[k - 1], q[k], p, kind, S[k])
      BY <1>5, <1>7, <3>1
    <3>4. QED
      BY <3>2, <3>3
  <2>3. QED
    BY <2>1, <2>2
<1>8. /\ k0 \in 0..(n + 1) /\ (k0 > 0 => k0 \in 1..n)
      /\ 0 \in 0..n
  BY <1>2, <1>5
<1>9. k0 > 0 => /\ r[k0].kind = "list" /\ r[k0].list = kind /\ r[k0].reset
                /\ PageOf(r[k0].page, T[k0])
  <2>1. ASSUME k0 > 0
        PROVE  r[k0] = q[k0] /\ T[k0] = S[k0]
    BY <1>3, <1>5, <1>6, <1>8, <2>1
  <2>2. QED
    BY <1>1, <2>1 DEF Told
<1>10. Told(r, T, k0, p, kind)
  BY <1>3, <1>6, <1>7, <1>8, <1>9 DEF Told
<1>11. QED
  BY <1>1, <1>3, <1>6, <1>8, <1>10 DEF Synced

\* A list of the place that is asked for now.
LEMMA SyncedAnew ==
  ASSUME NEW q \in Seq(Arriving), NEW p, NEW kind, NEW tl, NEW cur, NEW s \in Snapshot,
         NEW m \in Arriving, m.kind = "list", m.list = kind, m.reset, PageOf(m.page, s),
         NEW r, r = Append(q, m)
  PROVE  Synced(r, p, kind, tl, cur, s)
<1>1. PICK n \in Nat : n = Len(q)
  BY LenProperties
<1>2. Len(r) = n + 1 /\ r[n + 1] = m
  BY <1>1, Appended DEF Adds
<1>3. PICK T : T = [k \in 0..(n + 1) |-> s]
  OBVIOUS
<1>4. T \in [0..(n + 1) -> Snapshot] /\ T[n + 1] = s /\ n + 1 \in 0..(n + 1) /\ n + 1 > 0
  BY <1>1, <1>3
<1>5. Told(r, T, n + 1, p, kind)
  BY <1>1, <1>2, <1>4 DEF Told
<1>6. n + 1 # 0
  BY <1>1
<1>7. QED
  BY <1>2, <1>4, <1>5, <1>6 DEF Synced

\* The first message is delivered.
LEMMA SyncedHead ==
  ASSUME NEW q \in Seq(Arriving), NEW p, NEW kind, NEW tl, NEW cur, NEW s,
         Synced(q, p, kind, tl, cur, s), 1 \in 1..Len(q),
         NEW n, NEW c,
         \A u, v \in Snapshot : Follows(u, q[1], p, kind, v) /\ Shows(tl, cur, u) => Shows(n, c, v),
         \A v \in Snapshot : q[1].kind = "list" /\ q[1].list = kind /\ PageOf(q[1].page, v) =>
            Shows(n, c, v),
         NEW rest \in Seq(Arriving), Lacks(rest, q, 1)
  PROVE  Synced(rest, p, kind, n, c, s)
<1>1. PICK S, k0 : /\ Told(q, S, k0, p, kind) /\ S[Len(q)] = s
                   /\ k0 = 0 => Shows(tl, cur, S[0])
  BY DEF Synced
<1>2. PICK l \in Nat : l = Len(rest) /\ Len(q) = l + 1
  BY LenProperties DEF Lacks
<1>3. \A k \in 1..l : rest[k] = q[k + 1]
  BY <1>2 DEF Lacks
<1>4. PICK T : T = [k \in 0..l |-> S[k + 1]]
  OBVIOUS
<1>5. PICK j0 : j0 = IF k0 = 0 THEN 0 ELSE k0 - 1
  OBVIOUS
<1>6. /\ S \in [0..(l + 1) -> Snapshot] /\ k0 \in 0..(l + 1)
      /\ \A k \in 1..(l + 1) : k > k0 => Follows(S[k - 1], q[k], p, kind, S[k])
  BY <1>1, <1>2 DEF Told
<1>7. /\ \A k \in 0..l : k + 1 \in 0..(l + 1) /\ T[k] = S[k + 1]
      /\ T \in [0..l -> Snapshot] /\ T[l] = s
  BY <1>1, <1>2, <1>4, <1>6
<1>8. j0 \in 0..l
  BY <1>2, <1>5, <1>6
<1>9. ASSUME NEW k \in 1..l, k > j0
      PROVE  Follows(T[k - 1], rest[k], p, kind, T[k])
  <2>1. k + 1 \in 1..(l + 1) /\ k + 1 > k0 /\ k - 1 \in 0..l /\ k \in 0..l
        /\ k + 1 - 1 = k /\ k - 1 + 1 = k
    BY <1>2, <1>5, <1>6, <1>9
  <2>2. Follows(S[k], q[k + 1], p, kind, S[k + 1])
    BY <1>6, <2>1
  <2>3. T[k - 1] = S[k] /\ rest[k] = q[k + 1] /\ T[k] = S[k + 1]
    BY <1>3, <1>7, <2>1
  <2>4. QED
    BY <2>2, <2>3
<1>10. j0 > 0 => /\ rest[j0].kind = "list" /\ rest[j0].list = kind /\ rest[j0].reset
                 /\ PageOf(rest[j0].page, T[j0])
  <2>1. ASSUME j0 > 0
        PROVE  k0 > 0 /\ rest[j0] = q[k0] /\ T[j0] = S[k0]
    <3>1. k0 = j0 + 1 /\ k0 > 0 /\ j0 \in 1..l /\ j0 \in 0..l
      BY <1>2, <1>5, <1>6, <1>8, <2>1
    <3>2. QED
      BY <1>3, <1>7, <3>1
  <2>2. QED
    BY <1>1, <2>1 DEF Told
<1>11. Told(rest, T, j0, p, kind)
  BY <1>2, <1>7, <1>8, <1>9, <1>10 DEF Told
<1>12. ASSUME j0 = 0
       PROVE  Shows(n, c, T[0])
  <2>1. T[0] = S[1] /\ S[0] \in Snapshot /\ S[1] \in Snapshot
    <3>1. 0 \in 0..l /\ 0 + 1 = 1 /\ 1 \in 0..(l + 1) /\ 0 \in 0..(l + 1)
      BY <1>2
    <3>2. QED
      BY <1>6, <1>7, <3>1
  <2>2. CASE k0 = 0
    <3>1. 1 \in 1..(l + 1) /\ 1 > k0 /\ 1 - 1 = 0
      BY <1>2, <2>2
    <3>2. Follows(S[0], q[1], p, kind, S[1])
      BY <1>6, <3>1
    <3>3. QED
      BY <1>1, <2>1, <2>2, <3>2
  <2>3. CASE k0 # 0
    <3>1. k0 = 1
      BY <1>5, <1>6, <1>12, <2>3
    <3>2. QED
      BY <1>1, <2>1, <3>1 DEF Told
  <2>4. QED
    BY <2>2, <2>3
<1>13. QED
  BY <1>2, <1>7, <1>11, <1>12 DEF Synced

\* With an empty queue the screen is right.
LEMMA SyncedAtRest ==
  ASSUME NEW q, Len(q) = 0, NEW p, NEW kind, NEW tl, NEW cur, NEW s, Synced(q, p, kind, tl, cur, s)
  PROVE  Shows(tl, cur, s)
<1>1. PICK S, k0 : /\ Told(q, S, k0, p, kind) /\ S[Len(q)] = s
                   /\ k0 = 0 => Shows(tl, cur, S[0])
  BY DEF Synced
<1>2. k0 = 0
  BY <1>1 DEF Told
<1>3. QED
  BY <1>1, <1>2

-----------------------------------------------------------------------------
(* The server: what happens is told, and an answer follows.                *)

\* Ids are given once: in the log of a place, and of all places.
LogsSound ==
    /\ \A p \in Place : Unlike(log[p]) /\ \A i \in 1..Len(log[p]) : log[p][i].id <= written
    /\ \A p, q \in Place : p # q => \A i \in 1..Len(log[p]) : NoId(log[p][i].id, log[q])

\* The logs are lists of messages of the server.
LogTypes == log \in [Place -> Seq(ServerMessage)] /\ written \in 0..MaxMessages

\* What is sent.
SentOne(m) == inbox' = Append(inbox, m) /\ Len(inbox') <= MaxInbox
SentTwo(m, a) == inbox' = Append(Append(inbox, m), a) /\ Len(inbox') <= MaxInbox

\* The message m tells of the change of the log.
ChatTells(m) ==
    /\ m \in Arriving /\ LogTypes' /\ LogsSound'
    /\ \A p \in Place : \A kind : Follows(log[p], m, p, kind, log'[p])

\* The answer a tells the user of it.
Answers(a, p) ==
    /\ a \in Arriving /\ a.kind \in {"message", "deleted"}
    /\ \A kind : Follows(log'[p], a, p, kind, log'[p])

\* Something happens in the place p; the user's own request is answered.
Happens(p, answer) ==
    \E m : /\ ChatTells(m) /\ m.kind \notin {"list", "failed"}
           /\ IF answer THEN \E a : Answers(a, p) /\ SentTwo(m, a) ELSE SentOne(m)

\* What is sent of a write: its event, and the answer to the user's own.
UntoldItems == {items \in Seq(Arriving) : \A i \in 1..Len(items) : items[i].kind \notin {"list", "failed"}}

\* A write of the server is told by items.
Sends(items) == items \in UntoldItems /\ Announce(items) /\ LogTypes' /\ LogsSound'

\* It changes the log of the place p as they say.
Occurs(p, answer, items) ==
    \E m : /\ ChatTells(m) /\ m.kind \notin {"list", "failed"}
           /\ IF answer THEN \E a : Answers(a, p) /\ items = <<m>> \o <<a>> ELSE items = <<m>>

\* The logs are.
LEMMA LogFacts ==
  ASSUME LogTypes, LogsSound, NEW p \in Place
  PROVE  log[p] \in Snapshot /\ log[p] \in Seq(ServerMessage) /\ Len(log[p]) \in Nat
<1>1. log[p] \in Seq(ServerMessage)
  BY DEF LogTypes
<1>2. QED
  BY <1>1, LenProperties DEF LogsSound, Snapshot

\* Two or three are sent.
LEMMA Sending ==
  ASSUME NEW S, NEW q \in Seq(S), NEW x \in S, NEW y \in S
  PROVE  /\ q \o <<x>> = Append(q, x) /\ q \o (<<x>> \o <<>>) = Append(q, x)
         /\ q \o (<<x>> \o <<y>>) = Append(Append(q, x), y)
         /\ Len(q \o (<<x>> \o <<>>)) = Len(q) + Len(<<x>> \o <<>>)
         /\ Len(q \o (<<x>> \o <<y>>)) = Len(q) + Len(<<x>> \o <<y>>)
<1>1. <<x>> \in Seq(S) /\ <<y>> \in Seq(S) /\ Len(q) \in Nat /\ <<>> \in Seq(S)
  BY LenProperties
<1>2. <<x>> \o <<>> = <<x>> /\ Len(<<x>>) = 1
  BY <1>1, ConcatEmptySeq
<1>3. q \o <<x>> = Append(q, x)
  OBVIOUS
<1>4. q \o (<<x>> \o <<y>>) = (q \o <<x>>) \o <<y>>
  BY <1>1, ConcatAssociative
<1>5. (q \o <<x>>) \o <<y>> = Append(Append(q, x), y)
  BY <1>3
<1>6. /\ <<x>> \o <<>> \in Seq(S) /\ <<x>> \o <<y>> \in Seq(S)
  BY <1>1, ConcatProperties
<1>7. QED
  BY <1>2, <1>3, <1>4, <1>5, <1>6, ConcatProperties

\* The log of the place is t then.
LogBecomes(p, t) == log' = [log EXCEPT ![p] = t]

\* The log of one place changes, with its own or new ids.
LEMMA LogChanges ==
  ASSUME LogTypes, LogsSound, NEW p \in Place, NEW t \in Snapshot, LogBecomes(p, t),
         written' \in written..MaxMessages,
         \A i \in 1..Len(t) : \/ t[i].id \in (written + 1)..written'
                              \/ \E j \in 1..Len(log[p]) : t[i].id = log[p][j].id
  PROVE  /\ LogTypes' /\ LogsSound' /\ log'[p] = t
         /\ \A q \in Place : q # p => log'[q] = log[q]
<1>1. /\ log'[p] = t /\ \A q \in Place : q # p => log'[q] = log[q]
      /\ log' \in [Place -> Seq(ServerMessage)]
  BY DEF LogTypes, Snapshot, LogBecomes
<1>2. written \in Nat /\ written' \in Nat /\ written <= written' /\ written' \in 0..MaxMessages
  BY ChatAssumption DEF LogTypes, ChatAssumption
<1>3. ASSUME NEW q \in Place, NEW i \in 1..Len(log[q])
      PROVE  log[q][i].id \in Nat /\ log[q][i].id <= written
  <2>1. log[q][i] \in ServerMessage
    BY LogFacts, ElementOfSeq
  <2>2. QED
    BY <2>1 DEF ServerMessage, LogsSound
<1>4. ASSUME NEW i \in 1..Len(t)
      PROVE  t[i].id <= written'
  <2>1. CASE t[i].id \in (written + 1)..written'
    BY <2>1
  <2>2. ASSUME NEW j \in 1..Len(log[p]), t[i].id = log[p][j].id
        PROVE  t[i].id <= written'
    <3>1. PICK n : n = t[i].id /\ n \in Nat /\ n <= written
      BY <1>3, <2>2
    <3>2. QED
      BY <1>2, <3>1
  <2>3. QED
    BY <2>1, <2>2
<1>5. ASSUME NEW q \in Place, q # p, NEW i \in 1..Len(t), NEW j \in 1..Len(log[q])
      PROVE  t[i].id # log[q][j].id
  <2>1. CASE t[i].id \in (written + 1)..written'
    <3>1. PICK n \in Nat : n = log[q][j].id /\ n <= written
      BY <1>3
    <3>2. ~(n \in (written + 1)..written')
      BY <1>2, <3>1
    <3>3. QED
      BY <2>1, <3>1, <3>2
  <2>2. CASE \E k \in 1..Len(log[p]) : t[i].id = log[p][k].id
    BY <1>5, <2>2 DEF LogsSound, NoId
  <2>3. QED
    BY <2>1, <2>2
<1>6. ASSUME NEW q \in Place
      PROVE  (Unlike(log[q]) /\ \A i \in 1..Len(log[q]) : log[q][i].id <= written)'
  <2>1. CASE q = p
    BY <1>1, <1>4, <2>1 DEF Snapshot, Unlike
  <2>2. CASE q # p
    <3>1. log'[q] = log[q]
      BY <1>1, <2>2
    <3>2. QED
      BY <1>2, <1>3, <3>1 DEF LogsSound, Unlike
  <2>3. QED
    BY <2>1, <2>2
<1>7. ASSUME NEW q \in Place, NEW r \in Place, q # r
      PROVE  (\A i \in 1..Len(log[q]) : NoId(log[q][i].id, log[r]))'
  <2>1. ASSUME NEW i \in 1..Len(log'[q]), NEW j \in 1..Len(log'[r])
        PROVE  log'[r][j].id # log'[q][i].id
    <3>1. CASE q = p
      <4>1. log'[q] = t /\ log'[r] = log[r]
        BY <1>1, <1>7, <3>1
      <4>2. QED
        BY <1>5, <1>7, <3>1, <4>1
    <3>2. CASE r = p
      <4>1. log'[r] = t /\ log'[q] = log[q]
        BY <1>1, <1>7, <3>2
      <4>2. QED
        BY <1>5, <1>7, <3>2, <4>1
    <3>3. CASE q # p /\ r # p
      <4>1. log'[r] = log[r] /\ log'[q] = log[q]
        BY <1>1, <3>3
      <4>2. QED
        BY <1>7, <4>1 DEF LogsSound, NoId
    <3>4. QED
      BY <3>1, <3>2, <3>3
  <2>2. QED
    BY <2>1 DEF NoId
<1>8. LogsSound'
  BY <1>6, <1>7 DEF LogsSound
<1>9. QED
  BY <1>1, <1>2, <1>8 DEF LogTypes

\* A message of the log is replaced by one with its id.
LEMMA LogSet ==
  ASSUME LogTypes, LogsSound, NEW p \in Place, NEW i \in 1..Len(log[p]),
         NEW x \in ServerMessage, x.id = log[p][i].id,
         NEW t \in Seq(ServerMessage), Sets(t, log[p], i, x), LogBecomes(p, t),
         written' = written
  PROVE  /\ LogTypes' /\ LogsSound' /\ log'[p] = t /\ In(x, t)
         /\ \A q \in Place : q # p => log'[q] = log[q]
<1>1. PICK s : s = log[p]
  OBVIOUS
<1>2. s \in Snapshot /\ s \in Seq(ServerMessage) /\ Len(s) \in Nat /\ i \in 1..Len(s)
  BY <1>1, LogFacts
<1>3. t \in Seq(ServerMessage) /\ Sets(t, s, i, x)
  BY <1>1
<1>4. t \in Snapshot
  BY <1>1, <1>2, <1>3, SetUnlike DEF Snapshot
<1>5. \A k \in 1..Len(t) : \E j \in 1..Len(s) : t[k].id = s[j].id
  BY <1>1, <1>3 DEF Sets
<1>6. written' \in written..MaxMessages
  BY ChatAssumption DEF LogTypes, ChatAssumption
<1>7. /\ LogTypes' /\ LogsSound' /\ log'[p] = t
      /\ \A q \in Place : q # p => log'[q] = log[q]
  <2>1. \A k \in 1..Len(t) : \/ t[k].id \in (written + 1)..written'
                             \/ \E j \in 1..Len(log[p]) : t[k].id = log[p][j].id
    BY <1>1, <1>5
  <2>2. QED
    BY <1>4, <1>6, <2>1, LogChanges
<1>8. In(x, t)
  BY <1>2, <1>3 DEF In, Sets
<1>9. QED
  BY <1>7, <1>8

\* An event, and an event and an answer.
LEMMA ItemsFacts ==
  ASSUME NEW x \in Arriving, x.kind \notin {"list", "failed"},
         NEW y \in Arriving, y.kind \notin {"list", "failed"}
  PROVE  <<x>> \in UntoldItems /\ <<x>> \o <<>> = <<x>> /\ <<x>> \o <<y>> \in UntoldItems
<1>1. <<x>> \in Seq(Arriving) /\ Len(<<x>>) = 1 /\ <<x>>[1] = x
  OBVIOUS
<1>2. <<y>> \in Seq(Arriving) /\ Len(<<y>>) = 1 /\ <<y>>[1] = y
  OBVIOUS
<1>3. <<x>> \o <<>> = <<x>>
  BY <1>1, ConcatEmptySeq
<1>4. PICK e, f, g : e = <<x>> /\ f = <<y>> /\ g = e \o f
  OBVIOUS
<1>5. /\ g \in Seq(Arriving) /\ Len(g) = Len(e) + Len(f)
      /\ \A i \in 1..(Len(e) + Len(f)) : g[i] = IF i <= Len(e) THEN e[i] ELSE f[i - Len(e)]
  BY <1>1, <1>2, <1>4, ConcatProperties
<1>6. Len(g) = 2 /\ g[1] = x /\ g[2] = y
  BY <1>1, <1>2, <1>4, <1>5
<1>7. g \in UntoldItems
  <2>1. \A i \in 1..Len(g) : i = 1 \/ i = 2
    BY <1>6
  <2>2. \A i \in 1..Len(g) : g[i].kind \notin {"list", "failed"}
    BY <1>6, <2>1
  <2>3. QED
    BY <1>5, <2>2 DEF UntoldItems
<1>8. <<x>> \in UntoldItems
  BY <1>1 DEF UntoldItems
<1>9. QED
  BY <1>3, <1>4, <1>7, <1>8

\* What is announced when requests do not overlap happens.
LEMMA Happening ==
  ASSUME inbox \in Seq(Arriving), ~RequestsOverlap, NEW p, NEW answer \in BOOLEAN,
         NEW items, Announce(items), Occurs(p, answer, items)
  PROVE  Happens(p, answer)
<1>1. PICK m : /\ ChatTells(m) /\ m.kind \notin {"list", "failed"}
               /\ IF answer THEN \E a : Answers(a, p) /\ items = <<m>> \o <<a>> ELSE items = <<m>>
  BY DEF Occurs
<1>2. m \in Arriving
  BY <1>1 DEF ChatTells
<1>3. Len(inbox) + Len(items) <= MaxInbox /\ inbox' = inbox \o items /\ Len(inbox) \in Nat
  BY LenProperties DEF Announce, Emit
<1>4. ASSUME answer
      PROVE  \E a : Answers(a, p) /\ SentTwo(m, a)
  <2>1. PICK a : Answers(a, p) /\ items = <<m>> \o <<a>>
    BY <1>1, <1>4
  <2>2. a \in Arriving
    BY <2>1 DEF Answers
  <2>3. SentTwo(m, a)
    BY <1>2, <1>3, <2>1, <2>2, Sending DEF SentTwo
  <2>4. QED
    BY <2>1, <2>3
<1>5. ASSUME ~answer
      PROVE  SentOne(m)
  <2>1. items = <<m>> /\ Len(<<m>>) = 1
    BY <1>1, <1>5
  <2>2. PICK r : r = Append(inbox, m)
    OBVIOUS
  <2>3. r \in Seq(Arriving) /\ Adds(r, inbox, m)
    BY <1>2, <2>2, Appended
  <2>4. Len(r) = Len(inbox) + 1
    BY <2>3 DEF Adds
  <2>5. inbox' = r
    BY <1>2, <1>3, <2>1, <2>2, Sending
  <2>6. QED
    BY <1>3, <2>1, <2>2, <2>4, <2>5 DEF SentOne
<1>6. QED
  BY <1>1, <1>4, <1>5 DEF Happens

\* createMessage.
LEMMA WriteFacts ==
  ASSUME LogTypes, LogsSound, chatEnv \in ChatScenarios, NEW p \in Place, NEW answer \in BOOLEAN,
         WriteMessage(p, answer)
  PROVE  \E items : Sends(items) /\ Occurs(p, answer, items)
<1>1. PICK x : x = [id |-> written + 1, text |-> "first", reactions |-> 0]
  OBVIOUS
<1>2. /\ written \in Nat /\ written' = written + 1 /\ written + 1 \in 1..MaxMessages
      /\ written' \in written..MaxMessages /\ written + 1 \in (written + 1)..written'
  <2>1. PICK n : n = MaxWritten[chatEnv]
    OBVIOUS
  <2>2. n \in 0..MaxMessages /\ MaxMessages \in Nat
    BY <2>1, ChatAssumption DEF ChatAssumption
  <2>3. written \in Nat /\ written < n /\ written' = written + 1
    BY <2>1, <2>2 DEF WriteMessage, LogTypes
  <2>4. QED
    BY <2>2, <2>3
<1>3. x \in ServerMessage /\ x.id = written + 1
  BY <1>1, <1>2 DEF ServerMessage
<1>4. PICK s : s = log[p]
  OBVIOUS
<1>5. s \in Snapshot /\ s \in Seq(ServerMessage) /\ Len(s) \in Nat
  BY <1>4, LogFacts
<1>6. NoId(x.id, s)
  <2>1. ASSUME NEW i \in 1..Len(s)
        PROVE  s[i].id # x.id
    <3>1. s[i] \in ServerMessage /\ s[i].id <= written
      BY <1>4, <1>5, ElementOfSeq DEF LogsSound
    <3>2. QED
      BY <1>2, <1>3, <3>1 DEF ServerMessage
  <2>2. QED
    BY <2>1 DEF NoId
<1>7. PICK t : t = Append(s, x)
  OBVIOUS
<1>8. t \in Snapshot /\ Adds(t, s, x)
  BY <1>3, <1>5, <1>6, <1>7, Appended, AddedUnlike DEF Snapshot
<1>9. LogBecomes(p, t)
  BY <1>1, <1>4, <1>7 DEF WriteMessage, LogBecomes
<1>10. ASSUME NEW i \in 1..Len(t)
       PROVE  \/ t[i].id \in (written + 1)..written'
              \/ \E j \in 1..Len(log[p]) : t[i].id = log[p][j].id
  <2>1. i = Len(t) \/ i \in 1..Len(s)
    BY <1>5, <1>8 DEF Adds
  <2>2. QED
    BY <1>2, <1>3, <1>4, <1>8, <2>1 DEF Adds
<1>11. /\ LogTypes' /\ LogsSound' /\ log'[p] = t
       /\ \A q \in Place : q # p => log'[q] = log[q]
  BY <1>2, <1>8, <1>9, <1>10, LogChanges
<1>12. PICK m : m = [kind |-> "create", place |-> p, msg |-> x]
  OBVIOUS
<1>13. m \in Arriving /\ m.kind = "create" /\ m.place = p /\ m.msg = x
  BY <1>3, <1>12 DEF Arriving
<1>14. ChatTells(m)
  <2>1. ASSUME NEW q \in Place, NEW kind
        PROVE  Follows(log[q], m, q, kind, log'[q])
    <3>1. CASE q = p
      BY <1>4, <1>6, <1>7, <1>11, <1>13, <3>1 DEF Follows
    <3>2. CASE q # p
      BY <1>11, <1>13, <3>2 DEF Follows
    <3>3. QED
      BY <3>1, <3>2
  <2>2. QED
    BY <1>11, <1>13, <2>1 DEF ChatTells
<1>15. PICK a : a = [kind |-> "message", msg |-> x]
  OBVIOUS
<1>16. a \in Arriving /\ a.kind = "message" /\ a.msg = x
  BY <1>3, <1>15 DEF Arriving
<1>17. Answers(a, p)
  <2>1. In(x, t)
    BY <1>5, <1>8, LenProperties, StaysIn DEF Snapshot
  <2>2. QED
    BY <1>11, <1>16, <2>1 DEF Answers, Follows
<1>18. Announce(<<m>> \o (IF answer THEN <<a>> ELSE <<>>))
  BY <1>1, <1>12, <1>15 DEF WriteMessage
<1>19. PICK items : items = <<m>> \o (IF answer THEN <<a>> ELSE <<>>)
  OBVIOUS
<1>20. items \in UntoldItems /\ items = IF answer THEN <<m>> \o <<a>> ELSE <<m>>
  BY <1>13, <1>16, <1>19, ItemsFacts
<1>21. QED
  BY <1>11, <1>13, <1>14, <1>17, <1>18, <1>19, <1>20 DEF Sends, Occurs

\* What is read of the message when a request writes.
LEMMA StoredFacts ==
  ASSUME LogTypes, LogsSound, NEW r \in ChangeRequest
  PROVE  /\ r.place \in Place /\ r.answer \in BOOLEAN /\ r.msg \in ServerMessage
         /\ AsStored(r) \in ServerMessage /\ AsStored(r).id = r.msg.id
         /\ StillLogged(r) => \E i \in 1..Len(log[r.place]) :
               log[r.place][i].id = r.msg.id /\ log[r.place][i] = AsStored(r)
         /\ ~StillLogged(r) => NoId(r.msg.id, log[r.place])
<1>1. r.place \in Place /\ r.answer \in BOOLEAN /\ r.msg \in ServerMessage
  BY DEF ChangeRequest
<1>2. PICK s, id : s = log[r.place] /\ id = r.msg.id
  OBVIOUS
<1>3. s \in Seq(ServerMessage)
  BY <1>1, <1>2, LogFacts
<1>4. CASE StillLogged(r)
  <2>1. PICK i : i = CHOOSE k \in Index(s, id) : TRUE
    OBVIOUS
  <2>2. i \in Index(s, id)
    BY <1>2, <1>4, <2>1 DEF StillLogged
  <2>3. i \in 1..Len(s) /\ s[i].id = id
    BY <2>2 DEF Index
  <2>4. AsStored(r) = s[i]
    BY <1>2, <1>4, <2>1 DEF AsStored
  <2>5. s[i] \in ServerMessage
    BY <1>3, <2>3, ElementOfSeq
  <2>6. QED
    BY <1>1, <1>2, <1>4, <2>3, <2>4, <2>5
<1>5. CASE ~StillLogged(r)
  BY <1>1, <1>5 DEF AsStored, StillLogged, Index, NoId
<1>6. QED
  BY <1>4, <1>5

\* The message is stored as x.
StoredAs(r, x) ==
    /\ log' = IF StillLogged(r) THEN [log EXCEPT ![r.place] = UpsertMessage(@, x)] ELSE log
    /\ written' = written

\* The log has it then, where it had it.
LEMMA StoredAsFacts ==
  ASSUME LogTypes, LogsSound, NEW r \in ChangeRequest,
         NEW x \in ServerMessage, x.id = r.msg.id, StoredAs(r, x)
  PROVE  /\ LogTypes' /\ LogsSound'
         /\ \A q \in Place : q # r.place => log'[q] = log[q]
         /\ StillLogged(r) =>
               /\ In(x, log'[r.place])
               /\ \E i \in 1..Len(log[r.place]) :
                     /\ log[r.place][i].id = x.id /\ log[r.place][i] = AsStored(r)
                     /\ log'[r.place] = [log[r.place] EXCEPT ![i] = x]
<1>1. CASE ~StillLogged(r)
  BY <1>1 DEF StoredAs, LogTypes, LogsSound, Unlike, NoId
<1>2. CASE StillLogged(r)
  <2>1. PICK p \in Place : p = r.place
    BY StoredFacts
  <2>2. PICK i \in 1..Len(log[p]) : log[p][i].id = x.id /\ log[p][i] = AsStored(r)
    BY <1>2, <2>1, StoredFacts
  <2>3. PICK s \in Seq(Message) : s = log[p] /\ s \in Seq(ServerMessage) /\ Unlike(s)
    BY LogFacts, ServerMessages DEF Snapshot
  <2>4. PICK t : t = UpsertMessage(s, x)
    OBVIOUS
  <2>5. x \in Message
    BY ServerMessages
  <2>6. PICK j \in 1..Len(s) : s[j].id = x.id /\ t = [s EXCEPT ![j] = x]
    <3>1. ~\A k \in 1..Len(s) : s[k].id # x.id
      BY <2>2, <2>3
    <3>2. \/ (\A k \in 1..Len(s) : s[k].id # x.id) /\ t = Append(s, x)
          \/ \E k \in 1..Len(s) : s[k].id = x.id /\ t = [s EXCEPT ![k] = x]
      BY <2>4, <2>5, Upserted
    <3>3. QED
      BY <3>1, <3>2
  <2>7. i = j
    BY <2>2, <2>3, <2>6 DEF Unlike
  <2>8. t = [s EXCEPT ![i] = x]
    BY <2>6, <2>7
  <2>9. LogBecomes(p, t) /\ written' = written
    BY <1>2, <2>1, <2>3, <2>4 DEF StoredAs, LogBecomes
  <2>10. t \in Seq(ServerMessage) /\ Sets(t, log[p], i, x)
    BY <2>2, <2>3, <2>8, Replaced
  <2>11. /\ LogTypes' /\ LogsSound' /\ log'[p] = t /\ In(x, t)
         /\ \A q \in Place : q # p => log'[q] = log[q]
    BY <2>2, <2>9, <2>10, LogSet
  <2>12. QED
    BY <1>2, <2>1, <2>2, <2>3, <2>8, <2>11
<1>3. QED
  BY <1>1, <1>2

\* updateMessage.
LEMMA RewriteFacts ==
  ASSUME LogTypes, LogsSound, NEW r \in ChangeRequest, Rewrite(r), written' = written
  PROVE  \E items : Sends(items) /\ (StillLogged(r) => Occurs(r.place, r.answer, items))
<1>1. PICK x : x = [AsStored(r) EXCEPT !.text = "edited"]
  OBVIOUS
<1>2. PICK p \in Place, answer \in BOOLEAN : p = r.place /\ answer = r.answer
  BY StoredFacts
<1>3. x \in ServerMessage /\ x.id = r.msg.id
  BY <1>1, StoredFacts DEF ServerMessage
<1>4. StoredAs(r, x)
  BY <1>1 DEF Rewrite, StoredAs
<1>5. LogTypes' /\ LogsSound' /\ \A q \in Place : q # p => log'[q] = log[q]
  BY <1>2, <1>3, <1>4, StoredAsFacts
<1>6. PICK m : m = [kind |-> "update", place |-> p, msg |-> x]
  OBVIOUS
<1>7. m \in Arriving /\ m.kind = "update" /\ m.place = p /\ m.msg = x
  BY <1>3, <1>6 DEF Arriving
<1>8. PICK a : a = [kind |-> "message", msg |-> x]
  OBVIOUS
<1>9. a \in Arriving /\ a.kind = "message" /\ a.msg = x
  BY <1>3, <1>8 DEF Arriving
<1>10. PICK items : items = <<m>> \o (IF answer THEN <<a>> ELSE <<>>)
  OBVIOUS
<1>11. Announce(items)
  BY <1>1, <1>2, <1>6, <1>8, <1>10 DEF Rewrite
<1>12. items \in UntoldItems /\ items = IF answer THEN <<m>> \o <<a>> ELSE <<m>>
  BY <1>7, <1>9, <1>10, ItemsFacts
<1>13. ASSUME StillLogged(r)
       PROVE  ChatTells(m) /\ Answers(a, p)
  <2>1. /\ In(x, log'[p])
        /\ \E i \in 1..Len(log[p]) : log[p][i].id = x.id /\ log'[p] = [log[p] EXCEPT ![i] = x]
    BY <1>2, <1>3, <1>4, <1>13, StoredAsFacts
  <2>2. ASSUME NEW q \in Place, NEW kind
        PROVE  Follows(log[q], m, q, kind, log'[q])
    <3>1. CASE q = p
      BY <1>7, <2>1, <3>1 DEF Follows
    <3>2. CASE q # p
      BY <1>5, <1>7, <3>2 DEF Follows
    <3>3. QED
      BY <3>1, <3>2
  <2>3. ChatTells(m)
    BY <1>5, <1>7, <2>2 DEF ChatTells
  <2>4. Answers(a, p)
    BY <1>9, <2>1 DEF Answers, Follows
  <2>5. QED
    BY <2>3, <2>4
<1>14. Sends(items)
  BY <1>5, <1>11, <1>12 DEF Sends
<1>15. StillLogged(r) => Occurs(p, answer, items)
  BY <1>7, <1>12, <1>13 DEF Occurs
<1>16. QED
  BY <1>2, <1>14, <1>15

\* deleteMessage.
LEMMA EraseFacts ==
  ASSUME LogTypes, LogsSound, NEW r \in ChangeRequest, Erase(r), written' = written
  PROVE  \E items : Sends(items) /\ (StillLogged(r) => Occurs(r.place, r.answer, items))
<1>1. PICK p \in Place, answer \in BOOLEAN : p = r.place /\ answer = r.answer
  BY StoredFacts
<1>2. PICK s, id : s = log[p] /\ id = r.msg.id
  OBVIOUS
<1>3. s \in Snapshot /\ s \in Seq(ServerMessage) /\ s \in Seq(Message) /\ Len(s) \in Nat
  BY <1>2, LogFacts, ServerMessages
<1>4. id \in 1..MaxMessages
  BY <1>2, StoredFacts DEF ServerMessage
<1>5. PICK t : t = RemoveMessage(s, id)
  OBVIOUS
<1>6. LogBecomes(p, t) /\ written' \in written..MaxMessages
  BY <1>1, <1>2, <1>5, ChatAssumption DEF Erase, LogBecomes, LogTypes, ChatAssumption
<1>7. \/ NoId(id, s) /\ t = s
      \/ \E i \in 1..Len(s) : s[i].id = id /\ t = RemoveAt(s, i)
  BY <1>3, <1>5, Dropped DEF NoId
<1>8. StillLogged(r) => ~NoId(id, s)
  BY <1>1, <1>2, StoredFacts DEF NoId
<1>9. ASSUME NEW i \in 1..Len(s), s[i].id = id, t = RemoveAt(s, i)
      PROVE  t \in Snapshot /\ NoId(id, t) /\ \A k \in 1..Len(t) : \E j \in 1..Len(s) : t[k].id = s[j].id
  <2>1. t \in Seq(ServerMessage) /\ Lacks(t, s, i) /\ Len(t) \in Nat
    BY <1>3, <1>9, Removed, LenProperties
  <2>2. t \in Snapshot
    BY <1>3, <2>1, LackUnlike DEF Snapshot
  <2>3. ASSUME NEW k \in 1..Len(t)
        PROVE  \E j \in 1..Len(s) : j # i /\ t[k] = s[j]
    <3>1. CASE k < i
      BY <1>3, <2>1, <3>1 DEF Lacks
    <3>2. CASE ~(k < i)
      <4>1. k + 1 \in 1..Len(s) /\ k + 1 # i /\ t[k] = s[k + 1]
        BY <1>3, <2>1, <3>2 DEF Lacks
      <4>2. QED
        BY <4>1
    <3>3. QED
      BY <3>1, <3>2
  <2>4. NoId(id, t)
    <3>1. ASSUME NEW k \in 1..Len(t)
          PROVE  t[k].id # id
      BY <1>3, <1>9, <2>3 DEF Snapshot, Unlike
    <3>2. QED
      BY <3>1 DEF NoId
  <2>5. QED
    BY <2>2, <2>3, <2>4
<1>10. t \in Snapshot /\ NoId(id, t) /\ \A k \in 1..Len(t) : \E j \in 1..Len(s) : t[k].id = s[j].id
  BY <1>3, <1>7, <1>9
<1>11. /\ LogTypes' /\ LogsSound' /\ log'[p] = t
       /\ \A q \in Place : q # p => log'[q] = log[q]
  BY <1>2, <1>6, <1>10, LogChanges
<1>12. PICK m : m = [kind |-> "delete", place |-> p, id |-> id]
  OBVIOUS
<1>13. m \in Arriving /\ m.kind = "delete" /\ m.place = p /\ m.id = id
  BY <1>4, <1>12 DEF Arriving
<1>14. PICK a : a = [kind |-> "deleted", id |-> id]
  OBVIOUS
<1>15. a \in Arriving /\ a.kind = "deleted" /\ a.id = id
  BY <1>4, <1>14 DEF Arriving
<1>16. PICK items : items = <<m>> \o (IF answer THEN <<a>> ELSE <<>>)
  OBVIOUS
<1>17. Announce(items)
  BY <1>1, <1>2, <1>12, <1>14, <1>16 DEF Erase
<1>18. items \in UntoldItems /\ items = IF answer THEN <<m>> \o <<a>> ELSE <<m>>
  BY <1>13, <1>15, <1>16, ItemsFacts
<1>19. ASSUME StillLogged(r)
       PROVE  ChatTells(m)
  <2>1. PICK i \in 1..Len(s) : s[i].id = id /\ t = RemoveAt(s, i)
    BY <1>7, <1>8, <1>19
  <2>2. ASSUME NEW q \in Place, NEW kind
        PROVE  Follows(log[q], m, q, kind, log'[q])
    <3>1. CASE q = p
      BY <1>2, <1>11, <1>13, <2>1, <3>1 DEF Follows
    <3>2. CASE q # p
      BY <1>11, <1>13, <3>2 DEF Follows
    <3>3. QED
      BY <3>1, <3>2
  <2>3. QED
    BY <1>11, <1>13, <2>2 DEF ChatTells
<1>20. Answers(a, p)
  BY <1>10, <1>11, <1>15 DEF Answers, Follows
<1>21. Sends(items)
  BY <1>11, <1>17, <1>18 DEF Sends
<1>22. StillLogged(r) => Occurs(p, answer, items)
  BY <1>13, <1>18, <1>19, <1>20 DEF Occurs
<1>23. QED
  BY <1>1, <1>21, <1>22

\* toggleReaction, for another user or this one: there is no answer but the event.
LEMMA ToggleFacts ==
  ASSUME LogTypes, LogsSound, NEW r \in ChangeRequest, ToggleReaction(r), written' = written
  PROVE  \E items : Sends(items) /\ (StillLogged(r) => Occurs(r.place, FALSE, items))
<1>1. PICK y \in ServerMessage : y = AsStored(r) /\ y.id = r.msg.id
  BY StoredFacts
<1>2. PICK p \in Place : p = r.place
  BY StoredFacts
<1>3. y.reactions = r.msg.reactions
  BY <1>1 DEF ToggleReaction
<1>4. PICK add \in BOOLEAN : add = (y.reactions = 0)
  OBVIOUS
<1>5. PICK x : x = [y EXCEPT !.reactions = 1 - @]
  OBVIOUS
<1>6. x \in ServerMessage /\ x.id = y.id
  BY <1>1, <1>5 DEF ServerMessage
<1>7. x = Counted(y, add)
  <2>1. 1 - y.reactions = IF add THEN y.reactions + 1
                          ELSE IF y.reactions = 0 THEN 0 ELSE y.reactions - 1
    <3>1. y.reactions = 0 \/ y.reactions = 1
      BY <1>1 DEF ServerMessage
    <3>2. CASE y.reactions = 0
      <4>1. add
        BY <1>4, <3>2, Zenon
      <4>2. QED
        BY <3>2, <4>1
    <3>3. CASE y.reactions = 1
      <4>1. ~add
        <5>1. y.reactions # 0
          BY <3>3
        <5>2. QED
          BY <1>4, <5>1, Zenon
      <4>2. QED
        BY <3>3, <4>1
    <3>4. QED
      BY <3>1, <3>2, <3>3
  <2>2. QED
    BY <1>5, <2>1, Zenon DEF Counted
<1>8. StoredAs(r, x)
  BY <1>1, <1>5 DEF ToggleReaction, StoredAs
<1>9. LogTypes' /\ LogsSound' /\ \A q \in Place : q # p => log'[q] = log[q]
  BY <1>1, <1>2, <1>6, <1>8, StoredAsFacts
<1>10. PICK m : m = [kind |-> "react", id |-> y.id, add |-> add]
  OBVIOUS
<1>11. m \in Arriving /\ m.kind = "react" /\ m.id = y.id /\ m.add = add
  BY <1>1, <1>10 DEF Arriving, ServerMessage
<1>12. Announce(<<m>>)
  <2>1. Announce(<<[kind |-> "react", id |-> r.msg.id, add |-> r.msg.reactions = 0]>>)
    BY DEF ToggleReaction
  <2>2. add = (r.msg.reactions = 0) /\ r.msg.id = y.id
    BY <1>1, <1>3, <1>4, Zenon
  <2>3. QED
    BY <1>10, <2>1, <2>2, Zenon
<1>13. <<m>> \in UntoldItems
  BY <1>11, ItemsFacts
<1>14. ASSUME StillLogged(r)
       PROVE  ChatTells(m)
  <2>1. PICK i \in 1..Len(log[p]) :
           /\ log[p][i].id = y.id /\ log[p][i] = y
           /\ log'[p] = [log[p] EXCEPT ![i] = x]
    BY <1>1, <1>2, <1>6, <1>8, <1>14, StoredAsFacts
  <2>2. Counts(log'[p], log[p], i, add)
    BY <1>7, <2>1 DEF Counts
  <2>3. ASSUME NEW q \in Place, NEW kind
        PROVE  Follows(log[q], m, q, kind, log'[q])
    <3>1. CASE q = p
      BY <1>11, <2>1, <2>2, <3>1 DEF Follows
    <3>2. CASE q # p
      <4>1. NoId(y.id, log[q])
        BY <2>1, <3>2 DEF LogsSound
      <4>2. QED
        BY <1>9, <1>11, <3>2, <4>1 DEF Follows
    <3>3. QED
      BY <3>1, <3>2
  <2>4. QED
    BY <1>9, <1>11, <2>3 DEF ChatTells
<1>15. Sends(<<m>>)
  BY <1>9, <1>12, <1>13 DEF Sends
<1>16. StillLogged(r) => Occurs(p, FALSE, <<m>>)
  BY <1>11, <1>14 DEF Occurs
<1>17. QED
  BY <1>2, <1>15, <1>16

\* The writes of a request.
LEMMA ChangeFacts ==
  ASSUME LogTypes, LogsSound, NEW r \in ChangeRequest, Writes(r), written' = written
  PROVE  \E items : /\ Sends(items)
                    /\ StillLogged(r) => \E answer \in BOOLEAN :
                          (answer => r.answer) /\ Occurs(r.place, answer, items)
<1>1. PICK answer \in BOOLEAN : answer = r.answer
  BY StoredFacts
<1>2. CASE Rewrite(r)
  BY <1>1, <1>2, RewriteFacts
<1>3. CASE Erase(r)
  BY <1>1, <1>3, EraseFacts
<1>4. CASE ToggleReaction(r)
  BY <1>4, ToggleFacts
<1>5. QED
  BY <1>2, <1>3, <1>4 DEF Writes

-----------------------------------------------------------------------------
(* Pages.                                                                  *)

\* A page is messages of the log; the first page is one of it.
LEMMA PageFacts ==
  ASSUME LogTypes, LogsSound, NEW p \in Place, NEW c, NEW page, page = Page(p, c)
  PROVE  /\ page = [items |-> page.items, next |-> page.next]
         /\ page.items \in Seq(ServerMessage) /\ page.next \in 0..MaxMessages
         /\ c = NoCursor => PageOf(page, log[p])
<1>1. PICK s : s = log[p]
  OBVIOUS
<1>2. /\ s \in Snapshot /\ s \in Seq(ServerMessage) /\ Len(s) \in Nat
      /\ \A i \in 1..Len(s) : s[i] \in ServerMessage
  BY <1>1, LogFacts, ElementOfSeq
<1>3. PICK T : T = {i \in 1..Len(s) : c = NoCursor \/ s[i].id < c}
  OBVIOUS
<1>4. PICK n : n = Cardinality(T)
  OBVIOUS
<1>5. n \in Nat /\ n <= Len(s) /\ (c = NoCursor => n = Len(s))
  <2>1. IsFiniteSet(1..Len(s)) /\ Cardinality(1..Len(s)) = Len(s)
    <3>1. PICK k \in Nat : k = Len(s)
      BY <1>2
    <3>2. IsFiniteSet(1..k) /\ Cardinality(1..k) = IF 1 > k THEN 0 ELSE k - 1 + 1
      BY FS_Interval
    <3>3. (IF 1 > k THEN 0 ELSE k - 1 + 1) = k
      OBVIOUS
    <3>4. QED
      BY <3>1, <3>2, <3>3
  <2>2. IsFiniteSet(T) /\ Cardinality(T) <= Cardinality(1..Len(s))
    BY <1>3, <2>1, FS_Subset
  <2>3. Cardinality(T) \in Nat
    BY <2>2, FS_CardinalityType
  <2>4. c = NoCursor => T = 1..Len(s)
    BY <1>3
  <2>5. QED
    BY <1>4, <2>1, <2>2, <2>3, <2>4
<1>6. PICK l : l = IF n > PageLimit THEN PageLimit ELSE n
  OBVIOUS
<1>7. PageLimit \in Nat /\ PageLimit > 0
  BY ChatAssumption DEF ChatAssumption
<1>8. l \in Nat /\ l <= n /\ \A i \in 1..l : n + 1 - i \in 1..Len(s)
  BY <1>2, <1>5, <1>6, <1>7
<1>9. page = [items |-> [i \in 1..l |-> s[n + 1 - i]],
              next |-> IF n > PageLimit THEN s[n + 1 - PageLimit].id ELSE NoCursor]
  BY <1>1, <1>3, <1>4, <1>6 DEF Page
<1>10. PICK items : items = [i \in 1..l |-> s[n + 1 - i]]
  OBVIOUS
<1>11. /\ items \in Seq(ServerMessage) /\ Len(items) = l
       /\ \A i \in 1..l : items[i] = s[n + 1 - i]
  BY <1>2, <1>8, <1>10
<1>12. page.items = items /\ page = [items |-> page.items, next |-> page.next]
  BY <1>9, <1>10
<1>13. page.next \in 0..MaxMessages /\ (page.next = NoCursor => ~(n > PageLimit))
  <2>1. CASE n > PageLimit
    <3>1. n + 1 - PageLimit \in 1..Len(s)
      BY <1>2, <1>5, <1>7, <2>1
    <3>2. s[n + 1 - PageLimit] \in ServerMessage /\ page.next = s[n + 1 - PageLimit].id
      BY <1>2, <1>9, <2>1, <3>1
    <3>3. page.next \in 1..MaxMessages
      BY <3>2 DEF ServerMessage
    <3>4. QED
      BY <3>3, ChatAssumption DEF NoCursor, ChatAssumption
  <2>2. CASE ~(n > PageLimit)
    BY <1>9, <2>2, ChatAssumption DEF NoCursor, ChatAssumption
  <2>3. QED
    BY <2>1, <2>2
<1>14. Unlike(items)
  <2>1. ASSUME NEW i \in 1..l, NEW j \in 1..l, items[i].id = items[j].id
        PROVE  i = j
    <3>1. PICK a \in 1..Len(s) : a = n + 1 - i /\ items[i] = s[a]
      BY <1>8, <1>11
    <3>2. PICK b \in 1..Len(s) : b = n + 1 - j /\ items[j] = s[b]
      BY <1>8, <1>11
    <3>3. a = b
      BY <1>2, <2>1, <3>1, <3>2 DEF Snapshot, Unlike
    <3>4. QED
      BY <1>5, <3>1, <3>2, <3>3
  <2>2. QED
    BY <1>11, <2>1 DEF Unlike
<1>15. ASSUME c = NoCursor
       PROVE  PageOf(page, s)
  <2>1. page.next = NoCursor =>
           Len(items) = Len(s) /\ \A k \in 1..Len(s) : items[k] = s[Len(s) + 1 - k]
    BY <1>5, <1>6, <1>11, <1>13, <1>15
  <2>2. \A k \in 1..Len(items) : In(items[k], s)
    BY <1>8, <1>11 DEF In
  <2>3. QED
    BY <1>11, <1>12, <1>14, <2>1, <2>2 DEF PageOf
<1>16. QED
  BY <1>1, <1>11, <1>12, <1>13, <1>15

\* A first page of the log s.
FirstPage(m, k, s) == m.kind = "list" /\ m.list = k /\ m.reset /\ PageOf(m.page, s)

\* The answer to a request for a list.
LEMMA AnswerFacts ==
  ASSUME LogTypes, LogsSound, NEW p \in Place, NEW k \in ListKind, NEW reset \in BOOLEAN,
         NEW m, m = ListAnswer(k, p, reset)
  PROVE  /\ m \in Arriving /\ m.kind = "list" /\ m.list = k /\ m.reset = reset
         /\ reset => FirstPage(m, k, log[p])
<1>1. PICK c : c = IF reset THEN NoCursor ELSE cursor[k]
  OBVIOUS
<1>2. PICK page : page = Page(p, c)
  OBVIOUS
<1>3. /\ page = [items |-> page.items, next |-> page.next]
      /\ page.items \in Seq(ServerMessage) /\ page.next \in 0..MaxMessages
      /\ c = NoCursor => PageOf(page, log[p])
  BY <1>2, PageFacts
<1>4. m = [kind |-> "list", list |-> k, reset |-> reset, page |-> page]
  BY <1>1, <1>2 DEF ListAnswer
<1>5. page \in [items : Seq(ServerMessage), next : 0..MaxMessages]
  BY <1>3
<1>6. m \in Arriving
  BY <1>4, <1>5 DEF Arriving
<1>7. m.kind = "list" /\ m.list = k /\ m.reset = reset
  BY <1>4
<1>8. ASSUME reset
      PROVE  FirstPage(m, k, log[p])
  BY <1>1, <1>3, <1>4, <1>8 DEF FirstPage
<1>9. QED
  BY <1>6, <1>7, <1>8

-----------------------------------------------------------------------------
(* The invariant.                                                          *)

\* The queue.
InboxTypes == inbox \in Seq(Arriving) /\ Len(inbox) <= MaxInbox

\* What is selected and shown.
ScreenTypes ==
    /\ channel \in TextChannel \cup {NoPlace}
    /\ dmThread \in DmThread \cup {NoPlace}
    /\ channel = NoPlace \/ dmThread = NoPlace
    /\ timeline \in Seq(Message)
    /\ cursor \in [ListKind -> 0..MaxMessages]
    /\ busy \in BOOLEAN

\* Without pages further back every list that is under way replaces what is shown.
Resets(m) == m.kind = "list" => m.reset /\ Unlike(m.page.items)
ListsReset == "more" \notin chatEnv => \A i \in 1..Len(inbox) : Resets(inbox[i])
\* No message is shown twice.
ShownOnce == "more" \notin chatEnv => Unlike(timeline)

\* Nothing overtakes or fails.
Quiet == chatEnv \subseteq {"react"}
\* The screen is in step with the log.
InStep ==
    Quiet /\ Selected # NoPlace =>
        Synced(inbox, Selected, SelectedList, timeline, cursor[SelectedList], log[Selected])

\* The inductive invariant of the messages on the screen.
ChatInv ==
    /\ chatEnv \in ChatScenarios
    /\ LogTypes /\ LogsSound /\ InboxTypes /\ ScreenTypes
    /\ ListsReset /\ ShownOnce /\ BusyEnds /\ InStep

\* The selected place is one.
LEMMA SelectedFacts ==
  ASSUME ScreenTypes
  PROVE  /\ Selected # NoPlace => Selected \in Place
         /\ SelectedList \in ListKind /\ cursor[SelectedList] \in 0..MaxMessages
         /\ \A p \in Place : p \in {channel, dmThread} <=> p = Selected
         /\ Selected # NoPlace => channel # NoPlace \/ dmThread # NoPlace
BY ChatAssumption DEF ScreenTypes, Selected, SelectedList, ListKind, Place, ChatAssumption

-----------------------------------------------------------------------------
\* A message joins the queue.
LEMMA QueueGrowsByOne ==
  ASSUME NEW S, NEW q \in Seq(S), NEW m \in S, NEW r, r = Append(q, m)
  PROVE  /\ r \in Seq(S) /\ Len(q) \in Nat /\ Len(r) = Len(q) + 1
         /\ \A i \in 1..Len(q) : i \in 1..Len(r) /\ r[i] = q[i]
         /\ \A i \in 1..Len(r) : i \in 1..Len(q) \/ r[i] = m
         /\ Len(r) \in 1..Len(r) /\ r[Len(r)] = m
<1>1. Len(q) \in Nat
  BY LenProperties
<1>2. r \in Seq(S) /\ Adds(r, q, m)
  BY Appended
<1>3. QED
  BY <1>1, <1>2 DEF Adds

\* What happens keeps the queue as it is.
LEMMA HappensQueued ==
  ASSUME ChatInv, NEW p \in Place, NEW answer \in BOOLEAN, Happens(p, answer),
         UNCHANGED <<chatEnv, busy>>
  PROVE  InboxTypes' /\ ListsReset' /\ BusyEnds'
<1>1. inbox \in Seq(Arriving)
  BY DEF ChatInv, InboxTypes
<1>2. ASSUME NEW q \in Seq(Arriving), NEW m \in Arriving, m.kind # "list",
             "more" \notin chatEnv => \A i \in 1..Len(q) : Resets(q[i]),
             busy => \E i \in 1..Len(q) : q[i].kind \in {"list", "failed"},
             NEW r, r = Append(q, m)
      PROVE  /\ r \in Seq(Arriving)
             /\ "more" \notin chatEnv => \A i \in 1..Len(r) : Resets(r[i])
             /\ busy => \E i \in 1..Len(r) : r[i].kind \in {"list", "failed"}
  <2>1. /\ r \in Seq(Arriving)
        /\ \A i \in 1..Len(q) : i \in 1..Len(r) /\ r[i] = q[i]
        /\ \A i \in 1..Len(r) : i \in 1..Len(q) \/ r[i] = m
    BY <1>2, QueueGrowsByOne
  <2>2. Resets(m)
    BY <1>2 DEF Resets
  <2>3. QED
    BY <1>2, <2>1, <2>2
<1>3. PICK m : /\ ChatTells(m) /\ m.kind \notin {"list", "failed"}
               /\ IF answer THEN \E a : Answers(a, p) /\ SentTwo(m, a) ELSE SentOne(m)
  BY DEF Happens
<1>4. m \in Arriving
  BY <1>3 DEF ChatTells
<1>5. PICK r : r = Append(inbox, m)
  OBVIOUS
<1>6. /\ r \in Seq(Arriving)
      /\ "more" \notin chatEnv => \A i \in 1..Len(r) : Resets(r[i])
      /\ busy => \E i \in 1..Len(r) : r[i].kind \in {"list", "failed"}
  <2>1. "more" \notin chatEnv => \A i \in 1..Len(inbox) : Resets(inbox[i])
    BY DEF ChatInv, ListsReset
  <2>2. busy => \E i \in 1..Len(inbox) : inbox[i].kind \in {"list", "failed"}
    BY DEF ChatInv, BusyEnds
  <2>3. QED
    BY <1>1, <1>2, <1>3, <1>4, <1>5, <2>1, <2>2
<1>7. /\ inbox' \in Seq(Arriving) /\ Len(inbox') <= MaxInbox
      /\ "more" \notin chatEnv => \A i \in 1..Len(inbox') : Resets(inbox'[i])
      /\ busy => \E i \in 1..Len(inbox') : inbox'[i].kind \in {"list", "failed"}
  <2>1. CASE answer
    <3>1. PICK a : Answers(a, p) /\ SentTwo(m, a)
      BY <1>3, <2>1
    <3>2. a \in Arriving /\ a.kind # "list"
      BY <3>1 DEF Answers
    <3>3. inbox' = Append(r, a) /\ Len(inbox') <= MaxInbox
      BY <1>5, <3>1 DEF SentTwo
    <3>4. QED
      BY <1>2, <1>6, <3>2, <3>3
  <2>2. CASE ~answer
    <3>1. inbox' = r /\ Len(inbox') <= MaxInbox
      BY <1>3, <1>5, <2>2 DEF SentOne
    <3>2. QED
      BY <1>6, <3>1
  <2>3. QED
    BY <2>1, <2>2
<1>8. QED
  BY <1>7 DEF InboxTypes, ListsReset, Resets, BusyEnds

\* What happens, and its answer, keep the screen in step with the log.
LEMMA HappensInStep ==
  ASSUME ChatInv, NEW p \in Place, NEW answer \in BOOLEAN, Happens(p, answer),
         answer => p = Selected, UNCHANGED <<chatEnv, channel, dmThread, timeline, cursor>>
  PROVE  InStep'
<1> SUFFICES ASSUME Quiet, Selected # NoPlace
             PROVE  Synced(inbox', Selected, SelectedList, timeline, cursor[SelectedList], log'[Selected])
  BY DEF InStep, Quiet, Selected, SelectedList
<1>1. PICK m : /\ ChatTells(m) /\ m.kind \notin {"list", "failed"}
               /\ IF answer THEN \E a : Answers(a, p) /\ SentTwo(m, a) ELSE SentOne(m)
  BY DEF Happens
<1>2. PICK g, k, cur : g = Selected /\ k = SelectedList /\ cur = cursor[SelectedList]
  OBVIOUS
<1>3. g \in Place
  BY <1>2, SelectedFacts DEF ChatInv
<1>4. PICK t : t = log'[g]
  OBVIOUS
<1>5. m \in Arriving /\ Follows(log[g], m, g, k, t) /\ LogTypes' /\ LogsSound'
  BY <1>1, <1>3, <1>4 DEF ChatTells
<1>6. t \in Snapshot
  BY <1>3, <1>4, <1>5 DEF Snapshot, LogTypes, LogsSound
<1>7. inbox \in Seq(Arriving) /\ Synced(inbox, g, k, timeline, cur, log[g])
  BY <1>2 DEF ChatInv, InboxTypes, InStep
<1>8. PICK r : r = Append(inbox, m)
  OBVIOUS
<1>9. r \in Seq(Arriving) /\ Synced(r, g, k, timeline, cur, t)
  BY <1>5, <1>6, <1>7, <1>8, SyncedMore, QueueGrowsByOne
<1>10. CASE answer
  <2>1. PICK a : Answers(a, p) /\ SentTwo(m, a)
    BY <1>1, <1>10
  <2>2. a \in Arriving /\ Follows(t, a, g, k, t)
    BY <1>2, <1>4, <1>10, <2>1 DEF Answers
  <2>3. PICK w : w = Append(r, a)
    OBVIOUS
  <2>4. Synced(w, g, k, timeline, cur, t)
    BY <1>6, <1>9, <2>2, <2>3, SyncedMore
  <2>5. inbox' = w
    BY <1>8, <2>1, <2>3 DEF SentTwo
  <2>6. QED
    BY <1>2, <1>4, <2>4, <2>5
<1>11. CASE ~answer
  <2>1. inbox' = r
    BY <1>1, <1>8, <1>11 DEF SentOne
  <2>2. QED
    BY <1>2, <1>4, <1>9, <2>1
<1>12. QED
  BY <1>10, <1>11

\* Something happens.
LEMMA HappensKeeps ==
  ASSUME ChatInv, NEW p \in Place, NEW answer \in BOOLEAN, Happens(p, answer),
         answer => p = Selected, UNCHANGED <<chatEnv, channel, dmThread, timeline, cursor, busy>>
  PROVE  ChatInv'
<1>1. LogTypes' /\ LogsSound'
  BY DEF Happens, ChatTells
<1>2. InboxTypes' /\ ListsReset' /\ BusyEnds'
  BY HappensQueued
<1>3. InStep'
  BY HappensInStep
<1>4. chatEnv' \in ChatScenarios /\ ScreenTypes' /\ ShownOnce'
  BY DEF ChatInv, ScreenTypes, ShownOnce, Unlike
<1>5. QED
  BY <1>1, <1>2, <1>3, <1>4 DEF ChatInv

-----------------------------------------------------------------------------
(* Requests for lists.                                                     *)

\* Answers to requests for lists.
ListsOrFailures(items) ==
    /\ items \in Seq(Arriving) /\ Len(items) > 0
    /\ \A i \in 1..Len(items) :
          /\ items[i].kind \in {"list", "failed"}
          /\ "more" \notin chatEnv => Resets(items[i])

\* They are sent.
LEMMA ListsSent ==
  ASSUME InboxTypes, ListsReset, NEW items, ListsOrFailures(items), Emit(items), chatEnv' = chatEnv
  PROVE  InboxTypes' /\ ListsReset' /\ BusyEnds'
<1>1. inbox \in Seq(Arriving) /\ items \in Seq(Arriving) /\ Len(inbox) \in Nat /\ Len(items) \in Nat
  BY LenProperties DEF InboxTypes, ListsOrFailures
<1>2. PICK r : r = inbox \o items
  OBVIOUS
<1>3. /\ r \in Seq(Arriving) /\ Len(r) = Len(inbox) + Len(items)
      /\ \A i \in 1..(Len(inbox) + Len(items)) :
            r[i] = IF i <= Len(inbox) THEN inbox[i] ELSE items[i - Len(inbox)]
  BY <1>1, <1>2, ConcatProperties
<1>4. inbox' = r /\ Len(r) <= MaxInbox
  BY <1>2, <1>3 DEF Emit
<1>5. ASSUME NEW i \in 1..Len(r)
      PROVE  \/ i \in 1..Len(inbox) /\ r[i] = inbox[i]
             \/ \E j \in 1..Len(items) : r[i] = items[j]
  <2>1. CASE i <= Len(inbox)
    BY <1>1, <1>3, <2>1
  <2>2. CASE ~(i <= Len(inbox))
    <3>1. i - Len(inbox) \in 1..Len(items) /\ r[i] = items[i - Len(inbox)]
      BY <1>1, <1>3, <2>2
    <3>2. QED
      BY <3>1
  <2>3. QED
    BY <2>1, <2>2
<1>6. "more" \notin chatEnv => \A i \in 1..Len(r) : Resets(r[i])
  BY <1>5 DEF ListsReset, ListsOrFailures
<1>7. \E i \in 1..Len(r) : r[i].kind \in {"list", "failed"}
  <2>1. /\ Len(inbox) + 1 \in 1..Len(r) /\ ~(Len(inbox) + 1 <= Len(inbox))
        /\ Len(inbox) + 1 - Len(inbox) = 1 /\ 1 \in 1..Len(items)
    BY <1>1, <1>3 DEF ListsOrFailures
  <2>2. r[Len(inbox) + 1] = items[1]
    BY <1>3, <2>1
  <2>3. QED
    BY <2>1, <2>2 DEF ListsOrFailures
<1>8. QED
  BY <1>3, <1>4, <1>6, <1>7 DEF InboxTypes, ListsReset, Resets, BusyEnds

\* Failures are answers to requests for lists, and so are lists.
LEMMA FailureFacts ==
  ASSUME NEW l \in Nat \ {0}, NEW items, items = [i \in 1..l |-> Failure]
  PROVE  ListsOrFailures(items)
<1>1. Failure \in Arriving /\ Failure.kind = "failed"
  BY DEF Failure, Arriving
<1>2. items \in Seq(Arriving) /\ Len(items) = l /\ \A i \in 1..l : items[i] = Failure
  BY <1>1
<1>3. QED
  BY <1>1, <1>2 DEF ListsOrFailures, Resets

\* The same answer once or twice.
Copies(items, m) ==
    /\ items \in Seq(Arriving) /\ Len(items) \in {1, 2}
    /\ \A i \in 1..Len(items) : items[i] = m

\* A load once and twice.
LEMMA CopiesFacts ==
  ASSUME NEW m \in Arriving, NEW e, e = <<m>>
  PROVE  Copies(e, m) /\ Copies(e \o e, m)
<1>1. e \in Seq(Arriving) /\ Len(e) = 1 /\ e[1] = m
  OBVIOUS
<1>2. PICK f : f = e \o e
  OBVIOUS
<1>3. /\ f \in Seq(Arriving) /\ Len(f) = Len(e) + Len(e)
      /\ \A i \in 1..(Len(e) + Len(e)) : f[i] = IF i <= Len(e) THEN e[i] ELSE e[i - Len(e)]
  BY <1>1, <1>2, ConcatProperties
<1>4. Len(f) = 2 /\ f[1] = m /\ f[2] = m
  BY <1>1, <1>3
<1>5. Copies(e, m)
  BY <1>1 DEF Copies
<1>6. Copies(f, m)
  BY <1>3, <1>4 DEF Copies
<1>7. QED
  BY <1>2, <1>5, <1>6

\* They are answers to requests for lists.
LEMMA ListsFacts ==
  ASSUME NEW m \in Arriving, m.kind = "list", "more" \notin chatEnv => Resets(m),
         NEW items, Copies(items, m)
  PROVE  ListsOrFailures(items) /\ Len(items) \in Nat \ {0}
<1>1. Len(items) = 1 \/ Len(items) = 2
  BY DEF Copies
<1>2. Len(items) > 0 /\ Len(items) \in Nat \ {0}
  <2>1. PICK l : l = Len(items)
    OBVIOUS
  <2>2. l > 0 /\ l \in Nat \ {0}
    BY <1>1, <2>1
  <2>3. QED
    BY <2>1, <2>2
<1>3. items \in Seq(Arriving) /\ \A i \in 1..Len(items) : items[i] = m
  BY DEF Copies
<1>4. QED
  BY <1>2, <1>3 DEF ListsOrFailures

\* They join the queue.
LEMMA CopiesJoin ==
  ASSUME NEW q \in Seq(Arriving), NEW m \in Arriving, NEW items, Copies(items, m),
         NEW v, v = q \o items
  PROVE  v = Append(q, m) \/ v = Append(Append(q, m), m)
<1>1. items \in Seq(Arriving) /\ Len(q) \in Nat /\ Len(items) \in {1, 2}
  BY LenProperties DEF Copies
<1>2. /\ v \in Seq(Arriving) /\ Len(v) = Len(q) + Len(items)
      /\ \A i \in 1..(Len(q) + Len(items)) :
            v[i] = IF i <= Len(q) THEN q[i] ELSE items[i - Len(q)]
  BY <1>1, ConcatProperties
<1>3. ASSUME NEW i \in 1..Len(v)
      PROVE  v[i] = IF i <= Len(q) THEN q[i] ELSE m
  BY <1>1, <1>2 DEF Copies
<1>4. PICK r : r = Append(q, m)
  OBVIOUS
<1>5. /\ r \in Seq(Arriving) /\ Len(r) = Len(q) + 1
      /\ \A i \in 1..Len(r) : r[i] = IF i <= Len(q) THEN q[i] ELSE m
  <2>1. r \in Seq(Arriving) /\ Adds(r, q, m)
    BY <1>4, Appended
  <2>2. QED
    BY <1>1, <2>1 DEF Adds
<1>6. PICK w : w = Append(r, m)
  OBVIOUS
<1>7. /\ w \in Seq(Arriving) /\ Len(w) = Len(q) + 2
      /\ \A i \in 1..Len(w) : w[i] = IF i <= Len(q) THEN q[i] ELSE m
  <2>1. w \in Seq(Arriving) /\ Adds(w, r, m)
    BY <1>5, <1>6, Appended
  <2>2. QED
    BY <1>1, <1>5, <2>1 DEF Adds
<1>8. CASE Len(items) = 1
  <2>1. Len(v) = Len(r) /\ \A i \in 1..Len(v) : v[i] = r[i]
    BY <1>2, <1>3, <1>5, <1>8
  <2>2. v = r
    BY <1>2, <1>5, <2>1, SeqEqual
  <2>3. QED
    BY <1>4, <2>2
<1>9. CASE Len(items) = 2
  <2>1. Len(v) = Len(w) /\ \A i \in 1..Len(v) : v[i] = w[i]
    BY <1>2, <1>3, <1>7, <1>9
  <2>2. v = w
    BY <1>2, <1>7, <2>1, SeqEqual
  <2>3. QED
    BY <1>4, <1>6, <2>2
<1>10. QED
  BY <1>1, <1>8, <1>9

-----------------------------------------------------------------------------
\* A place is selected and its list is asked for.
LEMMA SelectKeeps ==
  ASSUME ChatInv, NEW p \in Place, NEW k \in ListKind, ScreenTypes', Selected' = p, SelectedList' = k,
         NEW m \in Arriving, FirstPage(m, k, log[p]),
         NEW load, Copies(load, m), Request(load),
         UNCHANGED <<chatEnv, log, written, timeline>>
  PROVE  ChatInv'
<1>1. LogTypes' /\ LogsSound' /\ ShownOnce' /\ chatEnv' \in ChatScenarios
  BY DEF ChatInv, LogTypes, LogsSound, Unlike, NoId, ShownOnce
<1>2. LogTypes /\ LogsSound /\ InboxTypes /\ ListsReset /\ log[p] \in Snapshot
  BY LogFacts DEF ChatInv
<1>3. ListsOrFailures(load) /\ Len(load) \in Nat \ {0}
  <2>1. Resets(m) /\ m.kind = "list"
    BY DEF FirstPage, Resets, PageOf
  <2>2. QED
    BY <2>1, ListsFacts
<1>4. InboxTypes' /\ ListsReset' /\ BusyEnds'
  <2>1. CASE Emit(load)
    BY <1>2, <1>3, <2>1, ListsSent
  <2>2. CASE Emit([i \in 1..Len(load) |-> Failure])
    <3>1. PICK l \in Nat \ {0} : l = Len(load)
      BY <1>3
    <3>2. PICK items : items = [i \in 1..l |-> Failure]
      OBVIOUS
    <3>3. ListsOrFailures(items) /\ Emit(items)
      BY <2>2, <3>1, <3>2, FailureFacts
    <3>4. QED
      BY <1>2, <3>3, ListsSent
  <2>3. QED
    BY <2>1, <2>2 DEF Request
<1>5. InStep'
  <2> SUFFICES ASSUME Quiet
               PROVE  Synced(inbox', p, k, timeline', cursor'[k], log[p])
    BY DEF InStep, Quiet
  <2>1. Emit(load)
    BY DEF Quiet, Request
  <2>2. inbox \in Seq(Arriving)
    BY <1>2 DEF InboxTypes
  <2>3. PICK r : r = Append(inbox, m)
    OBVIOUS
  <2>4. PICK w : w = Append(r, m)
    OBVIOUS
  <2>5. r \in Seq(Arriving)
    BY <2>2, <2>3, QueueGrowsByOne
  <2>6. PICK tl, cur, s : tl = timeline' /\ cur = cursor'[k] /\ s = log[p]
    OBVIOUS
  <2>7. Synced(r, p, k, tl, cur, s) /\ Synced(w, p, k, tl, cur, s)
    BY <1>2, <2>2, <2>3, <2>4, <2>5, <2>6, SyncedAnew DEF FirstPage
  <2>8. PICK v : v = inbox \o load
    OBVIOUS
  <2>9. v = r \/ v = w
    BY <2>2, <2>3, <2>4, <2>8, CopiesJoin
  <2>10. inbox' = v
    BY <2>1, <2>8 DEF Emit
  <2>11. QED
    BY <2>6, <2>7, <2>9, <2>10
<1>6. QED
  BY <1>1, <1>4, <1>5 DEF ChatInv

\* More of the list is asked for.
LEMMA LoadMoreKeeps ==
  ASSUME ChatInv, NEW k \in ListKind, NEW p \in Place, LoadMore(k, p)
  PROVE  ChatInv'
<1>1. /\ "more" \in chatEnv /\ chatEnv' = chatEnv /\ busy' = TRUE
      /\ UNCHANGED <<log, written, channel, dmThread, timeline, cursor>>
  BY DEF LoadMore
<1>2. /\ LogTypes' /\ LogsSound' /\ ShownOnce' /\ chatEnv' \in ChatScenarios
      /\ ScreenTypes' /\ InStep'
  <2>1. LogTypes' /\ LogsSound'
    BY <1>1 DEF ChatInv, LogTypes, LogsSound, Unlike, NoId
  <2>2. ShownOnce' /\ chatEnv' \in ChatScenarios
    BY <1>1 DEF ChatInv, ShownOnce
  <2>3. ScreenTypes'
    BY <1>1 DEF ChatInv, ScreenTypes
  <2>4. InStep'
    BY <1>1 DEF InStep, Quiet
  <2>5. QED
    BY <2>1, <2>2, <2>3, <2>4
<1>3. LogTypes /\ LogsSound /\ InboxTypes /\ ListsReset
  BY DEF ChatInv
<1>4. PICK load : load = <<ListAnswer(k, p, FALSE)>>
  OBVIOUS
<1>5. ListsOrFailures(load) /\ Len(load) \in Nat \ {0}
  <2>1. PICK m, reset : reset \in BOOLEAN /\ reset = FALSE /\ m = ListAnswer(k, p, reset) /\ load = <<m>>
    BY <1>4, Zenon
  <2>2. m \in Arriving /\ m.kind = "list"
    BY <1>3, <2>1, AnswerFacts
  <2>3. Copies(load, m)
    BY <2>1, <2>2, CopiesFacts
  <2>4. QED
    BY <1>1, <2>2, <2>3, ListsFacts
<1>6. Emit(load) \/ Emit([i \in 1..Len(load) |-> Failure])
  BY <1>4 DEF LoadMore, Request
<1>7. \E items : ListsOrFailures(items) /\ Emit(items)
  <2>1. PICK l \in Nat \ {0} : l = Len(load)
    BY <1>5
  <2>2. PICK items : items = [i \in 1..l |-> Failure]
    OBVIOUS
  <2>3. ListsOrFailures(items) /\ (Emit(load) \/ Emit(items))
    BY <1>6, <2>1, <2>2, FailureFacts
  <2>4. QED
    BY <1>5, <2>3
<1>8. InboxTypes' /\ ListsReset' /\ BusyEnds'
  BY <1>1, <1>3, <1>7, ListsSent
<1>9. QED
  BY <1>2, <1>8 DEF ChatInv

-----------------------------------------------------------------------------
(* What comes back.                                                        *)

\* A message leaves the queue.
LEMMA DeliveredFacts ==
  ASSUME InboxTypes, NEW i, NEW kinds, Delivered(i, kinds)
  PROVE  /\ i \in 1..Len(inbox) /\ inbox[i] \in Arriving /\ inbox[i].kind \in kinds
         /\ inbox' \in Seq(Arriving) /\ Lacks(inbox', inbox, i) /\ InboxTypes'
         /\ Quiet => i = 1
<1>1. i \in 1..Len(inbox) /\ inbox[i].kind \in kinds /\ inbox' = RemoveAt(inbox, i)
  BY DEF Delivered
<1>2. inbox \in Seq(Arriving) /\ Len(inbox) \in Nat /\ Len(inbox) <= MaxInbox
  BY LenProperties DEF InboxTypes
<1>3. inbox[i] \in Arriving
  BY <1>1, <1>2, ElementOfSeq
<1>4. inbox' \in Seq(Arriving) /\ Lacks(inbox', inbox, i)
  BY <1>1, <1>2, Removed
<1>5. Len(inbox') <= MaxInbox
  <2>1. Len(inbox') \in Nat /\ Len(inbox') + 1 = Len(inbox)
    BY <1>4, LenProperties DEF Lacks
  <2>2. QED
    BY <1>2, <2>1, ChatAssumption DEF ChatAssumption
<1>6. Quiet => i = 1
  BY DEF Delivered, Quiet
<1>7. QED
  BY <1>1, <1>3, <1>4, <1>5, <1>6 DEF InboxTypes

\* The others stay.
LEMMA LackIn ==
  ASSUME NEW q \in Seq(Arriving), NEW r \in Seq(Arriving), NEW i, Lacks(r, q, i)
  PROVE  /\ \A k \in 1..Len(r) : \E j \in 1..Len(q) : r[k] = q[j]
         /\ \A j \in 1..Len(q) : j # i => \E k \in 1..Len(r) : r[k] = q[j]
<1>1. Len(q) \in Nat /\ Len(r) \in Nat
  BY LenProperties
<1>2. ASSUME NEW k \in 1..Len(r)
      PROVE  \E j \in 1..Len(q) : r[k] = q[j]
  <2>1. CASE k < i
    BY <1>1, <2>1 DEF Lacks
  <2>2. CASE ~(k < i)
    <3>1. k + 1 \in 1..Len(q) /\ r[k] = q[k + 1]
      BY <1>1, <2>2 DEF Lacks
    <3>2. QED
      BY <3>1
  <2>3. QED
    BY <2>1, <2>2
<1>3. ASSUME NEW j \in 1..Len(q), j # i
      PROVE  \E k \in 1..Len(r) : r[k] = q[j]
  <2>1. CASE j < i
    BY <1>1, <2>1 DEF Lacks
  <2>2. CASE ~(j < i)
    <3>1. j - 1 \in 1..Len(r) /\ ~(j - 1 < i) /\ j - 1 + 1 = j
      BY <1>1, <1>3, <2>2 DEF Lacks
    <3>2. r[j - 1] = q[j]
      BY <3>1 DEF Lacks
    <3>3. QED
      BY <3>1, <3>2
  <2>3. QED
    BY <2>1, <2>2
<1>4. QED
  BY <1>2, <1>3

\* What a delivery leaves as it is.
LEMMA DeliveryKeeps ==
  ASSUME ChatInv, NEW i, NEW kinds, Delivered(i, kinds),
         timeline' \in Seq(Message), cursor' \in [ListKind -> 0..MaxMessages], busy' \in BOOLEAN,
         "more" \notin chatEnv => Unlike(timeline'),
         busy' => busy /\ kinds \cap {"list", "failed"} = {}, InStep',
         UNCHANGED <<chatEnv, log, written, channel, dmThread>>
  PROVE  ChatInv'
<1>1. /\ i \in 1..Len(inbox) /\ inbox[i].kind \in kinds
      /\ inbox' \in Seq(Arriving) /\ Lacks(inbox', inbox, i) /\ InboxTypes'
  BY DeliveredFacts DEF ChatInv
<1>2. inbox \in Seq(Arriving)
  BY DEF ChatInv, InboxTypes
<1>3. /\ \A k \in 1..Len(inbox') : \E j \in 1..Len(inbox) : inbox'[k] = inbox[j]
      /\ \A j \in 1..Len(inbox) : j # i => \E k \in 1..Len(inbox') : inbox'[k] = inbox[j]
  BY <1>1, <1>2, LackIn
<1>4. LogTypes' /\ LogsSound' /\ chatEnv' \in ChatScenarios /\ ScreenTypes' /\ ShownOnce'
  BY DEF ChatInv, LogTypes, LogsSound, Unlike, NoId, ScreenTypes, ShownOnce
<1>5. ListsReset'
  <2> SUFFICES ASSUME "more" \notin chatEnv, NEW k \in 1..Len(inbox')
               PROVE  Resets(inbox'[k])
    BY DEF ListsReset, Resets
  <2>1. QED
    BY <1>3 DEF ChatInv, ListsReset
<1>6. BusyEnds'
  <2> SUFFICES ASSUME busy'
               PROVE  \E k \in 1..Len(inbox') : inbox'[k].kind \in {"list", "failed"}
    BY DEF BusyEnds
  <2>1. PICK j \in 1..Len(inbox) : inbox[j].kind \in {"list", "failed"}
    BY DEF ChatInv, BusyEnds
  <2>2. j # i
    BY <1>1, <2>1
  <2>3. PICK k \in 1..Len(inbox') : inbox'[k] = inbox[j]
    BY <1>3, <2>2
  <2>4. QED
    BY <2>1, <2>3
<1>7. QED
  BY <1>1, <1>4, <1>5, <1>6 DEF ChatInv

-----------------------------------------------------------------------------
\* A message that is not a list is shown as ChatAfter says.
LEMMA MessageShown ==
  ASSUME ChatInv, NEW i, NEW kinds, Delivered(i, kinds), kinds \cap {"list", "failed"} = {},
         timeline' = ChatAfter(timeline, inbox[i], Selected),
         UNCHANGED <<chatEnv, log, written, channel, dmThread, cursor, busy>>
  PROVE  ChatInv'
<1>1. /\ inbox \in Seq(Arriving) /\ InboxTypes /\ timeline \in Seq(Message)
      /\ cursor \in [ListKind -> 0..MaxMessages] /\ busy \in BOOLEAN
      /\ "more" \notin chatEnv => Unlike(timeline)
  BY DEF ChatInv, InboxTypes, ScreenTypes, ShownOnce
<1>2. /\ i \in 1..Len(inbox) /\ inbox[i] \in Arriving /\ inbox[i].kind \in kinds
      /\ inbox' \in Seq(Arriving) /\ Lacks(inbox', inbox, i) /\ (Quiet => i = 1)
  BY <1>1, DeliveredFacts
<1>3. inbox[i].kind \notin {"list", "failed"}
  BY <1>2
<1>4. PICK m, n, p : m = inbox[i] /\ n = timeline' /\ p = Selected
  OBVIOUS
<1>5. n \in Seq(Message) /\ (Unlike(timeline) => Unlike(n))
  <2>1. m \in Arriving /\ m.kind \notin {"list", "failed"} /\ n = ChatAfter(timeline, m, p)
    BY <1>2, <1>3, <1>4
  <2>2. QED
    BY <1>1, <2>1, AfterUnlike
<1>6. InStep'
  <2> SUFFICES ASSUME Quiet, Selected # NoPlace
               PROVE  Synced(inbox', p, SelectedList, n, cursor[SelectedList], log[p])
    BY <1>4 DEF InStep, Quiet, Selected, SelectedList
  <2>1. PICK k, cur, s : k = SelectedList /\ cur = cursor[SelectedList] /\ s = log[p]
    OBVIOUS
  <2>2. Synced(inbox, p, k, timeline, cur, s)
    BY <1>4, <2>1 DEF ChatInv, InStep
  <2>3. i = 1 /\ m = inbox[1] /\ 1 \in 1..Len(inbox) /\ m \in Arriving
        /\ m.kind # "list" /\ n = ChatAfter(timeline, m, p)
    BY <1>2, <1>3, <1>4
  <2>4. \A u, v \in Snapshot : Follows(u, inbox[1], p, k, v) /\ Shows(timeline, cur, u) => Shows(n, cur, v)
    BY <2>3, ShowsAfter
  <2>5. \A v \in Snapshot : inbox[1].kind = "list" /\ inbox[1].list = k /\ PageOf(inbox[1].page, v) =>
           Shows(n, cur, v)
    BY <2>3
  <2>6. PICK rest \in Seq(Arriving) : rest = inbox' /\ Lacks(rest, inbox, 1)
    BY <1>2, <2>3
  <2>7. Synced(rest, p, k, n, cur, s)
    BY <1>1, <2>2, <2>3, <2>4, <2>5, <2>6, SyncedHead
  <2>8. QED
    BY <2>1, <2>6, <2>7
<1>7. busy' \in BOOLEAN /\ cursor' \in [ListKind -> 0..MaxMessages] /\ (busy' => busy)
  BY <1>1
<1>8. QED
  BY <1>1, <1>4, <1>5, <1>6, <1>7, DeliveryKeeps

-----------------------------------------------------------------------------
\* A list is shown.
LEMMA ListShown ==
  ASSUME ChatInv, NEW i, ListAnswered(i)
  PROVE  ChatInv'
<1>1. /\ inbox \in Seq(Arriving) /\ InboxTypes /\ timeline \in Seq(Message)
      /\ cursor \in [ListKind -> 0..MaxMessages]
      /\ "more" \notin chatEnv => \A j \in 1..Len(inbox) : Resets(inbox[j])
  BY DEF ChatInv, InboxTypes, ScreenTypes, ListsReset
<1>2. PICK kinds : kinds = {"list"}
  OBVIOUS
<1>3. Delivered(i, kinds)
  BY <1>2 DEF ListAnswered
<1>4. /\ i \in 1..Len(inbox) /\ inbox[i] \in Arriving /\ inbox[i].kind \in kinds
      /\ inbox' \in Seq(Arriving) /\ Lacks(inbox', inbox, i) /\ (Quiet => i = 1)
  BY <1>1, <1>3, DeliveredFacts
<1>5. PICK a : a = inbox[i]
  OBVIOUS
<1>6. PICK n, items : n = timeline' /\ items = a.page.items
  OBVIOUS
<1>7. /\ n = IF a.reset THEN Reverse(items) ELSE items \o timeline
      /\ cursor' = [cursor EXCEPT ![a.list] = a.page.next] /\ busy' = FALSE
      /\ UNCHANGED <<chatEnv, log, written, channel, dmThread>>
  BY <1>5, <1>6 DEF ListAnswered
<1>8. /\ a \in Arriving /\ a.kind = "list" /\ a.list \in ListKind /\ a.page.next \in 0..MaxMessages
      /\ items \in Seq(ServerMessage) /\ items \in Seq(Message)
  BY <1>2, <1>4, <1>5, <1>6, ArrivingFields, ServerMessages
<1>9. PICK cur : cur = a.page.next
  OBVIOUS
<1>10. cursor' \in [ListKind -> 0..MaxMessages] /\ cursor'[a.list] = cur
  BY <1>1, <1>7, <1>8, <1>9
<1>11. PICK rev : rev = Reverse(items)
  OBVIOUS
<1>12. rev \in Seq(Message) /\ (Unlike(items) => Unlike(rev))
  BY <1>8, <1>11, ReversedFacts
<1>13. n \in Seq(Message)
  <2>1. items \o timeline \in Seq(Message)
    BY <1>1, <1>8, ConcatProperties
  <2>2. QED
    BY <1>7, <1>11, <1>12, <2>1
<1>14. "more" \notin chatEnv => a.reset /\ n = rev /\ Unlike(n)
  <2> SUFFICES ASSUME "more" \notin chatEnv
               PROVE  a.reset /\ n = rev /\ Unlike(n)
    OBVIOUS
  <2>1. a.reset /\ Unlike(items)
    BY <1>1, <1>4, <1>5, <1>6, <1>8 DEF Resets
  <2>2. n = rev
    BY <1>7, <1>11, <2>1
  <2>3. QED
    BY <1>12, <2>1, <2>2
<1>15. InStep'
  <2> SUFFICES ASSUME Quiet, Selected # NoPlace
               PROVE  Synced(inbox', Selected, SelectedList, n, cursor'[SelectedList], log[Selected])
    BY <1>6, <1>7 DEF InStep, Quiet, Selected, SelectedList
  <2>1. PICK p, k, old, c, s : /\ p = Selected /\ k = SelectedList /\ old = cursor[SelectedList]
                               /\ c = cursor'[SelectedList] /\ s = log[Selected]
    OBVIOUS
  <2>2. Synced(inbox, p, k, timeline, old, s)
    BY <2>1 DEF ChatInv, InStep
  <2>3. i = 1 /\ a = inbox[1] /\ 1 \in 1..Len(inbox) /\ n = rev
    BY <1>4, <1>5, <1>14 DEF Quiet
  <2>4. ASSUME NEW v \in Snapshot, a.list = k, PageOf(a.page, v)
        PROVE  Shows(n, c, v)
    <3>1. c = a.page.next
      BY <1>9, <1>10, <2>1, <2>4
    <3>2. n = Reverse(a.page.items)
      BY <1>6, <1>11, <2>3
    <3>3. Shows(n, a.page.next, v)
      BY <2>4, <3>2, ShowsListed
    <3>4. QED
      BY <3>1, <3>3
  <2>5. \A u, v \in Snapshot : Follows(u, inbox[1], p, k, v) /\ Shows(timeline, old, u) => Shows(n, c, v)
    <3>1. ASSUME NEW u \in Snapshot, NEW v \in Snapshot, Follows(u, a, p, k, v)
          PROVE  Shows(n, c, v)
      <4>1. v = u /\ a.list = k /\ PageOf(a.page, u)
        BY <1>8, <3>1 DEF Follows
      <4>2. QED
        BY <2>4, <4>1
    <3>2. QED
      BY <2>3, <3>1
  <2>6. \A v \in Snapshot : inbox[1].kind = "list" /\ inbox[1].list = k /\ PageOf(inbox[1].page, v) =>
           Shows(n, c, v)
    BY <2>3, <2>4
  <2>7. PICK rest \in Seq(Arriving) : rest = inbox' /\ Lacks(rest, inbox, 1)
    BY <1>4, <2>3
  <2>8. Synced(rest, p, k, n, c, s)
    BY <1>1, <2>2, <2>3, <2>5, <2>6, <2>7, SyncedHead
  <2>9. QED
    BY <2>1, <2>7, <2>8
<1>16. ~busy' /\ busy' \in BOOLEAN
  BY <1>7
<1>17. QED
  BY <1>3, <1>6, <1>7, <1>10, <1>13, <1>14, <1>15, <1>16, DeliveryKeeps

\* A failed request leaves the list as it is.
LEMMA FailureKeeps ==
  ASSUME ChatInv, NEW i, ListFailed(i)
  PROVE  ChatInv'
<1>1. /\ inbox \in Seq(Arriving) /\ InboxTypes /\ timeline \in Seq(Message)
      /\ cursor \in [ListKind -> 0..MaxMessages]
      /\ "more" \notin chatEnv => Unlike(timeline)
  BY DEF ChatInv, InboxTypes, ScreenTypes, ShownOnce
<1>2. PICK kinds : kinds = {"failed"}
  OBVIOUS
<1>3. /\ Delivered(i, kinds) /\ busy' = FALSE
      /\ UNCHANGED <<chatEnv, log, written, channel, dmThread, timeline, cursor>>
  BY <1>2 DEF ListFailed
<1>4. /\ i \in 1..Len(inbox) /\ inbox[i].kind = "failed"
      /\ inbox' \in Seq(Arriving) /\ Lacks(inbox', inbox, i) /\ (Quiet => i = 1)
  BY <1>1, <1>2, <1>3, DeliveredFacts
<1>5. InStep'
  <2> SUFFICES ASSUME Quiet, Selected # NoPlace
               PROVE  Synced(inbox', Selected, SelectedList, timeline, cursor[SelectedList], log[Selected])
    BY <1>3 DEF InStep, Quiet, Selected, SelectedList
  <2>1. PICK p, k, cur, s : /\ p = Selected /\ k = SelectedList /\ cur = cursor[SelectedList]
                            /\ s = log[Selected]
    OBVIOUS
  <2>2. Synced(inbox, p, k, timeline, cur, s)
    BY <2>1 DEF ChatInv, InStep
  <2>3. i = 1 /\ inbox[1].kind = "failed" /\ 1 \in 1..Len(inbox)
    BY <1>4
  <2>4. \A u, v \in Snapshot :
           Follows(u, inbox[1], p, k, v) /\ Shows(timeline, cur, u) => Shows(timeline, cur, v)
    BY <2>3 DEF Follows
  <2>5. \A v \in Snapshot : inbox[1].kind = "list" /\ inbox[1].list = k /\ PageOf(inbox[1].page, v) =>
           Shows(timeline, cur, v)
    BY <2>3
  <2>6. PICK rest \in Seq(Arriving) : rest = inbox' /\ Lacks(rest, inbox, 1)
    BY <1>4, <2>3
  <2>7. Synced(rest, p, k, timeline, cur, s)
    BY <1>1, <2>2, <2>3, <2>4, <2>5, <2>6, SyncedHead
  <2>8. QED
    BY <2>1, <2>6, <2>7
<1>6. ~busy' /\ busy' \in BOOLEAN
  BY <1>3
<1>7. QED
  BY <1>1, <1>3, <1>5, <1>6, DeliveryKeeps

\* The other answers and the events.
LEMMA ArrivalKeeps ==
  ASSUME ChatInv, NEW i,
         MessageAnswered(i) \/ DeleteAnswered(i) \/ MessageEvent(i) \/ ReactionEvent(i)
  PROVE  ChatInv'
<1>1. InboxTypes /\ ScreenTypes
  BY DEF ChatInv
<1>2. ASSUME NEW kinds, Delivered(i, kinds)
      PROVE  i \in 1..Len(inbox) /\ inbox[i] \in Arriving /\ inbox[i].kind \in kinds
  BY <1>1, <1>2, DeliveredFacts
<1>3. CASE MessageAnswered(i)
  <2>1. PICK kinds : kinds = {"message"} /\ Delivered(i, kinds)
    BY <1>3 DEF MessageAnswered
  <2>2. timeline' = ChatAfter(timeline, inbox[i], Selected)
    <3>1. inbox[i].kind = "message"
      BY <1>2, <2>1
    <3>2. QED
      BY <1>3, <3>1 DEF MessageAnswered, ChatAfter
  <2>3. UNCHANGED <<chatEnv, log, written, channel, dmThread, cursor, busy>>
    BY <1>3 DEF MessageAnswered
  <2>4. kinds \cap {"list", "failed"} = {}
    BY <2>1
  <2>5. QED
    BY <2>1, <2>2, <2>3, <2>4, MessageShown
<1>4. CASE DeleteAnswered(i)
  <2>1. PICK kinds : kinds = {"deleted"} /\ Delivered(i, kinds)
    BY <1>4 DEF DeleteAnswered
  <2>2. timeline' = ChatAfter(timeline, inbox[i], Selected)
    <3>1. inbox[i].kind = "deleted"
      BY <1>2, <2>1
    <3>2. QED
      BY <1>4, <3>1 DEF DeleteAnswered, ChatAfter
  <2>3. UNCHANGED <<chatEnv, log, written, channel, dmThread, cursor, busy>>
    BY <1>4 DEF DeleteAnswered
  <2>4. kinds \cap {"list", "failed"} = {}
    BY <2>1
  <2>5. QED
    BY <2>1, <2>2, <2>3, <2>4, MessageShown
<1>5. CASE MessageEvent(i)
  <2>1. PICK kinds : kinds = {"create", "update", "delete"} /\ Delivered(i, kinds)
    BY <1>5 DEF MessageEvent
  <2>2. timeline' = ChatAfter(timeline, inbox[i], Selected)
    <3>1. inbox[i] \in Arriving /\ inbox[i].kind \in {"create", "update", "delete"}
      BY <1>2, <2>1
    <3>2. inbox[i].place \in Place
      BY <3>1, ArrivingFields
    <3>3. inbox[i].place \notin {channel, dmThread} <=> inbox[i].place # Selected
      BY <1>1, <3>2, SelectedFacts
    <3>4. timeline' = IF inbox[i].place \notin {channel, dmThread} THEN timeline
                      ELSE IF inbox[i].kind = "delete" THEN RemoveMessage(timeline, inbox[i].id)
                      ELSE UpsertMessage(timeline, inbox[i].msg)
      BY <1>5 DEF MessageEvent
    <3>5. QED
      BY <3>1, <3>3, <3>4 DEF ChatAfter
  <2>3. UNCHANGED <<chatEnv, log, written, channel, dmThread, cursor, busy>>
    BY <1>5 DEF MessageEvent
  <2>4. kinds \cap {"list", "failed"} = {}
    BY <2>1
  <2>5. QED
    BY <2>1, <2>2, <2>3, <2>4, MessageShown
<1>6. CASE ReactionEvent(i)
  <2>1. PICK kinds : kinds = {"react"} /\ Delivered(i, kinds)
    BY <1>6 DEF ReactionEvent
  <2>2. timeline' = ChatAfter(timeline, inbox[i], Selected)
    <3>1. inbox[i].kind = "react"
      BY <1>2, <2>1
    <3>2. timeline' = Reacted(timeline, inbox[i].id, inbox[i].add)
      BY <1>6, Zenon DEF ReactionEvent, Reacted
    <3>3. QED
      BY <3>1, <3>2 DEF ChatAfter
  <2>3. UNCHANGED <<chatEnv, log, written, channel, dmThread, cursor, busy>>
    BY <1>6 DEF ReactionEvent
  <2>4. kinds \cap {"list", "failed"} = {}
    BY <2>1
  <2>5. QED
    BY <2>1, <2>2, <2>3, <2>4, MessageShown
<1>7. QED
  BY <1>3, <1>4, <1>5, <1>6

-----------------------------------------------------------------------------
(* The server.                                                             *)

\* What is served and untold; nothing is where requests do not overlap.
ServerInv ==
    /\ serving \in Seq(ChangeRequest) /\ untold \in Seq(UntoldItems)
    /\ ~RequestsOverlap => serving = <<>> /\ untold = <<>>

\* Where they overlap the screen need not be in step with the log.
LEMMA OverlapLoud ==
  ASSUME RequestsOverlap, chatEnv' = chatEnv
  PROVE  ~Quiet /\ ~Quiet' /\ InStep' /\ RequestsOverlap'
BY DEF RequestsOverlap, Quiet, InStep

\* Only the log changes.
LEMMA LogKeeps ==
  ASSUME ChatInv, RequestsOverlap, LogTypes', LogsSound',
         UNCHANGED <<chatEnv, channel, dmThread, timeline, cursor, busy, inbox>>
  PROVE  ChatInv'
<1>1. chatEnv' \in ChatScenarios /\ InboxTypes' /\ ScreenTypes' /\ ListsReset' /\ ShownOnce' /\ BusyEnds'
  BY DEF ChatInv, InboxTypes, ScreenTypes, ListsReset, Resets, Unlike, ShownOnce, BusyEnds
<1>2. QED
  BY <1>1, OverlapLoud DEF ChatInv

\* What is announced is untold then, or told.
LEMMA AnnounceKeeps ==
  ASSUME ServerInv, NEW items \in UntoldItems, Announce(items),
         chatEnv' = chatEnv, serving' \in Seq(ChangeRequest), ~RequestsOverlap => serving' = <<>>
  PROVE  ServerInv'
<1>1. CASE RequestsOverlap
  BY <1>1, OverlapLoud, Appended DEF ServerInv, Announce
<1>2. CASE ~RequestsOverlap
  <2>1. untold' = untold /\ ~RequestsOverlap'
    BY <1>2 DEF Announce, RequestsOverlap
  <2>2. QED
    BY <1>2, <2>1 DEF ServerInv
<1>3. QED
  BY <1>1, <1>2

\* A message is written.
LEMMA PostKeeps ==
  ASSUME ChatInv, ServerInv, NEW p \in Place, NEW answer \in BOOLEAN, WriteMessage(p, answer),
         answer => p = Selected, UNCHANGED <<chatEnv, channel, dmThread, timeline, cursor, busy>>
  PROVE  ChatInv' /\ ServerInv'
<1>1. LogTypes /\ LogsSound /\ inbox \in Seq(Arriving) /\ chatEnv \in ChatScenarios
  BY DEF ChatInv, InboxTypes
<1>2. PICK items : Sends(items) /\ Occurs(p, answer, items)
  BY <1>1, WriteFacts
<1>3. ServerInv'
  BY <1>2, AnnounceKeeps DEF WriteMessage, Sends, ServerInv
<1>4. CASE RequestsOverlap
  BY <1>2, <1>3, <1>4, LogKeeps DEF Sends, Announce
<1>5. CASE ~RequestsOverlap
  <2>1. Happens(p, answer)
    BY <1>1, <1>2, <1>5, Happening DEF Sends
  <2>2. QED
    BY <1>3, <2>1, HappensKeeps
<1>6. QED
  BY <1>4, <1>5

\* A request passes its checks, and is served where requests do not overlap.
LEMMA ChecksKeep ==
  ASSUME ChatInv, ServerInv, NEW op \in {"edit", "delete", "react"}, NEW p \in Place,
         NEW i \in 1..Len(log[p]), NEW answer \in BOOLEAN, PassesChecks(op, p, i, answer),
         answer => p = Selected, UNCHANGED <<chatEnv, channel, dmThread, timeline, cursor, busy>>
  PROVE  ChatInv' /\ ServerInv'
<1>1. LogTypes /\ LogsSound /\ inbox \in Seq(Arriving)
  BY DEF ChatInv, InboxTypes
<1>2. PICK r : r = [op |-> op, place |-> p, msg |-> log[p][i], answer |-> answer]
  OBVIOUS
<1>3. r \in ChangeRequest /\ r.place = p /\ r.msg = log[p][i] /\ r.answer = answer
  <2>1. log[p][i] \in ServerMessage
    BY <1>1, LogFacts, ElementOfSeq
  <2>2. QED
    BY <1>2, <2>1 DEF ChangeRequest
<1>4. /\ written' = written
      /\ IF RequestsOverlap THEN serving' = Append(serving, r) /\ UNCHANGED <<log, inbox, untold>>
         ELSE Writes(r) /\ serving' = serving
  BY <1>2 DEF PassesChecks
<1>5. CASE RequestsOverlap
  <2>1. LogTypes' /\ LogsSound'
    BY <1>1, <1>4, <1>5 DEF LogTypes, LogsSound, Unlike, NoId
  <2>2. ChatInv'
    BY <1>4, <1>5, <2>1, LogKeeps
  <2>3. serving' \in Seq(ChangeRequest)
    BY <1>3, <1>4, <1>5, Appended DEF ServerInv
  <2>4. QED
    BY <1>4, <1>5, <2>2, <2>3, OverlapLoud DEF ServerInv
<1>6. CASE ~RequestsOverlap
  <2>1. PICK items : /\ Sends(items)
                     /\ StillLogged(r) => \E a \in BOOLEAN : (a => r.answer) /\ Occurs(r.place, a, items)
    BY <1>1, <1>3, <1>4, <1>6, ChangeFacts
  <2>2. StillLogged(r)
    BY <1>3 DEF StillLogged, Index
  <2>3. PICK a \in BOOLEAN : (a => answer) /\ Occurs(p, a, items)
    BY <1>3, <2>1, <2>2
  <2>4. Happens(p, a)
    BY <1>1, <1>6, <2>1, <2>3, Happening DEF Sends
  <2>5. ServerInv'
    BY <1>4, <1>6, <2>1, AnnounceKeeps DEF Sends, ServerInv
  <2>6. QED
    BY <2>3, <2>4, <2>5, HappensKeeps
<1>7. QED
  BY <1>5, <1>6

\* An overlapping request writes, or its reaction is refused.
LEMMA WriteEndsKeeps ==
  ASSUME ChatInv, ServerInv, NEW j, WriteEnds(j)
  PROVE  ChatInv' /\ ServerInv'
<1>1. LogTypes /\ LogsSound /\ serving \in Seq(ChangeRequest)
  BY DEF ChatInv, ServerInv
<1>2. /\ j \in 1..Len(serving) /\ serving' = RemoveAt(serving, j)
      /\ UNCHANGED <<chatEnv, written, channel, dmThread, timeline, cursor, busy>>
  BY DEF WriteEnds
<1>3. PICK r \in ChangeRequest : r = serving[j] /\ (Writes(r) \/ ReactionRefused(r))
  BY <1>1, <1>2, ElementOfSeq DEF WriteEnds
<1>4. RequestsOverlap
  <2>1. Len(<<>>) = 0 /\ 1..0 = {}
    OBVIOUS
  <2>2. QED
    BY <1>2, <2>1 DEF ServerInv
<1>5. serving' \in Seq(ChangeRequest)
  BY <1>1, <1>2, Removed
<1>6. CASE Writes(r)
  <2>1. PICK items : Sends(items)
    BY <1>1, <1>2, <1>6, ChangeFacts
  <2>2. LogTypes' /\ LogsSound' /\ inbox' = inbox
    BY <1>4, <2>1 DEF Sends, Announce
  <2>3. ChatInv'
    BY <1>2, <1>4, <2>2, LogKeeps
  <2>4. ServerInv'
    BY <1>2, <1>4, <1>5, <2>1, AnnounceKeeps DEF Sends
  <2>5. QED
    BY <2>3, <2>4
<1>7. CASE ReactionRefused(r)
  <2>1. UNCHANGED <<log, inbox, untold>>
    BY <1>7 DEF ReactionRefused
  <2>2. LogTypes' /\ LogsSound'
    BY <1>1, <1>2, <2>1 DEF LogTypes, LogsSound, Unlike, NoId
  <2>3. ChatInv'
    BY <1>2, <1>4, <2>1, <2>2, LogKeeps
  <2>4. ServerInv'
    BY <1>2, <1>4, <1>5, <2>1, OverlapLoud DEF ServerInv
  <2>5. QED
    BY <2>3, <2>4
<1>8. QED
  BY <1>3, <1>6, <1>7

\* It tells.
LEMMA TellEndsKeeps ==
  ASSUME ChatInv, ServerInv, NEW j, TellEnds(j)
  PROVE  ChatInv' /\ ServerInv'
<1>1. /\ j \in 1..Len(untold) /\ Emit(untold[j]) /\ untold' = RemoveAt(untold, j)
      /\ UNCHANGED <<chatEnv, log, written, serving, channel, dmThread, timeline, cursor, busy>>
  BY DEF TellEnds
<1>2. PICK items \in UntoldItems : items = untold[j]
  BY <1>1, ElementOfSeq DEF ServerInv
<1>3. RequestsOverlap
  <2>1. Len(<<>>) = 0 /\ 1..0 = {}
    OBVIOUS
  <2>2. QED
    BY <1>1, <2>1 DEF ServerInv
<1>4. inbox \in Seq(Arriving) /\ items \in Seq(Arriving) /\ Len(inbox) \in Nat /\ Len(items) \in Nat
  BY LenProperties DEF ChatInv, InboxTypes, UntoldItems
<1>5. PICK q : q = inbox \o items
  OBVIOUS
<1>6. /\ q \in Seq(Arriving) /\ Len(q) = Len(inbox) + Len(items)
      /\ \A i \in 1..(Len(inbox) + Len(items)) :
            q[i] = IF i <= Len(inbox) THEN inbox[i] ELSE items[i - Len(inbox)]
  BY <1>4, <1>5, ConcatProperties
<1>7. inbox' = q /\ Len(q) <= MaxInbox
  BY <1>1, <1>2, <1>5, <1>6 DEF Emit
<1>8. ASSUME NEW i \in 1..Len(q)
      PROVE  \/ i \in 1..Len(inbox) /\ q[i] = inbox[i]
             \/ \E k \in 1..Len(items) : q[i] = items[k]
  <2>1. CASE i <= Len(inbox)
    BY <1>4, <1>6, <2>1
  <2>2. CASE ~(i <= Len(inbox))
    <3>1. i - Len(inbox) \in 1..Len(items) /\ q[i] = items[i - Len(inbox)]
      BY <1>4, <1>6, <2>2
    <3>2. QED
      BY <3>1
  <2>3. QED
    BY <2>1, <2>2
<1>9. \A i \in 1..Len(inbox) : i \in 1..Len(q) /\ q[i] = inbox[i]
  BY <1>4, <1>6
<1>10. InboxTypes'
  BY <1>6, <1>7 DEF InboxTypes
<1>11. ListsReset'
  <2>1. ASSUME "more" \notin chatEnv, NEW i \in 1..Len(q)
        PROVE  Resets(q[i])
    <3>1. CASE i \in 1..Len(inbox) /\ q[i] = inbox[i]
      BY <2>1, <3>1 DEF ChatInv, ListsReset
    <3>2. CASE \E k \in 1..Len(items) : q[i] = items[k]
      BY <3>2 DEF UntoldItems, Resets
    <3>3. QED
      BY <1>8, <3>1, <3>2
  <2>2. QED
    BY <1>1, <1>7, <2>1 DEF ListsReset, Resets
<1>12. BusyEnds'
  <2>1. busy => \E i \in 1..Len(q) : q[i].kind \in {"list", "failed"}
    BY <1>9 DEF ChatInv, BusyEnds
  <2>2. QED
    BY <1>1, <1>7, <2>1 DEF BusyEnds
<1>13. LogTypes' /\ LogsSound' /\ chatEnv' \in ChatScenarios /\ ScreenTypes' /\ ShownOnce'
  BY <1>1 DEF ChatInv, LogTypes, LogsSound, Unlike, NoId, ScreenTypes, ShownOnce
<1>14. ChatInv'
  BY <1>1, <1>3, <1>10, <1>11, <1>12, <1>13, OverlapLoud DEF ChatInv
<1>15. ServerInv'
  <2>1. untold' \in Seq(UntoldItems)
    BY <1>1, Removed DEF ServerInv
  <2>2. QED
    BY <1>1, <1>3, <2>1, OverlapLoud DEF ServerInv
<1>16. QED
  BY <1>14, <1>15

-----------------------------------------------------------------------------
\* What others do.
LEMMA OthersKeep ==
  ASSUME ChatInv, ServerInv, OthersWrite
  PROVE  ChatInv' /\ ServerInv'
<1>1. UNCHANGED <<chatEnv, channel, dmThread, timeline, cursor, busy>>
  BY DEF OthersWrite
<1>2. PICK answer \in BOOLEAN : answer = FALSE
  OBVIOUS
<1>3. CASE \E p \in Place : WriteMessage(p, FALSE)
  BY <1>1, <1>2, <1>3, PostKeeps
<1>4. ASSUME NEW p \in TextChannel, NEW i \in 1..Len(log[p]), NEW op \in {"edit", "delete", "react"},
             PassesChecks(op, p, i, FALSE)
      PROVE  ChatInv' /\ ServerInv'
  <2>1. p \in Place
    BY DEF Place
  <2>2. QED
    BY <1>1, <1>2, <1>4, <2>1, ChecksKeep
<1>5. QED
  BY <1>3, <1>4 DEF OthersWrite

\* What the user writes.
LEMMA SendKeeps ==
  ASSUME ChatInv, ServerInv, SendMessage
  PROVE  ChatInv' /\ ServerInv'
<1>1. ScreenTypes
  BY DEF ChatInv
<1>2. UNCHANGED <<chatEnv, channel, dmThread, timeline, cursor, busy>>
  BY DEF SendMessage
<1>3. PICK answer \in BOOLEAN : answer = TRUE
  OBVIOUS
<1>4. PICK p : p \in {channel, dmThread} \ {NoPlace} /\ WriteMessage(p, answer)
  BY <1>3 DEF SendMessage
<1>5. p \in Place /\ p = Selected
  BY <1>1, <1>4, SelectedFacts DEF ScreenTypes, Place
<1>6. QED
  BY <1>2, <1>4, <1>5, PostKeeps

\* What the user changes.
LEMMA ChangeKeeps ==
  ASSUME ChatInv, ServerInv, EditMessage \/ DeleteMessage \/ ReactToMessage
  PROVE  ChatInv' /\ ServerInv'
<1>1. ScreenTypes
  BY DEF ChatInv
<1>2. PICK op \in {"edit", "delete", "react"}, answer \in BOOLEAN : Change(op, answer)
  BY DEF EditMessage, DeleteMessage, ReactToMessage
<1>3. /\ channel # NoPlace
      /\ UNCHANGED <<chatEnv, channel, dmThread, timeline, cursor, busy>>
      /\ \E i \in 1..Len(log[channel]) : PassesChecks(op, channel, i, answer)
  BY <1>2 DEF Change
<1>4. channel \in Place /\ channel = Selected
  BY <1>1, <1>3 DEF ScreenTypes, Place, Selected
<1>5. PICK p \in Place : p = channel
  BY <1>4
<1>6. PICK i \in 1..Len(log[p]) : PassesChecks(op, p, i, answer)
  BY <1>3, <1>5
<1>7. QED
  BY <1>3, <1>4, <1>5, <1>6, ChecksKeep

\* What the user selects.
LEMMA SelectionKeeps ==
  ASSUME ChatInv,
         (\E c \in TextChannel : SelectChannel(c)) \/ (\E t \in DmThread : SelectDmThread(t))
  PROVE  ChatInv'
<1>1. LogTypes /\ LogsSound /\ ScreenTypes
  BY DEF ChatInv
<1>2. PICK reset \in BOOLEAN : reset = TRUE
  OBVIOUS
<1>3. ASSUME NEW p \in Place, NEW k \in ListKind, NEW m, m = ListAnswer(k, p, reset)
      PROVE  m \in Arriving /\ FirstPage(m, k, log[p])
  <2>1. reset
    BY <1>2, Zenon
  <2>2. QED
    BY <1>1, <1>3, <2>1, AnswerFacts
<1>4. ASSUME NEW c \in TextChannel, SelectChannel(c)
      PROVE  ChatInv'
  <2>1. PICK k \in ListKind : k = "channel"
    BY DEF ListKind
  <2>2. PICK m, e : m = ListAnswer(k, c, reset) /\ e = <<m>>
    OBVIOUS
  <2>3. c \in Place /\ c # NoPlace
    BY ChatAssumption DEF Place, ChatAssumption
  <2>4. /\ m \in Arriving /\ FirstPage(m, k, log[c])
        /\ Copies(e, m) /\ Copies(e \o e, m)
    BY <1>3, <2>2, <2>3, CopiesFacts
  <2>5. PICK load : Copies(load, m) /\ Request(load)
    <3>1. Request(IF channel = c THEN e ELSE e \o e)
      BY <1>2, <1>4, <2>1, <2>2, Zenon DEF SelectChannel
    <3>2. QED
      BY <2>4, <3>1, Zenon
  <2>6. /\ channel' = c /\ dmThread' = NoPlace /\ busy' = TRUE
        /\ cursor' = [cursor EXCEPT !["channel"] = NoCursor]
        /\ UNCHANGED <<chatEnv, log, written, timeline>>
    BY <1>4 DEF SelectChannel
  <2>7. ScreenTypes'
    BY <1>1, <2>6, ChatAssumption DEF ScreenTypes, ListKind, NoCursor, ChatAssumption
  <2>8. Selected' = c /\ SelectedList' = k
    BY <2>1, <2>3, <2>6 DEF Selected, SelectedList
  <2>9. QED
    BY <2>3, <2>4, <2>5, <2>6, <2>7, <2>8, SelectKeeps
<1>5. ASSUME NEW t \in DmThread, SelectDmThread(t)
      PROVE  ChatInv'
  <2>1. PICK k \in ListKind : k = "thread"
    BY DEF ListKind
  <2>2. PICK m, e : m = ListAnswer(k, t, reset) /\ e = <<m>>
    OBVIOUS
  <2>3. t \in Place
    BY DEF Place
  <2>4. /\ m \in Arriving /\ FirstPage(m, k, log[t])
        /\ Copies(e, m)
    BY <1>3, <2>2, <2>3, CopiesFacts
  <2>5. Request(e)
    BY <1>2, <1>5, <2>1, <2>2, Zenon DEF SelectDmThread
  <2>6. /\ channel' = NoPlace /\ dmThread' = t /\ busy' = TRUE
        /\ cursor' = [cursor EXCEPT !["thread"] = NoCursor]
        /\ UNCHANGED <<chatEnv, log, written, timeline>>
    BY <1>5 DEF SelectDmThread
  <2>7. ScreenTypes'
    BY <1>1, <2>6, ChatAssumption DEF ScreenTypes, ListKind, NoCursor, ChatAssumption
  <2>8. Selected' = t /\ SelectedList' = k
    BY <2>1, <2>6 DEF Selected, SelectedList
  <2>9. QED
    BY <2>3, <2>4, <2>5, <2>6, <2>7, <2>8, SelectKeeps
<1>6. QED
  BY <1>4, <1>5

-----------------------------------------------------------------------------
(* The theorems.                                                           *)

\* The first state.
LEMMA ChatStarts ==
  ASSUME ChatInit
  PROVE  ChatInv
<1>1. /\ chatEnv \in ChatScenarios /\ log = [p \in Place |-> <<>>] /\ written = 0
      /\ channel = NoPlace /\ dmThread = NoPlace /\ timeline = <<>>
      /\ cursor = [k \in ListKind |-> NoCursor] /\ busy = FALSE /\ inbox = <<>>
  BY DEF ChatInit
<1>2. LogTypes /\ LogsSound
  <2>1. \A p \in Place : log[p] = <<>> /\ Len(log[p]) = 0
    BY <1>1
  <2>2. written \in 0..MaxMessages
    BY <1>1, ChatAssumption DEF ChatAssumption
  <2>3. log \in [Place -> Seq(ServerMessage)]
    BY <1>1
  <2>4. LogsSound
    <3>1. \A p \in Place : \A i \in 1..Len(log[p]) : FALSE
      BY <2>1
    <3>2. QED
      BY <3>1 DEF LogsSound, Unlike
  <2>5. QED
    BY <2>2, <2>3, <2>4 DEF LogTypes
<1>3. InboxTypes /\ ScreenTypes
  <2>1. Len(<<>>) <= MaxInbox /\ NoCursor \in 0..MaxMessages
    BY ChatAssumption DEF NoCursor, ChatAssumption
  <2>2. inbox \in Seq(Arriving) /\ timeline \in Seq(Message) /\ Len(inbox) <= MaxInbox
    BY <1>1, <2>1
  <2>3. cursor \in [ListKind -> 0..MaxMessages] /\ busy \in BOOLEAN
    BY <1>1, <2>1
  <2>4. QED
    BY <1>1, <2>2, <2>3 DEF InboxTypes, ScreenTypes
<1>4. ListsReset /\ ShownOnce /\ BusyEnds /\ InStep
  BY <1>1 DEF ListsReset, ShownOnce, Unlike, BusyEnds, InStep, Selected
<1>5. QED
  BY <1>1, <1>2, <1>3, <1>4 DEF ChatInv

\* Nothing is served at first.
LEMMA ServerStarts ==
  ASSUME ChatInit
  PROVE  ServerInv
BY DEF ChatInit, ServerInv

\* The server does not take part.
LEMMA ServerRests ==
  ASSUME ServerInv, UNCHANGED <<chatEnv, serving, untold>>
  PROVE  ServerInv'
BY DEF ServerInv, RequestsOverlap

\* Every step.
LEMMA ChatSteps ==
  ASSUME ChatInv, ServerInv, [ChatNext]_chatVars
  PROVE  ChatInv' /\ ServerInv'
<1>1. CASE OthersWrite
  BY <1>1, OthersKeep
<1>2. CASE (\E c \in TextChannel : SelectChannel(c)) \/ (\E t \in DmThread : SelectDmThread(t))
  <2>1. UNCHANGED <<chatEnv, serving, untold>>
    BY <1>2 DEF SelectChannel, SelectDmThread
  <2>2. QED
    BY <1>2, <2>1, SelectionKeeps, ServerRests
<1>3. CASE \E k \in ListKind, p \in Place : LoadMore(k, p)
  <2>1. UNCHANGED <<chatEnv, serving, untold>>
    BY <1>3 DEF LoadMore
  <2>2. QED
    BY <1>3, <2>1, LoadMoreKeeps, ServerRests
<1>4. CASE SendMessage
  BY <1>4, SendKeeps
<1>5. CASE EditMessage \/ DeleteMessage \/ ReactToMessage
  BY <1>5, ChangeKeeps
<1>6. ASSUME NEW i \in 1..MaxInbox,
             \/ ListAnswered(i) \/ ListFailed(i) \/ MessageAnswered(i) \/ DeleteAnswered(i)
             \/ MessageEvent(i) \/ ReactionEvent(i)
      PROVE  ChatInv' /\ ServerInv'
  <2>1. UNCHANGED <<chatEnv, serving, untold>>
    BY <1>6 DEF ListAnswered, ListFailed, MessageAnswered, DeleteAnswered, MessageEvent, ReactionEvent
  <2>2. QED
    BY <1>6, <2>1, ListShown, FailureKeeps, ArrivalKeeps, ServerRests
<1>7. CASE \E j \in 1..MaxServing : WriteEnds(j) \/ TellEnds(j)
  BY <1>7, WriteEndsKeeps, TellEndsKeeps
<1>8. CASE UNCHANGED chatVars
  <2>1. ChatInv'
    <3>1. UNCHANGED <<chatEnv, log, written, channel, dmThread, timeline, cursor, busy, inbox>>
      BY <1>8 DEF chatVars
    <3>2. LogTypes' /\ LogsSound'
      BY <3>1 DEF ChatInv, LogTypes, LogsSound, Unlike, NoId
    <3>3. chatEnv' \in ChatScenarios /\ InboxTypes' /\ ScreenTypes'
      BY <3>1 DEF ChatInv, InboxTypes, ScreenTypes
    <3>4. ListsReset' /\ ShownOnce' /\ BusyEnds'
      BY <3>1 DEF ChatInv, ListsReset, Resets, Unlike, ShownOnce, BusyEnds
    <3>5. InStep'
      BY <3>1 DEF ChatInv, InStep, Quiet, Selected, SelectedList
    <3>6. QED
      BY <3>2, <3>3, <3>4, <3>5 DEF ChatInv
  <2>2. ServerInv'
    BY <1>8, ServerRests DEF chatVars
  <2>3. QED
    BY <2>1, <2>2
<1>9. QED
  BY <1>1, <1>2, <1>3, <1>4, <1>5, <1>6, <1>7, <1>8 DEF ChatNext

\* What it says.
LEMMA ChatSays ==
  ASSUME ChatInv, ServerInv
  PROVE  ChatTypeOK /\ TimelineSound
<1>1. ChatTypeOK
  BY DEF ChatInv, ServerInv, LogTypes, ScreenTypes, InboxTypes, ChatTypeOK
<1>2. NoMessageTwice
  BY DEF ChatInv, ShownOnce, Unlike, NoMessageTwice
<1>3. ShowsSelected
  <2> SUFFICES ASSUME Quiet, inbox = <<>>, Selected # NoPlace
               PROVE  IF cursor[SelectedList] = NoCursor THEN timeline = log[Selected]
                      ELSE ToSet(timeline) \subseteq ToSet(log[Selected])
    BY DEF ShowsSelected, Quiet
  <2>1. PICK p, k, cur, s : /\ p = Selected /\ k = SelectedList /\ cur = cursor[SelectedList]
                            /\ s = log[Selected]
    OBVIOUS
  <2>2. Synced(inbox, p, k, timeline, cur, s) /\ Len(inbox) = 0
    BY <2>1 DEF ChatInv, InStep
  <2>3. Shows(timeline, cur, s)
    BY <2>2, SyncedAtRest
  <2>4. CASE cur = NoCursor
    BY <2>1, <2>3, <2>4 DEF Shows
  <2>5. CASE cur # NoCursor
    <3>1. \A j \in 1..Len(timeline) : In(timeline[j], s)
      BY <2>3, <2>5 DEF Shows
    <3>2. s \in Seq(ServerMessage) /\ timeline \in Seq(Message)
      BY <2>1, LogFacts, SelectedFacts DEF ChatInv, ScreenTypes
    <3>3. DOMAIN s = 1..Len(s) /\ DOMAIN timeline = 1..Len(timeline)
      BY <3>2, LenProperties
    <3>4. ToSet(timeline) \subseteq ToSet(s)
      BY <3>1, <3>3 DEF ToSet, In
    <3>5. QED
      BY <2>1, <2>5, <3>4
  <2>6. QED
    BY <2>4, <2>5
<1>4. BusyEnds
  BY DEF ChatInv
<1>5. QED
  BY <1>1, <1>2, <1>3, <1>4 DEF TimelineSound

\* The message list of the client and the queue in front of it are well formed.
THEOREM TimelineTypes == ChatSpec => []ChatTypeOK
<1>1. ChatInit => ChatInv /\ ServerInv
  BY ChatStarts, ServerStarts
<1>2. ChatInv /\ ServerInv /\ [ChatNext]_chatVars => ChatInv' /\ ServerInv'
  BY ChatSteps
<1>3. ChatInv /\ ServerInv => ChatTypeOK
  BY ChatSays
<1>4. QED
  BY <1>1, <1>2, <1>3, PTL DEF ChatSpec

\* No message is on the screen twice, whatever overtakes what; when nothing is under way the
\* screen shows the selected place as the server has it, unless requests overlap; the progress
\* indicator ends.
THEOREM TimelineIsSound == ChatSpec => []TimelineSound
<1>1. ChatInit => ChatInv /\ ServerInv
  BY ChatStarts, ServerStarts
<1>2. ChatInv /\ ServerInv /\ [ChatNext]_chatVars => ChatInv' /\ ServerInv'
  BY ChatSteps
<1>3. ChatInv /\ ServerInv => TimelineSound
  BY ChatSays
<1>4. QED
  BY <1>1, <1>2, <1>3, PTL DEF ChatSpec
===============================================================================

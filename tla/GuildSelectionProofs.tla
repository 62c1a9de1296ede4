------------------------ MODULE GuildSelectionProofs ------------------------
(***************************************************************************)
(* What the screen shows of a guild, for any number of guilds, channels    *)
(* and conversations and any length of the queue.  Each answer replaces a  *)
(* part of the screen by what was so when the server wrote it, so it may   *)
(* be out of date when it is shown; nothing but a later message sets it    *)
(* right.  The invariant says that such a message is always on its way:    *)
(* whatever the screen, or a message of the queue, has wrong is followed   *)
(* by a message that mends it (Mended).  Lists of channels are what the    *)
(* guild's were at some time, and only grow where answers keep their order,*)
(* which is why the open channel stays subscribed to.                      *)
(***************************************************************************)
EXTENDS GuildSelection, WellFoundedInduction, SequenceTheorems, TLAPS

\* Answers and events, by kind.
GuildMessage ==
    [kind : {"guilds"}, list : Seq(Guild)]
    \cup [kind : {"rooms"}, of : Guild \cup {NoGuild}, types : Seq(RoomType)]
    \cup [kind : {"members"}, of : Guild \cup {NoGuild}, friend : Presence \cup {NoUser}]
    \cup [kind : {"threads"}, count : 0..MaxThreads]
    \cup [kind : {"memberJoin"}, of : Guild]
    \cup [kind : {"friendPresence"}, presence : Presence]
    \cup [kind : {"presence", "joined", "roomCreated", "threadCreated", "failed"}]

\* Requests, by kind.
GuildRequest ==
    [kind : {"guilds", "threads", "presence", "joined", "roomCreated", "threadCreated"}]
    \cup [kind : {"rooms", "members"}, of : Guild]

\* The store, the account, channels and friend of the server, and all of the state.
StoreState ==
    [signedIn : BOOLEAN, presence : Presence \cup {NoUser}, guilds : Seq(Guild),
     guild : Guild \cup {NoGuild},
     rooms : [of : Guild \cup {NoGuild}, types : Seq(RoomType)],
     room : (Guild \X (Nat \ {0})) \cup {NoRoom},
     members : [of : Guild \cup {NoGuild}, friend : Presence \cup {NoUser}],
     threads : 0..MaxThreads]

ServerTypes ==
    /\ account \in [guilds : Seq(Guild), threads : 0..MaxThreads]
    /\ rooms \in [Guild -> Seq(RoomType)]
    /\ friend \in [guilds : SUBSET Guild, presence : Presence]

SubsState == [wanted : SUBSET (Guild \X Nat), held : SUBSET (Guild \X Nat), up : BOOLEAN]

GuildTypes ==
    /\ guildEnv \in GuildScenarios /\ ServerTypes
    /\ store \in StoreState /\ answers \in Seq(GuildMessage)
    /\ subs \in SubsState

\* Nobody writes to a client that is signed out.
SignedOutQuiet ==
    "logout" \notin guildEnv /\ ~store.signedIn => store = Cleared /\ answers = <<>>

-----------------------------------------------------------------------------
\* A list of channels is what the guild's was at some time.
IsList(of, types) ==
    Len(types) <= Len(rooms[of]) /\ ("create" \notin guildEnv => types = rooms[of])

\* The lists under way, and on the screen, were the guild's.
QueueWere ==
    \A k \in 1..Len(answers) :
       answers[k].kind = "rooms" =>
          answers[k].of # NoGuild /\ IsList(answers[k].of, answers[k].types)

ScreenWere ==
    /\ store.rooms.of # NoGuild => IsList(store.rooms.of, store.rooms.types)
    /\ store.rooms.of = NoGuild => store.rooms.types = <<>>
    /\ store.room # NoRoom => store.room[2] <= Len(rooms[store.room[1]])

\* Lists that keep their order do not shrink.
IsLonger(m, of, n) == m.kind = "rooms" /\ m.of = of => n <= Len(m.types)

\* In the queue, and behind the screen.
QueueGrows ==
    "late" \notin guildEnv =>
        \A k, l \in 1..Len(answers) :
            k < l /\ answers[k].kind = "rooms" =>
                IsLonger(answers[l], answers[k].of, Len(answers[k].types))

ScreenGrows ==
    "late" \notin guildEnv =>
        /\ \A l \in 1..Len(answers) :
              /\ IsLonger(answers[l], store.rooms.of, Len(store.rooms.types))
              /\ store.room # NoRoom => IsLonger(answers[l], store.room[1], store.room[2])
        /\ store.room # NoRoom /\ store.room[1] = store.rooms.of =>
              store.room[2] <= Len(store.rooms.types)

\* The first session of this client, which lasts.
FirstSession == subs.up /\ "reconnect" \notin guildEnv /\ "logout" \notin guildEnv

\* The channels of the list are subscribed to, wherever there is a session.
ListWanted ==
    /\ subs.wanted = {<<store.rooms.of, n>> : n \in 1..Len(store.rooms.types)}
    /\ subs.up => subs.wanted \subseteq subs.held
    /\ FirstSession /\ store.room # NoRoom => store.room \in subs.held
    /\ "reconnect" \notin guildEnv /\ store.signedIn => subs.up
    /\ subs.up => store.signedIn

-----------------------------------------------------------------------------
\* Whatever is in bad, the view v or a message of the queue q, is followed by
\* something in good.
Mended(v, q, bad, good) ==
    /\ v \in bad => \E l \in 1..Len(q) : q[l] \in good
    /\ \A k \in 1..Len(q) : q[k] \in bad => \E l \in 1..Len(q) : k < l /\ q[l] \in good

\* What is wrong of a part of the screen, and what will set it right.
OldGuilds(list) == {m \in GuildMessage : m.kind = "guilds" /\ m.list # list}
NewGuilds(list) == {m \in GuildMessage : m.kind = "joined" \/ (m.kind = "guilds" /\ m.list = list)}

\* Older counts of conversations.
OldThreads(n) == {m \in GuildMessage : m.kind = "threads" /\ m.count # n}
NewThreads(n) == {m \in GuildMessage : m.kind = "threadCreated" \/ (m.kind = "threads" /\ m.count = n)}

\* The messages about the guild g, and about another.
Of(kind, g) == {m \in GuildMessage : m.kind = kind /\ m.of = g}
NotOf(kind, g) == {m \in GuildMessage : m.kind = kind /\ m.of # g}

\* Messages that show the friend as they no longer are, and as they are.
OldPresence(p) ==
    {m \in GuildMessage : \/ m.kind = "friendPresence" /\ m.presence # p
                          \/ m.kind = "members" /\ m.friend \notin {NoUser, p}}
NewPresence(p) == {m \in GuildMessage : m.kind = "friendPresence" /\ m.presence = p}

\* Member lists from before the friend joined, and what tells of it since.
WithoutFriend(g) == {m \in GuildMessage : m.kind = "members" /\ m.of = g /\ m.friend = NoUser}
WithFriend(g) ==
    {m \in GuildMessage : /\ m.kind \in {"memberJoin", "members"} /\ m.of = g
                          /\ m.kind = "members" => m.friend # NoUser}

\* What the screen shows, as if it were an answer.
GuildsView(s) == [kind |-> "guilds", list |-> s.guilds]
ThreadsView(s) == [kind |-> "threads", count |-> s.threads]
RoomsView(s) == [kind |-> "rooms", of |-> s.rooms.of, types |-> s.rooms.types]
MembersView(s) == [kind |-> "members", of |-> s.members.of, friend |-> s.members.friend]

\* The lists of the signed-in user: guilds and conversations.
UserMended(s, q, a) ==
    /\ Mended(GuildsView(s), q, OldGuilds(a.guilds), NewGuilds(a.guilds))
    /\ Mended(ThreadsView(s), q, OldThreads(a.threads), NewThreads(a.threads))

\* The friend: shown as they are, and only where they are a member.
FriendMended(s, q, f) ==
    /\ Mended(MembersView(s), q, OldPresence(f.presence), NewPresence(f.presence))
    /\ s.members.friend # NoUser => s.members.of \in f.guilds
    /\ \A k \in 1..Len(q) :
          q[k].kind = "members" /\ q[k].friend # NoUser => q[k].of \in f.guilds

\* The guild on the screen: its channels and its members.
GuildMended(s, q, f, g) ==
    /\ Mended(RoomsView(s), q, NotOf("rooms", g), Of("rooms", g))
    /\ Mended(MembersView(s), q, NotOf("members", g), Of("members", g))
    /\ g \in f.guilds => Mended(MembersView(s), q, WithoutFriend(g), WithFriend(g))

\* The screen is, or will be, what the user, the friend and the guild g make of it.
AllMended(s, q, a, f, g) ==
    /\ UserMended(s, q, a) /\ FriendMended(s, q, f)
    /\ g # NoGuild => GuildMended(s, q, f, g)

\* No logout, no new channels, no failed or overtaken answers, and no lost events.
Calm == guildEnv \in {{}, {"friend"}, {"reconnect"}} /\ store.signedIn

\* In a calm session whatever is out of date will be set right.
ScreenMended == Calm => AllMended(store, answers, account, friend, store.guild)

\* The invariant.
GuildInv ==
    /\ GuildTypes /\ SignedOutQuiet
    /\ QueueWere /\ ScreenWere /\ QueueGrows /\ ScreenGrows /\ ListWanted
    /\ ScreenMended

-----------------------------------------------------------------------------
\* The fields of messages.
LEMMA MessageFields ==
  ASSUME NEW m \in GuildMessage
  PROVE  /\ m.kind = "guilds" => m.list \in Seq(Guild)
         /\ m.kind = "rooms" => m.of \in Guild \cup {NoGuild} /\ m.types \in Seq(RoomType)
         /\ m.kind = "members" => m.of \in Guild \cup {NoGuild} /\ m.friend \in Presence \cup {NoUser}
         /\ m.kind = "threads" => m.count \in 0..MaxThreads
         /\ m.kind = "memberJoin" => m.of \in Guild
         /\ m.kind = "friendPresence" => m.presence \in Presence
         /\ m.kind \in {"guilds", "rooms", "members", "threads", "memberJoin", "friendPresence",
                        "presence", "joined", "roomCreated", "threadCreated", "failed"}
BY DEF GuildMessage

\* Views are messages.
LEMMA ViewFacts ==
  ASSUME NEW s \in StoreState
  PROVE  /\ GuildsView(s) \in GuildMessage /\ ThreadsView(s) \in GuildMessage
         /\ RoomsView(s) \in GuildMessage /\ MembersView(s) \in GuildMessage
BY DEF StoreState, GuildMessage, GuildsView, ThreadsView, RoomsView, MembersView

\* The queue q without its first message.
LacksHead(rest, q) ==
    /\ q # <<>> /\ Len(rest) + 1 = Len(q)
    /\ \A k \in 1..Len(rest) : rest[k] = q[k + 1]

\* What was on its way to be mended still is when a message is delivered that mends
\* nothing, or is taken for the view, and when nothing bad is added.
LEMMA MendedMoves ==
  ASSUME NEW v, NEW w, NEW q \in Seq(GuildMessage), NEW bad, NEW good, Mended(v, q, bad, good),
         NEW rest \in Seq(GuildMessage), NEW t \in Seq(GuildMessage),
         \/ rest = q /\ (w \in bad => v \in bad)
         \/ LacksHead(rest, q) /\ q[1] \notin good /\ (w \in bad => v \in bad)
         \/ LacksHead(rest, q) /\ (w \in bad => q[1] \in bad),
         \A i \in 1..Len(t) : t[i] \notin bad
  PROVE  Mended(w, rest \o t, bad, good)
<1>1. PICK Q : Q = rest \o t
  OBVIOUS
<1>2. /\ Len(q) \in Nat /\ Len(rest) \in Nat /\ Len(t) \in Nat /\ Len(Q) = Len(rest) + Len(t)
      /\ \A k \in 1..(Len(rest) + Len(t)) : Q[k] = IF k <= Len(rest) THEN rest[k] ELSE t[k - Len(rest)]
  BY <1>1, ConcatProperties
<1>3. /\ \A k \in 1..Len(rest) : k \in 1..Len(Q) /\ Q[k] = rest[k]
      /\ \A k \in 1..Len(Q) : Q[k] \in bad => k \in 1..Len(rest)
  <2>1. ASSUME NEW k \in 1..Len(Q), k > Len(rest)
        PROVE  Q[k] \notin bad
    <3>1. k - Len(rest) \in 1..Len(t) /\ Q[k] = t[k - Len(rest)]
      BY <1>2, <2>1
    <3>2. QED
      BY <3>1
  <2>2. QED
    BY <1>2, <2>1
<1>4. Mended(w, rest, bad, good)
  <2>1. CASE rest = q /\ (w \in bad => v \in bad)
    BY <2>1 DEF Mended
  <2>2. ASSUME LacksHead(rest, q)
        PROVE  /\ 1 \in 1..Len(q)
               /\ \A k \in 1..Len(rest) : k + 1 \in 1..Len(q) /\ rest[k] = q[k + 1]
               /\ \A l \in 1..Len(q) : 1 < l => l - 1 \in 1..Len(rest) /\ rest[l - 1] = q[l]
    <3>1. Len(rest) + 1 = Len(q) /\ \A k \in 1..Len(rest) : rest[k] = q[k + 1]
      BY <2>2 DEF LacksHead
    <3>2. ASSUME NEW l \in 1..Len(q), 1 < l
          PROVE  l - 1 \in 1..Len(rest) /\ rest[l - 1] = q[l]
      <4>1. l - 1 \in 1..Len(rest) /\ l - 1 + 1 = l
        BY <1>2, <3>1, <3>2
      <4>2. QED
        BY <3>1, <4>1
    <3>3. QED
      BY <1>2, <3>1, <3>2
  <2>3. ASSUME LacksHead(rest, q), NEW k \in 1..Len(rest), rest[k] \in bad
        PROVE  \E l \in 1..Len(rest) : k < l /\ rest[l] \in good
    <3>1. PICK l \in 1..Len(q) : k + 1 < l /\ q[l] \in good
      BY <2>2, <2>3 DEF Mended
    <3>2. 1 < l /\ k < l - 1
      BY <1>2, <3>1
    <3>3. QED
      BY <2>2, <2>3, <3>1, <3>2
  <2>4. CASE LacksHead(rest, q) /\ q[1] \notin good /\ (w \in bad => v \in bad)
    <3>1. ASSUME w \in bad
          PROVE  \E l \in 1..Len(rest) : rest[l] \in good
      <4>1. PICK l \in 1..Len(q) : q[l] \in good
        BY <2>4, <3>1 DEF Mended
      <4>2. 1 < l
        BY <1>2, <2>4, <4>1
      <4>3. QED
        BY <2>2, <2>4, <4>1, <4>2
    <3>2. QED
      BY <2>3, <2>4, <3>1 DEF Mended
  <2>5. CASE LacksHead(rest, q) /\ (w \in bad => q[1] \in bad)
    <3>1. ASSUME w \in bad
          PROVE  \E l \in 1..Len(rest) : rest[l] \in good
      <4>1. PICK l \in 1..Len(q) : 1 < l /\ q[l] \in good
        BY <2>2, <2>5, <3>1 DEF Mended
      <4>2. QED
        BY <2>2, <2>5, <4>1
    <3>2. QED
      BY <2>3, <2>5, <3>1 DEF Mended
  <2>6. QED
    BY <2>1, <2>4, <2>5
<1>5. QED
  BY <1>1, <1>3, <1>4 DEF Mended

\* Everything is mended by a message that is sent last.
LEMMA MendedAtEnd ==
  ASSUME NEW w, NEW bad, NEW good, NEW rest \in Seq(GuildMessage), NEW t \in Seq(GuildMessage),
         \A i \in 1..Len(t) : t[i] \notin bad,
         \E i \in 1..Len(t) : t[i] \in good
  PROVE  Mended(w, rest \o t, bad, good)
<1>1. PICK Q : Q = rest \o t
  OBVIOUS
<1>2. /\ Len(rest) \in Nat /\ Len(t) \in Nat /\ Len(Q) = Len(rest) + Len(t)
      /\ \A k \in 1..(Len(rest) + Len(t)) : Q[k] = IF k <= Len(rest) THEN rest[k] ELSE t[k - Len(rest)]
  BY <1>1, ConcatProperties
<1>3. PICK i \in 1..Len(t) : t[i] \in good
  OBVIOUS
<1>4. Len(rest) + i \in 1..Len(Q) /\ Q[Len(rest) + i] \in good
  <2>1. Len(rest) + i \in 1..(Len(rest) + Len(t)) /\ ~(Len(rest) + i <= Len(rest))
        /\ Len(rest) + i - Len(rest) = i
    BY <1>2
  <2>2. QED
    BY <1>2, <1>3, <2>1
<1>5. ASSUME NEW k \in 1..Len(Q), Q[k] \in bad
      PROVE  k < Len(rest) + i
  <2>1. CASE k > Len(rest)
    <3>1. k - Len(rest) \in 1..Len(t) /\ Q[k] = t[k - Len(rest)]
      BY <1>2, <2>1
    <3>2. QED
      BY <1>5, <3>1
  <2>2. CASE k <= Len(rest)
    BY <1>2, <2>2
  <2>3. QED
    BY <1>2, <2>1, <2>2
<1>6. QED
  BY <1>1, <1>4, <1>5 DEF Mended

\* What is in a sequence put together is in one of the two.
LEMMA EitherPart ==
  ASSUME NEW S, NEW p \in Seq(S), NEW t \in Seq(S), NEW k \in 1..Len(p \o t)
  PROVE  (\E j \in 1..Len(p) : (p \o t)[k] = p[j]) \/ (\E j \in 1..Len(t) : (p \o t)[k] = t[j])
<1>1. /\ Len(p) \in Nat /\ Len(t) \in Nat /\ Len(p \o t) = Len(p) + Len(t)
      /\ \A l \in 1..(Len(p) + Len(t)) : (p \o t)[l] = IF l <= Len(p) THEN p[l] ELSE t[l - Len(p)]
  BY ConcatProperties
<1>2. CASE k <= Len(p)
  BY <1>1, <1>2
<1>3. CASE k > Len(p)
  <2>1. k - Len(p) \in 1..Len(t)
    BY <1>1, <1>3
  <2>2. QED
    BY <1>1, <1>3, <2>1
<1>4. QED
  BY <1>1, <1>2, <1>3

-----------------------------------------------------------------------------
\* Answers that say what is so.
Fresh(t, a, f, g) ==
    \A i \in 1..Len(t) :
        /\ t[i] \notin OldGuilds(a.guilds) /\ t[i] \notin OldThreads(a.threads)
        /\ t[i] \notin OldPresence(f.presence)
        /\ t[i].kind = "members" /\ t[i].friend # NoUser => t[i].of \in f.guilds
        /\ g # NoGuild =>
              /\ t[i] \notin NotOf("rooms", g) /\ t[i] \notin NotOf("members", g)
              /\ g \in f.guilds => t[i] \notin WithoutFriend(g)

\* Nothing that is shown has changed.
SameViews(s, n) ==
    /\ n.guilds = s.guilds /\ n.threads = s.threads /\ n.rooms = s.rooms /\ n.members = s.members

\* Fresh answers are added.
LEMMA GuildAppended ==
  ASSUME NEW s, NEW n, SameViews(s, n), NEW q \in Seq(GuildMessage), NEW t \in Seq(GuildMessage),
         NEW a, NEW f, NEW g, AllMended(s, q, a, f, g), Fresh(t, a, f, g)
  PROVE  AllMended(n, q \o t, a, f, g)
<1>1. /\ GuildsView(n) = GuildsView(s) /\ ThreadsView(n) = ThreadsView(s)
      /\ RoomsView(n) = RoomsView(s) /\ MembersView(n) = MembersView(s)
  BY DEF SameViews, GuildsView, ThreadsView, RoomsView, MembersView
<1>2. UserMended(n, q \o t, a)
  <2>1. \A i \in 1..Len(t) : t[i] \notin OldGuilds(a.guilds) /\ t[i] \notin OldThreads(a.threads)
    BY DEF Fresh
  <2>2. Mended(GuildsView(n), q \o t, OldGuilds(a.guilds), NewGuilds(a.guilds))
    BY <1>1, <2>1, MendedMoves DEF AllMended, UserMended
  <2>3. Mended(ThreadsView(n), q \o t, OldThreads(a.threads), NewThreads(a.threads))
    BY <1>1, <2>1, MendedMoves DEF AllMended, UserMended
  <2>4. QED
    BY <2>2, <2>3 DEF UserMended
<1>3. FriendMended(n, q \o t, f)
  <2>1. \A i \in 1..Len(t) : t[i] \notin OldPresence(f.presence)
    BY DEF Fresh
  <2>2. Mended(MembersView(n), q \o t, OldPresence(f.presence), NewPresence(f.presence))
    BY <1>1, <2>1, MendedMoves DEF AllMended, FriendMended
  <2>3. ASSUME NEW k \in 1..Len(q \o t), (q \o t)[k].kind = "members", (q \o t)[k].friend # NoUser
        PROVE  (q \o t)[k].of \in f.guilds
    BY <2>3, EitherPart DEF Fresh, AllMended, FriendMended
  <2>4. QED
    BY <2>2, <2>3 DEF FriendMended, AllMended, SameViews
<1>4. ASSUME g # NoGuild
      PROVE  GuildMended(n, q \o t, f, g)
  <2>1. GuildMended(s, q, f, g)
    BY <1>4 DEF AllMended
  <2>2. \A i \in 1..Len(t) : t[i] \notin NotOf("rooms", g) /\ t[i] \notin NotOf("members", g)
    BY <1>4 DEF Fresh
  <2>3. g \in f.guilds => \A i \in 1..Len(t) : t[i] \notin WithoutFriend(g)
    BY <1>4 DEF Fresh
  <2>4. Mended(RoomsView(n), q \o t, NotOf("rooms", g), Of("rooms", g))
    BY <1>1, <2>1, <2>2, MendedMoves DEF GuildMended
  <2>5. Mended(MembersView(n), q \o t, NotOf("members", g), Of("members", g))
    BY <1>1, <2>1, <2>2, MendedMoves DEF GuildMended
  <2>6. g \in f.guilds => Mended(MembersView(n), q \o t, WithoutFriend(g), WithFriend(g))
    BY <1>1, <2>1, <2>3, MendedMoves DEF GuildMended
  <2>7. QED
    BY <2>4, <2>5, <2>6 DEF GuildMended
<1>5. QED
  BY <1>2, <1>3, <1>4 DEF AllMended

\* Whatever was shown, the guild that is loaded will be.
LEMMA Loaded ==
  ASSUME NEW n \in StoreState, NEW rest \in Seq(GuildMessage), NEW t \in Seq(GuildMessage), NEW a, NEW f, NEW g,
         Fresh(t, a, f, g), g # NoGuild,
         \E i \in 1..Len(t) : t[i] \in Of("rooms", g),
         \E i \in 1..Len(t) : t[i] \in Of("members", g)
  PROVE  GuildMended(n, rest \o t, f, g)
<1>1. \A i \in 1..Len(t) : t[i] \notin NotOf("rooms", g) /\ t[i] \notin NotOf("members", g)
  BY DEF Fresh
<1>2. Mended(RoomsView(n), rest \o t, NotOf("rooms", g), Of("rooms", g))
  BY <1>1, MendedAtEnd
<1>3. Mended(MembersView(n), rest \o t, NotOf("members", g), Of("members", g))
  BY <1>1, MendedAtEnd
<1>4. ASSUME g \in f.guilds
      PROVE  Mended(MembersView(n), rest \o t, WithoutFriend(g), WithFriend(g))
  <2>1. \A i \in 1..Len(t) : t[i] \notin WithoutFriend(g)
    BY <1>4 DEF Fresh
  <2>2. PICK i \in 1..Len(t) : t[i] \in Of("members", g)
    OBVIOUS
  <2>3. t[i] \in GuildMessage /\ t[i].kind = "members" /\ t[i].of = g
    BY <2>2 DEF Of
  <2>4. t[i].friend # NoUser
    BY <2>1, <2>3 DEF WithoutFriend
  <2>5. t[i] \in WithFriend(g)
    BY <2>3, <2>4 DEF WithFriend
  <2>6. QED
    BY <2>1, <2>5, MendedAtEnd
<1>5. QED
  BY <1>2, <1>3, <1>4 DEF GuildMended

\* The message m changes the views of s to those of n.
GuildShown(s, n, m) ==
    /\ m.kind = "guilds" => n.guilds = m.list
    /\ m.kind # "guilds" => n.guilds = s.guilds
    /\ m.kind = "threads" => n.threads = m.count
    /\ m.kind # "threads" => n.threads = s.threads
    /\ m.kind = "rooms" => n.rooms.of = m.of
    /\ m.kind # "rooms" => n.rooms.of = s.rooms.of
    /\ m.kind = "members" => n.members.of = m.of /\ n.members.friend = m.friend
    /\ m.kind # "members" => n.members.of = s.members.of
    /\ m.kind = "friendPresence" =>
          n.members.friend = IF s.members.friend = NoUser THEN NoUser ELSE m.presence
    /\ m.kind \notin {"members", "friendPresence"} => n.members.friend = s.members.friend

\* The first message is delivered; what it asks for is answered.
LEMMA DeliveredUser ==
  ASSUME NEW s \in StoreState, NEW n \in StoreState, NEW q \in Seq(GuildMessage), NEW rest \in Seq(GuildMessage),
         LacksHead(rest, q), GuildShown(s, n, q[1]), NEW t \in Seq(GuildMessage), NEW a, NEW f, NEW g,
         UserMended(s, q, a), Fresh(t, a, f, g),
         q[1].kind = "joined" => \E i \in 1..Len(t) : t[i] \in NewGuilds(a.guilds),
         q[1].kind = "threadCreated" => \E i \in 1..Len(t) : t[i] \in NewThreads(a.threads)
  PROVE  UserMended(n, rest \o t, a)
<1>1. PICK m \in GuildMessage : m = q[1]
  BY DEF LacksHead
<1>2. \A i \in 1..Len(t) : t[i] \notin OldGuilds(a.guilds) /\ t[i] \notin OldThreads(a.threads)
  BY DEF Fresh
<1>3. Mended(GuildsView(n), rest \o t, OldGuilds(a.guilds), NewGuilds(a.guilds))
  <2>1. CASE m.kind = "joined"
    BY <1>1, <1>2, <2>1, MendedAtEnd
  <2>2. CASE m.kind = "guilds"
    <3>1. GuildsView(n) \in OldGuilds(a.guilds) => m \in OldGuilds(a.guilds)
      BY <1>1, <2>2 DEF GuildShown, GuildsView, OldGuilds
    <3>2. QED
      BY <1>1, <1>2, <3>1, MendedMoves DEF UserMended
  <2>3. CASE m.kind \notin {"joined", "guilds"}
    <3>1. GuildsView(n) = GuildsView(s) /\ m \notin NewGuilds(a.guilds)
      BY <1>1, <2>3 DEF GuildShown, GuildsView, NewGuilds
    <3>2. QED
      BY <1>1, <1>2, <3>1, MendedMoves DEF UserMended
  <2>4. QED
    BY <2>1, <2>2, <2>3
<1>4. Mended(ThreadsView(n), rest \o t, OldThreads(a.threads), NewThreads(a.threads))
  <2>1. CASE m.kind = "threadCreated"
    BY <1>1, <1>2, <2>1, MendedAtEnd
  <2>2. CASE m.kind = "threads"
    <3>1. ThreadsView(n) \in OldThreads(a.threads) => m \in OldThreads(a.threads)
      BY <1>1, <2>2 DEF GuildShown, ThreadsView, OldThreads
    <3>2. QED
      BY <1>1, <1>2, <3>1, MendedMoves DEF UserMended
  <2>3. CASE m.kind \notin {"threadCreated", "threads"}
    <3>1. ThreadsView(n) = ThreadsView(s) /\ m \notin NewThreads(a.threads)
      BY <1>1, <2>3 DEF GuildShown, ThreadsView, NewThreads
    <3>2. QED
      BY <1>1, <1>2, <3>1, MendedMoves DEF UserMended
  <2>4. QED
    BY <2>1, <2>2, <2>3
<1>5. QED
  BY <1>3, <1>4 DEF UserMended

\* The same of the friend.
LEMMA DeliveredFriend ==
  ASSUME NEW s \in StoreState, NEW n \in StoreState, NEW q \in Seq(GuildMessage), NEW rest \in Seq(GuildMessage),
         LacksHead(rest, q), GuildShown(s, n, q[1]), NEW t \in Seq(GuildMessage), NEW a, NEW f, NEW g,
         FriendMended(s, q, f), Fresh(t, a, f, g)
  PROVE  FriendMended(n, rest \o t, f)
<1>1. PICK m \in GuildMessage : m = q[1] /\ 1 \in 1..Len(q)
  BY DEF LacksHead
<1>2. \A i \in 1..Len(t) : t[i] \notin OldPresence(f.presence)
  BY DEF Fresh
<1>3. Mended(MembersView(n), rest \o t, OldPresence(f.presence), NewPresence(f.presence))
  <2>1. CASE m.kind \in {"friendPresence", "members"}
    <3>1. MembersView(n) \in OldPresence(f.presence) => m \in OldPresence(f.presence)
      BY <1>1, <2>1 DEF GuildShown, MembersView, OldPresence
    <3>2. QED
      BY <1>1, <1>2, <3>1, MendedMoves DEF FriendMended
  <2>2. CASE m.kind \notin {"friendPresence", "members"}
    <3>1. MembersView(n) = MembersView(s) /\ m \notin NewPresence(f.presence)
      BY <1>1, <2>2 DEF GuildShown, MembersView, NewPresence
    <3>2. QED
      BY <1>1, <1>2, <3>1, MendedMoves DEF FriendMended
  <2>3. QED
    BY <2>1, <2>2
<1>4. n.members.friend # NoUser => n.members.of \in f.guilds
  BY <1>1 DEF GuildShown, FriendMended
<1>5. ASSUME NEW k \in 1..Len(rest \o t), (rest \o t)[k].kind = "members",
             (rest \o t)[k].friend # NoUser
      PROVE  (rest \o t)[k].of \in f.guilds
  <2>1. \A j \in 1..Len(rest) : j + 1 \in 1..Len(q) /\ rest[j] = q[j + 1]
    BY DEF LacksHead
  <2>2. CASE \E j \in 1..Len(rest) : (rest \o t)[k] = rest[j]
    <3>1. PICK j \in 1..Len(rest) : (rest \o t)[k] = rest[j]
      BY <2>2
    <3>2. j + 1 \in 1..Len(q) /\ (rest \o t)[k] = q[j + 1]
      BY <2>1, <3>1
    <3>3. PICK l \in 1..Len(q) : (rest \o t)[k] = q[l]
      BY <3>2
    <3>4. QED
      BY <1>5, <3>3 DEF FriendMended
  <2>3. CASE \E j \in 1..Len(t) : (rest \o t)[k] = t[j]
    BY <1>5, <2>3 DEF Fresh
  <2>4. QED
    BY <2>2, <2>3, EitherPart
<1>6. QED
  BY <1>3, <1>4, <1>5 DEF FriendMended

\* The same of the guild.
LEMMA DeliveredGuild ==
  ASSUME NEW s \in StoreState, NEW n \in StoreState, NEW q \in Seq(GuildMessage), NEW rest \in Seq(GuildMessage),
         LacksHead(rest, q), GuildShown(s, n, q[1]), NEW t \in Seq(GuildMessage), NEW a, NEW f, NEW g,
         GuildMended(s, q, f, g), Fresh(t, a, f, g), g # NoGuild,
         q[1].kind = "memberJoin" /\ q[1].of = g =>
            \E i \in 1..Len(t) : t[i] \in Of("members", g)
  PROVE  GuildMended(n, rest \o t, f, g)
<1>1. PICK m \in GuildMessage : m = q[1]
  BY DEF LacksHead
<1>2. \A i \in 1..Len(t) : t[i] \notin NotOf("rooms", g) /\ t[i] \notin NotOf("members", g)
  BY DEF Fresh
<1>3. Mended(RoomsView(n), rest \o t, NotOf("rooms", g), Of("rooms", g))
  <2>1. CASE m.kind = "rooms"
    <3>1. RoomsView(n) \in NotOf("rooms", g) => m \in NotOf("rooms", g)
      BY <1>1, <2>1 DEF GuildShown, RoomsView, NotOf
    <3>2. QED
      BY <1>1, <1>2, <3>1, MendedMoves DEF GuildMended
  <2>2. CASE m.kind # "rooms"
    <3>1. m \notin Of("rooms", g)
      BY <2>2 DEF Of
    <3>2. RoomsView(n) \in NotOf("rooms", g) => RoomsView(s) \in NotOf("rooms", g)
      BY <1>1, <2>2, ViewFacts DEF GuildShown, RoomsView, NotOf
    <3>3. QED
      BY <1>1, <1>2, <3>1, <3>2, MendedMoves DEF GuildMended
  <2>3. QED
    BY <2>1, <2>2
<1>4. Mended(MembersView(n), rest \o t, NotOf("members", g), Of("members", g))
  <2>1. CASE m.kind = "members"
    <3>1. MembersView(n) \in NotOf("members", g) => m \in NotOf("members", g)
      BY <1>1, <2>1 DEF GuildShown, MembersView, NotOf
    <3>2. QED
      BY <1>1, <1>2, <3>1, MendedMoves DEF GuildMended
  <2>2. CASE m.kind # "members"
    <3>1. m \notin Of("members", g)
      BY <2>2 DEF Of
    <3>2. MembersView(n) \in NotOf("members", g) => MembersView(s) \in NotOf("members", g)
      BY <1>1, <2>2, ViewFacts DEF GuildShown, MembersView, NotOf
    <3>3. QED
      BY <1>1, <1>2, <3>1, <3>2, MendedMoves DEF GuildMended
  <2>3. QED
    BY <2>1, <2>2
<1>5. ASSUME g \in f.guilds
      PROVE  Mended(MembersView(n), rest \o t, WithoutFriend(g), WithFriend(g))
  <2>0. \A i \in 1..Len(t) : t[i] \notin WithoutFriend(g)
    BY <1>5 DEF Fresh
  <2>1. CASE m.kind = "members"
    <3>1. MembersView(n) \in WithoutFriend(g) => m \in WithoutFriend(g)
      BY <1>1, <2>1 DEF GuildShown, MembersView, WithoutFriend
    <3>2. QED
      BY <1>1, <1>5, <2>0, <3>1, MendedMoves DEF GuildMended
  <2>2. CASE m.kind = "memberJoin" /\ m.of = g
    <3>1. PICK i \in 1..Len(t) : t[i] \in Of("members", g)
      BY <1>1, <2>2
    <3>2. t[i] \in GuildMessage /\ t[i].kind = "members" /\ t[i].of = g
      BY <3>1 DEF Of
    <3>3. t[i].friend # NoUser
      BY <2>0, <3>2 DEF WithoutFriend
    <3>4. t[i] \in WithFriend(g)
      BY <3>2, <3>3 DEF WithFriend
    <3>5. QED
      BY <2>0, <3>4, MendedAtEnd
  <2>3. CASE m.kind # "members" /\ ~(m.kind = "memberJoin" /\ m.of = g)
    <3>1. m \notin WithFriend(g)
      BY <2>3 DEF WithFriend
    <3>2. MembersView(n) \in WithoutFriend(g) => MembersView(s) \in WithoutFriend(g)
      <4>1. m.kind = "friendPresence" => m.presence # NoUser
        BY MessageFields DEF Presence, NoUser
      <4>2. n.members.of = s.members.of /\ (n.members.friend = NoUser => s.members.friend = NoUser)
        BY <1>1, <2>3, <4>1 DEF GuildShown
      <4>3. QED
        BY <4>2, ViewFacts DEF MembersView, WithoutFriend
    <3>3. QED
      BY <1>1, <1>5, <2>0, <3>1, <3>2, MendedMoves DEF GuildMended
  <2>4. QED
    BY <2>1, <2>2, <2>3
<1>6. QED
  BY <1>3, <1>4, <1>5 DEF GuildMended

-----------------------------------------------------------------------------
\* The queue q without its i-th message.
GuildLacks(rest, q, i) ==
    /\ i \in 1..Len(q) /\ Len(rest) + 1 = Len(q)
    /\ \A k \in 1..Len(rest) : rest[k] = IF k < i THEN q[k] ELSE q[k + 1]

\* RemoveAt takes out one.
LEMMA GuildRemoved ==
  ASSUME NEW S, NEW q \in Seq(S), NEW i \in 1..Len(q), NEW rest, rest = RemoveAt(q, i)
  PROVE  rest \in Seq(S) /\ GuildLacks(rest, q, i)
<1>1. Len(q) \in Nat /\ \A k \in 1..Len(q) : q[k] \in S
  BY ElementOfSeq, LenProperties
<1>2. PICK p : p = SubSeq(q, 1, i - 1)
  OBVIOUS
<1>3. /\ p \in Seq(S) /\ Len(p) = i - 1
      /\ \A k \in 1..(i - 1) : p[k] = q[k]
  <2>1. 1 \in Int /\ i - 1 \in Int /\ \A k \in 1..(i - 1) : q[k] \in S
    BY <1>1
  <2>2. /\ p \in Seq(S) /\ Len(p) = (IF 1 <= i - 1 THEN i - 1 - 1 + 1 ELSE 0)
        /\ \A k \in 1..(i - 1 - 1 + 1) : p[k] = q[1 + k - 1]
    BY <1>2, <2>1, SubSeqProperties
  <2>3. QED
    BY <2>2
<1>4. PICK e : e = SubSeq(q, i + 1, Len(q))
  OBVIOUS
<1>5. /\ e \in Seq(S) /\ Len(e) = Len(q) - i
      /\ \A k \in 1..(Len(q) - i) : e[k] = q[i + k]
  <2>1. i + 1 \in Int /\ Len(q) \in Int /\ \A k \in (i + 1)..Len(q) : q[k] \in S
    BY <1>1
  <2>2. /\ e \in Seq(S) /\ Len(e) = (IF i + 1 <= Len(q) THEN Len(q) - (i + 1) + 1 ELSE 0)
        /\ \A k \in 1..(Len(q) - (i + 1) + 1) : e[k] = q[i + 1 + k - 1]
    BY <1>4, <2>1, SubSeqProperties
  <2>3. Len(q) - (i + 1) + 1 = Len(q) - i /\ \A k \in Int : i + 1 + k - 1 = i + k
    BY <1>1
  <2>4. i + 1 <= Len(q) <=> ~(Len(q) - i = 0)
    BY <1>1
  <2>5. Len(e) = Len(q) - i
    BY <1>1, <2>2, <2>3, <2>4
  <2>6. ASSUME NEW k \in 1..(Len(q) - i)
        PROVE  e[k] = q[i + k]
    <3>1. k \in 1..(Len(q) - (i + 1) + 1) /\ i + 1 + k - 1 = i + k
      BY <2>3
    <3>2. QED
      BY <2>2, <3>1
  <2>7. QED
    BY <2>2, <2>5, <2>6
<1>6. rest = p \o e
  BY <1>2, <1>4 DEF RemoveAt
<1>7. /\ rest \in Seq(S) /\ Len(rest) = Len(p) + Len(e)
      /\ \A k \in 1..(Len(p) + Len(e)) : rest[k] = IF k <= Len(p) THEN p[k] ELSE e[k - Len(p)]
  <2>1. p \in Seq(S) /\ e \in Seq(S)
    BY <1>3, <1>5
  <2>2. /\ p \o e \in Seq(S) /\ Len(p \o e) = Len(p) + Len(e)
        /\ \A k \in 1..(Len(p) + Len(e)) :
              (p \o e)[k] = IF k <= Len(p) THEN p[k] ELSE e[k - Len(p)]
    BY <2>1, ConcatProperties
  <2>3. QED
    BY <1>6, <2>2
<1>8. Len(rest) + 1 = Len(q)
  BY <1>1, <1>3, <1>5, <1>7
<1>9. ASSUME NEW k \in 1..Len(rest)
      PROVE  rest[k] = IF k < i THEN q[k] ELSE q[k + 1]
  <2>1. CASE k < i
    <3>1. k \in 1..(i - 1) /\ k <= Len(p) /\ k \in 1..(Len(p) + Len(e))
      BY <1>1, <1>3, <1>5, <1>7, <2>1
    <3>2. QED
      BY <1>3, <1>7, <2>1, <3>1
  <2>2. CASE ~(k < i)
    <3>1. /\ ~(k <= Len(p)) /\ k \in 1..(Len(p) + Len(e))
          /\ k - Len(p) \in 1..(Len(q) - i) /\ i + (k - Len(p)) = k + 1
      BY <1>1, <1>3, <1>5, <1>7, <2>2
    <3>2. QED
      BY <1>5, <1>7, <2>2, <3>1
  <2>3. QED
    BY <2>1, <2>2
<1>10. QED
  BY <1>7, <1>8, <1>9 DEF GuildLacks

\* The first of a queue is taken from its head.
LEMMA FirstTaken ==
  ASSUME NEW q, NEW rest \in Seq(GuildMessage), GuildLacks(rest, q, 1), Len(q) \in Nat
  PROVE  LacksHead(rest, q)
<1>1. Len(rest) \in Nat /\ 1 <= Len(q)
  BY DEF GuildLacks
<1>2. \A k \in 1..Len(rest) : ~(k < 1)
  BY <1>1
<1>3. q # <<>>
  BY <1>1
<1>4. QED
  BY <1>2, <1>3 DEF GuildLacks, LacksHead

-----------------------------------------------------------------------------
\* What the answer to a request says.
LEMMA GuildAnswerFacts ==
  ASSUME ServerTypes', NEW r \in GuildRequest, NEW m, m = Answer(r)
  PROVE  /\ m \in GuildMessage /\ m.kind = r.kind
         /\ r.kind = "guilds" => m.list = account'.guilds
         /\ r.kind = "rooms" => m.of = r.of /\ r.of \in Guild /\ m.types = rooms'[r.of]
         /\ r.kind = "members" => m.of = r.of /\ r.of \in Guild /\ m.friend = Member(r.of)
         /\ r.kind = "threads" => m.count = account'.threads
<1>1. /\ account'.guilds \in Seq(Guild) /\ account'.threads \in 0..MaxThreads
      /\ \A g \in Guild : rooms'[g] \in Seq(RoomType)
      /\ friend'.presence \in Presence
  BY DEF ServerTypes
<1>2. CASE r.kind = "guilds"
  <2>1. m = [kind |-> "guilds", list |-> account'.guilds]
    BY <1>2 DEF Answer
  <2>2. QED
    BY <1>1, <1>2, <2>1 DEF GuildMessage
<1>3. CASE r.kind = "threads"
  <2>1. m = [kind |-> "threads", count |-> account'.threads]
    BY <1>3 DEF Answer
  <2>2. QED
    BY <1>1, <1>3, <2>1 DEF GuildMessage
<1>4. CASE r.kind = "rooms"
  <2>1. m = [kind |-> "rooms", of |-> r.of, types |-> rooms'[r.of]] /\ r.of \in Guild
    BY <1>4 DEF Answer, GuildRequest
  <2>2. QED
    BY <1>1, <1>4, <2>1 DEF GuildMessage
<1>5. CASE r.kind = "members"
  <2>1. m = [kind |-> "members", of |-> r.of, friend |-> Member(r.of)] /\ r.of \in Guild
    BY <1>5 DEF Answer, GuildRequest
  <2>2. Member(r.of) \in Presence \cup {NoUser}
    BY <1>1 DEF Member
  <2>3. QED
    BY <1>5, <2>1, <2>2 DEF GuildMessage
<1>6. CASE r.kind \in {"presence", "joined", "roomCreated", "threadCreated"}
  <2>1. m = r
    BY <1>6 DEF Answer
  <2>2. r \in [kind : {"presence", "joined", "roomCreated", "threadCreated"}]
    BY <1>6 DEF GuildRequest
  <2>3. m \in GuildMessage
    BY <2>1, <2>2 DEF GuildMessage
  <2>4. QED
    BY <1>6, <2>1, <2>3
<1>7. QED
  BY <1>2, <1>3, <1>4, <1>5, <1>6 DEF GuildRequest

-----------------------------------------------------------------------------
\* The answers to the requests rs.
GuildAsked(t, rs) ==
    /\ Len(t) = Len(rs)
    /\ \A i \in 1..Len(rs) :
          (t[i].kind = "failed" /\ "fail" \in guildEnv) \/ t[i] = Answer(rs[i])

\* What the server answers comes last.
LEMMA AskGives ==
  ASSUME ServerTypes', NEW rs \in Seq(GuildRequest), NEW rest \in Seq(GuildMessage), Ask(rs, rest)
  PROVE  \E t \in Seq(GuildMessage) : answers' = rest \o t /\ GuildAsked(t, rs)
<1>1. PICK failed \in SUBSET (IF "fail" \in guildEnv THEN 1..Len(rs) ELSE {}) :
          answers' = rest \o [i \in 1..Len(rs) |->
              IF i \in failed THEN [kind |-> "failed"] ELSE Answer(rs[i])]
  BY DEF Ask
<1>2. PICK n \in Nat : n = Len(rs)
  BY LenProperties
<1>3. PICK f : f = [i \in 1..n |-> IF i \in failed THEN [kind |-> "failed"] ELSE Answer(rs[i])]
  OBVIOUS
<1>4. PICK none : none = [kind |-> "failed"]
  OBVIOUS
<1>5. none \in GuildMessage /\ none.kind = "failed"
  BY <1>4 DEF GuildMessage
<1>6. \A i \in 1..n : f[i] = IF i \in failed THEN none ELSE Answer(rs[i])
  BY <1>3, <1>4
<1>7. \A i \in 1..n : Answer(rs[i]) \in GuildMessage
  BY <1>2, GuildAnswerFacts, ElementOfSeq
<1>8. f \in [1..n -> GuildMessage]
  <2>1. \A i \in 1..n : f[i] \in GuildMessage
    BY <1>5, <1>6, <1>7
  <2>2. QED
    BY <1>3, <2>1
<1>9. f \in Seq(GuildMessage) /\ Len(f) = n
  BY <1>2, <1>8
<1>10. GuildAsked(f, rs)
  BY <1>1, <1>2, <1>5, <1>6, <1>9 DEF GuildAsked
<1>11. answers' = rest \o f
  BY <1>1, <1>2, <1>3
<1>12. QED
  BY <1>9, <1>10, <1>11

\* The queue q, or the queue without a message.
Remains(rest, q) == rest = q \/ \E i \in 1..Len(q) : GuildLacks(rest, q, i)

\* The messages of Q are of q, in their order, or of t, behind those of q.
FromBoth(Q, q, t) ==
    /\ Q \in Seq(GuildMessage)
    /\ \A k \in 1..Len(Q) :
          (\E j \in 1..Len(t) : Q[k] = t[j]) \/ (\E j \in 1..Len(q) : Q[k] = q[j])
    /\ \A k, l \in 1..Len(Q) : k < l =>
          \/ \E j \in 1..Len(t) : Q[l] = t[j]
          \/ \E i, j \in 1..Len(q) : i < j /\ Q[k] = q[i] /\ Q[l] = q[j]

\* Where a message of the new queue is from.
LEMMA WhereFrom ==
  ASSUME NEW q \in Seq(GuildMessage), NEW rest \in Seq(GuildMessage), NEW t \in Seq(GuildMessage),
         Remains(rest, q), NEW Q, Q = rest \o t
  PROVE  FromBoth(Q, q, t)
<1>1. /\ Q \in Seq(GuildMessage) /\ Len(Q) = Len(rest) + Len(t)
      /\ \A k \in 1..(Len(rest) + Len(t)) : Q[k] = IF k <= Len(rest) THEN rest[k] ELSE t[k - Len(rest)]
      /\ Len(rest) \in Nat /\ Len(t) \in Nat /\ Len(q) \in Nat
  BY ConcatProperties, LenProperties
<1>2. \A k \in 1..Len(Q) : k <= Len(rest) => k \in 1..Len(rest) /\ Q[k] = rest[k]
  BY <1>1
<1>3. ASSUME NEW k \in 1..Len(Q), ~(k <= Len(rest))
      PROVE  \E j \in 1..Len(t) : Q[k] = t[j]
  <2>1. k - Len(rest) \in 1..Len(t) /\ Q[k] = t[k - Len(rest)]
    BY <1>1, <1>3
  <2>2. QED
    BY <2>1
<1>4. /\ \A k \in 1..Len(rest) : \E j \in 1..Len(q) : rest[k] = q[j]
      /\ \A k, l \in 1..Len(rest) : k < l =>
            \E i, j \in 1..Len(q) : i < j /\ rest[k] = q[i] /\ rest[l] = q[j]
  <2>1. CASE rest = q
    BY <2>1
  <2>2. CASE \E i \in 1..Len(q) : GuildLacks(rest, q, i)
    <3>1. PICK i \in 1..Len(q) : GuildLacks(rest, q, i)
      BY <2>2
    <3>2. /\ \A k \in 1..Len(rest) : rest[k] = IF k < i THEN q[k] ELSE q[k + 1]
          /\ Len(rest) + 1 = Len(q)
      BY <3>1 DEF GuildLacks
    <3>3. \A k \in 1..Len(rest) : k \in 1..Len(q) /\ k + 1 \in 1..Len(q)
      BY <1>1, <3>2
    <3>4. ASSUME NEW k \in 1..Len(rest), NEW l \in 1..Len(rest), k < l
          PROVE  \E m, j \in 1..Len(q) : m < j /\ rest[k] = q[m] /\ rest[l] = q[j]
      <4>1. k < l + 1 /\ k + 1 < l + 1 /\ (l < i => k < i)
        BY <1>1, <3>4
      <4>2. CASE l < i
        BY <3>2, <3>3, <3>4, <4>1, <4>2
      <4>3. CASE ~(l < i) /\ k < i
        BY <3>2, <3>3, <3>4, <4>1, <4>3
      <4>4. CASE ~(l < i) /\ ~(k < i)
        BY <3>2, <3>3, <3>4, <4>1, <4>4
      <4>5. QED
        BY <4>2, <4>3, <4>4
    <3>5. \A k \in 1..Len(rest) : \E j \in 1..Len(q) : rest[k] = q[j]
      BY <3>2, <3>3
    <3>6. QED
      BY <3>4, <3>5
  <2>3. QED
    BY <2>1, <2>2 DEF Remains
<1>5. \A k \in 1..Len(Q) :
         (\E j \in 1..Len(t) : Q[k] = t[j]) \/ (\E j \in 1..Len(q) : Q[k] = q[j])
  BY <1>2, <1>3, <1>4
<1>6. ASSUME NEW k \in 1..Len(Q), NEW l \in 1..Len(Q), k < l
      PROVE  \/ \E j \in 1..Len(t) : Q[l] = t[j]
             \/ \E i, j \in 1..Len(q) : i < j /\ Q[k] = q[i] /\ Q[l] = q[j]
  <2>1. CASE l <= Len(rest)
    <3>1. k <= Len(rest)
      BY <1>1, <1>6, <2>1
    <3>2. k \in 1..Len(rest) /\ l \in 1..Len(rest) /\ Q[k] = rest[k] /\ Q[l] = rest[l]
      BY <1>2, <2>1, <3>1
    <3>3. QED
      BY <1>4, <1>6, <3>2
  <2>2. CASE ~(l <= Len(rest))
    BY <1>3, <2>2
  <2>3. QED
    BY <2>1, <2>2
<1>7. QED
  BY <1>1, <1>5, <1>6 DEF FromBoth

-----------------------------------------------------------------------------
\* A new list of channels is the guild's.
GuildFits(t) ==
    \A j \in 1..Len(t) :
        t[j].kind = "rooms" => t[j].of \in Guild /\ t[j].types = rooms'[t[j].of]

\* One message may be taken from the queue, and answers are added.
Moves(rest, t) ==
    /\ answers' = rest \o t /\ GuildFits(t)
    /\ \/ rest = answers
       \/ \E i \in 1..Len(answers) : GuildLacks(rest, answers, i) /\ (i = 1 \/ "late" \in guildEnv)

\* Channels are only added.
RoomsGrow ==
    /\ guildEnv' = guildEnv
    /\ \A g \in Guild : Len(rooms[g]) <= Len(rooms'[g])
    /\ "create" \notin guildEnv => rooms' = rooms

\* Guilds only get more channels.
LEMMA StaysList ==
  ASSUME ServerTypes, ServerTypes', RoomsGrow, NEW of \in Guild, NEW types \in Seq(RoomType),
         IsList(of, types)
  PROVE  IsList(of, types)'
<1>1. rooms[of] \in Seq(RoomType) /\ rooms'[of] \in Seq(RoomType)
  BY DEF ServerTypes
<1>2. /\ Len(types) \in Nat /\ Len(rooms[of]) \in Nat /\ Len(rooms'[of]) \in Nat
      /\ Len(types) <= Len(rooms[of]) /\ Len(rooms[of]) <= Len(rooms'[of])
  BY <1>1, LenProperties DEF IsList, RoomsGrow
<1>3. Len(types) <= Len(rooms'[of])
  BY <1>2
<1>4. QED
  BY <1>3 DEF IsList, RoomsGrow

\* The lists under way are lists of their guilds, and in order.
LEMMA QueueStep ==
  ASSUME ServerTypes, ServerTypes', answers \in Seq(GuildMessage), QueueWere, QueueGrows, RoomsGrow,
         NEW rest \in Seq(GuildMessage), NEW t \in Seq(GuildMessage), Moves(rest, t), GuildAssumption
  PROVE  QueueWere' /\ QueueGrows'
<1>1. PICK q \in Seq(GuildMessage) : q = answers
  OBVIOUS
<1>2. PICK Q : Q = answers' /\ Q = rest \o t
  BY DEF Moves
<1>3. Remains(rest, q)
  BY <1>1 DEF Moves, Remains
<1>4. /\ Q \in Seq(GuildMessage)
      /\ \A k \in 1..Len(Q) :
            (\E j \in 1..Len(t) : Q[k] = t[j]) \/ (\E j \in 1..Len(q) : Q[k] = q[j])
      /\ \A k, l \in 1..Len(Q) : k < l =>
            \/ \E j \in 1..Len(t) : Q[l] = t[j]
            \/ \E i, j \in 1..Len(q) : i < j /\ Q[k] = q[i] /\ Q[l] = q[j]
  <2>1. FromBoth(Q, q, t)
    BY <1>2, <1>3, WhereFrom
  <2>2. QED
    BY <2>1 DEF FromBoth
<1>5. ASSUME NEW k \in 1..Len(Q), Q[k].kind = "rooms"
      PROVE  Q[k].of \in Guild /\ Q[k].types \in Seq(RoomType) /\ IsList(Q[k].of, Q[k].types)'
  <2>1. CASE \E j \in 1..Len(t) : Q[k] = t[j]
    <3>1. Q[k].of \in Guild /\ Q[k].types = rooms'[Q[k].of]
      BY <1>5, <2>1 DEF Moves, GuildFits
    <3>2. rooms'[Q[k].of] \in Seq(RoomType)
      BY <3>1 DEF ServerTypes
    <3>3. Len(rooms'[Q[k].of]) \in Nat
      BY <3>2, LenProperties
    <3>4. Len(rooms'[Q[k].of]) <= Len(rooms'[Q[k].of])
      BY <3>3
    <3>5. QED
      BY <3>1, <3>2, <3>4 DEF IsList
  <2>2. CASE \E j \in 1..Len(q) : Q[k] = q[j]
    <3>1. Q[k].of # NoGuild /\ IsList(Q[k].of, Q[k].types)
      BY <1>1, <1>5, <2>2 DEF QueueWere
    <3>2. Q[k] \in GuildMessage
      BY <1>4, ElementOfSeq
    <3>3. Q[k].of \in Guild /\ Q[k].types \in Seq(RoomType)
      BY <1>5, <3>1, <3>2, MessageFields
    <3>4. QED
      BY <3>1, <3>3, StaysList
  <2>3. QED
    BY <1>4, <2>1, <2>2
<1>6. QueueWere'
  BY <1>2, <1>5 DEF QueueWere, GuildAssumption
<1>7. ASSUME "late" \notin guildEnv', NEW k \in 1..Len(Q), NEW l \in 1..Len(Q), k < l,
             Q[k].kind = "rooms"
      PROVE  IsLonger(Q[l], Q[k].of, Len(Q[k].types))
  <2>1. CASE \E j \in 1..Len(t) : Q[l] = t[j]
    <3>1. Q[l].kind = "rooms" => Q[l].types = rooms'[Q[l].of]
      BY <2>1 DEF Moves, GuildFits
    <3>2. Len(Q[k].types) <= Len(rooms'[Q[k].of])
      BY <1>5, <1>7 DEF IsList
    <3>3. QED
      BY <3>1, <3>2 DEF IsLonger
  <2>2. CASE \E i, j \in 1..Len(q) : i < j /\ Q[k] = q[i] /\ Q[l] = q[j]
    <3>1. "late" \notin guildEnv
      BY <1>7 DEF RoomsGrow
    <3>2. QED
      BY <1>1, <1>7, <2>2, <3>1 DEF QueueGrows
  <2>3. QED
    BY <1>4, <1>7, <2>1, <2>2
<1>8. QueueGrows'
  BY <1>2, <1>7 DEF QueueGrows
<1>9. QED
  BY <1>6, <1>8

\* What the screen shows of the channels stays a part of them.
LEMMA ScreenStep ==
  ASSUME ServerTypes, ServerTypes', store \in StoreState, answers \in Seq(GuildMessage),
         ScreenWere, ScreenGrows, RoomsGrow,
         store'.rooms = store.rooms, store'.room = store.room,
         NEW rest \in Seq(GuildMessage), NEW t \in Seq(GuildMessage), Moves(rest, t), GuildAssumption
  PROVE  ScreenWere' /\ ScreenGrows'
<1>1. PICK q \in Seq(GuildMessage) : q = answers
  OBVIOUS
<1>2. PICK Q : Q = answers' /\ Q = rest \o t
  BY DEF Moves
<1>3. Remains(rest, q)
  BY <1>1 DEF Moves, Remains
<1>4. \A k \in 1..Len(Q) :
         (\E j \in 1..Len(t) : Q[k] = t[j]) \/ (\E j \in 1..Len(q) : Q[k] = q[j])
  <2>1. FromBoth(Q, q, t)
    BY <1>2, <1>3, WhereFrom
  <2>2. QED
    BY <2>1 DEF FromBoth
<1>5. /\ store.rooms.of \in Guild \cup {NoGuild} /\ store.rooms.types \in Seq(RoomType)
      /\ store.room # NoRoom => store.room[1] \in Guild /\ store.room[2] \in Nat
  BY DEF StoreState
<1>6. store.rooms.of # NoGuild => IsList(store.rooms.of, store.rooms.types)'
  BY <1>5, StaysList DEF ScreenWere
<1>7. ASSUME store.room # NoRoom
      PROVE  store.room[2] <= Len(rooms'[store.room[1]])
  <2>1. PICK g \in Guild : g = store.room[1]
    BY <1>5, <1>7
  <2>2. rooms[g] \in Seq(RoomType) /\ rooms'[g] \in Seq(RoomType)
    BY DEF ServerTypes
  <2>3. /\ store.room[2] \in Nat /\ Len(rooms[g]) \in Nat /\ Len(rooms'[g]) \in Nat
        /\ store.room[2] <= Len(rooms[g]) /\ Len(rooms[g]) <= Len(rooms'[g])
    BY <1>5, <1>7, <2>1, <2>2, LenProperties DEF ScreenWere, RoomsGrow
  <2>4. PICK a \in Nat, b \in Nat, c \in Nat :
            a = store.room[2] /\ b = Len(rooms[g]) /\ c = Len(rooms'[g])
    BY <2>3
  <2>5. a <= b /\ b <= c
    BY <2>3, <2>4
  <2>6. a <= c
    BY <2>5
  <2>7. QED
    BY <2>1, <2>4, <2>6
<1>8. ScreenWere'
  BY <1>6, <1>7 DEF ScreenWere, IsList
<1>9. ASSUME "late" \notin guildEnv', NEW l \in 1..Len(Q)
      PROVE  /\ IsLonger(Q[l], store.rooms.of, Len(store.rooms.types))
             /\ store.room # NoRoom => IsLonger(Q[l], store.room[1], store.room[2])
  <2>1. CASE \E j \in 1..Len(t) : Q[l] = t[j]
    <3>1. Q[l].kind = "rooms" => Q[l].of \in Guild /\ Q[l].types = rooms'[Q[l].of]
      BY <2>1 DEF Moves, GuildFits
    <3>2. store.rooms.of # NoGuild => Len(store.rooms.types) <= Len(rooms'[store.rooms.of])
      BY <1>6 DEF IsList
    <3>3. QED
      BY <1>7, <3>1, <3>2 DEF IsLonger, GuildAssumption
  <2>2. CASE \E j \in 1..Len(q) : Q[l] = q[j]
    <3>1. "late" \notin guildEnv
      BY <1>9 DEF RoomsGrow
    <3>2. QED
      BY <1>1, <2>2, <3>1 DEF ScreenGrows
  <2>3. QED
    BY <1>4, <2>1, <2>2
<1>10. "late" \notin guildEnv' /\ store.room # NoRoom /\ store.room[1] = store.rooms.of =>
          store.room[2] <= Len(store.rooms.types)
  BY DEF ScreenGrows, RoomsGrow
<1>11. ScreenGrows'
  BY <1>2, <1>9, <1>10 DEF ScreenGrows
<1>12. QED
  BY <1>8, <1>11

-----------------------------------------------------------------------------
\* What every step may rely on.
Basics == GuildAssumption /\ GuildTypes /\ QueueWere /\ ScreenWere /\ QueueGrows /\ ScreenGrows /\ ListWanted

\* The parts of the invariant about lists.
Lists == GuildTypes /\ QueueWere /\ ScreenWere /\ QueueGrows /\ ScreenGrows /\ ListWanted

\* The lists of channels stay, and the subscriptions or what is known of them.
KeepsLists ==
    /\ ServerTypes' /\ RoomsGrow /\ store' \in StoreState
    /\ store'.rooms = store.rooms /\ store'.room = store.room
    /\ \/ subs' = subs /\ store'.signedIn = store.signedIn
       \/ subs' \in SubsState /\ ListWanted'

\* Then what is known of them stays too.
LEMMA ListsStay ==
  ASSUME Basics, KeepsLists, NEW rest \in Seq(GuildMessage), NEW t \in Seq(GuildMessage), Moves(rest, t)
  PROVE  Lists'
<1>1. /\ ServerTypes /\ ServerTypes' /\ RoomsGrow /\ GuildAssumption
      /\ store \in StoreState /\ answers \in Seq(GuildMessage)
  BY DEF Basics, KeepsLists, GuildTypes
<1>2. QueueWere' /\ QueueGrows'
  BY <1>1, QueueStep DEF Basics
<1>3. ScreenWere' /\ ScreenGrows'
  BY <1>1, ScreenStep DEF Basics, KeepsLists
<1>4. answers' \in Seq(GuildMessage)
  BY ConcatProperties DEF Moves
<1>5. GuildTypes'
  BY <1>4 DEF Basics, KeepsLists, GuildTypes, RoomsGrow
<1>6. ListWanted'
  BY DEF Basics, KeepsLists, ListWanted, FirstSession, RoomsGrow
<1>7. QED
  BY <1>2, <1>3, <1>5, <1>6 DEF Lists

\* What is asked for.
Requests(rs, g) ==
    /\ rs \in Seq(GuildRequest)
    /\ \A i \in 1..Len(rs) : rs[i].kind \in {"rooms", "members"} => rs[i].of = g

\* The requests of the handlers.
LEMMA RequestFacts ==
  ASSUME NEW g \in Guild \cup {NoGuild}, NoGuild \notin Guild
  PROVE  /\ Requests(<<>>, g) /\ Requests(LoadGuilds, g) /\ Requests(LoadDmThreads, g)
         /\ Requests(LoadChannels(g), g) /\ Requests(LoadGuildMembers(g), g)
         /\ Requests(LoadGuild(g), g)
         /\ Requests(<<[kind |-> "presence"]>> \o LoadGuilds \o LoadDmThreads, g)
         /\ Requests(<<[kind |-> "joined"]>>, g)
         /\ Requests(<<[kind |-> "threadCreated"]>>, g)
         /\ Requests(<<[kind |-> "roomCreated"]>>, g)
<1>1. PICK r1 \in GuildRequest, r2 \in GuildRequest, r3 \in GuildRequest, r4 \in GuildRequest, r5 \in GuildRequest, r6 \in GuildRequest :
         /\ r1 = [kind |-> "guilds"] /\ r2 = [kind |-> "threads"] /\ r3 = [kind |-> "presence"]
         /\ r4 = [kind |-> "joined"] /\ r5 = [kind |-> "threadCreated"] /\ r6 = [kind |-> "roomCreated"]
  BY DEF GuildRequest
<1>2. /\ r1.kind = "guilds" /\ r2.kind = "threads" /\ r3.kind = "presence"
      /\ r4.kind = "joined" /\ r5.kind = "threadCreated" /\ r6.kind = "roomCreated"
  BY <1>1
<1>3. \A r \in GuildRequest : r.kind \notin {"rooms", "members"} => Requests(<<r>>, g)
  BY DEF Requests
<1>4. Requests(<<>>, g)
  BY DEF Requests
<1>5. /\ Requests(<<r1>>, g) /\ Requests(<<r2>>, g) /\ Requests(<<r4>>, g)
      /\ Requests(<<r5>>, g) /\ Requests(<<r6>>, g)
  BY <1>2, <1>3
<1>6. Requests(<<r3>> \o <<r1>> \o <<r2>>, g)
  <2>1. PICK rs : rs = <<r3>> \o <<r1>> \o <<r2>>
    OBVIOUS
  <2>2. PICK p : p = <<r3>> \o <<r1>>
    OBVIOUS
  <2>3. rs \in Seq(GuildRequest) /\ Len(rs) = 3 /\ rs[1] = r3 /\ rs[2] = r1 /\ rs[3] = r2
    <3>1. /\ p \in Seq(GuildRequest) /\ Len(p) = 1 + 1
          /\ \A i \in 1..(1 + 1) : p[i] = IF i <= 1 THEN <<r3>>[i] ELSE <<r1>>[i - 1]
      BY <2>2, ConcatProperties
    <3>2. Len(p) = 2 /\ p[1] = r3 /\ p[2] = r1
      BY <3>1
    <3>3. /\ rs \in Seq(GuildRequest) /\ Len(rs) = 2 + 1
          /\ \A i \in 1..(2 + 1) : rs[i] = IF i <= 2 THEN p[i] ELSE <<r2>>[i - 2]
      BY <2>1, <2>2, <3>1, <3>2, ConcatProperties
    <3>4. QED
      BY <3>2, <3>3
  <2>4. ASSUME NEW i \in 1..3
        PROVE  rs[i].kind \notin {"rooms", "members"}
    <3>1. i = 1 \/ i = 2 \/ i = 3
      OBVIOUS
    <3>2. QED
      BY <1>2, <2>3, <3>1
  <2>5. QED
    BY <2>1, <2>3, <2>4 DEF Requests
<1>7. ASSUME g \in Guild
      PROVE  /\ Requests(LoadChannels(g), g) /\ Requests(LoadGuildMembers(g), g)
             /\ Requests(LoadGuild(g), g)
  <2>1. PICK c \in GuildRequest, m \in GuildRequest :
            c = [kind |-> "rooms", of |-> g] /\ m = [kind |-> "members", of |-> g]
    BY <1>7 DEF GuildRequest
  <2>2. c.of = g /\ m.of = g
    BY <2>1
  <2>3. Requests(<<c>>, g) /\ Requests(<<m>>, g)
    BY <2>2 DEF Requests
  <2>4. PICK rs : rs = <<c>> \o <<m>>
    OBVIOUS
  <2>5. <<c>> \in Seq(GuildRequest) /\ <<m>> \in Seq(GuildRequest) /\ Len(<<c>>) = 1 /\ Len(<<m>>) = 1
    OBVIOUS
  <2>6. rs \in Seq(GuildRequest) /\ Len(rs) = 2 /\ rs[1] = c /\ rs[2] = m
    <3>1. /\ rs \in Seq(GuildRequest) /\ Len(rs) = 1 + 1
          /\ \A i \in 1..(1 + 1) : rs[i] = IF i <= 1 THEN <<c>>[i] ELSE <<m>>[i - 1]
      BY <2>4, <2>5, ConcatProperties
    <3>2. QED
      BY <3>1
  <2>7. ASSUME NEW i \in 1..2
        PROVE  rs[i].of = g
    <3>1. i = 1 \/ i = 2
      OBVIOUS
    <3>2. QED
      BY <2>2, <2>6, <3>1
  <2>8. Requests(rs, g)
    BY <2>6, <2>7 DEF Requests
  <2>9. LoadChannels(g) = <<c>> /\ LoadGuildMembers(g) = <<m>>
    BY <1>7, <2>1 DEF LoadChannels, LoadGuildMembers
  <2>10. LoadGuild(g) = rs
    BY <2>4, <2>9 DEF LoadGuild
  <2>11. QED
    BY <2>3, <2>8, <2>9, <2>10
<1>8. ASSUME g = NoGuild
      PROVE  /\ LoadChannels(g) = <<>> /\ LoadGuildMembers(g) = <<>> /\ LoadGuild(g) = <<>>
  <2>1. LoadChannels(g) = <<>> /\ LoadGuildMembers(g) = <<>>
    BY <1>8 DEF LoadChannels, LoadGuildMembers
  <2>2. QED
    BY <2>1 DEF LoadGuild
<1>9. /\ Requests(LoadChannels(g), g) /\ Requests(LoadGuildMembers(g), g)
      /\ Requests(LoadGuild(g), g)
  BY <1>4, <1>7, <1>8
<1>10. /\ LoadGuilds = <<r1>> /\ LoadDmThreads = <<r2>>
  BY <1>1 DEF LoadGuilds, LoadDmThreads
<1>11. QED
  BY <1>1, <1>4, <1>5, <1>6, <1>9, <1>10

\* Answers are under way.
LEMMA AskMoves ==
  ASSUME ServerTypes', NEW g, NEW rs, Requests(rs, g), NEW rest \in Seq(GuildMessage), Ask(rs, rest),
         \/ rest = answers
         \/ \E i \in 1..Len(answers) : GuildLacks(rest, answers, i) /\ (i = 1 \/ "late" \in guildEnv)
  PROVE  \E t \in Seq(GuildMessage) : Moves(rest, t) /\ GuildAsked(t, rs)
<1>1. rs \in Seq(GuildRequest)
  BY DEF Requests
<1>2. PICK t \in Seq(GuildMessage) : answers' = rest \o t /\ GuildAsked(t, rs)
  BY <1>1, AskGives
<1>3. ASSUME NEW j \in 1..Len(t), t[j].kind = "rooms"
      PROVE  t[j].of \in Guild /\ t[j].types = rooms'[t[j].of]
  <2>1. j \in 1..Len(rs) /\ t[j] = Answer(rs[j])
    BY <1>2, <1>3 DEF GuildAsked
  <2>2. PICK r \in GuildRequest : r = rs[j]
    BY <1>1, <2>1, ElementOfSeq
  <2>3. QED
    BY <1>3, <2>1, <2>2, GuildAnswerFacts
<1>4. QED
  BY <1>2, <1>3 DEF Moves, GuildFits

\* Answers, when none fails, are of the kinds asked for and say what is so.
LEMMA AskedFresh ==
  ASSUME ServerTypes', NEW g, NEW rs, Requests(rs, g), NEW t \in Seq(GuildMessage), GuildAsked(t, rs),
         "fail" \notin guildEnv, NEW a, a = account', NEW f, f = friend'
  PROVE  /\ Fresh(t, a, f, g) /\ Len(t) = Len(rs)
         /\ \A i \in 1..Len(rs) :
               /\ t[i].kind = rs[i].kind
               /\ t[i].kind \in {"rooms", "members"} => t[i].of = g
               /\ t[i].kind = "guilds" => t[i].list = a.guilds
               /\ t[i].kind = "threads" => t[i].count = a.threads
<1>1. rs \in Seq(GuildRequest) /\ Len(t) = Len(rs)
  BY DEF Requests, GuildAsked
<1>2. ASSUME NEW i \in 1..Len(rs)
      PROVE  /\ t[i].kind = rs[i].kind
             /\ t[i].kind \in {"rooms", "members"} => t[i].of = g
             /\ t[i].kind = "guilds" => t[i].list = a.guilds
             /\ t[i].kind = "threads" => t[i].count = a.threads
             /\ t[i].kind = "members" => t[i].friend = IF t[i].of \in f.guilds THEN f.presence ELSE NoUser
             /\ t[i].kind # "friendPresence"
  <2>1. t[i] = Answer(rs[i])
    BY DEF GuildAsked
  <2>2. PICK r \in GuildRequest : r = rs[i]
    BY <1>1, ElementOfSeq
  <2>3. PICK m : m = Answer(r) /\ m = t[i]
    BY <2>1, <2>2
  <2>4. /\ m.kind = r.kind
        /\ r.kind = "guilds" => m.list = a.guilds
        /\ r.kind = "rooms" => m.of = r.of /\ r.of \in Guild
        /\ r.kind = "members" => m.of = r.of /\ r.of \in Guild /\ m.friend = Member(r.of)
        /\ r.kind = "threads" => m.count = a.threads
    BY <2>3, GuildAnswerFacts
  <2>5. r.kind \in {"rooms", "members"} => r.of = g
    BY <2>2 DEF Requests
  <2>6. r.kind # "friendPresence"
    BY DEF GuildRequest
  <2>7. Member(r.of) = IF r.of \in f.guilds THEN f.presence ELSE NoUser
    BY DEF Member
  <2>8. QED
    BY <2>2, <2>3, <2>4, <2>5, <2>6, <2>7
<1>3. ASSUME NEW i \in 1..Len(t)
      PROVE  /\ t[i] \notin OldGuilds(a.guilds) /\ t[i] \notin OldThreads(a.threads)
             /\ t[i] \notin OldPresence(f.presence)
             /\ t[i].kind = "members" /\ t[i].friend # NoUser => t[i].of \in f.guilds
             /\ t[i] \notin NotOf("rooms", g) /\ t[i] \notin NotOf("members", g)
             /\ g \in f.guilds => t[i] \notin WithoutFriend(g)
  <2>1. PICK m : m = t[i]
    OBVIOUS
  <2>2. /\ m.kind \in {"rooms", "members"} => m.of = g
        /\ m.kind = "guilds" => m.list = a.guilds
        /\ m.kind = "threads" => m.count = a.threads
        /\ m.kind = "members" => m.friend = IF m.of \in f.guilds THEN f.presence ELSE NoUser
        /\ m.kind # "friendPresence"
    BY <1>1, <1>2, <2>1
  <2>3. m \notin OldGuilds(a.guilds) /\ m \notin OldThreads(a.threads)
    BY <2>2 DEF OldGuilds, OldThreads
  <2>4. m \notin OldPresence(f.presence)
    BY <2>2 DEF OldPresence
  <2>5. m \notin NotOf("rooms", g) /\ m \notin NotOf("members", g)
    BY <2>2 DEF NotOf
  <2>6. f.presence # NoUser
    BY DEF ServerTypes, Presence, NoUser
  <2>7. g \in f.guilds => m \notin WithoutFriend(g)
    BY <2>2, <2>6 DEF WithoutFriend
  <2>8. m.kind = "members" /\ m.friend # NoUser => m.of \in f.guilds
    BY <2>2
  <2>9. QED
    BY <2>1, <2>3, <2>4, <2>5, <2>7, <2>8
<1>4. Fresh(t, a, f, g)
  BY <1>3 DEF Fresh
<1>5. QED
  BY <1>1, <1>2, <1>4

-----------------------------------------------------------------------------
\* A request of the kind is among rs.
Has(rs, kind) == \E i \in 1..Len(rs) : rs[i].kind = kind

\* What a part asks for, the whole does.
LEMMA HasParts ==
  ASSUME NEW p \in Seq(GuildRequest), NEW e \in Seq(GuildRequest), NEW kind, NEW rs, rs = p \o e,
         Has(p, kind) \/ Has(e, kind)
  PROVE  Has(rs, kind)
<1>1. /\ Len(p) \in Nat /\ Len(e) \in Nat /\ Len(rs) = Len(p) + Len(e)
      /\ \A i \in 1..(Len(p) + Len(e)) : rs[i] = IF i <= Len(p) THEN p[i] ELSE e[i - Len(p)]
  BY ConcatProperties, LenProperties
<1>2. ASSUME NEW i \in 1..Len(p)
      PROVE  i \in 1..Len(rs) /\ rs[i] = p[i]
  BY <1>1
<1>3. ASSUME NEW i \in 1..Len(e)
      PROVE  Len(p) + i \in 1..Len(rs) /\ rs[Len(p) + i] = e[i]
  <2>1. Len(p) + i \in 1..(Len(p) + Len(e)) /\ ~(Len(p) + i <= Len(p)) /\ Len(p) + i - Len(p) = i
    BY <1>1
  <2>2. QED
    BY <1>1, <2>1
<1>4. QED
  BY <1>2, <1>3 DEF Has

\* What is loaded of a guild.
LEMMA LoadFacts ==
  /\ Has(LoadGuilds, "guilds") /\ Has(LoadDmThreads, "threads")
  /\ \A g \in Guild : NoGuild \notin Guild =>
        /\ Has(LoadGuildMembers(g), "members")
        /\ Has(LoadGuild(g), "rooms") /\ Has(LoadGuild(g), "members")
<1>1. Has(LoadGuilds, "guilds") /\ Has(LoadDmThreads, "threads")
  BY DEF Has, LoadGuilds, LoadDmThreads
<1>2. ASSUME NEW g \in Guild, NoGuild \notin Guild
      PROVE  /\ Has(LoadGuildMembers(g), "members")
             /\ Has(LoadGuild(g), "rooms") /\ Has(LoadGuild(g), "members")
  <2>1. PICK c, m : c = [kind |-> "rooms", of |-> g] /\ m = [kind |-> "members", of |-> g]
    OBVIOUS
  <2>kinds. c \in GuildRequest /\ m \in GuildRequest /\ c.kind = "rooms" /\ m.kind = "members"
    BY <1>2, <2>1 DEF GuildRequest
  <2>2. LoadChannels(g) = <<c>> /\ LoadGuildMembers(g) = <<m>>
    BY <1>2, <2>1 DEF LoadChannels, LoadGuildMembers
  <2>3. Has(<<c>>, "rooms") /\ Has(<<m>>, "members") /\ <<c>> \in Seq(GuildRequest) /\ <<m>> \in Seq(GuildRequest)
    <3>1. \A r \in GuildRequest : <<r>> \in Seq(GuildRequest) /\ 1 \in 1..Len(<<r>>) /\ <<r>>[1] = r
      OBVIOUS
    <3>2. \A r \in GuildRequest : Has(<<r>>, r.kind)
      BY <3>1 DEF Has
    <3>3. QED
      BY <2>kinds, <3>1, <3>2
  <2>4. PICK rs : rs = <<c>> \o <<m>>
    OBVIOUS
  <2>5. Has(rs, "rooms") /\ Has(rs, "members")
    BY <2>3, <2>4, HasParts
  <2>6. LoadGuild(g) = rs
    BY <2>2, <2>4 DEF LoadGuild
  <2>7. QED
    BY <2>2, <2>3, <2>5, <2>6
<1>3. QED
  BY <1>1, <1>2

\* What signing in asks for.
LEMMA SignInAsks ==
  ASSUME NEW rs, rs = <<[kind |-> "presence"]>> \o LoadGuilds \o LoadDmThreads
  PROVE  Has(rs, "guilds") /\ Has(rs, "threads")
<1>1. PICK p, e, d : p = <<[kind |-> "presence"]>> /\ e = LoadGuilds /\ d = LoadDmThreads
  OBVIOUS
<1>parts. p \in Seq(GuildRequest) /\ e \in Seq(GuildRequest) /\ d \in Seq(GuildRequest)
  <2>1. PICK u \in GuildRequest, v \in GuildRequest, w \in GuildRequest :
            u = [kind |-> "presence"] /\ v = [kind |-> "guilds"] /\ w = [kind |-> "threads"]
    BY DEF GuildRequest
  <2>2. p = <<u>> /\ e = <<v>> /\ d = <<w>>
    BY <1>1, <2>1 DEF LoadGuilds, LoadDmThreads
  <2>3. QED
    BY <2>2
<1>2. Has(e, "guilds") /\ Has(d, "threads")
  BY <1>1, LoadFacts
<1>3. PICK b : b = p \o e
  OBVIOUS
<1>4. b \in Seq(GuildRequest) /\ Has(b, "guilds")
  BY <1>parts, <1>2, <1>3, HasParts, ConcatProperties
<1>5. rs = b \o d
  BY <1>1, <1>3
<1>6. QED
  BY <1>parts, <1>2, <1>4, <1>5, HasParts

-----------------------------------------------------------------------------
\* A fresh answer for every part asked for.
LEMMA AskedGood ==
  ASSUME ServerTypes', NEW g, NEW rs, Requests(rs, g), NEW t \in Seq(GuildMessage), GuildAsked(t, rs),
         "fail" \notin guildEnv, NEW a, a = account', NEW f, f = friend'
  PROVE  /\ Fresh(t, a, f, g)
         /\ Has(rs, "guilds") => \E i \in 1..Len(t) : t[i] \in NewGuilds(a.guilds)
         /\ Has(rs, "threads") => \E i \in 1..Len(t) : t[i] \in NewThreads(a.threads)
         /\ Has(rs, "rooms") => \E i \in 1..Len(t) : t[i] \in Of("rooms", g)
         /\ Has(rs, "members") => \E i \in 1..Len(t) : t[i] \in Of("members", g)
<1>1. /\ Fresh(t, a, f, g) /\ Len(t) = Len(rs)
      /\ \A i \in 1..Len(rs) :
            /\ t[i].kind = rs[i].kind
            /\ t[i].kind \in {"rooms", "members"} => t[i].of = g
            /\ t[i].kind = "guilds" => t[i].list = a.guilds
            /\ t[i].kind = "threads" => t[i].count = a.threads
  BY AskedFresh
<1>2. \A i \in 1..Len(t) : t[i] \in GuildMessage
  BY ElementOfSeq
<1>3. QED
  BY <1>1, <1>2 DEF Has, NewGuilds, NewThreads, Of

\* The first message is delivered, and what it asks for is answered.
LEMMA GuildDelivered ==
  ASSUME NEW s \in StoreState, NEW n \in StoreState, NEW q \in Seq(GuildMessage), NEW rest \in Seq(GuildMessage),
         LacksHead(rest, q), GuildShown(s, n, q[1]), NEW t \in Seq(GuildMessage), NEW a, NEW f,
         AllMended(s, q, a, f, s.guild), Fresh(t, a, f, n.guild),
         q[1].kind = "joined" => \E i \in 1..Len(t) : t[i] \in NewGuilds(a.guilds),
         q[1].kind = "threadCreated" => \E i \in 1..Len(t) : t[i] \in NewThreads(a.threads),
         q[1].kind = "memberJoin" /\ q[1].of = n.guild =>
            \E i \in 1..Len(t) : t[i] \in Of("members", n.guild),
         n.guild # s.guild =>
            /\ \E i \in 1..Len(t) : t[i] \in Of("rooms", n.guild)
            /\ \E i \in 1..Len(t) : t[i] \in Of("members", n.guild)
  PROVE  AllMended(n, rest \o t, a, f, n.guild)
<1>1. UserMended(n, rest \o t, a)
  BY DeliveredUser DEF AllMended
<1>2. FriendMended(n, rest \o t, f)
  BY DeliveredFriend DEF AllMended
<1>3. ASSUME n.guild # NoGuild
      PROVE  GuildMended(n, rest \o t, f, n.guild)
  <2>1. CASE n.guild = s.guild
    <3>1. GuildMended(s, q, f, n.guild)
      BY <1>3, <2>1 DEF AllMended
    <3>2. QED
      BY <1>3, <3>1, DeliveredGuild
  <2>2. CASE n.guild # s.guild
    BY <1>3, <2>2, Loaded
  <2>3. QED
    BY <2>1, <2>2
<1>4. QED
  BY <1>1, <1>2, <1>3 DEF AllMended

-----------------------------------------------------------------------------
\* What is to be shown of a step.
GuildKept == Lists' /\ ScreenMended'

\* Channels that are not touched.
LEMMA RoomsSame ==
  ASSUME ServerTypes, rooms' = rooms, guildEnv' = guildEnv
  PROVE  RoomsGrow
<1>1. \A g \in Guild : Len(rooms[g]) \in Nat
  BY LenProperties DEF ServerTypes
<1>2. \A g \in Guild : Len(rooms[g]) <= Len(rooms[g])
  BY <1>1
<1>3. QED
  BY <1>2 DEF RoomsGrow

\* The server's state stays.
LEMMA ServerSame ==
  ASSUME ServerTypes, UNCHANGED <<guildEnv, Server>>
  PROVE  ServerTypes' /\ RoomsGrow /\ account' = account /\ friend' = friend /\ guildEnv' = guildEnv
<1>1. account' = account /\ rooms' = rooms /\ friend' = friend /\ guildEnv' = guildEnv
  BY DEF Server
<1>2. QED
  BY <1>1, RoomsSame DEF ServerTypes

\* The first session starts with an empty screen.
LEMMA SignInLists ==
  ASSUME Basics, SignedOutQuiet, SignIn, store'.rooms = store.rooms, store'.room = store.room
  PROVE  subs' \in SubsState /\ ListWanted'
<1>1. subs \in SubsState /\ guildEnv' = guildEnv /\ store'.signedIn = TRUE
  BY DEF SignIn, Basics, GuildTypes, StoreState
<1>2. subs.wanted = {<<store.rooms.of, n>> : n \in 1..Len(store.rooms.types)}
  BY DEF Basics, ListWanted
<1>3. CASE "reconnect" \in guildEnv
  <2>1. subs' = subs
    BY <1>3 DEF SignIn
  <2>2. QED
    BY <1>1, <1>3, <2>1 DEF Basics, ListWanted, FirstSession
<1>4. CASE "reconnect" \notin guildEnv
  <2>1. subs' = [subs EXCEPT !.held = subs.wanted, !.up = TRUE]
    BY <1>4 DEF SignIn, Registered
  <2>2. subs' \in SubsState /\ subs'.wanted = subs.wanted /\ subs'.held = subs.wanted /\ subs'.up = TRUE
    BY <1>1, <2>1 DEF SubsState
  <2>3. "logout" \notin guildEnv => store.room = NoRoom
    BY DEF SignIn, SignedOutQuiet, Cleared
  <2>4. QED
    BY <1>1, <1>2, <2>2, <2>3 DEF ListWanted, FirstSession
<1>5. QED
  BY <1>3, <1>4

\* With nothing under way and nothing shown, all is asked for.
LEMMA SignInStep ==
  ASSUME Basics, SignedOutQuiet, SignIn
  PROVE  GuildKept
<1>1. KeepsLists
  <2>1. ServerTypes' /\ RoomsGrow
    BY ServerSame DEF SignIn, Basics, GuildTypes
  <2>2. /\ store' \in StoreState /\ store'.rooms = store.rooms /\ store'.room = store.room
    BY DEF SignIn, Basics, GuildTypes, StoreState, Presence
  <2>3. subs' \in SubsState /\ ListWanted'
    BY <2>1, <2>2, SignInLists
  <2>4. QED
    BY <2>1, <2>2, <2>3 DEF KeepsLists
<1>2. PICK rs : rs = <<[kind |-> "presence"]>> \o LoadGuilds \o LoadDmThreads
  OBVIOUS
<1>3. Requests(rs, NoGuild) /\ NoGuild \notin Guild /\ Has(rs, "guilds") /\ Has(rs, "threads")
  BY <1>2, RequestFacts, SignInAsks DEF Basics, GuildAssumption
<1>4. Ask(rs, answers) /\ answers \in Seq(GuildMessage) /\ ServerTypes'
  BY <1>1, <1>2 DEF SignIn, Basics, GuildTypes, KeepsLists
<1>5. PICK t \in Seq(GuildMessage) : Moves(answers, t) /\ GuildAsked(t, rs)
  BY <1>3, <1>4, AskMoves
<1>6. Lists'
  BY <1>1, <1>4, <1>5, ListsStay
<1>7. ASSUME Calm'
      PROVE  AllMended(store, answers, account, friend, store.guild)'
  <2>1. "fail" \notin guildEnv /\ "logout" \notin guildEnv
    BY <1>7 DEF Calm, SignIn
  <2>2. store = Cleared /\ answers = <<>>
    BY <2>1 DEF SignIn, SignedOutQuiet
  <2>3. PICK n : n = store'
    OBVIOUS
  <2>4. n.guild = NoGuild /\ n.members.friend = NoUser
    BY <2>2, <2>3 DEF SignIn, Cleared
  <2>5. PICK q, Q : q \in Seq(GuildMessage) /\ q = answers /\ q = <<>> /\ Q = answers' /\ Q = q \o t
    BY <1>4, <1>5, <2>2 DEF Moves
  <2> q \in Seq(GuildMessage)
    BY <2>5
  <2>6. PICK a, f : a = account' /\ f = friend'
    OBVIOUS
  <2>7. /\ Fresh(t, a, f, NoGuild)
        /\ \E i \in 1..Len(t) : t[i] \in NewGuilds(a.guilds)
        /\ \E i \in 1..Len(t) : t[i] \in NewThreads(a.threads)
    BY <1>3, <1>4, <1>5, <2>1, <2>6, AskedGood
  <2>8. UserMended(n, q \o t, a)
    <3>1. \A i \in 1..Len(t) : t[i] \notin OldGuilds(a.guilds) /\ t[i] \notin OldThreads(a.threads)
      BY <2>7 DEF Fresh
    <3>2. Mended(GuildsView(n), q \o t, OldGuilds(a.guilds), NewGuilds(a.guilds))
      BY <2>7, <3>1, MendedAtEnd
    <3>3. Mended(ThreadsView(n), q \o t, OldThreads(a.threads), NewThreads(a.threads))
      BY <2>7, <3>1, MendedAtEnd
    <3>4. QED
      BY <3>2, <3>3 DEF UserMended
  <2>9. q \o t = t
    BY <2>5, ConcatEmptySeq
  <2>10. FriendMended(n, q \o t, f)
    <3>1. MembersView(n) \notin OldPresence(f.presence)
      BY <2>4 DEF OldPresence, MembersView
    <3>2. \A k \in 1..Len(t) : t[k] \notin OldPresence(f.presence)
      BY <2>7 DEF Fresh
    <3>3. Mended(MembersView(n), t, OldPresence(f.presence), NewPresence(f.presence))
      BY <3>1, <3>2 DEF Mended
    <3>4. \A k \in 1..Len(t) : t[k].kind = "members" /\ t[k].friend # NoUser => t[k].of \in f.guilds
      BY <2>7 DEF Fresh
    <3>5. QED
      BY <2>4, <2>9, <3>3, <3>4 DEF FriendMended
  <2>11. QED
    BY <2>3, <2>4, <2>5, <2>6, <2>8, <2>10 DEF AllMended
<1>8. QED
  BY <1>6, <1>7 DEF GuildKept, ScreenMended

\* The guild that is selected is loaded.
LEMMA SelectGuildStep ==
  ASSUME Basics, ScreenMended, NEW g \in Guild, SelectGuild(g)
  PROVE  GuildKept
<1>1. KeepsLists
  <2>1. ServerTypes' /\ RoomsGrow
    BY ServerSame DEF SelectGuild, Basics, GuildTypes
  <2>2. /\ store' \in StoreState /\ store'.rooms = store.rooms /\ store'.room = store.room
        /\ subs' = subs /\ store'.signedIn = store.signedIn
    BY DEF SelectGuild, Basics, GuildTypes, StoreState
  <2>3. QED
    BY <2>1, <2>2 DEF KeepsLists
<1>2. PICK rs : rs = LoadGuild(g)
  OBVIOUS
<1>3. /\ Requests(rs, g) /\ NoGuild \notin Guild /\ g # NoGuild
      /\ Has(rs, "rooms") /\ Has(rs, "members")
  BY <1>2, RequestFacts, LoadFacts DEF Basics, GuildAssumption
<1>4. Ask(rs, answers) /\ answers \in Seq(GuildMessage) /\ ServerTypes'
  BY <1>1, <1>2 DEF SelectGuild, Basics, GuildTypes, KeepsLists
<1>5. PICK t \in Seq(GuildMessage) : Moves(answers, t) /\ GuildAsked(t, rs)
  BY <1>3, <1>4, AskMoves
<1>6. Lists'
  BY <1>1, <1>4, <1>5, ListsStay
<1>7. ASSUME Calm'
      PROVE  AllMended(store, answers, account, friend, store.guild)'
  <2>1. "fail" \notin guildEnv /\ Calm
    BY <1>7 DEF Calm, SelectGuild
  <2>2. PICK s \in StoreState, n \in StoreState : s = store /\ n = store'
    BY <1>1 DEF KeepsLists, Basics, GuildTypes
  <2>3. n.guild = g /\ SameViews(s, n)
    BY <2>2 DEF SelectGuild, SameViews, StoreState
  <2>4. PICK q, Q : q \in Seq(GuildMessage) /\ q = answers /\ Q = answers' /\ Q = q \o t
    BY <1>4, <1>5 DEF Moves
  <2> q \in Seq(GuildMessage)
    BY <2>4
  <2>5. PICK a, f : a = account /\ f = friend /\ a = account' /\ f = friend'
    BY DEF SelectGuild, Server
  <2>6. /\ Fresh(t, a, f, g)
        /\ \E i \in 1..Len(t) : t[i] \in Of("rooms", g)
        /\ \E i \in 1..Len(t) : t[i] \in Of("members", g)
    BY <1>3, <1>4, <1>5, <2>1, <2>5, AskedGood
  <2>7. AllMended(s, q, a, f, NoGuild)
    BY <2>1, <2>2, <2>4, <2>5 DEF ScreenMended, AllMended
  <2>8. Fresh(t, a, f, NoGuild)
    BY <2>6 DEF Fresh
  <2>9. AllMended(n, q \o t, a, f, NoGuild)
    BY <2>3, <2>7, <2>8, GuildAppended
  <2>10. GuildMended(n, q \o t, f, g)
    BY <1>3, <2>6, Loaded
  <2>11. AllMended(n, Q, a, f, n.guild)
    BY <2>3, <2>4, <2>9, <2>10 DEF AllMended
  <2>12. QED
    BY <2>2, <2>4, <2>5, <2>11
<1>8. QED
  BY <1>6, <1>7 DEF GuildKept, ScreenMended

\* The user's guilds are more, and the client is told.
LEMMA JoinGuildStep ==
  ASSUME Basics, ScreenMended, NEW g \in Guild, JoinGuild(g)
  PROVE  GuildKept
<1>1. KeepsLists
  <2>1. RoomsGrow
    BY RoomsSame DEF JoinGuild, Basics, GuildTypes
  <2>2. account' \in [guilds : Seq(Guild), threads : 0..MaxThreads]
    <3>1. /\ account \in [guilds : Seq(Guild), threads : 0..MaxThreads]
          /\ account' = [account EXCEPT !.guilds = Append(@, g)]
      BY DEF JoinGuild, Basics, GuildTypes, ServerTypes
    <3>2. QED
      BY <3>1
  <2>3. ServerTypes'
    BY <2>2 DEF JoinGuild, Basics, GuildTypes, ServerTypes
  <2>4. QED
    BY <2>1, <2>3 DEF JoinGuild, Basics, GuildTypes, KeepsLists
<1>2. PICK rs : rs = <<[kind |-> "joined"]>>
  OBVIOUS
<1>3. PICK h : h = store.guild /\ h \in Guild \cup {NoGuild}
  BY DEF Basics, GuildTypes, StoreState
<1>4. Requests(rs, h)
  BY <1>2, <1>3, RequestFacts DEF Basics, GuildAssumption
<1>5. Ask(rs, answers) /\ answers \in Seq(GuildMessage) /\ ServerTypes'
  BY <1>1, <1>2 DEF JoinGuild, Basics, GuildTypes, KeepsLists
<1>6. PICK t \in Seq(GuildMessage) : Moves(answers, t) /\ GuildAsked(t, rs)
  BY <1>4, <1>5, AskMoves
<1>7. Lists'
  BY <1>1, <1>5, <1>6, ListsStay
<1>8. ASSUME Calm'
      PROVE  AllMended(store, answers, account, friend, store.guild)'
  <2>1. "fail" \notin guildEnv /\ Calm
    BY <1>8 DEF Calm, JoinGuild
  <2>2. PICK s \in StoreState : s = store /\ s = store'
    BY DEF JoinGuild, Basics, GuildTypes
  <2>3. PICK q, Q : q \in Seq(GuildMessage) /\ q = answers /\ Q = answers' /\ Q = q \o t
    BY <1>5, <1>6 DEF Moves
  <2> q \in Seq(GuildMessage)
    BY <2>3
  <2>4. PICK a, b, f : a = account /\ b = account' /\ f = friend /\ f = friend'
    BY DEF JoinGuild
  <2>5. b.threads = a.threads
    BY <2>4 DEF JoinGuild, Basics, GuildTypes, ServerTypes
  <2>6. Len(t) = 1 /\ t[1] \in GuildMessage /\ t[1].kind = "joined"
    <3>1. Len(t) = Len(rs) /\ \A i \in 1..Len(rs) : t[i].kind = rs[i].kind
      BY <1>4, <1>5, <1>6, <2>1, AskedFresh
    <3>2. Len(rs) = 1 /\ rs[1].kind = "joined"
      BY <1>2
    <3>3. Len(t) = 1 /\ 1 \in 1..Len(t) /\ t[1].kind = rs[1].kind
      BY <3>1, <3>2
    <3>4. QED
      BY <3>2, <3>3, ElementOfSeq
  <2>7. Fresh(t, a, f, h)
    BY <2>6 DEF Fresh, OldGuilds, OldThreads, OldPresence, NotOf, WithoutFriend
  <2>8. AllMended(s, q, a, f, h)
    BY <1>3, <2>1, <2>2, <2>3, <2>4 DEF ScreenMended
  <2>9. AllMended(s, q \o t, a, f, h)
    BY <2>7, <2>8, GuildAppended DEF SameViews
  <2>10. Mended(GuildsView(s), q \o t, OldGuilds(b.guilds), NewGuilds(b.guilds))
    <3>1. t[1] \in NewGuilds(b.guilds) /\ t[1] \notin OldGuilds(b.guilds)
      BY <2>6 DEF NewGuilds, OldGuilds
    <3>2. \A i \in 1..Len(t) : t[i] \notin OldGuilds(b.guilds)
      BY <2>6, <3>1
    <3>3. QED
      BY <2>6, <3>1, <3>2, MendedAtEnd
  <2>11. AllMended(s, q \o t, b, f, h)
    BY <2>5, <2>9, <2>10 DEF AllMended, UserMended
  <2>12. QED
    BY <1>3, <2>2, <2>3, <2>4, <2>11
<1>9. QED
  BY <1>7, <1>8 DEF GuildKept, ScreenMended

\* There is a thread more, and the client is told.
LEMMA CreateDmThreadStep ==
  ASSUME Basics, ScreenMended, CreateDmThread
  PROVE  GuildKept
<1>1. KeepsLists
  <2>1. RoomsGrow
    BY RoomsSame DEF CreateDmThread, Basics, GuildTypes
  <2>2. account' \in [guilds : Seq(Guild), threads : 0..MaxThreads]
    <3>1. /\ account \in [guilds : Seq(Guild), threads : 0..MaxThreads]
          /\ account' = [account EXCEPT !.threads = @ + 1]
          /\ account.threads < MaxThreads /\ MaxThreads \in Nat
      BY DEF CreateDmThread, Basics, GuildTypes, ServerTypes, GuildAssumption
    <3>2. account.threads + 1 \in 0..MaxThreads
      BY <3>1
    <3>3. QED
      BY <3>1, <3>2
  <2>3. ServerTypes'
    BY <2>2 DEF CreateDmThread, Basics, GuildTypes, ServerTypes
  <2>4. QED
    BY <2>1, <2>3 DEF CreateDmThread, Basics, GuildTypes, KeepsLists
<1>2. PICK rs : rs = <<[kind |-> "threadCreated"]>>
  OBVIOUS
<1>3. PICK h : h = store.guild /\ h \in Guild \cup {NoGuild}
  BY DEF Basics, GuildTypes, StoreState
<1>4. Requests(rs, h)
  BY <1>2, <1>3, RequestFacts DEF Basics, GuildAssumption
<1>5. Ask(rs, answers) /\ answers \in Seq(GuildMessage) /\ ServerTypes'
  BY <1>1, <1>2 DEF CreateDmThread, Basics, GuildTypes, KeepsLists
<1>6. PICK t \in Seq(GuildMessage) : Moves(answers, t) /\ GuildAsked(t, rs)
  BY <1>4, <1>5, AskMoves
<1>7. Lists'
  BY <1>1, <1>5, <1>6, ListsStay
<1>8. ASSUME Calm'
      PROVE  AllMended(store, answers, account, friend, store.guild)'
  <2>1. "fail" \notin guildEnv /\ Calm
    BY <1>8 DEF Calm, CreateDmThread
  <2>2. PICK s \in StoreState : s = store /\ s = store'
    BY DEF CreateDmThread, Basics, GuildTypes
  <2>3. PICK q, Q : q \in Seq(GuildMessage) /\ q = answers /\ Q = answers' /\ Q = q \o t
    BY <1>5, <1>6 DEF Moves
  <2> q \in Seq(GuildMessage)
    BY <2>3
  <2>4. PICK a, b, f : a = account /\ b = account' /\ f = friend /\ f = friend'
    BY DEF CreateDmThread
  <2>5. b.guilds = a.guilds
    BY <2>4 DEF CreateDmThread, Basics, GuildTypes, ServerTypes
  <2>6. Len(t) = 1 /\ t[1] \in GuildMessage /\ t[1].kind = "threadCreated"
    <3>1. Len(t) = Len(rs) /\ \A i \in 1..Len(rs) : t[i].kind = rs[i].kind
      BY <1>4, <1>5, <1>6, <2>1, AskedFresh
    <3>2. Len(rs) = 1 /\ rs[1].kind = "threadCreated"
      BY <1>2
    <3>3. Len(t) = 1 /\ 1 \in 1..Len(t) /\ t[1].kind = rs[1].kind
      BY <3>1, <3>2
    <3>4. QED
      BY <3>2, <3>3, ElementOfSeq
  <2>7. Fresh(t, a, f, h)
    BY <2>6 DEF Fresh, OldGuilds, OldThreads, OldPresence, NotOf, WithoutFriend
  <2>8. AllMended(s, q, a, f, h)
    BY <1>3, <2>1, <2>2, <2>3, <2>4 DEF ScreenMended
  <2>9. AllMended(s, q \o t, a, f, h)
    BY <2>7, <2>8, GuildAppended DEF SameViews
  <2>10. Mended(ThreadsView(s), q \o t, OldThreads(b.threads), NewThreads(b.threads))
    <3>1. t[1] \in NewThreads(b.threads) /\ t[1] \notin OldThreads(b.threads)
      BY <2>6 DEF NewThreads, OldThreads
    <3>2. \A i \in 1..Len(t) : t[i] \notin OldThreads(b.threads)
      BY <2>6, <3>1
    <3>3. QED
      BY <2>6, <3>1, <3>2, MendedAtEnd
  <2>11. AllMended(s, q \o t, b, f, h)
    BY <2>5, <2>9, <2>10 DEF AllMended, UserMended
  <2>12. QED
    BY <1>3, <2>2, <2>3, <2>4, <2>11
<1>9. QED
  BY <1>7, <1>8 DEF GuildKept, ScreenMended

-----------------------------------------------------------------------------
\* An event is added at the end.
LEMMA ToldMoves ==
  ASSUME answers \in Seq(GuildMessage), NEW e \in GuildMessage, e.kind # "rooms", Tells(e)
  PROVE  \E t \in Seq(GuildMessage) :
            /\ Moves(answers, t) /\ \A i \in 1..Len(t) : t[i] = e
            /\ subs.up => Len(t) = 1
<1>1. CASE subs.up
  <2>1. PICK t : t = <<e>>
    OBVIOUS
  <2>2. t \in Seq(GuildMessage) /\ Len(t) = 1 /\ t[1] = e
    BY <2>1
  <2>3. answers' = answers \o t
    <3>1. answers' = Append(answers, e)
      BY <1>1 DEF Tells
    <3>2. QED
      BY <2>1, <3>1, AppendIsConcat
  <2>4. \A i \in 1..Len(t) : t[i] = e
    BY <2>2
  <2>5. QED
    BY <2>2, <2>3, <2>4 DEF Moves, GuildFits
<1>2. CASE ~subs.up
  <2>1. PICK t : t = <<>>
    OBVIOUS
  <2>2. t \in Seq(GuildMessage) /\ Len(t) = 0
    BY <2>1
  <2>3. answers' = answers \o t
    BY <1>2, <2>1, ConcatEmptySeq DEF Tells
  <2>4. \A i \in 1..Len(t) : FALSE
    BY <2>2
  <2>5. Moves(answers, t)
    BY <2>3, <2>4 DEF Moves, GuildFits
  <2>6. QED
    BY <1>2, <2>2, <2>4, <2>5
<1>3. QED
  BY <1>1, <1>2

\* A member of the guild more, and the client is told.
LEMMA FriendJoinsStep ==
  ASSUME Basics, ScreenMended, NEW g \in Guild, FriendJoins(g)
  PROVE  GuildKept
<1>1. KeepsLists
  <2>1. RoomsGrow
    BY RoomsSame DEF FriendJoins, Basics, GuildTypes
  <2>2. ServerTypes'
    BY DEF FriendJoins, Basics, GuildTypes, ServerTypes
  <2>3. QED
    BY <2>1, <2>2 DEF FriendJoins, Basics, GuildTypes, KeepsLists
<1>2. PICK e : e = [kind |-> "memberJoin", of |-> g] /\ e \in GuildMessage /\ e.kind = "memberJoin" /\ e.of = g
  <2>1. PICK e : e = [kind |-> "memberJoin", of |-> g]
    OBVIOUS
  <2>2. e \in GuildMessage /\ e.kind = "memberJoin" /\ e.of = g
    BY <2>1 DEF GuildMessage
  <2>3. QED
    BY <2>1, <2>2
<1>3. answers \in Seq(GuildMessage) /\ Tells(e)
  BY <1>2 DEF FriendJoins, Basics, GuildTypes
<1>4. PICK t \in Seq(GuildMessage) :
          /\ Moves(answers, t) /\ \A i \in 1..Len(t) : t[i] = e
          /\ subs.up => Len(t) = 1
  BY <1>2, <1>3, ToldMoves
<1>5. Lists'
  BY <1>1, <1>3, <1>4, ListsStay
<1>6. ASSUME Calm'
      PROVE  AllMended(store, answers, account, friend, store.guild)'
  <2>1. Calm /\ Len(t) = 1
    <3>1. Calm /\ "reconnect" \notin guildEnv
      BY <1>6 DEF Calm, FriendJoins
    <3>2. subs.up
      BY <3>1 DEF Calm, Basics, ListWanted
    <3>3. QED
      BY <1>4, <3>1, <3>2
  <2>2. PICK s \in StoreState : s = store /\ s = store'
    BY DEF FriendJoins, Basics, GuildTypes
  <2>3. PICK q, Q : q \in Seq(GuildMessage) /\ q = answers /\ Q = answers' /\ Q = q \o t
    BY <1>3, <1>4 DEF Moves
  <2> q \in Seq(GuildMessage)
    BY <2>3
  <2>4. PICK a, f, b : a = account /\ a = account' /\ f = friend /\ b = friend'
    BY DEF FriendJoins
  <2>5. b.presence = f.presence /\ b.guilds = f.guilds \cup {g}
    BY <2>4 DEF FriendJoins, Basics, GuildTypes, ServerTypes
  <2>6. PICK h : h = store.guild
    OBVIOUS
  <2>7. Fresh(t, a, f, h)
    BY <1>2, <1>4 DEF Fresh, OldGuilds, OldThreads, OldPresence, NotOf, WithoutFriend
  <2>8. AllMended(s, q, a, f, h)
    BY <2>1, <2>2, <2>3, <2>4, <2>6 DEF ScreenMended
  <2>9. AllMended(s, q \o t, a, f, h)
    BY <2>7, <2>8, GuildAppended DEF SameViews
  <2>10. FriendMended(s, q \o t, b)
    BY <2>5, <2>9 DEF AllMended, FriendMended
  <2>11. ASSUME h # NoGuild
         PROVE  GuildMended(s, q \o t, b, h)
    <3>1. GuildMended(s, q \o t, f, h)
      BY <2>9, <2>11 DEF AllMended
    <3>2. ASSUME h = g
          PROVE  Mended(MembersView(s), q \o t, WithoutFriend(h), WithFriend(h))
      <4>1. t[1] \in WithFriend(h) /\ 1 \in 1..Len(t)
        BY <1>2, <1>4, <2>1, <3>2 DEF WithFriend
      <4>2. \A i \in 1..Len(t) : t[i] \notin WithoutFriend(h)
        BY <1>2, <1>4 DEF WithoutFriend
      <4>3. QED
        BY <4>1, <4>2, MendedAtEnd
    <3>3. QED
      BY <2>5, <3>1, <3>2 DEF GuildMended
  <2>12. AllMended(s, Q, a, b, h)
    BY <2>3, <2>9, <2>10, <2>11 DEF AllMended
  <2>13. QED
    BY <2>2, <2>3, <2>4, <2>6, <2>12
<1>7. QED
  BY <1>5, <1>6 DEF GuildKept, ScreenMended

\* The friend's presence changes, and the client is told.
LEMMA FriendPresenceStep ==
  ASSUME Basics, ScreenMended, FriendPresence
  PROVE  GuildKept
<1>1. friend' \in [guilds : SUBSET Guild, presence : Presence] /\ friend'.guilds = friend.guilds
  <2>1. PICK p : p = CHOOSE x \in Presence : x # friend.presence
    OBVIOUS
  <2>2. p \in Presence
    <3>1. "ONLINE" \in Presence /\ "OFFLINE" \in Presence
      BY DEF Presence
    <3>2. \E x \in Presence : x # friend.presence
      BY <3>1
    <3>3. QED
      BY <2>1, <3>2
  <2>3. friend' = [friend EXCEPT !.presence = p]
    BY <2>1 DEF FriendPresence
  <2>4. friend \in [guilds : SUBSET Guild, presence : Presence]
    BY DEF Basics, GuildTypes, ServerTypes
  <2>5. QED
    BY <2>2, <2>3, <2>4
<1>2. KeepsLists
  <2>1. RoomsGrow
    BY RoomsSame DEF FriendPresence, Basics, GuildTypes
  <2>2. ServerTypes'
    BY <1>1 DEF FriendPresence, Basics, GuildTypes, ServerTypes
  <2>3. QED
    BY <2>1, <2>2 DEF FriendPresence, Basics, GuildTypes, KeepsLists
<1>3. PICK p \in Presence : p = friend'.presence
  BY <1>1
<1>4. PICK e : /\ e = [kind |-> "friendPresence", presence |-> p]
               /\ e \in GuildMessage /\ e.kind = "friendPresence" /\ e.presence = p
  <2>1. PICK e : e = [kind |-> "friendPresence", presence |-> p]
    OBVIOUS
  <2>2. e \in GuildMessage /\ e.kind = "friendPresence" /\ e.presence = p
    BY <2>1 DEF GuildMessage
  <2>3. QED
    BY <2>1, <2>2
<1>5. answers \in Seq(GuildMessage) /\ Tells(e)
  BY <1>3, <1>4 DEF FriendPresence, Basics, GuildTypes
<1>6. PICK t \in Seq(GuildMessage) :
          /\ Moves(answers, t) /\ \A i \in 1..Len(t) : t[i] = e
          /\ subs.up => Len(t) = 1
  BY <1>4, <1>5, ToldMoves
<1>7. Lists'
  BY <1>2, <1>5, <1>6, ListsStay
<1>8. ASSUME Calm'
      PROVE  AllMended(store, answers, account, friend, store.guild)'
  <2>1. Calm /\ Len(t) = 1
    <3>1. Calm /\ "reconnect" \notin guildEnv
      BY <1>8 DEF Calm, FriendPresence
    <3>2. subs.up
      BY <3>1 DEF Calm, Basics, ListWanted
    <3>3. QED
      BY <1>6, <3>1, <3>2
  <2>2. PICK s \in StoreState : s = store /\ s = store'
    BY DEF FriendPresence, Basics, GuildTypes
  <2>3. PICK q, Q : q \in Seq(GuildMessage) /\ q = answers /\ Q = answers' /\ Q = q \o t
    BY <1>5, <1>6 DEF Moves
  <2> q \in Seq(GuildMessage)
    BY <2>3
  <2>4. PICK a, f, b : a = account /\ a = account' /\ f = friend /\ b = friend'
    BY DEF FriendPresence
  <2>5. b.guilds = f.guilds /\ b.presence = p
    BY <1>1, <1>3, <2>4
  <2>6. PICK h : h = store.guild
    OBVIOUS
  <2>7. AllMended(s, q, a, f, h)
    BY <2>1, <2>2, <2>3, <2>4, <2>6 DEF ScreenMended
  <2>8. UserMended(s, q \o t, a)
    <3>1. \A i \in 1..Len(t) : t[i] \notin OldGuilds(a.guilds) /\ t[i] \notin OldThreads(a.threads)
      BY <1>4, <1>6 DEF OldGuilds, OldThreads
    <3>2. Mended(GuildsView(s), q \o t, OldGuilds(a.guilds), NewGuilds(a.guilds))
      BY <2>7, <3>1, MendedMoves DEF AllMended, UserMended
    <3>3. Mended(ThreadsView(s), q \o t, OldThreads(a.threads), NewThreads(a.threads))
      BY <2>7, <3>1, MendedMoves DEF AllMended, UserMended
    <3>4. QED
      BY <3>2, <3>3 DEF UserMended
  <2>9. FriendMended(s, q \o t, b)
    <3>1. t[1] \in NewPresence(p) /\ 1 \in 1..Len(t)
      BY <1>4, <1>6, <2>1 DEF NewPresence
    <3>2. \A i \in 1..Len(t) : t[i] \notin OldPresence(p)
      BY <1>4, <1>6 DEF OldPresence
    <3>3. Mended(MembersView(s), q \o t, OldPresence(p), NewPresence(p))
      BY <3>1, <3>2, MendedAtEnd
    <3>4. ASSUME NEW k \in 1..Len(q \o t), (q \o t)[k].kind = "members"
          PROVE  \E j \in 1..Len(q) : (q \o t)[k] = q[j]
      BY <1>4, <1>6, <3>4, EitherPart
    <3>5. QED
      BY <2>5, <2>7, <3>3, <3>4 DEF AllMended, FriendMended
  <2>10. ASSUME h # NoGuild
         PROVE  GuildMended(s, q \o t, b, h)
    <3>1. \A i \in 1..Len(t) : /\ t[i] \notin NotOf("rooms", h) /\ t[i] \notin NotOf("members", h)
                              /\ t[i] \notin WithoutFriend(h)
      BY <1>4, <1>6 DEF NotOf, WithoutFriend
    <3>2. GuildMended(s, q, f, h)
      BY <2>7, <2>10 DEF AllMended
    <3>3. Mended(RoomsView(s), q \o t, NotOf("rooms", h), Of("rooms", h))
      BY <3>1, <3>2, MendedMoves DEF GuildMended
    <3>4. Mended(MembersView(s), q \o t, NotOf("members", h), Of("members", h))
      BY <3>1, <3>2, MendedMoves DEF GuildMended
    <3>5. h \in f.guilds => Mended(MembersView(s), q \o t, WithoutFriend(h), WithFriend(h))
      BY <3>1, <3>2, MendedMoves DEF GuildMended
    <3>6. QED
      BY <2>5, <3>3, <3>4, <3>5 DEF GuildMended
  <2>11. AllMended(s, Q, a, b, h)
    BY <2>3, <2>8, <2>9, <2>10 DEF AllMended
  <2>12. QED
    BY <2>2, <2>3, <2>4, <2>6, <2>11
<1>9. QED
  BY <1>7, <1>8 DEF GuildKept, ScreenMended

-----------------------------------------------------------------------------
\* Nothing moves in the queue.
LEMMA StillMoves ==
  ASSUME answers \in Seq(GuildMessage), answers' = answers, NEW t, t = <<>>
  PROVE  t \in Seq(GuildMessage) /\ Moves(answers, t)
<1>1. t \in Seq(GuildMessage) /\ Len(t) = 0
  OBVIOUS
<1>2. \A i \in 1..Len(t) : FALSE
  BY <1>1
<1>3. answers' = answers \o t
  BY ConcatEmptySeq
<1>4. QED
  BY <1>1, <1>2, <1>3 DEF Moves, GuildFits

\* A channel more; not a step of a calm session.
LEMMA MoreRooms ==
  ASSUME Basics, NEW g \in Guild, NEW type \in RoomType, "create" \in guildEnv, guildEnv' = guildEnv,
         rooms' = [rooms EXCEPT ![g] = Append(@, type)], account' = account, friend' = friend,
         store' = store, subs' = subs
  PROVE  KeepsLists
<1>1. rooms \in [Guild -> Seq(RoomType)]
  BY DEF Basics, GuildTypes, ServerTypes
<1>2. PICK l, k : l \in Seq(RoomType) /\ l = rooms[g] /\ k = Append(l, type)
  BY <1>1
<1> l \in Seq(RoomType)
  BY <1>2
<1>3. k \in Seq(RoomType) /\ Len(k) = Len(l) + 1 /\ Len(l) \in Nat
  BY <1>2, AppendProperties, LenProperties
<1>4. rooms' = [rooms EXCEPT ![g] = k]
  BY <1>2
<1>5. rooms' \in [Guild -> Seq(RoomType)] /\ \A h \in Guild : rooms'[h] = IF h = g THEN k ELSE rooms[h]
  BY <1>1, <1>3, <1>4
<1>6. ASSUME NEW h \in Guild
      PROVE  Len(rooms[h]) <= Len(rooms'[h])
  <2>1. Len(rooms[h]) \in Nat
    BY <1>1, LenProperties
  <2>2. CASE h = g
    BY <1>2, <1>3, <1>5, <2>2
  <2>3. CASE h # g
    BY <1>5, <2>1, <2>3
  <2>4. QED
    BY <2>2, <2>3
<1>7. RoomsGrow
  BY <1>6 DEF RoomsGrow
<1>8. ServerTypes'
  BY <1>5 DEF Basics, GuildTypes, ServerTypes
<1>9. QED
  BY <1>7, <1>8 DEF KeepsLists, Basics, GuildTypes

\* The user creates a channel.
LEMMA CreateChannelStep ==
  ASSUME Basics, NEW type \in RoomType, CreateChannel(type)
  PROVE  GuildKept
<1>1. PICK g \in Guild : g = store.guild
  BY DEF CreateChannel, Basics, GuildTypes, StoreState
<1>2. KeepsLists
  BY <1>1, MoreRooms DEF CreateChannel
<1>3. PICK rs : rs = <<[kind |-> "roomCreated"]>>
  OBVIOUS
<1>4. Requests(rs, g)
  BY <1>3, RequestFacts DEF Basics, GuildAssumption
<1>5. Ask(rs, answers) /\ answers \in Seq(GuildMessage) /\ ServerTypes'
  BY <1>2, <1>3 DEF CreateChannel, Basics, GuildTypes, KeepsLists
<1>6. PICK t \in Seq(GuildMessage) : Moves(answers, t) /\ GuildAsked(t, rs)
  BY <1>4, <1>5, AskMoves
<1>7. Lists'
  BY <1>2, <1>5, <1>6, ListsStay
<1>8. ~Calm'
  BY DEF Calm, CreateChannel
<1>9. QED
  BY <1>7, <1>8 DEF GuildKept, ScreenMended

\* Somebody else does.
LEMMA OtherCreatesStep ==
  ASSUME Basics, NEW g \in Guild, OtherCreates(g)
  PROVE  GuildKept
<1>1. KeepsLists
  BY MoreRooms DEF OtherCreates, RoomType
<1>2. answers \in Seq(GuildMessage) /\ answers' = answers
  BY DEF OtherCreates, Basics, GuildTypes
<1>3. PICK t \in Seq(GuildMessage) : Moves(answers, t)
  BY <1>2, StillMoves
<1>4. Lists'
  BY <1>1, <1>2, <1>3, ListsStay
<1>5. ~Calm'
  BY DEF Calm, OtherCreates
<1>6. QED
  BY <1>4, <1>5 DEF GuildKept, ScreenMended

\* The screen and what comes to it stay.
LEMMA ScreenStays ==
  ASSUME ScreenMended, SameViews(store, store'), store'.guild = store.guild,
         store'.signedIn = store.signedIn, answers' = answers,
         account' = account, friend' = friend, guildEnv' = guildEnv
  PROVE  ScreenMended'
<1>1. PICK s, n : s = store /\ n = store' /\ SameViews(s, n)
  OBVIOUS
<1>2. /\ GuildsView(n) = GuildsView(s) /\ ThreadsView(n) = ThreadsView(s)
      /\ RoomsView(n) = RoomsView(s) /\ MembersView(n) = MembersView(s)
      /\ n.members = s.members
  BY <1>1 DEF SameViews, GuildsView, ThreadsView, RoomsView, MembersView
<1>3. \A q, a, f, g : AllMended(s, q, a, f, g) => AllMended(n, q, a, f, g)
  BY <1>2 DEF AllMended, UserMended, FriendMended, GuildMended
<1>4. ASSUME Calm'
      PROVE  AllMended(store, answers, account, friend, store.guild)'
  <2>1. Calm
    BY <1>4 DEF Calm
  <2>2. AllMended(s, answers, account, friend, store.guild)
    BY <1>1, <2>1 DEF ScreenMended
  <2>3. AllMended(n, answers, account, friend, store.guild)
    BY <1>3, <2>2
  <2>4. QED
    BY <1>1, <2>3
<1>5. QED
  BY <1>4 DEF ScreenMended

\* A new session holds what is wanted; without one nothing is held.
LEMMA SessionStep ==
  ASSUME Basics, ScreenMended, SessionBegins \/ SessionEnds
  PROVE  GuildKept
<1>1. ServerTypes' /\ RoomsGrow /\ account' = account /\ friend' = friend /\ guildEnv' = guildEnv
  BY ServerSame DEF SessionBegins, SessionEnds, Basics, GuildTypes
<1>2. /\ answers \in Seq(GuildMessage) /\ answers' = answers /\ store' = store /\ store \in StoreState
      /\ "reconnect" \in guildEnv /\ subs \in SubsState
  BY DEF SessionBegins, SessionEnds, Basics, GuildTypes
<1>3. PICK t \in Seq(GuildMessage) : Moves(answers, t)
  BY <1>2, StillMoves
<1>4. /\ ServerTypes /\ GuildAssumption /\ QueueWere /\ QueueGrows /\ ScreenWere /\ ScreenGrows
  BY DEF Basics, GuildTypes
<1>5. QueueWere' /\ QueueGrows'
  BY <1>1, <1>2, <1>3, <1>4, QueueStep
<1>6. ScreenWere' /\ ScreenGrows'
  BY <1>1, <1>2, <1>3, <1>4, ScreenStep
<1>7. /\ subs' \in SubsState /\ subs'.wanted = subs.wanted
      /\ subs'.up => subs'.held = subs.wanted /\ store.signedIn
  BY <1>2 DEF SessionBegins, SessionEnds, Registered, SubsState
<1>8. GuildTypes'
  BY <1>1, <1>2, <1>7 DEF Basics, GuildTypes
<1>9. ListWanted'
  BY <1>1, <1>2, <1>7 DEF Basics, ListWanted, FirstSession
<1>10. ScreenMended'
  BY <1>1, <1>2, ScreenStays DEF SameViews
<1>11. QED
  BY <1>5, <1>6, <1>8, <1>9, <1>10 DEF GuildKept, Lists

\* A channel of the list is put on the screen.
LEMMA SelectRoomStep ==
  ASSUME Basics, ScreenMended, NEW i \in Nat, SelectRoom(i)
  PROVE  GuildKept
<1>1. ServerTypes' /\ RoomsGrow /\ account' = account /\ friend' = friend /\ guildEnv' = guildEnv
  BY ServerSame DEF SelectRoom, Basics, GuildTypes
<1>2. /\ answers \in Seq(GuildMessage) /\ answers' = answers /\ store \in StoreState /\ subs' = subs
      /\ rooms' = rooms
  BY DEF SelectRoom, Basics, GuildTypes, Server
<1>3. i \in 1..Len(store.rooms.types) /\ store.rooms.types \in Seq(RoomType)
      /\ store.rooms.of \in Guild \cup {NoGuild}
  BY <1>2 DEF SelectRoom, StoreState
<1>4. store.rooms.of # NoGuild
  <2>1. Len(<<>>) = 0
    OBVIOUS
  <2>2. QED
    BY <1>3, <2>1 DEF Basics, ScreenWere
<1>5. PICK g, p : g \in Guild /\ g = store.rooms.of /\ p = <<g, i>> /\ p[1] = g /\ p[2] = i
  <2>1. PICK g \in Guild : g = store.rooms.of
    BY <1>3, <1>4
  <2>2. PICK p : p = <<g, i>>
    OBVIOUS
  <2>3. p[1] = g /\ p[2] = i
    BY <2>2
  <2>4. QED
    BY <2>1, <2>2, <2>3
<1> g \in Guild
  BY <1>5
<1>6. p \in Guild \X (Nat \ {0}) /\ p # NoRoom
  BY <1>3, <1>5 DEF NoRoom
<1>7. store' = [store EXCEPT !.room = p]
  BY <1>5 DEF SelectRoom
<1>8. /\ store' \in StoreState /\ store'.rooms = store.rooms /\ store'.room = p
      /\ store'.guild = store.guild /\ store'.signedIn = store.signedIn /\ SameViews(store, store')
  BY <1>2, <1>6, <1>7 DEF StoreState, SameViews
<1>9. PICK t \in Seq(GuildMessage) : Moves(answers, t)
  BY <1>2, StillMoves
<1>10. QueueWere' /\ QueueGrows'
  BY <1>1, <1>2, <1>9, QueueStep DEF Basics, GuildTypes
<1>11. IsList(g, store.rooms.types)
  BY <1>4, <1>5 DEF Basics, ScreenWere
<1>12. /\ Len(store.rooms.types) \in Nat /\ Len(rooms[g]) \in Nat
       /\ Len(store.rooms.types) <= Len(rooms[g]) /\ i <= Len(store.rooms.types)
  <2>1. rooms[g] \in Seq(RoomType)
    BY DEF Basics, GuildTypes, ServerTypes
  <2>2. QED
    BY <1>3, <1>11, <2>1, LenProperties DEF IsList
<1>13. i <= Len(rooms[g])
  <2>1. PICK b \in Nat, c \in Nat : b = Len(store.rooms.types) /\ c = Len(rooms[g])
    BY <1>12
  <2>2. i <= b /\ b <= c
    BY <1>12, <2>1
  <2>3. i <= c
    BY <2>2
  <2>4. QED
    BY <2>1, <2>3
<1>14. ScreenWere'
  BY <1>1, <1>2, <1>5, <1>8, <1>13 DEF Basics, ScreenWere, IsList
<1>15. ScreenGrows'
  <2>1. ASSUME "late" \notin guildEnv, NEW l \in 1..Len(answers)
        PROVE  IsLonger(answers[l], g, i)
    <3>1. IsLonger(answers[l], g, Len(store.rooms.types))
      BY <1>5, <2>1 DEF Basics, ScreenGrows
    <3>2. CASE answers[l].kind = "rooms"
      <4>1. answers[l].types \in Seq(RoomType)
        BY <1>2, <3>2, MessageFields, ElementOfSeq
      <4>2. PICK b \in Nat, c \in Nat : b = Len(store.rooms.types) /\ c = Len(answers[l].types)
        BY <1>12, <4>1, LenProperties
      <4>3. i <= b
        BY <1>12, <4>2
      <4>4. b <= c => i <= c
        BY <4>3
      <4>5. QED
        BY <3>1, <4>2, <4>4 DEF IsLonger
    <3>3. CASE answers[l].kind # "rooms"
      BY <3>3 DEF IsLonger
    <3>4. QED
      BY <3>2, <3>3
  <2>2. i <= Len(store.rooms.types)
    BY <1>12
  <2>3. QED
    BY <1>1, <1>2, <1>5, <1>8, <2>1, <2>2 DEF Basics, ScreenGrows
<1>16. GuildTypes'
  BY <1>1, <1>2, <1>8 DEF Basics, GuildTypes
<1>17. ListWanted'
  <2>1. p \in subs.wanted
    BY <1>3, <1>5 DEF Basics, ListWanted
  <2>2. subs.up => p \in subs.held
    BY <2>1 DEF Basics, ListWanted
  <2>3. QED
    BY <1>1, <1>2, <1>8, <2>2 DEF Basics, ListWanted, FirstSession
<1>18. ScreenMended'
  BY <1>1, <1>2, <1>8, ScreenStays
<1>19. QED
  BY <1>10, <1>14, <1>15, <1>16, <1>17, <1>18 DEF GuildKept, Lists

\* Logout empties the store.
LEMMA LogoutStep ==
  ASSUME Basics, Logout
  PROVE  GuildKept
<1>1. ServerTypes' /\ RoomsGrow /\ account' = account /\ friend' = friend /\ guildEnv' = guildEnv
  BY ServerSame DEF Logout, Basics, GuildTypes
<1>2. /\ answers \in Seq(GuildMessage) /\ answers' = answers
  BY DEF Logout, Basics, GuildTypes
<1>3. PICK t \in Seq(GuildMessage) : Moves(answers, t)
  BY <1>2, StillMoves
<1>4. QueueWere' /\ QueueGrows'
  BY <1>1, <1>2, <1>3, QueueStep DEF Basics, GuildTypes
<1>5. /\ store'.signedIn = FALSE /\ store'.presence = NoUser /\ store'.guilds = <<>>
      /\ store'.guild = NoGuild /\ store'.rooms.of = NoGuild /\ store'.rooms.types = <<>>
      /\ store'.room = NoRoom /\ store'.members.friend = NoUser /\ store'.threads = 0
  BY DEF Logout, Cleared
<1>6. store' \in StoreState
  <2>1. <<>> \in Seq(Guild) /\ <<>> \in Seq(RoomType) /\ 0 \in 0..MaxThreads
    BY DEF Basics, GuildAssumption
  <2>2. store' = Cleared
    BY DEF Logout
  <2>3. QED
    BY <2>1, <2>2 DEF Cleared, StoreState
<1>7. subs' \in SubsState /\ subs'.wanted = {} /\ subs'.up = FALSE
  BY DEF Logout, NoSubs, SubsState
<1>8. GuildTypes'
  BY <1>1, <1>2, <1>6, <1>7 DEF Basics, GuildTypes
<1>9. ScreenWere'
  BY <1>5 DEF ScreenWere
<1>10. \A l \in 1..Len(answers) : IsLonger(answers[l], NoGuild, Len(<<>>))
  <2>1. ASSUME NEW l \in 1..Len(answers), answers[l].kind = "rooms"
        PROVE  answers[l].of # NoGuild
    BY <2>1 DEF Basics, QueueWere
  <2>2. QED
    BY <2>1 DEF IsLonger
<1>11. ScreenGrows'
  BY <1>2, <1>5, <1>10 DEF ScreenGrows
<1>12. ListWanted'
  <2>1. Len(store'.rooms.types) = 0
    BY <1>5
  <2>2. {<<store'.rooms.of, n>> : n \in 1..Len(store'.rooms.types)} = {}
    BY <2>1
  <2>3. QED
    BY <1>5, <1>7, <2>2 DEF ListWanted, FirstSession
<1>13. ~Calm'
  BY <1>5 DEF Calm
<1>14. QED
  BY <1>4, <1>8, <1>9, <1>11, <1>12, <1>13 DEF GuildKept, Lists, ScreenMended

-----------------------------------------------------------------------------
\* The i-th message is delivered, rs is asked for, the guild g is on the screen.
Delivery(i, rs, g) ==
    /\ i \in 1..Len(answers) /\ (i = 1 \/ "late" \in guildEnv)
    /\ g \in Guild \cup {NoGuild} /\ Requests(rs, g)
    /\ After(i, rs)
    /\ store' \in StoreState /\ store'.signedIn = store.signedIn /\ store'.guild = g
    /\ GuildShown(store, store', answers[i])
    /\ answers[i].kind = "joined" => Has(rs, "guilds")
    /\ answers[i].kind = "threadCreated" => Has(rs, "threads")
    /\ answers[i].kind = "memberJoin" /\ answers[i].of = g => Has(rs, "members")
    /\ g # store.guild => Has(rs, "rooms") /\ Has(rs, "members")

\* Its message is taken from the queue; what is asked for follows.
LEMMA DeliveryMoves ==
  ASSUME Basics, NEW i, NEW rs, NEW g, Delivery(i, rs, g)
  PROVE  /\ ServerTypes' /\ RoomsGrow /\ account' = account /\ friend' = friend /\ guildEnv' = guildEnv
         /\ \E rest \in Seq(GuildMessage) : \E t \in Seq(GuildMessage) :
               GuildLacks(rest, answers, i) /\ Moves(rest, t) /\ GuildAsked(t, rs)
<1>1. ServerTypes' /\ RoomsGrow /\ account' = account /\ friend' = friend /\ guildEnv' = guildEnv
  BY ServerSame DEF Delivery, After, Basics, GuildTypes
<1>2. PICK q \in Seq(GuildMessage) : q = answers
  BY DEF Basics, GuildTypes
<1>3. i \in 1..Len(q)
  BY <1>2 DEF Delivery
<1>4. PICK rest : rest = RemoveAt(q, i)
  OBVIOUS
<1>5. rest \in Seq(GuildMessage) /\ GuildLacks(rest, q, i)
  BY <1>3, <1>4, GuildRemoved
<1>6. Ask(rs, rest) /\ Requests(rs, g)
  BY <1>2, <1>4 DEF Delivery, After
<1>7. \E j \in 1..Len(answers) : GuildLacks(rest, answers, j) /\ (j = 1 \/ "late" \in guildEnv)
  BY <1>2, <1>3, <1>5 DEF Delivery
<1>8. PICK t \in Seq(GuildMessage) : Moves(rest, t) /\ GuildAsked(t, rs)
  BY <1>1, <1>5, <1>6, <1>7, AskMoves
<1>9. QED
  BY <1>1, <1>2, <1>5, <1>8

\* The screen follows.
LEMMA DeliveryMends ==
  ASSUME Basics, ScreenMended, NEW i, NEW rs, NEW g, Delivery(i, rs, g)
  PROVE  ScreenMended'
<1>1. /\ ServerTypes' /\ account' = account /\ friend' = friend /\ guildEnv' = guildEnv
  BY DeliveryMoves
<1>2. PICK rest \in Seq(GuildMessage), t \in Seq(GuildMessage) :
          GuildLacks(rest, answers, i) /\ Moves(rest, t) /\ GuildAsked(t, rs)
  BY DeliveryMoves
<1>3. ASSUME Calm'
      PROVE  AllMended(store, answers, account, friend, store.guild)'
  <2>1. Calm /\ "fail" \notin guildEnv /\ i = 1
    BY <1>1, <1>3 DEF Calm, Delivery
  <2>2. PICK s \in StoreState, n \in StoreState : s = store /\ n = store' /\ n.guild = g
    BY DEF Delivery, Basics, GuildTypes
  <2>3. PICK q, Q : q \in Seq(GuildMessage) /\ q = answers /\ Q = answers' /\ Q = rest \o t
    BY <1>2 DEF Basics, GuildTypes, Moves
  <2> q \in Seq(GuildMessage)
    BY <2>3
  <2>4. PICK a, f : a = account /\ f = friend /\ a = account' /\ f = friend'
    BY <1>1
  <2>5. GuildLacks(rest, q, 1) /\ Len(q) \in Nat
    BY <1>2, <2>1, <2>3, LenProperties
  <2>6. LacksHead(rest, q)
    BY <2>5, FirstTaken
  <2>7. Requests(rs, g)
    BY DEF Delivery
  <2>8. /\ Fresh(t, a, f, g)
        /\ Has(rs, "guilds") => \E j \in 1..Len(t) : t[j] \in NewGuilds(a.guilds)
        /\ Has(rs, "threads") => \E j \in 1..Len(t) : t[j] \in NewThreads(a.threads)
        /\ Has(rs, "rooms") => \E j \in 1..Len(t) : t[j] \in Of("rooms", g)
        /\ Has(rs, "members") => \E j \in 1..Len(t) : t[j] \in Of("members", g)
    BY <1>1, <1>2, <2>1, <2>4, <2>7, AskedGood
  <2>9. GuildShown(s, n, q[1])
    BY <2>1, <2>2, <2>3 DEF Delivery
  <2>10. AllMended(s, q, a, f, s.guild)
    BY <2>1, <2>2, <2>3, <2>4 DEF ScreenMended
  <2>11. /\ q[1].kind = "joined" => \E j \in 1..Len(t) : t[j] \in NewGuilds(a.guilds)
         /\ q[1].kind = "threadCreated" => \E j \in 1..Len(t) : t[j] \in NewThreads(a.threads)
         /\ q[1].kind = "memberJoin" /\ q[1].of = n.guild =>
               \E j \in 1..Len(t) : t[j] \in Of("members", n.guild)
         /\ n.guild # s.guild =>
               /\ \E j \in 1..Len(t) : t[j] \in Of("rooms", n.guild)
               /\ \E j \in 1..Len(t) : t[j] \in Of("members", n.guild)
    BY <2>1, <2>2, <2>3, <2>8 DEF Delivery
  <2>12. Fresh(t, a, f, n.guild)
    BY <2>2, <2>8
  <2>13. AllMended(n, rest \o t, a, f, n.guild)
    BY <2>6, <2>9, <2>10, <2>11, <2>12, GuildDelivered
  <2>14. QED
    BY <2>2, <2>3, <2>4, <2>13
<1>4. QED
  BY <1>3 DEF ScreenMended

\* All but a list of channels leaves the lists alone.
LEMMA OtherDelivery ==
  ASSUME Basics, ScreenMended, NEW i, NEW rs, NEW g, Delivery(i, rs, g),
         store'.rooms = store.rooms, store'.room = store.room, subs' = subs
  PROVE  GuildKept
<1>1. ServerTypes' /\ RoomsGrow
  BY DeliveryMoves
<1>2. PICK rest \in Seq(GuildMessage), t \in Seq(GuildMessage) : Moves(rest, t)
  BY DeliveryMoves
<1>3. KeepsLists
  BY <1>1 DEF KeepsLists, Delivery
<1>4. Lists'
  BY <1>2, <1>3, ListsStay
<1>5. ScreenMended'
  BY DeliveryMends
<1>6. QED
  BY <1>4, <1>5 DEF GuildKept

-----------------------------------------------------------------------------
\* What is delivered and the fields of the store.
LEMMA ComingFacts ==
  ASSUME Basics, NEW i, NEW kinds, Comes(i, kinds)
  PROVE  /\ i \in 1..Len(answers) /\ (i = 1 \/ "late" \in guildEnv)
         /\ answers[i] \in GuildMessage /\ answers[i].kind \in kinds
         /\ NoGuild \notin Guild /\ store \in StoreState /\ store.guild \in Guild \cup {NoGuild}
BY ElementOfSeq DEF Comes, Basics, GuildTypes, GuildAssumption, StoreState

\* loadGuilds.
LEMMA GuildsListedStep ==
  ASSUME Basics, ScreenMended, NEW i, GuildsListed(i)
  PROVE  GuildKept
<1>1. Comes(i, {"guilds"})
  BY DEF GuildsListed
<1>2. /\ i \in 1..Len(answers) /\ (i = 1 \/ "late" \in guildEnv)
      /\ answers[i] \in GuildMessage /\ answers[i].kind = "guilds"
      /\ NoGuild \notin Guild /\ store \in StoreState /\ store.guild \in Guild \cup {NoGuild}
  BY <1>1, ComingFacts
<1>3. PICK list \in Seq(Guild) : list = answers[i].list
  BY <1>2, MessageFields
<1>4. PICK g : g = IF store.guild = NoGuild /\ list # <<>> THEN Head(list) ELSE store.guild
  OBVIOUS
<1>5. g \in Guild \cup {NoGuild} /\ (g # store.guild => g \in Guild)
  <2>1. list # <<>> => Head(list) \in Guild
    BY HeadTailProperties
  <2>2. QED
    BY <1>2, <1>4, <2>1
<1>6. store' = [store EXCEPT !.guilds = list, !.guild = g] /\ After(i, LoadGuild(g)) /\ subs' = subs
  BY <1>3, <1>4 DEF GuildsListed
<1>7. /\ store' \in StoreState /\ store'.signedIn = store.signedIn /\ store'.guild = g
      /\ store'.rooms = store.rooms /\ store'.room = store.room /\ store'.guilds = list
      /\ store'.members = store.members /\ store'.threads = store.threads
  BY <1>2, <1>5, <1>6 DEF StoreState
<1>8. GuildShown(store, store', answers[i])
  BY <1>2, <1>3, <1>7 DEF GuildShown
<1>9. PICK rs : rs = LoadGuild(g)
  OBVIOUS
<1>10. Requests(rs, g) /\ (g # store.guild => Has(rs, "rooms") /\ Has(rs, "members"))
  BY <1>2, <1>5, <1>9, RequestFacts, LoadFacts
<1>11. Delivery(i, rs, g)
  BY <1>2, <1>5, <1>6, <1>7, <1>8, <1>9, <1>10 DEF Delivery
<1>12. QED
  BY <1>6, <1>7, <1>11, OtherDelivery

\* loadGuildMembers.
LEMMA MembersListedStep ==
  ASSUME Basics, ScreenMended, NEW i, MembersListed(i)
  PROVE  GuildKept
<1>1. Comes(i, {"members"})
  BY DEF MembersListed
<1>2. /\ i \in 1..Len(answers) /\ (i = 1 \/ "late" \in guildEnv)
      /\ answers[i] \in GuildMessage /\ answers[i].kind = "members"
      /\ NoGuild \notin Guild /\ store \in StoreState /\ store.guild \in Guild \cup {NoGuild}
  BY <1>1, ComingFacts
<1>3. PICK m \in [of : Guild \cup {NoGuild}, friend : Presence \cup {NoUser}] :
          m = [of |-> answers[i].of, friend |-> answers[i].friend]
          /\ m.of = answers[i].of /\ m.friend = answers[i].friend
  <2>1. PICK o \in Guild \cup {NoGuild}, p \in Presence \cup {NoUser} :
            o = answers[i].of /\ p = answers[i].friend
    BY <1>2, MessageFields
  <2>2. PICK m : m = [of |-> o, friend |-> p]
    OBVIOUS
  <2>3. m \in [of : Guild \cup {NoGuild}, friend : Presence \cup {NoUser}] /\ m.of = o /\ m.friend = p
    BY <2>2
  <2>4. QED
    BY <2>1, <2>2, <2>3
<1>4. store' = [store EXCEPT !.members = m] /\ After(i, <<>>) /\ subs' = subs
  BY <1>3 DEF MembersListed
<1>5. /\ store' \in StoreState /\ store'.signedIn = store.signedIn /\ store'.guild = store.guild
      /\ store'.rooms = store.rooms /\ store'.room = store.room /\ store'.guilds = store.guilds
      /\ store'.members = m /\ store'.threads = store.threads
  BY <1>2, <1>3, <1>4 DEF StoreState
<1>6. GuildShown(store, store', answers[i])
  BY <1>2, <1>3, <1>5 DEF GuildShown
<1>7. PICK rs, g : rs = <<>> /\ g = store.guild
  OBVIOUS
<1>8. Requests(rs, g)
  BY <1>2, <1>7, RequestFacts
<1>9. Delivery(i, rs, g)
  BY <1>2, <1>4, <1>5, <1>6, <1>7, <1>8 DEF Delivery
<1>10. QED
  BY <1>4, <1>5, <1>9, OtherDelivery

\* loadDmThreads.
LEMMA ThreadsListedStep ==
  ASSUME Basics, ScreenMended, NEW i, ThreadsListed(i)
  PROVE  GuildKept
<1>1. Comes(i, {"threads"})
  BY DEF ThreadsListed
<1>2. /\ i \in 1..Len(answers) /\ (i = 1 \/ "late" \in guildEnv)
      /\ answers[i] \in GuildMessage /\ answers[i].kind = "threads"
      /\ NoGuild \notin Guild /\ store \in StoreState /\ store.guild \in Guild \cup {NoGuild}
  BY <1>1, ComingFacts
<1>3. PICK n \in 0..MaxThreads : n = answers[i].count
  BY <1>2, MessageFields
<1>4. store' = [store EXCEPT !.threads = n] /\ After(i, <<>>) /\ subs' = subs
  BY <1>3 DEF ThreadsListed
<1>5. /\ store' \in StoreState /\ store'.signedIn = store.signedIn /\ store'.guild = store.guild
      /\ store'.rooms = store.rooms /\ store'.room = store.room /\ store'.guilds = store.guilds
      /\ store'.members = store.members /\ store'.threads = n
  BY <1>2, <1>3, <1>4 DEF StoreState
<1>6. GuildShown(store, store', answers[i])
  BY <1>2, <1>3, <1>5 DEF GuildShown
<1>7. PICK rs, g : rs = <<>> /\ g = store.guild
  OBVIOUS
<1>8. Requests(rs, g)
  BY <1>2, <1>7, RequestFacts
<1>9. Delivery(i, rs, g)
  BY <1>2, <1>4, <1>5, <1>6, <1>7, <1>8 DEF Delivery
<1>10. QED
  BY <1>4, <1>5, <1>9, OtherDelivery

\* After what was created or joined.
LEMMA CreatedStep ==
  ASSUME Basics, ScreenMended, NEW i, Created(i)
  PROVE  GuildKept
<1>1. Comes(i, {"joined", "roomCreated", "threadCreated"})
  BY DEF Created
<1>2. /\ i \in 1..Len(answers) /\ (i = 1 \/ "late" \in guildEnv)
      /\ answers[i] \in GuildMessage /\ answers[i].kind \in {"joined", "roomCreated", "threadCreated"}
      /\ NoGuild \notin Guild /\ store \in StoreState /\ store.guild \in Guild \cup {NoGuild}
  BY <1>1, ComingFacts
<1>3. PICK g : g = store.guild
  OBVIOUS
<1>4. PICK rs : rs = CASE answers[i].kind = "joined" -> LoadGuilds
                       [] answers[i].kind = "roomCreated" -> LoadChannels(g)
                       [] OTHER -> LoadDmThreads
  OBVIOUS
<1>5. After(i, rs) /\ store' = store /\ subs' = subs
  BY <1>3, <1>4 DEF Created
<1>6. /\ answers[i].kind = "joined" => rs = LoadGuilds
      /\ answers[i].kind = "roomCreated" => rs = LoadChannels(g)
      /\ answers[i].kind = "threadCreated" => rs = LoadDmThreads
  BY <1>4
<1>7. /\ Requests(rs, g)
      /\ answers[i].kind = "joined" => Has(rs, "guilds")
      /\ answers[i].kind = "threadCreated" => Has(rs, "threads")
  BY <1>2, <1>3, <1>6, RequestFacts, LoadFacts
<1>8. GuildShown(store, store', answers[i])
  BY <1>2, <1>5 DEF GuildShown
<1>9. Delivery(i, rs, g)
  BY <1>2, <1>3, <1>5, <1>7, <1>8 DEF Delivery
<1>10. QED
  BY <1>5, <1>9, OtherDelivery

\* guild_member_join.
LEMMA MemberJoinedStep ==
  ASSUME Basics, ScreenMended, NEW i, MemberJoined(i)
  PROVE  GuildKept
<1>1. Comes(i, {"memberJoin"})
  BY DEF MemberJoined
<1>2. /\ i \in 1..Len(answers) /\ (i = 1 \/ "late" \in guildEnv)
      /\ answers[i] \in GuildMessage /\ answers[i].kind = "memberJoin"
      /\ NoGuild \notin Guild /\ store \in StoreState /\ store.guild \in Guild \cup {NoGuild}
  BY <1>1, ComingFacts
<1>3. PICK g : g = store.guild
  OBVIOUS
<1>4. PICK rs : rs = IF answers[i].of = g THEN LoadGuildMembers(g) ELSE <<>>
  OBVIOUS
<1>5. After(i, rs) /\ store' = store /\ subs' = subs
  BY <1>3, <1>4 DEF MemberJoined
<1>6. answers[i].of \in Guild
  BY <1>2, MessageFields
<1>7. /\ Requests(rs, g)
      /\ answers[i].of = g => Has(rs, "members")
  BY <1>2, <1>3, <1>4, <1>6, RequestFacts, LoadFacts
<1>8. GuildShown(store, store', answers[i])
  BY <1>2, <1>5 DEF GuildShown
<1>9. Delivery(i, rs, g)
  BY <1>2, <1>3, <1>5, <1>7, <1>8 DEF Delivery
<1>10. QED
  BY <1>5, <1>9, OtherDelivery

\* presence_update.
LEMMA PresencePatchedStep ==
  ASSUME Basics, ScreenMended, NEW i, PresencePatched(i)
  PROVE  GuildKept
<1>1. Comes(i, {"friendPresence"})
  BY DEF PresencePatched
<1>2. /\ i \in 1..Len(answers) /\ (i = 1 \/ "late" \in guildEnv)
      /\ answers[i] \in GuildMessage /\ answers[i].kind = "friendPresence"
      /\ NoGuild \notin Guild /\ store \in StoreState /\ store.guild \in Guild \cup {NoGuild}
  BY <1>1, ComingFacts
<1>3. PICK p : p = IF store.members.friend = NoUser THEN NoUser ELSE answers[i].presence
  OBVIOUS
<1>4. p \in Presence \cup {NoUser}
  BY <1>2, <1>3, MessageFields
<1>5. store' = [store EXCEPT !.members.friend = p] /\ After(i, <<>>) /\ subs' = subs
  BY <1>3 DEF PresencePatched
<1>6. /\ store' \in StoreState /\ store'.signedIn = store.signedIn /\ store'.guild = store.guild
      /\ store'.rooms = store.rooms /\ store'.room = store.room /\ store'.guilds = store.guilds
      /\ store'.members.of = store.members.of /\ store'.members.friend = p
      /\ store'.threads = store.threads
  <2>1. PICK m \in [of : Guild \cup {NoGuild}, friend : Presence \cup {NoUser}] :
            m = [store.members EXCEPT !.friend = p] /\ m.of = store.members.of /\ m.friend = p
    <3>1. PICK v \in [of : Guild \cup {NoGuild}, friend : Presence \cup {NoUser}] : v = store.members
      BY <1>2 DEF StoreState
    <3>2. PICK m : m = [v EXCEPT !.friend = p]
      OBVIOUS
    <3>3. /\ m \in [of : Guild \cup {NoGuild}, friend : Presence \cup {NoUser}]
          /\ m.of = v.of /\ m.friend = p
      BY <1>4, <3>2
    <3>4. QED
      BY <3>1, <3>2, <3>3
  <2>2. store' = [store EXCEPT !.members = m]
    BY <1>5, <2>1
  <2>3. QED
    BY <1>2, <2>1, <2>2 DEF StoreState
<1>7. GuildShown(store, store', answers[i])
  BY <1>2, <1>3, <1>6 DEF GuildShown
<1>8. PICK rs, g : rs = <<>> /\ g = store.guild
  OBVIOUS
<1>9. Requests(rs, g)
  BY <1>2, <1>8, RequestFacts
<1>10. Delivery(i, rs, g)
  BY <1>2, <1>5, <1>6, <1>7, <1>8, <1>9 DEF Delivery
<1>11. QED
  BY <1>5, <1>6, <1>10, OtherDelivery

\* The answer of updatePresence, and an answer that failed.
LEMMA PresenceAnsweredStep ==
  ASSUME Basics, ScreenMended, NEW i, PresenceAnswered(i) \/ Failed(i)
  PROVE  GuildKept
<1>1. Comes(i, {"presence", "failed"})
  BY DEF PresenceAnswered, Failed, Comes
<1>2. /\ i \in 1..Len(answers) /\ (i = 1 \/ "late" \in guildEnv)
      /\ answers[i] \in GuildMessage /\ answers[i].kind \in {"presence", "failed"}
      /\ NoGuild \notin Guild /\ store \in StoreState /\ store.guild \in Guild \cup {NoGuild}
  BY <1>1, ComingFacts
<1>3. /\ store' = [store EXCEPT !.presence = "ONLINE"] \/ store' = store
      /\ After(i, <<>>) /\ subs' = subs
  BY DEF PresenceAnswered, Failed
<1>4. /\ store' \in StoreState /\ store'.signedIn = store.signedIn /\ store'.guild = store.guild
      /\ store'.rooms = store.rooms /\ store'.room = store.room /\ store'.guilds = store.guilds
      /\ store'.members = store.members /\ store'.threads = store.threads
  BY <1>2, <1>3 DEF StoreState, Presence
<1>5. GuildShown(store, store', answers[i])
  BY <1>2, <1>4 DEF GuildShown
<1>6. PICK rs, g : rs = <<>> /\ g = store.guild
  OBVIOUS
<1>7. Requests(rs, g)
  BY <1>2, <1>6, RequestFacts
<1>8. Delivery(i, rs, g)
  BY <1>2, <1>3, <1>4, <1>5, <1>6, <1>7 DEF Delivery
<1>9. QED
  BY <1>3, <1>4, <1>8, OtherDelivery

-----------------------------------------------------------------------------
\* A set of numbers has a least one.
LEMMA GuildLeastNumber ==
  ASSUME NEW T \in SUBSET Nat, T # {}
  PROVE  \E x \in T : \A y \in T : x <= y
<1>1. PICK R : R = OpToRel(<, Nat)
  BY Zenon
<1>2. IsWellFoundedOn(R, Nat)
  BY <1>1, NatLessThanWellFounded, Zenon
<1>3. PICK x \in T : \A y \in T : ~(<<y, x>> \in R)
  BY <1>2, WFMin
<1>4. ASSUME NEW y \in T
      PROVE  x <= y
  <2>1. x \in Nat /\ y \in Nat
    OBVIOUS
  <2>2. y < x => <<y, x>> \in R
    BY <1>1, <2>1 DEF OpToRel
  <2>3. QED
    BY <1>3, <2>1, <2>2
<1>5. QED
  BY <1>4

\* The first text channel is one of the list.
LEMMA FirstText ==
  ASSUME NEW types \in Seq(RoomType), NEW first, first = SelectInSeq(types, LAMBDA t : t = "TEXT")
  PROVE  first = 0 \/ first \in 1..Len(types)
<1>1. PICK I : I = {i \in 1..Len(types) : types[i] = "TEXT"}
  OBVIOUS
<1>2. first = IF I # {} THEN Min(I) ELSE 0
  BY <1>1 DEF SelectInSeq
<1>3. ASSUME I # {}
      PROVE  Min(I) \in I
  <2>1. I \in SUBSET Nat
    BY <1>1
  <2>2. \E x \in I : \A y \in I : x <= y
    BY <1>3, <2>1, GuildLeastNumber
  <2>3. Min(I) = CHOOSE x \in I : \A y \in I : x <= y
    BY DEF Min
  <2>4. QED
    BY <2>2, <2>3
<1>4. QED
  BY <1>1, <1>2, <1>3

\* loadChannels.
LEMMA RoomsListedStep ==
  ASSUME Basics, ScreenMended, NEW i, RoomsListed(i)
  PROVE  GuildKept
<1>1. Comes(i, {"rooms"})
  BY DEF RoomsListed
<1>2. /\ i \in 1..Len(answers) /\ (i = 1 \/ "late" \in guildEnv)
      /\ answers[i] \in GuildMessage /\ answers[i].kind = "rooms"
      /\ NoGuild \notin Guild /\ store \in StoreState /\ store.guild \in Guild \cup {NoGuild}
  BY <1>1, ComingFacts
<1>3. answers[i].of # NoGuild /\ IsList(answers[i].of, answers[i].types)
  BY <1>2 DEF Basics, QueueWere
<1>4. PICK g \in Guild, types \in Seq(RoomType) : g = answers[i].of /\ types = answers[i].types
  BY <1>2, <1>3, MessageFields
<1>5. PICK first : first = SelectInSeq(types, LAMBDA t : t = "TEXT")
  OBVIOUS
<1>6. first = 0 \/ first \in 1..Len(types)
  BY <1>5, FirstText
<1>7. PICK ids : ids = {<<g, n>> : n \in 1..Len(types)}
  OBVIOUS
<1>8. PICK p : p = IF store.room = NoRoom /\ first # 0 THEN <<g, first>> ELSE store.room
  OBVIOUS
<1>9. PICK r : r = [of |-> g, types |-> types]
  OBVIOUS
<1>10. r \in [of : Guild \cup {NoGuild}, types : Seq(RoomType)] /\ r.of = g /\ r.types = types
  BY <1>9
<1>11. /\ store' = [store EXCEPT !.rooms = r, !.room = p]
       /\ Subscribe(ids)
       /\ After(i, <<>>)
  BY <1>4, <1>5, <1>7, <1>8, <1>9 DEF RoomsListed
<1> HIDE <1>5
<1>12. Len(types) \in Nat
  BY LenProperties
<1>13. /\ store.room = NoRoom /\ first # 0 => p = <<g, first>> /\ p[1] = g /\ p[2] = first
       /\ ~(store.room = NoRoom /\ first # 0) => p = store.room
  BY <1>8
<1>14. p \in (Guild \X (Nat \ {0})) \cup {NoRoom}
  BY <1>2, <1>6, <1>8, <1>12 DEF StoreState
<1>15. /\ store' \in StoreState /\ store'.signedIn = store.signedIn /\ store'.guild = store.guild
       /\ store'.rooms = r /\ store'.room = p /\ store'.guilds = store.guilds
       /\ store'.members = store.members /\ store'.threads = store.threads
  BY <1>2, <1>10, <1>11, <1>14 DEF StoreState
<1>16. PICK rs, h : rs = <<>> /\ h = store.guild
  OBVIOUS
<1>17. Delivery(i, rs, h)
  <2>1. GuildShown(store, store', answers[i])
    BY <1>2, <1>4, <1>10, <1>15 DEF GuildShown
  <2>2. Requests(rs, h)
    BY <1>2, <1>16, RequestFacts
  <2>3. QED
    BY <1>2, <1>11, <1>15, <1>16, <2>1, <2>2 DEF Delivery
<1>18. ScreenMended'
  BY <1>17, DeliveryMends
<1>19. /\ ServerTypes' /\ RoomsGrow /\ guildEnv' = guildEnv
  BY <1>17, DeliveryMoves
<1>20. PICK rest \in Seq(GuildMessage), t \in Seq(GuildMessage) :
           GuildLacks(rest, answers, i) /\ Moves(rest, t) /\ GuildAsked(t, rs)
  BY <1>17, DeliveryMoves
<1>21. /\ ServerTypes /\ GuildAssumption /\ answers \in Seq(GuildMessage)
       /\ QueueWere /\ QueueGrows /\ ScreenWere /\ ScreenGrows /\ ListWanted
  BY DEF Basics, GuildTypes
<1>22. QueueWere' /\ QueueGrows'
  BY <1>19, <1>20, <1>21, QueueStep
<1>23. answers' = rest /\ answers' \in Seq(GuildMessage)
  <2>1. Len(t) = 0
    BY <1>16, <1>20 DEF GuildAsked
  <2>2. t = <<>>
    BY <2>1, EmptySeq
  <2>3. QED
    BY <1>20, <2>2, ConcatEmptySeq DEF Moves
<1>24. IsList(g, types)' /\ Len(rooms'[g]) \in Nat
  <2>1. rooms'[g] \in Seq(RoomType)
    BY <1>19 DEF ServerTypes
  <2>2. QED
    BY <1>3, <1>4, <1>19, <1>21, <2>1, StaysList, LenProperties
<1>25. p # NoRoom => p[2] <= Len(rooms'[p[1]])
  <2>1. CASE store.room = NoRoom /\ first # 0
    <3>1. first <= Len(types) /\ Len(types) <= Len(rooms'[g]) /\ first \in Nat
      BY <1>6, <1>12, <1>24, <2>1 DEF IsList
    <3>2. PICK b \in Nat, c \in Nat : b = Len(types) /\ c = Len(rooms'[g])
      BY <1>12, <1>24
    <3>3. first <= b /\ b <= c
      BY <3>1, <3>2
    <3>4. first <= c
      BY <3>1, <3>3
    <3>5. QED
      BY <1>13, <2>1, <3>2, <3>4
  <2>2. CASE ~(store.room = NoRoom /\ first # 0) /\ p # NoRoom
    <3>1. p = store.room /\ p \in Guild \X (Nat \ {0})
      BY <1>13, <1>14, <2>2
    <3>2. PICK k \in Guild, n \in Nat : k = p[1] /\ n = p[2]
      BY <3>1
    <3>3. rooms[k] \in Seq(RoomType) /\ rooms'[k] \in Seq(RoomType)
      BY <1>19, <1>21 DEF ServerTypes
    <3>4. PICK b \in Nat, c \in Nat : b = Len(rooms[k]) /\ c = Len(rooms'[k])
      BY <3>3, LenProperties
    <3>5. n <= b /\ b <= c
      BY <1>19, <1>21, <2>2, <3>1, <3>2, <3>4 DEF ScreenWere, RoomsGrow
    <3>6. n <= c
      BY <3>5
    <3>7. QED
      BY <3>2, <3>4, <3>6
  <2>3. QED
    BY <2>1, <2>2
<1>26. ScreenWere'
  BY <1>2, <1>10, <1>15, <1>24, <1>25 DEF ScreenWere, IsList
<1>27. ASSUME "late" \notin guildEnv
       PROVE  /\ \A l \in 1..Len(rest) :
                    /\ IsLonger(rest[l], g, Len(types))
                    /\ p # NoRoom => IsLonger(rest[l], p[1], p[2])
              /\ p # NoRoom /\ p[1] = g => p[2] <= Len(types)
  <2>1. i = 1
    BY <1>2, <1>27
  <2>2. ASSUME NEW l \in 1..Len(rest)
        PROVE  /\ l + 1 \in 1..Len(answers) /\ 1 \in 1..Len(answers) /\ 1 < l + 1
               /\ rest[l] = answers[l + 1] /\ rest[l] \in GuildMessage
    <3>1. Len(answers) \in Nat /\ Len(rest) \in Nat /\ Len(rest) + 1 = Len(answers) /\ ~(l < 1)
      BY <1>20, <1>21, LenProperties DEF GuildLacks
    <3>2. l + 1 \in 1..Len(answers) /\ 1 \in 1..Len(answers) /\ 1 < l + 1
      BY <3>1
    <3>3. rest[l] = answers[l + 1]
      BY <1>20, <2>1, <3>1 DEF GuildLacks
    <3>4. QED
      BY <3>2, <3>3, ElementOfSeq
  <2>3. ASSUME NEW l \in 1..Len(rest)
        PROVE  IsLonger(rest[l], g, Len(types))
    BY <1>2, <1>4, <1>21, <1>27, <2>1, <2>2 DEF QueueGrows
  <2>4. ASSUME NEW l \in 1..Len(rest), p # NoRoom
        PROVE  IsLonger(rest[l], p[1], p[2])
    <3>1. CASE store.room = NoRoom /\ first # 0
      <4>1. CASE rest[l].kind = "rooms" /\ rest[l].of = g
        <5>1. rest[l].types \in Seq(RoomType)
          BY <2>2, <4>1, MessageFields
        <5>2. PICK b \in Nat, c \in Nat : b = Len(types) /\ c = Len(rest[l].types)
          BY <1>12, <5>1, LenProperties
        <5>3. first <= b /\ b <= c /\ first \in Nat
          BY <1>6, <1>12, <2>3, <3>1, <4>1, <5>2 DEF IsLonger
        <5>4. first <= c
          BY <5>3
        <5>5. QED
          BY <1>13, <3>1, <5>2, <5>4 DEF IsLonger
      <4>2. CASE ~(rest[l].kind = "rooms" /\ rest[l].of = g)
        BY <1>13, <3>1, <4>2 DEF IsLonger
      <4>3. QED
        BY <4>1, <4>2
    <3>2. CASE ~(store.room = NoRoom /\ first # 0)
      BY <1>13, <1>21, <1>27, <2>2, <2>4, <3>2 DEF ScreenGrows
    <3>3. QED
      BY <3>1, <3>2
  <2>5. ASSUME p # NoRoom, p[1] = g
        PROVE  p[2] <= Len(types)
    <3>1. CASE store.room = NoRoom /\ first # 0
      BY <1>6, <1>12, <1>13, <3>1
    <3>2. CASE ~(store.room = NoRoom /\ first # 0)
      <4>1. p = store.room
        BY <1>13, <3>2
      <4>2. IsLonger(answers[i], p[1], p[2])
        BY <1>2, <1>21, <1>27, <2>5, <4>1 DEF ScreenGrows
      <4>3. QED
        BY <1>2, <1>4, <2>5, <4>2 DEF IsLonger
    <3>3. QED
      BY <3>1, <3>2
  <2>6. QED
    BY <2>3, <2>4, <2>5
<1>28. ScreenGrows'
  BY <1>10, <1>15, <1>19, <1>23, <1>27 DEF ScreenGrows
<1>29. ids \in SUBSET (Guild \X Nat)
  BY <1>7, <1>12
<1>30. /\ subs' \in SubsState /\ subs'.wanted = ids /\ subs'.up = subs.up
       /\ subs.up => subs'.held = subs.held \cup ids
  BY <1>11, <1>29 DEF Basics, GuildTypes, SubsState, Subscribe
<1>31. ListWanted'
  <2>1. ids = {<<store'.rooms.of, n>> : n \in 1..Len(store'.rooms.types)}
    BY <1>7, <1>10, <1>15
  <2>2. ASSUME FirstSession, p # NoRoom
        PROVE  p \in subs.held \cup ids
    <3>1. CASE store.room = NoRoom /\ first # 0
      BY <1>6, <1>7, <1>13, <3>1
    <3>2. CASE ~(store.room = NoRoom /\ first # 0)
      BY <1>13, <1>21, <2>2, <3>2 DEF ListWanted
    <3>3. QED
      BY <3>1, <3>2
  <2>3. QED
    BY <1>15, <1>19, <1>21, <1>30, <2>1, <2>2 DEF ListWanted, FirstSession
<1>32. GuildTypes'
  BY <1>15, <1>19, <1>23, <1>30 DEF Basics, GuildTypes
<1>33. QED
  BY <1>18, <1>22, <1>26, <1>28, <1>31, <1>32 DEF GuildKept, Lists

-----------------------------------------------------------------------------
\* Initially nobody is signed in and nothing is known.
LEMMA InitGuild == GuildInit => GuildInv
<1> SUFFICES ASSUME GuildInit
             PROVE  GuildInv
  OBVIOUS
<1>1. /\ account = [guilds |-> <<>>, threads |-> 0] /\ friend = [guilds |-> {}, presence |-> "OFFLINE"]
      /\ rooms = [g \in Guild |-> <<"TEXT", "VOICE">>] /\ guildEnv \in GuildScenarios
      /\ store = Cleared /\ subs = NoSubs /\ answers = <<>>
  BY DEF GuildInit
<1>2. <<>> \in Seq(Guild) /\ <<>> \in Seq(RoomType) /\ <<"TEXT", "VOICE">> \in Seq(RoomType)
      /\ <<>> \in Seq(GuildMessage) /\ Len(<<>>) = 0 /\ 0 \in 0..MaxThreads
  BY GuildAssumption DEF RoomType, GuildAssumption
<1>3. ServerTypes
  BY <1>1, <1>2 DEF ServerTypes, Presence
<1>4. /\ store.signedIn = FALSE /\ store.guild = NoGuild /\ store.rooms.of = NoGuild
      /\ store.rooms.types = <<>> /\ store.room = NoRoom
  BY <1>1 DEF Cleared
<1>5. store \in StoreState
  BY <1>1, <1>2 DEF Cleared, StoreState
<1>6. subs \in SubsState /\ subs.wanted = {} /\ subs.up = FALSE
  BY <1>1 DEF NoSubs, SubsState
<1>7. GuildTypes
  BY <1>1, <1>2, <1>3, <1>5, <1>6 DEF GuildTypes
<1>8. \A k \in 1..Len(answers) : FALSE
  BY <1>1, <1>2
<1>9. QueueWere /\ QueueGrows /\ ScreenWere /\ ScreenGrows
  BY <1>4, <1>8 DEF QueueWere, QueueGrows, ScreenWere, ScreenGrows
<1>10. ListWanted
  <2>1. Len(store.rooms.types) = 0
    BY <1>2, <1>4
  <2>2. {<<store.rooms.of, n>> : n \in 1..Len(store.rooms.types)} = {}
    BY <2>1
  <2>3. QED
    BY <1>4, <1>6, <2>2 DEF ListWanted, FirstSession
<1>11. SignedOutQuiet
  BY <1>1 DEF SignedOutQuiet
<1>12. ScreenMended
  BY <1>4 DEF ScreenMended, Calm
<1>13. QED
  BY <1>7, <1>9, <1>10, <1>11, <1>12 DEF GuildInv

\* Nothing comes to who has signed out.
LEMMA QuietStep ==
  ASSUME GuildTypes, SignedOutQuiet, ListWanted, GuildNext
  PROVE  SignedOutQuiet'
<1>1. SUFFICES ASSUME "logout" \notin guildEnv', ~store'.signedIn
               PROVE  (store = Cleared /\ answers = <<>>)'
  BY DEF SignedOutQuiet
<1>2. CASE Logout
  BY <1>1, <1>2 DEF Logout
<1>3. CASE SignIn
  <2>1. store'.signedIn = TRUE
    BY <1>3 DEF SignIn, GuildTypes, StoreState
  <2>2. QED
    BY <1>1, <2>1
<1>4. ASSUME store.signedIn, ~Logout
      PROVE  FALSE
  <2>1. store'.signedIn = store.signedIn
    BY <1>4 DEF GuildTypes, StoreState, GuildNext, SignIn, CreateDmThread, FriendPresence, SessionBegins, SessionEnds,
       SelectGuild, JoinGuild, FriendJoins, OtherCreates, SelectRoom, CreateChannel, GuildsListed,
       RoomsListed, MembersListed, ThreadsListed, Created, MemberJoined, PresencePatched,
       PresenceAnswered, Failed
  <2>2. QED
    BY <1>1, <1>4, <2>1
<1>5. ASSUME ~store.signedIn, ~SignIn, ~Logout
      PROVE  (store = Cleared /\ answers = <<>>)'
  <2>1. guildEnv' = guildEnv
    BY <1>5 DEF GuildNext, CreateDmThread, FriendPresence, SessionBegins, SessionEnds,
       SelectGuild, JoinGuild, FriendJoins, OtherCreates, SelectRoom, CreateChannel, GuildsListed,
       RoomsListed, MembersListed, ThreadsListed, Created, MemberJoined, PresencePatched,
       PresenceAnswered, Failed, After
  <2>2. store = Cleared /\ answers = <<>>
    BY <1>1, <1>5, <2>1 DEF SignedOutQuiet
  <2>3. store.guild = NoGuild /\ ~subs.up /\ \A i \in 1..Len(answers) : FALSE
    BY <1>5, <2>2 DEF Cleared, ListWanted
  <2>4. store' = store /\ answers' = answers
    BY <1>5, <2>3 DEF GuildNext, CreateDmThread, FriendPresence, SessionBegins, SessionEnds, Tells,
       SelectGuild, JoinGuild, FriendJoins, OtherCreates, SelectRoom, CreateChannel
  <2>5. QED
    BY <2>2, <2>4
<1>6. QED
  BY <1>2, <1>3, <1>4, <1>5

\* Every step keeps the invariant.
LEMMA GuildStep == GuildInv /\ [GuildNext]_guildVars => GuildInv'
<1>1. ASSUME GuildInv, UNCHANGED guildVars
      PROVE  GuildInv'
  BY <1>1 DEF GuildInv, guildVars, GuildTypes, ServerTypes, SignedOutQuiet, QueueWere, ScreenWere,
     QueueGrows, ScreenGrows, ListWanted, FirstSession, ScreenMended, Calm, IsList
<1>2. ASSUME GuildInv, GuildNext
      PROVE  GuildInv'
  <2>1. Basics /\ GuildTypes /\ SignedOutQuiet /\ ListWanted /\ ScreenMended
    BY <1>2, GuildAssumption DEF GuildInv, Basics
  <2>2. SignedOutQuiet'
    BY <1>2, <2>1, QuietStep
  <2>3. GuildKept
    <3>1. CASE SignIn
      BY <2>1, <3>1, SignInStep
    <3>2. CASE Logout
      BY <2>1, <3>2, LogoutStep
    <3>3. CASE CreateDmThread
      BY <2>1, <3>3, CreateDmThreadStep
    <3>4. CASE FriendPresence
      BY <2>1, <3>4, FriendPresenceStep
    <3>5. CASE SessionBegins \/ SessionEnds
      BY <2>1, <3>5, SessionStep
    <3>6. ASSUME NEW g \in Guild, SelectGuild(g) \/ JoinGuild(g) \/ FriendJoins(g) \/ OtherCreates(g)
          PROVE  GuildKept
      BY <2>1, <3>6, SelectGuildStep, JoinGuildStep, FriendJoinsStep, OtherCreatesStep
    <3>7. ASSUME NEW n \in 1..MaxRooms, SelectRoom(n)
          PROVE  GuildKept
      <4>1. n \in Nat
        OBVIOUS
      <4>2. QED
        BY <2>1, <3>7, <4>1, SelectRoomStep
    <3>8. ASSUME NEW t \in RoomType, CreateChannel(t)
          PROVE  GuildKept
      BY <2>1, <3>8, CreateChannelStep
    <3>9. ASSUME NEW i \in 1..Len(answers),
                 \/ GuildsListed(i) \/ RoomsListed(i) \/ MembersListed(i) \/ ThreadsListed(i)
                 \/ Created(i) \/ MemberJoined(i) \/ PresencePatched(i) \/ PresenceAnswered(i)
                 \/ Failed(i)
          PROVE  GuildKept
      BY <2>1, <3>9, GuildsListedStep, RoomsListedStep, MembersListedStep, ThreadsListedStep,
         CreatedStep, MemberJoinedStep, PresencePatchedStep, PresenceAnsweredStep
    <3>10. QED
      BY <1>2, <3>1, <3>2, <3>3, <3>4, <3>5, <3>6, <3>7, <3>8, <3>9 DEF GuildNext
  <2>4. QED
    BY <2>2, <2>3 DEF GuildKept, Lists, GuildInv
<1>3. QED
  BY <1>1, <1>2

\* The invariant.
THEOREM GuildInvariant == GuildSpec => []GuildInv
<1>1. GuildInit => GuildInv
  BY InitGuild
<1>2. GuildInv /\ [GuildNext]_guildVars => GuildInv'
  BY GuildStep
<1>3. QED
  BY <1>1, <1>2, PTL DEF GuildSpec

\* When nothing is under way, there is nothing to be mended.
LEMMA ShownAtRest == GuildInv => ShowsGuild
<1> SUFFICES ASSUME GuildInv, guildEnv \in {{}, {"friend"}, {"reconnect"}}, store.signedIn, answers = <<>>
             PROVE  /\ store.guilds = account.guilds /\ store.threads = account.threads
                    /\ store.guild # NoGuild =>
                          /\ store.rooms = [of |-> store.guild, types |-> rooms[store.guild]]
                          /\ store.members.of = store.guild
                          /\ store.members.friend =
                                IF store.guild \in friend.guilds THEN friend.presence ELSE NoUser
  BY DEF ShowsGuild
<1>1. PICK s, q, a, f, g :
          /\ s \in StoreState /\ q \in Seq(GuildMessage) /\ s = store /\ q = answers /\ a = account /\ f = friend /\ g = store.guild
          /\ AllMended(s, q, a, f, g)
  BY DEF GuildInv, GuildTypes, ScreenMended, Calm
<1> s \in StoreState /\ q \in Seq(GuildMessage)
  BY <1>1
<1>2. \A v, bad, good : Mended(v, q, bad, good) => v \notin bad
  <2>1. \A l \in 1..Len(q) : FALSE
    BY <1>1
  <2>2. QED
    BY <2>1 DEF Mended
<1>3. /\ GuildsView(s) \in GuildMessage /\ ThreadsView(s) \in GuildMessage
      /\ RoomsView(s) \in GuildMessage /\ MembersView(s) \in GuildMessage
  BY ViewFacts
<1>4. store.guilds = account.guilds
  <2>1. GuildsView(s) \notin OldGuilds(a.guilds)
    BY <1>1, <1>2 DEF AllMended, UserMended
  <2>2. QED
    BY <1>1, <1>3, <2>1 DEF OldGuilds, GuildsView
<1>5. store.threads = account.threads
  <2>1. ThreadsView(s) \notin OldThreads(a.threads)
    BY <1>1, <1>2 DEF AllMended, UserMended
  <2>2. QED
    BY <1>1, <1>3, <2>1 DEF OldThreads, ThreadsView
<1>6. ASSUME store.guild # NoGuild
      PROVE  /\ store.rooms = [of |-> store.guild, types |-> rooms[store.guild]]
             /\ store.members.of = store.guild
             /\ store.members.friend =
                   IF store.guild \in friend.guilds THEN friend.presence ELSE NoUser
  <2>1. GuildMended(s, q, f, g) /\ FriendMended(s, q, f)
    BY <1>1, <1>6 DEF AllMended
  <2>2. RoomsView(s) \notin NotOf("rooms", g)
    BY <1>2, <2>1 DEF GuildMended
  <2>3. s.rooms.of = g
    BY <1>3, <2>2 DEF NotOf, RoomsView
  <2>4. "create" \notin guildEnv
    OBVIOUS
  <2>5. s.rooms.types = rooms[g]
    BY <1>1, <1>6, <2>3, <2>4 DEF GuildInv, ScreenWere, IsList
  <2>6. s.rooms = [of |-> g, types |-> rooms[g]]
    BY <2>3, <2>5 DEF StoreState
  <2>7. MembersView(s) \notin NotOf("members", g)
    BY <1>2, <2>1 DEF GuildMended
  <2>8. s.members.of = g
    BY <1>3, <2>7 DEF NotOf, MembersView
  <2>9. CASE g \in f.guilds
    <3>1. MembersView(s) \notin WithoutFriend(g)
      BY <1>2, <2>1, <2>9 DEF GuildMended
    <3>2. s.members.friend # NoUser
      BY <1>3, <2>8, <3>1 DEF WithoutFriend, MembersView
    <3>3. MembersView(s) \notin OldPresence(f.presence)
      BY <1>2, <2>1 DEF FriendMended
    <3>4. s.members.friend = f.presence
      BY <1>3, <3>2, <3>3 DEF OldPresence, MembersView
    <3>5. QED
      BY <1>1, <2>6, <2>8, <2>9, <3>4
  <2>10. CASE g \notin f.guilds
    <3>1. s.members.friend = NoUser
      BY <2>1, <2>8, <2>10 DEF FriendMended
    <3>2. QED
      BY <1>1, <2>6, <2>8, <2>10, <3>1
  <2>11. QED
    BY <2>9, <2>10
<1>7. QED
  BY <1>4, <1>5, <1>6

\* A channel of the list on the screen is subscribed to.
LEMMA HeardOnScreen == GuildInv => OpenRoomHeard
<1> SUFFICES ASSUME GuildInv, subs.up, store.room # NoRoom,
                    {"reconnect", "logout"} \cap guildEnv # {} =>
                       store.room[1] = store.rooms.of /\ ~({"late", "create"} \subseteq guildEnv)
             PROVE  store.room \in subs.held
  BY DEF OpenRoomHeard
<1>1. CASE "reconnect" \notin guildEnv /\ "logout" \notin guildEnv
  BY <1>1 DEF GuildInv, ListWanted, FirstSession
<1>2. CASE {"reconnect", "logout"} \cap guildEnv # {}
  <2>1. PICK g \in Guild, n \in Nat \ {0} : store.room = <<g, n>>
    BY DEF GuildInv, GuildTypes, StoreState
  <2>2. store.room[1] = g /\ store.room[2] = n /\ store.rooms.of = g /\ g # NoGuild
    BY <1>2, <2>1, GuildAssumption DEF GuildAssumption
  <2>3. store.rooms.types \in Seq(RoomType)
    BY DEF GuildInv, GuildTypes, StoreState
  <2>4. n <= Len(store.rooms.types)
    <3>1. CASE "late" \notin guildEnv
      BY <2>2, <3>1 DEF GuildInv, ScreenGrows
    <3>2. CASE "create" \notin guildEnv
      <4>1. store.rooms.types = rooms[g]
        BY <2>2, <3>2 DEF GuildInv, ScreenWere, IsList
      <4>2. n <= Len(rooms[g])
        BY <2>2 DEF GuildInv, ScreenWere
      <4>3. QED
        BY <4>1, <4>2
    <3>3. QED
      BY <1>2, <3>1, <3>2
  <2>5. n \in 1..Len(store.rooms.types)
    BY <2>3, <2>4, LenProperties
  <2>6. store.room \in subs.wanted
    BY <2>1, <2>2, <2>5 DEF GuildInv, ListWanted
  <2>7. QED
    BY <2>6 DEF GuildInv, ListWanted
<1>3. QED
  BY <1>1, <1>2

\* What the screen shows, what is heard, and that logout leaves nothing.
THEOREM GuildIsSound == GuildSpec => []GuildSound
<1>1. GuildInv => GuildSound
  BY ShownAtRest, HeardOnScreen DEF GuildInv, SignedOutQuiet, SignedOutEmpty, GuildSound
<1>2. QED
  BY <1>1, GuildInvariant, PTL

-----------------------------------------------------------------------------
\* No guild has too many channels, and the server is asked for no others.
RoomsBound == (\A g \in Guild : Len(rooms[g]) <= MaxRooms) /\ subs.held \subseteq Room

\* A list that was the guild's names channels.
LEMMA ListsAreRooms ==
  ASSUME GuildInv, RoomsBound, NEW of \in Guild \cup {NoGuild}, NEW types \in Seq(RoomType),
         of # NoGuild => IsList(of, types), of = NoGuild => types = <<>>
  PROVE  {<<of, n>> : n \in 1..Len(types)} \subseteq Room
<1>1. PICK b \in Nat : b = Len(types)
  BY LenProperties
<1>2. CASE of = NoGuild
  <2>1. 1..b = {}
    BY <1>1, <1>2
  <2>2. QED
    BY <2>1, <1>1
<1>3. CASE of # NoGuild
  <2>1. of \in Guild
    BY <1>3
  <2>2. PICK k \in Nat : k = Len(rooms[of])
    BY <2>1, LenProperties DEF GuildInv, GuildTypes, ServerTypes
  <2>3. b <= k /\ k <= MaxRooms /\ MaxRooms \in Nat
    BY <1>1, <1>3, <2>1, <2>2, GuildAssumption DEF IsList, RoomsBound
  <2>4. 1..b \subseteq 1..MaxRooms
    BY <2>3
  <2>5. QED
    BY <1>1, <2>1, <2>4 DEF Room
<1>4. QED
  BY <1>2, <1>3

\* The channels that are wanted, that are listed and that is open are of guilds.
LEMMA RoomsNamed ==
  ASSUME GuildInv, RoomsBound
  PROVE  /\ subs.wanted \subseteq Room /\ store.room \in Room \cup {NoRoom}
         /\ \A k \in 1..Len(answers) : answers[k].kind = "rooms" =>
               {<<answers[k].of, n>> : n \in 1..Len(answers[k].types)} \subseteq Room
<1>1. GuildTypes /\ QueueWere /\ ScreenWere /\ ListWanted /\ store \in StoreState
  BY DEF GuildInv, GuildTypes
<1>2. subs.wanted \subseteq Room
  <2>1. PICK of \in Guild \cup {NoGuild}, types \in Seq(RoomType) :
           of = store.rooms.of /\ types = store.rooms.types
    BY <1>1 DEF StoreState
  <2>2. (of # NoGuild => IsList(of, types)) /\ (of = NoGuild => types = <<>>)
    BY <2>1, <1>1 DEF ScreenWere
  <2>3. {<<of, n>> : n \in 1..Len(types)} \subseteq Room
    BY <2>1, <2>2, ListsAreRooms
  <2>4. QED
    BY <2>1, <2>3, <1>1 DEF ListWanted
<1>3. store.room \in Room \cup {NoRoom}
  <2>1. SUFFICES ASSUME store.room # NoRoom
                 PROVE  store.room \in Room
    OBVIOUS
  <2>2. PICK g \in Guild, n \in Nat \ {0} : store.room = <<g, n>>
    BY <2>1, <1>1 DEF StoreState
  <2>3. PICK k \in Nat : k = Len(rooms[g])
    BY <2>2, <1>1, LenProperties DEF GuildTypes, ServerTypes
  <2>4. n <= k /\ k <= MaxRooms /\ MaxRooms \in Nat
    BY <2>1, <2>2, <2>3, <1>1, GuildAssumption DEF ScreenWere, RoomsBound
  <2>5. QED
    BY <2>2, <2>4 DEF Room
<1>4. ASSUME NEW k \in 1..Len(answers), answers[k].kind = "rooms"
      PROVE  {<<answers[k].of, n>> : n \in 1..Len(answers[k].types)} \subseteq Room
  <2>1. answers[k] \in GuildMessage
    BY <1>1, ElementOfSeq DEF GuildTypes
  <2>2. PICK of \in Guild \cup {NoGuild}, types \in Seq(RoomType) :
           of = answers[k].of /\ types = answers[k].types
    BY <2>1, <1>4, MessageFields
  <2>3. of # NoGuild /\ IsList(of, types)
    BY <2>2, <1>1, <1>4 DEF QueueWere
  <2>4. {<<of, n>> : n \in 1..Len(types)} \subseteq Room
    BY <2>2, <2>3, ListsAreRooms
  <2>5. QED
    BY <2>2, <2>4
<1>5. QED
  BY <1>2, <1>3, <1>4

\* A channel is created where there is room for it.
LEMMA RoomAdded ==
  ASSUME GuildTypes, RoomsBound, NEW g \in Guild, NEW type \in RoomType, Len(rooms[g]) < MaxRooms,
         rooms' = [rooms EXCEPT ![g] = Append(@, type)], subs' = subs
  PROVE  RoomsBound'
<1>1. rooms \in [Guild -> Seq(RoomType)]
  BY DEF GuildTypes, ServerTypes
<1>2. PICK l \in Seq(RoomType) : l = rooms[g]
  BY <1>1
<1>3. Len(Append(l, type)) = Len(l) + 1 /\ Len(l) \in Nat
  BY AppendProperties, LenProperties
<1>4. ASSUME NEW h \in Guild
      PROVE  Len(rooms'[h]) <= MaxRooms
  <2>1. CASE h = g
    <3>1. rooms'[h] = Append(l, type)
      BY <2>1, <1>1, <1>2
    <3>2. Len(l) < MaxRooms
      BY <1>2
    <3>3. QED
      BY <3>1, <3>2, <1>3, GuildAssumption
  <2>2. CASE h # g
    BY <2>2, <1>1 DEF RoomsBound
  <2>3. QED
    BY <2>1, <2>2
<1>5. QED
  BY <1>4 DEF RoomsBound

\* Every step keeps the bound.
LEMMA BoundStep ==
  ASSUME GuildInv, RoomsBound, [GuildNext]_guildVars
  PROVE  RoomsBound'
<1>1. GuildTypes /\ ListWanted /\ subs.wanted \subseteq Room
  BY RoomsNamed DEF GuildInv
<1>2. ASSUME rooms' = rooms, subs' = subs
      PROVE  RoomsBound'
  BY <1>2 DEF RoomsBound
<1>3. CASE UNCHANGED guildVars
  BY <1>2, <1>3 DEF guildVars
<1>4. CASE CreateDmThread \/ FriendPresence
  BY <1>2, <1>4 DEF CreateDmThread, FriendPresence, Server
<1>5. CASE Logout
  BY <1>5 DEF Logout, Server, NoSubs, RoomsBound
<1>6. CASE SignIn \/ SessionBegins \/ SessionEnds
  <2>1. rooms' = rooms /\ subs \in SubsState
    BY <1>1, <1>6 DEF SignIn, SessionBegins, SessionEnds, Server, GuildTypes
  <2>2. subs' = subs \/ subs'.held = subs.wanted \/ subs'.held = {}
    BY <1>6, <2>1 DEF SignIn, SessionBegins, SessionEnds, Registered, SubsState
  <2>3. QED
    BY <1>1, <2>1, <2>2 DEF RoomsBound
<1>7. ASSUME NEW g \in Guild, SelectGuild(g) \/ JoinGuild(g) \/ FriendJoins(g)
      PROVE  RoomsBound'
  BY <1>2, <1>7 DEF SelectGuild, JoinGuild, FriendJoins, Server
<1>8. ASSUME NEW g \in Guild, OtherCreates(g)
      PROVE  RoomsBound'
  BY <1>1, <1>8, RoomAdded DEF OtherCreates, RoomType
<1>9. ASSUME NEW n \in 1..MaxRooms, SelectRoom(n)
      PROVE  RoomsBound'
  BY <1>2, <1>9 DEF SelectRoom, Server
<1>10. ASSUME NEW t \in RoomType, CreateChannel(t)
       PROVE  RoomsBound'
  <2>1. PICK g \in Guild : g = store.guild
    BY <1>1, <1>10 DEF CreateChannel, GuildTypes, StoreState
  <2>2. QED
    BY <1>1, <1>10, <2>1, RoomAdded DEF CreateChannel
<1>11. ASSUME NEW i \in 1..Len(answers),
              \/ GuildsListed(i) \/ MembersListed(i) \/ ThreadsListed(i) \/ Created(i)
              \/ MemberJoined(i) \/ PresencePatched(i) \/ PresenceAnswered(i) \/ Failed(i)
       PROVE  RoomsBound'
  BY <1>2, <1>11 DEF GuildsListed, MembersListed, ThreadsListed, Created, MemberJoined,
     PresencePatched, PresenceAnswered, Failed, After, Server
<1>12. ASSUME NEW i \in 1..Len(answers), RoomsListed(i)
       PROVE  RoomsBound'
  <2>1. PICK ids : ids = {<<answers[i].of, n>> : n \in 1..Len(answers[i].types)}
    OBVIOUS
  <2>2. subs'.held \in {subs.held, subs.held \cup ids} /\ rooms' = rooms
    BY <1>1, <1>12, <2>1 DEF RoomsListed, Subscribe, After, Server, GuildTypes, SubsState
  <2>3. ids \subseteq Room
    BY <1>12, <2>1, RoomsNamed DEF RoomsListed, Comes
  <2>4. QED
    BY <2>2, <2>3 DEF RoomsBound
<1>13. QED
  BY <1>3, <1>4, <1>5, <1>6, <1>7, <1>8, <1>9, <1>10, <1>11, <1>12 DEF GuildNext

\* The variables of guilds and channels have their types.
THEOREM GuildIsTyped == GuildSpec => []GuildTypeOK
<1>1. GuildInit => RoomsBound
  <2>1. SUFFICES ASSUME GuildInit
                 PROVE  RoomsBound
    OBVIOUS
  <2>2. (\A g \in Guild : rooms[g] = <<"TEXT", "VOICE">>) /\ subs.held = {}
    BY <2>1 DEF GuildInit, NoSubs
  <2>3. Len(<<"TEXT", "VOICE">>) <= MaxRooms
    BY GuildAssumption
  <2>4. QED
    BY <2>2, <2>3 DEF RoomsBound
<1>2. GuildInv /\ RoomsBound => GuildTypeOK
  BY RoomsNamed DEF GuildInv, GuildTypes, ServerTypes, StoreState, SubsState, RoomsBound, GuildTypeOK
<1>3. GuildInv /\ RoomsBound /\ [GuildNext]_guildVars => RoomsBound'
  BY BoundStep
<1>4. QED
  BY <1>1, <1>2, <1>3, GuildInvariant, PTL DEF GuildSpec
=============================================================================

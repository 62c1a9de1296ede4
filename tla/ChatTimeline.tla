----------------------------- MODULE ChatTimeline -----------------------------
(***************************************************************************)
(* The messages on the screen (client/src/viewmodels/ChatViewModel.cpp and *)
(* the message list of client/src/store/AppStore.cpp): one list for the    *)
(* selected channel or direct thread, filled by pages of the REST API and  *)
(* kept up to date by gateway events and by the answers to the user's own  *)
(* requests.  None of these says which state of the list it is meant for.  *)
(* A list is read, and a request passes its checks, when it is sent; its   *)
(* answer and the events come back later.                                  *)
(***************************************************************************)
EXTENDS Naturals, Sequences, FiniteSets, SequencesExt

CONSTANTS
    TextChannel, DmThread,    \* places: text channels and direct threads
    NoPlace,
    PageLimit,          \* messages in one page of the REST API
    MaxMessages,        \* bound: messages written in one behaviour
    MaxWritten,         \* bound: the same, for each scenario
    MaxInbox,           \* bound: answers and events under way
    MaxServing,         \* bound: a request that overlaps begins with fewer of them under way
    ChatScenarios       \* what may happen: sets of "react", "late", "fail", "more", "overlap"

ASSUME ChatAssumption ==
    /\ NoPlace \notin TextChannel \cup DmThread
    /\ PageLimit \in Nat \ {0} /\ MaxMessages \in Nat /\ MaxInbox \in Nat /\ MaxServing \in Nat
    /\ MaxWritten \in [ChatScenarios -> 0..MaxMessages]

Place == TextChannel \cup DmThread
NoCursor == 0

VARIABLES
    chatEnv,        \* never changes
    log,            \* the server: the messages of every place, oldest first
    written,        \* the server: the id of the last message
    serving,        \* the server: requests between their checks and their write
    untold,         \* the server: what is written and not yet told
    channel,        \* AppStore::m_currentChannelId
    dmThread,       \* AppStore::m_currentDmThreadId
    timeline,       \* AppStore::m_messages
    cursor,         \* m_channelCursor, m_dmCursor
    busy,
    inbox           \* answers and events under way to the client

chatVars == <<chatEnv, log, written, serving, untold, channel, dmThread, timeline, cursor, busy, inbox>>

\* A message as the server has it, and on the screen; reactions counts the entries of one user with one emoji.
ServerMessage == [id : 1..MaxMessages, text : {"first", "edited"}, reactions : {0, 1}]
Message == [id : 1..MaxMessages, text : {"first", "edited"}, reactions : Nat]

\* A request to change the message msg, as its check has read it; answer: the user's own.
ChangeRequest == [op : {"edit", "delete", "react"}, place : Place, msg : ServerMessage, answer : BOOLEAN]
ListKind == {"channel", "thread"}

ChatTypeOK ==
    /\ chatEnv \in ChatScenarios
    /\ log \in [Place -> Seq(ServerMessage)]
    /\ written \in 0..MaxMessages
    /\ serving \in Seq(ChangeRequest)
    /\ channel \in TextChannel \cup {NoPlace}
    /\ dmThread \in DmThread \cup {NoPlace}
    /\ channel = NoPlace \/ dmThread = NoPlace
    /\ timeline \in Seq(Message)
    /\ cursor \in [ListKind -> 0..MaxMessages]
    /\ busy \in BOOLEAN
    /\ Len(inbox) <= MaxInbox

ChatInit ==
    /\ chatEnv \in ChatScenarios
    /\ log = [p \in Place |-> <<>>]
    /\ written = 0
    /\ serving = <<>> /\ untold = <<>>
    /\ channel = NoPlace /\ dmThread = NoPlace
    /\ timeline = <<>>
    /\ cursor = [k \in ListKind |-> NoCursor]
    /\ busy = FALSE
    /\ inbox = <<>>

-----------------------------------------------------------------------------
(* The store. *)

Index(list, id) == {i \in 1..Len(list) : list[i].id = id}

UpsertMessage(list, m) ==
    IF Index(list, m.id) = {} THEN Append(list, m)
    ELSE [list EXCEPT ![CHOOSE i \in Index(list, m.id) : \A j \in Index(list, m.id) : i <= j] = m]

RemoveMessage(list, id) ==
    IF Index(list, id) = {} THEN list
    ELSE RemoveAt(list, CHOOSE i \in Index(list, id) : \A j \in Index(list, id) : i <= j)

-----------------------------------------------------------------------------
(* The server, as the client sees it: pages newest first, a cursor when    *)
(* there is more, and an event for every change.  A message gets the next  *)
(* id, so the log of a place is in the order of ids.                       *)

Page(p, c) ==
    LET n == Cardinality({i \in 1..Len(log[p]) : c = NoCursor \/ log[p][i].id < c})
        more == n > PageLimit
    IN [items |-> [i \in 1..(IF more THEN PageLimit ELSE n) |-> log[p][n + 1 - i]],
        next |-> IF more THEN log[p][n + 1 - PageLimit].id ELSE NoCursor]

ChatEvents == {"create", "update", "delete", "react"}

Emit(items) ==
    /\ Len(inbox) + Len(items) <= MaxInbox
    /\ inbox' = inbox \o items

\* "overlap": requests overlap, and every await of theirs is a step; else each is
\* served from its checks to its event before the next begins.
RequestsOverlap == "overlap" \in chatEnv
Admits == RequestsOverlap => Len(serving) + Len(untold) + Len(inbox) < MaxServing

Announce(items) ==
    IF RequestsOverlap THEN untold' = Append(untold, items) /\ inbox' = inbox
    ELSE Emit(items) /\ untold' = untold

\* Somebody writes; answer: the user's own request did.
WriteMessage(p, answer) ==
    /\ written < MaxWritten[chatEnv] /\ Admits
    /\ written' = written + 1
    /\ LET m == [id |-> written + 1, text |-> "first", reactions |-> 0]
       IN /\ log' = [log EXCEPT ![p] = Append(@, m)]
          /\ Announce(<<[kind |-> "create", place |-> p, msg |-> m]>>
                  \o (IF answer THEN <<[kind |-> "message", msg |-> m]>> ELSE <<>>))
    /\ serving' = serving

\* The writes behind the checks of r.  A message deleted in between is not in the log
\* any more; its row still takes a text and reactions, and a second delete.
StillLogged(r) == Index(log[r.place], r.msg.id) # {}
AsStored(r) == IF StillLogged(r) THEN log[r.place][CHOOSE i \in Index(log[r.place], r.msg.id) : TRUE] ELSE r.msg

Rewrite(r) ==
    /\ r.op = "edit"
    /\ LET m == [AsStored(r) EXCEPT !.text = "edited"]
       IN /\ log' = IF StillLogged(r) THEN [log EXCEPT ![r.place] = UpsertMessage(@, m)] ELSE log
          /\ Announce(<<[kind |-> "update", place |-> r.place, msg |-> m]>>
                  \o (IF r.answer THEN <<[kind |-> "message", msg |-> m]>> ELSE <<>>))

Erase(r) ==
    /\ r.op = "delete"
    /\ log' = [log EXCEPT ![r.place] = RemoveMessage(@, r.msg.id)]
    /\ Announce(<<[kind |-> "delete", place |-> r.place, id |-> r.msg.id]>>
            \o (IF r.answer THEN <<[kind |-> "deleted", id |-> r.msg.id]>> ELSE <<>>))

\* The entry is added if the check found none, and else removed.
ToggleReaction(r) ==
    /\ r.op = "react" /\ AsStored(r).reactions = r.msg.reactions
    /\ LET m == [AsStored(r) EXCEPT !.reactions = 1 - @]
       IN log' = IF StillLogged(r) THEN [log EXCEPT ![r.place] = UpsertMessage(@, m)] ELSE log
    /\ Announce(<<[kind |-> "react", id |-> r.msg.id, add |-> r.msg.reactions = 0]>>)

\* Another toggle of the same entry was faster: the constraint of its table refuses.
ReactionRefused(r) ==
    /\ r.op = "react" /\ (StillLogged(r) => AsStored(r).reactions # r.msg.reactions)
    /\ UNCHANGED <<log, inbox, untold>>

Writes(r) == Rewrite(r) \/ Erase(r) \/ ToggleReaction(r)

\* The request op about the i-th message of p passes its checks.
PassesChecks(op, p, i, answer) ==
    LET r == [op |-> op, place |-> p, msg |-> log[p][i], answer |-> answer]
    IN /\ op = "edit" => log[p][i].text = "first"
       /\ op = "react" => "react" \in chatEnv
       /\ Admits
       /\ IF RequestsOverlap THEN serving' = Append(serving, r) /\ UNCHANGED <<log, inbox, untold>>
          ELSE Writes(r) /\ serving' = serving
       /\ written' = written

\* An await ends: the j-th request writes, or tells what it has written.
WriteEnds(j) ==
    /\ j \in 1..Len(serving)
    /\ Writes(serving[j]) \/ ReactionRefused(serving[j])
    /\ serving' = RemoveAt(serving, j)
    /\ UNCHANGED <<chatEnv, written, channel, dmThread, timeline, cursor, busy>>

TellEnds(j) ==
    /\ j \in 1..Len(untold)
    /\ Emit(untold[j])
    /\ untold' = RemoveAt(untold, j)
    /\ UNCHANGED <<chatEnv, log, written, serving, channel, dmThread, timeline, cursor, busy>>

\* Another user.  Direct messages are only written.
OthersWrite ==
    /\ \/ \E p \in Place : WriteMessage(p, FALSE)
       \/ \E p \in TextChannel : \E i \in 1..Len(log[p]), op \in {"edit", "delete", "react"} :
             PassesChecks(op, p, i, FALSE)
    /\ UNCHANGED <<chatEnv, channel, dmThread, timeline, cursor, busy>>

-----------------------------------------------------------------------------
(* The user.  A request goes to the place that is selected when it is sent. *)

\* listMessages, listDmMessages; "fail": the request fails.
ListAnswer(k, p, reset) ==
    [kind |-> "list", list |-> k, reset |-> reset,
     page |-> Page(p, IF reset THEN NoCursor ELSE cursor[k])]
Failure == [kind |-> "failed"]

Request(answers) == \/ Emit(answers)
                    \/ "fail" \in chatEnv /\ Emit([i \in 1..Len(answers) |-> Failure])

\* A channel is selected on the screen: currentChannelIdChanged loads it if it is
\* another one, and the screen loads it in any case.
SelectChannel(c) ==
    /\ channel' = c /\ dmThread' = NoPlace
    /\ cursor' = [cursor EXCEPT !["channel"] = NoCursor]
    /\ busy' = TRUE
    /\ LET load == <<ListAnswer("channel", c, TRUE)>>
       IN Request(IF channel = c THEN load ELSE load \o load)
    /\ UNCHANGED <<chatEnv, log, written, serving, untold, timeline>>

\* selectDmThread.
SelectDmThread(t) ==
    /\ channel' = NoPlace /\ dmThread' = t
    /\ cursor' = [cursor EXCEPT !["thread"] = NoCursor]
    /\ busy' = TRUE
    /\ Request(<<ListAnswer("thread", t, TRUE)>>)
    /\ UNCHANGED <<chatEnv, log, written, serving, untold, timeline>>

\* loadChannelMessages(false), loadDmMessages(false), for a screen that asks for more
\* when there is more and nothing is loading; the view model checks neither.
LoadMore(k, p) ==
    /\ "more" \in chatEnv /\ ~busy /\ cursor[k] # NoCursor
    /\ p = (IF k = "channel" THEN channel ELSE dmThread) /\ p # NoPlace
    /\ busy' = TRUE
    /\ Request(<<ListAnswer(k, p, FALSE)>>)
    /\ UNCHANGED <<chatEnv, log, written, serving, untold, channel, dmThread, timeline, cursor>>

\* sendMessage, uploadAttachment, sendDmMessage.
SendMessage ==
    /\ \E p \in {channel, dmThread} \ {NoPlace} : WriteMessage(p, TRUE)
    /\ UNCHANGED <<chatEnv, channel, dmThread, timeline, cursor, busy>>

\* editMessage, deleteMessage, reactToMessage: of a message on the screen.  An edit
\* or a deletion of one that is deleted is refused, and an answer that only sets the
\* error text is left out; so is a reaction to one, whose event finds no message.
Change(op, answer) ==
    /\ channel # NoPlace
    /\ \E i \in 1..Len(log[channel]) :
          Index(timeline, log[channel][i].id) # {} /\ PassesChecks(op, channel, i, answer)
    /\ UNCHANGED <<chatEnv, channel, dmThread, timeline, cursor, busy>>

EditMessage == Change("edit", TRUE)
DeleteMessage == Change("delete", TRUE)
ReactToMessage == Change("react", FALSE)

-----------------------------------------------------------------------------
(* What comes back.  Answers and events arrive in the order they were sent,  *)
(* or ("late") an answer overtakes and is overtaken; events keep their order. *)

Delivered(i, kinds) ==
    /\ i \in 1..Len(inbox)
    /\ inbox[i].kind \in kinds
    /\ i = 1 \/ /\ "late" \in chatEnv
                /\ inbox[i].kind \in ChatEvents => \A j \in 1..(i - 1) : inbox[j].kind \notin ChatEvents
    /\ inbox' = RemoveAt(inbox, i)

\* Mutant: a page is put before the old list in any case.
ListPrepended(i) ==
    /\ Delivered(i, {"list"})
    /\ timeline' = Reverse(inbox[i].page.items) \o timeline
    /\ cursor' = [cursor EXCEPT ![inbox[i].list] = inbox[i].page.next]
    /\ busy' = FALSE
    /\ UNCHANGED <<chatEnv, log, written, serving, untold, channel, dmThread>>

\* The page replaces the list; a further page is prepended message by message.
ListAnswered(i) ==
    /\ Delivered(i, {"list"})
    /\ LET a == inbox[i]
       IN /\ timeline' = IF a.reset THEN Reverse(a.page.items) ELSE a.page.items \o timeline
          /\ cursor' = [cursor EXCEPT ![a.list] = a.page.next]
    /\ busy' = FALSE
    /\ UNCHANGED <<chatEnv, log, written, serving, untold, channel, dmThread>>

ListFailed(i) ==
    /\ Delivered(i, {"failed"})
    /\ busy' = FALSE
    /\ UNCHANGED <<chatEnv, log, written, serving, untold, channel, dmThread, timeline, cursor>>

MessageAnswered(i) ==
    /\ Delivered(i, {"message"})
    /\ timeline' = UpsertMessage(timeline, inbox[i].msg)
    /\ UNCHANGED <<chatEnv, log, written, serving, untold, channel, dmThread, cursor, busy>>

DeleteAnswered(i) ==
    /\ Delivered(i, {"deleted"})
    /\ timeline' = RemoveMessage(timeline, inbox[i].id)
    /\ UNCHANGED <<chatEnv, log, written, serving, untold, channel, dmThread, cursor, busy>>

\* message_create, message_update, message_delete, dm_message_create: of the
\* selected place.
MessageEvent(i) ==
    /\ Delivered(i, {"create", "update", "delete"})
    /\ LET e == inbox[i]
       IN timeline' = IF e.place \notin {channel, dmThread} THEN timeline
                      ELSE IF e.kind = "delete" THEN RemoveMessage(timeline, e.id)
                      ELSE UpsertMessage(timeline, e.msg)
    /\ UNCHANGED <<chatEnv, log, written, serving, untold, channel, dmThread, cursor, busy>>

\* message_reaction_add, message_reaction_remove: they do not name the channel.
ReactionEvent(i) ==
    /\ Delivered(i, {"react"})
    /\ LET e == inbox[i]
           at == Index(timeline, e.id)
           first == CHOOSE j \in at : \A k \in at : j <= k
       IN timeline' = IF at = {} THEN timeline
                      ELSE [timeline EXCEPT ![first].reactions =
                               IF e.add THEN @ + 1 ELSE IF @ = 0 THEN 0 ELSE @ - 1]
    /\ UNCHANGED <<chatEnv, log, written, serving, untold, channel, dmThread, cursor, busy>>

ChatNext ==
    \/ OthersWrite
    \/ \E c \in TextChannel : SelectChannel(c)
    \/ \E t \in DmThread : SelectDmThread(t)
    \/ \E k \in ListKind, p \in Place : LoadMore(k, p)
    \/ \E j \in 1..MaxServing : WriteEnds(j) \/ TellEnds(j)
    \/ SendMessage \/ EditMessage \/ DeleteMessage \/ ReactToMessage
    \/ \E i \in 1..MaxInbox :
          \/ ListAnswered(i) \/ ListFailed(i) \/ MessageAnswered(i) \/ DeleteAnswered(i)
          \/ MessageEvent(i) \/ ReactionEvent(i)

ChatSpec == ChatInit /\ [][ChatNext]_chatVars

-----------------------------------------------------------------------------
(* Properties. *)

Selected == IF channel # NoPlace THEN channel ELSE dmThread
SelectedList == IF channel # NoPlace THEN "channel" ELSE "thread"

\* No message is on the screen twice, whatever overtakes what: the answer and the
\* event of the same message meet in upsertMessage.  (Pages loaded further back can
\* overlap when two are under way.)
NoMessageTwice ==
    "more" \notin chatEnv =>
        \A i, j \in 1..Len(timeline) : timeline[i].id = timeline[j].id => i = j

\* When nothing is under way, and nothing has overtaken or failed, every message on
\* the screen is one of the selected place, with its present text and reactions, and
\* without a cursor it is all of them, in order.  (An edit of a message that is not
\* on the page appends it, and a page further back is prepended in reverse.)
ShowsSelected ==
    chatEnv \subseteq {"react"} /\ inbox = <<>> /\ Selected # NoPlace =>
        IF cursor[SelectedList] = NoCursor THEN timeline = log[Selected]
        ELSE ToSet(timeline) \subseteq ToSet(log[Selected])

\* The progress indicator does not stay on: while it is shown a list is under way.
BusyEnds ==
    busy => \E i \in 1..Len(inbox) : inbox[i].kind \in {"list", "failed"}

\* The three together.
TimelineSound == NoMessageTwice /\ ShowsSelected /\ BusyEnds
=============================================================================

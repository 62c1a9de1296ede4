------------------------------- MODULE LogFilter -------------------------------
(***************************************************************************)
(* The filter on stdout and stderr of the client on Windows                *)
(* (client/src/main.cpp, StdFdLineFilter): the descriptor is replaced by a *)
(* pipe, a thread reads the pipe and writes the lines that are not noise   *)
(* to the original descriptor, until stop closes the pipe and joins it.    *)
(* A line comes in two pieces, and it takes both to see that it is noise.  *)
(***************************************************************************)
EXTENDS Naturals, FiniteSets, SequencesExt

CONSTANTS
    MaxLines,           \* bound: lines logged in one behaviour
    Capacity,           \* pieces that a pipe holds
    FilterScenarios     \* what the environment may do: sets of "broken", "late"

ASSUME FilterAssumption == MaxLines \in Nat /\ Capacity \in Nat

VARIABLES
    filterEnv,      \* never changes
    target,         \* where m_targetFd leads
    pipe,           \* pieces in the pipe
    writeEnd,       \* m_pipeWrite is open
    filter,         \* the thread that uses StdFdLineFilter: where it is, m_started
    reader,         \* the thread of the filter: where it is, m_pending
    logged,         \* pieces that were logged so far
    shown           \* what has come to the original descriptor

filterVars == <<filterEnv, target, pipe, writeEnd, filter, reader, logged, shown>>

Piece == [line : 1..MaxLines, noise : BOOLEAN, last : BOOLEAN]

FilterTypeOK ==
    /\ filterEnv \in FilterScenarios
    /\ target \in {"original", "pipe"}
    /\ pipe \in Seq(Piece) /\ Len(pipe) <= Capacity
    /\ writeEnd \in BOOLEAN
    /\ filter \in [at : {"idle", "restored", "joining"}, started : BOOLEAN]
    /\ reader \in [at : {"none", "read", "lines", "ended"}, pending : Seq(Piece)]
    /\ logged \in Seq(Piece) /\ shown \in Seq(Piece)

FilterInit ==
    /\ filterEnv \in FilterScenarios
    /\ target = "original" /\ pipe = <<>> /\ writeEnd = FALSE
    /\ filter = [at |-> "idle", started |-> FALSE]
    /\ reader = [at |-> "none", pending |-> <<>>]
    /\ logged = <<>> /\ shown = <<>>

-----------------------------------------------------------------------------
\* shouldDropLine: both parts of the message are in the line.
ShouldDropLine(line) == Len(line) = 2 /\ line[1].noise

Filtered(line) == IF ShouldDropLine(line) THEN <<>> ELSE line

-----------------------------------------------------------------------------
\* The program writes the first or second half of a line, to where the descriptor
\* leads; a full pipe makes it wait.  While the filter is stopped the program
\* writes only if "late": other threads of it are still there.
WriteLog ==
    /\ filter.at = "idle" \/ "late" \in filterEnv
    /\ LET second == logged # <<>> /\ ~Last(logged).last
       IN \E noise \in IF second THEN {Last(logged).noise} ELSE BOOLEAN :
             LET p == [line |-> (Len(logged) \div 2) + 1, noise |-> noise, last |-> second]
             IN /\ p.line <= MaxLines
                /\ logged' = Append(logged, p)
                /\ IF target = "pipe"
                   THEN Len(pipe) < Capacity /\ pipe' = Append(pipe, p) /\ shown' = shown
                   ELSE shown' = Append(shown, p) /\ pipe' = pipe
    /\ UNCHANGED <<filterEnv, target, writeEnd, filter, reader>>

\* start; "broken": _pipe, _dup or _dup2 fails, and everything is as it was.
StartFilter ==
    /\ filter.at = "idle" /\ ~filter.started /\ reader.at = "none"
    /\ \/ /\ "broken" \in filterEnv
          /\ UNCHANGED <<target, writeEnd, filter, reader>>
       \/ /\ target' = "pipe" /\ writeEnd' = TRUE
          /\ filter' = [filter EXCEPT !.started = TRUE]
          /\ reader' = [reader EXCEPT !.at = "read"]
    /\ UNCHANGED <<filterEnv, pipe, logged, shown>>

\* stop: the descriptor leads to the original again.
StopFilter ==
    /\ filter.at = "idle" /\ filter.started
    /\ target' = "original"
    /\ filter' = [filter EXCEPT !.at = "restored"]
    /\ UNCHANGED <<filterEnv, pipe, writeEnd, reader, logged, shown>>

\* Mutant: the thread is joined, the pipe closed afterwards.
JoinFirst ==
    /\ filter.at = "restored"
    /\ filter' = [filter EXCEPT !.at = "joining"]
    /\ UNCHANGED <<filterEnv, target, pipe, writeEnd, reader, logged, shown>>

\* The pipe is closed for writing.
CloseWriteEnd ==
    /\ filter.at = "restored"
    /\ writeEnd' = FALSE
    /\ filter' = [filter EXCEPT !.at = "joining"]
    /\ UNCHANGED <<filterEnv, target, pipe, reader, logged, shown>>

\* Mutant: the thread is not waited for, what it has not read is lost.
DetachReader ==
    /\ filter.at = "joining"
    /\ filter' = [at |-> "idle", started |-> FALSE]
    /\ reader' = [at |-> "none", pending |-> <<>>]
    /\ pipe' = <<>>
    /\ UNCHANGED <<filterEnv, target, writeEnd, logged, shown>>

\* The thread has ended: what is left of the filter is closed.
JoinReader ==
    /\ filter.at = "joining" /\ reader.at = "ended"
    /\ filter' = [at |-> "idle", started |-> FALSE]
    /\ reader' = [reader EXCEPT !.at = "none"]
    /\ UNCHANGED <<filterEnv, target, pipe, writeEnd, logged, shown>>

\* processLoop: some of the pipe is read.
ReadPipe ==
    /\ reader.at = "read" /\ pipe # <<>>
    /\ \E n \in 1..Len(pipe) :
          /\ reader' = [at |-> "lines", pending |-> reader.pending \o SubSeq(pipe, 1, n)]
          /\ pipe' = SubSeq(pipe, n + 1, Len(pipe))
    /\ UNCHANGED <<filterEnv, target, writeEnd, filter, logged, shown>>

\* A line that is whole goes on, unless it is noise; without one the thread reads again.
NextLine ==
    /\ reader.at = "lines"
    /\ LET ends == {i \in 1..Len(reader.pending) : reader.pending[i].last}
       IN \/ /\ ends = {}
             /\ reader' = [reader EXCEPT !.at = "read"] /\ shown' = shown
          \/ \E end \in ends :
                /\ \A i \in ends : end <= i
                /\ shown' = shown \o Filtered(SubSeq(reader.pending, 1, end))
                /\ reader' = [reader EXCEPT !.pending = SubSeq(@, end + 1, Len(@))]
    /\ UNCHANGED <<filterEnv, target, pipe, writeEnd, filter, logged>>

\* Nothing more can come: the line that was not finished is shown.
PipeEnds ==
    /\ reader.at = "read" /\ pipe = <<>> /\ ~writeEnd /\ target = "original"
    /\ shown' = shown \o Filtered(reader.pending)
    /\ reader' = [at |-> "ended", pending |-> <<>>]
    /\ UNCHANGED <<filterEnv, target, pipe, writeEnd, filter, logged>>

FilterStep == CloseWriteEnd \/ JoinReader \/ ReadPipe \/ NextLine \/ PipeEnds
FilterNext == WriteLog \/ StartFilter \/ StopFilter \/ FilterStep

FilterSpec == FilterInit /\ [][FilterNext]_filterVars
FilterFairSpec == FilterSpec /\ WF_filterVars(FilterStep)

-----------------------------------------------------------------------------
(* Properties. *)

\* The number of a piece in the log.
Position(p) == 2 * p.line - (IF p.last THEN 0 ELSE 1)

IsShown(p) == \E j \in 1..Len(shown) : shown[j] = p

\* Nothing but noise is ever missing, and noise only if it went through the filter
\* whole: once the filter has stopped, and nothing was logged meanwhile, what was
\* logged is what is shown, in its order.
ShownInOrder ==
    "late" \notin filterEnv /\ ~filter.started =>
        /\ \E drop \in SUBSET {logged[k].line : k \in {i \in 1..Len(logged) : logged[i].noise /\ logged[i].last}} :
              \A k \in 1..Len(logged) : IsShown(logged[k]) <=> logged[k].line \notin drop
        /\ \A j \in 1..Len(shown) : \E k \in 1..Len(logged) : shown[j] = logged[k]
        /\ \A i, j \in 1..Len(shown) : i < j => Position(shown[i]) < Position(shown[j])

\* Also with other threads writing while the filter stops, no line that is not noise
\* is lost or shown twice.
NothingLost ==
    ~filter.started =>
        \A k \in 1..Len(logged) : ~logged[k].noise =>
            \E i \in 1..Len(shown) : \A j \in 1..Len(shown) : shown[j] = logged[k] <=> j = i

\* stop returns: the thread comes to the end of the pipe.
FilterStops == filter.at # "idle" ~> filter.at = "idle"

\* The filter takes away noise and nothing else.
FilterSound == ShownInOrder /\ NothingLost
=============================================================================

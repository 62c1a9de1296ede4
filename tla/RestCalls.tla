------------------------------- MODULE RestCalls -------------------------------
(***************************************************************************)
(* Calls of the server's REST interface (client/src/services/ApiClient.cpp)*)
(* with their retries: what a call that is sent up to three times does to  *)
(* the server, and what its caller hears of it.                            *)
(***************************************************************************)
EXTENDS Naturals

CONSTANTS
    Call,               \* calls of one behaviour
    MaxDropped,         \* bound: answers lost of one call
    RestScenarios       \* what the environment may do: sets of "busy", "drop"

ASSUME RestAssumption == MaxDropped \in Nat

MaxRetries == 2         \* kMaxApiRetries

VARIABLES
    restEnv,        \* never changes
    calls,          \* what the client knows of each call
    reply,          \* the QNetworkReply of the call
    effects,        \* how often the server has done what the call asks for
    dropped         \* answers of the call that were lost after it was done

restVars == <<restEnv, calls, reply, effects, dropped>>

\* A read, a call that changes something at the server, an upload (multipart).
CallKind == {"read", "write", "upload"}
Outcome == {"ok", "refused", "busy", "broken"}

RestTypeOK ==
    /\ restEnv \in RestScenarios
    /\ calls \in [Call -> [kind : CallKind, at : {"new", "sent", "backoff", "over"},
                           attempt : 0..MaxRetries, heard : {"nothing", "ok", "failed"}]]
    /\ reply \in [Call -> Outcome \cup {"none"}]
    /\ effects \in [Call -> 0..(MaxRetries + 1)]
    /\ dropped \in [Call -> 0..MaxDropped]

RestInit ==
    /\ restEnv \in RestScenarios
    /\ calls \in [Call -> [kind : CallKind, at : {"new"}, attempt : {0}, heard : {"nothing"}]]
    /\ reply = [c \in Call |-> "none"]
    /\ effects = [c \in Call |-> 0]
    /\ dropped = [c \in Call |-> 0]

-----------------------------------------------------------------------------
\* uploadAttachment does not go through sendObjectRequest.
Retries(kind) == kind # "upload"

\* shouldRetryRequest: 429, 5xx, and a connection that was closed or timed out.
ShouldRetryRequest(outcome) == outcome \in {"busy", "broken"}

\* sendObjectRequest, sendArrayRequest, uploadAttachment.
MakeCall(c) ==
    /\ calls[c].at = "new"
    /\ calls' = [calls EXCEPT ![c].at = "sent"]
    /\ UNCHANGED <<restEnv, reply, effects, dropped>>

\* Mutant: the caller is told at once, and the call sent again all the same.
FinishedTold(c) ==
    LET Again == /\ calls[c].attempt < MaxRetries /\ Retries(calls[c].kind)
                 /\ ShouldRetryRequest(reply[c])
    IN /\ calls[c].at = "sent" /\ reply[c] # "none"
       /\ calls' = [calls EXCEPT ![c].at = IF Again THEN "backoff" ELSE "over",
                                 ![c].heard = IF reply[c] = "ok" THEN "ok" ELSE "failed"]
       /\ reply' = [reply EXCEPT ![c] = "none"]
       /\ UNCHANGED <<restEnv, effects, dropped>>

\* QNetworkReply::finished: the callback, or the timer of the next attempt.
Finished(c) ==
    LET Again == /\ calls[c].attempt < MaxRetries /\ Retries(calls[c].kind)
                 /\ ShouldRetryRequest(reply[c])
    IN /\ calls[c].at = "sent" /\ reply[c] # "none"
       /\ calls' = [calls EXCEPT ![c].at = IF Again THEN "backoff" ELSE "over",
                                 ![c].heard = CASE Again -> @
                                              [] reply[c] = "ok" -> "ok"
                                              [] OTHER -> "failed"]
       /\ reply' = [reply EXCEPT ![c] = "none"]
       /\ UNCHANGED <<restEnv, effects, dropped>>

\* QTimer::singleShot: the next attempt.
Resend(c) ==
    /\ calls[c].at = "backoff"
    /\ calls' = [calls EXCEPT ![c].at = "sent", ![c].attempt = @ + 1]
    /\ UNCHANGED <<restEnv, reply, effects, dropped>>

\* The server does what is asked for, or refuses it, or ("busy") is too busy.
ServerAnswers(c) ==
    /\ calls[c].at = "sent" /\ reply[c] = "none"
    /\ \E outcome \in {"ok", "refused"} \cup (restEnv \cap {"busy"}) :
          /\ reply' = [reply EXCEPT ![c] = outcome]
          /\ effects' = IF outcome = "ok" THEN [effects EXCEPT ![c] = @ + 1] ELSE effects
    /\ UNCHANGED <<restEnv, calls, dropped>>

\* "drop": the connection breaks before the request has come or after it was done;
\* a handler that fails after it has stored what was asked for looks the same.
Break(c) ==
    /\ "drop" \in restEnv
    /\ calls[c].at = "sent" /\ reply[c] \in {"none", "ok"}
    /\ dropped[c] < MaxDropped
    /\ dropped' = [dropped EXCEPT ![c] = @ + (IF reply[c] = "ok" THEN 1 ELSE 0)]
    /\ reply' = [reply EXCEPT ![c] = "broken"]
    /\ UNCHANGED <<restEnv, calls, effects>>

CallStep(c) == Finished(c) \/ Resend(c) \/ ServerAnswers(c)
RestNext == \E c \in Call : MakeCall(c) \/ CallStep(c) \/ Break(c)

RestSpec == RestInit /\ [][RestNext]_restVars
RestFairSpec == RestSpec /\ \A c \in Call : WF_restVars(CallStep(c))

-----------------------------------------------------------------------------
(* Properties. *)

\* The caller can rely on what it hears as long as no answer was lost: a call that
\* succeeded was done once, one that failed was not done.  Each lost answer can
\* make the server do it once more, and no more than that.
DoneAsHeard ==
    \A c \in Call :
        /\ calls[c].heard = "ok" => effects[c] \in 1..(1 + dropped[c])
        /\ calls[c].heard = "failed" => effects[c] <= dropped[c]

\* An attachment is never uploaded twice by one call.
UploadOnce == \A c \in Call : calls[c].kind = "upload" => effects[c] <= 1

\* Every call ends: the caller hears of it.  (If the network answers, or breaks the
\* connection: a call has no timeout of its own.)
CallEnds == \A c \in Call : calls[c].at = "sent" ~> calls[c].heard # "nothing"

\* What a call does to the server is what its caller hears.
RestSound == DoneAsHeard /\ UploadOnce
=============================================================================

--------------------------- MODULE MCVoiceClient ---------------------------
(***************************************************************************)
(* Instances of VoiceClient for TLC.                                       *)
(***************************************************************************)
EXTENDS VoiceClient

\* Everything the user does with the call, then the faults that interact.
MCScenarios == {{"overlap"}, {"talk", "down", "elsewhere"}, {"voices", "devices"},
                {"voices", "fail"}, {"talk", "fail"}, {"fail", "down"},
                {"impatient", "reconnect"}, {"impatient", "late", "elsewhere"}}

\* LiveKit reconnects, and nothing else goes wrong.
MCReconnect == {{"reconnect"}}
=============================================================================

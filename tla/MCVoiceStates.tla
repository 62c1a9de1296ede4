---------------------------- MODULE MCVoiceStates ----------------------------
(***************************************************************************)
(* Instances of VoiceStates for TLC: two voice channels in one guild and   *)
(* one in another, and clients that subscribe to all of them.              *)
(***************************************************************************)
EXTENDS VoiceStates, TLC

CONSTANTS g1, g2, v1, v2, v3

MCGuildOf == [c \in Channel |-> IF c = v3 THEN g2 ELSE g1]
MCAsked == {Channel}

Symmetry == Permutations(Socket) \cup Permutations(Call) \cup Permutations(RowId)
=============================================================================

-------------------------- MODULE MCGatewaySessions --------------------------
(***************************************************************************)
(* Instances of GatewaySessions for TLC: every channel is in guild g1      *)
(* (there may be none).                                                    *)
(***************************************************************************)
EXTENDS GatewaySessions, TLC

CONSTANTS g1

MCGuildOf == [c \in Channel |-> g1]
MCAsked == SUBSET Channel

Symmetry == Permutations(Socket) \cup Permutations(User)
=============================================================================

--------------------------- MODULE MCAuthSessions ---------------------------
(***************************************************************************)
(* Instances of AuthSessions for TLC: every device belongs to one user.    *)
(***************************************************************************)
EXTENDS AuthSessions, TLC

CONSTANTS u1

MCUserOf == [d \in Device |-> u1]

Symmetry == Permutations(Token) \cup Permutations(Call)
=============================================================================

--------------------------- MODULE MCProcessObjects ---------------------------
(* The instance TLC checks: two programs, a few objects.                      *)
EXTENDS ProcessObjects, TLC

CONSTANTS shell, cat

Symmetry == Permutations(Libs)
=============================================================================

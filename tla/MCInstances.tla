----------------------------- MODULE MCInstances -----------------------------
(* The instance TLC checks: two runs of the executable, two other clients.  *)
EXTENDS Instances, TLC

CONSTANTS r1, r2, c1, c2

Symmetry == Permutations(Runs) \cup Permutations(Clients)
=============================================================================

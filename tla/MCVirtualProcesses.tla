------------------------- MODULE MCVirtualProcesses -------------------------
(* The instance TLC checks: a daemon and a few processes, one file.         *)
EXTENDS ProcessRefinement, TLC

CONSTANTS d, p1, p2, p3, tty0, full, f1, f2, sys, bin

MCTtyNames == <<tty0>>
MCNoTty == <<>>

\* The children of the daemon are interchangeable.
Symmetry == Permutations(Posix \ {Daemon})

\* No guard and no property about a state reads last: its values are told
\* apart in the steps that write it, not in the states.
View == <<live, used, reused, image>>
=============================================================================

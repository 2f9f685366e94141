------------------------------- MODULE MCShell -------------------------------
(* The instance TLC checks: every path of a few pieces.                       *)
EXTENDS Shell
=============================================================================

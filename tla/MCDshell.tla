------------------------------- MODULE MCDshell -------------------------------
(* The instance TLC checks: every line of a few characters.                   *)
EXTENDS Dshell
=============================================================================

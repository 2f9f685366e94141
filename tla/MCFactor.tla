------------------------------- MODULE MCFactor ------------------------------
(* The instance TLC checks: every number up to a bound.                       *)
EXTENDS Factor
=============================================================================

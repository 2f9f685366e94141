---------------------------- MODULE MCTcpServer ----------------------------
(* The instance TLC checks: a client that sends up to two lines, and one    *)
(* that sends one.                                                          *)
EXTENDS TcpRefinement

CONSTANTS c1, c2

MCMaxLines == [c \in Clients |-> IF c = c1 THEN 2 ELSE 1]
MCOneLine  == [c \in Clients |-> 1]
=============================================================================

--------------------------- MODULE TcpRefinement ---------------------------
(***************************************************************************)
(* What the clients see of TcpServer: the state of CommandServer.          *)
(***************************************************************************)
EXTENDS TcpServer

TtyClients == {sock[con.fd] : con \in {con \in ToSet(connections) : con.type = "TTY"}}

Seen == INSTANCE CommandServer WITH
  tty <- TtyClients,
  left <- {c \in Clients : closed[c]},
  server <- IF pc = "ended" THEN "ended" ELSE IF stopFlag THEN "stopping" ELSE "serving"

\* Every step of the daemon is, for its clients, a step of CommandServer or
\* none: tcpPoll drops only connections whose clients left, tcpRead starts a
\* shell or stops the server only for a connected client that asked for it.
ImplementsCommandServer == Seen!Spec
=============================================================================

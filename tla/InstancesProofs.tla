--------------------------- MODULE InstancesProofs ---------------------------
(***************************************************************************)
(* The inductive invariant of Instances, and with it: the types, that two  *)
(* daemons never serve, and that a daemon stops only when asked.           *)
(***************************************************************************)
EXTENDS Instances, TLAPS

\* The daemon that is in a phase with the port is the one whose socket is
\* bound; the run whose socket is bound has been started.
PortInv ==
  /\ \A r \in Runs : pc[r] \in PortPhases => bound = r
  /\ bound # None => pc[bound] \in PortPhases \cup {"gone"}

\* Connections lead to the socket that is bound, and the daemon's accepted
\* ones end with it.  No run connects to its own daemon.
ConnInv ==
  /\ \A i \in queue \cup accepted : conn[i] = bound
  /\ bound = None => queue = {} /\ accepted = {}
  /\ bound # None /\ pc[bound] = "gone" => accepted = {}
  /\ \A i \in Runs : conn[i] # i

\* What a connection carries was written by its peer, and no run writes before
\* it has connected.
SaidInv ==
  /\ \A i \in Peers : data[i] = "stop" => "stop" \in said[i]
  /\ \A i \in Runs : pc[i] = "connect" => said[i] = {}

\* A daemon that stops has been sent a stop.
RequestInv ==
  \A r \in Runs : pc[r] \in {"stopping", "closing"} =>
    \E i \in Peers : conn[i] = r /\ "stop" \in said[i]

Inv == TypeOK /\ PortInv /\ ConnInv /\ SaidInv /\ RequestInv

LEMMA InitInv == ASSUME Init PROVE Inv
<1>. USE InstancesAssumption DEF Init, Peers
<1>1. TypeOK
  <2>1. /\ cmd \in [Runs -> {"start", "stop", "restart"}] /\ conn \in [Peers -> Runs \cup {None}]
        /\ said \in [Peers -> SUBSET Commands]
    OBVIOUS
  <2>2. \A i \in Runs : pc[i] = "connect"
    OBVIOUS
  <2>3. pc \in [Runs -> InvocationPhases \cup DaemonPhases]
    BY DEF InvocationPhases
  <2>4. /\ status \in [Runs -> {"none", "ok", "error"}]
        /\ data \in [Peers -> Commands \cup {"nothing"}]
    OBVIOUS
  <2>. QED
    BY <2>1, <2>2, <2>3, <2>4 DEF TypeOK, DaemonPhases
<1>2. PortInv /\ SaidInv /\ RequestInv
  BY DEF PortInv, PortPhases, SaidInv, RequestInv
<1>3. ConnInv
  BY DEF ConnInv
<1>. QED
  BY <1>1, <1>2, <1>3 DEF Inv

-----------------------------------------------------------------------------
(* The connections.                                                        *)

\* A new connection leads to another run's daemon, and has carried nothing.
LEMMA ConnectsInv ==
  ASSUME Inv, NEW i \in Peers, Connects(i),
         \/ i \in Runs /\ pc[i] = "connect" /\ Goes(i, "connected")
         \/ i \in Clients /\ conn[i] = None /\ UNCHANGED pc,
         UNCHANGED <<cmd, status>>
  PROVE  Inv'
<1>. USE InstancesAssumption DEF Connects, Goes, Inv, Peers
<1>1. TypeOK'
  BY DEF TypeOK, InvocationPhases, DaemonPhases
<1>2. PortInv'
  BY DEF TypeOK, PortInv, InvocationPhases, PortPhases
<1>3. ConnInv'
  BY DEF TypeOK, PortInv, ConnInv, Listening, InvocationPhases, PortPhases
<1>4. SaidInv'
  BY DEF TypeOK, SaidInv, InvocationPhases
<1>5. RequestInv'
  <2>1. ASSUME NEW r \in Runs, pc'[r] \in {"stopping", "closing"}
        PROVE  \E j \in Peers : conn'[j] = r /\ "stop" \in said'[j]
    <3>1. pc[r] \in {"stopping", "closing"}
      BY <2>1 DEF TypeOK
    <3>2. PICK j \in Peers : conn[j] = r /\ "stop" \in said[j]
      BY <3>1 DEF RequestInv
    <3>3. j # i
      BY <3>2 DEF SaidInv, TypeOK
    <3>. QED
      BY <3>2, <3>3 DEF TypeOK
  <2>. QED
    BY <2>1 DEF RequestInv
<1>. QED
  BY <1>1, <1>2, <1>3, <1>4, <1>5

\* A run that has nothing to do with the port goes on, and may write.
LEMMA LocalInv ==
  ASSUME Inv, NEW i \in Runs, NEW phase \in {"fork", "boot", "gone"},
         pc[i] \in {"connect", "connected", "fork"},
         Goes(i, phase), phase # "gone" => cmd[i] # "stop",
         status' \in [Runs -> {"none", "ok", "error"}],
         UNCHANGED <<said, data>> \/ \E line \in Commands : Writes(i, line),
         left' \subseteq Peers, UNCHANGED <<cmd, conn, kernel>>
  PROVE  Inv'
<1>. USE InstancesAssumption DEF Goes, Inv, kernel, Peers
<1>1. TypeOK'
  <2>1. data' \in [Peers -> Commands \cup {"nothing"}] /\ said' \in [Peers -> SUBSET Commands]
    BY DEF TypeOK, Writes
  <2>2. pc' \in [Runs -> InvocationPhases \cup DaemonPhases]
    BY DEF TypeOK, InvocationPhases, DaemonPhases
  <2>. QED
    BY <2>1, <2>2 DEF TypeOK, DaemonPhases
<1>2. PortInv'
  BY DEF TypeOK, PortInv, InvocationPhases, DaemonPhases, PortPhases
<1>3. ConnInv'
  BY DEF TypeOK, PortInv, ConnInv, PortPhases
<1>4. SaidInv'
  BY DEF TypeOK, SaidInv, Writes
<1>5. RequestInv'
  BY DEF TypeOK, RequestInv, Writes
<1>. QED
  BY <1>1, <1>2, <1>3, <1>4, <1>5

LEMMA InvocationInv == ASSUME Inv, NEW i \in Runs, Invocation(i) PROVE Inv'
<1>. USE DEF Inv, Exits, TypeOK, wires
<1>0. i \in Peers
  BY DEF Peers
<1>1. CASE Connect(i)
  BY <1>0, <1>1, ConnectsInv DEF Connect
<1>2. CASE ConnectFails(i)
  BY <1>2, LocalInv DEF ConnectFails
<1>3. CASE AlreadyRunning(i)
  BY <1>0, <1>3, LocalInv DEF AlreadyRunning
<1>4. CASE Tell(i)
  <2>1. /\ Writes(i, "stop") /\ "stop" \in Commands /\ cmd[i] # "start" /\ left' \subseteq Peers
        /\ pc[i] = "connected" /\ UNCHANGED <<cmd, conn, kernel>>
    BY <1>0, <1>4 DEF Tell, Writes, Commands
  <2>2. CASE cmd[i] = "restart"
    BY <1>4, <2>1, <2>2, LocalInv DEF Tell
  <2>3. CASE cmd[i] # "restart"
    <3>1. Goes(i, "gone") /\ status' \in [Runs -> {"none", "ok", "error"}]
      BY <1>4, <2>3 DEF Tell
    <3>. QED
      BY <2>1, <3>1, LocalInv
  <2>. QED
    BY <2>2, <2>3
<1>5. CASE StartDaemon(i)
  BY <1>5, LocalInv DEF StartDaemon, DaemonPhases
<1>. QED
  BY <1>1, <1>2, <1>3, <1>4, <1>5 DEF Invocation

-----------------------------------------------------------------------------
(* The daemon.                                                             *)

LEMMA EndsInv ==
  ASSUME Inv, NEW r \in Runs, pc[r] \in DaemonPhases, Ends(r)
  PROVE  Inv'
<1>. USE InstancesAssumption DEF Ends, Goes, Inv, Released, wires, Peers
<1>1. TypeOK'
  BY DEF TypeOK, InvocationPhases, DaemonPhases
<1>2. PortInv'
  BY DEF TypeOK, PortInv, InvocationPhases, DaemonPhases, PortPhases
<1>3. ConnInv'
  BY DEF TypeOK, PortInv, ConnInv, DaemonPhases, PortPhases
<1>4. SaidInv'
  BY DEF TypeOK, SaidInv
<1>5. RequestInv'
  BY DEF TypeOK, RequestInv, PortInv, PortPhases
<1>. QED
  BY <1>1, <1>2, <1>3, <1>4, <1>5

\* A step from one phase of the daemon to the next that leaves the kernel
\* alone, and needs no port.
LEMMA PhaseInv ==
  ASSUME Inv, NEW r \in Runs,
         \/ pc[r] = "boot" /\ Goes(r, "bind")
         \/ pc[r] = "listen" /\ Goes(r, "serve"),
         UNCHANGED <<cmd, status, wires, kernel>>
  PROVE  Inv'
<1>. USE InstancesAssumption DEF Goes, Inv, kernel, wires
<1>1. TypeOK'
  BY DEF TypeOK, InvocationPhases, DaemonPhases
<1>2. PortInv'
  BY DEF TypeOK, PortInv, InvocationPhases, DaemonPhases, PortPhases
<1>3. ConnInv'
  BY DEF TypeOK, PortInv, ConnInv, PortPhases
<1>4. SaidInv' /\ RequestInv'
  BY DEF TypeOK, SaidInv, RequestInv
<1>. QED
  BY <1>1, <1>2, <1>3, <1>4

LEMMA BindInv == ASSUME Inv, NEW r \in Runs, Bind(r) PROVE Inv'
<1>1. CASE Ends(r)
  BY <1>1, EndsInv DEF Bind, DaemonPhases
<1>2. CASE ~Ends(r)
  <2>. USE <1>2, InstancesAssumption DEF Bind, Goes, Inv, wires
  <2>1. TypeOK'
    BY DEF TypeOK, InvocationPhases, DaemonPhases
  <2>2. PortInv'
    BY DEF TypeOK, PortInv, InvocationPhases, DaemonPhases, PortPhases
  <2>3. ConnInv'
    BY DEF TypeOK, PortInv, ConnInv, PortPhases
  <2>4. SaidInv' /\ RequestInv'
    BY DEF TypeOK, SaidInv, RequestInv
  <2>. QED
    BY <2>1, <2>2, <2>3, <2>4
<1>. QED
  BY <1>1, <1>2

LEMMA AcceptInv == ASSUME Inv, NEW r \in Runs, Accept(r) \/ Drop(r) PROVE Inv'
<1>. USE DEF Accept, Drop, Visits, Inv, runs, wires
<1>1. TypeOK' /\ PortInv' /\ SaidInv'
  BY DEF TypeOK, PortInv, SaidInv, Silent
<1>2. bound = r
  BY DEF PortInv, PortPhases
<1>3. ConnInv'
  BY <1>2 DEF TypeOK, PortInv, ConnInv
<1>4. RequestInv'
  BY DEF TypeOK, RequestInv
<1>. QED
  BY <1>1, <1>3, <1>4

LEMMA ReadStopInv == ASSUME Inv, NEW r \in Runs, ReadStop(r) PROVE Inv'
<1>. USE DEF ReadStop, Goes, Inv
<1>1. PICK i \in accepted : Reads(r, i, "stop")
  OBVIOUS
<1>. USE DEF Reads, Visits
<1>2. TypeOK'
  BY <1>1 DEF TypeOK, InvocationPhases, DaemonPhases
<1>3. PortInv'
  BY <1>1 DEF TypeOK, PortInv, PortPhases
<1>4. bound = r
  BY <1>1 DEF PortInv, PortPhases
<1>5. ConnInv'
  BY <1>1, <1>4 DEF TypeOK, ConnInv
<1>6. SaidInv'
  BY <1>1 DEF TypeOK, SaidInv
<1>7. RequestInv'
  <2>1. i \in Peers /\ conn'[i] = r /\ "stop" \in said'[i]
    BY <1>1, <1>4 DEF TypeOK, ConnInv, SaidInv
  <2>2. \A s \in Runs : pc'[s] \in {"stopping", "closing"} => s = r
    BY <1>3, <1>1, <1>4 DEF PortInv, PortPhases
  <2>. QED
    BY <2>1, <2>2 DEF RequestInv
<1>. QED
  BY <1>2, <1>3, <1>5, <1>6, <1>7

LEMMA ReadTtyInv == ASSUME Inv, NEW r \in Runs, ReadTty(r) PROVE Inv'
<1>. USE DEF ReadTty, Inv, Peers
<1>1. PICK i \in Clients : Reads(r, i, "tty") /\ shells' \in {shells, shells \cup {i}}
  OBVIOUS
<1>. USE DEF Reads, Visits
<1>2. TypeOK'
  BY <1>1 DEF TypeOK
<1>3. PortInv' /\ ConnInv' /\ SaidInv' /\ RequestInv'
  BY <1>1 DEF TypeOK, PortInv, ConnInv, SaidInv, RequestInv
<1>. QED
  BY <1>2, <1>3

LEMMA TcpCloseInv == ASSUME Inv, NEW r \in Runs, TcpClose(r) PROVE Inv'
<1>. USE DEF TcpClose, Goes, Inv, wires
<1>1. TypeOK'
  BY DEF TypeOK, InvocationPhases, DaemonPhases
<1>2. PortInv'
  BY DEF TypeOK, PortInv, PortPhases
<1>3. ConnInv'
  BY DEF TypeOK, PortInv, PortPhases, ConnInv
<1>4. SaidInv' /\ RequestInv'
  BY DEF TypeOK, SaidInv, RequestInv
<1>. QED
  BY <1>1, <1>2, <1>3, <1>4

LEMMA DaemonInv == ASSUME Inv, NEW r \in Runs, Daemon(r) PROVE Inv'
<1>1. CASE Boot(r)
  BY <1>1, EndsInv, PhaseInv DEF Boot, DaemonPhases
<1>2. CASE Bind(r)
  BY <1>2, BindInv
<1>3. CASE Listen(r)
  BY <1>3, EndsInv, PhaseInv DEF Listen, DaemonPhases
<1>4. CASE Accept(r) \/ Drop(r)
  BY <1>4, AcceptInv
<1>5. CASE ReadStop(r)
  BY <1>5, ReadStopInv
<1>6. CASE ReadTty(r)
  BY <1>6, ReadTtyInv
<1>7. CASE TcpClose(r)
  BY <1>7, TcpCloseInv
<1>8. CASE Exit(r)
  BY <1>8, EndsInv DEF Exit, DaemonPhases
<1>. QED
  BY <1>1, <1>2, <1>3, <1>4, <1>5, <1>6, <1>7, <1>8 DEF Daemon

-----------------------------------------------------------------------------
(* Clients, shells and the kernel.                                         *)

\* Nothing but what a connection carries changes, or who left.
LEMMA WireInv ==
  ASSUME Inv, NEW c \in Clients, ClientWrites(c) \/ ClientLeaves(c) \/ ShellReads(c)
  PROVE  Inv'
<1>. USE DEF ClientWrites, Writes, ClientLeaves, ShellReads, Inv, Peers, runs, kernel
<1>1. TypeOK'
  BY DEF TypeOK, Commands
<1>2. PortInv' /\ ConnInv'
  BY DEF TypeOK, PortInv, ConnInv
<1>3. SaidInv'
  BY InstancesAssumption DEF TypeOK, SaidInv
<1>4. RequestInv'
  BY DEF TypeOK, RequestInv
<1>. QED
  BY <1>1, <1>2, <1>3, <1>4

LEMMA ShellEndsInv == ASSUME Inv, NEW c \in Clients, ShellEnds(c) PROVE Inv'
<1>. USE InstancesAssumption DEF ShellEnds, Released, Inv, runs, wires
<1>1. TypeOK'
  BY DEF TypeOK
<1>2. PortInv'
  BY DEF TypeOK, PortInv, PortPhases
<1>3. ConnInv'
  BY DEF TypeOK, PortInv, ConnInv
<1>4. SaidInv' /\ RequestInv'
  BY DEF TypeOK, SaidInv, RequestInv
<1>. QED
  BY <1>1, <1>2, <1>3, <1>4

LEMMA ClientInv == ASSUME Inv, NEW c \in Clients, Client(c) PROVE Inv'
<1>1. CASE ClientConnects(c)
  BY <1>1, ConnectsInv DEF ClientConnects, Peers, runs
<1>2. CASE ~ClientConnects(c)
  BY <1>2, WireInv, ShellEndsInv DEF Client
<1>. QED
  BY <1>1, <1>2

LEMMA ExpireInv == ASSUME Inv, Expire \/ UNCHANGED vars PROVE Inv'
<1>1. /\ UNCHANGED <<runs, wires, bound, queue, accepted, shells, stuck>>
      /\ lingers' \in {lingers, FALSE}
  BY DEF Expire, vars, kernel
<1>. USE <1>1 DEF Inv, runs, wires
<1>2. TypeOK'
  BY DEF TypeOK
<1>3. PortInv' /\ ConnInv' /\ SaidInv' /\ RequestInv'
  BY DEF PortInv, ConnInv, SaidInv, RequestInv
<1>. QED
  BY <1>2, <1>3

LEMMA NextInv == ASSUME Inv, [Next]_vars PROVE Inv'
<1>1. ASSUME NEW i \in Runs, Invocation(i) \/ Daemon(i) \/ Killed(i)
      PROVE  Inv'
  BY <1>1, InvocationInv, DaemonInv, EndsInv DEF Killed
<1>. QED
  BY <1>1, ClientInv, ExpireInv DEF Next

-----------------------------------------------------------------------------
(* The theorems.                                                           *)

LEMMA SpecInv == Spec => []Inv
BY InitInv, NextInv, PTL DEF Spec

\* The variables keep their types, and a run told to stop never becomes a
\* daemon (main.cpp:29-55).
THEOREM InstancesTypeCorrect == Spec => []TypeOK
<1>1. Inv => TypeOK
  BY DEF Inv
<1>. QED
  BY <1>1, SpecInv, PTL

\* For any number of runs and clients at a time, two daemons never serve
\* (server.cpp:393).
THEOREM AlwaysOneServes == Spec => []OneServes
<1>1. Inv => OneServes
  BY DEF Inv, PortInv, OneServes
<1>. QED
  BY <1>1, SpecInv, PTL

\* A daemon stops only for a stop that some other run or client sent to it, over
\* a connection it may have dropped since (server.cpp:153, 437-470, 554).
THEOREM StopsOnRequestAlways == Spec => []StoppedOnRequest
<1>1. Inv => StoppedOnRequest
  BY DEF Inv, ConnInv, RequestInv, StoppedOnRequest, TypeOK, Peers
<1>. QED
  BY <1>1, SpecInv, PTL
=============================================================================

------------------------------ MODULE Instances ------------------------------
(***************************************************************************)
(* Starting, stopping and restarting the server (main.cpp) against one TCP *)
(* port.                                                                   *)
(*                                                                         *)
(* A run of the executable connects to the port, may send "stop", and may  *)
(* become a daemon, which boots, binds the port, serves it, and ends when  *)
(* it reads a stop.  Any other client of the port may send a stop as well, *)
(* or ask for a shell.  A shell is forked from the daemon, so it holds the *)
(* listening socket too: while one lives the port stays taken, and         *)
(* connections to it succeed with nobody to accept them.  It also reads    *)
(* its client's connection, which can leave the daemon blocked in a read.  *)
(*                                                                         *)
(* At most one socket is bound to the port at a time, so its queue and the *)
(* connections accepted from it need no index.  The order in which a poll  *)
(* visits the connections is in TcpServer; here it reads any of them.      *)
(***************************************************************************)
EXTENDS Naturals, FiniteSets

CONSTANTS
  Runs,       \* runs of the executable
  Clients,    \* other clients of the port
  Backlog,    \* argument of listen(2), 5 in the code
  None        \* no run, no client

ASSUME InstancesAssumption ==
  /\ None \notin Runs \cup Clients
  /\ Runs \cap Clients = {}
  /\ Backlog \in Nat

Peers == Runs \cup Clients

VARIABLES
  cmd,       \* what each run was told to do
  pc,        \* where each run is, as an invocation and then as a daemon
  status,    \* the exit status its user sees, or "none" yet
  conn,      \* the run to whose socket each peer connected, or None
  said,      \* history: the commands each peer wrote
  data,      \* the command on its connection that nobody has read
  left,      \* the peers that closed their connection
  bound,     \* the run whose socket is bound to the port, or None
  queue,     \* connections to that socket which were not accepted
  accepted,  \* connections its daemon accepted and did not drop
  shells,    \* the clients that have a shell, each holding that socket
  stuck,     \* the connection its daemon is blocked on in read(2), or None
  lingers    \* connections of an ended daemon still occupy the port

runs == <<cmd, pc, status>>
wires == <<conn, said, data, left>>
kernel == <<bound, queue, accepted, shells, stuck, lingers>>
vars == <<runs, wires, kernel>>

Commands == {"tty", "stop"}

InvocationPhases == {"connect", "connected", "gone"}
DaemonPhases == {"fork", "boot", "bind", "listen", "serve", "stopping", "closing"}

\* The phases in which a daemon has the port.
PortPhases == {"listen", "serve", "stopping", "closing"}

\* Only a run told to start something becomes a daemon.
TypeOK ==
  /\ cmd \in [Runs -> {"start", "stop", "restart"}]
  /\ pc \in [Runs -> InvocationPhases \cup DaemonPhases]
  /\ \A i \in Runs : pc[i] \in DaemonPhases => cmd[i] # "stop"
  /\ status \in [Runs -> {"none", "ok", "error"}]
  /\ conn \in [Peers -> Runs \cup {None}]
  /\ said \in [Peers -> SUBSET Commands]
  /\ data \in [Peers -> Commands \cup {"nothing"}]
  /\ left \subseteq Peers
  /\ bound \in Runs \cup {None}
  /\ queue \subseteq Peers /\ accepted \subseteq Peers
  /\ shells \subseteq Clients
  /\ stuck \in Peers \cup {None}
  /\ lingers \in BOOLEAN

Init ==
  /\ cmd \in [Runs -> {"start", "stop", "restart"}]
  /\ pc = [i \in Runs |-> "connect"]
  /\ status = [i \in Runs |-> "none"]
  /\ conn = [i \in Peers |-> None]
  /\ said = [i \in Peers |-> {}]
  /\ data = [i \in Peers |-> "nothing"]
  /\ left = {}
  /\ bound = None /\ queue = {} /\ accepted = {} /\ shells = {}
  /\ stuck = None /\ lingers = FALSE

Goes(i, phase) == pc' = [pc EXCEPT ![i] = phase]

Exits(i, code) == Goes(i, "gone") /\ status' = [status EXCEPT ![i] = code]

-----------------------------------------------------------------------------
(* The connections.                                                        *)

\* The kernel completes connections to the port: the socket listens, and the
\* daemon or a shell still holds it.
Listening ==
  /\ bound # None
  /\ pc[bound] \in {"serve", "stopping"} \/ shells # {}

\* The kernel takes one connection more than the backlog says.
QueueFull == Cardinality(queue) > Backlog

\* connect(2) by peer i succeeds, whether or not anybody is going to accept.
Connects(i) ==
  /\ Listening /\ ~QueueFull
  /\ conn' = [conn EXCEPT ![i] = bound]
  /\ queue' = queue \cup {i}
  /\ UNCHANGED <<said, data, left, bound, accepted, shells, stuck, lingers>>

\* Peer i writes a command line.
Writes(i, line) ==
  /\ said' = [said EXCEPT ![i] = @ \cup {line}]
  /\ data' = [data EXCEPT ![i] = line]
  /\ UNCHANGED <<conn, kernel>>

-----------------------------------------------------------------------------
(* The invocation.                                                         *)

Connect(i) ==
  /\ pc[i] = "connect"
  /\ Connects(i)
  /\ Goes(i, "connected")
  /\ UNCHANGED <<cmd, status>>

\* It is refused, or times out on a full queue: nothing to stop, or free to
\* start.
ConnectFails(i) ==
  /\ pc[i] = "connect"
  /\ ~Listening \/ QueueFull
  /\ IF cmd[i] = "start" THEN Goes(i, "fork") /\ UNCHANGED status ELSE Exits(i, "error")
  /\ UNCHANGED <<cmd, wires, kernel>>

\* Told to start, but something answered the port.
AlreadyRunning(i) ==
  /\ pc[i] = "connected" /\ cmd[i] = "start"
  /\ Exits(i, "error")
  /\ left' = left \cup {i}
  /\ UNCHANGED <<cmd, conn, said, data, kernel>>

\* Fault: the second comparison with argv[1] is missing.
TellAndStart(i) ==
  /\ pc[i] = "connected" /\ cmd[i] # "start"
  /\ Writes(i, "stop")
  /\ left' = left \cup {i}
  /\ Goes(i, "fork")
  /\ UNCHANGED <<cmd, status>>

\* "stop\n" is written and the connection closed, unchecked; a restart goes on
\* at once.
Tell(i) ==
  /\ pc[i] = "connected" /\ cmd[i] # "start"
  /\ Writes(i, "stop")
  /\ left' = left \cup {i}
  /\ IF cmd[i] = "restart" THEN Goes(i, "fork") /\ UNCHANGED status ELSE Exits(i, "ok")
  /\ UNCHANGED cmd

\* Fault: restart waits for the port first, as the TODO of main.cpp:40 asks for.
StartDaemonWhenFree(i) ==
  /\ pc[i] = "fork" /\ bound = None
  /\ Goes(i, "boot") /\ status' = [status EXCEPT ![i] = "ok"]
  /\ UNCHANGED <<cmd, wires, kernel>>

\* startDaemon.  The user sees success once the first fork(2) has worked, even
\* if setsid or the second fork then fails.
StartDaemon(i) ==
  /\ pc[i] = "fork"
  /\ \/ Goes(i, "boot") /\ status' = [status EXCEPT ![i] = "ok"]
     \/ \E code \in {"ok", "error"} : Exits(i, code)
  /\ UNCHANGED <<cmd, wires, kernel>>

-----------------------------------------------------------------------------
(* The daemon.                                                             *)

\* The last process that holds the socket of bound is gone.  Connections of
\* which the other side is still open make the port linger.
Released ==
  /\ bound' = None /\ queue' = {} /\ accepted' = {}
  /\ lingers' \in BOOLEAN

\* The process of daemon r ends, and closes all it holds.
Ends(r) ==
  /\ Goes(r, "gone")
  /\ IF bound = r /\ shells = {} THEN Released
     ELSE /\ accepted' = IF bound = r THEN {} ELSE accepted
          /\ UNCHANGED <<bound, queue, lingers>>
  /\ stuck' = IF bound = r THEN None ELSE stuck
  /\ UNCHANGED <<cmd, status, wires, shells>>

\* The container is mounted, and init loaded, added and run: before the port
\* is known to be free.
Boot(r) ==
  /\ pc[r] = "boot"
  /\ \/ Goes(r, "bind") /\ UNCHANGED <<cmd, status, wires, kernel>>
     \/ Ends(r)

\* Fault: tcpListen does not look at what bind(2) returns, and then listens on
\* some other port.
BindUnchecked(r) ==
  /\ pc[r] = "bind"
  /\ Goes(r, "listen")
  /\ bound' = IF bound = None /\ ~lingers THEN r ELSE bound
  /\ UNCHANGED <<cmd, status, wires, queue, accepted, shells, stuck, lingers>>

\* tcpListen up to bind(2), which needs a port that nothing occupies.
Bind(r) ==
  /\ pc[r] = "bind"
  /\ \/ /\ bound = None /\ ~lingers
        /\ Goes(r, "listen")
        /\ bound' = r
        /\ UNCHANGED <<cmd, status, wires, queue, accepted, shells, stuck, lingers>>
     \/ Ends(r)

\* listen(2); run returns false if it fails.
Listen(r) ==
  /\ pc[r] = "listen"
  /\ \/ Goes(r, "serve") /\ UNCHANGED <<cmd, status, wires, kernel>>
     \/ Ends(r)

\* tcpPoll takes a connection from the queue.
Accept(r) ==
  /\ pc[r] = "serve" /\ stuck = None
  /\ \E i \in queue : queue' = queue \ {i} /\ accepted' = accepted \cup {i}
  /\ UNCHANGED <<runs, wires, bound, shells, stuck, lingers>>

\* The loop over the connections has come to i, which select(2) reported; the
\* poll in which a stop is read goes on to its end.
Visits(r, i) ==
  /\ pc[r] \in {"serve", "stopping"}
  /\ i \in accepted
  /\ stuck \in {None, i}

\* The connections a read(2) would wait for although they were readable when
\* the poll began.
Silent == {i \in accepted : said[i] # {} /\ data[i] = "nothing" /\ i \notin left}

\* Fault: the end of a connection is taken for a stop.
DropStops(r) ==
  /\ \E i \in accepted :
       /\ Visits(r, i) /\ data[i] = "nothing" /\ i \in left
       /\ accepted' = accepted \ {i}
  /\ Goes(r, "stopping")
  /\ stuck' = None
  /\ UNCHANGED <<cmd, status, wires, bound, queue, shells, lingers>>

\* tcpPoll drops a connection that was closed.  Behind the last one the loop
\* starts again, over connections it has read already.
Drop(r) ==
  /\ \E i \in accepted :
       /\ Visits(r, i) /\ data[i] = "nothing" /\ i \in left
       /\ accepted' = accepted \ {i}
  /\ stuck' \in {None} \cup Silent
  /\ UNCHANGED <<runs, wires, bound, queue, shells, lingers>>

\* tcpRead gets the command on connection i.
Reads(r, i, line) ==
  /\ Visits(r, i) /\ data[i] = line
  /\ data' = [data EXCEPT ![i] = "nothing"]
  /\ stuck' = None
  /\ UNCHANGED <<cmd, status, conn, said, left, bound, queue, accepted, lingers>>

\* Fault: stop() only logs the request.
ReadStopForgotten(r) ==
  /\ \E i \in accepted : Reads(r, i, "stop")
  /\ UNCHANGED <<pc, shells>>

\* tcpRead finds the command "stop", whoever sent it, and stop() sets stopFlag.
ReadStop(r) ==
  /\ \E i \in accepted : Reads(r, i, "stop")
  /\ Goes(r, "stopping")
  /\ UNCHANGED shells

\* tcpRead finds "type tty": the client gets a shell, which inherits the
\* listening socket, unless a step of that fails.
ReadTty(r) ==
  /\ \E i \in Clients :
       /\ Reads(r, i, "tty")
       /\ shells' \in {shells, shells \cup {i}}
  /\ UNCHANGED pc

\* The loop ends and tcpClose closes the daemon's copy of the socket, which
\* resets the queue if it was the last; accepted connections stay open.
TcpClose(r) ==
  /\ pc[r] = "stopping" /\ stuck = None
  /\ Goes(r, "closing")
  /\ queue' = IF shells = {} THEN {} ELSE queue
  /\ UNCHANGED <<cmd, status, wires, bound, accepted, shells, stuck, lingers>>

Exit(r) == pc[r] = "closing" /\ Ends(r)

\* A signal ends the daemon.
Killed(r) == pc[r] \in DaemonPhases \ {"fork"} /\ Ends(r)

-----------------------------------------------------------------------------
(* The rest of the system.                                                 *)

ClientConnects(c) ==
  /\ conn[c] = None
  /\ Connects(c)
  /\ UNCHANGED runs

\* A client writes each command once, after the one before was read.
ClientWrites(c) ==
  /\ c \in queue \cup accepted \cup shells
  /\ c \notin left /\ data[c] = "nothing"
  /\ \E line \in Commands \ said[c] : Writes(c, line)
  /\ UNCHANGED <<runs, left>>

ClientLeaves(c) ==
  /\ conn[c] # None /\ c \notin left
  /\ left' = left \cup {c}
  /\ UNCHANGED <<runs, conn, said, data, kernel>>

\* The shell takes what its client typed.  The daemon that saw it in select(2)
\* before is then blocked in read(2).
ShellReads(c) ==
  /\ c \in shells /\ data[c] # "nothing"
  /\ data' = [data EXCEPT ![c] = "nothing"]
  /\ \/ /\ c \in accepted \ left /\ stuck = None
        /\ pc[bound] \in {"serve", "stopping"}
        /\ stuck' = c
     \/ UNCHANGED stuck
  /\ UNCHANGED <<runs, conn, said, left, bound, queue, accepted, shells, lingers>>

\* The shell ends; it may have been the last to hold the socket.
ShellEnds(c) ==
  /\ c \in shells
  /\ shells' = shells \ {c}
  /\ IF shells = {c} /\ pc[bound] = "gone"
     THEN Released
     ELSE /\ queue' = IF shells = {c} /\ pc[bound] = "closing" THEN {} ELSE queue
          /\ UNCHANGED <<bound, accepted, lingers>>
  /\ UNCHANGED <<runs, wires, stuck>>

Client(c) ==
  \/ ClientConnects(c) \/ ClientWrites(c) \/ ClientLeaves(c)
  \/ ShellReads(c) \/ ShellEnds(c)

\* The kernel gives the port back.
Expire ==
  /\ lingers
  /\ lingers' = FALSE
  /\ UNCHANGED <<runs, wires, bound, queue, accepted, shells, stuck>>

Invocation(i) ==
  Connect(i) \/ ConnectFails(i) \/ AlreadyRunning(i) \/ Tell(i) \/ StartDaemon(i)

Daemon(r) ==
  \/ Boot(r) \/ Bind(r) \/ Listen(r) \/ Accept(r) \/ Drop(r) \/ ReadStop(r)
  \/ ReadTty(r) \/ TcpClose(r) \/ Exit(r)

Next ==
  \/ \E i \in Runs : Invocation(i) \/ Daemon(i) \/ Killed(i)
  \/ \E c \in Clients : Client(c)
  \/ Expire

Spec == Init /\ [][Next]_vars

\* The operating system schedules every run; nothing is known of clients and of
\* shells.  A daemon that is blocked in a read has no step to take.
FairSpec == Spec /\ \A i \in Runs : WF_vars(Invocation(i)) /\ WF_vars(Daemon(i))

-----------------------------------------------------------------------------
(* Properties.                                                             *)

\* Never do two daemons serve, however many are started and restarted at a
\* time and although restart does not wait for the old one (main.cpp:40): the
\* one that has the port is alone until its process ends.
OneServes ==
  \A r, s \in Runs : pc[r] \in PortPhases /\ pc[s] \in PortPhases => r = s

\* A daemon stops only for a stop sent to it, by a run or by any other client
\* (server.cpp:554 asks for no permission): never for its own connection, for
\* one that only found the port taken, or for a stop meant for the daemon before.
StoppedOnRequest ==
  \A r \in Runs : pc[r] \in {"stopping", "closing"} =>
    \E i \in Peers \ {r} : conn[i] = r /\ "stop" \in said[i]

\* A stop that has reached the serving daemon, even only its queue, ends it, if
\* no shell can take it and the daemon does not stay blocked in a read.
StopEnds ==
  []<>(stuck = None) =>
    \A r \in Runs :
      (pc[r] = "serve" /\ \E i \in (queue \cup accepted) \ shells : data[i] = "stop")
        ~> pc[r] = "gone"

\* The command line always comes back to the user: no run waits for another.
InvocationsEnd == \A i \in Runs : <>(status[i] # "none")

-----------------------------------------------------------------------------
(* What a comment promises and the code does not keep.                     *)

\* main.cpp:22 takes a connection that succeeds for a running instance; then
\* there should be one, whatever shells were left behind.
RunningMeansServed ==
  [][\A i \in Runs : Connect(i) => \E r \in Runs : pc[r] \in DaemonPhases]_vars
=============================================================================

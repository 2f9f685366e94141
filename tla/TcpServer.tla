----------------------------- MODULE TcpServer -----------------------------
(***************************************************************************)
(* The daemon's main loop and its clients.                                 *)
(*                                                                         *)
(* Server::run calls tcpPoll until stopFlag is set.  A poll takes one      *)
(* snapshot of the readable descriptors with select, accepts at most one   *)
(* connection and then walks the list of connections, reading from those   *)
(* in the snapshot.  Clients, and the shells that share their sockets, go  *)
(* on in between, so each system call of the loop is a step of its own.    *)
(* The sockets are blocking: a read that finds neither data nor the end of *)
(* the stream is a step that is not enabled.                               *)
(*                                                                         *)
(* A line is what a client writes at once.  It may arrive in two pieces,   *)
(* and TCP keeps no boundary between pieces.  Lines are such that no proper *)
(* part of one, and no two joined, read as a command.                      *)
(*                                                                         *)
(* An operator whose comment begins with "Fault:" is a plausible slip in   *)
(* the one after it, not part of the code modelled.                        *)
(***************************************************************************)
EXTENDS Integers, SequencesExt

CONSTANTS
  Clients,   \* TCP connections, named by their client's end
  Fds,       \* descriptor numbers accept(2) can return
  Listen,    \* the number of the listening socket, tcpSockFd
  None,      \* no client, no line
  Backlog,   \* bound on the connections not yet accepted (5 in the code)
  MaxTtys,   \* names for ttys (1024 in the code)
  MaxLines   \* bound on the lines each client sends

ASSUME TcpAssumption ==
  /\ Fds \subseteq Nat /\ Listen \notin Fds
  /\ None \notin Clients
  /\ {Backlog, MaxTtys} \subseteq Nat /\ MaxLines \in [Clients -> Nat]

VARIABLES
  (* the daemon *)
  pc,           \* where its main loop is
  stopFlag,
  connections,  \* the list, in order: descriptor and type
  fdSetActive,  \* descriptors to select on
  fdSetRead,    \* the snapshot of the poll
  iter,         \* position in connections; the end is one past the last
  seen,         \* history: descriptors handled in this poll
  ttys,         \* the tty devices: what their socket's sockFd is, and whose it was
  shells,       \* number of shells that run on each client's socket
  (* the kernel *)
  backlog,      \* connections that wait for accept(2)
  sock,         \* the connection behind each descriptor of the daemon
  stream,       \* pieces that arrived on each connection and were not read
  (* the clients *)
  stage,        \* how far each connection got
  half,         \* the line whose second piece is still to come
  sent,         \* history: the lines sent in full
  closed        \* whether the client closed its end

daemonVars == <<pc, stopFlag, connections, fdSetActive, fdSetRead, iter, seen, ttys, shells>>
clientVars == <<half, sent, closed>>
vars == <<daemonVars, backlog, sock, stream, stage, clientVars>>

Lines == {"type tty", "stop", "other"}

\* The two pieces of a line.
Pieces(line) == <<[of |-> line, part |-> 1], [of |-> line, part |-> 2]>>

Piece == [of : Lines, part : {1, 2}]

Connection == [fd : Fds, type : {"None", "TTY"}]

TypeOK ==
  /\ pc \in {"idle", "accept", "scan", "ended"}
  /\ stopFlag \in BOOLEAN
  /\ connections \in Seq(Connection)
  /\ fdSetActive \subseteq Fds \cup {Listen} /\ fdSetRead \subseteq Fds \cup {Listen}
  /\ iter \in 1 .. Len(connections) + 1
  /\ seen \subseteq Fds
  /\ ttys \in Seq([fd : Fds, client : Clients]) /\ Len(ttys) <= MaxTtys
  /\ shells \in [Clients -> Nat]
  /\ backlog \in Seq(Clients)
  /\ sock \in [Fds -> Clients \cup {None}]
  /\ stream \in [Clients -> Seq(Piece)]
  /\ stage \in [Clients -> {"out", "waiting", "connected", "gone"}]
  /\ half \in [Clients -> Lines \cup {None}]
  /\ sent \in [Clients -> Seq(Lines)]
  /\ closed \in [Clients -> BOOLEAN]

\* What Server::run has before its loop.
Init ==
  /\ pc = "idle" /\ stopFlag = FALSE
  /\ connections = <<>> /\ fdSetActive = {Listen} /\ fdSetRead = {}
  /\ iter = 1 /\ seen = {}
  /\ ttys = <<>> /\ shells = [c \in Clients |-> 0]
  /\ backlog = <<>>
  /\ sock = [f \in Fds |-> None]
  /\ stream = [c \in Clients |-> <<>>]
  /\ stage = [c \in Clients |-> "out"]
  /\ half = [c \in Clients |-> None]
  /\ sent = [c \in Clients |-> <<>>]
  /\ closed = [c \in Clients |-> FALSE]

-----------------------------------------------------------------------------
(* Clients.                                                                *)

\* A socket stands as long as the daemon has it open, or a shell does: shells
\* inherit the descriptors of the daemon.
Standing == pc # "ended" \/ \E d \in Clients : shells[d] > 0

\* connect(2): the kernel completes the connection on its own.
Connect(c) ==
  /\ Standing /\ stage[c] = "out" /\ Len(backlog) < Backlog
  /\ backlog' = Append(backlog, c)
  /\ stage' = [stage EXCEPT ![c] = "waiting"]
  /\ UNCHANGED <<daemonVars, sock, stream, clientVars>>

CanSend(c) == stage[c] \in {"waiting", "connected"} /\ ~closed[c] /\ Standing

\* A line arrives, or its first piece does.
Arrive(c) ==
  /\ CanSend(c) /\ half[c] = None /\ Len(sent[c]) < MaxLines[c]
  /\ \E line \in Lines :
       \/ /\ stream' = [stream EXCEPT ![c] = @ \o Pieces(line)]
          /\ sent' = [sent EXCEPT ![c] = Append(@, line)]
          /\ UNCHANGED half
       \/ /\ stream' = [stream EXCEPT ![c] = Append(@, Pieces(line)[1])]
          /\ half' = [half EXCEPT ![c] = line]
          /\ UNCHANGED sent
  /\ UNCHANGED <<daemonVars, backlog, sock, stage, closed>>

\* The second piece arrives.
ArriveRest(c) ==
  /\ CanSend(c) /\ half[c] # None
  /\ stream' = [stream EXCEPT ![c] = Append(@, Pieces(half[c])[2])]
  /\ sent' = [sent EXCEPT ![c] = Append(@, half[c])]
  /\ half' = [half EXCEPT ![c] = None]
  /\ UNCHANGED <<daemonVars, backlog, sock, stage, closed>>

\* The client closes its end; a reset drops what the server has not read.
Close(c) ==
  /\ CanSend(c)
  /\ closed' = [closed EXCEPT ![c] = TRUE]
  /\ stream' \in {stream, [stream EXCEPT ![c] = <<>>]}
  /\ UNCHANGED <<daemonVars, backlog, sock, stage, half, sent>>

-----------------------------------------------------------------------------
(* Shells.                                                                 *)

\* shellRun reads from the client's socket, which it has inherited.
ShellReads(c) ==
  /\ shells[c] > 0 /\ stream[c] # <<>>
  /\ stream' = [stream EXCEPT ![c] = <<>>]
  /\ UNCHANGED <<daemonVars, backlog, sock, stage, clientVars>>

\* The shell sees the end of the stream, or crashes.
ShellEnds(c) ==
  /\ shells[c] > 0
  /\ shells' = [shells EXCEPT ![c] = @ - 1]
  /\ UNCHANGED <<pc, stopFlag, connections, fdSetActive, fdSetRead, iter, seen, ttys,
                 backlog, sock, stream, stage, clientVars>>

-----------------------------------------------------------------------------
(* The main loop.                                                          *)

\* select(2) and read(2) on a socket: there is data, or the end of it.
Readable(c) == stream[c] # <<>> \/ closed[c]

\* select(2) succeeds if every descriptor in the set is open.
SelectWorks == \A f \in fdSetActive \ {Listen} : sock[f] # None

\* Fault: the result of select is not used.
SelectUnused ==
  /\ pc = "idle" /\ ~stopFlag /\ SelectWorks
  /\ fdSetRead' = {f \in fdSetActive : f = Listen => backlog # <<>>}
  /\ pc' = "accept"
  /\ UNCHANGED <<stopFlag, connections, fdSetActive, iter, seen, ttys, shells,
                 backlog, sock, stream, stage, clientVars>>

\* The snapshot.  When select fails tcpPoll returns, and the loop tries again.
Select ==
  /\ pc = "idle" /\ ~stopFlag /\ SelectWorks
  /\ fdSetRead' = {f \in fdSetActive :
                     IF f = Listen THEN backlog # <<>> ELSE Readable(sock[f])}
  /\ pc' = "accept"
  /\ UNCHANGED <<stopFlag, connections, fdSetActive, iter, seen, ttys, shells,
                 backlog, sock, stream, stage, clientVars>>

\* The lowest number that is not open.
FreeFd == {f \in Fds : sock[f] = None /\ \A g \in Fds : sock[g] = None => f <= g}

\* Fault: the new descriptor is not added to fdSetActive.
AcceptUnset ==
  /\ pc = "accept" /\ Listen \in fdSetRead
  /\ \E f \in FreeFd :
       /\ connections' = Append(connections, [fd |-> f, type |-> "None"])
       /\ sock' = [sock EXCEPT ![f] = Head(backlog)]
       /\ stage' = [stage EXCEPT ![Head(backlog)] = "connected"]
  /\ backlog' = Tail(backlog)
  /\ pc' = "scan" /\ iter' = 1
  /\ UNCHANGED <<stopFlag, fdSetActive, fdSetRead, seen, ttys, shells, stream, clientVars>>

\* A connection waits: accept(2) gives it the lowest free number.
Accept ==
  /\ pc = "accept" /\ Listen \in fdSetRead
  /\ \E f \in FreeFd :
       /\ connections' = Append(connections, [fd |-> f, type |-> "None"])
       /\ fdSetActive' = fdSetActive \cup {f}
       /\ sock' = [sock EXCEPT ![f] = Head(backlog)]
       /\ stage' = [stage EXCEPT ![Head(backlog)] = "connected"]
  /\ backlog' = Tail(backlog)
  /\ pc' = "scan" /\ iter' = 1
  /\ UNCHANGED <<stopFlag, fdSetRead, seen, ttys, shells, stream, clientVars>>

\* None waits, or accept(2) has no number left.
NoAccept ==
  /\ pc = "accept" /\ (Listen \notin fdSetRead \/ FreeFd = {})
  /\ pc' = "scan" /\ iter' = 1
  /\ UNCHANGED <<stopFlag, connections, fdSetActive, fdSetRead, seen, ttys, shells,
                 backlog, sock, stream, stage, clientVars>>

\* The connection iter points to, if it is not at the end.
AtConnection == pc = "scan" /\ iter <= Len(connections)
Current == connections[iter]
CurrentClient == sock[Current.fd]

\* Fault: the continue that skips an inactive connection does not advance.
SkipStuck ==
  /\ AtConnection /\ Current.fd \notin fdSetRead
  /\ iter' = iter
  /\ UNCHANGED <<pc, stopFlag, connections, fdSetActive, fdSetRead, seen, ttys, shells,
                 backlog, sock, stream, stage, clientVars>>

\* No activity: on to the next.
Skip ==
  /\ AtConnection /\ Current.fd \notin fdSetRead
  /\ iter' = iter + 1
  /\ UNCHANGED <<pc, stopFlag, connections, fdSetActive, fdSetRead, seen, ttys, shells,
                 backlog, sock, stream, stage, clientVars>>

\* Fault: the list is taken for an array.
AfterEraseLinear(i, n) == i + 1

\* ++iter after erase has already moved it to the successor, in a list of n
\* elements left.  The list is a ring with the end as one more node: past the
\* end comes the first element.
AfterErase(i, n) == (i % (n + 1)) + 1

\* Fault: FD_CLR is missing.
DropUncleared ==
  /\ AtConnection /\ Current.fd \in fdSetRead
  /\ stream[CurrentClient] = <<>> /\ closed[CurrentClient]
  /\ sock' = [sock EXCEPT ![Current.fd] = None]
  /\ stage' = [stage EXCEPT ![CurrentClient] = "gone"]
  /\ connections' = RemoveAt(connections, iter)
  /\ iter' = AfterErase(iter, Len(connections) - 1)
  /\ seen' = seen \cup {Current.fd}
  /\ UNCHANGED <<pc, stopFlag, fdSetActive, fdSetRead, ttys, shells, backlog, stream, clientVars>>

\* tcpRead finds the end of the stream, or an error: the connection is closed
\* and erased.
Drop ==
  /\ AtConnection /\ Current.fd \in fdSetRead
  /\ stream[CurrentClient] = <<>> /\ closed[CurrentClient]
  /\ sock' = [sock EXCEPT ![Current.fd] = None]
  /\ stage' = [stage EXCEPT ![CurrentClient] = "gone"]
  /\ connections' = RemoveAt(connections, iter)
  /\ fdSetActive' = fdSetActive \ {Current.fd}
  /\ iter' = AfterErase(iter, Len(connections) - 1)
  /\ seen' = seen \cup {Current.fd}
  /\ UNCHANGED <<pc, stopFlag, fdSetRead, ttys, shells, backlog, stream, clientVars>>

\* tcpRead reads everything that has arrived, and it is worth the command cmd;
\* what is no command counts as "other".
Reads(cmd) ==
  /\ AtConnection /\ Current.fd \in fdSetRead
  /\ stream[CurrentClient] # <<>>
  /\ cmd = IF \E line \in Lines : stream[CurrentClient] = Pieces(line)
           THEN Head(stream[CurrentClient]).of ELSE "other"
  /\ stream' = [stream EXCEPT ![CurrentClient] = <<>>]
  /\ iter' = iter + 1
  /\ seen' = seen \cup {Current.fd}
  /\ UNCHANGED <<pc, fdSetActive, fdSetRead, backlog, sock, stage, clientVars>>

\* A bad command, or "type" on a connection that has one, is logged only.
ReadIgnored ==
  /\ \/ Reads("other")
     \/ Reads("type tty") /\ (Current.type # "None" \/ Len(ttys) = MaxTtys)
  /\ UNCHANGED <<stopFlag, connections, ttys, shells>>

\* Fault: the check for an existing type is missing.
ReadTtyAgain ==
  /\ Reads("type tty")
  /\ Len(ttys) < MaxTtys
  /\ ttys' = Append(ttys, [fd |-> Current.fd, client |-> CurrentClient])
  /\ shells' = [shells EXCEPT ![CurrentClient] = @ + 1]
  /\ connections' = [connections EXCEPT ![iter].type = "TTY"]
  /\ UNCHANGED stopFlag

\* Fault: the word after "type" is not looked at.
ReadTtyUnparsed ==
  /\ Reads("type tty") \/ Reads("other")
  /\ Current.type = "None" /\ Len(ttys) < MaxTtys
  /\ ttys' = Append(ttys, [fd |-> Current.fd, client |-> CurrentClient])
  /\ shells' = [shells EXCEPT ![CurrentClient] = @ + 1]
  /\ connections' = [connections EXCEPT ![iter].type = "TTY"]
  /\ UNCHANGED stopFlag

\* "type tty": the device is added; then a shell runs, or loading or running it
\* fails and the device stays.
ReadTty ==
  /\ Reads("type tty")
  /\ Current.type = "None" /\ Len(ttys) < MaxTtys
  /\ ttys' = Append(ttys, [fd |-> Current.fd, client |-> CurrentClient])
  /\ \/ /\ shells' = [shells EXCEPT ![CurrentClient] = @ + 1]
        /\ connections' = [connections EXCEPT ![iter].type = "TTY"]
     \/ UNCHANGED <<shells, connections>>
  /\ UNCHANGED stopFlag

\* "stop": the loop ends after this poll.
ReadStop ==
  /\ Reads("stop")
  /\ stopFlag' = TRUE
  /\ UNCHANGED <<connections, ttys, shells>>

\* tcpPoll returns.
PollDone ==
  /\ pc = "scan" /\ iter > Len(connections)
  /\ pc' = "idle" /\ iter' = 1 /\ fdSetRead' = {} /\ seen' = {}
  /\ UNCHANGED <<stopFlag, connections, fdSetActive, ttys, shells,
                 backlog, sock, stream, stage, clientVars>>

\* Fault: the loop also waits for the clients to leave.
EndedWhenEmpty ==
  /\ pc = "idle" /\ stopFlag /\ connections = <<>>
  /\ pc' = "ended"
  /\ UNCHANGED <<stopFlag, connections, fdSetActive, fdSetRead, iter, seen, ttys, shells,
                 backlog, sock, stream, stage, clientVars>>

\* The loop ends, and with it the daemon.
Ended ==
  /\ pc = "idle" /\ stopFlag
  /\ pc' = "ended"
  /\ UNCHANGED <<stopFlag, connections, fdSetActive, fdSetRead, iter, seen, ttys, shells,
                 backlog, sock, stream, stage, clientVars>>

MainLoop ==
  \/ Select \/ Accept \/ NoAccept \/ Skip \/ Drop
  \/ ReadIgnored \/ ReadTty \/ ReadStop \/ PollDone \/ Ended

Next ==
  \/ MainLoop
  \/ \E c \in Clients :
       \/ Connect(c) \/ Arrive(c) \/ ArriveRest(c) \/ Close(c)
       \/ ShellReads(c) \/ ShellEnds(c)

Spec == Init /\ [][Next]_vars

\* The main loop always goes on, unless a system call of it blocks.  Nothing is
\* assumed of clients and shells.
FairSpec == Spec /\ WF_vars(MainLoop)

-----------------------------------------------------------------------------
(* Safety.                                                                 *)

\* The books agree: the listed connections have descriptors of their own, they
\* are exactly the open ones, and exactly those select watches; so no
\* descriptor leaks, none is closed twice and select never fails for one that
\* is closed.
SocketsOwned ==
  /\ \A i, j \in DOMAIN connections : connections[i].fd = connections[j].fd => i = j
  /\ {connections[i].fd : i \in DOMAIN connections} = {f \in Fds : sock[f] # None}
  /\ fdSetActive = {Listen} \cup {f \in Fds : sock[f] # None}

\* The daemon is stuck in read(2): no data, and the client still connected.
Blocked ==
  /\ AtConnection /\ Current.fd \in fdSetRead
  /\ ~Readable(CurrentClient)

\* There are two ways only to get stuck: after a connection was dropped in this
\* poll iter has gone round to one already read, or the connection's shell took
\* the data after select saw it.
BlocksOnlyThere ==
  Blocked => \/ Current.fd \in seen /\ \E f \in seen : sock[f] = None
             \/ Current.type = "TTY"

\* A client's socket never has two shells that compete for its lines.
OneShell == \A c \in Clients : shells[c] <= 1

-----------------------------------------------------------------------------
(* Liveness.                                                               *)

\* A poll ends unless it blocks: although iter can go round, it does so only
\* after an erase.
PollEnds == pc = "scan" ~> (pc # "scan" \/ Blocked)

\* If the daemon does not stay blocked, a connection with something to read is
\* read, or dropped, or the daemon ends; a skipped one is served by a later poll.
Served ==
  []<>(~Blocked) =>
    \A c \in Clients :
      (stage[c] = "connected" /\ Readable(c)) ~>
        (stage[c] = "gone" \/ ~Readable(c) \/ pc = "ended")

\* If the daemon does not stay blocked, a waiting connection is accepted, unless
\* there is no descriptor for it.
Accepted ==
  []<>(~Blocked) =>
    \A c \in Clients :
      stage[c] = "waiting" ~> (stage[c] = "connected" \/ pc = "ended" \/ FreeFd = {})

\* If the daemon does not stay blocked, stop() makes it end.
StopsUnlessBlocked == []<>(~Blocked) => (stopFlag ~> pc = "ended")

-----------------------------------------------------------------------------
(* What comments promise and the code does not keep.                       *)

\* server.cpp:467, "Advance to next connection.": a poll handles each connection
\* of its snapshot once, none twice and none not at all.
EachOnce ==
  pc = "scan" =>
    IF iter <= Len(connections)
    THEN Current.fd \notin seen
    ELSE \A i \in DOMAIN connections : connections[i].fd \in fdSetRead => connections[i].fd \in seen
=============================================================================

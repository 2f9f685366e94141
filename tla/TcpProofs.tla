------------------------------ MODULE TcpProofs ------------------------------
(***************************************************************************)
(* Proofs about TcpServer: its books agree, no socket has two shells, the  *)
(* daemon can get stuck in two ways only, and it implements CommandServer. *)
(***************************************************************************)
EXTENDS TcpRefinement, SequenceTheorems, TLAPS

\* Each connection is in one place: out, in the backlog once, behind one
\* descriptor, or gone.
ClientsInv ==
  /\ \A f, g \in Fds : sock[f] # None /\ sock[f] = sock[g] => f = g
  /\ \A f \in Fds : sock[f] # None => stage[sock[f]] = "connected"
  /\ \A i \in DOMAIN backlog : stage[backlog[i]] = "waiting"
  /\ \A i, j \in DOMAIN backlog : backlog[i] = backlog[j] => i = j

\* A shell runs only on a connection that is, or was, a tty.
ShellInv ==
  /\ \A c \in Clients : stage[c] \in {"out", "waiting"} => shells[c] = 0
  /\ \A i \in DOMAIN connections :
       connections[i].type = "None" => shells[sock[connections[i].fd]] = 0

\* The descriptors of ttys.
TtyFds == {connections[i].fd : i \in {i \in DOMAIN connections : connections[i].type = "TTY"}}

\* What the snapshot is worth while the poll goes on.
SnapshotInv ==
  /\ pc = "accept" =>
       fdSetRead \subseteq fdSetActive /\ (Listen \in fdSetRead => backlog # <<>>)
  /\ pc # "scan" => seen = {}
  /\ \A f \in fdSetRead \cap Fds :
       sock[f] # None => Readable(sock[f]) \/ f \in seen \/ f \in TtyFds

\* What is still ahead of iter was not read yet, unless a connection was dropped.
ScanInv ==
  \/ \E f \in seen : sock[f] = None
  \/ \A i \in DOMAIN connections : i >= iter => connections[i].fd \notin seen

TcpInv ==
  /\ TypeOK /\ SocketsOwned /\ ClientsInv
  /\ OneShell /\ ShellInv /\ SnapshotInv /\ (pc = "scan" => ScanInv)

-----------------------------------------------------------------------------
(* Sequences.                                                              *)

\* RemoveAt shifts what is behind position i by one.
LEMMA RemoveAtProperties ==
  ASSUME NEW S, NEW s \in Seq(S), NEW i \in 1 .. Len(s)
  PROVE  /\ RemoveAt(s, i) \in Seq(S)
         /\ Len(RemoveAt(s, i)) = Len(s) - 1
         /\ \A j \in 1 .. Len(s) - 1 :
              RemoveAt(s, i)[j] = IF j < i THEN s[j] ELSE s[j + 1]
<1>. DEFINE a == SubSeq(s, 1, i - 1)
            b == SubSeq(s, i + 1, Len(s))
<1>1. /\ a \in Seq(S) /\ Len(a) = i - 1
      /\ \A j \in 1 .. i - 1 : a[j] = s[j]
  OBVIOUS
<1>2. /\ b \in Seq(S) /\ Len(b) = Len(s) - i
      /\ \A j \in 1 .. Len(s) - i : b[j] = s[i + j]
  OBVIOUS
<1>3. RemoveAt(s, i) = a \o b
  BY DEF RemoveAt
<1>. HIDE DEF a, b
<1>4. /\ a \o b \in Seq(S)
      /\ Len(a \o b) = Len(a) + Len(b)
      /\ \A j \in 1 .. Len(a) + Len(b) :
           (a \o b)[j] = IF j <= Len(a) THEN a[j] ELSE b[j - Len(a)]
  BY <1>1, <1>2, ConcatProperties
<1>5. ASSUME NEW j \in 1 .. Len(s) - 1
      PROVE  (a \o b)[j] = IF j < i THEN s[j] ELSE s[j + 1]
  <2>1. CASE j < i
    BY <1>1, <1>2, <1>4, <2>1
  <2>2. CASE j >= i
    <3>1. (a \o b)[j] = b[j - (i - 1)]
      BY <1>1, <1>2, <1>4, <2>2
    <3>2. b[j - (i - 1)] = s[i + (j - (i - 1))]
      BY <1>2, <2>2
    <3>. QED BY <2>2, <3>1, <3>2
  <2>3. j < i \/ j >= i
    OBVIOUS
  <2>. QED BY <2>1, <2>2, <2>3
<1>6. Len(a) + Len(b) = Len(s) - 1
  BY <1>1, <1>2
<1>. QED BY <1>3, <1>4, <1>5, <1>6

-----------------------------------------------------------------------------
(* Clients and shells.                                                     *)

LEMMA InitInv == Init => TcpInv
<1>. SUFFICES ASSUME Init PROVE TcpInv
  OBVIOUS
<1>. USE TcpAssumption DEF Init
<1>1. TypeOK
  <2>1. MaxTtys \in Nat /\ Len(ttys) = 0
    BY DEF Init
  <2>2. connections \in Seq(Connection) /\ ttys \in Seq([fd : Fds, client : Clients])
    OBVIOUS
  <2>3. /\ stream \in [Clients -> Seq(Piece)]
        /\ sent \in [Clients -> Seq(Lines)]
    OBVIOUS
  <2>4. iter \in 1 .. Len(connections) + 1
    OBVIOUS
  <2>5. pc \in {"idle", "accept", "scan", "ended"}
    OBVIOUS
  <2>10. stopFlag \in BOOLEAN
    BY Zenon
  <2>11. /\ fdSetActive \subseteq Fds \cup {Listen} /\ fdSetRead \subseteq Fds \cup {Listen}
        /\ seen \subseteq Fds /\ backlog \in Seq(Clients)
    OBVIOUS
  <2>6. shells \in [Clients -> Nat] /\ sock \in [Fds -> Clients \cup {None}]
    OBVIOUS
  <2>7. stage \in [Clients -> {"out", "waiting", "connected", "gone"}]
    OBVIOUS
  <2>8. /\ half \in [Clients -> Lines \cup {None}] /\ closed \in [Clients -> BOOLEAN]
    OBVIOUS
  <2>9. Len(ttys) <= MaxTtys
    BY <2>1
  <2>. QED BY <2>2, <2>3, <2>4, <2>5, <2>6, <2>7, <2>8, <2>9, <2>10, <2>11 DEF TypeOK
<1>2. SocketsOwned /\ ClientsInv /\ OneShell /\ ShellInv
  BY DEF SocketsOwned, ClientsInv, OneShell, ShellInv
<1>3. SnapshotInv /\ (pc = "scan" => ScanInv)
  BY DEF SnapshotInv, ScanInv
<1>. QED BY <1>1, <1>2, <1>3 DEF TcpInv

\* A step beside the main loop leaves the books alone, and the snapshot stays
\* worth what it was if only ttys can become unreadable.
LEMMA BesideLoop ==
  ASSUME TcpInv, UNCHANGED <<pc, connections, fdSetActive, fdSetRead, iter, seen, sock>>,
         backlog # <<>> => backlog' # <<>>,
         \A f \in Fds \ TtyFds : sock[f] # None /\ Readable(sock[f]) => Readable(sock[f])'
  PROVE  SocketsOwned' /\ SnapshotInv' /\ (pc = "scan" => ScanInv)'
<1>1. SocketsOwned'
  BY DEF TcpInv, SocketsOwned
<1>2. TtyFds' = TtyFds
  BY DEF TtyFds
<1>3. ASSUME NEW f \in fdSetRead \cap Fds, sock[f] # None
      PROVE  Readable(sock[f])' \/ f \in seen \/ f \in TtyFds
  <2>1. Readable(sock[f]) \/ f \in seen \/ f \in TtyFds
    BY <1>3 DEF TcpInv, SnapshotInv
  <2>. QED BY <1>3, <2>1
<1>4. \A f \in (fdSetRead \cap Fds)' :
        sock'[f] # None => Readable(sock[f])' \/ f \in seen' \/ f \in TtyFds'
  BY <1>2, <1>3
<1>5. SnapshotInv'
  BY <1>4 DEF TcpInv, SnapshotInv
<1>6. (pc = "scan" => ScanInv)'
  BY DEF TcpInv, ScanInv
<1>. QED BY <1>1, <1>5, <1>6

LEMMA ConnectInv == ASSUME TcpInv, NEW c \in Clients, Connect(c) PROVE TcpInv'
<1>. USE DEF Connect, daemonVars, clientVars
<1>1. TypeOK'
  BY DEF TcpInv, TypeOK
<1>2. OneShell'
  BY DEF TcpInv, OneShell
<1>3. ClientsInv'
  <2>. /\ backlog \in Seq(Clients) /\ stage[c] = "out"
       /\ stage' = [stage EXCEPT ![c] = "waiting"] /\ sock' = sock
       /\ stage \in [Clients -> {"out", "waiting", "connected", "gone"}]
       /\ sock \in [Fds -> Clients \cup {None}]
    BY DEF TcpInv, TypeOK
  <2>1. /\ DOMAIN backlog' = 1 .. Len(backlog) + 1
        /\ backlog'[Len(backlog) + 1] = c
        /\ \A i \in DOMAIN backlog : backlog'[i] = backlog[i]
    OBVIOUS
  <2>2. \A i \in DOMAIN backlog : stage[backlog[i]] = "waiting" /\ backlog[i] # c
    BY DEF TcpInv, ClientsInv
  <2>3. \A i \in DOMAIN backlog' : stage'[backlog'[i]] = "waiting"
    BY <2>1, <2>2
  <2>4. \A i, j \in DOMAIN backlog' : backlog'[i] = backlog'[j] => i = j
    BY <2>1, <2>2 DEF TcpInv, ClientsInv
  <2>5. \A f \in Fds : sock[f] # None => stage'[sock[f]] = "connected"
    BY DEF TcpInv, ClientsInv
  <2>. QED BY <2>3, <2>4, <2>5 DEF TcpInv, ClientsInv
<1>4. ShellInv'
  BY DEF TcpInv, ShellInv, TypeOK
<1>5. backlog' # <<>>
  <2>1. backlog \in Seq(Clients)
    BY DEF TcpInv, TypeOK
  <2>2. Len(Append(backlog, c)) = Len(backlog) + 1
    BY <2>1
  <2>. QED BY <2>1, <2>2
<1>6. \A d \in Clients : Readable(d)' = Readable(d)
  BY DEF Readable
<1>7. SocketsOwned' /\ SnapshotInv' /\ (pc = "scan" => ScanInv)'
  BY <1>5, <1>6, BesideLoop DEF TcpInv, TypeOK
<1>. QED BY <1>1, <1>2, <1>3, <1>4, <1>7 DEF TcpInv

\* Arrivals and closing leave alone what the books are about.
LEMMA StreamStep ==
  ASSUME TcpInv, UNCHANGED <<daemonVars, backlog, sock, stage>>
  PROVE  OneShell' /\ ClientsInv' /\ ShellInv'
BY DEF TcpInv, daemonVars, OneShell, ClientsInv, ShellInv

LEMMA PiecesTyped ==
  ASSUME NEW line \in Lines
  PROVE  /\ Pieces(line) \in Seq(Piece) /\ Pieces(line) # <<>>
         /\ \A k \in {1, 2} : Pieces(line)[k] \in Piece
<1>1. [of |-> line, part |-> 1] \in Piece /\ [of |-> line, part |-> 2] \in Piece
  BY DEF Piece
<1>. QED BY <1>1 DEF Pieces

LEMMA ArriveInv ==
  ASSUME TcpInv, NEW c \in Clients, Arrive(c) \/ ArriveRest(c) PROVE TcpInv'
<1>. USE DEF Arrive, ArriveRest
<1>1. PICK new \in Seq(Piece) :
        new # <<>> /\ stream' = [stream EXCEPT ![c] = @ \o new]
  <2>1. ASSUME NEW line \in Lines, NEW k \in {1, 2}
        PROVE  /\ <<Pieces(line)[k]>> \in Seq(Piece) /\ <<Pieces(line)[k]>> # <<>>
               /\ Append(stream[c], Pieces(line)[k]) = stream[c] \o <<Pieces(line)[k]>>
    <3>1. stream[c] \in Seq(Piece)
      BY DEF TcpInv, TypeOK
    <3>2. Pieces(line)[k] \in Piece
      BY PiecesTyped
    <3>3. <<Pieces(line)[k]>> \in Seq(Piece) /\ <<Pieces(line)[k]>> # <<>>
      BY <3>2
    <3>. QED BY <3>1, <3>2, <3>3, AppendIsConcat
  <2>2. CASE Arrive(c)
    BY <2>1, <2>2, PiecesTyped
  <2>3. CASE ArriveRest(c)
    BY <2>1, <2>3 DEF TcpInv, TypeOK
  <2>. QED BY <2>2, <2>3
<1>2. stream \in [Clients -> Seq(Piece)]
  BY DEF TcpInv, TypeOK
<1>3. stream' \in [Clients -> Seq(Piece)]
  BY <1>1, <1>2
<1>4. half' \in [Clients -> Lines \cup {None}] /\ sent' \in [Clients -> Seq(Lines)]
  <2>1. half \in [Clients -> Lines \cup {None}] /\ sent \in [Clients -> Seq(Lines)]
    BY DEF TcpInv, TypeOK
  <2>2. ASSUME NEW line \in Lines PROVE Append(sent[c], line) \in Seq(Lines)
    BY <2>1, AppendProperties
  <2>. QED BY <2>1, <2>2
<1>5. TypeOK'
  BY <1>3, <1>4 DEF TcpInv, TypeOK, daemonVars
<1>6. \A d \in Clients : Readable(d) => Readable(d)'
  BY <1>1, <1>2 DEF Readable
<1>7. SocketsOwned' /\ SnapshotInv' /\ (pc = "scan" => ScanInv)'
  BY <1>6, BesideLoop DEF TcpInv, TypeOK, daemonVars
<1>. QED BY <1>5, <1>7, StreamStep DEF TcpInv

LEMMA CloseInv == ASSUME TcpInv, NEW c \in Clients, Close(c) PROVE TcpInv'
<1>. USE DEF Close
<1>1. stream' \in [Clients -> Seq(Piece)] /\ closed' \in [Clients -> BOOLEAN]
  <2>1. stream \in [Clients -> Seq(Piece)] /\ closed \in [Clients -> BOOLEAN]
    BY DEF TcpInv, TypeOK
  <2>2. <<>> \in Seq(Piece)
    OBVIOUS
  <2>3. CASE stream' = stream
    BY <2>1, <2>3
  <2>4. CASE stream' = [stream EXCEPT ![c] = <<>>]
    BY <2>1, <2>2, <2>4
  <2>. QED BY <2>3, <2>4
<1>2. TypeOK'
  BY <1>1 DEF TcpInv, TypeOK, daemonVars
<1>3. \A d \in Clients : Readable(d) => Readable(d)'
  BY DEF Readable, TcpInv, TypeOK
<1>4. SocketsOwned' /\ SnapshotInv' /\ (pc = "scan" => ScanInv)'
  BY <1>3, BesideLoop DEF TcpInv, TypeOK, daemonVars
<1>. QED BY <1>2, <1>4, StreamStep DEF TcpInv

\* A shell empties the stream of its own connection only, and that is a tty.
LEMMA ShellReadsInv == ASSUME TcpInv, NEW c \in Clients, ShellReads(c) PROVE TcpInv'
<1>. USE DEF ShellReads
<1>1. TypeOK'
  BY DEF TcpInv, TypeOK, daemonVars, clientVars
<1>2. ASSUME NEW f \in Fds, sock[f] = c PROVE f \in TtyFds
  <2>1. c # None
    BY TcpAssumption
  <2>2. PICK i \in DOMAIN connections : connections[i].fd = f
    BY <1>2, <2>1 DEF TcpInv, SocketsOwned
  <2>3. connections[i].type # "None"
    BY <1>2, <2>2 DEF TcpInv, ShellInv, TypeOK
  <2>4. connections[i] \in Connection
    BY DEF TcpInv, TypeOK
  <2>5. connections[i].type = "TTY"
    BY <2>3, <2>4 DEF Connection
  <2>. QED BY <2>2, <2>5 DEF TtyFds
<1>3. \A d \in Clients \ {c} : Readable(d)' = Readable(d)
  BY DEF Readable, TcpInv, TypeOK, clientVars
<1>4. SocketsOwned' /\ SnapshotInv' /\ (pc = "scan" => ScanInv)'
  BY <1>2, <1>3, BesideLoop DEF TcpInv, TypeOK, daemonVars
<1>. QED BY <1>1, <1>4, StreamStep DEF TcpInv

LEMMA ShellEndsInv == ASSUME TcpInv, NEW c \in Clients, ShellEnds(c) PROVE TcpInv'
<1>. USE DEF ShellEnds, clientVars
<1>1. TypeOK'
  BY DEF TcpInv, TypeOK
<1>2. ClientsInv'
  BY DEF TcpInv, ClientsInv
<1>3. OneShell' /\ ShellInv'
  BY DEF TcpInv, OneShell, ShellInv, TypeOK
<1>4. \A d \in Clients : Readable(d)' = Readable(d)
  BY DEF Readable
<1>5. SocketsOwned' /\ SnapshotInv' /\ (pc = "scan" => ScanInv)'
  BY <1>4, BesideLoop DEF TcpInv, TypeOK
<1>. QED BY <1>1, <1>2, <1>3, <1>5 DEF TcpInv

-----------------------------------------------------------------------------
(* The main loop.                                                          *)

\* A listed connection has an open descriptor of its own.
LEMMA CurrentTyped ==
  ASSUME TcpInv, AtConnection
  PROVE  /\ iter \in DOMAIN connections /\ Current \in Connection
         /\ Current.fd \in Fds /\ CurrentClient \in Clients
         /\ sock[Current.fd] = CurrentClient /\ CurrentClient # None
<1>1. iter \in DOMAIN connections /\ Current \in Connection
  BY DEF TcpInv, TypeOK, AtConnection, Current
<1>2. Current.fd \in {f \in Fds : sock[f] # None}
  BY <1>1 DEF TcpInv, SocketsOwned, Current
<1>3. CurrentClient \in Clients
  BY <1>2 DEF TcpInv, TypeOK, CurrentClient
<1>. QED BY <1>1, <1>2, <1>3, TcpAssumption DEF CurrentClient

LEMMA SelectInv == ASSUME TcpInv, Select PROVE TcpInv'
<1>. USE DEF Select, clientVars
<1>1. TypeOK'
  BY DEF TcpInv, TypeOK
<1>2. SocketsOwned' /\ ClientsInv' /\ OneShell' /\ ShellInv'
  BY DEF TcpInv, SocketsOwned, ClientsInv, OneShell, ShellInv
<1>3. ASSUME NEW f \in (fdSetRead \cap Fds)' PROVE Readable(sock[f])'
  BY <1>3, TcpAssumption DEF Readable
<1>4. SnapshotInv'
  BY <1>3 DEF TcpInv, SnapshotInv
<1>. QED BY <1>1, <1>2, <1>4 DEF TcpInv

\* The new descriptor was closed, so it is in no book yet and not in the snapshot.
LEMMA AcceptInv == ASSUME TcpInv, Accept PROVE TcpInv'
<1>1. PICK f \in FreeFd :
        /\ connections' = Append(connections, [fd |-> f, type |-> "None"])
        /\ fdSetActive' = fdSetActive \cup {f}
        /\ sock' = [sock EXCEPT ![f] = Head(backlog)]
        /\ stage' = [stage EXCEPT ![Head(backlog)] = "connected"]
  BY DEF Accept
<1>. DEFINE c == Head(backlog)
            new == [fd |-> f, type |-> "None"]
<1>2. f \in Fds /\ sock[f] = None
  BY DEF FreeFd
<1>3. /\ backlog \in Seq(Clients) /\ backlog # <<>> /\ c \in Clients /\ c = backlog[1]
      /\ backlog' = Tail(backlog) /\ backlog' \in Seq(Clients)
      /\ Len(backlog') = Len(backlog) - 1
      /\ \A i \in 1 .. Len(backlog') : backlog'[i] = backlog[i + 1]
  <2>1. backlog \in Seq(Clients) /\ backlog # <<>>
    BY DEF TcpInv, TypeOK, SnapshotInv, Accept
  <2>2. backlog' = Tail(backlog)
    BY DEF Accept
  <2>. QED BY <2>1, <2>2, HeadTailProperties
<1>4. /\ connections \in Seq(Connection) /\ connections' \in Seq(Connection)
      /\ Len(connections') = Len(connections) + 1
      /\ \A i \in 1 .. Len(connections) : connections'[i] = connections[i]
      /\ connections'[Len(connections) + 1] = new
  <2>1. connections \in Seq(Connection)
    BY DEF TcpInv, TypeOK
  <2>2. new \in Connection
    BY <1>2 DEF Connection
  <2>. QED BY <1>1, <2>1, <2>2, AppendProperties
<1>. HIDE DEF c, new
<1>5. /\ sock \in [Fds -> Clients \cup {None}]
      /\ stage \in [Clients -> {"out", "waiting", "connected", "gone"}]
      /\ sock' = [sock EXCEPT ![f] = c] /\ stage' = [stage EXCEPT ![c] = "connected"]
  BY <1>1 DEF TcpInv, TypeOK, c
<1>6. c # None
  BY <1>3, TcpAssumption
<1>7. stage[c] = "waiting"
  BY <1>3 DEF TcpInv, ClientsInv
<1>8. \A g \in Fds : sock[g] # c
  BY <1>6, <1>7 DEF TcpInv, ClientsInv
<1>9. \A i \in DOMAIN connections : connections[i].fd # f /\ connections[i].fd \in Fds
                                     /\ sock[connections[i].fd] # None
  BY <1>2 DEF TcpInv, SocketsOwned
<1>10. TypeOK'
  BY <1>1, <1>2, <1>3, <1>4, <1>5 DEF TcpInv, TypeOK, Accept, clientVars
<1>11. SocketsOwned'
  <2>1. \A i, j \in DOMAIN connections' :
          connections'[i].fd = connections'[j].fd => i = j
    BY <1>4, <1>9 DEF TcpInv, SocketsOwned, new
  <2>2. {connections'[i].fd : i \in DOMAIN connections'}
          = {connections[i].fd : i \in DOMAIN connections} \cup {f}
    BY <1>4 DEF new
  <2>3. {g \in Fds : sock'[g] # None} = {g \in Fds : sock[g] # None} \cup {f}
    BY <1>2, <1>5, <1>6
  <2>. QED BY <1>1, <2>1, <2>2, <2>3 DEF TcpInv, SocketsOwned
<1>12. ClientsInv'
  <2>1. \A g, h \in Fds : sock'[g] # None /\ sock'[g] = sock'[h] => g = h
    BY <1>5, <1>8 DEF TcpInv, ClientsInv
  <2>2. \A g \in Fds : sock'[g] # None => stage'[sock'[g]] = "connected"
    BY <1>3, <1>5, <1>8 DEF TcpInv, ClientsInv
  <2>3. \A i, j \in DOMAIN backlog' : backlog'[i] = backlog'[j] => i = j
    BY <1>3 DEF TcpInv, ClientsInv
  <2>4. \A i \in DOMAIN backlog' : backlog'[i] # c /\ stage[backlog'[i]] = "waiting"
    BY <1>3 DEF TcpInv, ClientsInv
  <2>5. \A i \in DOMAIN backlog' : stage'[backlog'[i]] = "waiting"
    BY <1>3, <1>5, <2>4
  <2>. QED BY <2>1, <2>2, <2>3, <2>5 DEF ClientsInv
<1>13. OneShell' /\ ShellInv'
  <2>1. shells' = shells /\ shells[c] = 0
    BY <1>3, <1>7 DEF Accept, TcpInv, ShellInv
  <2>2. \A i \in DOMAIN connections' :
          connections'[i].type = "None" => shells'[sock'[connections'[i].fd]] = 0
    <3>1. \A i \in DOMAIN connections :
            connections[i].type = "None" => shells[sock'[connections[i].fd]] = 0
      BY <1>5, <1>9 DEF TcpInv, ShellInv
    <3>. QED BY <1>2, <1>4, <1>5, <2>1, <3>1 DEF new
  <2>3. \A d \in Clients : stage'[d] \in {"out", "waiting"} => shells'[d] = 0
    BY <1>5, <2>1 DEF TcpInv, ShellInv
  <2>. QED BY <2>1, <2>2, <2>3 DEF TcpInv, OneShell, ShellInv
<1>14. pc = "accept" /\ pc' = "scan" /\ fdSetRead' = fdSetRead /\ seen' = seen /\ seen = {}
  BY DEF Accept, TcpInv, SnapshotInv
<1>15. SnapshotInv'
  <2>1. TtyFds \subseteq TtyFds'
    BY <1>4 DEF TtyFds
  <2>2. f \notin fdSetRead
    BY <1>2, <1>14, TcpAssumption DEF TcpInv, SnapshotInv, SocketsOwned
  <2>3. ASSUME NEW g \in fdSetRead \cap Fds, sock'[g] # None
        PROVE  Readable(sock[g])' \/ g \in TtyFds'
    <3>1. g # f /\ sock'[g] = sock[g]
      BY <1>5, <2>2
    <3>2. Readable(sock[g]) \/ g \in TtyFds
      BY <1>14, <2>3, <3>1 DEF TcpInv, SnapshotInv
    <3>. QED BY <2>1, <3>1, <3>2 DEF Readable, Accept, clientVars
  <2>. QED BY <1>14, <2>3 DEF SnapshotInv
<1>16. ScanInv'
  BY <1>14 DEF ScanInv
<1>. QED BY <1>10, <1>11, <1>12, <1>13, <1>15, <1>16 DEF TcpInv

LEMMA NoAcceptInv == ASSUME TcpInv, NoAccept PROVE TcpInv'
<1>. USE DEF NoAccept, clientVars
<1>1. TypeOK'
  BY DEF TcpInv, TypeOK
<1>2. SocketsOwned' /\ ClientsInv' /\ OneShell' /\ ShellInv'
  BY DEF TcpInv, SocketsOwned, ClientsInv, OneShell, ShellInv
<1>3. SnapshotInv' /\ ScanInv'
  BY DEF TcpInv, SnapshotInv, ScanInv, Readable, TtyFds
<1>. QED BY <1>1, <1>2, <1>3 DEF TcpInv

LEMMA SkipInv == ASSUME TcpInv, Skip PROVE TcpInv'
<1>. USE DEF Skip, clientVars
<1>1. iter \in DOMAIN connections
  BY CurrentTyped
<1>2. TypeOK'
  BY <1>1 DEF TcpInv, TypeOK
<1>3. SocketsOwned' /\ ClientsInv' /\ OneShell' /\ ShellInv'
  BY DEF TcpInv, SocketsOwned, ClientsInv, OneShell, ShellInv
<1>4. SnapshotInv'
  BY DEF TcpInv, SnapshotInv, Readable, TtyFds
<1>5. ScanInv'
  BY <1>1 DEF TcpInv, ScanInv, AtConnection, TypeOK
<1>. QED BY <1>2, <1>3, <1>4, <1>5 DEF TcpInv

LEMMA PollDoneInv == ASSUME TcpInv, PollDone PROVE TcpInv'
<1>. USE DEF PollDone, clientVars
<1>1. TypeOK'
  BY DEF TcpInv, TypeOK
<1>2. SocketsOwned' /\ ClientsInv' /\ OneShell' /\ ShellInv' /\ SnapshotInv'
  BY DEF TcpInv, SocketsOwned, ClientsInv, OneShell, ShellInv, SnapshotInv
<1>. QED BY <1>1, <1>2 DEF TcpInv

LEMMA EndedInv == ASSUME TcpInv, Ended PROVE TcpInv'
<1>. USE DEF Ended, clientVars
<1>1. TypeOK'
  BY DEF TcpInv, TypeOK
<1>2. SocketsOwned' /\ ClientsInv' /\ OneShell' /\ ShellInv'
  BY DEF TcpInv, SocketsOwned, ClientsInv, OneShell, ShellInv
<1>3. SnapshotInv'
  BY DEF TcpInv, SnapshotInv, Readable, TtyFds
<1>. QED BY <1>1, <1>2, <1>3 DEF TcpInv

\* The dropped connection leaves all the books at once.
LEMMA DropInv == ASSUME TcpInv, Drop PROVE TcpInv'
<1>. DEFINE fd == Current.fd
            c == CurrentClient
            n == Len(connections)
<1>1. /\ iter \in DOMAIN connections /\ fd \in Fds /\ c \in Clients
      /\ sock[fd] = c /\ c # None /\ fd = connections[iter].fd
  BY CurrentTyped DEF Drop, Current
<1>2. /\ connections \in Seq(Connection) /\ n \in Nat /\ iter \in 1 .. n
      /\ DOMAIN connections = 1 .. n
      /\ sock \in [Fds -> Clients \cup {None}]
      /\ stage \in [Clients -> {"out", "waiting", "connected", "gone"}]
  BY <1>1 DEF TcpInv, TypeOK
<1>3. /\ connections' \in Seq(Connection) /\ Len(connections') = n - 1
      /\ DOMAIN connections' = 1 .. n - 1
      /\ \A j \in 1 .. n - 1 :
           connections'[j] = IF j < iter THEN connections[j] ELSE connections[j + 1]
  <2>1. connections' = RemoveAt(connections, iter)
    BY DEF Drop
  <2>2. /\ RemoveAt(connections, iter) \in Seq(Connection)
        /\ Len(RemoveAt(connections, iter)) = n - 1
        /\ \A j \in 1 .. n - 1 : RemoveAt(connections, iter)[j]
              = IF j < iter THEN connections[j] ELSE connections[j + 1]
    BY <1>2, RemoveAtProperties
  <2>. QED BY <1>2, <2>1, <2>2
<1>4. /\ sock' = [sock EXCEPT ![fd] = None] /\ stage' = [stage EXCEPT ![c] = "gone"]
      /\ fdSetActive' = fdSetActive \ {fd} /\ seen' = seen \cup {fd}
      /\ pc' = pc /\ pc = "scan" /\ fdSetRead' = fdSetRead
      /\ UNCHANGED <<shells, backlog, stream, closed>>
  BY DEF Drop, AtConnection, clientVars
<1>5. iter' \in 1 .. n
  <2>1. iter' = (iter % n) + 1
    BY <1>2 DEF Drop, AfterErase
  <2>2. iter % n \in 0 .. n - 1
    BY <1>2
  <2>. QED BY <1>2, <2>1, <2>2
<1>. HIDE DEF fd, c, n
<1>6. TypeOK'
  <2>1. iter' \in 1 .. Len(connections') + 1
    BY <1>2, <1>3, <1>5
  <2>2. sock' \in [Fds -> Clients \cup {None}]
    BY <1>2, <1>4
  <2>3. stage' \in [Clients -> {"out", "waiting", "connected", "gone"}]
    BY <1>2, <1>4
  <2>. QED BY <1>1, <1>3, <1>4, <2>1, <2>2, <2>3 DEF TcpInv, TypeOK, Drop, clientVars
\* Position j of the new list was position Old(j) of the old one.
<1>. DEFINE Old(j) == IF j < iter THEN j ELSE j + 1
<1>7. \A j \in DOMAIN connections' :
        Old(j) \in DOMAIN connections \ {iter} /\ connections'[j] = connections[Old(j)]
  BY <1>2, <1>3
<1>8. \A i \in DOMAIN connections \ {iter} :
        \E j \in DOMAIN connections' : connections'[j] = connections[i]
  <2>1. ASSUME NEW i \in DOMAIN connections \ {iter}
        PROVE  \E j \in DOMAIN connections' : connections'[j] = connections[i]
    <3>1. CASE i < iter
      <4>1. i \in DOMAIN connections' /\ connections'[i] = connections[i]
        BY <1>2, <1>3, <2>1, <3>1
      <4>. QED BY <4>1
    <3>2. CASE i > iter
      <4>1. i - 1 \in DOMAIN connections' /\ connections'[i - 1] = connections[i]
        BY <1>2, <1>3, <2>1, <3>2
      <4>. QED BY <4>1
    <3>. QED BY <1>2, <2>1, <3>1, <3>2
  <2>. QED BY <2>1
<1>9. \A j, k \in DOMAIN connections' : Old(j) = Old(k) => j = k
  BY <1>2, <1>3
<1>. HIDE DEF Old
<1>10. \A i, j \in DOMAIN connections : connections[i].fd = connections[j].fd => i = j
  BY DEF TcpInv, SocketsOwned
<1>11. \A j \in DOMAIN connections' : connections'[j].fd # fd
  BY <1>1, <1>7, <1>10
<1>12. SocketsOwned'
  <2>1. \A j, k \in DOMAIN connections' : connections'[j].fd = connections'[k].fd => j = k
    BY <1>7, <1>9, <1>10
  <2>2. {connections'[j].fd : j \in DOMAIN connections'}
          = {connections[i].fd : i \in DOMAIN connections} \ {fd}
    <3>1. ASSUME NEW i \in DOMAIN connections, connections[i].fd # fd
          PROVE  \E j \in DOMAIN connections' : connections'[j].fd = connections[i].fd
      BY <1>1, <1>8, <3>1
    <3>2. ASSUME NEW j \in DOMAIN connections'
          PROVE  \E i \in DOMAIN connections : connections[i].fd = connections'[j].fd
      BY <1>7
    <3>. QED BY <1>11, <3>1, <3>2
  <2>3. {f \in Fds : sock'[f] # None} = {f \in Fds : sock[f] # None} \ {fd}
    BY <1>1, <1>2, <1>4
  <2>. QED BY <1>1, <1>4, <2>1, <2>2, <2>3, TcpAssumption DEF TcpInv, SocketsOwned
<1>13. \A f \in Fds : sock'[f] # None => f # fd /\ sock'[f] = sock[f] /\ sock[f] # c
  BY <1>1, <1>2, <1>4 DEF TcpInv, ClientsInv
<1>14. ClientsInv'
  <2>1. \A f, g \in Fds : sock'[f] # None /\ sock'[f] = sock'[g] => f = g
    BY <1>13 DEF TcpInv, ClientsInv
  <2>2. \A f \in Fds : sock'[f] # None => stage'[sock'[f]] = "connected"
    BY <1>2, <1>4, <1>13 DEF TcpInv, ClientsInv
  <2>3. stage[c] = "connected"
    BY <1>1 DEF TcpInv, ClientsInv
  <2>4. \A i \in DOMAIN backlog : backlog[i] \in Clients /\ backlog[i] # c
    BY <2>3 DEF TcpInv, TypeOK, ClientsInv
  <2>5. \A i \in DOMAIN backlog' : stage'[backlog'[i]] = "waiting"
    BY <1>2, <1>4, <2>4 DEF TcpInv, ClientsInv
  <2>6. \A i, j \in DOMAIN backlog' : backlog'[i] = backlog'[j] => i = j
    BY <1>4 DEF TcpInv, ClientsInv
  <2>. QED BY <2>1, <2>2, <2>5, <2>6 DEF ClientsInv
<1>15. OneShell' /\ ShellInv'
  <2>1. \A j \in DOMAIN connections' : sock'[connections'[j].fd] = sock[connections'[j].fd]
    BY <1>2, <1>4, <1>11
  <2>2. \A j \in DOMAIN connections' :
          connections'[j].type = "None" => shells'[sock'[connections'[j].fd]] = 0
    BY <1>4, <1>7, <2>1 DEF TcpInv, ShellInv
  <2>3. \A d \in Clients : stage'[d] \in {"out", "waiting"} => shells'[d] = 0
    BY <1>2, <1>4 DEF TcpInv, ShellInv
  <2>. QED BY <1>4, <2>2, <2>3 DEF TcpInv, OneShell, ShellInv
<1>16. SnapshotInv'
  <2>1. \A f \in TtyFds : f # fd => f \in TtyFds'
    <3>1. ASSUME NEW i \in DOMAIN connections, connections[i].type = "TTY", connections[i].fd # fd
          PROVE  connections[i].fd \in TtyFds'
      <4>1. PICK j \in DOMAIN connections' : connections'[j] = connections[i]
        BY <1>1, <1>8, <3>1
      <4>. QED BY <3>1, <4>1 DEF TtyFds
    <3>. QED BY <3>1 DEF TtyFds
  <2>2. ASSUME NEW f \in fdSetRead \cap Fds, sock'[f] # None
        PROVE  Readable(sock[f])' \/ f \in seen' \/ f \in TtyFds'
    <3>1. f # fd /\ sock'[f] = sock[f]
      BY <1>13, <2>2
    <3>2. Readable(sock[f]) \/ f \in seen \/ f \in TtyFds
      BY <2>2, <3>1 DEF TcpInv, SnapshotInv
    <3>. QED BY <1>4, <2>1, <3>1, <3>2 DEF Readable
  <2>. QED BY <1>4, <2>2 DEF SnapshotInv
<1>17. ScanInv'
  BY <1>1, <1>2, <1>4 DEF ScanInv
<1>. QED BY <1>6, <1>12, <1>14, <1>15, <1>16, <1>17 DEF TcpInv

\* tcpRead on data: whatever the command, the stream is read and iter advances;
\* the connection stays, with a shell if it had none.
LEMMA ReadsInv ==
  ASSUME TcpInv, NEW cmd, Reads(cmd), stopFlag' \in BOOLEAN,
         ttys' \in Seq([fd : Fds, client : Clients]), Len(ttys') <= MaxTtys,
         \/ UNCHANGED <<connections, shells>>
         \/ /\ Current.type = "None"
            /\ connections' = [connections EXCEPT ![iter].type = "TTY"]
            /\ shells' = [shells EXCEPT ![CurrentClient] = @ + 1]
  PROVE  TcpInv'
<1>. DEFINE fd == Current.fd
            c == CurrentClient
<1>1. /\ iter \in DOMAIN connections /\ fd \in Fds /\ c \in Clients
      /\ sock[fd] = c /\ c # None /\ fd = connections[iter].fd
      /\ Current.type = connections[iter].type
  BY CurrentTyped DEF Reads, Current
<1>2. /\ connections \in Seq(Connection)
      /\ sock \in [Fds -> Clients \cup {None}] /\ shells \in [Clients -> Nat]
      /\ stream \in [Clients -> Seq(Piece)]
  BY DEF TcpInv, TypeOK
<1>3. /\ stream' = [stream EXCEPT ![c] = <<>>] /\ iter' = iter + 1
      /\ seen' = seen \cup {fd}
      /\ UNCHANGED <<pc, fdSetActive, fdSetRead, backlog, sock, stage, half, sent, closed>>
      /\ pc = "scan"
  BY DEF Reads, AtConnection, clientVars
<1>4. \/ UNCHANGED <<connections, shells>>
      \/ /\ connections[iter].type = "None"
         /\ connections' = [connections EXCEPT ![iter].type = "TTY"]
         /\ shells' = [shells EXCEPT ![c] = @ + 1]
  BY <1>1
<1>. HIDE DEF fd, c
<1>5. /\ connections' \in Seq(Connection) /\ DOMAIN connections' = DOMAIN connections
      /\ Len(connections') = Len(connections)
      /\ \A i \in DOMAIN connections :
           /\ connections'[i].fd = connections[i].fd
           /\ i # iter => connections'[i] = connections[i]
           /\ connections[i].type = "TTY" => connections'[i].type = "TTY"
  <2>1. CASE UNCHANGED connections
    BY <1>2, <2>1
  <2>2. CASE connections' = [connections EXCEPT ![iter].type = "TTY"]
    <3>1. connections[iter] \in Connection /\ [connections[iter] EXCEPT !.type = "TTY"] \in Connection
      <4>1. connections[iter] \in Connection
        BY <1>1, <1>2
      <4>. QED BY <4>1 DEF Connection
    <3>2. connections[iter].fd \in Fds /\ connections'[iter] = [connections[iter] EXCEPT !.type = "TTY"]
      BY <1>1, <1>2, <2>2, <3>1
    <3>3. connections'[iter].fd = connections[iter].fd /\ connections'[iter].type = "TTY"
      BY <3>1, <3>2 DEF Connection
    <3>. QED BY <1>1, <1>2, <2>2, <3>1, <3>3
  <2>. QED BY <1>4, <2>1, <2>2
<1>6. TypeOK'
  <2>1. stream' \in [Clients -> Seq(Piece)] /\ shells' \in [Clients -> Nat]
    <3>1. <<>> \in Seq(Piece)
      OBVIOUS
    <3>2. stream' \in [Clients -> Seq(Piece)]
      BY <1>2, <1>3, <3>1
    <3>3. shells' \in [Clients -> Nat]
      <4>1. CASE shells' = shells
        BY <1>2, <4>1
      <4>2. CASE shells' = [shells EXCEPT ![c] = @ + 1]
        <5>1. shells[c] + 1 \in Nat
          BY <1>1, <1>2
        <5>. QED BY <1>1, <1>2, <4>2, <5>1
      <4>. QED BY <1>4, <4>1, <4>2
    <3>. QED BY <3>2, <3>3
  <2>2. iter' \in 1 .. Len(connections') + 1
    BY <1>1, <1>2, <1>3, <1>5
  <2>. QED BY <1>1, <1>3, <1>5, <2>1, <2>2 DEF TcpInv, TypeOK
<1>7. SocketsOwned' /\ ClientsInv'
  BY <1>3, <1>5 DEF TcpInv, SocketsOwned, ClientsInv
<1>8. \A i \in DOMAIN connections : connections[i].fd \in Fds /\ (sock[connections[i].fd] = c => i = iter)
  <2>1. \A i \in DOMAIN connections : connections[i].fd \in Fds
    <3>1. \A i \in DOMAIN connections : connections[i] \in Connection
      BY <1>2
    <3>. QED BY <3>1 DEF Connection
  <2>. QED BY <1>1, <2>1 DEF TcpInv, SocketsOwned, ClientsInv
<1>9. stage[c] = "connected"
  BY <1>1 DEF TcpInv, ClientsInv
<1>10. OneShell' /\ ShellInv'
  <2>1. CASE UNCHANGED <<connections, shells>>
    BY <1>3, <2>1 DEF TcpInv, OneShell, ShellInv
  <2>2. CASE /\ connections[iter].type = "None"
             /\ connections' = [connections EXCEPT ![iter].type = "TTY"]
             /\ shells' = [shells EXCEPT ![c] = @ + 1]
    <3>1. shells[c] = 0
      BY <1>1, <2>2 DEF TcpInv, ShellInv
    <3>2. OneShell'
      BY <1>1, <1>2, <2>2, <3>1 DEF TcpInv, OneShell
    <3>3. \A d \in Clients : stage'[d] \in {"out", "waiting"} => shells'[d] = 0
      BY <1>2, <1>3, <1>9, <2>2 DEF TcpInv, ShellInv
    <3>4. connections'[iter].type = "TTY"
      <4>1. connections[iter] \in Connection
        BY <1>1, <1>2
      <4>2. connections'[iter] = [connections[iter] EXCEPT !.type = "TTY"]
        BY <1>1, <1>2, <2>2
      <4>. QED BY <4>1, <4>2 DEF Connection
    <3>5. ASSUME NEW i \in DOMAIN connections', connections'[i].type = "None"
          PROVE  shells'[sock'[connections'[i].fd]] = 0
      <4>1. i # iter /\ i \in DOMAIN connections /\ connections'[i] = connections[i]
        BY <1>5, <3>4, <3>5
      <4>2. sock[connections[i].fd] # c
        BY <1>8, <4>1
      <4>3. shells[sock[connections[i].fd]] = 0
        BY <3>5, <4>1 DEF TcpInv, ShellInv
      <4>4. sock[connections[i].fd] \in Clients
        BY <1>2, <1>8, <4>1 DEF TcpInv, SocketsOwned
      <4>. QED BY <1>2, <1>3, <2>2, <4>1, <4>2, <4>3, <4>4
    <3>. QED BY <3>2, <3>3, <3>5 DEF ShellInv
  <2>. QED BY <1>4, <2>1, <2>2
<1>11. SnapshotInv'
  <2>1. TtyFds \subseteq TtyFds'
    BY <1>5 DEF TtyFds
  <2>2. ASSUME NEW f \in fdSetRead \cap Fds, sock[f] # None
        PROVE  Readable(sock[f])' \/ f \in seen' \/ f \in TtyFds'
    <3>1. CASE f = fd
      BY <1>3, <3>1
    <3>2. CASE f # fd
      <4>1. sock[f] # c
        BY <1>1, <2>2, <3>2 DEF TcpInv, ClientsInv
      <4>2. Readable(sock[f])' = Readable(sock[f])
        BY <1>2, <1>3, <2>2, <4>1 DEF Readable
      <4>3. Readable(sock[f]) \/ f \in seen \/ f \in TtyFds
        BY <2>2 DEF TcpInv, SnapshotInv
      <4>. QED BY <1>3, <2>1, <4>2, <4>3
    <3>. QED BY <3>1, <3>2
  <2>. QED BY <1>3, <2>2 DEF SnapshotInv
<1>12. ScanInv'
  <2>1. ScanInv
    BY <1>3 DEF TcpInv
  <2>2. CASE \E f \in seen : sock[f] = None
    BY <1>3, <2>2 DEF ScanInv
  <2>3. CASE \A i \in DOMAIN connections : i >= iter => connections[i].fd \notin seen
    <3>1. ASSUME NEW i \in DOMAIN connections, i >= iter + 1
          PROVE  connections[i].fd \notin seen \cup {fd}
      <4>1. i # iter /\ i >= iter
        BY <1>1, <1>2, <3>1
      <4>. QED BY <1>1, <2>3, <4>1 DEF TcpInv, SocketsOwned
    <3>. QED BY <1>3, <1>5, <3>1 DEF ScanInv
  <2>. QED BY <2>1, <2>2, <2>3 DEF ScanInv
<1>. QED BY <1>6, <1>7, <1>10, <1>11, <1>12 DEF TcpInv

LEMMA MainLoopInv == ASSUME TcpInv, MainLoop PROVE TcpInv'
<1>1. stopFlag \in BOOLEAN /\ ttys \in Seq([fd : Fds, client : Clients]) /\ Len(ttys) <= MaxTtys
  BY DEF TcpInv, TypeOK
<1>2. CASE ReadIgnored
  BY <1>1, <1>2, ReadsInv DEF ReadIgnored
<1>3. CASE ReadTty
  <2>1. Current.fd \in Fds /\ CurrentClient \in Clients
    BY <1>3, CurrentTyped DEF ReadTty, Reads
  <2>2. [fd |-> Current.fd, client |-> CurrentClient] \in [fd : Fds, client : Clients]
    BY <2>1
  <2>3. ttys' \in Seq([fd : Fds, client : Clients]) /\ Len(ttys') = Len(ttys) + 1
    BY <1>1, <1>3, <2>2, AppendProperties DEF ReadTty
  <2>4. Len(ttys') <= MaxTtys
    <3>1. Len(ttys) < MaxTtys
      BY <1>3 DEF ReadTty
    <3>2. Len(ttys) \in Nat
      BY <1>1
    <3>3. MaxTtys \in Nat
      BY TcpAssumption
    <3>. QED BY <2>3, <3>1, <3>2, <3>3
  <2>. QED BY <1>1, <1>3, <2>3, <2>4, ReadsInv DEF ReadTty
<1>4. CASE ReadStop
  <2>1. stopFlag' \in BOOLEAN
    BY <1>4, Zenon DEF ReadStop
  <2>. QED BY <1>1, <1>4, <2>1, ReadsInv DEF ReadStop
<1>. QED
  BY <1>2, <1>3, <1>4, SelectInv, AcceptInv, NoAcceptInv, SkipInv, DropInv, PollDoneInv, EndedInv
  DEF MainLoop

LEMMA NextInv == TcpInv /\ [Next]_vars => TcpInv'
<1>. SUFFICES ASSUME TcpInv, [Next]_vars PROVE TcpInv'
  OBVIOUS
<1>1. CASE UNCHANGED vars
  BY <1>1 DEF vars, daemonVars, clientVars, TcpInv, TypeOK, SocketsOwned, ClientsInv, OneShell,
              ShellInv, SnapshotInv, ScanInv, Readable, TtyFds
<1>2. CASE Next
  BY <1>2, MainLoopInv, ConnectInv, ArriveInv, CloseInv, ShellReadsInv, ShellEndsInv DEF Next
<1>. QED BY <1>1, <1>2

LEMMA AlwaysTcpInv == Spec => []TcpInv
BY InitInv, NextInv, PTL DEF Spec

-----------------------------------------------------------------------------
(* The theorems.                                                           *)

\* The daemon's state keeps its type, for any number of clients and descriptors:
\* in particular iter never leaves the list, however often an erase sends it
\* round (server.cpp:462-469).
THEOREM TcpTypeCorrect == Spec => []TypeOK
<1>1. TcpInv => TypeOK
  BY DEF TcpInv
<1>. QED BY <1>1, AlwaysTcpInv, PTL

\* Whatever clients do, the connections listed, the descriptors open and
\* fdSetActive agree: tcpPoll leaks no descriptor, closes none twice and never
\* makes select fail.
THEOREM SocketsAlwaysOwned == Spec => []SocketsOwned
<1>1. TcpInv => SocketsOwned
  BY DEF TcpInv
<1>. QED BY <1>1, AlwaysTcpInv, PTL

\* The check of con->type in tcpRead is enough: no connection ever has two shells.
THEOREM AlwaysOneShell == Spec => []OneShell
<1>1. TcpInv => OneShell
  BY DEF TcpInv
<1>. QED BY <1>1, AlwaysTcpInv, PTL

\* A blocking read is possible after a drop in the same poll or on a tty, and
\* nowhere else.
THEOREM BlocksOnlyThereAlways == Spec => []BlocksOnlyThere
<1>1. TcpInv => BlocksOnlyThere
  <2>. SUFFICES ASSUME TcpInv, Blocked PROVE \/ Current.fd \in seen /\ \E f \in seen : sock[f] = None
                                            \/ Current.type = "TTY"
    BY DEF BlocksOnlyThere
  <2>1. /\ AtConnection /\ Current.fd \in fdSetRead /\ ~Readable(sock[Current.fd])
        /\ Current.fd \in Fds /\ sock[Current.fd] # None /\ iter \in DOMAIN connections
    BY CurrentTyped DEF Blocked, CurrentClient
  <2>2. Current.fd \in seen \/ Current.fd \in TtyFds
    BY <2>1 DEF TcpInv, SnapshotInv
  <2>3. CASE Current.fd \in TtyFds
    <3>1. PICK i \in DOMAIN connections :
            connections[i].type = "TTY" /\ connections[i].fd = connections[iter].fd
      BY <2>3 DEF TtyFds, Current
    <3>2. i = iter
      BY <2>1, <3>1 DEF TcpInv, SocketsOwned
    <3>. QED BY <3>1, <3>2 DEF Current
  <2>4. CASE Current.fd \in seen
    <3>1. pc = "scan" /\ ScanInv /\ iter \in Nat
      BY <2>1 DEF AtConnection, TcpInv, TypeOK
    <3>. QED BY <2>1, <2>4, <3>1 DEF ScanInv, Current
  <2>. QED BY <2>2, <2>3, <2>4
<1>. QED BY <1>1, AlwaysTcpInv, PTL
-----------------------------------------------------------------------------
(* TcpServer implements CommandServer.                                     *)

\* What CommandServer asks of a decision: the second piece of a line arrives
\* only after the client sent the line, and the loop ends only once stopped.
SentInv ==
  \A c \in Clients : \A k \in DOMAIN stream[c] :
    stream[c][k].part = 2 => stream[c][k].of \in ToSet(sent[c])

SeenInv == TcpInv /\ SentInv /\ (pc = "ended" => stopFlag)

LEMMA SeenInvInit == Init => SeenInv
BY InitInv DEF Init, SeenInv, SentInv

\* The second piece of a line comes with the line, or after its first piece.
LEMMA ArriveSent ==
  ASSUME TcpInv, SentInv, NEW c \in Clients, Arrive(c) \/ ArriveRest(c)
  PROVE  SentInv'
<1>1. stream \in [Clients -> Seq(Piece)] /\ sent \in [Clients -> Seq(Lines)]
      /\ half[c] \in Lines \cup {None}
  BY DEF TcpInv, TypeOK
<1>2. ASSUME NEW line \in Lines
      PROVE  /\ \A m : m \in ToSet(sent[c]) => m \in ToSet(Append(sent[c], line))
             /\ line \in ToSet(Append(sent[c], line))
  <2>1. /\ Len(Append(sent[c], line)) = Len(sent[c]) + 1
        /\ Append(sent[c], line)[Len(sent[c]) + 1] = line
        /\ \A k \in 1 .. Len(sent[c]) : Append(sent[c], line)[k] = sent[c][k]
    BY <1>1, AppendProperties
  <2>2. /\ DOMAIN sent[c] = 1 .. Len(sent[c]) /\ Len(sent[c]) \in Nat
        /\ DOMAIN Append(sent[c], line) = 1 .. Len(sent[c]) + 1
    BY <1>1
  <2>. QED BY <2>1, <2>2 DEF ToSet
<1>3. ASSUME NEW new \in Seq(Piece), stream' = [stream EXCEPT ![c] = @ \o new],
             NEW line \in Lines, sent' = [sent EXCEPT ![c] = Append(@, line)],
             \A k \in DOMAIN new : new[k].of = line
      PROVE  SentInv'
  <2>1. stream'[c] = stream[c] \o new /\ sent'[c] = Append(sent[c], line)
    BY <1>1, <1>3
  <2>2. ASSUME NEW k \in DOMAIN (stream[c] \o new), (stream[c] \o new)[k].part = 2
        PROVE  (stream[c] \o new)[k].of \in ToSet(Append(sent[c], line))
    <3>1. /\ k \in 1 .. Len(stream[c]) + Len(new)
          /\ Len(stream[c]) \in Nat /\ Len(new) \in Nat
          /\ DOMAIN stream[c] = 1 .. Len(stream[c]) /\ DOMAIN new = 1 .. Len(new)
          /\ (stream[c] \o new)[k] = IF k <= Len(stream[c]) THEN stream[c][k] ELSE new[k - Len(stream[c])]
      BY <1>1, ConcatProperties
    <3>2. CASE k <= Len(stream[c])
      BY <1>2, <2>2, <3>1, <3>2 DEF SentInv
    <3>3. CASE k > Len(stream[c])
      <4>1. k - Len(stream[c]) \in DOMAIN new
        BY <3>1, <3>3
      <4>. QED BY <1>2, <1>3, <3>1, <3>3, <4>1
    <3>. QED BY <3>1, <3>2, <3>3
  <2>3. \A d \in Clients \ {c} : stream'[d] = stream[d] /\ sent'[d] = sent[d]
    BY <1>1, <1>3
  <2>. QED BY <2>1, <2>2, <2>3 DEF SentInv
<1>4. ASSUME NEW line \in Lines, NEW k \in {1, 2}
      PROVE  /\ <<Pieces(line)[k]>> \in Seq(Piece)
             /\ Append(stream[c], Pieces(line)[k]) = stream[c] \o <<Pieces(line)[k]>>
  <2>1. Pieces(line)[k] \in Piece /\ stream[c] \in Seq(Piece)
    BY <1>1, PiecesTyped
  <2>. QED BY <2>1, AppendIsConcat
<1>5. CASE Arrive(c)
  <2>1. PICK line \in Lines :
          \/ /\ stream' = [stream EXCEPT ![c] = @ \o Pieces(line)]
             /\ sent' = [sent EXCEPT ![c] = Append(@, line)]
          \/ /\ stream' = [stream EXCEPT ![c] = Append(@, Pieces(line)[1])]
             /\ UNCHANGED sent
    BY <1>5 DEF Arrive
  <2>2. Pieces(line) \in Seq(Piece) /\ \A k \in DOMAIN Pieces(line) : Pieces(line)[k].of = line
    BY PiecesTyped DEF Pieces
  <2>3. CASE /\ stream' = [stream EXCEPT ![c] = Append(@, Pieces(line)[1])]
             /\ UNCHANGED sent
    <3>1. /\ Pieces(line)[1] = [of |-> line, part |-> 1]
          /\ stream'[c] = Append(stream[c], Pieces(line)[1])
          /\ \A d \in Clients \ {c} : stream'[d] = stream[d]
      BY <1>1, <2>3 DEF Pieces
    <3>2. \A k \in DOMAIN stream'[c] :
            \/ k \in DOMAIN stream[c] /\ stream'[c][k] = stream[c][k]
            \/ stream'[c][k].part = 1
      <4>1. /\ Len(stream'[c]) = Len(stream[c]) + 1 /\ Len(stream[c]) \in Nat
            /\ stream'[c][Len(stream[c]) + 1] = Pieces(line)[1]
            /\ \A k \in 1 .. Len(stream[c]) : stream'[c][k] = stream[c][k]
            /\ DOMAIN stream[c] = 1 .. Len(stream[c])
            /\ DOMAIN stream'[c] = 1 .. Len(stream[c]) + 1
        <5>1. stream[c] \in Seq(Piece) /\ Pieces(line)[1] \in Piece
          BY <1>1, PiecesTyped
        <5>. QED BY <3>1, <5>1, AppendProperties
      <4>. QED BY <3>1, <4>1
    <3>. QED BY <2>3, <3>1, <3>2 DEF SentInv
  <2>. QED BY <1>3, <2>1, <2>2, <2>3
<1>6. CASE ArriveRest(c)
  <2>1. /\ half[c] \in Lines /\ stream' = [stream EXCEPT ![c] = Append(@, Pieces(half[c])[2])]
        /\ sent' = [sent EXCEPT ![c] = Append(@, half[c])]
    BY <1>1, <1>6 DEF ArriveRest
  <2>2. stream' = [stream EXCEPT ![c] = @ \o <<Pieces(half[c])[2]>>]
    BY <1>4, <2>1
  <2>3. \A k \in DOMAIN <<Pieces(half[c])[2]>> : <<Pieces(half[c])[2]>>[k].of = half[c]
    BY DEF Pieces
  <2>. QED BY <1>3, <1>4, <2>1, <2>2, <2>3
<1>. QED BY <1>5, <1>6

\* Every other step keeps what has arrived, or drops all of it.
LEMMA SentKept ==
  ASSUME TcpInv, SentInv, UNCHANGED sent,
         UNCHANGED stream \/ \E c \in Clients : stream' = [stream EXCEPT ![c] = <<>>]
  PROVE  SentInv'
<1>1. stream \in [Clients -> Seq(Piece)] /\ DOMAIN <<>> = {}
  BY DEF TcpInv, TypeOK
<1>2. ASSUME NEW d \in Clients PROVE stream'[d] = stream[d] \/ DOMAIN stream'[d] = {}
  BY <1>1
<1>. QED BY <1>2 DEF SentInv

LEMMA SeenInvNext == SeenInv /\ [Next]_vars => SeenInv'
<1>. SUFFICES ASSUME SeenInv, [Next]_vars PROVE SeenInv'
  OBVIOUS
<1>1. TcpInv' /\ TcpInv /\ SentInv /\ (pc = "ended" => stopFlag)
  BY NextInv DEF SeenInv
<1>2. SentInv'
  <2>1. CASE UNCHANGED vars
    BY <1>1, <2>1, SentKept DEF vars, clientVars
  <2>2. ASSUME NEW c \in Clients, Arrive(c) \/ ArriveRest(c) PROVE SentInv'
    BY <1>1, <2>2, ArriveSent
  <2>3. ASSUME NEW c \in Clients, Connect(c) \/ Close(c) \/ ShellReads(c) \/ ShellEnds(c) PROVE SentInv'
    BY <1>1, <2>3, SentKept DEF Connect, Close, ShellReads, ShellEnds, clientVars
  <2>4. ASSUME NEW cmd, Reads(cmd) PROVE SentInv'
    BY <1>1, <2>4, SentKept, CurrentTyped DEF Reads, clientVars
  <2>5. CASE MainLoop
    <3>1. CASE Select \/ Accept \/ NoAccept \/ Skip \/ Drop \/ PollDone \/ Ended
      BY <1>1, <3>1, SentKept DEF Select, Accept, NoAccept, Skip, Drop, PollDone, Ended, clientVars
    <3>. QED BY <2>4, <2>5, <3>1 DEF MainLoop, ReadIgnored, ReadTty, ReadStop
  <2>. QED BY <2>1, <2>2, <2>3, <2>5 DEF Next
<1>3. (pc = "ended" => stopFlag)'
  BY <1>1 DEF Next, MainLoop, Connect, Arrive, ArriveRest, Close, ShellReads, ShellEnds, Select,
     Accept, NoAccept, Skip, Drop, ReadIgnored, ReadTty, ReadStop, Reads, AtConnection, PollDone,
     Ended, vars, daemonVars
<1>. QED BY <1>1, <1>2, <1>3 DEF SeenInv

\* What CommandServer calls tty, by descriptors and by positions.
LEMMA TtyClientsSet ==
  /\ TtyClients = {sock[f] : f \in TtyFds}
  /\ TtyClients = {sock[connections[i].fd] : i \in {i \in DOMAIN connections : connections[i].type = "TTY"}}
BY DEF TtyClients, TtyFds, ToSet

LEMMA TtyClientsNext ==
  TtyClients' = {sock'[connections'[i].fd] : i \in {i \in DOMAIN connections' : connections'[i].type = "TTY"}}
BY DEF TtyClients, ToSet

\* A step that nobody can see.
LEMMA SeenSame ==
  ASSUME UNCHANGED <<stage, sent, closed, stopFlag, connections, sock>>,
         pc' = "ended" <=> pc = "ended"
  PROVE  UNCHANGED Seen!vars
BY TtyClientsSet DEF Seen!vars, TtyClients

LEMMA ClientSeen ==
  ASSUME SeenInv, NEW c \in Clients,
         Connect(c) \/ Arrive(c) \/ ArriveRest(c) \/ Close(c) \/ ShellReads(c) \/ ShellEnds(c)
  PROVE  [Seen!Next]_Seen!vars
<1>1. CASE Connect(c)
  <2>1. Seen!Connect(c)
    BY <1>1 DEF Connect, Seen!Connect, Seen!Moves, daemonVars, clientVars, TtyClients
  <2>. QED BY <2>1 DEF Seen!Next
<1>2. CASE Arrive(c) \/ ArriveRest(c)
  <2>1. CASE UNCHANGED sent
    <3>1. UNCHANGED <<stage, sent, closed, pc, stopFlag, connections, sock>>
      BY <1>2, <2>1 DEF Arrive, ArriveRest, daemonVars
    <3>. QED BY <3>1, SeenSame
  <2>2. CASE \E line \in Lines : sent' = [sent EXCEPT ![c] = Append(@, line)]
    <3>1. /\ UNCHANGED <<stage, closed, pc, stopFlag, connections, sock>>
          /\ stage[c] \in {"waiting", "connected"} /\ ~closed[c]
      BY <1>2 DEF Arrive, ArriveRest, CanSend, daemonVars
    <3>2. UNCHANGED TtyClients
      BY <3>1 DEF TtyClients
    <3>3. Seen!Send(c)
      BY <2>2, <3>1, <3>2 DEF Seen!Send
    <3>. QED BY <3>3 DEF Seen!Next
  <2>3. half[c] \in Lines \cup {None}
    BY DEF SeenInv, TcpInv, TypeOK
  <2>. QED BY <1>2, <2>1, <2>2, <2>3 DEF Arrive, ArriveRest
<1>3. CASE Close(c)
  <2>1. closed \in [Clients -> BOOLEAN]
    BY DEF SeenInv, TcpInv, TypeOK
  <2>2. {d \in Clients : closed'[d]} = {d \in Clients : closed[d]} \cup {c}
    BY <1>3, <2>1 DEF Close
  <2>3. Seen!Leave(c)
    BY <1>3, <2>2 DEF Close, Seen!Leave, daemonVars, TtyClients
  <2>. QED BY <2>3 DEF Seen!Next
<1>4. CASE ShellReads(c) \/ ShellEnds(c)
  <2>1. UNCHANGED <<stage, sent, closed, pc, stopFlag, connections, sock>>
    BY <1>4 DEF ShellReads, ShellEnds, daemonVars, clientVars
  <2>. QED BY <2>1, SeenSame
<1>. QED BY <1>1, <1>2, <1>3, <1>4

\* The new connection is no tty, and the others keep their descriptors.
LEMMA AcceptSeen == ASSUME SeenInv, Accept PROVE [Seen!Next]_Seen!vars
<1>1. PICK f \in FreeFd :
        /\ connections' = Append(connections, [fd |-> f, type |-> "None"])
        /\ sock' = [sock EXCEPT ![f] = Head(backlog)]
        /\ stage' = [stage EXCEPT ![Head(backlog)] = "connected"]
  BY DEF Accept
<1>. DEFINE c == Head(backlog)
            new == [fd |-> f, type |-> "None"]
<1>2. f \in Fds /\ sock[f] = None
  BY DEF FreeFd
<1>3. c \in Clients /\ c = backlog[1] /\ 1 \in DOMAIN backlog
  <2>1. backlog \in Seq(Clients) /\ backlog # <<>>
    BY DEF SeenInv, TcpInv, TypeOK, SnapshotInv, Accept
  <2>. QED BY <2>1, HeadTailProperties
<1>4. /\ connections \in Seq(Connection) /\ new \in Connection
      /\ DOMAIN connections = 1 .. Len(connections) /\ Len(connections) \in Nat
      /\ DOMAIN connections' = 1 .. Len(connections) + 1
      /\ \A i \in DOMAIN connections : connections'[i] = connections[i]
      /\ connections'[Len(connections) + 1] = new
  <2>1. connections \in Seq(Connection)
    BY DEF SeenInv, TcpInv, TypeOK
  <2>2. new \in Connection
    BY <1>2 DEF Connection
  <2>. QED BY <1>1, <2>1, <2>2, AppendProperties
<1>5. stage[c] = "waiting"
  BY <1>3 DEF SeenInv, TcpInv, ClientsInv
<1>6. \A i \in DOMAIN connections : connections[i].fd # f /\ connections[i].fd \in Fds
  <2>1. \A i \in DOMAIN connections : connections[i].fd \in {g \in Fds : sock[g] # None}
    BY DEF SeenInv, TcpInv, SocketsOwned
  <2>. QED BY <1>2, <2>1
<1>7. new.type = "None" /\ sock' = [sock EXCEPT ![f] = c] /\ sock \in [Fds -> Clients \cup {None}]
  BY <1>1 DEF SeenInv, TcpInv, TypeOK
<1>. HIDE DEF new, c
<1>8. {i \in DOMAIN connections' : connections'[i].type = "TTY"}
        = {i \in DOMAIN connections : connections[i].type = "TTY"}
  BY <1>4, <1>7
<1>9. TtyClients' = TtyClients
  <2>1. \A i \in DOMAIN connections : sock'[connections'[i].fd] = sock[connections[i].fd]
    BY <1>4, <1>6, <1>7
  <2>2. \A x \in TtyClients : x \in TtyClients'
    BY <1>8, <2>1, TtyClientsSet, TtyClientsNext
  <2>3. \A x \in TtyClients' : x \in TtyClients
    BY <1>8, <2>1, TtyClientsSet, TtyClientsNext
  <2>. QED BY <2>2, <2>3
<1>10. Seen!Accept(c)
  <2>1. pc = "accept" /\ pc' = "scan" /\ UNCHANGED <<stopFlag, sent, closed>>
    BY DEF Accept, clientVars
  <2>2. stage' = [stage EXCEPT ![c] = "connected"]
    BY <1>1 DEF c
  <2>. QED BY <1>5, <1>9, <2>1, <2>2 DEF Seen!Accept, Seen!Moves
<1>. QED BY <1>3, <1>10 DEF Seen!Next

\* Only the client of the dropped connection goes, and it has closed its end.
LEMMA DropSeen == ASSUME SeenInv, Drop PROVE [Seen!Next]_Seen!vars
<1>. DEFINE c == CurrentClient
            fd == Current.fd
            n == Len(connections)
<1>1. /\ iter \in DOMAIN connections /\ fd \in Fds /\ c \in Clients
      /\ sock[fd] = c /\ c # None /\ fd = connections[iter].fd
  BY CurrentTyped DEF SeenInv, Drop, Current
<1>2. /\ sock' = [sock EXCEPT ![fd] = None] /\ stage' = [stage EXCEPT ![c] = "gone"]
      /\ pc = "scan" /\ closed[c] /\ UNCHANGED <<pc, stopFlag, sent, closed>>
  BY DEF Drop, AtConnection, clientVars
<1>3. /\ connections \in Seq(Connection) /\ n \in Nat /\ iter \in 1 .. n
      /\ DOMAIN connections = 1 .. n /\ connections' \in Seq(Connection)
      /\ Len(connections') = n - 1
      /\ \A j \in 1 .. n - 1 :
           connections'[j] = IF j < iter THEN connections[j] ELSE connections[j + 1]
  <2>1. connections \in Seq(Connection) /\ connections' = RemoveAt(connections, iter)
    BY DEF SeenInv, TcpInv, TypeOK, Drop
  <2>2. iter \in 1 .. n /\ n \in Nat /\ DOMAIN connections = 1 .. n
    BY <1>1, <2>1
  <2>3. /\ RemoveAt(connections, iter) \in Seq(Connection)
        /\ Len(RemoveAt(connections, iter)) = n - 1
        /\ \A j \in 1 .. n - 1 :
             RemoveAt(connections, iter)[j] = IF j < iter THEN connections[j] ELSE connections[j + 1]
    BY <2>1, <2>2, RemoveAtProperties
  <2>. QED BY <2>1, <2>2, <2>3
<1>4. stage[c] = "connected"
  BY <1>1 DEF SeenInv, TcpInv, ClientsInv
<1>5. \A i \in DOMAIN connections : i # iter =>
        connections[i].fd \in Fds \ {fd} /\ sock[connections[i].fd] # c
  <2>1. \A i \in DOMAIN connections : connections[i].fd \in {f \in Fds : sock[f] # None}
    BY DEF SeenInv, TcpInv, SocketsOwned
  <2>. QED BY <1>1, <2>1 DEF SeenInv, TcpInv, SocketsOwned, ClientsInv
<1>6. sock \in [Fds -> Clients \cup {None}] /\ stage \in [Clients -> {"out", "waiting", "connected", "gone"}]
  BY DEF SeenInv, TcpInv, TypeOK
<1>. HIDE DEF c, fd, n
<1>7. DOMAIN connections' = 1 .. n - 1
  BY <1>3
<1>8. ASSUME NEW j \in DOMAIN connections', connections'[j].type = "TTY"
      PROVE  sock'[connections'[j].fd] \in TtyClients \ {c}
  <2>1. PICK i \in DOMAIN connections : i # iter /\ connections'[j] = connections[i]
    BY <1>3, <1>7
  <2>2. sock'[connections'[j].fd] = sock[connections[i].fd] /\ sock[connections[i].fd] # c
    BY <1>2, <1>5, <1>6, <2>1
  <2>. QED BY <1>8, <2>1, <2>2, TtyClientsSet
<1>9. ASSUME NEW i \in DOMAIN connections, connections[i].type = "TTY", sock[connections[i].fd] # c
      PROVE  sock[connections[i].fd] \in TtyClients'
  <2>1. i # iter
    BY <1>1, <1>9
  <2>2. PICK j \in DOMAIN connections' : connections'[j] = connections[i]
    <3>1. CASE i < iter
      <4>1. i \in DOMAIN connections' /\ connections'[i] = connections[i]
        BY <1>3, <1>7, <3>1
      <4>. QED BY <4>1
    <3>2. CASE i > iter
      <4>1. i - 1 \in DOMAIN connections' /\ connections'[i - 1] = connections[i]
        BY <1>3, <1>7, <3>2
      <4>. QED BY <4>1
    <3>. QED BY <1>3, <2>1, <3>1, <3>2
  <2>3. sock'[connections'[j].fd] = sock[connections[i].fd]
    BY <1>2, <1>5, <1>6, <2>1, <2>2
  <2>. QED BY <1>9, <2>2, <2>3, TtyClientsNext
<1>10. TtyClients' = TtyClients \ {c}
  <2>1. \A x \in TtyClients' : x \in TtyClients \ {c}
    BY <1>8, TtyClientsNext
  <2>2. \A x \in TtyClients \ {c} : x \in TtyClients'
    BY <1>9, TtyClientsSet
  <2>. QED BY <2>1, <2>2
<1>11. Seen!Drop(c)
  BY <1>1, <1>2, <1>4, <1>10 DEF Seen!Drop, Seen!Moves
<1>. QED BY <1>1, <1>11 DEF Seen!Next

\* What tcpRead takes for a command is a line that its client sent in full.
LEMMA ReadsSeen ==
  ASSUME SeenInv, NEW cmd, Reads(cmd), cmd # "other"
  PROVE  cmd \in ToSet(sent[CurrentClient])
<1>1. CurrentClient \in Clients
  BY CurrentTyped DEF SeenInv, Reads
<1>2. PICK line \in Lines : stream[CurrentClient] = Pieces(line)
  BY DEF Reads
<1>3. /\ Pieces(line)[1].of = line /\ Pieces(line)[2].of = line /\ Pieces(line)[2].part = 2
      /\ 2 \in DOMAIN Pieces(line) /\ Head(Pieces(line)) = Pieces(line)[1]
  BY DEF Pieces
<1>4. cmd = line
  BY <1>2, <1>3 DEF Reads
<1>. QED BY <1>1, <1>2, <1>3, <1>4 DEF SeenInv, SentInv

\* The connection becomes a tty because its client asked for it, and it was none.
LEMMA ReadTtySeen == ASSUME SeenInv, ReadTty PROVE [Seen!Next]_Seen!vars
<1>. DEFINE c == CurrentClient
<1>1. /\ iter \in DOMAIN connections /\ c \in Clients /\ sock[connections[iter].fd] = c
      /\ connections[iter] \in Connection /\ connections[iter].fd \in Fds /\ c # None
  BY CurrentTyped DEF SeenInv, ReadTty, Reads, Current
<1>2. /\ pc = "scan" /\ connections[iter].type = "None"
      /\ UNCHANGED <<pc, stopFlag, sock, stage, sent, closed>>
  BY DEF ReadTty, Reads, AtConnection, Current, clientVars
<1>3. "type tty" \in ToSet(sent[c])
  BY ReadsSeen DEF ReadTty
<1>4. stage[c] = "connected"
  BY <1>1 DEF SeenInv, TcpInv, ClientsInv
<1>5. \A i \in DOMAIN connections : i # iter => sock[connections[i].fd] # c
  <2>1. \A i \in DOMAIN connections : connections[i].fd \in {f \in Fds : sock[f] # None}
    BY DEF SeenInv, TcpInv, SocketsOwned
  <2>. QED BY <1>1, <2>1 DEF SeenInv, TcpInv, SocketsOwned, ClientsInv
<1>6. connections \in Seq(Connection)
  BY DEF SeenInv, TcpInv, TypeOK
<1>. HIDE DEF c
<1>7. CASE UNCHANGED connections
  <2>1. UNCHANGED <<stage, sent, closed, stopFlag, connections, sock>> /\ pc' = pc
    BY <1>2, <1>7
  <2>. QED BY <2>1, SeenSame
<1>8. CASE connections' = [connections EXCEPT ![iter].type = "TTY"]
  <2>1. /\ DOMAIN connections' = DOMAIN connections
        /\ \A i \in DOMAIN connections : i # iter => connections'[i] = connections[i]
        /\ connections'[iter] = [connections[iter] EXCEPT !.type = "TTY"]
    BY <1>1, <1>6, <1>8
  <2>2. connections'[iter].type = "TTY" /\ connections'[iter].fd = connections[iter].fd
    BY <1>1, <2>1 DEF Connection
  <2>3. TtyClients' = TtyClients \cup {c}
    <3>1. ASSUME NEW i \in DOMAIN connections', connections'[i].type = "TTY"
          PROVE  sock'[connections'[i].fd] \in TtyClients \cup {c}
      <4>1. CASE i = iter
        BY <1>1, <1>2, <2>2, <4>1
      <4>2. CASE i # iter
        <5>1. /\ i \in DOMAIN connections /\ connections[i].type = "TTY"
              /\ sock'[connections'[i].fd] = sock[connections[i].fd]
          BY <1>2, <2>1, <3>1, <4>2
        <5>. QED BY <5>1, TtyClientsSet
      <4>. QED BY <4>1, <4>2
    <3>2. c \in TtyClients'
      BY <1>1, <1>2, <2>1, <2>2, TtyClientsNext
    <3>3. \A x \in TtyClients : x \in TtyClients'
      BY <1>1, <1>2, <2>1, <2>2, TtyClientsSet, TtyClientsNext
    <3>4. \A x \in TtyClients' : x \in TtyClients \cup {c}
      BY <3>1, TtyClientsNext
    <3>. QED BY <3>2, <3>3, <3>4
  <2>4. c \notin TtyClients
    BY <1>2, <1>5, TtyClientsSet
  <2>5. Seen!HasSent(c, "type tty")
    BY <1>3 DEF Seen!HasSent, Seen!ToSet, ToSet
  <2>6. Seen!BecomeTty(c)
    BY <1>2, <1>4, <2>3, <2>4, <2>5 DEF Seen!BecomeTty
  <2>. QED BY <1>1, <2>6 DEF Seen!Next
<1>. QED BY <1>7, <1>8 DEF ReadTty

\* The server stops because a connected client asked for it.
LEMMA ReadStopSeen == ASSUME SeenInv, ReadStop PROVE [Seen!Next]_Seen!vars
<1>. DEFINE c == CurrentClient
<1>1. c \in Clients /\ Current.fd \in Fds /\ sock[Current.fd] = c /\ c # None
  BY CurrentTyped DEF SeenInv, ReadStop, Reads
<1>2. /\ pc = "scan" /\ stopFlag' = TRUE
      /\ UNCHANGED <<pc, connections, sock, stage, sent, closed>>
  BY DEF ReadStop, Reads, AtConnection, clientVars
<1>3. "stop" \in ToSet(sent[c])
  BY ReadsSeen DEF ReadStop
<1>4. stage[c] = "connected"
  BY <1>1 DEF SeenInv, TcpInv, ClientsInv
<1>5. UNCHANGED TtyClients
  BY <1>2 DEF TtyClients
<1>. HIDE DEF c
<1>6. Seen!HasSent(c, "stop")
  BY <1>3 DEF Seen!HasSent, Seen!ToSet, ToSet
<1>7. Seen!Stop(c)
  BY <1>2, <1>4, <1>5, <1>6 DEF Seen!Stop
<1>. QED BY <1>1, <1>7 DEF Seen!Next

LEMMA MainLoopSeen == ASSUME SeenInv, MainLoop PROVE [Seen!Next]_Seen!vars
<1>1. CASE Select \/ NoAccept \/ Skip \/ ReadIgnored \/ PollDone
  <2>1. /\ UNCHANGED <<stage, sent, closed, stopFlag, connections, sock>>
        /\ pc' # "ended" /\ pc # "ended"
    BY <1>1 DEF Select, NoAccept, Skip, ReadIgnored, Reads, PollDone, AtConnection, clientVars
  <2>. QED BY <2>1, SeenSame
<1>2. CASE Ended
  <2>1. /\ pc = "idle" /\ pc' = "ended" /\ stopFlag
        /\ UNCHANGED <<stage, sent, closed, stopFlag, connections, sock>>
    BY <1>2 DEF Ended, clientVars
  <2>2. UNCHANGED TtyClients
    BY <2>1 DEF TtyClients
  <2>3. Seen!End
    BY <2>1, <2>2 DEF Seen!End
  <2>. QED BY <2>3 DEF Seen!Next
<1>. QED BY <1>1, <1>2, AcceptSeen, DropSeen, ReadTtySeen, ReadStopSeen DEF MainLoop

\* Each step of the daemon, of a client or of a shell is a step of CommandServer
\* or nobody sees it.
LEMMA StepSeen == ASSUME SeenInv, [Next]_vars PROVE [Seen!Next]_Seen!vars
<1>1. CASE UNCHANGED vars
  <2>1. UNCHANGED <<stage, sent, closed, stopFlag, connections, sock>> /\ pc' = pc
    BY <1>1 DEF vars, daemonVars, clientVars
  <2>. QED BY <2>1, SeenSame
<1>2. CASE Next
  BY <1>2, MainLoopSeen, ClientSeen DEF Next
<1>. QED BY <1>1, <1>2

LEMMA InitSeen == Init => Seen!Init
<1>1. Init => TtyClients = {}
  <2>1. DOMAIN <<>> = {}
    OBVIOUS
  <2>2. Init => {i \in DOMAIN connections : connections[i].type = "TTY"} = {}
    BY <2>1 DEF Init
  <2>. QED BY <2>2, TtyClientsSet
<1>. QED BY <1>1 DEF Init, Seen!Init

\* Whatever clients, descriptors and limits there are, the daemon keeps what
\* CommandServer promises: it accepts those that wait, drops only connections
\* whose clients left, and starts a shell or stops only for a connected client
\* that sent the line in full (server.cpp:462-560).
THEOREM CommandServerImplemented == Spec => ImplementsCommandServer
<1>1. Init => SeenInv
  BY SeenInvInit
<1>2. SeenInv /\ [Next]_vars => SeenInv'
  BY SeenInvNext
<1>3. SeenInv /\ [Next]_vars => [Seen!Next]_Seen!vars
  BY StepSeen
<1>4. Init => Seen!Init
  BY InitSeen
<1>. QED BY <1>1, <1>2, <1>3, <1>4, PTL DEF Spec, ImplementsCommandServer, Seen!Spec
=============================================================================

--------------------------- MODULE CommandServer ---------------------------
(***************************************************************************)
(* What the daemon's clients can rely on, without descriptors, snapshots   *)
(* or a list: a connection is accepted, may become a tty, and is given up  *)
(* only after its client left.  Each of the daemon's decisions answers a   *)
(* line that a client has sent in full.  A line may also be ignored.       *)
(***************************************************************************)
EXTENDS SequencesExt

CONSTANTS Clients, Lines

VARIABLES
  stage,    \* how far each connection got
  tty,      \* the connected clients whose connection is a tty
  sent,     \* the lines of each client
  left,     \* the clients that have left
  server    \* "serving", "stopping" or "ended"

vars == <<stage, tty, sent, left, server>>

Init ==
  /\ stage = [c \in Clients |-> "out"]
  /\ tty = {} /\ left = {}
  /\ sent = [c \in Clients |-> <<>>]
  /\ server = "serving"

HasSent(c, line) == line \in ToSet(sent[c])

Moves(c, from, to) == stage[c] = from /\ stage' = [stage EXCEPT ![c] = to]

\* The kernel answers, and a shell may still hold its end after the server ended.
Connect(c) == Moves(c, "out", "waiting") /\ UNCHANGED <<tty, sent, left, server>>

Send(c) ==
  /\ stage[c] \in {"waiting", "connected"} /\ c \notin left
  /\ \E line \in Lines : sent' = [sent EXCEPT ![c] = Append(@, line)]
  /\ UNCHANGED <<stage, tty, left, server>>

Leave(c) == left' = left \cup {c} /\ UNCHANGED <<stage, tty, sent, server>>

Accept(c) == server # "ended" /\ Moves(c, "waiting", "connected") /\ UNCHANGED <<tty, sent, left, server>>

BecomeTty(c) ==
  /\ server # "ended" /\ stage[c] = "connected" /\ HasSent(c, "type tty")
  /\ c \notin tty /\ tty' = tty \cup {c}
  /\ UNCHANGED <<stage, sent, left, server>>

Drop(c) ==
  /\ server # "ended" /\ c \in left /\ Moves(c, "connected", "gone")
  /\ tty' = tty \ {c}
  /\ UNCHANGED <<sent, left, server>>

Stop(c) ==
  /\ server # "ended" /\ stage[c] = "connected" /\ HasSent(c, "stop")
  /\ server' = "stopping"
  /\ UNCHANGED <<stage, tty, sent, left>>

End == server = "stopping" /\ server' = "ended" /\ UNCHANGED <<stage, tty, sent, left>>

Next ==
  \/ End
  \/ \E c \in Clients :
       \/ Connect(c) \/ Send(c) \/ Leave(c) \/ Accept(c)
       \/ BecomeTty(c) \/ Drop(c) \/ Stop(c)

Spec == Init /\ [][Next]_vars
=============================================================================

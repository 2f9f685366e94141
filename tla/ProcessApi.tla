----------------------------- MODULE ProcessApi -----------------------------
(***************************************************************************)
(* What the platform's system calls promise to a program, without images,  *)
(* vectors or kernel descriptors: a process has a pid, a working directory *)
(* and a table of open descriptors, each leading to a file or device.      *)
(*                                                                         *)
(* Two promises are those of this platform and not of Linux: a child of    *)
(* fork starts with no descriptors, and so does a program after exec.      *)
(* A call may fail at any time and then changes nothing.                   *)
(***************************************************************************)
EXTENDS Naturals

CONSTANTS
  Posix,    \* the processes
  Daemon,   \* the caller recorded when no call has been made
  Targets,  \* what a descriptor can lead to
  Dirs,     \* working directories
  Pids,     \* pids a process can have
  Slots,    \* descriptors a process can hold
  Args,     \* what a call can be given
  None      \* no result

VARIABLES
  live,     \* processes that run
  pid,      \* their pids (0 for the others)
  opened,   \* their descriptors: a function from the open ones to targets
  cwd,      \* their working directories (None for the others)
  last      \* the last call

vars == <<live, pid, opened, cwd, last>>

NoFds == [s \in {} |-> None]

Init ==
  /\ live = {}
  /\ pid = [p \in Posix |-> 0]
  /\ opened = [p \in Posix |-> NoFds]
  /\ cwd = [p \in Posix |-> None]
  /\ last = [by |-> Daemon, call |-> "none", arg |-> None, val |-> None]

Returns(p, call, arg, val) ==
  last' = [by |-> p, call |-> call, arg |-> arg, val |-> val]

NoEffect == UNCHANGED <<live, pid, opened, cwd>>

\* A process comes to life with pid n, directory d and no descriptors.
Born(p, n, d) ==
  /\ p \notin live
  /\ live' = live \cup {p}
  /\ pid' = [pid EXCEPT ![p] = n]
  /\ opened' = [opened EXCEPT ![p] = NoFds]
  /\ cwd' = [cwd EXCEPT ![p] = d]

Dies(p) ==
  /\ live' = live \ {p}
  /\ pid' = [pid EXCEPT ![p] = 0]
  /\ opened' = [opened EXCEPT ![p] = NoFds]
  /\ cwd' = [cwd EXCEPT ![p] = None]

\* The daemon starts init or a shell.
Spawn == UNCHANGED last /\ \E p \in Posix, n \in Pids, d \in Dirs : Born(p, n, d)

\* The pid fork returns is the child's own, and larger than its parent's.
Fork(p) ==
  \E n \in Pids, child \in Posix :
    /\ Returns(p, "fork", None, n)
    /\ n > pid[p]
    /\ Born(child, n, cwd[p])

\* The pid and the working directory survive, descriptors do not.
Exec(p) ==
  /\ \E dir \in Dirs : Returns(p, "exec", dir, cwd[p])
  /\ opened' = [opened EXCEPT ![p] = NoFds]
  /\ UNCHANGED <<live, pid, cwd>>

\* The lowest descriptor that is not open comes to lead to the path opened.
Open(p) ==
  \E t \in Targets, s \in Slots :
    /\ Returns(p, "open", t, s)
    /\ s \notin DOMAIN opened[p]
    /\ \A r \in Slots : r < s => r \in DOMAIN opened[p]
    /\ opened' = [opened EXCEPT ![p] =
                    [r \in DOMAIN @ \cup {s} |-> IF r = s THEN t ELSE @[r]]]
    /\ UNCHANGED <<live, pid, cwd>>

\* Data comes from exactly what was opened; write may also be refused.
Transfer(p) ==
  \E s \in Slots :
    LET t == IF s \in DOMAIN opened[p] THEN opened[p][s] ELSE None IN
    /\ Returns(p, "read", s, t) \/ Returns(p, "write", s, t)
    /\ NoEffect

Close(p) ==
  \E s \in DOMAIN opened[p] :
    /\ Returns(p, "close", s, 0)
    /\ opened' = [opened EXCEPT ![p] = [r \in DOMAIN @ \ {s} |-> @[r]]]
    /\ UNCHANGED <<live, pid, cwd>>

Query(p) ==
  /\ Returns(p, "getpid", None, pid[p]) \/ Returns(p, "getcwd", None, cwd[p])
  /\ NoEffect

ChDir(p) ==
  \E d \in Dirs :
    /\ Returns(p, "chdir", d, 0)
    /\ cwd' = [cwd EXCEPT ![p] = d]
    /\ UNCHANGED <<live, pid, opened>>

Fails(p) ==
  /\ \E call \in {"fork", "exec", "open", "write", "close", "chdir"}, arg \in Args :
       Returns(p, call, arg, None)
  /\ NoEffect

Exit(p) == (Returns(p, "exit", None, None) \/ UNCHANGED last) /\ Dies(p)

Next ==
  \/ Spawn
  \/ \E p \in live :
       \/ Fork(p) \/ Exec(p) \/ Open(p) \/ Transfer(p) \/ Close(p)
       \/ Query(p) \/ ChDir(p) \/ Fails(p) \/ Exit(p)

Spec == Init /\ [][Next]_vars

=============================================================================

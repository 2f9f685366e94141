-------------------------- MODULE ProcessRefinement --------------------------
(***************************************************************************)
(* How the state of VirtualProcesses is seen by a program: the state of    *)
(* ProcessApi computed from it.                                            *)
(***************************************************************************)
EXTENDS VirtualProcesses

\* What getpid() answers in p.
PidOf(p) == CHOOSE i \in FindPid(image[p], p) : TRUE

ApiPid == [p \in Posix |-> IF p \in Running THEN PidOf(p) ELSE 0]

\* The open slots of p and what each leads to, through fdEntries and kernel.
ApiOpened ==
  [p \in Posix |->
     IF p \in Running
     THEN [s \in OpenSlots(image[p], PidOf(p)) |-> Target(image[p], PidOf(p), s)]
     ELSE [s \in {} |-> None]]

ApiCwd ==
  [p \in Posix |-> IF p \in Running THEN image[p].procs[PidOf(p)].cwd ELSE None]

Api == INSTANCE ProcessApi WITH
  live <- Running, pid <- ApiPid, opened <- ApiOpened, cwd <- ApiCwd,
  Targets <- Files \cup Devices, Pids <- 2 .. MaxProcs, Slots <- 1 .. MaxSlots,
  Args <- {None} \cup Files \cup Devices \cup Dirs \cup 1 .. MaxSlots

\* Every step of the processes is, seen by the programs, a step of ProcessApi
\* or none: pids that agree with what fork returned, descriptors that lead to
\* what was opened, a directory that no other program changes.
ImplementsApi == Api!Spec
=============================================================================

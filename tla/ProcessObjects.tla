--------------------------- MODULE ProcessObjects ---------------------------
(***************************************************************************)
(* The memory behind the process table: the Process objects of one POSIX   *)
(* process, what they own, and the libraries that dlopen holds for them.   *)
(*                                                                         *)
(* Memory is private, so it is enough to follow one line of descent: the   *)
(* daemon, and at each fork(2) either the parent or the child.  Each       *)
(* allocation on the way can fail.  Two things are not Process objects and *)
(* left out: the environment, which nothing ever sets, and memory that     *)
(* belongs to programs.                                                    *)
(***************************************************************************)
EXTENDS Integers, Sequences, FiniteSets

CONSTANTS
  Libs,     \* programs that can be loaded
  MaxObjs,  \* bound on the Process objects created
  None      \* NULL, and no process

ASSUME ObjectsAssumption == None \notin Libs \cup Nat /\ MaxObjs \in Nat \ {0}

VARIABLES
  mem,    \* objs: the objects in the order of their creation; libs: how often
          \* dlopen holds each library; heap: "corrupt" after a double free,
          \* and nothing can be said of what comes then
  procs,  \* Server::procs, positions in mem.objs
  curr    \* the position in procs that runs, 0 for the daemon, None at the end

vars == <<mem, procs, curr>>

\* Pointers of an object to memory of its own.
Fields == {"argv", "name", "path", "cwd"}

\* own: pointers to allocated memory.  dangling: pointers to freed memory.
Process == [live : BOOLEAN, own : SUBSET Fields, dangling : SUBSET Fields,
            handle : Libs \cup {None}]

\* What the constructor makes, and what delete leaves.
NewProcess == [live |-> TRUE, own |-> {}, dangling |-> {}, handle |-> None]
Deleted == [NewProcess EXCEPT !.live = FALSE]

Memory == [objs : Seq(Process), libs : [Libs -> Nat], heap : {"sound", "corrupt"}]

TypeOK ==
  /\ mem \in Memory /\ Len(mem.objs) \in 1 .. MaxObjs
  /\ procs \in Seq(DOMAIN mem.objs)
  /\ curr \in 0 .. Len(procs) \cup {None}

\* Server's constructor has made the dummy process.
Init ==
  /\ mem = [objs |-> <<NewProcess>>, libs |-> [l \in Libs |-> 0], heap |-> "sound"]
  /\ procs = <<1>>
  /\ curr = 0

-----------------------------------------------------------------------------
(* Making and destroying objects.  m is a memory, i a position in m.objs.  *)

\* Object i opens lib, and dlclose on whatever library it has open.
DlOpen(m, i, lib) == [m EXCEPT !.objs[i].handle = lib, !.libs[lib] = @ + 1]

DlClose(m, i) ==
  [m EXCEPT !.objs[i].handle = None,
            !.libs = [l \in Libs |-> IF l = m.objs[i].handle THEN @[l] - 1 ELSE @[l]]]

\* The steps of a function that sets up object i, which may stop after any.
Done(m, i, steps, lib) ==
  LET opened == IF "handle" \in steps THEN DlOpen(m, i, lib) ELSE m
  IN  [opened EXCEPT !.objs[i].own = @ \cup (steps \ {"handle"})]

\* Fault: the error path of loadFileLocal closes the library twice.
LoadErrorTwice(m, i) ==
  [DlClose(m, i) EXCEPT
     !.objs[i].own = {},
     !.libs = [l \in Libs |-> IF l = m.objs[i].handle THEN @[l] - 1 ELSE @[l]]]

\* The error paths of loadFileLocal and loadFileFS, which clear the pointers.
LoadError(m, i) == [DlClose(m, i) EXCEPT !.objs[i].own = {}]

\* loadFileFS of lib into a new object: everything, or nothing after an error.
Loads(m, lib) ==
  LET fresh == [m EXCEPT !.objs = Append(@, NewProcess)]
      i == Len(fresh.objs)
  IN  [ok : {TRUE}, mem : {Done(fresh, i, {"cwd", "handle", "name", "path"}, lib)}]
      \cup
      [ok : {FALSE},
       mem : {LoadError(Done(fresh, i, steps, lib), i) :
                steps \in {{}, {"cwd"}, {"cwd", "handle"}, {"cwd", "handle", "name"}}}]

\* ~Process: closes the library and frees what the pointers name, which corrupts
\* the heap if that, or the object itself, was freed before.
Delete(m, i) ==
  [DlClose(m, i) EXCEPT
     !.objs[i] = Deleted,
     !.heap = IF m.objs[i].live /\ m.objs[i].dangling = {} THEN @ ELSE "corrupt"]

\* setCwd: the old directory is freed once there is a copy of the new one, or
\* kept.
SetCwd(m, i) == {[m EXCEPT !.objs[i].own = @ \cup {"cwd"}], m}

\* The process that runs has been given arguments of its own.
WithArgv(m, i) == [m EXCEPT !.objs[i].own = @ \cup {"argv"}]

-----------------------------------------------------------------------------
(* The daemon.                                                             *)

\* There is room for another object, and nothing undefined has happened.
Goes == mem.heap = "sound" /\ Len(mem.objs) < MaxObjs

\* run for init, tcpRead for a shell.  When loading, the arguments or fork(2)
\* fail, the object stays, and without init the daemon ends.  In the child the
\* new process runs; in the daemon it is not used again.
DaemonStarts ==
  /\ curr = 0 /\ Goes
  /\ \E lib \in Libs : \E loaded \in Loads(mem, lib) :
       LET i == Len(loaded.mem.objs)
           added == Append(procs, i)
           given_up == IF Len(procs) = 1 THEN None ELSE 0
       IN  \/ ~loaded.ok /\ mem' = loaded.mem /\ procs' = procs /\ curr' = given_up
           \/ loaded.ok /\ mem' = loaded.mem /\ procs' = added /\ curr' \in {0, given_up}
           \/ /\ loaded.ok
              /\ mem' = WithArgv(loaded.mem, i) /\ procs' = added /\ curr' = Len(added)

-----------------------------------------------------------------------------
(* System calls of the program that runs.                                  *)

Running == curr # None /\ curr # 0

\* forkCopy fails in an allocation or in dlopen, or dlsym does not find a
\* function.  The error path frees the child's fields and closes its library, but
\* leaves the pointers and the handle, and delete then does both again.  Where
\* there is no library yet, dlclose(NULL) ends the process or does nothing.
ForkCopyFails ==
  LET child == [mem EXCEPT !.objs = Append(@, NewProcess)]
      c == Len(child.objs)
      lib == mem.objs[procs[curr]].handle
      Freed(m, fields) == [m EXCEPT !.objs[c].dangling = fields]
  IN  /\ \/ \E fields \in {{}, {"argv"}, {"argv", "name"}, {"argv", "name", "path"}, Fields} :
              mem' = Delete(Freed(child, fields), c)
         \/ mem' = Delete([Freed(DlOpen(child, c, lib), Fields) EXCEPT !.libs[lib] = @ - 1], c)
      /\ curr' \in {curr, None}
      /\ UNCHANGED procs

\* Fault: the child shares its parent's library without opening it again.
ForkCopySharing(i) ==
  Done([mem EXCEPT !.objs = Append(@, [NewProcess EXCEPT !.handle = mem.objs[i].handle])],
       Len(mem.objs) + 1, Fields, None)

\* The memory after forkCopy of object i.
ForkCopy(i) ==
  Done([mem EXCEPT !.objs = Append(@, NewProcess)], Len(mem.objs) + 1,
       Fields \cup {"handle"}, mem.objs[i].handle)

\* processFork.  When fork(2) fails the child leaves the table but is not
\* deleted.  Parent and child both have it otherwise.
Fork ==
  /\ Running /\ Goes
  /\ \/ ForkCopyFails
     \/ /\ mem' = ForkCopy(procs[curr])
        /\ \/ procs' = procs /\ curr' = curr
           \/ procs' = Append(procs, Len(mem'.objs)) /\ curr' \in {curr, Len(procs')}

\* Fault: the table keeps the object that was freed.
ExecUnlisted ==
  /\ Running /\ Goes
  /\ \E lib \in Libs : \E loaded \in Loads(mem, lib) :
       /\ loaded.ok
       /\ mem' = WithArgv(Delete(loaded.mem, procs[curr]), Len(loaded.mem.objs))
  /\ UNCHANGED <<procs, curr>>

\* SysCommonSysCallExec: a new object takes the caller's place in the table,
\* and the caller's is freed with the library it runs from, which it does not
\* return to.
Exec ==
  /\ Running /\ Goes
  /\ \E lib \in Libs : \E loaded \in Loads(mem, lib) :
       LET i == Len(loaded.mem.objs) IN
       \/ ~loaded.ok /\ mem' = loaded.mem /\ procs' = procs
       \/ /\ loaded.ok
          /\ \E m \in SetCwd(loaded.mem, i) : mem' = WithArgv(Delete(m, procs[curr]), i)
          /\ procs' = [procs EXCEPT ![curr] = i]
  /\ UNCHANGED curr

\* SysCommonSysCallChDir.
ChDir ==
  /\ Running /\ mem.heap = "sound"
  /\ mem' \in SetCwd(mem, procs[curr])
  /\ UNCHANGED <<procs, curr>>

\* syscallExit: the table keeps a pointer to what is freed, for as long as
\* exit(3) takes.
Exit ==
  /\ Running /\ mem.heap = "sound"
  /\ mem' = Delete(mem, procs[curr])
  /\ curr' = None
  /\ UNCHANGED procs

Next == DaemonStarts \/ Fork \/ Exec \/ ChDir \/ Exit

Spec == Init /\ [][Next]_vars

-----------------------------------------------------------------------------
(* Properties.                                                             *)

\* As long as nothing was freed twice, each library is held exactly as often as
\* there are objects that hold it, so that exec of one process unloads no other's
\* program, and a program that nobody has loaded starts from its file.  What the
\* error path of forkCopy does (process.cpp:337-348) is the exception: it frees a
\* child's fields twice and may close its library twice.
HandlesBalanced ==
  mem.heap = "sound" =>
    \A lib \in Libs :
      mem.libs[lib] = Cardinality({i \in DOMAIN mem.objs : mem.objs[i].handle = lib})

\* As long as nothing was freed twice, the process table leads to objects that
\* exist, and the program that runs is mapped: fork's restart and
\* serverSysCall's search use every entry.
TableUsable ==
  mem.heap = "sound" /\ curr # None =>
    /\ \A k \in DOMAIN procs : mem.objs[procs[k]].live
    /\ Running => mem.libs[mem.objs[procs[curr]].handle] > 0
=============================================================================

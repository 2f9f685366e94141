-------------------------- MODULE VirtualProcesses --------------------------
(***************************************************************************)
(* The processes of the platform and their system calls.                   *)
(*                                                                         *)
(* The daemon forks a POSIX process for init and one for each tty's shell; *)
(* programs fork further ones.  Each has an image of its own, and each     *)
(* system call runs serverSysCall in the caller's image: it finds the      *)
(* caller by its POSIX pid and then works on that process.  A step is one  *)
(* whole call, which no other process can observe half-way since nothing   *)
(* it touches is shared.                                                   *)
(***************************************************************************)
EXTENDS ServerImage, FiniteSets

CONSTANTS
  Daemon,      \* the POSIX process that runs Server::run
  Recycle,     \* whether the kernel reuses the pid of a dead POSIX process
  CloseFails,  \* whether close(2) can report an error
  CwdFails,    \* whether memory can run out in setCwd
  Observe,     \* whether last records the calls' results
  MaxProcs,    \* bound on the length of procs
  MaxSlots,    \* bound on the length of a descriptor table
  MaxEntries,  \* bound on the length of fdEntries
  MaxRefs      \* bound on a device's reference count

ASSUME VPAssumption ==
  /\ Daemon \in Posix
  /\ {Recycle, CloseFails, CwdFails, Observe} \subseteq BOOLEAN
  /\ {MaxProcs, MaxSlots, MaxEntries, MaxRefs} \subseteq Nat

VARIABLES
  live,   \* the POSIX processes that exist
  used,   \* the POSIX pids handed out so far
  reused, \* history: those handed out more than once
  image,  \* the image of each POSIX process
  last    \* the last system call: who made it, with what argument, its result

vars == <<live, used, reused, image, last>>

Calls == {"none", "fork", "exec", "open", "read", "write", "close",
          "getpid", "getcwd", "chdir", "exit"}
Results == Nat \cup Files \cup Devices \cup Dirs \cup {None}

TypeOK ==
  /\ live \subseteq used /\ used \subseteq Posix /\ reused \subseteq used
  /\ image \in [Posix -> Image]
  /\ last \in [by : Posix, call : Calls, arg : Results, val : Results]

NoCall == [by |-> Daemon, call |-> "none", arg |-> None, val |-> None]

Init ==
  /\ live = {Daemon} /\ used = {Daemon} /\ reused = {}
  /\ image = [p \in Posix |-> BootImage]
  /\ last = NoCall

-----------------------------------------------------------------------------
(* POSIX processes.                                                        *)

\* fork(2) succeeds in p: child is a pid the kernel may hand out, and the
\* images p and its child go on with are given.  Daemon names a role too, and
\* is no pid that comes back.
Forked(p, child, parentImage, childImage) ==
  /\ child \notin live \cup {Daemon}
  /\ ~Recycle => child \notin used
  /\ live' = live \cup {child}
  /\ used' = used \cup {child}
  /\ reused' = reused \cup ({child} \cap used)
  /\ image' = [image EXCEPT ![p] = parentImage, ![child] = childImage]

\* POSIX process p ends; its memory is gone.
Ends(p) ==
  /\ live' = live \ {p}
  /\ image' = [image EXCEPT ![p] = BootImage]
  /\ UNCHANGED <<used, reused>>

-----------------------------------------------------------------------------
(* The daemon.                                                             *)

\* arun with doFork for the process just added: the child gets pid Len(procs),
\* the daemon's own copy keeps it Loaded and without a POSIX pid.
RunForked(img, pid) ==
  \E child \in Posix :
    Forked(Daemon, child, img, RunIn(img, pid, child))

\* Server::run up to the main loop: load init, add it, run it.  Each failure
\* makes run return false, and the daemon exits.
RunInit ==
  LET img == AddProc(image[Daemon], Loaded(SysDir)) IN
  /\ Daemon \in live
  /\ Len(image[Daemon].procs) = 1
  /\ RunForked(img, Len(img.procs)) \/ Ends(Daemon)
  /\ UNCHANGED last

\* tcpRead on "type tty": register the next tty, load a shell, add it and run
\* it.  What was done before a failing step is not undone.
SpawnShell ==
  /\ Daemon \in live
  /\ Len(image[Daemon].procs) \in 2 .. MaxProcs - 1
  /\ \E n \in TtyName(image[Daemon]) :
       LET named == [image[Daemon] EXCEPT !.devices[n] = 0]
           added == AddProc(named, Loaded(BinDir))
       IN  \/ \E img \in {named, added} :      \* loadFileFS, then fork(2) fails
                /\ image' = [image EXCEPT ![Daemon] = img]
                /\ UNCHANGED <<live, used, reused>>
           \/ RunForked(added, Len(added.procs))
  /\ UNCHANGED last

\* The main loop ends; the programs are left running.
DaemonExits ==
  /\ Daemon \in live
  /\ Len(image[Daemon].procs) > 1
  /\ Ends(Daemon)
  /\ UNCHANGED last

-----------------------------------------------------------------------------
(* System calls.                                                           *)

\* The POSIX processes that run a program.
Running == live \ {Daemon}

\* The call returns val to p; a call without effect leaves the image alone.
Returns(p, call, arg, val) ==
  last' = IF Observe THEN [by |-> p, call |-> call, arg |-> arg, val |-> val] ELSE last

NoEffect == UNCHANGED <<live, used, reused, image>>

\* The image of p becomes img and nothing else changes.
Becomes(p, img) ==
  /\ image' = [image EXCEPT ![p] = img]
  /\ UNCHANGED <<live, used, reused>>

\* Server::processFork.  Only the child's copy learns the child's POSIX pid.
\* A failed fork(2) pops the copy again.
Fork(p, pid) ==
  LET img == image[p]
      next == AddProc(img, ForkCopy(img.procs[pid]))
      childPID == Len(next.procs)
  IN  /\ childPID <= MaxProcs
      /\ \/ /\ \E child \in Posix :
                 Forked(p, child, next, RunIn(next, childPID, child))
            /\ Returns(p, "fork", None, childPID)
         \/ NoEffect /\ Returns(p, "fork", None, None)

\* Process::setCwd: the directory a process can have after it, the old one when
\* there is no memory for a copy of the new one.
SetCwd(old, new) == {new} \cup (IF CwdFails THEN {old} ELSE {})

\* SysCommonSysCallExec of a program in directory dir.  On success the
\* descriptors are closed and the new program runs in the same POSIX process,
\* in the caller's directory; but nobody looks at what setCwd returns.
Exec(p, pid) ==
  LET img == image[p] IN
  \/ \E dir \in Dirs, errs \in SUBSET (IF CloseFails THEN OpenSlots(img, pid) ELSE {}) :
       \E cwd \in SetCwd(dir, img.procs[pid].cwd) :
         LET fresh == [Loaded(dir) EXCEPT !.cwd = cwd]
             freed == ProcessFree(img, pid, errs)
         IN  /\ Becomes(p, RunIn([freed EXCEPT !.procs[pid] = fresh], pid, p))
             /\ Returns(p, "exec", dir, cwd)
  \/ NoEffect /\ Returns(p, "exec", None, None)

\* Fault: the error path of fdOpenFdFromFile does not close pathFd.
FdOpenFdFromFileLeaking(p, pid, file, flags) ==
  /\ \E k \in KernelFd(image[p]) :
       Becomes(p, [image[p] EXCEPT !.kernel[k] = [file |-> file, access |-> flags]])
  /\ Returns(p, "open", file, None)

\* fdOpenFdFromFile: open(2) with the flags it is given, then an entry and a
\* slot; -1 when open(2) or an allocation fails, with the number closed again.
FdOpenFdFromFile(p, pid, file, flags) ==
  LET img == image[p] IN
  \/ \E k \in KernelFd(img), e \in FdCreate(img), s \in FdSlot(img.procs[pid].fds) :
       LET opened == [img EXCEPT !.kernel[k] = [file |-> file, access |-> flags]] IN
       /\ e <= MaxEntries /\ s <= MaxSlots
       /\ Becomes(p, FdInstall(opened, pid, e, s, "Fd", k))
       /\ Returns(p, "open", file, s)
  \/ NoEffect /\ Returns(p, "open", file, None)

\* Fault: fdOpenFdFromDevice finds the device without counting the reference.
FdOpenFdFromDeviceUncounted(p, pid, name) ==
  /\ image[p].devices[name] # -1
  /\ \E e \in FdCreate(image[p]), s \in FdSlot(image[p].procs[pid].fds) :
       /\ e <= MaxEntries /\ s <= MaxSlots
       /\ Becomes(p, FdInstall(image[p], pid, e, s, "Device", name))
       /\ Returns(p, "open", name, s)

\* fdOpenFdFromDevice: Devices::open counts the reference first, and a failed
\* allocation after that leaves it counted.
FdOpenFdFromDevice(p, pid, name) ==
  LET img == image[p]
      counted == [img EXCEPT !.devices[name] = @ + 1]
  IN  \/ /\ img.devices[name] \in 0 .. MaxRefs - 1
         /\ \/ \E e \in FdCreate(img), s \in FdSlot(img.procs[pid].fds) :
                 /\ e <= MaxEntries /\ s <= MaxSlots
                 /\ Becomes(p, FdInstall(counted, pid, e, s, "Device", name))
                 /\ Returns(p, "open", name, s)
            \/ Becomes(p, counted) /\ Returns(p, "open", name, None)
      \/ /\ img.devices[name] = -1
         /\ NoEffect /\ Returns(p, "open", name, None)

\* fdOpenFdFromPath.
FdOpenFdFromPath(p, pid, path, flags, mode) ==
  IF path \in Devices THEN FdOpenFdFromDevice(p, pid, path)
                      ELSE FdOpenFdFromFile(p, pid, path, flags)

\* SysCommonSysCallOpen, which hands its two last arguments over in the order
\* mode, flags.  Every program under src/ passes mode 0.
Open(p, pid) ==
  \E path \in Files \cup Devices, flags \in {O_RDONLY, O_RDWR}, mode \in {0} :
    FdOpenFdFromPath(p, pid, path, mode, flags)

\* The slots a program can name: those open() returned to it at some time.
Held(p, pid) == DOMAIN image[p].procs[pid].fds

\* SysCommonSysCallRead and fdRead: the result is what the data comes from.
Read(p, pid) ==
  \E s \in Held(p, pid) :
    NoEffect /\ Returns(p, "read", s, Target(image[p], pid, s))

\* SysCommonSysCallWrite and fdWrite: the kernel refuses a descriptor that is
\* not open for writing, /dev/full refuses everything.
Write(p, pid) ==
  \E s \in Held(p, pid) :
    LET img == image[p]
        entry == FdGet(img, img.procs[pid].fds[s])
        accepted == IF entry.type = "Fd"
                    THEN img.kernel[entry.d] # None /\ img.kernel[entry.d].access = O_RDWR
                    ELSE entry.d # FullDevice
    IN  /\ NoEffect
        /\ Returns(p, "write", s, IF accepted THEN Target(img, pid, s) ELSE None)

\* SysCommonSysCallClose and fdClose.
Close(p, pid) ==
  \E s \in Held(p, pid), err \in (IF CloseFails THEN BOOLEAN ELSE {FALSE}) :
    LET img == image[p]
        fd == img.procs[pid].fds[s]
        ok == KernelCloses(img, FdGet(img, fd), err)
    IN  IF FdGet(img, fd) = NullEntry
        THEN NoEffect /\ Returns(p, "close", s, None)
        ELSE /\ Becomes(p, FdClose(img, pid, fd, ok))
             /\ Returns(p, "close", s, IF ok THEN 0 ELSE None)

GetPid(p, pid) == NoEffect /\ Returns(p, "getpid", None, pid)

GetCwd(p, pid) == NoEffect /\ Returns(p, "getcwd", None, image[p].procs[pid].cwd)

\* setCwd keeps the old directory when its allocation fails.
ChDir(p, pid) ==
  \E dir \in Dirs :
    \/ /\ Becomes(p, [image[p] EXCEPT !.procs[pid].cwd = dir])
       /\ Returns(p, "chdir", dir, 0)
    \/ CwdFails /\ NoEffect /\ Returns(p, "chdir", dir, None)

\* syscallExit: processFree, then exit(3) takes the whole image with it.
Exit(p, pid) == Ends(p) /\ Returns(p, "exit", None, None)

\* serverSysCall and Server::syscall.
SysCall(p) ==
  \E pid \in FindPid(image[p], p) :
    \/ Fork(p, pid)
    \/ Exec(p, pid)
    \/ Open(p, pid)
    \/ Read(p, pid)
    \/ Write(p, pid)
    \/ Close(p, pid)
    \/ GetPid(p, pid)
    \/ GetCwd(p, pid)
    \/ ChDir(p, pid)
    \/ Exit(p, pid)

\* A signal ends p: the error path of forkCopy frees what the destructor
\* frees again, or passes NULL to dlclose.
Crash(p) == Ends(p) /\ UNCHANGED last

Next ==
  \/ RunInit
  \/ SpawnShell
  \/ DaemonExits
  \/ \E p \in Running : SysCall(p) \/ Crash(p)

Spec == Init /\ [][Next]_vars

-----------------------------------------------------------------------------
(* Safety.                                                                 *)

\* Whether two open slots of one image, in the same process or in two, hold
\* different descriptors.  This answers process.cpp:379, "TODO: Is serverFd
\* definitely unique among fds?": fdRemove may stop at the first match.
SlotsUnique == \A p \in live : UniqueSlots(image[p])

\* An open slot never refers to a freed entry: fdGet finds a live one with a
\* positive reference count, as fdClose asserts (server.cpp:715).
SlotsBacked == \A p \in live : BackedSlots(image[p])

\* Nothing leaks inside an image: every entry that is in use belongs to a slot
\* of some process, also after fork copied the table and exec emptied it.
EntriesOwned ==
  \A p \in live : \A e \in DOMAIN image[p].fdEntries :
    image[p].fdEntries[e].type # "NULL" =>
      \E i \in DOMAIN image[p].procs :
        \E s \in OpenSlots(image[p], i) : image[p].procs[i].fds[s] = e

FdEntriesOf(img) == {e \in DOMAIN img.fdEntries : img.fdEntries[e].type = "Fd"}

\* Every descriptor the kernel holds open for a process is recorded in an
\* entry, so processFree can reach it, even if close(2) reports errors.
KernelFdsRecorded ==
  \A p \in live : \A k \in KernelFds :
    image[p].kernel[k] # None =>
      \E e \in FdEntriesOf(image[p]) : image[p].fdEntries[e].d = k

\* As long as close(2) never reports an error, an entry owns its kernel
\* descriptor: it is open and no other entry has the number.
KernelFdsOwned ==
  \A p \in live : \A e, f \in FdEntriesOf(image[p]) :
    LET entries == image[p].fdEntries IN
    /\ image[p].kernel[entries[e].d] # None
    /\ entries[e].d = entries[f].d => e = f

\* serverSysCall finds the caller, at a position that is running, and cannot
\* take another process for it unless the kernel gave the caller a pid that was
\* in use before: only then can an ancestor's pid that stayed behind in the
\* inherited table be the caller's too (server.cpp:35-43).
CallerIdentified ==
  \A p \in Running :
    LET hits == {i \in DOMAIN image[p].procs : image[p].procs[i].posixPID = p}
    IN  /\ hits # {}
        /\ \A i \in hits : image[p].procs[i].state = "Running"
        /\ p \notin reused => \E i \in hits : hits = {i}

\* The reference count of a device covers the entries that are open on it, so
\* Devices::remove (devices.cpp:57) cannot delete a device in use.
DeviceRefsCover ==
  \A p \in live, n \in Devices :
    LET open == {e \in DOMAIN image[p].fdEntries :
                   /\ image[p].fdEntries[e].type = "Device"
                   /\ image[p].fdEntries[e].d = n}
    IN  open # {} => image[p].devices[n] >= Cardinality(open)

\* While it lives a POSIX process keeps its platform pid, through exec too
\* (server.cpp:228 replaces the object in place), even if that pid is not its own
\* because the kernel reused an ancestor's.
PidStable ==
  [][\A p \in Running \cap Running' : FindPid(image[p], p)' = FindPid(image[p], p)]_vars

\* exec leaves the caller in its directory: server.cpp:221, "Exec should preserve
\* current working directory."
ExecKeepsCwd ==
  [][\A p \in Running : \A pid \in FindPid(image[p], p) :
       Exec(p, pid) => image'[p].procs[pid].cwd = image[p].procs[pid].cwd]_vars
=============================================================================

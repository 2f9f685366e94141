----------------------------- MODULE ServerImage -----------------------------
(***************************************************************************)
(* One POSIX process's private copy of the Server object.                  *)
(*                                                                         *)
(* The server runs every program in a POSIX process made with fork(2), and *)
(* a system call is a plain function call inside that process: it works on *)
(* the copy of the Server object the process got when it was forked.  This *)
(* module defines that copy (an "image") and what Server, Process and      *)
(* Devices do to it.  It has no variables: VirtualProcesses gives every    *)
(* POSIX process an image and makes each system call an action on it.      *)
(*                                                                         *)
(* An operator whose comment begins with "Fault:" is not part of the code  *)
(* modelled: it is a plausible slip in the operator after it, kept to show *)
(* which property notices.                                                 *)
(*                                                                         *)
(* Vectors are sequences, so index i of the C++ code is position i+1 here, *)
(* and the code's -1 ("no descriptor") is 0.  init is position 2.          *)
(***************************************************************************)
EXTENDS Integers, Sequences

CONSTANTS
  Posix,        \* POSIX process ids
  Files,        \* paths of ordinary files
  StdDevices,   \* devices Server::run registers (full, null, zero)
  FullDevice,   \* the one of them that refuses writes
  TtyNames,     \* "tty0", "tty1", ... in the order tcpRead tries them (1024 in the code)
  Dirs,         \* working directories
  SysDir,       \* directory of /sys/init
  BinDir,       \* directory of /bin/shell
  KernelFds,    \* numbers open(2) can return
  None          \* NULL, (pid_t)-1 and "no result"

Devices == StdDevices \cup {TtyNames[i] : i \in DOMAIN TtyNames}

\* The access modes of stdlib/sys.h, as open(2) receives them.
O_RDONLY == 0
O_RDWR == 2

-----------------------------------------------------------------------------
(* The records of an image.                                                *)

\* A Process object: life-cycle state, POSIX pid and descriptor table; a
\* slot of fds holds a position in fdEntries, or 0 when it is free.
Process == [state : {"None", "Loaded", "Running"}, posixPID : Posix \cup {None},
            fds : Seq(Nat), cwd : Dirs \cup {None}]

\* What the Process constructor leaves; also the dummy that takes pid 0.
NewProcess == [state |-> "None", posixPID |-> None, fds |-> <<>>, cwd |-> None]

\* The NULL pointer of an unused position of fdEntries, and an FdEntry.
NullEntry == [type |-> "NULL", refCount |-> 0, d |-> None]

FdEntry == {NullEntry}
           \cup [type : {"Fd"}, refCount : Nat, d : KernelFds]
           \cup [type : {"Device"}, refCount : Nat, d : Devices]

\* What the kernel keeps for a descriptor that open(2) returned.
OpenFile == [file : Files, access : {O_RDONLY, O_RDWR}]

ASSUME ImageAssumption ==
  /\ KernelFds \subseteq Nat
  /\ TtyNames \in Seq(Devices)
  /\ FullDevice \in StdDevices
  /\ SysDir \in Dirs /\ BinDir \in Dirs
  /\ None \notin Posix \cup Files \cup Devices \cup Dirs \cup KernelFds \cup OpenFile

\* devices maps a registered name to the reference count of its entry, and a
\* name that is not registered to -1.
Image == [procs : Seq(Process), fdEntries : Seq(FdEntry),
          devices : [Devices -> Nat \cup {-1}],
          kernel : [KernelFds -> OpenFile \cup {None}]]

\* The image Server::run starts from: the dummy process, the standard
\* devices, no descriptors.
BootImage ==
  [procs |-> <<NewProcess>>, fdEntries |-> <<>>,
   devices |-> [n \in Devices |-> IF n \in StdDevices THEN 0 ELSE -1],
   kernel |-> [k \in KernelFds |-> None]]

-----------------------------------------------------------------------------
(* Searches.  The code scans a vector from the front and stops at the      *)
(* first hit; the result is the set holding that hit, empty if none.       *)

First(S) == {i \in S : \A j \in S : i <= j}

\* serverSysCall: the first process whose posixPID is the caller's.
FindPid(img, posix) ==
  First({i \in DOMAIN img.procs : img.procs[i].posixPID = posix})

\* Server::fdCreate: the first unused position, or one past the end.
FdCreate(img) ==
  First({e \in 1 .. Len(img.fdEntries) + 1 :
           e \in DOMAIN img.fdEntries => img.fdEntries[e].type = "NULL"})

\* Fault: fdAdd does not look for a free slot first.
FdSlotAppended(fds) == {Len(fds) + 1}

\* The slot Process::fdAdd uses: the first free one, or one past the end.
FdSlot(fds) ==
  First({s \in 1 .. Len(fds) + 1 : s \in DOMAIN fds => fds[s] = 0})

\* The number open(2) returns: the lowest that is not open.
KernelFd(img) == First({k \in KernelFds : img.kernel[k] = None})

\* The name tcpRead gives the next tty.
TtyName(img) ==
  {TtyNames[i] : i \in First({i \in DOMAIN TtyNames : img.devices[TtyNames[i]] = -1})}

-----------------------------------------------------------------------------
(* Descriptors.                                                            *)

\* Server::fdGet: NULL outside the vector.
FdGet(img, fd) == IF fd \in DOMAIN img.fdEntries THEN img.fdEntries[fd] ELSE NullEntry

\* Store v at position i of a vector, growing it by one when i is past its end.
Put(seq, i, v) == IF i > Len(seq) THEN Append(seq, v) ELSE [seq EXCEPT ![i] = v]

\* Fault: fdOpenFdFromDevice tags its entry as a file's.
FdInstallAsFile(img, pid, e, s, type, d) ==
  [img EXCEPT !.fdEntries = Put(@, e, [type |-> "Fd", refCount |-> 1, d |-> d]),
              !.procs[pid].fds = Put(@, s, e)]

\* The end of fdOpenFdFromFile and fdOpenFdFromDevice: the new entry goes to
\* position e (from FdCreate) and fdAdd gives process pid the slot s.
FdInstall(img, pid, e, s, type, d) ==
  [img EXCEPT !.fdEntries = Put(@, e, [type |-> type, refCount |-> 1, d |-> d]),
              !.procs[pid].fds = Put(@, s, e)]

\* Process::fdRemove: the first slot that holds serverFd becomes free.
FdRemove(fds, serverFd) ==
  [s \in DOMAIN fds |->
     IF s \in First({t \in DOMAIN fds : fds[t] = serverFd}) THEN 0 ELSE fds[s]]

\* close(2) on the descriptor of an entry, whatever it returns: the number is
\* free afterwards.
KernelClose(img, entry) ==
  IF entry.type = "Fd" THEN [img.kernel EXCEPT ![entry.d] = None] ELSE img.kernel

\* close(2) returns 0: the descriptor was open and no error is reported.
KernelCloses(img, entry, err) ==
  entry.type = "Fd" => img.kernel[entry.d] # None /\ ~err

\* Fault: fdClose forgets fdRemove.
FdCloseKeepingSlot(img, pid, fd, ok) ==
  [img EXCEPT !.kernel = KernelClose(img, FdGet(img, fd)), !.fdEntries[fd] = NullEntry]

\* Server::fdClose for process pid, on a descriptor whose entry exists: true
\* and false are the two values it returns.  A failed close(2) leaves both
\* the entry and the slot; a device's reference count is not given back.
FdClose(img, pid, fd, ok) ==
  LET entry == FdGet(img, fd) IN
  IF entry.refCount <= 1
  THEN IF ok
       THEN [img EXCEPT !.kernel = KernelClose(img, entry),
                        !.fdEntries[fd] = NullEntry,
                        !.procs[pid].fds = FdRemove(@, fd)]
       ELSE [img EXCEPT !.kernel = KernelClose(img, entry)]
  ELSE [img EXCEPT !.fdEntries[fd].refCount = @ - 1,
                   !.procs[pid].fds = FdRemove(@, fd)]

\* The slots of process pid that hold a descriptor.
OpenSlots(img, pid) == {s \in DOMAIN img.procs[pid].fds : img.procs[pid].fds[s] # 0}

\* Two open slots of an image, in the same process or in two, hold different
\* descriptors.
UniqueSlots(img) ==
  \A i, j \in DOMAIN img.procs :
    \A s \in OpenSlots(img, i), t \in OpenSlots(img, j) :
      img.procs[i].fds[s] = img.procs[j].fds[t] => i = j /\ s = t

\* An open slot refers to an entry that is in use and counts a reference.
BackedSlots(img) ==
  \A i \in DOMAIN img.procs : \A s \in OpenSlots(img, i) :
    LET entry == FdGet(img, img.procs[i].fds[s])
    IN  entry.type # "NULL" /\ entry.refCount > 0

\* Fault: the descriptors are closed but their entries stay.
FreedEntriesKept(img, pid, errs) == {}

\* The entries Server::processFree drops: fdClose on every open slot in turn,
\* where the close(2) calls of the slots in errs report an error and so does
\* the second close(2) of a number.
FreedEntries(img, pid, errs) ==
  LET fds == img.procs[pid].fds
      entry(s) == img.fdEntries[fds[s]]
  IN  {fds[s] : s \in {s \in OpenSlots(img, pid) :
        /\ KernelCloses(img, entry(s), s \in errs)
        /\ \A t \in OpenSlots(img, pid) :
             t < s /\ entry(t).type = "Fd" /\ entry(s).type = "Fd" => entry(t).d # entry(s).d}}

\* Fault: processFree deletes the object without closing what it has open.
ProcessFreeUnclosed(img, pid, errs) == [img EXCEPT !.procs[pid] = NewProcess]

\* Fault: processFree also takes the process out of the vector.
ProcessFreeErased(img, pid, errs) ==
  [img EXCEPT !.procs = SubSeq(@, 1, pid - 1) \o SubSeq(@, pid + 1, Len(@))]

\* Server::processFree of process pid, whose Process object is then deleted.
ProcessFree(img, pid, errs) ==
  LET held == {img.fdEntries[img.procs[pid].fds[s]] : s \in OpenSlots(img, pid)} IN
  [img EXCEPT
     !.fdEntries = [e \in DOMAIN @ |->
        IF e \in FreedEntries(img, pid, errs) THEN NullEntry ELSE @[e]],
     !.kernel = [k \in KernelFds |->
        IF \E en \in held : en.type = "Fd" /\ en.d = k THEN None ELSE @[k]],
     !.procs[pid] = NewProcess]

\* What a read or write through slot s of process pid reaches: the file the
\* kernel has for it, or the device; None is the error return.
Target(img, pid, s) ==
  LET entry == FdGet(img, img.procs[pid].fds[s]) IN
  CASE entry.type = "Fd" /\ img.kernel[entry.d] # None -> img.kernel[entry.d].file
    [] entry.type = "Device" -> entry.d
    [] OTHER -> None

-----------------------------------------------------------------------------
(* Processes.                                                              *)

\* Process::loadFileFS on a fresh object: loaded, in the program's directory.
Loaded(dir) == [NewProcess EXCEPT !.state = "Loaded", !.cwd = dir]

\* Fault: forkCopy copies the descriptor table (the "TODO: Also copy file
\* descriptors" of process.cpp:330) without counting the references.
ForkCopyWithFds(proc) == [proc EXCEPT !.posixPID = None]

\* Fault: forkCopy copies the POSIX pid.
ForkCopyWithPID(proc) == [proc EXCEPT !.fds = <<>>]

\* Process::forkCopy: no POSIX pid yet and no descriptors.
ForkCopy(proc) == [proc EXCEPT !.posixPID = None, !.fds = <<>>]

\* Server::processAdd and the push_back of processFork.
AddProc(img, proc) == [img EXCEPT !.procs = Append(@, proc)]

\* Process pid runs in POSIX process posix (the child half of arun and of
\* processFork).
RunIn(img, pid, posix) ==
  [img EXCEPT !.procs[pid].posixPID = posix, !.procs[pid].state = "Running"]
=============================================================================

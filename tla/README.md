# DistributedPlatform in TLA+

DistributedPlatform is a small operating environment in one C++ server.  A daemon listens on
TCP port 51717, "boots" from a directory (the container), loads `/sys/init` as a shared
library, and starts a shell for every client that asks for a tty.  Programs reach the
platform through its own system calls (`fork`, `exec`, `open`, `read`, ...).

This directory holds a model of it in TLA+, the TLC runs that check the model on small
instances, and TLAPS proofs of what matters most for every value of the constants.  Paths
below are relative to `src/src/`; `server.cpp:28` is a line of `src/src/server/server.cpp`.

## 1. The system

The point to know before anything else: **a system call is a function call**.  `fork` and the
daemon's `processRun` use fork(2), so every program runs in a POSIX process which holds a
*private copy of the whole Server object*: the process table, the descriptor table, the
devices.  `serverSysCall` (`server.cpp:28`) looks the caller up by its POSIX pid in that copy
and works on it.  Nothing is shared afterwards, apart from kernel objects (open files,
sockets) that both copies name by the same number.  What looks like one server is a tree of
servers that were equal at the moment of each fork.

### Components

| Component | State | Operations | Status |
|---|---|---|---|
| Virtual processes and system calls (`server/server.cpp`, `server/process.cpp`) | `procs` (pid = index), each with state, POSIX pid, descriptor slots, directory; `fdEntries` with reference counts | run, processAdd, processRun, processFork, exec, open, read, write, close, getpid, getcwd, chdir, exit, processFree | modelled but for `alloc` and the environment |
| TCP command server (`server.cpp:110-156, 383-560`, `server/connection.h`) | `stopFlag`, listening socket, `connections`, `fdSetActive` | the main loop, tcpPoll, tcpRead, stop | modelled |
| Instance control (`server/main.cpp`) | whether an instance listens on the port | start, stop, restart, startDaemon | modelled |
| Devices (`server/devices.cpp`, `server/devices/`) | name to device and reference count | add, remove, exists, open, close; full, null, zero, socket | names and counts as the calls use them |
| Sockets (`server/net/`) | socket state and descriptor | connect, listen, read, write, close | modelled as far as `main.cpp` and the server use them |
| File system layer (`server/fs*.cpp`) | the container's path | mountFile, unmount, isValid, path mapping | not modelled: a stateless mapping to host paths |
| Logging, utilities (`server/log.cpp`, `server/util.cpp`) | none | log | not modelled: no property depends on it |
| Database (`Server::databaseLoad`) | an SQLite handle | opened at start, closed at the end | not modelled: nothing else uses it and a failure is only logged |
| Program library (`stdlib/`) | argument block filled for each call | one stub per system call, a small stdio | modelled in part: the stubs are the calls of `VirtualProcesses`, `getenv` is in `Shell` |
| Shell (`programs/shell/`) | working directory, environment, current line | read a line, cd, export | modelled but for the prompt |
| dshell (`programs/dshell/`) | tokens, jobs | tokenize, parse commands, run jobs | modelled |
| Small programs (`programs/{init,cat,echo,yes,factor,...}`) | none, but for factor | - | factor modelled; the others keep no state |

### How they interact

* The daemon's loop (`Server::run`, `server.cpp:57`) calls `tcpPoll`; `tcpRead` on the line
  `type tty` adds a device `ttyN`, loads `/bin/shell`, adds it to `procs` and runs it.
* A program calls the stub in `stdlib/syscall.c`, which calls `serverSysCall` through a pointer
  placed in the library at load time, in the same POSIX process.
* `open` on a name under `/dev` goes to `Devices`, any other path through the file system
  layer to open(2).
* Clients and `main.cpp stop` talk to the daemon over TCP; a shell reads and writes the very
  socket the daemon goes on polling.

### What is hard here

* **Private copies.** After a fork parent, child and daemon all go on numbering processes and
  descriptors on their own.  Whether pids and slots still mean something depends on the whole
  history of forks.
* **Identity by POSIX pid.** The table a process inherits holds its ancestors' POSIX pids.
* **Order of resource operations.** Open, fork, exec, close and exit run in any order;
  an entry freed too early or never is only noticed much later.
* **Partial failure.** Most calls have two to four allocations or kernel calls, any of which
  can fail with the earlier ones done: `openFdFromFile`, `openFdFromDevice`, `fdClose`,
  `processFork`, `exec`, `tcpRead`.
* **The poll loop.** An erase followed by an advance, blocking reads after a select, a socket
  with two readers, a byte stream read as if it came in lines.
* **Restart.** `restart` does not wait for the old instance, and shells keep its socket open.

### What makes each component correct

* *Virtual processes*: a call is executed for the process that made it; a pid is stable; a descriptor leads to what was opened until it is closed; an entry
  is owned by exactly one open slot; kernel descriptors are neither lost nor shared.
* *TCP command server*: list, open descriptors and `fdSetActive` agree; every connection with
  data is served; the daemon does not block in a read; `stop` ends the loop; each tty has one
  shell, and only its shell reads it.
* *Memory of processes*: libraries are held as often as they are used, the table leads to
  objects that exist.
* *Instance control*: at most one instance serves the port; a daemon stops only for a stop that
  was sent to it; a stop that arrives ends it; every command line returns.
* *Devices*: a device is not deleted while it is open.
* *Shell*: the directory is the one asked for.
* *dshell*: every job of a line is started, once, in order, under its own name.
* *factor*: prime factors, all of them, for every argument.

`PROJECT.json` lists every hazard at its line, with the properties that cover it, or why none
does yet.

## 2. Modules

| Module | What it is |
|---|---|
| `ServerImage` | One process's private copy of the Server object (an *image*): records, searches, descriptor and process operators.  No variables. |
| `VirtualProcesses` | The state machine: an image for each POSIX process, one action for each system call and for each thing the daemon does.  Safety properties. |
| `ProcessApi` | Abstract specification: what the system calls promise a program, with no images, vectors or kernel descriptors. |
| `ProcessRefinement` | The refinement mapping from `VirtualProcesses` to `ProcessApi`. |
| `MCVirtualProcesses` | The instance for TLC: model values, symmetry, view. |
| `VirtualProcessesProofs` | Lemmas about the operators of `ServerImage` and the inductive invariants of the descriptor tables, of POSIX pids and of what an image owns; theorems `TypeCorrect`, `SlotsAlwaysUnique`, `SlotsAlwaysBacked`, `CallerAlwaysIdentified`, `PidAlwaysStable`, `KernelFdsAlwaysRecorded`, `DeviceRefsAlwaysCover`, `EntriesAlwaysOwned`, `KernelFdsAlwaysOwned`. |
| `TcpServer` | The daemon's main loop, one action per system call, with clients and the shells that share their sockets.  Safety and liveness properties. |
| `CommandServer` | Abstract specification: what clients can rely on, with no descriptors, snapshots or list. |
| `TcpRefinement` | The refinement mapping from `TcpServer` to `CommandServer`. |
| `MCTcpServer` | The instance for TLC. |
| `TcpProofs` | The inductive invariant of the main loop and the simulation of `CommandServer`; theorems `TcpTypeCorrect`, `SocketsAlwaysOwned`, `AlwaysOneShell`, `BlocksOnlyThereAlways`, `CommandServerImplemented`. |
| `ApiProofs` | The simulation of `ProcessApi` by `VirtualProcesses`; theorem `ApiImplemented`. |
| `ProcessObjects` | The memory and the libraries behind one process table. |
| `MCProcessObjects` | The instance for TLC. |
| `ObjectsProofs` | The inductive invariant of that memory; theorems `ObjectsTypeCorrect`, `HandlesAlwaysBalanced`, `TableAlwaysUsable`. |
| `Instances` | Runs of the executable (start, stop, restart) against one port, with the daemons they become, other clients, and the shells these get.  Safety and liveness properties. |
| `MCInstances` | The instance for TLC. |
| `InstancesProofs` | The inductive invariant; theorems `InstancesTypeCorrect`, `AlwaysOneServes`, `StopsOnRequestAlways`. |
| `Shell` | The shell on a tty: cd, export, and the paths they compute. |
| `Dshell` | dshell: a line to tokens, tokens to jobs, jobs started. |
| `Factor` | factor: trial division. |
| `MCShell`, `MCDshell`, `MCFactor` | The instances for TLC. |
| `FactorProofs` | Theorems `FactorTypeCorrect`, `ProductAlwaysKept`, `PrintsPrimesOnly`. |
| `DshellProofs` | Induction over lines and tokens, and the invariants of dshell's loops; theorems `DshellTypeCorrect`, `TokensAlwaysAsReference`, `NullNamesOnlyOnBlank`, `EveryJobAlwaysStarts`. |
| `ShellProofs` | What the path reduction computes, and the inductive invariant of the shell; theorems `ShellTypeCorrect`, `CwdAlwaysAsAsked`. |

`VirtualProcesses` EXTENDS `ServerImage`; `ProcessRefinement` EXTENDS `VirtualProcesses` and
instantiates `ProcessApi`, and `TcpRefinement`, `TcpServer` and `CommandServer` likewise;
each proof module EXTENDS the module it is about and the lemmas below it.  `ProcessObjects`,
`Instances`, `Shell`, `Dshell` and `Factor` stand for themselves.  No module has a
RECURSIVE operator: the loops of `Shell` and `Dshell` are recursive functions of the number of passes.

### Virtual processes: state

| Variable | Code |
|---|---|
| `live`, `used` | the kernel's processes, and the POSIX pids handed out so far |
| `reused` | history: the pids handed out more than once |
| `image[p].procs` | `Server::procs` (`server.h`) in p's copy: `Process` with `state`, `posixPID`, `fds`, `cwd` |
| `image[p].fdEntries` | `Server::fdEntries`: `NullEntry` for NULL, otherwise type, `refCount` and the union `d` |
| `image[p].devices` | `Devices`: registered name to reference count, -1 for a name not registered |
| `image[p].kernel` | the kernel's descriptor table of p, restricted to what open(2) returned |
| `last` | the last system call and its result, for properties about results; no guard reads it |

Vectors are sequences, so the code's index *i* is position *i+1* and its "no descriptor" -1 is
0.  The dummy process of `Server::run` is position 1, init position 2.

### Virtual processes: actions

`RunInit`, `SpawnShell` and `DaemonExits` are the daemon; `Fork`, `Exec`, `Open`, `Read`,
`Write`, `Close`, `GetPid`, `GetCwd`, `ChDir` and `Exit` are the cases of `Server::syscall`,
run for the process that `FindPid` finds; `Crash` is the end of a program by a signal.  A call
is one step: it works on memory that no other process sees, so nobody can observe it half done.
Its failures are alternatives inside the action, each with the effects the code has had by then.

For example `FdOpenFdFromDevice` has four outcomes: the device does not exist; it is counted
and installed; it is counted and an allocation then fails, which leaves it counted
(`server.cpp:683-706`).  `FdClose` distinguishes a shared entry, a last reference whose
close(2) succeeds, and one whose close(2) fails: the code then keeps entry and slot though the
kernel has freed the number.

The modules that model the code also hold operators whose comment starts with "Fault".  They are
not part of the code: each is a plausible slip in the operator below it, and `PROJECT.json` says
which property must notice.

### TCP command server: state

| Variable | Code |
|---|---|
| `pc` | where `Server::run` is: before select ("idle"), before accept, in the `for` over `connections` ("scan"), out of the loop |
| `stopFlag`, `connections`, `fdSetActive` | the members of `Server` (`server.h`); a connection is its descriptor and type |
| `fdSetRead`, `iter` | the locals of `tcpPoll`; `end()` is one past the last position |
| `ttys` | the DeviceSockets, in the order of their names: the number in their socket's `sockFd`, and whose connection it was |
| `shells` | how many shells run on each client's socket |
| `backlog`, `sock`, `stream` | the kernel: connections not accepted, the connection behind each descriptor, what has arrived and was not read |
| `stage`, `half`, `sent`, `closed` | a client's connection, the part of a line still under way, the lines it sent, whether it closed |
| `seen` | history: descriptors handled in the current poll |

### TCP command server: actions

Unlike a program's system calls, the daemon's loop runs beside clients and shells that change
what its next system call finds, so each system call of the loop is a step:

| Action | Code |
|---|---|
| `Select` | the copy of `fdSetActive` and select(2) (`server.cpp:407-414`); not enabled if select fails, as `tcpPoll` then only returns and is called again |
| `Accept`, `NoAccept` | `server.cpp:419-434`; accept(2) gives the lowest free number, or fails when there is none |
| `Skip` | a connection that is not in the snapshot, `goto next` |
| `Drop` | `tcpRead` returns false: close(2), `erase`, `FD_CLR`, `++iter` |
| `ReadIgnored`, `ReadTty`, `ReadStop` | the commands `tcpRead` recognises, with its early returns |
| `PollDone`, `Ended` | `tcpPoll` returns; the loop ends |

The accepted sockets are blocking, so a read that finds neither data nor the end of the stream
is no step at all: the daemon is stuck until the client does something (`Blocked`).

After `erase`, `++iter` steps over the successor.  When the erased connection was the last
one, `++iter` advances `end()`, which C++ leaves undefined; libstdc++'s list is a ring with one
node for the end, and past it comes the first element.  `AfterErase` is this.

A client writes lines; a line may arrive in two pieces, and whatever has arrived is read at
once.  What is not exactly one line is no command, as `strtok_r` and the comparison find.
A shell takes whatever its socket holds.  Clients may close, or reset with data unread.

### Process objects

`VirtualProcesses` has what a process *is*; `ProcessObjects` has what a `Process` object *owns*:
which of its four strings point to memory, which to memory already freed, and which library it
holds.  Every allocation on the way may fail.  Memory is private to a POSIX process, so the model
follows one line of descent: at a fork(2) the step chooses whether parent or child is followed.
`mem.libs` counts what dlopen counts.  A double free makes the heap `"corrupt"`, and the model
ends there: what the process does next is undefined.

| Action | Code |
|---|---|
| `DaemonStarts` | init in `Server::run`, a shell in `tcpRead`: load, arguments, fork |
| `Fork` | `forkCopy` and fork(2); `ForkCopyFails` is its error path, which frees the strings and closes the library, and then deletes an object that still points to them.  It is taken when an allocation or dlopen fails, and when dlsym does not find a function in the library just opened |
| `Exec` | load, `setCwd`, free the caller's object, run |
| `ChDir`, `Exit` | `setCwd`; delete the caller's object |

### Instances

One run of the executable is an *invocation* until it has an exit status, and may then be a
*daemon*; `pc` holds both.  The kernel's side is the port: who is bound, which connections wait or
are accepted, which clients have a shell that holds the listening socket, on which connection the
daemon is blocked in read(2) (`stuck`), and whether connections of an ended daemon still occupy the
port (`lingers`; the code sets no SO_REUSEADDR).  *Peers* are the runs and the other clients.  Any
of them may send `stop`, which the code obeys whoever sent it (`server.cpp:554`, with a TODO); for each peer the
model keeps what it ever wrote (`said`), what of it nobody has read (`data`), and whether it has closed (`left`).

| Action | Code |
|---|---|
| `Connect`, `ConnectFails`, `AlreadyRunning`, `Tell` | `main.cpp:22-55`: the connection that tells whether an instance runs, and what is done with it |
| `StartDaemon` | fork, `setsid` and their failures (`main.cpp:88`) |
| `Boot`, `Bind`, `Listen` | `Server::run` up to its loop, each of which may fail |
| `Accept`, `Drop`, `ReadStop`, `ReadTty` | the loop.  The poll in which a stop is read goes on: it may still drop connections, the one of the stop among them, and start shells, until `TcpClose` |
| `TcpClose`, `Exit`, `Killed` | the end of the daemon |
| `ClientConnects`, `ClientWrites`, `ClientLeaves` | the other clients |
| `ShellReads`, `ShellEnds`, `Expire` | shells and the kernel.  A shell that takes what the daemon has seen in select(2) leaves it blocked in read(2), as does a `Drop` behind which the loop starts again (`Silent`) |

### Shell, dshell and factor

In `Shell` a text is a sequence of lexemes, and what one read returns is one command whether it is
one line, part of one or several.  `ShellPathReduce` rewrites a path in place, slash by slash, as
the code does: `Squeeze` is what the body of its `for` loop does at one position, `Sweep` that loop,
`Rounds` the `do` loop around it.  `ReferenceReduce` says what should result without rewriting
anything.  `Dshell` scans characters
(`Consume` is the body of `tokenize`'s loop) and its properties compare with definitions that look
at positions.  The prompt of `Shell` is output only and left out: with the `getenv` that programs are
linked with it is the directory itself (section 6).  In `Dshell` a job may fail, popen may fail
(`StartJobFails`, after which getline is given a NULL stream), and a job's name may be NULL
(`NullName`).  The pointer `command.cpp:25` takes into a temporary string gives the text or
something else, `Garbage`.  In `Factor` the square root of a double is any of the integers it may
be rounded to (`Roots`).

## 3. Runs

The runs of `MCVirtualProcesses` use one daemon `d` and other POSIX processes `p1`, `p2`, ...;
those of `MCTcpServer` use clients `c1`, `c2`, ...

| Run | Question | Instance | Result |
|---|---|---|---|
| `descriptors` | Do descriptor slots, `fdEntries`, device counts and kernel descriptors stay consistent in any order of calls, also when close(2) fails? | 2 programs, 2 slots, 2 entries, 2 kernel numbers, one file, a standard device and a tty | holds, 571,090 states |
| `identity` | Is every call executed for its caller, and is a pid stable, also when the kernel reuses the pids of dead processes? | 3 programs, no descriptors, pids reused | holds, 42,168 states |
| `api` | Do the calls implement `ProcessApi`, and does nothing the kernel or `fdEntries` holds outlive its slots? | 2 programs, 2 slots, 1 kernel number, two directories | holds, 29,122 states |
| `tcp` | Does the daemon keep its books, implement `CommandServer`, give no connection two shells, and block in read only where expected?  With a fair main loop, do polls end, are clients accepted and served, does `stop` end it? | 2 clients, one sends up to 2 lines and one up to 1, 2 descriptors, 2 tty names | holds, 607,105 states |
| `instances` | Do start, stop and restart at any times leave at most one server, stop none by mistake, stop what was told to, and always return, whatever other clients and their shells do? | 2 runs, 2 other clients, backlog 0 | holds, 315,731 states |
| `objects` | Are libraries counted right, and does the table lead to live objects, wherever an allocation, dlopen or dlsym fails? | 2 programs, 8 objects | holds, 196,242 states |
| `dshell` | Is every line split and started as a declarative definition says? | lines of up to 5 of 7 characters, with and without a newline | holds, 827,596 states |
| `shell` | Is the directory what was asked for? | paths of up to 3 of 4 pieces, 5 ends of a read | holds, 5,922 states |
| `factor` | Are the numbers printed prime, and is their product the argument? | arguments up to 150 | holds, 2,615 states |
| `each_once` | Does a poll handle each connection of its snapshot once? | 2 clients, 1 line each, 1 tty name | violated: finding 1 |
| `running_served` | Is there an instance when `start` says one is running? | as `instances` | violated: finding 2 |
| `exec_cwd` | Does exec leave the caller in its directory? | as `api`, but setCwd may fail | violated: finding 3 |

Bounds of `VirtualProcesses`, each a constant: `MaxProcs` (length of `procs`), `MaxSlots` (a process's slots),
`MaxEntries` (length of `fdEntries`), `MaxRefs` (a device's count).  Why they suffice:

* Two programs besides the daemon give a parent and child which both inherited the same
  table, and a shell next to init: every pair of copies the code can create.  Three are needed
  for siblings and grandchildren, which matter only to pids, so `identity` has
  three and no descriptors; there pids are reused, and a table may hold five processes, so that a
  grandchild can get its dead grandparent's pid.
* Two slots and two entries make `fdCreate` and `fdAdd` reuse a freed position, append one,
  and run past a hole; a child that forked after its parent opened one file has an entry it
  inherited beside its own.
* Two kernel numbers are enough to reuse one while another is open.
* One tty name makes the search both succeed and fail (the code has 1024 names).

Bounds of `TcpServer`: `Clients`, `Fds` (numbers accept(2) may return), `Backlog`, `MaxTtys`,
`MaxLines` (lines each client sends).  Two connections are what the list needs to go wrong in each
of its ways: dropping the first passes over the second, dropping the second goes round to the
first, and a number is free again while the other is open.  A connection needs two lines to ask
for a tty and then for another, or for a stop; the other client needs one of its own.  Clients come once; a client that comes back is
another client.  That nothing depends on there being two is proved for the safety properties
(section 5).

`Recycle`, `CloseFails` and `CwdFails` are separate constants because they stand for facts about the
kernel and about memory, and the properties differ in whether they need them.  `CloseFails` is TRUE in
`descriptors` and FALSE in `api`, where `EntriesOwned` and `KernelFdsOwned` are checked: `processFree` drops the slots of a
descriptor whose close(2) failed and leaves its entry behind, and after a failed close two
entries can name one number, so both properties are statements about a kernel whose close(2)
does not fail on a valid descriptor.  `KernelFdsRecorded`, `DeviceRefsCover`, `SlotsUnique` and `SlotsBacked` do
not need the restriction: they are checked and proved without it.  `Recycle` is TRUE in `identity`: the
daemon ignores SIGCHLD, so that the kernel may give the pid of a dead process out again at once, and
`reused` remembers to whom.  `CwdFails` is FALSE in `api` because exec breaks its promise without it
(finding 3, run `exec_cwd`).

Bounds of the other modules.  `Instances`: two runs are a server and one that stops it, starts meanwhile or restarts; two clients
are one that sends a stop and one whose shell keeps the port or blocks the daemon, in either order; a
backlog of 0, for which Linux queues one connection, lets the queue be full.  A client connects
once and writes each command at most once.  `ProcessObjects`: eight objects are six loads or forks
after init, enough for a process to fork, both to exec the same program and one to leave.  `Dshell`:
five characters hold a quoted operator and two jobs with an empty one between them; both the reference
and the scan depend on a character's class only, and each class has a member.  `Shell`: three pieces
of a path hold a run of slashes at the front, in the middle and at the end, with a tilde or without;
a directory is replaced by cd, so that paths do not grow from one command to the next.
`Factor`: 150 has squares and products of two and three primes; the safety properties are proved for
every width.

The programs are interchangeable, so the runs of safety properties use symmetry over them.  The `api`
and `exec_cwd` runs use the view `<<live, used, reused, image>>`: `last` is read by no guard and is
determined by the step that writes it, so two states that differ in it alone have the same futures, and
the property is checked on each step with the values that step writes.  It holds for states up to a
permutation of the programs since `ProcessApi` treats them alike.

Deadlock is not checked: when all processes have exited, or the daemon has ended, or the bounds
are reached, the system may stop; and a daemon stuck in read(2) is one of the situations under
study, which `BlocksOnlyThere` and the liveness properties treat by name.

### Fairness

`VirtualProcesses` has none: it states only safety, and nothing in the code obliges a program to
make a system call.  `FairSpec` of `TcpServer` assumes weak fairness of `MainLoop`, the daemon's
next step, whichever it is: the loop of `Server::run` has no condition but `stopFlag` and the
operating system schedules a process that can run.  When the daemon blocks in read no step of
`MainLoop` is enabled and nothing is promised.  Of clients and shells nothing is assumed: they
may stop at any point.  `Served`, `Accepted` and `StopsUnlessBlocked` therefore have the premise
`[]<>(~Blocked)`, that the daemon does not stay blocked for ever.  It cannot be dropped, since a
client that stays connected in silence leaves a blocked daemon blocked, and it is not empty:
`BlocksOnlyThere` says what it takes to block, and most behaviours never do.

`FairSpec` of `Instances` assumes weak fairness of each invocation and of each daemon on its own: they
are processes of the host that run by themselves.  Nothing is assumed of clients, shells, signals, the
kernel's timer or a second user.  A shell may therefore hold the port for ever; what `StopEnds`
promises is that the daemon itself ends.  A daemon that is blocked in read(2) has no step to take but
on that connection, so fairness says nothing while its client is silent: `StopEnds` has the premise
`[]<>(stuck = None)`, like `StopsUnlessBlocked`, and leaves out a stop on a connection that a shell
reads too, as the shell may take it.  `FairSpec` of `Factor` assumes weak fairness of
its loop, which contains no call that could wait.

### What the properties say

* `SlotsUnique`: no two open slots of an image hold the same descriptor.  `process.cpp:379`
  asks exactly this ("TODO: Is serverFd definitely unique among fds?"), as `fdRemove` stops at
  the first match.
* `SlotsBacked`: an open slot leads to an entry in use with a positive count, which `fdClose`
  asserts (`server.cpp:715`).
* `EntriesOwned`: no entry is in use that no slot leads to.  Fork copies the table but no
  slots, and exec empties the caller's slots; a leak in either shows here.
* `KernelFdsOwned`: an entry's kernel number is open and no other entry has it.
* `KernelFdsRecorded`: no kernel number is open without an entry, also when open(2)
  succeeded and an allocation after it failed.
* `DeviceRefsCover`: a device's count is never below the number of its open entries, so
  `Devices::remove` cannot delete one in use.  (It may be above: `fdClose` never gives a
  device's reference back, `server.cpp:728`.)
* `CallerIdentified`: the caller's POSIX pid is at a running position of its table, and at exactly one
  unless the kernel gave it a pid that was in use before.  Then a dead ancestor's entry, which is never
  cleared, can be found instead of its own (`server.cpp:35`).
* `PidStable`: a process keeps the pid it is found under while it lives, through exec too, even where that
  is a dead ancestor's.
* `ImplementsApi`, `ImplementsCommandServer`: see the next section.
* `SocketsOwned`: `connections`, the open descriptors and `fdSetActive` describe the same set.
  Were a closed number left in `fdSetActive`, select would fail and `tcpPoll` return at once for
  ever without a message.
* `BlocksOnlyThere`: the two ways for the daemon to block in read: `iter` has gone round after a
  drop, or a tty's shell took the data between select and read.
* `OneShell`: a connection has at most one shell, although `con->type` is set last and each step
  of starting the shell may fail before.
* `PollEnds`: `iter` can go round, but only after an erase, so a poll still ends.
* `Served`, `Accepted`: a connection passed over in one poll is served by a later one; one that
  waits is accepted unless descriptors have run out.
* `StopsUnlessBlocked`: after `stop` the loop ends, whatever clients do, unless it is stuck in read.
* `OneServes`: no two daemons have the port, though `restart` starts the next without waiting for
  the last.  Bind decides, not the connection made before.
* `StoppedOnRequest`: a stop is written into the queue of whichever daemon has the port, and its
  writer may leave at once; no daemon takes it that it was not connected to, and none stops because a
  connection ended or merely tested the port.
* `StopEnds`: a stop that has reached a serving daemon is not lost, even if its writer is gone.
* `InvocationsEnd`: no command line hangs, whatever phase the daemon it talks to is in.
* `HandlesBalanced`, `TableUsable`: whichever step of load, fork and exec fails, no library is closed
  once too often or too rarely, and every entry of `procs` can be used.  Both speak of what happens up to a
  double free, which the error path of forkCopy can do (section 6).
* `TokensAsReference`, `EveryJobStarts`, `NullNameOnlyOnBlank`: the scan with its state, and the two
  rounds of splitting after it, find what a definition by positions finds.  The definition takes its
  operators and spaces from the list of delimiters, the code from the first three of them, so
  `TokensAsReference` says separately what becomes of the newline: it is the last character of the last
  token, or a token of its own.  `EveryJobStarts` is about lines without quotes and bars and jobs that succeed:
  for the others the code does not do what its comments say.  `NullNameOnlyOnBlank` says when a job has no
  name; it does not list every way for dshell to end.
* `CwdAsAsked`: rewriting in place while scanning, until nothing changes, yields the reduced
  path; for absolute paths, as others are not made absolute.
* `ProductKept`, `PrimesOnly`, `Terminates`: `factor` never asks whether a number is prime, tries
  composites too, counts its divisor back and trusts a rounded root, and is right all the same.

## 4. The abstract specification

`ProcessApi` says what a program may rely on.  A process has a pid, a directory and a function
from its open descriptors to what they lead to.  `fork` returns the child's own pid, larger
than the caller's; the child has the caller's directory and *no descriptors* (this platform
differs from Linux there; `process.cpp:330` has a TODO).  `exec` keeps the pid and
the directory and closes everything.  `open` gives the lowest free descriptor, which leads to the path
asked for.  `read` and `write` reach exactly what was
opened.  A failed call changes nothing.

`ProcessRefinement` computes this state from the images: the pid is the position found by
`FindPid`; a descriptor leads through the process's slot to an entry, and from there to a
device or, through the kernel table, to a file.  `ImplementsApi` is checked by TLC in run `api`.
It holds when pids are not recycled and close(2) and setCwd do not fail; a failed close(2) leaves a slot
that leads nowhere, which the abstract "a failed call changes nothing" rules out, and a failed setCwd makes
exec move to the directory of the program.

`CommandServer` says what a client may rely on.  Its connection is accepted, may become a tty,
and is given up only after the client left; it becomes a tty at most once, and only after it
sent `type tty`; the server stops only after a connected client sent `stop`.  No promise is made
that a line is obeyed, as the code makes none: a line that arrives together with another, or that
a shell takes, is lost.  `TcpRefinement` computes this state: the ttys are the clients behind
listed connections of type TTY, and the server's state comes from `pc` and `stopFlag`.  Pieces,
snapshots, skips and wraps are stuttering steps.

## 5. Proofs

Assumptions on the constants are `ImageAssumption` (kernel numbers are naturals, tty names
are device names, the two directories are directories, `None` is none of the other values nor of
what `open` can give)
and `VPAssumption` (the daemon is a POSIX process, the switches are Booleans and the bounds
naturals).  Nothing else is assumed except where a theorem says so.  Number of processes,
descriptors, devices and files are arbitrary, and so are the bounds.

| Theorem | Statement |
|---|---|
| `TypeCorrect` | `Spec => []TypeOK` |
| `SlotsAlwaysUnique` | `Spec => []SlotsUnique`, also with failing close(2) and recycled pids |
| `SlotsAlwaysBacked` | `Spec => []SlotsBacked`, likewise |
| `KernelFdsAlwaysRecorded` | `Spec => []KernelFdsRecorded`, likewise |
| `DeviceRefsAlwaysCover` | `Spec => []DeviceRefsCover`, likewise |
| `EntriesAlwaysOwned` | `CloseFails = FALSE` implies `Spec => []EntriesOwned` |
| `KernelFdsAlwaysOwned` | `CloseFails = FALSE` implies `Spec => []KernelFdsOwned` |
| `CallerAlwaysIdentified` | `Spec => []CallerIdentified`, also with recycled pids |
| `PidAlwaysStable` | `Spec => PidStable`, likewise |
| `ApiImplemented` | `Recycle = FALSE`, `CloseFails = FALSE`, `CwdFails = FALSE`, `Observe = TRUE` and `MaxProcs >= 2` imply `Spec => ImplementsApi` |

**Descriptor tables.** `SlotsUnique` is not inductive: that a new descriptor is in no slot
holds because `fdCreate` picks a position without an entry and every slot in use has an entry,
which is `SlotsBacked`; and `SlotsBacked` survives `fdClose` because no *other* slot holds the
entry that goes, which is `SlotsUnique`.  Neither stands alone.  The inductive invariant
`DescriptorsInv` is `TypeOK` and, for *every* POSIX process, live or not, `GoodImage`: typed,
unique and backed.  One lemma for each operator (`FdInstall`, `FdClose`, `ProcessFree`,
`AddProc`, `RunIn`, ...) says that it maps good images to good images; then
one lemma per action says which operators it is composed of.  The hardest cases are
`FdClose`, where the freed entry must be in no slot but the one cleared, and `ProcessFree`,
which drops many entries at once.

**Ownership.** The four properties about entries and kernel numbers are joined in `Sound(img)`:
kernel numbers are recorded and counts cover, and, when close(2) does not fail, every entry in use is
owned, has a reference count of one, and has its kernel number to itself.  The count of one is what
`EntriesOwned` lacks to be inductive: `fdClose` frees entry and kernel number only with the last
reference, so a count above one would outlive the one slot that `SlotsUnique` allows.  Every system call changes an image in one of six ways (`ImageStep`): it boots,
keeps the tables, opens a file, opens a device, closes one descriptor or replaces all of a process's;
`NextSteps` shows that, one lemma per way shows that `Sound` is kept, and `OwnershipInv` joins `Sound`
of every image with `DescriptorsInv`.

**Finding the caller.** `CallerIdentified` speaks of live programs' images only.  A fork puts
the child's POSIX pid into a copy of its parent's table, so it must be known that no table
anywhere already has a pid not yet handed out: `PidsInv` says that the POSIX pids in
every image are among `used`, as is the daemon's, that each running program's own pid
stands at a position of its table, always a running one, and at no other position unless the pid is `reused`.
The invariant is `CallerInv`: `DescriptorsInv` and `PidsInv`.  A child whose pid is fresh is in no table
yet; one whose pid was used before may find an ancestor's entry first (section 6), and is the exception
that `CallerIdentified` states.  `PidAlwaysStable` adds that no step changes the positions at which a process that lives
on stands: tables only grow, by pids of other processes, and exec writes in place.

**What the system calls promise.** `ApiImplemented` is the refinement: every step of every process is
a step of `ProcessApi` or stutters.  The conditions on kernel and memory are needed.  With a reused pid a call
would be answered for a dead ancestor; a close(2) that fails leaves a slot without a file
behind it; a setCwd that fails moves the program.  `Observe = TRUE` only says that `last` records results, as it must if they are to be compared,
and `MaxProcs >= 2` leaves room for init.  The invariant `ApiInv` joins `CallerInv` (where no pid is reused), `OwnershipInv` and the bound on a program's own
table.  The abstract descriptors of a program are `SlotTargets` of the one position at which its image
has it; `CallSeen`, `BornSeen` and `EndsSeen` turn what happens to one image into what happens to the
functions `pid`, `opened` and `cwd`, and there is one lemma per action on top of them.  Fork has to show that
the parent sees nothing of the child appended to its table, and that the pid it
returns is the child's own.  In `open` (`InstallTargets`) the slot leads to the path because the new entry records
the number the kernel just gave, and the others lead where they led because no entry has that number yet, which is
`Owned`; in `close` (`CloseTargets`) they do because no other slot has the entry and no other entry the
number.  What the daemon does to its own image, what a failing call leaves counted and what a child inherits of
other processes' descriptors, no program sees.

**The main loop.** `TcpAssumption` says that descriptor numbers are naturals, that the listening
socket's is not among those of clients, and that `None` is no client; neither fairness nor anything
about the kernel's timing is used.

| Theorem | Statement |
|---|---|
| `TcpTypeCorrect` | `Spec => []TypeOK`, with `iter` always within the list |
| `SocketsAlwaysOwned` | `Spec => []SocketsOwned` |
| `AlwaysOneShell` | `Spec => []OneShell` |
| `BlocksOnlyThereAlways` | `Spec => []BlocksOnlyThere` |
| `CommandServerImplemented` | `Spec => ImplementsCommandServer` |

The invariant `TcpInv` joins them with what they need of each other.  `ClientsInv`: a client is in
one place only, waiting once, or behind one descriptor, or gone; `SocketsOwned` needs it when a
waiting client gets a descriptor.  `ShellInv`: a connection of type None has no shell; `OneShell`
needs it when a shell starts.  `SnapshotInv`: the snapshot was taken of `fdSetActive`, and a
connection in it is still readable, or was handled in this poll, or is a tty.  It is stable because
between two steps of the loop clients only add data or close, a reset leaves the stream closed,
and only a shell takes data away.  `ScanInv`: what lies ahead of `iter` was not handled yet, unless
a connection was dropped in this poll.  `SnapshotInv` and `ScanInv` together give
`BlocksOnlyThere`.  The hardest step is `Drop`, which removes an element from the list, frees a
number and may move `iter` to the front.

For `CommandServerImplemented` it must be known that what the daemon reads was sent: lines arrive in two pieces, and
`SentInv` says that a second piece in a stream belongs to a line its client has sent in full.
`SeenInv` joins it with `TcpInv`.  The steps that accept, read a command, drop or end are each a step of `CommandServer`, and
`SeenSame` shows that the others are stutters because they leave the clients' stages, the connections and
the stop flag alone.  In `Drop` the client behind the descriptor is `connected` by `ClientsInv`, and no other
listed connection leads to it, so that the ttys lose that client and no other.

**Process objects.** `ObjectsAssumption` says that `None` is neither a program nor a number, and that
there may be one object.

| Theorem | Statement |
|---|---|
| `ObjectsTypeCorrect` | `Spec => []TypeOK` |
| `HandlesAlwaysBalanced` | `Spec => []HandlesBalanced` |
| `TableAlwaysUsable` | `Spec => []TableUsable` |

`Sound(m)` says that a memory has no pointer to freed memory in any object and counts the holders of
each library.  `Put` changes one object; three lemmas say that this keeps `Sound` when the object
keeps its library, opens one or closes one, by the cardinalities of `Holders`.  Every operator of the
module (`Done`, `LoadError`, `Delete`, ...) is then such a change, also between two steps of a
function that fails.  `ObjectsInv` claims `Sound` and `TableInv` only while the heap is sound: the error
path of forkCopy either does nothing but come and go with an object that has neither pointers nor a
library, or corrupts the heap, and then only the types are left to prove (`FreedTwiceStep`, `ClosedTwiceStep`).
`TableInv` adds that the table lists different objects, without which exec would free an
object that another entry leads to, and that every process but the dummy has a library, from which
`TableUsable` follows: its count is at least one because the running object is among its holders.

**Instances.** `InstancesAssumption` says that runs and clients are different, that `None` is neither, and that the backlog is a natural.  No
fairness is used.

| Theorem | Statement |
|---|---|
| `InstancesTypeCorrect` | `Spec => []TypeOK` |
| `AlwaysOneServes` | `Spec => []OneServes` |
| `StopsOnRequestAlways` | `Spec => []StoppedOnRequest` |

The invariant joins `TypeOK` with `PortInv` (a daemon with the port is the one `bound`),
`ConnInv` (queued and accepted connections lead to the bound daemon, and none to its own run),
`SaidInv` (what a connection carries was written by its peer, and a run writes nothing before it is
connected) and `RequestInv` (a daemon that stops was sent a stop).  `RequestInv` speaks of what was ever
written, because the poll that reads a stop may drop its connection before it ends.  The hardest steps
are the ends of a daemon, which reset connections and may or may not free the port.

**factor.** `FactorAssumption` says that `MaxNumber` is a positive natural; in the code it is the
largest `unsigned long long`.

| Theorem | Statement |
|---|---|
| `FactorTypeCorrect` | `Spec => []TypeOK`: no product overflows |
| `ProductAlwaysKept` | `Spec => []ProductKept` |
| `PrintsPrimesOnly` | `Spec => []PrimesOnly` |

`PrimesOnly` needs the loop's invariant: while it runs, no number from 2 to `d - 1` divides what is
left, and `sqrtn` is at least its root.  A divisor of `d` would divide what is left, so `d` is prime
when it divides; and what is left at the end has no divisor up to its root, so it is prime or one
(`NoneBelowRoot`: of two factors, one is no larger than the root).  Rounding a root up costs a trial;
less than the true root, rounded down, `Roots` rules out, as the square root of IEEE 754 does.

**dshell.** `DshellAssumption` says that `MaxLine` is a natural: lines have any length, and any
of the characters the program tells apart.

| Theorem | Statement |
|---|---|
| `DshellTypeCorrect` | `Spec => []TypeOK`: no token is empty |
| `TokensAlwaysAsReference` | `Spec => []TokensAsReference` |
| `NullNamesOnlyOnBlank` | `Spec => []NullNameOnlyOnBlank` |
| `EveryJobAlwaysStarts` | `Spec => []EveryJobStarts` |

These are about what a loop computes for every text, so they need induction over the line.  The
library's induction theorems take an operator as a parameter, which the provers cannot supply, but
the least element of a set of numbers is reached without one (`WFMin`): `Least` gives it, `UpTo`
turns it into an induction, with the claim as a set of positions, and `Recursion` shows that
there is a function that does one step of a loop at each position.  `ScanSteps`, `SplitSteps` and
`InOrderSteps` then say that `Scan`, `Splits` and `InOrder` are such functions.

* `ScanInv(text, m)` relates the scan after m characters to the declarative definition: the scan is in
  quotes if the number of quotes so far is odd; the text collected is spelled by the `Pending` positions,
  those after which nothing has ended the token; and the tokens are the groups that begin up to m, the
  pending one left out (`Complete`).  `ScanNext` has a case for each branch of the loop body.  The hardest
  lemma is `PendingStart`: the pending positions are the group of one start, so that ending a token
  completes exactly one (`QueuePending`), and what is added to `tokens` stands after
  the rest because its start is greater than theirs.
* `ScanBody` and `NewLineKept` then say what the newline at the end adds: the scan before it is that of the
  line without it, and since only three delimiters count it is kept, so that it ends the last token or is one.
* `SplitInv(toks, m)` does the same for `handleCommand`.  The texts complete so far are named, in order, by the
  first words that a splitter follows (`Closed`), or one of them is blank and a splitter without a word before it shows
  that; what is still collected is named by the first word that no splitter follows yet (`Open`), or is blank.  `NameOfLater` and
  `NameOfEarlier` say what gluing a token and a space to a text does to its first word.
* `JobsInv` carries that through the loop of `main`: what was started and what is left are
  together the texts of the line, some of them replaced by `Garbage`.

**Shell.** `ShellAssumption` says that `MaxPath` is a natural, the length of the paths that are typed,
and that `Nowhere`, which stands for NULL, is no text.

| Theorem | Statement |
|---|---|
| `ShellTypeCorrect` | `Spec => []TypeOK` |
| `CwdAlwaysAsAsked` | `Spec => []CwdAsAsked` |

The work is in `ReduceCorrect`: for every path `ShellPathReduce(p) = ReferenceReduce(p)`.  It goes
from the inside of the loops to the outside, with the same three lemmas on induction as dshell.

* `SweepInv(p, q, s)`: after the passes at 1 to s the text is p without some slashes that follow
  another slash, and up to s it has no such slash left.  The pass at s may shorten the text behind the
  scan, but nothing before s changes and the piece after s is then none (`SweepSlash`).
* `NoneDoubled`: at the end nothing is left that followed a slash in p.  The nearest piece kept before it
  would also be a slash and stand next to it, which `SweepInv` excludes.  Therefore the result is
  spelled by the positions of p that are not doubled (`CollapseSpells`), and after the slash at the
  end went, by those that are `Needed` (`RoundSpells`).
* `SpelledIs`: two texts spelled in order by the same positions are the same text, by counting
  (`RankIs`); so one round already gives `ReferenceReduce(p)`.  What it gives is `Reduced`
  (`SpelledReduced`), so that a second round leaves it alone (`RoundReduced`), and the `do` loop ends
  with the result of the first, whichever round it ends with.

`ShellInv` is `TypeOK` and `cwd = ReferenceReduce(asked)`, which needs no absolute path.  It is inductive
because `Getenv` gives nothing (`ShellPathAbsolute` therefore never puts HOME for a tilde), an
argument is a word, so that it is not empty (`WordType`, for any text a client sends), and
reducing keeps what a path is made of (`ReduceType`).

**Only model-checked:** liveness, which is out of the prover's reach: `PollEnds`, `Served`, `Accepted`,
`StopsUnlessBlocked`, `StopEnds`, `InvocationsEnd` and `Terminates`.  Every safety invariant, action
property and refinement that a passing run checks is also a theorem.

## 6. Findings

Three runs show that the code does not do what a comment of its own says.

1. **A drop disturbs the poll** (`each_once`).  `erase` has already moved `iter` on when
   `++iter` runs (`server.cpp:462, 469`).  The next connection is passed over; or, if the dropped
   one was the last, `iter` goes round and connections already read are read again, which
   blocks the daemon, and with it every client and a pending `stop`, until that client
   sends something or leaves.
2. **A port nobody serves counts as a running instance** (`running_served`).  `main.cpp:22` takes a
   connection that succeeds for a running instance.  Shells are forked from the daemon and keep its
   listening socket, so that after `stop` the kernel completes connections for as long as one shell
   lives; `start` then says "Instance already running", and `stop` reports success.
3. **exec may lose the working directory** (`exec_cwd`).  `server.cpp:221` says that exec preserves
   it, but the result of `setCwd` is ignored: without memory for a copy of the caller's directory the
   program runs in the one `loadFileFS` has set, that of its file.

Further observations, met while modelling; the models do what the code does, and no run is spent
on them:

* Pids collide: `processFork` numbers the child by the size of the caller's own copy of `procs`, so
  that init's child and the daemon's next shell answer the same to `getpid`.  `ProcessApi` promises
  no more than the code keeps.
* `open` swaps its flags and mode: `server.cpp:293` passes mode, then flags, to a function that
  takes flags, then mode.
* The first entry of the table with the caller's POSIX pid is used, and entries of dead processes are never
  cleared; with SIGCHLD ignored the kernel may reuse a pid at once, and a call is then executed
  for a dead ancestor's entry: the exception of `CallerIdentified`.
* A tty's input is shared: the daemon goes on polling a connection that has a shell, so each line
  goes to whichever of the two reads first.
* The device of a tty outlives its connection and keeps a descriptor number that accept(2) gives
  to the next client.
* The error path of `forkCopy` frees and closes what the destructor frees and closes again
  (`process.cpp:344, 348, 39`): the exception of `HandlesBalanced` and `TableUsable`.  When dlsym fails
  (`process.cpp:319`) the second dlclose can unmap the program that is running.
* When fork(2) fails the child's object is never deleted (`server.cpp:174`) and holds its library for good.
* Any client may send `stop` (`server.cpp:555` has a TODO on permission).
* shell: `setenv` writes the C library's environment and `getenv` reads the platform's, which nobody
  fills, so `HOME` is never seen.  The prompt is never shown with a tilde, whatever `shell.c:12` and
  `shell.c:177` say, and `cd ~` changes nothing, whatever `shell.c:205` says.  A relative path becomes the
  directory as it is, although `shell.c:110` says that it is resolved to an absolute one.  `CwdAsAsked` is
  about absolute paths for these reasons.  `export` alone ends the shell.  Lines that arrive in one
  read are one command, and the first `#` among them ends it, so `misc/profile` has no effect.
* dshell: `delimiterCount` is 3 of 4, so that the newline is part of a token, although the list
  (`token.cpp:17`) and the comment at `token.cpp:66` take it for a delimiter; Enter alone, or `ls &` and
  Enter, ends it.  A job after `&` is started whether or not the one before it succeeded, which
  `token.cpp:12` says it needs; `|` is an argument and connects nothing, against `token.cpp:15`; quoted
  spaces, which `dshell.cpp:27` means to keep, are lost to `strtok`, and a quoted `&` splits.  popen is given
  the program's name without its arguments; its streams are never closed, and when it fails getline
  gets a NULL stream (`job.cpp:35`, `dshell.cpp:43`).  The text of a job is copied through a pointer into a string that is gone
  (`command.cpp:25`).
* `sys.c:64`: the error path of `execl` frees up to a NULL that it has not written yet.

## 7. What is left out, and why

* Memory other than that of `Process` objects: a lost device or entry is just absent, and a double
  free or `dlclose(NULL)` is `Crash` in `VirtualProcesses`.
* Static variables of a program's library, which dlopen shares between exec of the same
  program; `environ`, which is never set.
* Descriptors a program invented: `procs[...]->fds[fd]` is indexed unchecked
  (`server.cpp:270, 281, 301`), which is undefined; modelled programs use slots of their table.
* `fdOpenSocket` (`server.cpp:608`), which nothing calls.
* File contents and offsets, creation of files, permissions.  A path is a value; `open` may fail
  at any time, which covers missing files and container mapping.
* The host's fork(2) copies kernel descriptors, and so does the model; that both copies share a
  file offset is part of the contents left out.
* Modes: every program in the repository passes mode 0.
* The command server: reads of more than 1024 bytes; lines of which a proper part is itself a
  command ("stop" without its newline); interrupted system calls; descriptor numbers from
  FD_SETSIZE on, for which `FD_SET` is undefined; failures of tcpListen, after which the loop
  never starts.  What the daemon does not read, a shell may read whole: parts of lines are not
  followed into the shell.
* What `Devices::remove` and `close` do: only the destructor of `Server` calls them, at exit; and the second close
  of a socket by `SocketTcp`'s destructor, which `main` does not outlive.
* The program library: copying the arguments of `execl` and `execv`, string functions, printf.  What
  programs pass to exec has no effect on the platform's state but a failed allocation, which `Exec` has.
* The prompt of `Shell`, and with it `shellPathDisplay`: it is written and never read back.  `PWD` is kept as
  equal to the directory or not; the buffer an empty line underruns is
  not modelled, nor are the buffers of `getline` in dshell.
* Small programs other than factor: they print their arguments, files or environment, loop, or
  fork, and keep no state across calls.
* What happens to a standing connection after the daemon ended, beyond that it still accepts data
  while a shell holds the socket.

## 8. What could follow

1. Composition of `TcpServer` with `VirtualProcesses`, for the path from a connection to a shell.
2. The arguments of exec through `stdlib/sys.c`, with its error path.
3. A module for `Devices`, should anything but the destructor come to remove one.

The project is kept to a dozen runs that finish within minutes.  A new component therefore gets
one run that checks all its properties.

------------------------------ MODULE ApiProofs ------------------------------
(***************************************************************************)
(* That the server in each process keeps the promises of ProcessApi: every *)
(* step of VirtualProcesses is, for the programs, a step of ProcessApi or  *)
(* none.                                                                   *)
(***************************************************************************)
EXTENDS ProcessRefinement, VirtualProcessesProofs

\* A program's own table is no longer than the bound.
OwnSlots ==
  \A p \in Running : \A i \in FindPid(image[p], p) : Len(image[p].procs[i].fds) <= MaxSlots

\* The invariant of the simulation: callers are told from their ancestors, the
\* books are right.
ApiInv == CallerInv /\ reused = {} /\ OwnershipInv /\ OwnSlots

\* What the open slots of process i lead to.
SlotTargets(img, i) == [s \in OpenSlots(img, i) |-> Target(img, i, s)]

-----------------------------------------------------------------------------
(* What a program sees of its image.                                       *)

\* An image that identifies p has one position for it.
LEMMA IdentifiedFinds ==
  ASSUME NEW img \in Image, NEW p, Identified(img, p)
  PROVE  \E i \in DOMAIN img.procs : FindPid(img, p) = {i} /\ img.procs[i].posixPID = p /\ i \in Nat
<1>1. PICK i \in DOMAIN img.procs :
        /\ img.procs[i].posixPID = p
        /\ \A j \in DOMAIN img.procs : img.procs[j].posixPID = p => j = i
  BY DEF Identified
<1>2. i \in Nat
  BY DEF Image
<1>3. {j \in DOMAIN img.procs : img.procs[j].posixPID = p} = {i}
  BY <1>1
<1>. QED BY <1>1, <1>2, <1>3 DEF FindPid, First

\* Where slots, entries and numbers stay, so does what they lead to.
LEMMA SameTargets ==
  ASSUME NEW img, NEW new, NEW i,
         new.fdEntries = img.fdEntries, new.kernel = img.kernel,
         new.procs[i].fds = img.procs[i].fds
  PROVE  SlotTargets(new, i) = SlotTargets(img, i)
BY DEF SlotTargets, OpenSlots, Target, FdGet

\* A process without slots has no descriptors.
LEMMA NoTargets ==
  ASSUME NEW img, NEW i, img.procs[i].fds = <<>>
  PROVE  SlotTargets(img, i) = Api!NoFds /\ OpenSlots(img, i) = {}
<1>1. OpenSlots(img, i) = {}
  BY DEF OpenSlots
<1>. QED BY <1>1 DEF SlotTargets, Api!NoFds

\* A running program in the abstract state.
LEMMA ProgramSeen ==
  ASSUME NEW p \in Posix, NEW i
  PROVE  /\ p \in Running /\ FindPid(image[p], p) = {i} =>
              /\ ApiPid[p] = i
              /\ ApiOpened[p] = SlotTargets(image[p], i)
              /\ ApiCwd[p] = image[p].procs[i].cwd
         /\ p \in Running' /\ FindPid(image'[p], p) = {i} =>
              /\ ApiPid'[p] = i
              /\ ApiOpened'[p] = SlotTargets(image'[p], i)
              /\ ApiCwd'[p] = image'[p].procs[i].cwd
<1>1. ASSUME p \in Running, FindPid(image[p], p) = {i}
      PROVE  ApiPid[p] = i /\ ApiOpened[p] = SlotTargets(image[p], i) /\ ApiCwd[p] = image[p].procs[i].cwd
  <2>1. PidOf(p) = i
    BY <1>1 DEF PidOf
  <2>. QED BY <1>1, <2>1 DEF ApiPid, ApiOpened, ApiCwd, SlotTargets
<1>2. ASSUME p \in Running', FindPid(image'[p], p) = {i}
      PROVE  ApiPid'[p] = i /\ ApiOpened'[p] = SlotTargets(image'[p], i) /\ ApiCwd'[p] = image'[p].procs[i].cwd
  <2>1. PidOf(p)' = i
    BY <1>2 DEF PidOf
  <2>. QED BY <1>2, <2>1 DEF ApiPid, ApiOpened, ApiCwd, SlotTargets
<1>. QED BY <1>1, <1>2

\* No program runs in the others.
LEMMA NobodySeen ==
  ASSUME NEW p \in Posix
  PROVE  /\ p \notin Running => ApiPid[p] = 0 /\ ApiOpened[p] = Api!NoFds /\ ApiCwd[p] = None
         /\ p \notin Running' => ApiPid'[p] = 0 /\ ApiOpened'[p] = Api!NoFds /\ ApiCwd'[p] = None
BY DEF ApiPid, ApiOpened, ApiCwd, Api!NoFds

\* An image that stays is seen the same.
LEMMA OthersSeen ==
  ASSUME NEW q \in Posix, q \in Running' <=> q \in Running, image'[q] = image[q]
  PROVE  ApiPid'[q] = ApiPid[q] /\ ApiOpened'[q] = ApiOpened[q] /\ ApiCwd'[q] = ApiCwd[q]
<1>1. PidOf(q)' = PidOf(q)
  BY DEF PidOf
<1>. QED BY <1>1 DEF ApiPid, ApiOpened, ApiCwd

\* The abstract state is made of functions over Posix.
LEMMA SeenFunctions ==
  /\ ApiPid = [p \in Posix |-> ApiPid[p]] /\ ApiPid' = [p \in Posix |-> ApiPid'[p]]
  /\ ApiOpened = [p \in Posix |-> ApiOpened[p]] /\ ApiOpened' = [p \in Posix |-> ApiOpened'[p]]
  /\ ApiCwd = [p \in Posix |-> ApiCwd[p]] /\ ApiCwd' = [p \in Posix |-> ApiCwd'[p]]
BY DEF ApiPid, ApiOpened, ApiCwd

-----------------------------------------------------------------------------
(* Steps.                                                                  *)

\* Two states that differ for one process only.
LEMMA OneChanges ==
  ASSUME NEW p \in Posix,
         \A q \in Posix \ {p} : image'[q] = image[q] /\ (q \in Running' <=> q \in Running)
  PROVE  /\ ApiPid' = [ApiPid EXCEPT ![p] = ApiPid'[p]]
         /\ ApiOpened' = [ApiOpened EXCEPT ![p] = ApiOpened'[p]]
         /\ ApiCwd' = [ApiCwd EXCEPT ![p] = ApiCwd'[p]]
<1>1. \A q \in Posix \ {p} : ApiPid'[q] = ApiPid[q] /\ ApiOpened'[q] = ApiOpened[q] /\ ApiCwd'[q] = ApiCwd[q]
  BY OthersSeen
<1>2. ApiPid' = [ApiPid EXCEPT ![p] = ApiPid'[p]]
  BY <1>1, SeenFunctions
<1>3. ApiOpened' = [ApiOpened EXCEPT ![p] = ApiOpened'[p]]
  BY <1>1, SeenFunctions
<1>4. ApiCwd' = [ApiCwd EXCEPT ![p] = ApiCwd'[p]]
  BY <1>1, SeenFunctions
<1>. QED BY <1>2, <1>3, <1>4

\* What is known of a step and of its caller.
LEMMA CallerKnown ==
  ASSUME ApiInv, NEW p \in Running, NEW i \in FindPid(image[p], p)
  PROVE  /\ p \in Posix /\ p # Daemon /\ p \in live /\ ImagesInv
         /\ GoodImage(image[p]) /\ Sound(image[p])
         /\ image[p] \in Image /\ i \in DOMAIN image[p].procs /\ i \in Nat \ {0}
         /\ image[p].procs \in Seq(Process) /\ image[p].procs[i].fds \in Seq(Nat)
         /\ image[p].procs[i] \in Process
         /\ FindPid(image[p], p) = {i} /\ image[p].procs[i].posixPID = p
         /\ Len(image[p].procs[i].fds) <= MaxSlots
         /\ ApiPid[p] = i
         /\ ApiOpened[p] = SlotTargets(image[p], i)
         /\ ApiCwd[p] = image[p].procs[i].cwd
<1>1. /\ p \in Posix /\ p # Daemon /\ p \in live /\ ImagesInv /\ Sound(image[p])
      /\ Identified(image[p], p)
  BY InvParts DEF ApiInv, CallerInv, PidsInv, OwnershipInv, ImagesInv, Running
<1>2. /\ GoodImage(image[p]) /\ image[p] \in Image /\ i \in DOMAIN image[p].procs
      /\ image[p].procs \in Seq(Process) /\ image[p].procs[i].fds \in Seq(Nat)
      /\ image[p].procs[i] \in Process /\ image[p].procs[i].posixPID = p
  BY <1>1, CallerTyped
<1>3. i \in Nat \ {0}
  BY <1>2
<1>4. FindPid(image[p], p) = {i}
  BY <1>1, <1>2, IdentifiedFinds
<1>5. Len(image[p].procs[i].fds) <= MaxSlots
  BY DEF ApiInv, OwnSlots
<1>. QED BY <1>1, <1>2, <1>3, <1>4, <1>5, ProgramSeen

\* A call that changes its caller's image.
LEMMA CallSeen ==
  ASSUME ApiInv, CallerInv', PidsKept, NEW p \in Running, NEW i \in FindPid(image[p], p),
         NEW new, Becomes(p, new)
  PROVE  /\ Running' = Running
         /\ ApiPid' = ApiPid
         /\ ApiOpened' = [ApiOpened EXCEPT ![p] = SlotTargets(new, i)]
         /\ ApiCwd' = [ApiCwd EXCEPT ![p] = new.procs[i].cwd]
         /\ Len(new.procs[i].fds) <= MaxSlots => OwnSlots'
<1>1. /\ p \in Posix /\ FindPid(image[p], p) = {i} /\ i \in DOMAIN image[p].procs
      /\ image[p].procs[i].posixPID = p /\ ApiPid[p] = i /\ ImagesInv
  BY CallerKnown
<1>2. /\ Running' = Running /\ image'[p] = new
      /\ \A q \in Posix \ {p} : image'[q] = image[q]
  BY <1>1 DEF Becomes, Running, ImagesInv
<1>3. FindPid(new, p) = {i}
  <2>0. reused' = {}
    BY DEF Becomes, ApiInv
  <2>1. Identified(new, p) /\ new \in Image
    BY <1>1, <1>2, <2>0 DEF CallerInv, PidsInv, DescriptorsInv, TypeOK
  <2>2. i \in DOMAIN new.procs /\ new.procs[i].posixPID = p
    BY <1>1, <1>2 DEF PidsKept, KeepsPid, Positions
  <2>3. PICK j \in DOMAIN new.procs : FindPid(new, p) = {j} /\ new.procs[j].posixPID = p
    BY <2>1, IdentifiedFinds
  <2>4. i = j
    BY <2>1, <2>2, <2>3 DEF Identified
  <2>. QED BY <2>3, <2>4
<1>4. ApiPid'[p] = i /\ ApiOpened'[p] = SlotTargets(new, i) /\ ApiCwd'[p] = new.procs[i].cwd
  BY <1>1, <1>2, <1>3, ProgramSeen
<1>5. /\ ApiPid' = [ApiPid EXCEPT ![p] = ApiPid'[p]]
      /\ ApiOpened' = [ApiOpened EXCEPT ![p] = ApiOpened'[p]]
      /\ ApiCwd' = [ApiCwd EXCEPT ![p] = ApiCwd'[p]]
  BY <1>1, <1>2, OneChanges
<1>6. ApiPid' = ApiPid
  BY <1>1, <1>4, <1>5, SeenFunctions
<1>7. ASSUME Len(new.procs[i].fds) <= MaxSlots PROVE OwnSlots'
  <2>1. \A q \in Running' : q \in Posix
    BY <1>1, <1>2 DEF ImagesInv, Running
  <2>2. ASSUME NEW q \in Running', NEW j \in FindPid(image'[q], q)
        PROVE  Len(image'[q].procs[j].fds) <= MaxSlots
    <3>1. CASE q = p
      BY <1>2, <1>3, <1>7, <2>2, <3>1
    <3>2. CASE q # p
      BY <1>2, <2>1, <2>2, <3>2 DEF ApiInv, OwnSlots
    <3>. QED BY <3>1, <3>2
  <2>. QED BY <2>2 DEF OwnSlots
<1>. QED BY <1>2, <1>4, <1>5, <1>6, <1>7

\* A step that leaves the programs' images alone.
LEMMA NothingSeen ==
  ASSUME Running' = Running, \A q \in Running : image'[q] = image[q], ImagesInv
  PROVE  /\ UNCHANGED <<Running, ApiPid, ApiOpened, ApiCwd>>
         /\ OwnSlots => OwnSlots'
<1>1. \A q \in Running : q \in Posix
  BY DEF ImagesInv, Running
<1>2. \A q \in Posix : ApiPid'[q] = ApiPid[q] /\ ApiOpened'[q] = ApiOpened[q] /\ ApiCwd'[q] = ApiCwd[q]
  BY OthersSeen, NobodySeen
<1>3. UNCHANGED ApiPid /\ UNCHANGED ApiOpened /\ UNCHANGED ApiCwd
  BY <1>2, SeenFunctions
<1>4. OwnSlots => OwnSlots'
  BY DEF OwnSlots
<1>. QED BY <1>3, <1>4

\* A process dies.
LEMMA EndsSeen ==
  ASSUME ApiInv, NEW p \in Running, Ends(p)
  PROVE  Api!Dies(p) /\ OwnSlots'
<1>1. p \in Posix /\ p # Daemon /\ ImagesInv
  BY InvParts DEF ApiInv, CallerInv, ImagesInv, Running
<1>2. /\ Running' = Running \ {p} /\ \A q \in Posix \ {p} : image'[q] = image[q]
  BY <1>1 DEF Ends, Running, ImagesInv
<1>3. /\ ApiPid' = [ApiPid EXCEPT ![p] = ApiPid'[p]]
      /\ ApiOpened' = [ApiOpened EXCEPT ![p] = ApiOpened'[p]]
      /\ ApiCwd' = [ApiCwd EXCEPT ![p] = ApiCwd'[p]]
  BY <1>1, <1>2, OneChanges
<1>4. ApiPid'[p] = 0 /\ ApiOpened'[p] = Api!NoFds /\ ApiCwd'[p] = None
  BY <1>1, <1>2, NobodySeen
<1>5. Api!Dies(p)
  BY <1>2, <1>3, <1>4 DEF Api!Dies
<1>6. OwnSlots'
  <2>1. \A q \in Running' : q \in Running /\ q \in Posix \ {p}
    BY <1>1, <1>2 DEF ImagesInv, Running
  <2>. QED BY <1>2, <2>1 DEF ApiInv, OwnSlots
<1>. QED BY <1>5, <1>6

\* To p its image and img look the same.
SeesSame(p, img) ==
  \A i \in FindPid(image[p], p) :
    /\ FindPid(img, p) = {i}
    /\ SlotTargets(img, i) = SlotTargets(image[p], i)
    /\ img.procs[i].cwd = image[p].procs[i].cwd
    /\ img.procs[i].fds = image[p].procs[i].fds

\* A child is born, at position n of the image it inherits; its parent is the
\* daemon, or sees no change.
LEMMA BornSeen ==
  ASSUME ApiInv, CallerInv', Recycle = FALSE, NEW p \in live, NEW child \in Posix,
         NEW parentImage, NEW childImage, Forked(p, child, parentImage, childImage),
         NEW n \in DOMAIN childImage.procs, childImage.procs[n].posixPID = child,
         childImage.procs[n].fds = <<>>,
         p \in Running => SeesSame(p, parentImage)
  PROVE  Api!Born(child, n, childImage.procs[n].cwd) /\ OwnSlots'
<1>1. ImagesInv /\ p \in Posix /\ child \notin live /\ child # p
  BY InvParts DEF ApiInv, CallerInv, ImagesInv, Forked
<1>2. child # Daemon /\ child \notin Running /\ reused' = {}
  BY <1>1 DEF CallerInv, PidsInv, Forked, Running
<1>3. /\ Running' = Running \cup {child}
      /\ image'[child] = childImage /\ image'[p] = parentImage
      /\ \A q \in Posix \ {p, child} : image'[q] = image[q]
  BY <1>1, <1>2 DEF Forked, Running, ImagesInv
<1>4. FindPid(childImage, child) = {n}
  <2>1. Identified(childImage, child) /\ childImage \in Image
    BY <1>2, <1>3 DEF CallerInv, PidsInv, DescriptorsInv, TypeOK
  <2>2. PICK j \in DOMAIN childImage.procs :
          FindPid(childImage, child) = {j} /\ childImage.procs[j].posixPID = child
    BY <2>1, IdentifiedFinds
  <2>. QED BY <2>1, <2>2 DEF Identified
<1>5. /\ ApiPid'[child] = n /\ ApiOpened'[child] = Api!NoFds
      /\ ApiCwd'[child] = childImage.procs[n].cwd
  BY <1>3, <1>4, ProgramSeen, NoTargets
<1>6. ApiPid'[p] = ApiPid[p] /\ ApiOpened'[p] = ApiOpened[p] /\ ApiCwd'[p] = ApiCwd[p]
  <2>1. CASE p \notin Running
    BY <1>1, <1>3, <2>1, NobodySeen
  <2>2. CASE p \in Running
    <3>1. PICK i \in DOMAIN image[p].procs : FindPid(image[p], p) = {i}
      BY <1>1, <2>2, IdentifiedFinds DEF ApiInv, CallerInv, PidsInv, ImagesInv
    <3>2. p \in Running' /\ FindPid(image'[p], p) = {i}
      BY <1>3, <2>2, <3>1 DEF SeesSame
    <3>. QED BY <1>1, <1>3, <2>2, <3>1, <3>2, ProgramSeen DEF SeesSame
  <2>. QED BY <2>1, <2>2
<1>7. \A q \in Posix \ {child} : ApiPid'[q] = ApiPid[q] /\ ApiOpened'[q] = ApiOpened[q] /\ ApiCwd'[q] = ApiCwd[q]
  <2>1. \A q \in Posix \ {p, child} : image'[q] = image[q] /\ (q \in Running' <=> q \in Running)
    BY <1>3
  <2>. QED BY <1>6, <2>1, OthersSeen
<1>8. /\ ApiPid' = [ApiPid EXCEPT ![child] = n]
      /\ ApiOpened' = [ApiOpened EXCEPT ![child] = Api!NoFds]
      /\ ApiCwd' = [ApiCwd EXCEPT ![child] = childImage.procs[n].cwd]
  <2>1. ApiPid' = [ApiPid EXCEPT ![child] = n]
    BY <1>5, <1>7, SeenFunctions
  <2>2. ApiOpened' = [ApiOpened EXCEPT ![child] = Api!NoFds]
    BY <1>5, <1>7, SeenFunctions
  <2>3. ApiCwd' = [ApiCwd EXCEPT ![child] = childImage.procs[n].cwd]
    BY <1>5, <1>7, SeenFunctions
  <2>. QED BY <2>1, <2>2, <2>3
<1>9. Api!Born(child, n, childImage.procs[n].cwd)
  BY <1>2, <1>3, <1>8 DEF Api!Born
<1>10. OwnSlots'
  <2>1. Len(childImage.procs[n].fds) <= MaxSlots
    BY VPAssumption
  <2>2. ASSUME NEW q \in Running', NEW j \in FindPid(image'[q], q)
        PROVE  Len(image'[q].procs[j].fds) <= MaxSlots
    <3>0. q \in Posix
      BY <1>1, <1>3, <2>2 DEF ImagesInv, Running
    <3>1. CASE q = child
      BY <1>3, <1>4, <2>1, <2>2, <3>1
    <3>2. CASE q = p
      <4>1. p \in Running
        BY <1>1, <1>3, <2>2, <3>2
      <4>2. PICK i \in DOMAIN image[p].procs : FindPid(image[p], p) = {i}
        BY <1>1, <4>1, IdentifiedFinds DEF ApiInv, CallerInv, PidsInv, ImagesInv
      <4>3. j = i /\ image'[q].procs[j].fds = image[p].procs[i].fds
        BY <1>3, <2>2, <3>2, <4>1, <4>2 DEF SeesSame
      <4>. QED BY <4>1, <4>2, <4>3 DEF ApiInv, OwnSlots
    <3>3. CASE q # child /\ q # p
      BY <1>3, <2>2, <3>0, <3>3 DEF ApiInv, OwnSlots
    <3>. QED BY <3>1, <3>2, <3>3
  <2>. QED BY <2>2 DEF OwnSlots
<1>. QED BY <1>9, <1>10

-----------------------------------------------------------------------------
(* Processes come and go.                                                  *)

\* The process added last runs in the child: a new position, no slots.
LEMMA AddedChild ==
  ASSUME NEW img, GoodImage(img), NEW proc \in Process, proc.fds = <<>>, NEW posix \in Posix
  PROVE  LET added == AddProc(img, proc)
             n     == Len(added.procs)
             child == RunIn(added, n, posix)
         IN  /\ n = Len(img.procs) + 1 /\ n \in DOMAIN added.procs /\ n \in DOMAIN child.procs
             /\ child.procs[n].posixPID = posix /\ child.procs[n].fds = <<>>
             /\ child.procs[n].cwd = proc.cwd
             /\ \A i \in DOMAIN img.procs : added.procs[i] = img.procs[i]
             /\ added.fdEntries = img.fdEntries /\ added.kernel = img.kernel
<1>. DEFINE added == AddProc(img, proc)
            n     == Len(added.procs)
            child == RunIn(added, n, posix)
            run   == [proc EXCEPT !.posixPID = posix, !.state = "Running"]
<1>1. img.procs \in Seq(Process) /\ img \in Image
  BY DEF GoodImage, Image
<1>2. /\ added.procs = Append(img.procs, proc)
      /\ added.fdEntries = img.fdEntries /\ added.kernel = img.kernel
  BY <1>1 DEF AddProc, Image
<1>3. GoodImage(added) /\ n = Len(img.procs) + 1
  BY AddProcGood
<1>4. added \in Image /\ added.procs \in Seq(Process)
  BY <1>3 DEF GoodImage, Image
<1>5. /\ n \in DOMAIN added.procs /\ added.procs[n] = proc
      /\ \A i \in DOMAIN img.procs : added.procs[i] = img.procs[i]
  BY <1>1, <1>2, <1>3
<1>6. run.posixPID = posix /\ run.fds = <<>> /\ run.cwd = proc.cwd
  BY DEF Process
<1>. HIDE DEF added, n
<1>7. child.procs = [added.procs EXCEPT ![n] = run]
  BY <1>4, <1>5 DEF RunIn, Image
<1>. HIDE DEF child, run
<1>8. /\ n \in DOMAIN child.procs /\ child.procs[n] = run
  BY <1>4, <1>5, <1>7
<1>. QED BY <1>2, <1>3, <1>5, <1>6, <1>8 DEF added, n, child

\* The daemon runs the process it added last.
LEMMA RunForkedSeen ==
  ASSUME ApiInv, CallerInv', Recycle = FALSE, Daemon \in live, NEW img, GoodImage(img),
         NEW dir \in Dirs, Len(img.procs) \in 1 .. MaxProcs - 1, UNCHANGED last,
         RunForked(AddProc(img, Loaded(dir)), Len(AddProc(img, Loaded(dir)).procs))
  PROVE  Api!Spawn /\ OwnSlots'
<1>. DEFINE added == AddProc(img, Loaded(dir))
            n     == Len(added.procs)
<1>1. PICK posix \in Posix : Forked(Daemon, posix, added, RunIn(added, n, posix))
  BY DEF RunForked
<1>. DEFINE child == RunIn(added, n, posix)
<1>2. Loaded(dir) \in Process /\ Loaded(dir).fds = <<>> /\ Loaded(dir).cwd = dir
  BY FreshTyped DEF Loaded, NewProcess
<1>3. /\ n = Len(img.procs) + 1 /\ n \in DOMAIN child.procs
      /\ child.procs[n].posixPID = posix /\ child.procs[n].fds = <<>>
      /\ child.procs[n].cwd = dir
  BY <1>2, AddedChild
<1>4. n \in 2 .. MaxProcs
  <2>. HIDE DEF n
  <2>. QED BY <1>3, VPAssumption
<1>5. Daemon \notin Running
  BY DEF Running
<1>. HIDE DEF added, n, child
<1>6. Api!Born(posix, n, dir) /\ OwnSlots'
  <2>1. Forked(Daemon, posix, added, child)
    BY <1>1 DEF child
  <2>. QED BY <1>3, <1>5, <2>1, BornSeen
<1>. QED BY <1>4, <1>6 DEF Api!Spawn

\* Nobody sees what the daemon does to its own image.
LEMMA DaemonSeen ==
  ASSUME ApiInv, live \ {Daemon} = live' \ {Daemon}, NEW img,
         image' = [image EXCEPT ![Daemon] = img], UNCHANGED last
  PROVE  UNCHANGED Api!vars /\ OwnSlots'
<1>1. ImagesInv /\ OwnSlots
  BY InvParts DEF ApiInv, CallerInv
<1>2. Running' = Running /\ \A q \in Running : image'[q] = image[q]
  BY <1>1 DEF Running, ImagesInv
<1>3. UNCHANGED <<Running, ApiPid, ApiOpened, ApiCwd>> /\ OwnSlots'
  BY <1>1, <1>2, NothingSeen
<1>. QED BY <1>3 DEF Api!vars

LEMMA RunInitSeen ==
  ASSUME ApiInv, CallerInv', Recycle = FALSE, MaxProcs >= 2, RunInit
  PROVE  [Api!Next]_Api!vars /\ OwnSlots'
<1>1. GoodImage(image[Daemon]) /\ SysDir \in Dirs /\ UNCHANGED last
  BY InvParts, VPAssumption, ImageAssumption DEF ApiInv, CallerInv, ImagesInv, RunInit
<1>2. Daemon \in live /\ Len(image[Daemon].procs) \in 1 .. MaxProcs - 1
  BY VPAssumption DEF RunInit
<1>3. CASE Ends(Daemon)
  <2>1. live \ {Daemon} = live' \ {Daemon} /\ image' = [image EXCEPT ![Daemon] = BootImage]
    BY <1>3 DEF Ends
  <2>. QED BY <1>1, <2>1, DaemonSeen
<1>4. CASE ~Ends(Daemon)
  BY <1>1, <1>2, <1>4, RunForkedSeen DEF RunInit, Api!Next
<1>. QED BY <1>3, <1>4

LEMMA SpawnShellSeen ==
  ASSUME ApiInv, CallerInv', Recycle = FALSE, SpawnShell
  PROVE  [Api!Next]_Api!vars /\ OwnSlots'
<1>1. PICK n \in TtyName(image[Daemon]) :
        LET named == [image[Daemon] EXCEPT !.devices[n] = 0]
            added == AddProc(named, Loaded(BinDir))
        IN  \/ \E img \in {named, added} :
                 /\ image' = [image EXCEPT ![Daemon] = img]
                 /\ UNCHANGED <<live, used, reused>>
            \/ RunForked(added, Len(added.procs))
  BY DEF SpawnShell
<1>. DEFINE named == [image[Daemon] EXCEPT !.devices[n] = 0]
            dv    == [image[Daemon].devices EXCEPT ![n] = 0]
            added == AddProc(named, Loaded(BinDir))
<1>2. image[Daemon] \in Image /\ GoodImage(image[Daemon])
  BY InvParts, VPAssumption DEF ApiInv, CallerInv, ImagesInv
<1>3. /\ dv \in [Devices -> Nat \cup {-1}]
      /\ image[Daemon].kernel \in [KernelFds -> OpenFile \cup {None}]
      /\ named = [image[Daemon] EXCEPT !.devices = dv, !.kernel = image[Daemon].kernel]
      /\ named.procs = image[Daemon].procs
  BY <1>2 DEF Image
<1>4. GoodImage(named)
  <2>. HIDE DEF named, dv
  <2>. QED BY <1>2, <1>3, OutsideGood
<1>5. /\ Daemon \in live /\ UNCHANGED last /\ BinDir \in Dirs
      /\ Len(named.procs) \in 1 .. MaxProcs - 1
  <2>1. Len(image[Daemon].procs) \in 2 .. MaxProcs - 1
    BY DEF SpawnShell
  <2>2. Len(named.procs) \in 1 .. MaxProcs - 1
    BY <1>3, <2>1, VPAssumption
  <2>. QED BY <2>2, ImageAssumption DEF SpawnShell
<1>. HIDE DEF named
<1>6. CASE RunForked(added, Len(added.procs))
  BY <1>4, <1>5, <1>6, RunForkedSeen DEF Api!Next
<1>. HIDE DEF added
<1>7. CASE \E img \in {named, added} :
             image' = [image EXCEPT ![Daemon] = img] /\ UNCHANGED <<live, used, reused>>
  BY <1>5, <1>7, DaemonSeen
<1>. QED BY <1>1, <1>6, <1>7 DEF named, added

LEMMA DaemonExitsSeen ==
  ASSUME ApiInv, DaemonExits PROVE [Api!Next]_Api!vars /\ OwnSlots'
<1>1. /\ live \ {Daemon} = live' \ {Daemon} /\ UNCHANGED last
      /\ image' = [image EXCEPT ![Daemon] = BootImage]
  BY DEF DaemonExits, Ends
<1>. QED BY <1>1, DaemonSeen

\* fork: the parent keeps its descriptors, the child has none.
LEMMA ForkSeen ==
  ASSUME ApiInv, CallerInv', Recycle = FALSE, Observe = TRUE, NEW p \in Running,
         NEW i \in FindPid(image[p], p), Fork(p, i)
  PROVE  (Api!Fork(p) \/ Api!Fails(p)) /\ OwnSlots'
<1>. DEFINE img  == image[p]
            proc == ForkCopy(img.procs[i])
            next == AddProc(img, proc)
            n    == Len(next.procs)
<1>1. /\ p \in Posix /\ p \in live /\ GoodImage(img) /\ i \in DOMAIN img.procs
      /\ i \in Nat \ {0} /\ img.procs \in Seq(Process) /\ img.procs[i].posixPID = p
      /\ FindPid(img, p) = {i} /\ ApiPid[p] = i /\ ApiCwd[p] = img.procs[i].cwd /\ ImagesInv
      /\ img.procs[i] \in Process
  BY CallerKnown
<1>2. /\ proc \in Process /\ proc.fds = <<>> /\ proc.posixPID = None
      /\ proc.cwd = img.procs[i].cwd
  <2>1. proc.cwd = img.procs[i].cwd
    BY <1>1 DEF ForkCopy, Process
  <2>. QED BY <1>1, <2>1, FreshTyped, FreshPids
<1>. HIDE DEF proc
<1>3. /\ n = Len(img.procs) + 1 /\ next.procs[i] = img.procs[i]
      /\ next.fdEntries = img.fdEntries /\ next.kernel = img.kernel
  BY <1>1, <1>2, AddedChild
<1>4. i <= Len(img.procs) /\ Len(img.procs) \in Nat
  BY <1>1
<1>5. ASSUME NEW posix \in Posix, Forked(p, posix, next, RunIn(next, n, posix)),
             n <= MaxProcs, Returns(p, "fork", None, n)
      PROVE  Api!Fork(p) /\ OwnSlots'
  <2>. DEFINE child == RunIn(next, n, posix)
  <2>1. /\ n \in DOMAIN child.procs /\ child.procs[n].posixPID = posix
        /\ child.procs[n].fds = <<>> /\ child.procs[n].cwd = proc.cwd
    BY <1>1, <1>2, AddedChild
  <2>2. FindPid(next, p) = {i}
    <3>1. Identified(next, p) /\ KeepsPid(img, next, p)
      <4>1. KnownPids(img, used) /\ Identified(img, p)
        BY <1>1 DEF ApiInv, CallerInv, PidsInv
      <4>. QED BY <1>1, <1>2, <4>1, AddProcPids
    <3>2. next \in Image
      BY <1>1, <1>2, AddProcGood DEF GoodImage
    <3>3. PICK j \in DOMAIN next.procs : FindPid(next, p) = {j} /\ next.procs[j].posixPID = p
      BY <3>1, <3>2, IdentifiedFinds
    <3>4. i \in DOMAIN next.procs /\ next.procs[i].posixPID = p
      BY <1>1, <3>1 DEF KeepsPid, Positions
    <3>. QED BY <3>1, <3>3, <3>4 DEF Identified
  <2>3. SlotTargets(next, i) = SlotTargets(img, i)
    BY <1>3, SameTargets
  <2>4. n \in 2 .. MaxProcs /\ n > i
    <3>. HIDE DEF n
    <3>. QED BY <1>1, <1>3, <1>4, <1>5, VPAssumption
  <2>5. Forked(p, posix, next, child)
    BY <1>5
  <2>8. SeesSame(p, next)
    <3>. HIDE DEF next
    <3>. QED BY <1>1, <1>3, <2>2, <2>3 DEF SeesSame
  <2>9. p \in live
    BY <1>1
  <2>. HIDE DEF img, next, n, child
  <2>6. Api!Born(posix, n, child.procs[n].cwd) /\ OwnSlots'
    BY <2>1, <2>5, <2>8, <2>9, BornSeen
  <2>7. Api!Returns(p, "fork", None, n)
    BY <1>5 DEF Returns, Api!Returns
  <2>. QED BY <1>1, <1>2, <2>1, <2>4, <2>6, <2>7 DEF Api!Fork
<1>6. CASE NoEffect /\ Returns(p, "fork", None, None)
  <2>1. Running' = Running /\ (\A q \in Running : image'[q] = image[q]) /\ OwnSlots
    BY <1>6 DEF NoEffect, Running, ApiInv
  <2>2. Api!NoEffect /\ OwnSlots'
    BY <1>1, <2>1, NothingSeen DEF Api!NoEffect
  <2>3. Api!Returns(p, "fork", None, None)
    BY <1>6 DEF Returns, Api!Returns
  <2>. QED BY <2>2, <2>3 DEF Api!Fails
<1>. QED BY <1>5, <1>6 DEF Fork, img, proc, next, n

-----------------------------------------------------------------------------
(* Calls that change nothing a program can see.                            *)

\* The call's caller gets an image that looks the same, or nothing changes.
LEMMA UnchangedSeen ==
  ASSUME ApiInv, CallerInv', PidsKept, NEW p \in Running, NEW i \in FindPid(image[p], p),
         \/ NoEffect
         \/ \E new :
              /\ Becomes(p, new)
              /\ new.procs[i].fds = image[p].procs[i].fds
              /\ new.procs[i].cwd = image[p].procs[i].cwd
              /\ new.fdEntries = image[p].fdEntries /\ new.kernel = image[p].kernel
  PROVE  Api!NoEffect /\ OwnSlots'
<1>1. CASE NoEffect
  <2>1. Running' = Running /\ (\A q \in Running : image'[q] = image[q]) /\ OwnSlots /\ ImagesInv
    BY <1>1, CallerKnown DEF NoEffect, Running, ApiInv
  <2>. QED BY <2>1, NothingSeen DEF Api!NoEffect
<1>2. ASSUME NEW new, Becomes(p, new),
             new.procs[i].fds = image[p].procs[i].fds,
             new.procs[i].cwd = image[p].procs[i].cwd,
             new.fdEntries = image[p].fdEntries, new.kernel = image[p].kernel
      PROVE  Api!NoEffect /\ OwnSlots'
  <2>1. /\ p \in Posix /\ ApiOpened[p] = SlotTargets(image[p], i)
        /\ ApiCwd[p] = image[p].procs[i].cwd /\ Len(image[p].procs[i].fds) <= MaxSlots
    BY CallerKnown
  <2>2. SlotTargets(new, i) = SlotTargets(image[p], i)
    BY <1>2, SameTargets
  <2>3. /\ Running' = Running /\ ApiPid' = ApiPid /\ OwnSlots'
        /\ ApiOpened' = [ApiOpened EXCEPT ![p] = ApiOpened[p]]
        /\ ApiCwd' = [ApiCwd EXCEPT ![p] = ApiCwd[p]]
    BY <1>2, <2>1, <2>2, CallSeen
  <2>4. ApiOpened' = ApiOpened /\ ApiCwd' = ApiCwd
    BY <2>3, SeenFunctions
  <2>. QED BY <2>3, <2>4 DEF Api!NoEffect
<1>. QED BY <1>1, <1>2

\* A slot a program can name leads to what ProcessApi has for it.
LEMMA HeldTarget ==
  ASSUME NEW img \in Image, NEW i, NEW s \in DOMAIN img.procs[i].fds
  PROVE  Target(img, i, s) =
           IF s \in DOMAIN SlotTargets(img, i) THEN SlotTargets(img, i)[s] ELSE None
<1>1. DOMAIN SlotTargets(img, i) = OpenSlots(img, i)
  BY DEF SlotTargets
<1>2. CASE s \in OpenSlots(img, i)
  BY <1>1, <1>2 DEF SlotTargets
<1>3. CASE s \notin OpenSlots(img, i)
  <2>1. img.procs[i].fds[s] = 0
    BY <1>3 DEF OpenSlots
  <2>2. 0 \notin DOMAIN img.fdEntries
    BY DEF Image
  <2>3. FdGet(img, 0) = NullEntry /\ NullEntry.type = "NULL"
    BY <2>2 DEF FdGet, NullEntry
  <2>. QED BY <1>1, <1>3, <2>1, <2>3 DEF Target
<1>. QED BY <1>2, <1>3

\* read and write: the data comes from, or goes to, what the slot leads to.
LEMMA TransferSeen ==
  ASSUME ApiInv, CallerInv', PidsKept, Observe = TRUE, NEW p \in Running,
         NEW i \in FindPid(image[p], p), Read(p, i) \/ Write(p, i)
  PROVE  (Api!Transfer(p) \/ Api!Fails(p)) /\ OwnSlots'
<1>1. PICK s \in Held(p, i) :
        /\ NoEffect
        /\ \/ Returns(p, "read", s, Target(image[p], i, s))
           \/ Returns(p, "write", s, Target(image[p], i, s))
           \/ Returns(p, "write", s, None)
  <2>1. CASE Read(p, i)
    <3>1. PICK s \in Held(p, i) : NoEffect /\ Returns(p, "read", s, Target(image[p], i, s))
      BY <2>1 DEF Read
    <3>. QED BY <3>1
  <2>2. CASE Write(p, i)
    <3>1. PICK s \in Held(p, i) :
            /\ NoEffect
            /\ \/ Returns(p, "write", s, Target(image[p], i, s))
               \/ Returns(p, "write", s, None)
      BY <2>2 DEF Write
    <3>. QED BY <3>1
  <2>. QED BY <2>1, <2>2
<1>2. /\ image[p] \in Image /\ ApiOpened[p] = SlotTargets(image[p], i)
      /\ Len(image[p].procs[i].fds) <= MaxSlots /\ image[p].procs[i].fds \in Seq(Nat)
  BY CallerKnown
<1>3. s \in 1 .. MaxSlots /\ s \in DOMAIN image[p].procs[i].fds
  <2>1. s \in 1 .. Len(image[p].procs[i].fds) /\ Len(image[p].procs[i].fds) \in Nat
    BY <1>2 DEF Held
  <2>2. MaxSlots \in Nat
    BY VPAssumption
  <2>. QED BY <1>1, <1>2, <2>1, <2>2 DEF Held
<1>4. Target(image[p], i, s) = IF s \in DOMAIN ApiOpened[p] THEN ApiOpened[p][s] ELSE None
  BY <1>2, <1>3, HeldTarget
<1>5. Api!NoEffect /\ OwnSlots'
  BY <1>1, UnchangedSeen
<1>6. CASE \/ Returns(p, "read", s, Target(image[p], i, s))
           \/ Returns(p, "write", s, Target(image[p], i, s))
  <2>1. \/ Api!Returns(p, "read", s, Target(image[p], i, s))
        \/ Api!Returns(p, "write", s, Target(image[p], i, s))
    BY <1>6 DEF Returns, Api!Returns
  <2>. QED BY <1>3, <1>4, <1>5, <2>1 DEF Api!Transfer
<1>7. CASE Returns(p, "write", s, None)
  <2>1. Api!Returns(p, "write", s, None)
    BY <1>7 DEF Returns, Api!Returns
  <2>. QED BY <1>3, <1>5, <2>1 DEF Api!Fails
<1>. QED BY <1>1, <1>6, <1>7

LEMMA QuerySeen ==
  ASSUME ApiInv, CallerInv', PidsKept, Observe = TRUE, NEW p \in Running,
         NEW i \in FindPid(image[p], p), GetPid(p, i) \/ GetCwd(p, i)
  PROVE  Api!Query(p) /\ OwnSlots'
<1>1. ApiPid[p] = i /\ ApiCwd[p] = image[p].procs[i].cwd
  BY CallerKnown
<1>2. Api!NoEffect /\ OwnSlots'
  BY UnchangedSeen DEF GetPid, GetCwd
<1>3. Api!Returns(p, "getpid", None, ApiPid[p]) \/ Api!Returns(p, "getcwd", None, ApiCwd[p])
  BY <1>1 DEF GetPid, GetCwd, Returns, Api!Returns
<1>. QED BY <1>2, <1>3 DEF Api!Query

-----------------------------------------------------------------------------
(* Calls that change one thing.                                            *)

LEMMA ChDirSeen ==
  ASSUME ApiInv, CallerInv', PidsKept, Observe = TRUE, NEW p \in Running,
         NEW i \in FindPid(image[p], p), ChDir(p, i)
  PROVE  (Api!ChDir(p) \/ Api!Fails(p)) /\ OwnSlots'
<1>1. PICK dir \in Dirs :
        \/ /\ Becomes(p, [image[p] EXCEPT !.procs[i].cwd = dir])
           /\ Returns(p, "chdir", dir, 0)
        \/ CwdFails /\ NoEffect /\ Returns(p, "chdir", dir, None)
  BY DEF ChDir
<1>2. CASE NoEffect /\ Returns(p, "chdir", dir, None)
  <2>1. Api!NoEffect /\ OwnSlots'
    BY <1>2, UnchangedSeen
  <2>2. Api!Returns(p, "chdir", dir, None)
    BY <1>2 DEF Returns, Api!Returns
  <2>. QED BY <2>1, <2>2 DEF Api!Fails
<1>3. CASE /\ Becomes(p, [image[p] EXCEPT !.procs[i].cwd = dir])
           /\ Returns(p, "chdir", dir, 0)
  <2>. DEFINE new  == [image[p] EXCEPT !.procs[i].cwd = dir]
              proc == [image[p].procs[i] EXCEPT !.cwd = dir]
  <2>1. /\ image[p] \in Image /\ i \in DOMAIN image[p].procs /\ image[p].procs[i] \in Process
        /\ ApiOpened[p] = SlotTargets(image[p], i) /\ p \in Posix
        /\ Len(image[p].procs[i].fds) <= MaxSlots
    BY CallerKnown
  <2>2. /\ new.procs[i] = proc
        /\ new.fdEntries = image[p].fdEntries /\ new.kernel = image[p].kernel
    BY <2>1 DEF Image
  <2>3. proc.fds = image[p].procs[i].fds /\ proc.cwd = dir
    BY <2>1 DEF Process
  <2>. HIDE DEF new, proc
  <2>4. SlotTargets(new, i) = ApiOpened[p]
    BY <2>1, <2>2, <2>3, SameTargets
  <2>5. Becomes(p, new)
    BY <1>3 DEF new
  <2>9. Len(new.procs[i].fds) <= MaxSlots /\ new.procs[i].cwd = dir
    BY <2>1, <2>2, <2>3
  <2>6. /\ Running' = Running /\ ApiPid' = ApiPid /\ OwnSlots'
        /\ ApiOpened' = [ApiOpened EXCEPT ![p] = ApiOpened[p]]
        /\ ApiCwd' = [ApiCwd EXCEPT ![p] = dir]
    <3>1. /\ Running' = Running /\ ApiPid' = ApiPid
          /\ ApiOpened' = [ApiOpened EXCEPT ![p] = SlotTargets(new, i)]
          /\ ApiCwd' = [ApiCwd EXCEPT ![p] = new.procs[i].cwd]
          /\ Len(new.procs[i].fds) <= MaxSlots => OwnSlots'
      BY <2>5, CallSeen
    <3>. QED BY <2>4, <2>9, <3>1
  <2>7. ApiOpened' = ApiOpened
    BY <2>6, SeenFunctions
  <2>8. Api!Returns(p, "chdir", dir, 0)
    BY <1>3 DEF Returns, Api!Returns
  <2>. QED BY <2>6, <2>7, <2>8 DEF Api!ChDir
<1>. QED BY <1>1, <1>2, <1>3

\* exec: a fresh object without slots, in the caller's directory if setCwd gets
\* the memory it asks for.
LEMMA ExecSeen ==
  ASSUME ApiInv, CallerInv', PidsKept, CwdFails = FALSE, Observe = TRUE, NEW p \in Running,
         NEW i \in FindPid(image[p], p), Exec(p, i)
  PROVE  (Api!Exec(p) \/ Api!Fails(p)) /\ OwnSlots'
<1>1. CASE NoEffect /\ Returns(p, "exec", None, None)
  <2>1. Api!NoEffect /\ OwnSlots'
    BY <1>1, UnchangedSeen
  <2>2. Api!Returns(p, "exec", None, None)
    BY <1>1 DEF Returns, Api!Returns
  <2>. QED BY <2>1, <2>2 DEF Api!Fails
<1>2. ASSUME NEW dir \in Dirs, NEW errs, NEW cwd \in SetCwd(dir, image[p].procs[i].cwd),
             Returns(p, "exec", dir, cwd),
             LET fresh == [Loaded(dir) EXCEPT !.cwd = cwd]
                 freed == ProcessFree(image[p], i, errs)
             IN  Becomes(p, RunIn([freed EXCEPT !.procs[i] = fresh], i, p))
      PROVE  Api!Exec(p) /\ OwnSlots'
  <2>. DEFINE fresh  == [Loaded(dir) EXCEPT !.cwd = cwd]
              freed  == ProcessFree(image[p], i, errs)
              placed == [freed EXCEPT !.procs[i] = fresh]
              new    == RunIn(placed, i, p)
              proc   == [fresh EXCEPT !.posixPID = p, !.state = "Running"]
  <2>1. /\ GoodImage(image[p]) /\ i \in DOMAIN image[p].procs /\ p \in Posix
        /\ ApiCwd[p] = image[p].procs[i].cwd /\ ApiCwd[p] = cwd
    BY CallerKnown DEF SetCwd
  <2>2. fresh.fds = <<>> /\ fresh.cwd = cwd
    BY DEF Loaded, NewProcess
  <2>3. proc.fds = <<>> /\ proc.cwd = cwd
    BY DEF Loaded, NewProcess
  <2>4. freed \in Image /\ i \in DOMAIN freed.procs
    BY <2>1, ProcessFreeGood DEF GoodImage
  <2>5. Becomes(p, new)
    BY <1>2
  <2>. HIDE DEF fresh, freed
  <2>6. placed.procs[i] = fresh /\ "procs" \in DOMAIN placed /\ i \in DOMAIN placed.procs
    BY <2>4 DEF Image
  <2>. HIDE DEF placed
  <2>7. new.procs[i] = proc
    BY <2>6 DEF RunIn
  <2>. HIDE DEF new, proc
  <2>8. SlotTargets(new, i) = Api!NoFds
    BY <2>3, <2>7, NoTargets
  <2>9. Len(new.procs[i].fds) <= MaxSlots
    BY <2>3, <2>7, VPAssumption
  <2>10. /\ Running' = Running /\ ApiPid' = ApiPid /\ OwnSlots'
         /\ ApiOpened' = [ApiOpened EXCEPT ![p] = Api!NoFds]
         /\ ApiCwd' = [ApiCwd EXCEPT ![p] = cwd]
    BY <2>3, <2>5, <2>7, <2>8, <2>9, CallSeen
  <2>11. Api!Returns(p, "exec", dir, ApiCwd[p])
    BY <1>2, <2>1 DEF Returns, Api!Returns
  <2>12. ApiCwd' = ApiCwd
    BY <2>1, <2>10, SeenFunctions
  <2>. QED BY <1>2, <2>10, <2>11, <2>12 DEF Api!Exec
<1>. QED BY <1>1, <1>2 DEF Exec

-----------------------------------------------------------------------------
(* open and close.                                                         *)

\* A slot leads where it led if its entry, and for a file the number, stay.
LEMMA TargetKept ==
  ASSUME NEW img, NEW new, NEW i, NEW t,
         FdGet(new, new.procs[i].fds[t]) = FdGet(img, img.procs[i].fds[t]),
         FdGet(img, img.procs[i].fds[t]).type = "Fd" =>
           new.kernel[FdGet(img, img.procs[i].fds[t]).d] = img.kernel[FdGet(img, img.procs[i].fds[t]).d]
  PROVE  Target(new, i, t) = Target(img, i, t)
BY DEF Target

\* The same tables, and the same kernel state of every file's number.
SameBooks(img, base) ==
  /\ base.procs = img.procs /\ base.fdEntries = img.fdEntries
  /\ \A g \in FdEntriesOf(img) : base.kernel[img.fdEntries[g].d] = img.kernel[img.fdEntries[g].d]

\* What an entry for d leads to.
LeadsTo(base, type, d, t) ==
  \/ type = "Fd" /\ base.kernel[d] # None /\ base.kernel[d].file = t
  \/ type = "Device" /\ d = t

\* Slot s, the lowest free one of process i, comes to lead to t.
SlotOpened(img, new, i, s, t) ==
  /\ s \in 1 .. Len(img.procs[i].fds) + 1 /\ s \notin OpenSlots(img, i)
  /\ \A r \in Nat \ {0} : r < s => r \in OpenSlots(img, i)
  /\ SlotTargets(new, i) = [r \in OpenSlots(img, i) \cup {s} |->
                              IF r = s THEN t ELSE SlotTargets(img, i)[r]]
  /\ new.procs[i].cwd = img.procs[i].cwd
  /\ Len(img.procs[i].fds) <= MaxSlots /\ s <= MaxSlots => Len(new.procs[i].fds) <= MaxSlots

\* A new entry in the lowest free slot, for a number or device that no entry of
\* the image had: the slot leads to t, the others where they led.
LEMMA InstallTargets ==
  ASSUME NEW img, GoodImage(img), NEW base \in Image,
         SameBooks(img, base),
         NEW i \in DOMAIN img.procs, NEW e \in FdCreate(img), NEW s \in FdSlot(img.procs[i].fds),
         NEW type, NEW d, NEW t,
         LeadsTo(base, type, d, t),
         NEW new \in Image, new = FdInstall(base, i, e, s, type, d)
  PROVE  SlotOpened(img, new, i, s, t)
<1>. DEFINE fds   == img.procs[i].fds
            entry == [type |-> type, refCount |-> 1, d |-> d]
            left  == new.procs[i].fds
<1>0. fds \in Seq(Nat) /\ img \in Image
  BY ProcessTyped DEF GoodImage
<1>1. InstallChanges(base, new, i, e, s, entry)
  <2>1. e \in FdCreate(base) /\ s \in FdSlot(base.procs[i].fds) /\ i \in DOMAIN base.procs
    BY DEF FdCreate, SameBooks
  <2>. QED BY <2>1, InstallDetails
<1>. HIDE DEF entry
<1>2. /\ e \in 1 .. Len(img.fdEntries) + 1
      /\ e \in DOMAIN img.fdEntries => img.fdEntries[e].type = "NULL"
      /\ s \in 1 .. Len(fds) + 1
      /\ s \in DOMAIN fds => fds[s] = 0
      /\ new.kernel = base.kernel
      /\ new.procs[i].cwd = img.procs[i].cwd
      /\ DOMAIN new.procs = DOMAIN img.procs
  BY <1>1 DEF InstallChanges, SameBooks
<1>3. /\ DOMAIN new.fdEntries = DOMAIN img.fdEntries \cup {e}
      /\ \A g \in DOMAIN new.fdEntries : new.fdEntries[g] = IF g = e THEN entry ELSE img.fdEntries[g]
  BY <1>1 DEF InstallChanges, SameBooks
<1>4. /\ DOMAIN left = DOMAIN fds \cup {s}
      /\ \A r \in DOMAIN left : left[r] = IF r = s THEN e ELSE fds[r]
  BY <1>1 DEF InstallChanges, SameBooks
<1>5. s \notin OpenSlots(img, i)
  BY <1>2 DEF OpenSlots
<1>6. ASSUME NEW r \in Nat \ {0}, r < s PROVE r \in OpenSlots(img, i)
  <2>1. r \in DOMAIN fds
    BY <1>0, <1>2, <1>6
  <2>2. ~(r \in 1 .. Len(fds) + 1 /\ (r \in DOMAIN fds => fds[r] = 0))
    BY <1>2, <1>6 DEF FdSlot, First
  <2>. QED BY <1>0, <2>1, <2>2 DEF OpenSlots
<1>7. OpenSlots(new, i) = OpenSlots(img, i) \cup {s}
  <2>1. e # 0
    BY <1>2
  <2>. QED BY <1>2, <1>4, <2>1 DEF OpenSlots
<1>8. Target(new, i, s) = t
  <2>1. FdGet(new, left[s]) = entry
    BY <1>3, <1>4 DEF FdGet
  <2>2. entry.type = type /\ entry.d = d
    BY DEF entry
  <2>. QED BY <1>2, <2>1, <2>2 DEF Target, LeadsTo
<1>9. ASSUME NEW r \in OpenSlots(img, i) PROVE Target(new, i, r) = Target(img, i, r)
  <2>1. /\ fds[r] \in DOMAIN img.fdEntries /\ fds[r] # e /\ r # s /\ r \in DOMAIN left
    BY <1>2, <1>4, <1>5, SlotTyped
  <2>2. left[r] = fds[r] /\ FdGet(new, fds[r]) = img.fdEntries[fds[r]]
        /\ FdGet(img, fds[r]) = img.fdEntries[fds[r]]
    BY <1>3, <1>4, <2>1 DEF FdGet
  <2>3. img.fdEntries[fds[r]].type = "Fd" => fds[r] \in FdEntriesOf(img)
    BY <2>1 DEF FdEntriesOf
  <2>4. /\ FdGet(new, left[r]) = FdGet(img, fds[r])
        /\ FdGet(img, fds[r]).type = "Fd" =>
             new.kernel[FdGet(img, fds[r]).d] = img.kernel[FdGet(img, fds[r]).d]
    BY <1>2, <2>2, <2>3 DEF SameBooks
  <2>. QED BY <2>4, TargetKept
<1>10. SlotTargets(new, i) = [r \in OpenSlots(img, i) \cup {s} |->
                                IF r = s THEN t ELSE SlotTargets(img, i)[r]]
  <2>1. \A r \in OpenSlots(img, i) : SlotTargets(img, i)[r] = Target(img, i, r)
    BY DEF SlotTargets
  <2>. QED BY <1>7, <1>8, <1>9, <2>1 DEF SlotTargets
<1>11. Len(fds) <= MaxSlots /\ s <= MaxSlots => Len(left) <= MaxSlots
  <2>1. left \in Seq(Nat)
    BY <1>2, ProcessTyped
  <2>2. DOMAIN left = 1 .. Len(left) /\ Len(left) \in Nat /\ DOMAIN fds = 1 .. Len(fds) /\ Len(fds) \in Nat
    BY <1>0, <2>1
  <2>. HIDE DEF left, fds
  <2>3. Len(left) = 0 \/ Len(left) \in 1 .. Len(fds) \/ Len(left) = s
    BY <1>4, <2>2
  <2>4. MaxSlots \in Nat
    BY VPAssumption
  <2>5. CASE Len(left) \in 1 .. Len(fds)
    BY <2>2, <2>4, <2>5
  <2>. QED BY <2>2, <2>3, <2>4, <2>5
<1>. QED BY <1>2, <1>5, <1>6, <1>10, <1>11 DEF SlotOpened

\* A call that opens target t in slot s.
LEMMA OpenedSeen ==
  ASSUME ApiInv, CallerInv', PidsKept, Observe = TRUE, NEW p \in Running,
         NEW i \in FindPid(image[p], p), NEW base \in Image,
         SameBooks(image[p], base),
         NEW e \in FdCreate(image[p]), NEW s \in FdSlot(image[p].procs[i].fds), s <= MaxSlots,
         NEW type, NEW d, NEW t \in Files \cup Devices,
         LeadsTo(base, type, d, t),
         Becomes(p, FdInstall(base, i, e, s, type, d)),
         Returns(p, "open", t, s)
  PROVE  Api!Open(p) /\ OwnSlots'
<1>. DEFINE new == FdInstall(base, i, e, s, type, d)
            img == image[p]
<1>1. /\ GoodImage(img) /\ i \in DOMAIN img.procs /\ p \in Posix /\ ImagesInv
      /\ ApiOpened[p] = SlotTargets(img, i) /\ ApiCwd[p] = img.procs[i].cwd
      /\ Len(img.procs[i].fds) <= MaxSlots
  BY CallerKnown
<1>2. new \in Image
  <2>1. image'[p] = new
    BY <1>1 DEF Becomes, ImagesInv
  <2>. QED BY <1>1, <2>1 DEF CallerInv, DescriptorsInv, TypeOK
<1>. HIDE DEF img
<1>3. SlotOpened(img, new, i, s, t)
  <2>1. /\ SameBooks(img, base)
        /\ e \in FdCreate(img) /\ s \in FdSlot(img.procs[i].fds)
        /\ new = FdInstall(base, i, e, s, type, d)
    BY DEF img, new
  <2>. HIDE DEF new
  <2>. QED BY <1>1, <1>2, <2>1, InstallTargets
<1>. HIDE DEF new
<1>4. DOMAIN ApiOpened[p] = OpenSlots(img, i)
  BY <1>1 DEF SlotTargets
<1>5. /\ Running' = Running /\ ApiPid' = ApiPid /\ OwnSlots'
      /\ ApiOpened' = [ApiOpened EXCEPT ![p] = SlotTargets(new, i)]
      /\ ApiCwd' = [ApiCwd EXCEPT ![p] = ApiCwd[p]]
  <2>1. Becomes(p, new)
    BY DEF new
  <2>2. Len(new.procs[i].fds) <= MaxSlots /\ new.procs[i].cwd = ApiCwd[p]
    BY <1>1, <1>3 DEF SlotOpened
  <2>3. /\ Running' = Running /\ ApiPid' = ApiPid
        /\ ApiOpened' = [ApiOpened EXCEPT ![p] = SlotTargets(new, i)]
        /\ ApiCwd' = [ApiCwd EXCEPT ![p] = new.procs[i].cwd]
        /\ Len(new.procs[i].fds) <= MaxSlots => OwnSlots'
    BY <2>1, CallSeen
  <2>. QED BY <2>2, <2>3
<1>6. ApiCwd' = ApiCwd
  BY <1>5, SeenFunctions
<1>7. s \in 1 .. MaxSlots
  BY <1>3, VPAssumption DEF SlotOpened
<1>8. ApiOpened' = [ApiOpened EXCEPT ![p] =
                     [r \in DOMAIN @ \cup {s} |-> IF r = s THEN t ELSE @[r]]]
  BY <1>1, <1>3, <1>4, <1>5 DEF SlotOpened
<1>9. Api!Returns(p, "open", t, s)
  BY DEF Returns, Api!Returns
<1>10. \A r \in 1 .. MaxSlots : r < s => r \in DOMAIN ApiOpened[p]
  BY <1>3, <1>4 DEF SlotOpened
<1>. QED BY <1>3, <1>4, <1>5, <1>6, <1>7, <1>8, <1>9, <1>10 DEF SlotOpened, Api!Open

\* open in full: it opens a file or a device, or fails; what a failure leaves
\* counted no program sees.
LEMMA OpenSeen ==
  ASSUME ApiInv, CallerInv', PidsKept, CloseFails = FALSE, Observe = TRUE, NEW p \in Running,
         NEW i \in FindPid(image[p], p), Open(p, i)
  PROVE  (Api!Open(p) \/ Api!Fails(p)) /\ OwnSlots'
<1>1. PICK path \in Files \cup Devices, flags \in {O_RDONLY, O_RDWR}, mode \in {0} :
        FdOpenFdFromPath(p, i, path, mode, flags)
  BY DEF Open
<1>. DEFINE img     == image[p]
            counted == [img EXCEPT !.devices[path] = @ + 1]
            f       == [file |-> path, access |-> mode]
<1>2. /\ GoodImage(img) /\ img \in Image /\ Sound(img) /\ i \in DOMAIN img.procs
  BY CallerKnown
<1>3. CASE Returns(p, "open", path, None) /\ (NoEffect \/ (path \in Devices /\ Becomes(p, counted)))
  <2>1. counted.procs = img.procs /\ counted.fdEntries = img.fdEntries /\ counted.kernel = img.kernel
    BY <1>2 DEF Image
  <2>2. Api!NoEffect /\ OwnSlots'
    <3>. HIDE DEF counted
    <3>. QED BY <1>3, <2>1, UnchangedSeen
  <2>3. Api!Returns(p, "open", path, None)
    BY <1>3 DEF Returns, Api!Returns
  <2>. QED BY <2>2, <2>3 DEF Api!Fails
<1>4. ASSUME path \in Devices, img.devices[path] \in 0 .. MaxRefs - 1,
             NEW e \in FdCreate(img), NEW s \in FdSlot(img.procs[i].fds), s <= MaxSlots,
             Becomes(p, FdInstall(counted, i, e, s, "Device", path)),
             Returns(p, "open", path, s)
      PROVE  Api!Open(p) /\ OwnSlots'
  <2>1. counted \in Image /\ SameBooks(img, counted)
    <3>1. img.devices[path] + 1 \in Nat
      BY <1>2, <1>4
    <3>. QED BY <1>2, <3>1 DEF Image, SameBooks
  <2>2. LeadsTo(counted, "Device", path, path)
    BY DEF LeadsTo
  <2>. HIDE DEF counted
  <2>. QED BY <1>4, <2>1, <2>2, OpenedSeen
<1>5. ASSUME path \notin Devices, NEW k \in KernelFd(img),
             NEW e \in FdCreate(img), NEW s \in FdSlot(img.procs[i].fds), s <= MaxSlots,
             Becomes(p, FdInstall([img EXCEPT !.kernel[k] = f], i, e, s, "Fd", k)),
             Returns(p, "open", path, s)
      PROVE  Api!Open(p) /\ OwnSlots'
  <2>. DEFINE base == [img EXCEPT !.kernel[k] = f]
  <2>1. f \in OpenFile /\ f # None /\ f.file = path
    BY <1>5, NoneNoFile DEF OpenFile, O_RDONLY
  <2>2. k \in KernelFds /\ img.kernel[k] = None
    BY DEF KernelFd, First
  <2>. HIDE DEF f
  <2>3. /\ base \in Image /\ base.procs = img.procs /\ base.fdEntries = img.fdEntries
        /\ \A j \in KernelFds : base.kernel[j] = IF j = k THEN f ELSE img.kernel[j]
    BY <1>2, <2>1, <2>2 DEF Image
  <2>4. ASSUME NEW g \in FdEntriesOf(img)
        PROVE  base.kernel[img.fdEntries[g].d] = img.kernel[img.fdEntries[g].d]
    <3>1. img.fdEntries[g].d \in KernelFds /\ img.fdEntries[g].d # k
      BY <1>2, <2>2, FdEntryNumber DEF Sound, Owned
    <3>. QED BY <2>3, <3>1
  <2>5. Becomes(p, FdInstall(base, i, e, s, "Fd", k))
    BY <1>5
  <2>. HIDE DEF base
  <2>6. SameBooks(img, base)
    BY <2>3, <2>4 DEF SameBooks
  <2>7. LeadsTo(base, "Fd", k, path)
    BY <2>1, <2>2, <2>3 DEF LeadsTo
  <2>. QED BY <1>5, <2>3, <2>5, <2>6, <2>7, OpenedSeen
<1>6. CASE path \in Devices
  <2>1. FdOpenFdFromDevice(p, i, path)
    BY <1>1, <1>6 DEF FdOpenFdFromPath
  <2>2. \/ /\ img.devices[path] \in 0 .. MaxRefs - 1
           /\ \E e \in FdCreate(img), s \in FdSlot(img.procs[i].fds) :
                /\ s <= MaxSlots
                /\ Becomes(p, FdInstall(counted, i, e, s, "Device", path))
                /\ Returns(p, "open", path, s)
        \/ Returns(p, "open", path, None) /\ (NoEffect \/ Becomes(p, counted))
    BY <2>1 DEF FdOpenFdFromDevice
  <2>. HIDE DEF counted, img
  <2>. QED BY <1>3, <1>4, <1>6, <2>2
<1>7. CASE path \notin Devices
  <2>1. \/ \E k \in KernelFd(img), e \in FdCreate(img), s \in FdSlot(img.procs[i].fds) :
             /\ s <= MaxSlots
             /\ Becomes(p, FdInstall([img EXCEPT !.kernel[k] = f], i, e, s, "Fd", k))
             /\ Returns(p, "open", path, s)
        \/ NoEffect /\ Returns(p, "open", path, None)
    BY <1>1, <1>7 DEF FdOpenFdFromPath, FdOpenFdFromFile
  <2>. HIDE DEF counted, img, f
  <2>. QED BY <1>3, <1>5, <1>7, <2>1
<1>. QED BY <1>6, <1>7

\* Slot s of process i is no longer open.
SlotClosed(img, new, i, s) ==
  /\ SlotTargets(new, i) = [r \in OpenSlots(img, i) \ {s} |-> SlotTargets(img, i)[r]]
  /\ new.procs[i].cwd = img.procs[i].cwd
  /\ Len(new.procs[i].fds) = Len(img.procs[i].fds)

\* fdClose on an open slot, where close(2) does not fail: the slot goes, the
\* others lead where they led.
LEMMA CloseTargets ==
  ASSUME NEW img, GoodImage(img), Owned(img), NEW i \in DOMAIN img.procs,
         NEW s \in OpenSlots(img, i)
  PROVE  /\ KernelCloses(img, FdGet(img, img.procs[i].fds[s]), FALSE)
         /\ SlotClosed(img, FdClose(img, i, img.procs[i].fds[s], TRUE), i, s)
<1>. DEFINE fds   == img.procs[i].fds
            fd    == fds[s]
            entry == FdGet(img, fd)
            new   == FdClose(img, i, fd, TRUE)
            left  == FdRemove(fds, fd)
            proc  == [img.procs[i] EXCEPT !.fds = left]
            ps    == [img.procs EXCEPT ![i] = proc]
            es    == [img.fdEntries EXCEPT ![fd] = NullEntry]
            kn    == KernelClose(img, entry)
<1>1. /\ img \in Image /\ img.procs \in Seq(Process) /\ img.fdEntries \in Seq(FdEntry)
      /\ img.procs[i] \in Process /\ fds \in Seq(Nat) /\ s \in DOMAIN fds
      /\ fd \in DOMAIN img.fdEntries /\ entry = img.fdEntries[fd]
      /\ entry \in FdEntry /\ entry.type # "NULL"
  BY ProcessTyped, SlotTyped DEF GoodImage, Image, FdGet
<1>2. entry.refCount = 1 /\ KernelCloses(img, entry, FALSE)
  BY <1>1 DEF Owned, FdEntriesOf, KernelCloses
<1>3. /\ left \in Seq(Nat) /\ DOMAIN left = DOMAIN fds
      /\ \A t \in DOMAIN fds : left[t] = IF t = s THEN 0 ELSE fds[t]
  BY FdRemoveProperties
<1>4. new = [img EXCEPT !.kernel = kn, !.fdEntries = es, !.procs = ps]
  BY <1>2 DEF FdClose
<1>5. DOMAIN es = DOMAIN img.fdEntries
      /\ \A e \in DOMAIN img.fdEntries : es[e] = IF e = fd THEN NullEntry ELSE img.fdEntries[e]
  BY <1>1
<1>6. \A k \in KernelFds :
        kn[k] = IF entry.type = "Fd" /\ entry.d = k THEN None ELSE img.kernel[k]
  <2>1. img.kernel \in [KernelFds -> OpenFile \cup {None}]
    BY <1>1 DEF Image
  <2>. HIDE DEF entry
  <2>. QED BY <2>1 DEF KernelClose
<1>7. proc.fds = left /\ proc.cwd = img.procs[i].cwd
  <2>. HIDE DEF left
  <2>. QED BY <1>1 DEF Process
<1>8. ps[i] = proc
  <2>. HIDE DEF proc
  <2>. QED BY <1>1
<1>. HIDE DEF new, ps, es, kn, proc, left
<1>9. new.procs[i] = proc /\ new.fdEntries = es /\ new.kernel = kn
  BY <1>1, <1>4, <1>8 DEF Image
<1>10. OpenSlots(new, i) = OpenSlots(img, i) \ {s}
  BY <1>3, <1>7, <1>9 DEF OpenSlots
<1>11. ASSUME NEW r \in OpenSlots(img, i) \ {s} PROVE Target(new, i, r) = Target(img, i, r)
  <2>1. /\ fds[r] \in DOMAIN img.fdEntries /\ r \in DOMAIN fds
        /\ img.fdEntries[fds[r]].type # "NULL"
    BY SlotTyped
  <2>2. fds[r] # fd
    BY DEF GoodImage, UniqueSlots
  <2>3. /\ new.procs[i].fds[r] = fds[r]
        /\ FdGet(new, fds[r]) = img.fdEntries[fds[r]] /\ FdGet(img, fds[r]) = img.fdEntries[fds[r]]
    BY <1>3, <1>5, <1>7, <1>9, <2>1, <2>2 DEF FdGet
  <2>4. ASSUME img.fdEntries[fds[r]].type = "Fd"
        PROVE  kn[img.fdEntries[fds[r]].d] = img.kernel[img.fdEntries[fds[r]].d]
    <3>1. fds[r] \in FdEntriesOf(img)
      BY <2>1, <2>4 DEF FdEntriesOf
    <3>2. img.fdEntries[fds[r]].d \in KernelFds
      BY <1>1, <3>1, FdEntryNumber
    <3>3. entry.type = "Fd" => entry.d # img.fdEntries[fds[r]].d
      BY <1>1, <2>2, <3>1 DEF Owned, FdEntriesOf
    <3>. QED BY <1>6, <3>2, <3>3
  <2>. HIDE DEF fds, fd, entry
  <2>5. /\ FdGet(new, new.procs[i].fds[r]) = FdGet(img, fds[r])
        /\ FdGet(img, fds[r]).type = "Fd" =>
             new.kernel[FdGet(img, fds[r]).d] = img.kernel[FdGet(img, fds[r]).d]
    BY <1>9, <2>3, <2>4
  <2>. QED BY <2>5, TargetKept DEF fds
<1>12. SlotTargets(new, i) = [r \in OpenSlots(img, i) \ {s} |-> SlotTargets(img, i)[r]]
  <2>1. \A r \in OpenSlots(img, i) : SlotTargets(img, i)[r] = Target(img, i, r)
    BY DEF SlotTargets
  <2>. QED BY <1>10, <1>11, <2>1 DEF SlotTargets
<1>13. Len(new.procs[i].fds) = Len(fds)
  <2>1. DOMAIN left = 1 .. Len(left) /\ Len(left) \in Nat /\ DOMAIN fds = 1 .. Len(fds) /\ Len(fds) \in Nat
    BY <1>1, <1>3
  <2>2. ASSUME NEW a \in Nat, NEW b \in Nat, 1 .. a = 1 .. b PROVE a = b
    <3>1. a \in 1 .. b \/ a = 0
      BY <2>2
    <3>2. b \in 1 .. a \/ b = 0
      BY <2>2
    <3>. QED BY <3>1, <3>2
  <2>. HIDE DEF fds
  <2>3. Len(left) = Len(fds)
    BY <1>3, <2>1, <2>2
  <2>. QED BY <1>7, <1>9, <2>3
<1>14. new.procs[i].cwd = img.procs[i].cwd
  BY <1>7, <1>9
<1>15. SlotClosed(img, new, i, s)
  BY <1>12, <1>13, <1>14 DEF SlotClosed
<1>. QED BY <1>2, <1>15 DEF new

\* close: of an open slot it succeeds, of another it fails.
LEMMA CloseSeen ==
  ASSUME ApiInv, CallerInv', PidsKept, CloseFails = FALSE, Observe = TRUE, NEW p \in Running,
         NEW i \in FindPid(image[p], p), Close(p, i)
  PROVE  (Api!Close(p) \/ Api!Fails(p)) /\ OwnSlots'
<1>. DEFINE img   == image[p]
            fd(s) == img.procs[i].fds[s]
<1>1. /\ GoodImage(img) /\ img \in Image /\ Owned(img) /\ i \in DOMAIN img.procs /\ p \in Posix
      /\ img.procs[i].fds \in Seq(Nat) /\ Len(img.procs[i].fds) <= MaxSlots
      /\ ApiOpened[p] = SlotTargets(img, i) /\ ApiCwd[p] = img.procs[i].cwd
  BY CallerKnown DEF Sound
<1>2. PICK s \in Held(p, i) :
        \/ /\ FdGet(img, fd(s)) = NullEntry
           /\ NoEffect /\ Returns(p, "close", s, None)
        \/ /\ FdGet(img, fd(s)) # NullEntry
           /\ LET ok == KernelCloses(img, FdGet(img, fd(s)), FALSE)
              IN  /\ Becomes(p, FdClose(img, i, fd(s), ok))
                  /\ Returns(p, "close", s, IF ok THEN 0 ELSE None)
  BY DEF Close
<1>3. s \in DOMAIN img.procs[i].fds /\ s \in 1 .. MaxSlots
  <2>1. s \in 1 .. Len(img.procs[i].fds) /\ Len(img.procs[i].fds) \in Nat
    BY <1>1 DEF Held
  <2>2. MaxSlots \in Nat
    BY VPAssumption
  <2>. QED BY <1>1, <1>2, <2>1, <2>2 DEF Held
<1>4. CASE NoEffect /\ Returns(p, "close", s, None)
  <2>1. Api!NoEffect /\ OwnSlots'
    BY <1>4, UnchangedSeen
  <2>2. Api!Returns(p, "close", s, None)
    BY <1>4 DEF Returns, Api!Returns
  <2>. QED BY <1>3, <2>1, <2>2 DEF Api!Fails
<1>5. ASSUME FdGet(img, fd(s)) # NullEntry,
             Becomes(p, FdClose(img, i, fd(s), KernelCloses(img, FdGet(img, fd(s)), FALSE))),
             Returns(p, "close", s, IF KernelCloses(img, FdGet(img, fd(s)), FALSE) THEN 0 ELSE None)
      PROVE  Api!Close(p) /\ OwnSlots'
  <2>. DEFINE new == FdClose(img, i, fd(s), TRUE)
  <2>1. s \in OpenSlots(img, i)
    <3>1. 0 \notin DOMAIN img.fdEntries
      BY <1>1 DEF Image
    <3>. QED BY <1>3, <1>5, <3>1 DEF OpenSlots, FdGet
  <2>2. KernelCloses(img, FdGet(img, fd(s)), FALSE) /\ SlotClosed(img, new, i, s)
    <3>. HIDE DEF img
    <3>. QED BY <1>1, <2>1, CloseTargets
  <2>3. KernelCloses(img, FdGet(img, fd(s)), FALSE) = TRUE
    BY <2>2 DEF KernelCloses
  <2>4. Becomes(p, new) /\ Returns(p, "close", s, 0)
    <3>. HIDE DEF fd
    <3>. QED BY <1>5, <2>3
  <2>. HIDE DEF new
  <2>5. /\ Running' = Running /\ ApiPid' = ApiPid
        /\ ApiOpened' = [ApiOpened EXCEPT ![p] = SlotTargets(new, i)]
        /\ ApiCwd' = [ApiCwd EXCEPT ![p] = new.procs[i].cwd]
        /\ Len(new.procs[i].fds) <= MaxSlots => OwnSlots'
    BY <2>4, CallSeen
  <2>6. OwnSlots' /\ ApiCwd' = ApiCwd
    <3>1. ApiCwd' = [ApiCwd EXCEPT ![p] = ApiCwd[p]]
      BY <1>1, <2>2, <2>5 DEF SlotClosed
    <3>. QED BY <1>1, <2>2, <2>5, <3>1, SeenFunctions DEF SlotClosed
  <2>7. DOMAIN ApiOpened[p] = OpenSlots(img, i)
    BY <1>1 DEF SlotTargets
  <2>8. ApiOpened' = [ApiOpened EXCEPT ![p] = [r \in DOMAIN @ \ {s} |-> @[r]]]
    <3>. HIDE DEF img
    <3>. QED BY <1>1, <2>2, <2>5, <2>7 DEF SlotClosed
  <2>9. Api!Returns(p, "close", s, 0)
    BY <2>4 DEF Returns, Api!Returns
  <2>. QED BY <2>1, <2>5, <2>6, <2>7, <2>8, <2>9 DEF Api!Close
<1>. QED BY <1>2, <1>4, <1>5

-----------------------------------------------------------------------------
(* The theorem.                                                            *)

\* A system call is a call of ProcessApi by the same process.
LEMMA SysCallSeen ==
  ASSUME ApiInv, CallerInv', PidsKept, Recycle = FALSE, CloseFails = FALSE, CwdFails = FALSE,
         Observe = TRUE,
         NEW p \in Running, SysCall(p)
  PROVE  Api!Next /\ OwnSlots'
<1>1. PICK i \in FindPid(image[p], p) :
        \/ Fork(p, i) \/ Exec(p, i) \/ Open(p, i) \/ Read(p, i) \/ Write(p, i)
        \/ Close(p, i) \/ GetPid(p, i) \/ GetCwd(p, i) \/ ChDir(p, i) \/ Exit(p, i)
  BY DEF SysCall
<1>2. CASE Fork(p, i)
  BY <1>2, ForkSeen DEF Api!Next
<1>3. CASE Exec(p, i)
  BY <1>3, ExecSeen DEF Api!Next
<1>4. CASE Open(p, i)
  BY <1>4, OpenSeen DEF Api!Next
<1>5. CASE Read(p, i) \/ Write(p, i)
  BY <1>5, TransferSeen DEF Api!Next
<1>6. CASE Close(p, i)
  BY <1>6, CloseSeen DEF Api!Next
<1>7. CASE GetPid(p, i) \/ GetCwd(p, i)
  BY <1>7, QuerySeen DEF Api!Next
<1>8. CASE ChDir(p, i)
  BY <1>8, ChDirSeen DEF Api!Next
<1>9. CASE Exit(p, i)
  <2>1. Api!Dies(p) /\ OwnSlots'
    BY <1>9, EndsSeen DEF Exit
  <2>2. Api!Returns(p, "exit", None, None)
    BY <1>9 DEF Exit, Returns, Api!Returns
  <2>. QED BY <2>1, <2>2 DEF Api!Exit, Api!Next
<1>. QED BY <1>1, <1>2, <1>3, <1>4, <1>5, <1>6, <1>7, <1>8, <1>9

\* Every step is a step of ProcessApi, or no program sees it.
LEMMA ApiStep ==
  ASSUME ApiInv, Recycle = FALSE, CloseFails = FALSE, CwdFails = FALSE, Observe = TRUE,
         MaxProcs >= 2, [Next]_vars
  PROVE  [Api!Next]_Api!vars /\ ApiInv'
<1>1. CallerInv' /\ PidsKept /\ OwnershipInv' /\ reused' = {}
  <2>1. CallerInv' /\ PidsKept /\ OwnershipInv'
    BY CallerNext, OwnershipNext DEF ApiInv
  <2>. QED BY <2>1 DEF CallerInv, PidsInv
<1>2. [Api!Next]_Api!vars /\ OwnSlots'
  <2>1. CASE RunInit
    BY <1>1, <2>1, RunInitSeen
  <2>2. CASE SpawnShell
    BY <1>1, <2>2, SpawnShellSeen
  <2>3. CASE DaemonExits
    BY <2>3, DaemonExitsSeen
  <2>4. ASSUME NEW p \in Running, SysCall(p) PROVE [Api!Next]_Api!vars /\ OwnSlots'
    BY <1>1, <2>4, SysCallSeen
  <2>5. ASSUME NEW p \in Running, Crash(p) PROVE [Api!Next]_Api!vars /\ OwnSlots'
    <3>1. Api!Dies(p) /\ OwnSlots' /\ UNCHANGED last
      BY <2>5, EndsSeen DEF Crash
    <3>. QED BY <3>1 DEF Api!Exit, Api!Next
  <2>6. CASE UNCHANGED vars
    <3>1. Running' = Running /\ (\A q \in Running : image'[q] = image[q]) /\ UNCHANGED last
      BY <2>6 DEF vars, Running
    <3>2. ImagesInv /\ OwnSlots
      BY InvParts DEF ApiInv, CallerInv
    <3>. QED BY <3>1, <3>2, NothingSeen DEF Api!vars
  <2>. QED BY <2>1, <2>2, <2>3, <2>4, <2>5, <2>6 DEF Next
<1>. QED BY <1>1, <1>2 DEF ApiInv

LEMMA ApiBegins == Init => Api!Init /\ ApiInv
<1>. SUFFICES ASSUME Init PROVE Api!Init /\ ApiInv
  OBVIOUS
<1>1. Running = {} /\ last = NoCall /\ reused = {}
  BY DEF Init, Running
<1>2. ApiInv
  BY <1>1, CallerInit, OwnershipInit DEF ApiInv, OwnSlots
<1>3. Api!Init
  BY <1>1 DEF Api!Init, ApiPid, ApiOpened, ApiCwd, Api!NoFds, NoCall
<1>. QED BY <1>2, <1>3

\* Through fork, exec and whatever relatives do, a program's descriptors lead to
\* the paths it opened, a pid is what fork said it would be, and a directory is
\* the program's own, which exec keeps (server.cpp:186-310): for images, tables
\* and limits of any size, with a kernel that does not reuse pids and whose
\* close(2) reports no error, and as long as setCwd gets its memory.
THEOREM ApiImplemented ==
  ASSUME Recycle = FALSE, CloseFails = FALSE, CwdFails = FALSE, Observe = TRUE, MaxProcs >= 2
  PROVE  Spec => ImplementsApi
<1>1. Init => Api!Init /\ ApiInv
  BY ApiBegins
<1>2. ApiInv /\ [Next]_vars => [Api!Next]_Api!vars /\ ApiInv'
  BY ApiStep
<1>. QED BY <1>1, <1>2, PTL DEF Spec, ImplementsApi, Api!Spec
=============================================================================

----------------------- MODULE VirtualProcessesProofs -----------------------
(***************************************************************************)
(* Theorems about VirtualProcesses, for any number of processes, files,    *)
(* devices and directories and any bounds, on lemmas about the operators   *)
(* of ServerImage: first about descriptor tables, then, from the middle    *)
(* on, about what an image owns.                                           *)
(***************************************************************************)
EXTENDS VirtualProcesses, FiniteSetTheorems, TLAPS

\* The invariant of one image: its shape, and a one-to-one relation from open
\* slots to entries in use.
GoodImage(img) == img \in Image /\ UniqueSlots(img) /\ BackedSlots(img)

-----------------------------------------------------------------------------
(* What the operations of ServerImage do to a well-formed image.           *)

\* A process of an image.
LEMMA ProcessTyped ==
  ASSUME NEW img \in Image, NEW i \in DOMAIN img.procs
  PROVE  /\ img.procs[i] \in Process
         /\ img.procs[i].fds \in Seq(Nat)
         /\ img.procs[i].posixPID \in Posix \cup {None}
         /\ img.procs[i].cwd \in Dirs \cup {None}
<1>1. img.procs \in Seq(Process)
  BY DEF Image
<1>2. img.procs[i] \in Process
  BY <1>1
<1>. QED
  BY <1>2 DEF Process

\* An entry of an image, read through a descriptor that may not exist.
LEMMA EntryTyped ==
  ASSUME NEW img \in Image, NEW fd \in Nat
  PROVE  /\ FdGet(img, fd) \in FdEntry
         /\ FdGet(img, fd).type # "NULL" => fd \in DOMAIN img.fdEntries
  BY DEF Image, FdGet, NullEntry, FdEntry

\* An open slot holds a descriptor that exists in a good image.
LEMMA SlotTyped ==
  ASSUME NEW img, GoodImage(img), NEW i \in DOMAIN img.procs, NEW s \in OpenSlots(img, i)
  PROVE  /\ s \in DOMAIN img.procs[i].fds
         /\ img.procs[i].fds[s] \in Nat \ {0}
         /\ img.procs[i].fds[s] \in DOMAIN img.fdEntries
         /\ img.fdEntries[img.procs[i].fds[s]].type # "NULL"
<1>1. img.procs[i].fds \in Seq(Nat)
  BY ProcessTyped DEF GoodImage
<1>2. s \in DOMAIN img.procs[i].fds /\ img.procs[i].fds[s] \in Nat \ {0}
  BY <1>1 DEF OpenSlots
<1>3. FdGet(img, img.procs[i].fds[s]).type # "NULL"
  BY DEF GoodImage, BackedSlots
<1>4. img.procs[i].fds[s] \in DOMAIN img.fdEntries
  BY <1>2, <1>3, EntryTyped DEF GoodImage
<1>. QED
  BY <1>2, <1>3, <1>4 DEF FdGet

-----------------------------------------------------------------------------
(* Operations on an image.                                                 *)

\* A change that opens no slot, and takes no entry from under a slot that
\* stays open, keeps slots unique and backed.
LEMMA NoNewSlots ==
  ASSUME NEW img, GoodImage(img), NEW new \in Image,
         \A i \in DOMAIN new.procs : \A s \in OpenSlots(new, i) :
           /\ i \in DOMAIN img.procs /\ s \in OpenSlots(img, i)
           /\ new.procs[i].fds[s] = img.procs[i].fds[s]
           /\ FdGet(new, new.procs[i].fds[s]) = FdGet(img, img.procs[i].fds[s])
  PROVE  GoodImage(new)
<1>1. UniqueSlots(new)
  BY DEF GoodImage, UniqueSlots
<1>2. BackedSlots(new)
  BY DEF GoodImage, BackedSlots
<1>. QED
  BY <1>1, <1>2 DEF GoodImage

\* The processes of an image are replaced.
LEMMA WithProcs ==
  ASSUME NEW img \in Image, NEW ps \in Seq(Process)
  PROVE  /\ [img EXCEPT !.procs = ps] \in Image
         /\ [img EXCEPT !.procs = ps].procs = ps
         /\ [img EXCEPT !.procs = ps].fdEntries = img.fdEntries
  BY DEF Image

\* The image every POSIX process starts from.
LEMMA BootGood == GoodImage(BootImage)
<1>1. NewProcess \in Process /\ NewProcess.fds = <<>>
  BY DEF NewProcess, Process
<1>2. BootImage \in Image
  BY <1>1 DEF BootImage, Image
<1>3. \A i \in DOMAIN BootImage.procs : OpenSlots(BootImage, i) = {}
  BY <1>1 DEF BootImage, OpenSlots
<1>. QED
  BY <1>2, <1>3 DEF GoodImage, UniqueSlots, BackedSlots

\* Only devices or only kernel changes.
LEMMA OutsideGood ==
  ASSUME NEW img, GoodImage(img),
         NEW dv \in [Devices -> Nat \cup {-1}],
         NEW kn \in [KernelFds -> OpenFile \cup {None}]
  PROVE  GoodImage([img EXCEPT !.devices = dv, !.kernel = kn])
<1>. DEFINE new == [img EXCEPT !.devices = dv, !.kernel = kn]
<1>1. new \in Image /\ new.procs = img.procs /\ new.fdEntries = img.fdEntries
  BY DEF GoodImage, Image
<1>2. \A i \in DOMAIN new.procs : OpenSlots(new, i) = OpenSlots(img, i)
  BY <1>1 DEF OpenSlots
<1>3. \A fd : FdGet(new, fd) = FdGet(img, fd)
  BY <1>1 DEF FdGet
<1>. HIDE DEF new
<1>. QED
  BY <1>1, <1>2, <1>3, NoNewSlots DEF new

\* A process without descriptors is added.
LEMMA AddProcGood ==
  ASSUME NEW img, GoodImage(img), NEW proc \in Process, proc.fds = <<>>
  PROVE  GoodImage(AddProc(img, proc)) /\ Len(AddProc(img, proc).procs) = Len(img.procs) + 1
<1>. DEFINE new == AddProc(img, proc)
<1>0. img.procs \in Seq(Process)
  BY DEF GoodImage, Image
<1>a. Append(img.procs, proc) \in Seq(Process)
  BY <1>0
<1>1. /\ new \in Image
      /\ new.procs = Append(img.procs, proc)
      /\ new.fdEntries = img.fdEntries
  <2>. DEFINE ps == Append(img.procs, proc)
  <2>1. new = [img EXCEPT !.procs = ps]
    BY DEF AddProc
  <2>. HIDE DEF new, ps
  <2>2. ps \in Seq(Process)
    BY <1>a DEF ps
  <2>3. img \in Image
    BY DEF GoodImage
  <2>4. new \in Image /\ new.procs = ps /\ new.fdEntries = img.fdEntries
    BY <2>1, <2>2, <2>3, WithProcs
  <2>. QED
    BY <2>4 DEF ps
<1>2. ASSUME NEW i \in DOMAIN new.procs, NEW s \in OpenSlots(new, i)
      PROVE  i \in DOMAIN img.procs /\ new.procs[i] = img.procs[i]
  <2>1. i # Len(img.procs) + 1
    BY <1>0, <1>1 DEF OpenSlots
  <2>. QED
    BY <1>0, <1>1, <2>1
<1>3. \A fd : FdGet(new, fd) = FdGet(img, fd)
  BY <1>1 DEF FdGet
<1>4. Len(new.procs) = Len(img.procs) + 1
  BY <1>0, <1>1
<1>. HIDE DEF new
<1>5. \A i \in DOMAIN new.procs : \A s \in OpenSlots(new, i) :
        /\ i \in DOMAIN img.procs /\ s \in OpenSlots(img, i)
        /\ new.procs[i].fds[s] = img.procs[i].fds[s]
  BY <1>2 DEF OpenSlots
<1>. QED
  BY <1>1, <1>3, <1>4, <1>5, NoNewSlots DEF new

\* A process object is replaced by one with the same or no descriptors.
LEMMA ReplaceGood ==
  ASSUME NEW img, GoodImage(img), NEW pid \in DOMAIN img.procs, NEW proc \in Process,
         proc.fds = img.procs[pid].fds \/ proc.fds = <<>>
  PROVE  GoodImage([img EXCEPT !.procs[pid] = proc])
<1>. DEFINE new == [img EXCEPT !.procs[pid] = proc]
<1>0. img.procs \in Seq(Process)
  BY DEF GoodImage, Image
<1>1. /\ new \in Image
      /\ new.procs = [img.procs EXCEPT ![pid] = proc]
      /\ new.fdEntries = img.fdEntries
  <2>. DEFINE ps == [img.procs EXCEPT ![pid] = proc]
  <2>1. new = [img EXCEPT !.procs = ps]
    OBVIOUS
  <2>2. ps \in Seq(Process)
    BY <1>0
  <2>. HIDE DEF new, ps
  <2>3. img \in Image
    BY DEF GoodImage
  <2>4. new \in Image /\ new.procs = ps /\ new.fdEntries = img.fdEntries
    BY <2>1, <2>2, <2>3, WithProcs
  <2>. QED
    BY <2>4 DEF ps
<1>2. \A fd : FdGet(new, fd) = FdGet(img, fd)
  BY <1>1 DEF FdGet
<1>3. \A i \in DOMAIN new.procs :
        i \in DOMAIN img.procs /\ (new.procs[i].fds = img.procs[i].fds \/ new.procs[i].fds = <<>>)
  BY <1>0, <1>1
<1>. HIDE DEF new
<1>4. \A i \in DOMAIN new.procs : \A s \in OpenSlots(new, i) :
        /\ i \in DOMAIN img.procs /\ s \in OpenSlots(img, i)
        /\ new.procs[i].fds[s] = img.procs[i].fds[s]
  BY <1>3 DEF OpenSlots
<1>5. GoodImage(new)
  BY <1>1, <1>2, <1>4, NoNewSlots
<1>. QED
  BY <1>5 DEF new

\* The end of an open: entry e, which no slot can hold yet, becomes the entry
\* on d, and slot s of process pid holds it.
LEMMA InstallGood ==
  ASSUME NEW img, GoodImage(img), NEW pid \in DOMAIN img.procs,
         NEW e \in FdCreate(img), NEW s \in FdSlot(img.procs[pid].fds),
         NEW type, NEW d,
         \/ type = "Fd" /\ d \in KernelFds
         \/ type = "Device" /\ d \in Devices
  PROVE  GoodImage(FdInstall(img, pid, e, s, type, d))
<1>. DEFINE new   == FdInstall(img, pid, e, s, type, d)
            entry == [type |-> type, refCount |-> 1, d |-> d]
            fds   == img.procs[pid].fds
            proc  == [img.procs[pid] EXCEPT !.fds = Put(fds, s, e)]
            es    == Put(img.fdEntries, e, entry)
            ps    == [img.procs EXCEPT ![pid] = proc]
<1>1. /\ img \in Image /\ img.procs \in Seq(Process) /\ img.fdEntries \in Seq(FdEntry)
      /\ img.procs[pid] \in Process /\ fds \in Seq(Nat)
  BY ProcessTyped DEF GoodImage, Image
<1>2. /\ e \in 1 .. Len(img.fdEntries) + 1
      /\ e \in DOMAIN img.fdEntries => img.fdEntries[e].type = "NULL"
  BY DEF FdCreate, First
<1>3. /\ s \in 1 .. Len(fds) + 1
      /\ s \in DOMAIN fds => fds[s] = 0
  BY DEF FdSlot, First
<1>4. entry \in FdEntry /\ entry.type # "NULL" /\ entry.refCount = 1
  BY DEF FdEntry
<1>5. /\ es \in Seq(FdEntry)
      /\ DOMAIN es = DOMAIN img.fdEntries \cup {e}
      /\ \A f \in DOMAIN es : es[f] = IF f = e THEN entry ELSE img.fdEntries[f]
  <2>. HIDE DEF entry
  <2>. QED
    BY <1>1, <1>2, <1>4 DEF Put
<1>6. /\ Put(fds, s, e) \in Seq(Nat)
      /\ DOMAIN Put(fds, s, e) = DOMAIN fds \cup {s}
      /\ \A t \in DOMAIN Put(fds, s, e) : Put(fds, s, e)[t] = IF t = s THEN e ELSE fds[t]
  <2>1. e \in Nat
    BY <1>1, <1>2
  <2>. HIDE DEF fds
  <2>. QED
    BY <1>1, <1>3, <2>1 DEF Put
<1>7. proc \in Process /\ proc.fds = Put(fds, s, e)
  BY <1>1, <1>6 DEF Process
<1>8. ps \in Seq(Process) /\ DOMAIN ps = DOMAIN img.procs
      /\ \A i \in DOMAIN ps : ps[i] = IF i = pid THEN proc ELSE img.procs[i]
  <2>. HIDE DEF proc
  <2>. QED
    BY <1>1, <1>7
<1>9. new \in Image /\ new.procs = ps /\ new.fdEntries = es
  <2>1. new = [img EXCEPT !.fdEntries = es, !.procs = ps]
    BY DEF FdInstall
  <2>. HIDE DEF es, ps, new
  <2>. QED
    BY <1>1, <1>5, <1>8, <2>1 DEF Image
<1>. HIDE DEF new, entry, es, ps, proc
\* No slot held e, and the slots of new are those of img and s.
<1>10. ASSUME NEW i \in DOMAIN img.procs, NEW t \in OpenSlots(img, i)
       PROVE  img.procs[i].fds[t] # e
  BY <1>2, SlotTyped
<1>11. ASSUME NEW i \in DOMAIN new.procs, NEW t \in OpenSlots(new, i)
       PROVE  /\ i \in DOMAIN img.procs
              /\ \/ i = pid /\ t = s /\ new.procs[i].fds[t] = e
                 \/ /\ t \in OpenSlots(img, i)
                    /\ new.procs[i].fds[t] = img.procs[i].fds[t]
  <2>1. i \in DOMAIN img.procs /\ new.procs[i] = IF i = pid THEN proc ELSE img.procs[i]
    BY <1>8, <1>9
  <2>2. CASE i # pid
    BY <2>1, <2>2 DEF OpenSlots
  <2>3. CASE i = pid
    BY <2>1, <2>3, <1>6, <1>7 DEF OpenSlots
  <2>. QED
    BY <2>1, <2>2, <2>3
<1>12. UniqueSlots(new)
  BY <1>10, <1>11 DEF UniqueSlots, GoodImage
<1>13. BackedSlots(new)
  <2>. SUFFICES ASSUME NEW i \in DOMAIN new.procs, NEW t \in OpenSlots(new, i)
                PROVE  /\ FdGet(new, new.procs[i].fds[t]).type # "NULL"
                       /\ FdGet(new, new.procs[i].fds[t]).refCount > 0
    BY DEF BackedSlots
  <2>1. CASE new.procs[i].fds[t] = e
    BY <2>1, <1>4, <1>5, <1>9 DEF FdGet
  <2>2. CASE /\ i \in DOMAIN img.procs /\ t \in OpenSlots(img, i)
             /\ new.procs[i].fds[t] = img.procs[i].fds[t]
    <3>1. FdGet(new, img.procs[i].fds[t]) = FdGet(img, img.procs[i].fds[t])
      BY <2>2, <1>5, <1>9, <1>10, SlotTyped DEF FdGet
    <3>. QED
      BY <2>2, <3>1 DEF GoodImage, BackedSlots
  <2>. QED
    BY <1>11, <2>1, <2>2
<1>14. GoodImage(new)
  BY <1>9, <1>12, <1>13 DEF GoodImage
<1>. QED
  BY <1>14 DEF new

\* fdRemove on a slot's own descriptor frees that slot, the only one with it.
LEMMA FdRemoveProperties ==
  ASSUME NEW img, GoodImage(img), NEW pid \in DOMAIN img.procs,
         NEW s \in OpenSlots(img, pid)
  PROVE  LET fds  == img.procs[pid].fds
             left == FdRemove(fds, fds[s])
         IN  /\ left \in Seq(Nat)
             /\ DOMAIN left = DOMAIN fds
             /\ \A t \in DOMAIN fds : left[t] = IF t = s THEN 0 ELSE fds[t]
<1>. DEFINE fds  == img.procs[pid].fds
            held == {t \in DOMAIN fds : fds[t] = fds[s]}
<1>1. fds \in Seq(Nat) /\ s \in DOMAIN fds /\ fds[s] # 0
  BY ProcessTyped DEF GoodImage, OpenSlots
<1>2. held = {s}
  BY <1>1 DEF GoodImage, UniqueSlots, OpenSlots
<1>3. First(held) = {s}
  BY <1>1, <1>2 DEF First
<1>4. FdRemove(fds, fds[s]) = [t \in DOMAIN fds |-> IF t = s THEN 0 ELSE fds[t]]
  BY <1>3 DEF FdRemove
<1>. HIDE DEF fds
<1>5. FdRemove(fds, fds[s]) \in Seq(Nat)
  BY <1>1, <1>4
<1>. QED
  BY <1>4, <1>5 DEF fds

\* close(2) leaves a table of kernel descriptors.
LEMMA KernelCloseTyped ==
  ASSUME NEW img \in Image, NEW entry
  PROVE  KernelClose(img, entry) \in [KernelFds -> OpenFile \cup {None}]
  BY DEF KernelClose, Image

\* fdClose on the descriptor of an open slot.
LEMMA FdCloseGood ==
  ASSUME NEW img, GoodImage(img), NEW pid \in DOMAIN img.procs,
         NEW s \in OpenSlots(img, pid), NEW ok \in BOOLEAN
  PROVE  GoodImage(FdClose(img, pid, img.procs[pid].fds[s], ok))
<1>. DEFINE fds   == img.procs[pid].fds
            fd    == fds[s]
            entry == FdGet(img, fd)
            new   == FdClose(img, pid, fd, ok)
            proc  == [img.procs[pid] EXCEPT !.fds = FdRemove(fds, fd)]
            ps    == [img.procs EXCEPT ![pid] = proc]
<1>1. /\ img \in Image /\ img.procs \in Seq(Process) /\ img.fdEntries \in Seq(FdEntry)
      /\ img.procs[pid] \in Process
  BY ProcessTyped DEF GoodImage, Image
<1>2. /\ fd \in DOMAIN img.fdEntries /\ entry = img.fdEntries[fd]
      /\ entry \in FdEntry /\ entry.type # "NULL"
  BY <1>1, SlotTyped DEF FdGet
<1>3. /\ FdRemove(fds, fd) \in Seq(Nat) /\ DOMAIN FdRemove(fds, fd) = DOMAIN fds
      /\ \A t \in DOMAIN fds : FdRemove(fds, fd)[t] = IF t = s THEN 0 ELSE fds[t]
  BY FdRemoveProperties
<1>4. proc \in Process /\ proc.fds = FdRemove(fds, fd)
  BY <1>1, <1>3 DEF Process
<1>5. ps \in Seq(Process) /\ DOMAIN ps = DOMAIN img.procs
      /\ \A i \in DOMAIN ps : ps[i] = IF i = pid THEN proc ELSE img.procs[i]
  <2>. HIDE DEF proc
  <2>. QED
    BY <1>1, <1>4
\* What any branch that frees the slot has to show.
<1>6. ASSUME NEW kn \in [KernelFds -> OpenFile \cup {None}], NEW en \in FdEntry
      PROVE  GoodImage([img EXCEPT !.kernel = kn, !.fdEntries[fd] = en, !.procs = ps])
  <2>. DEFINE es   == [img.fdEntries EXCEPT ![fd] = en]
              next == [img EXCEPT !.kernel = kn, !.fdEntries = es, !.procs = ps]
  <2>1. es \in Seq(FdEntry) /\ DOMAIN es = DOMAIN img.fdEntries
        /\ \A f \in DOMAIN es : f # fd => es[f] = img.fdEntries[f]
    BY <1>1, <1>2
  <2>. HIDE DEF es, ps
  <2>2. next \in Image /\ next.procs = ps /\ next.fdEntries = es
    BY <1>1, <1>5, <2>1 DEF Image
  <2>. HIDE DEF next
  <2>3. ASSUME NEW i \in DOMAIN next.procs, NEW t \in OpenSlots(next, i)
        PROVE  /\ i \in DOMAIN img.procs /\ t \in OpenSlots(img, i)
               /\ next.procs[i].fds[t] = img.procs[i].fds[t]
               /\ ~(i = pid /\ t = s)
    <3>1. i \in DOMAIN img.procs /\ next.procs[i] = IF i = pid THEN proc ELSE img.procs[i]
      BY <1>5, <2>2
    <3>2. CASE i # pid
      BY <3>1, <3>2 DEF OpenSlots
    <3>3. CASE i = pid
      BY <3>1, <3>3, <1>3, <1>4 DEF OpenSlots
    <3>. QED
      BY <3>1, <3>2, <3>3
  <2>4. ASSUME NEW i \in DOMAIN next.procs, NEW t \in OpenSlots(next, i)
        PROVE  FdGet(next, next.procs[i].fds[t]) = FdGet(img, next.procs[i].fds[t])
    <3>1. next.procs[i].fds[t] # fd
      BY <2>3 DEF GoodImage, UniqueSlots
    <3>. QED
      BY <2>1, <2>2, <3>1 DEF FdGet
  <2>5. GoodImage(next)
    BY <2>2, <2>3, <2>4, NoNewSlots
  <2>. QED
    BY <2>5 DEF next, es
<1>7. CASE entry.refCount <= 1 /\ ok
  <2>1. new = [img EXCEPT !.kernel = KernelClose(img, entry),
                          !.fdEntries[fd] = NullEntry, !.procs = ps]
    BY <1>7 DEF FdClose
  <2>. HIDE DEF new, ps, entry, fd
  <2>2. NullEntry \in FdEntry
    BY DEF FdEntry
  <2>3. KernelClose(img, entry) \in [KernelFds -> OpenFile \cup {None}]
    BY <1>1, KernelCloseTyped
  <2>4. GoodImage(new)
    BY <1>6, <2>1, <2>2, <2>3
  <2>. QED
    BY <2>4 DEF new, fd
<1>8. CASE entry.refCount <= 1 /\ ~ok
  <2>1. new = [img EXCEPT !.devices = img.devices, !.kernel = KernelClose(img, entry)]
    BY <1>1, <1>8 DEF FdClose, Image
  <2>2. img.devices \in [Devices -> Nat \cup {-1}]
    BY <1>1 DEF Image
  <2>. HIDE DEF new, entry
  <2>3. KernelClose(img, entry) \in [KernelFds -> OpenFile \cup {None}]
    BY <1>1, KernelCloseTyped
  <2>4. GoodImage(new)
    BY <2>1, <2>2, <2>3, OutsideGood
  <2>. QED
    BY <2>4 DEF new
<1>9. CASE ~(entry.refCount <= 1)
  <2>. DEFINE en == [entry EXCEPT !.refCount = @ - 1]
  <2>1. en \in FdEntry
    <3>. HIDE DEF entry
    <3>1. entry \in [type : {"Fd"}, refCount : Nat, d : KernelFds]
            \cup [type : {"Device"}, refCount : Nat, d : Devices]
      BY <1>2 DEF FdEntry, NullEntry
    <3>2. entry.refCount \in Nat /\ entry.refCount - 1 \in Nat
      BY <1>9, <3>1
    <3>3. CASE entry \in [type : {"Fd"}, refCount : Nat, d : KernelFds]
      BY <3>2, <3>3 DEF FdEntry
    <3>4. CASE entry \in [type : {"Device"}, refCount : Nat, d : Devices]
      BY <3>2, <3>4 DEF FdEntry
    <3>. QED
      BY <3>1, <3>3, <3>4
  <2>2. new = [img EXCEPT !.kernel = img.kernel, !.fdEntries[fd] = en, !.procs = ps]
    BY <1>1, <1>2, <1>9 DEF FdClose, Image
  <2>. HIDE DEF new, ps, en, fd
  <2>3. img.kernel \in [KernelFds -> OpenFile \cup {None}]
    BY <1>1 DEF Image
  <2>4. GoodImage(new)
    BY <1>6, <2>1, <2>2, <2>3
  <2>. QED
    BY <2>4 DEF new, fd
<1>. QED
  BY <1>7, <1>8, <1>9

\* processFree frees entries that only the freed process held, and leaves no
\* slot of it behind.
LEMMA ProcessFreeGood ==
  ASSUME NEW img, GoodImage(img), NEW pid \in DOMAIN img.procs, NEW errs
  PROVE  /\ GoodImage(ProcessFree(img, pid, errs))
         /\ DOMAIN ProcessFree(img, pid, errs).procs = DOMAIN img.procs
         /\ ProcessFree(img, pid, errs).procs[pid].fds = <<>>
<1>. DEFINE new  == ProcessFree(img, pid, errs)
            held == {img.fdEntries[img.procs[pid].fds[s]] : s \in OpenSlots(img, pid)}
            es   == [e \in DOMAIN img.fdEntries |->
                       IF e \in FreedEntries(img, pid, errs) THEN NullEntry
                                                             ELSE img.fdEntries[e]]
            kn   == [k \in KernelFds |->
                       IF \E en \in held : en.type = "Fd" /\ en.d = k THEN None
                                                                   ELSE img.kernel[k]]
            ps   == [img.procs EXCEPT ![pid] = NewProcess]
<1>1. /\ img \in Image /\ img.procs \in Seq(Process) /\ img.fdEntries \in Seq(FdEntry)
      /\ img.kernel \in [KernelFds -> OpenFile \cup {None}]
  BY DEF GoodImage, Image
<1>2. es \in Seq(FdEntry) /\ DOMAIN es = DOMAIN img.fdEntries
  BY <1>1 DEF FdEntry
<1>3. kn \in [KernelFds -> OpenFile \cup {None}]
  <2>. HIDE DEF held
  <2>. QED
    BY <1>1
<1>4. NewProcess \in Process /\ NewProcess.fds = <<>>
  BY DEF NewProcess, Process
<1>5. ps \in Seq(Process) /\ DOMAIN ps = DOMAIN img.procs
      /\ \A i \in DOMAIN ps : ps[i] = IF i = pid THEN NewProcess ELSE img.procs[i]
  BY <1>1, <1>4
<1>6. new = [img EXCEPT !.fdEntries = es, !.kernel = kn, !.procs = ps]
  BY DEF ProcessFree
<1>7. new \in Image /\ new.procs = ps /\ new.fdEntries = es
  <2>. HIDE DEF es, kn, ps, new
  <2>. QED
    BY <1>1, <1>2, <1>3, <1>5, <1>6 DEF Image
<1>8. \A e \in FreedEntries(img, pid, errs) :
        \E s \in OpenSlots(img, pid) : e = img.procs[pid].fds[s]
  BY DEF FreedEntries
<1>9. \A e \in DOMAIN es : e \notin FreedEntries(img, pid, errs) => es[e] = img.fdEntries[e]
  OBVIOUS
<1>. HIDE DEF new, es, kn, ps
<1>10. ASSUME NEW i \in DOMAIN new.procs, NEW t \in OpenSlots(new, i)
       PROVE  /\ i \in DOMAIN img.procs /\ t \in OpenSlots(img, i) /\ i # pid
              /\ new.procs[i].fds[t] = img.procs[i].fds[t]
  <2>1. i \in DOMAIN img.procs
    BY <1>5, <1>7
  <2>2. i # pid
    BY <1>4, <1>5, <1>7 DEF OpenSlots
  <2>3. new.procs[i] = img.procs[i]
    BY <1>5, <1>7, <2>1, <2>2
  <2>. QED
    BY <2>1, <2>2, <2>3 DEF OpenSlots
<1>11. ASSUME NEW i \in DOMAIN new.procs, NEW t \in OpenSlots(new, i)
       PROVE  FdGet(new, new.procs[i].fds[t]) = FdGet(img, new.procs[i].fds[t])
  <2>1. new.procs[i].fds[t] \notin FreedEntries(img, pid, errs)
    BY <1>8, <1>10 DEF GoodImage, UniqueSlots
  <2>. QED
    BY <1>2, <1>7, <1>9, <2>1 DEF FdGet
<1>12. GoodImage(new)
  BY <1>7, <1>10, <1>11, NoNewSlots
<1>13. DOMAIN new.procs = DOMAIN img.procs /\ new.procs[pid].fds = <<>>
  BY <1>4, <1>5, <1>7
<1>. QED
  BY <1>12, <1>13 DEF new

-----------------------------------------------------------------------------
(* The invariant of all images.                                            *)

USE VPAssumption, ImageAssumption

\* The inductive invariant behind SlotsUnique and SlotsBacked: they need each
\* other, since a new entry is one no slot holds because slots are backed.
DescriptorsInv == TypeOK /\ \A p \in Posix : GoodImage(image[p])

\* The part of it that speaks of the POSIX processes.
ImagesInv ==
  /\ live \subseteq used /\ used \subseteq Posix /\ reused \subseteq used
  /\ image \in [Posix -> Image]
  /\ \A p \in Posix : GoodImage(image[p])

LastOK == last \in [by : Posix, call : Calls, arg : Results, val : Results]

LEMMA InvParts == DescriptorsInv <=> ImagesInv /\ LastOK
  BY DEF DescriptorsInv, TypeOK, ImagesInv, LastOK

-----------------------------------------------------------------------------
(* The ways a step changes images, and what a call records.                *)

\* A successful fork(2).
LEMMA ForkedInv ==
  ASSUME ImagesInv, NEW p \in Posix, NEW child \in Posix,
         NEW parentImage, GoodImage(parentImage), NEW childImage, GoodImage(childImage),
         Forked(p, child, parentImage, childImage)
  PROVE  ImagesInv'
<1>1. parentImage \in Image /\ childImage \in Image
  BY DEF GoodImage
<1>2. live' \subseteq used' /\ used' \subseteq Posix /\ reused' \subseteq used'
  BY DEF ImagesInv, Forked
<1>3. image' \in [Posix -> Image]
  BY <1>1 DEF ImagesInv, Forked
<1>4. ASSUME NEW q \in Posix PROVE GoodImage(image'[q])
  <2>1. image'[q] \in {parentImage, childImage, image[q]}
    BY DEF ImagesInv, Forked
  <2>. QED
    BY <2>1 DEF ImagesInv
<1>. QED
  BY <1>2, <1>3, <1>4 DEF ImagesInv

\* A process ends.
LEMMA EndsInv ==
  ASSUME ImagesInv, NEW p \in Posix, Ends(p)
  PROVE  ImagesInv'
<1>1. BootImage \in Image
  BY BootGood DEF GoodImage
<1>2. live' \subseteq used' /\ used' \subseteq Posix /\ reused' \subseteq used'
  BY DEF ImagesInv, Ends
<1>3. image' \in [Posix -> Image]
  BY <1>1 DEF ImagesInv, Ends
<1>4. ASSUME NEW q \in Posix PROVE GoodImage(image'[q])
  <2>1. image'[q] \in {BootImage, image[q]}
    BY DEF ImagesInv, Ends
  <2>. QED
    BY <2>1, BootGood DEF ImagesInv
<1>. QED
  BY <1>2, <1>3, <1>4 DEF ImagesInv

\* A call changes its caller's image.
LEMMA BecomesInv ==
  ASSUME ImagesInv, NEW p \in Posix, NEW img, GoodImage(img), Becomes(p, img)
  PROVE  ImagesInv'
<1>1. img \in Image
  BY DEF GoodImage
<1>2. live' \subseteq used' /\ used' \subseteq Posix /\ reused' \subseteq used'
  BY DEF ImagesInv, Becomes
<1>3. image' \in [Posix -> Image]
  BY <1>1 DEF ImagesInv, Becomes
<1>4. ASSUME NEW q \in Posix PROVE GoodImage(image'[q])
  <2>1. image'[q] \in {img, image[q]}
    BY DEF ImagesInv, Becomes
  <2>. QED
    BY <2>1 DEF ImagesInv
<1>. QED
  BY <1>2, <1>3, <1>4 DEF ImagesInv

\* Nothing changes but perhaps last.
LEMMA NoEffectInv == ImagesInv /\ NoEffect => ImagesInv'
  BY DEF ImagesInv, NoEffect

\* A call records its result.
LEMMA ReturnsOK ==
  ASSUME LastOK, NEW p \in Posix, NEW call \in Calls, NEW arg \in Results,
         NEW val \in Results, Returns(p, call, arg, val)
  PROVE  LastOK'
  BY DEF LastOK, Returns

\* None, numbers and paths are results.
LEMMA ResultsOK ==
  None \in Results /\ Nat \cup Dirs \cup Files \cup Devices \subseteq Results
  BY DEF Results

\* The process serverSysCall finds.
LEMMA CallerTyped ==
  ASSUME ImagesInv, NEW p \in Posix, NEW pid \in FindPid(image[p], p)
  PROVE  /\ image[p] \in Image /\ GoodImage(image[p])
         /\ pid \in DOMAIN image[p].procs /\ pid \in Nat
         /\ image[p].procs \in Seq(Process)
         /\ image[p].procs[pid] \in Process
         /\ image[p].procs[pid].posixPID = p
         /\ image[p].procs[pid].fds \in Seq(Nat)
         /\ image[p].procs[pid].cwd \in Dirs \cup {None}
<1>1. image[p] \in Image /\ GoodImage(image[p])
  BY DEF ImagesInv
<1>2. pid \in DOMAIN image[p].procs /\ image[p].procs[pid].posixPID = p
  BY DEF FindPid, First
<1>3. image[p].procs \in Seq(Process)
  BY <1>1 DEF Image
<1>4. /\ image[p].procs[pid].fds \in Seq(Nat)
      /\ image[p].procs[pid].cwd \in Dirs \cup {None}
  BY <1>1, <1>2, ProcessTyped
<1>. QED
  BY <1>1, <1>2, <1>3, <1>4

-----------------------------------------------------------------------------
(* The daemon's steps.                                                     *)

\* A process that loadFileFS has loaded, and a copy that forkCopy has made.
LEMMA FreshTyped ==
  /\ \A dir \in Dirs : Loaded(dir) \in Process /\ Loaded(dir).fds = <<>>
  /\ \A proc \in Process : ForkCopy(proc) \in Process /\ ForkCopy(proc).fds = <<>>
<1>1. NewProcess \in Process /\ NewProcess.fds = <<>>
  BY DEF NewProcess, Process
<1>2. ASSUME NEW dir \in Dirs PROVE Loaded(dir) \in Process /\ Loaded(dir).fds = <<>>
  BY <1>1 DEF Loaded, Process
<1>3. ASSUME NEW proc \in Process PROVE ForkCopy(proc) \in Process /\ ForkCopy(proc).fds = <<>>
  <2>1. <<>> \in Seq(Nat)
    OBVIOUS
  <2>. QED
    BY <2>1 DEF ForkCopy, Process
<1>. QED
  BY <1>2, <1>3

\* The process of pid starts to run.
LEMMA RunInGood ==
  ASSUME NEW img, GoodImage(img), NEW pid \in DOMAIN img.procs, NEW posix \in Posix
  PROVE  GoodImage(RunIn(img, pid, posix))
<1>. DEFINE proc == [img.procs[pid] EXCEPT !.posixPID = posix, !.state = "Running"]
<1>1. img.procs[pid] \in Process
  BY ProcessTyped DEF GoodImage
<1>2. proc \in Process /\ proc.fds = img.procs[pid].fds
  BY <1>1 DEF Process
<1>3. RunIn(img, pid, posix) = [img EXCEPT !.procs[pid] = proc]
  BY DEF RunIn
<1>. HIDE DEF proc
<1>. QED
  BY <1>2, <1>3, ReplaceGood

\* arun forks for the process that was added last.
LEMMA RunForkedInv ==
  ASSUME ImagesInv, NEW img, GoodImage(img), NEW pid \in DOMAIN img.procs,
         RunForked(img, pid)
  PROVE  ImagesInv'
<1>1. PICK child \in Posix : Forked(Daemon, child, img, RunIn(img, pid, child))
  BY DEF RunForked
<1>2. GoodImage(RunIn(img, pid, child))
  BY RunInGood
<1>. QED
  BY <1>1, <1>2, ForkedInv

LEMMA RunInitInv == ASSUME ImagesInv, RunInit PROVE ImagesInv'
<1>. DEFINE img == AddProc(image[Daemon], Loaded(SysDir))
<1>1. GoodImage(img) /\ Len(img.procs) = Len(image[Daemon].procs) + 1
  BY AddProcGood, FreshTyped DEF ImagesInv
<1>2. image[Daemon].procs \in Seq(Process) /\ img.procs \in Seq(Process)
  BY <1>1 DEF ImagesInv, GoodImage, Image
<1>. HIDE DEF img
<1>3. Len(img.procs) \in DOMAIN img.procs
  BY <1>1, <1>2
<1>4. CASE RunForked(img, Len(img.procs))
  BY <1>1, <1>3, <1>4, RunForkedInv
<1>5. CASE Ends(Daemon)
  BY <1>5, EndsInv
<1>. QED
  BY <1>4, <1>5 DEF RunInit, img

LEMMA SpawnShellInv == ASSUME ImagesInv, SpawnShell PROVE ImagesInv'
<1>1. PICK n \in TtyName(image[Daemon]) :
        LET named == [image[Daemon] EXCEPT !.devices[n] = 0]
            added == AddProc(named, Loaded(BinDir))
        IN  \/ \E img \in {named, added} :
                 /\ image' = [image EXCEPT ![Daemon] = img]
                 /\ UNCHANGED <<live, used, reused>>
            \/ RunForked(added, Len(added.procs))
  BY DEF SpawnShell
<1>. DEFINE named == [image[Daemon] EXCEPT !.devices[n] = 0]
            dv    == [image[Daemon].devices EXCEPT ![n] = 0]
            added == AddProc(named, Loaded(BinDir))
<1>2. image[Daemon] \in Image /\ GoodImage(image[Daemon])
  BY DEF ImagesInv
<1>3. /\ dv \in [Devices -> Nat \cup {-1}]
      /\ image[Daemon].kernel \in [KernelFds -> OpenFile \cup {None}]
      /\ named = [image[Daemon] EXCEPT !.devices = dv, !.kernel = image[Daemon].kernel]
  BY <1>2 DEF Image
<1>4. GoodImage(named)
  <2>. HIDE DEF named, dv
  <2>. QED
    BY <1>2, <1>3, OutsideGood
<1>. HIDE DEF named
<1>5. GoodImage(added) /\ Len(added.procs) = Len(named.procs) + 1
  BY <1>4, AddProcGood, FreshTyped
<1>6. named.procs \in Seq(Process) /\ added.procs \in Seq(Process)
  BY <1>4, <1>5 DEF GoodImage, Image
<1>. HIDE DEF added
<1>7. Len(added.procs) \in DOMAIN added.procs
  BY <1>5, <1>6
<1>8. CASE RunForked(added, Len(added.procs))
  BY <1>5, <1>7, <1>8, RunForkedInv
<1>9. CASE \E img \in {named, added} :
             image' = [image EXCEPT ![Daemon] = img] /\ UNCHANGED <<live, used, reused>>
  <2>1. PICK img \in {named, added} : Becomes(Daemon, img)
    BY <1>9 DEF Becomes
  <2>. QED
    BY <1>4, <1>5, <2>1, BecomesInv
<1>. QED
  BY <1>1, <1>8, <1>9 DEF named, added

-----------------------------------------------------------------------------
(* The system calls.                                                       *)

LEMMA ForkInv ==
  ASSUME ImagesInv, LastOK, NEW p \in Posix, NEW pid \in FindPid(image[p], p), Fork(p, pid)
  PROVE  ImagesInv' /\ LastOK'
<1>. DEFINE next     == AddProc(image[p], ForkCopy(image[p].procs[pid]))
            childPID == Len(next.procs)
<1>1. GoodImage(next) /\ Len(next.procs) = Len(image[p].procs) + 1
  BY AddProcGood, FreshTyped, CallerTyped
<1>2. next.procs \in Seq(Process) /\ image[p].procs \in Seq(Process)
  BY <1>1, CallerTyped DEF GoodImage, Image
<1>. HIDE DEF next
<1>3. childPID \in DOMAIN next.procs /\ childPID \in Nat
  BY <1>1, <1>2
<1>. HIDE DEF childPID
<1>4. CASE /\ \E child \in Posix : Forked(p, child, next, RunIn(next, childPID, child))
           /\ Returns(p, "fork", None, childPID)
  <2>1. PICK child \in Posix : Forked(p, child, next, RunIn(next, childPID, child))
    BY <1>4
  <2>2. GoodImage(RunIn(next, childPID, child))
    BY <1>1, <1>3, RunInGood
  <2>3. ImagesInv'
    BY <1>1, <2>1, <2>2, ForkedInv
  <2>4. LastOK'
    BY <1>3, <1>4, ReturnsOK, ResultsOK DEF Calls
  <2>. QED
    BY <2>3, <2>4
<1>5. CASE NoEffect /\ Returns(p, "fork", None, None)
  BY <1>5, NoEffectInv, ReturnsOK, ResultsOK DEF Calls
<1>. QED
  BY <1>4, <1>5 DEF Fork, next, childPID

LEMMA ExecInv ==
  ASSUME ImagesInv, LastOK, NEW p \in Posix, NEW pid \in FindPid(image[p], p), Exec(p, pid)
  PROVE  ImagesInv' /\ LastOK'
<1>1. CASE NoEffect /\ Returns(p, "exec", None, None)
  BY <1>1, NoEffectInv, ReturnsOK, ResultsOK DEF Calls
<1>2. CASE ~(NoEffect /\ Returns(p, "exec", None, None))
  <2>0. PICK dir \in Dirs,
             errs \in SUBSET (IF CloseFails THEN OpenSlots(image[p], pid) ELSE {}) :
          \E cwd \in SetCwd(dir, image[p].procs[pid].cwd) :
            LET fresh == [Loaded(dir) EXCEPT !.cwd = cwd]
                freed == ProcessFree(image[p], pid, errs)
            IN  /\ Becomes(p, RunIn([freed EXCEPT !.procs[pid] = fresh], pid, p))
                /\ Returns(p, "exec", dir, cwd)
    BY <1>2 DEF Exec
  <2>1. PICK cwd \in SetCwd(dir, image[p].procs[pid].cwd) :
          LET fresh == [Loaded(dir) EXCEPT !.cwd = cwd]
              freed == ProcessFree(image[p], pid, errs)
          IN  /\ Becomes(p, RunIn([freed EXCEPT !.procs[pid] = fresh], pid, p))
              /\ Returns(p, "exec", dir, cwd)
    BY <2>0
  <2>. DEFINE fresh  == [Loaded(dir) EXCEPT !.cwd = cwd]
              freed  == ProcessFree(image[p], pid, errs)
              placed == [freed EXCEPT !.procs[pid] = fresh]
  <2>2. cwd \in Dirs \cup {None}
    BY <2>1, CallerTyped DEF SetCwd
  <2>3. fresh \in Process /\ fresh.fds = <<>>
    <3>. DEFINE proc == Loaded(dir)
                c    == cwd
    <3>1. proc \in Process /\ proc.fds = <<>> /\ c \in Dirs \cup {None}
      BY <2>2, FreshTyped
    <3>. HIDE DEF proc, c
    <3>2. [proc EXCEPT !.cwd = c] \in Process /\ [proc EXCEPT !.cwd = c].fds = <<>>
      BY <3>1 DEF Process
    <3>. QED
      BY <3>2 DEF proc, c
  <2>4. GoodImage(freed) /\ pid \in DOMAIN freed.procs
    <3>1. GoodImage(image[p]) /\ pid \in DOMAIN image[p].procs
      BY CallerTyped
    <3>2. GoodImage(freed) /\ DOMAIN freed.procs = DOMAIN image[p].procs
      BY <3>1, ProcessFreeGood
    <3>. QED
      BY <3>1, <3>2
  <2>. HIDE DEF fresh, freed
  <2>5. GoodImage(placed)
    BY <2>3, <2>4, ReplaceGood
  <2>6. pid \in DOMAIN placed.procs
    BY <2>4 DEF GoodImage, Image
  <2>. HIDE DEF placed
  <2>7. GoodImage(RunIn(placed, pid, p))
    BY <2>5, <2>6, RunInGood
  <2>8. Becomes(p, RunIn(placed, pid, p)) /\ Returns(p, "exec", dir, cwd)
    BY <2>1 DEF placed, freed, fresh
  <2>9. ImagesInv'
    BY <2>7, <2>8, BecomesInv
  <2>10. LastOK'
    BY <2>2, <2>8, ReturnsOK, ResultsOK DEF Calls
  <2>. QED
    BY <2>9, <2>10
<1>. QED
  BY <1>1, <1>2

\* open(2) on a file.
LEMMA OpenFileInv ==
  ASSUME ImagesInv, LastOK, NEW p \in Posix, NEW pid \in FindPid(image[p], p),
         NEW file \in Files, NEW flags \in {O_RDONLY, O_RDWR},
         FdOpenFdFromFile(p, pid, file, flags)
  PROVE  ImagesInv' /\ LastOK'
<1>1. CASE NoEffect /\ Returns(p, "open", file, None)
  BY <1>1, NoEffectInv, ReturnsOK, ResultsOK DEF Calls
<1>2. CASE ~(NoEffect /\ Returns(p, "open", file, None))
  <2>. DEFINE img == image[p]
  <2>1. PICK k \in KernelFd(img), e \in FdCreate(img), s \in FdSlot(img.procs[pid].fds) :
          LET opened == [img EXCEPT !.kernel[k] = [file |-> file, access |-> flags]] IN
          /\ Becomes(p, FdInstall(opened, pid, e, s, "Fd", k))
          /\ Returns(p, "open", file, s)
    BY <1>2 DEF FdOpenFdFromFile
  <2>. DEFINE kn     == [img.kernel EXCEPT ![k] = [file |-> file, access |-> flags]]
              opened == [img EXCEPT !.kernel[k] = [file |-> file, access |-> flags]]
  <2>2. /\ img \in Image /\ GoodImage(img) /\ pid \in DOMAIN img.procs
        /\ img.procs[pid].fds \in Seq(Nat)
    BY CallerTyped
  <2>3. k \in KernelFds
    BY DEF KernelFd, First
  <2>4. /\ kn \in [KernelFds -> OpenFile \cup {None}]
        /\ img.devices \in [Devices -> Nat \cup {-1}]
        /\ opened = [img EXCEPT !.devices = img.devices, !.kernel = kn]
        /\ opened.procs = img.procs /\ opened.fdEntries = img.fdEntries
    BY <2>2, <2>3 DEF Image, OpenFile
  <2>5. GoodImage(opened)
    <3>. HIDE DEF kn, opened, img
    <3>. QED
      BY <2>2, <2>4, OutsideGood
  <2>6. e \in FdCreate(opened) /\ s \in FdSlot(opened.procs[pid].fds)
    BY <2>4 DEF FdCreate
  <2>7. GoodImage(FdInstall(opened, pid, e, s, "Fd", k))
    <3>. HIDE DEF opened, img
    <3>. QED
      BY <2>2, <2>3, <2>4, <2>5, <2>6, InstallGood
  <2>8. ImagesInv'
    BY <2>1, <2>7, BecomesInv
  <2>9. s \in Nat
    BY <2>2 DEF FdSlot, First
  <2>10. LastOK'
    BY <2>1, <2>9, ReturnsOK, ResultsOK DEF Calls
  <2>. QED
    BY <2>8, <2>10
<1>. QED
  BY <1>1, <1>2

\* An open of a device.
LEMMA OpenDeviceInv ==
  ASSUME ImagesInv, LastOK, NEW p \in Posix, NEW pid \in FindPid(image[p], p),
         NEW name \in Devices,
         FdOpenFdFromDevice(p, pid, name)
  PROVE  ImagesInv' /\ LastOK'
<1>. DEFINE img == image[p]
            counted == [img EXCEPT !.devices[name] = @ + 1]
            dv == [img.devices EXCEPT ![name] = @ + 1]
<1>1. CASE img.devices[name] = -1 /\ NoEffect /\ Returns(p, "open", name, None)
  BY <1>1, NoEffectInv, ReturnsOK, ResultsOK DEF Calls
<1>2. CASE img.devices[name] \in 0 .. MaxRefs - 1
  <2>1. /\ img \in Image /\ GoodImage(img) /\ pid \in DOMAIN img.procs
        /\ img.procs[pid].fds \in Seq(Nat)
    BY CallerTyped
  <2>a. img.devices[name] + 1 \in Nat
    BY <1>2
  <2>2. /\ dv \in [Devices -> Nat \cup {-1}]
        /\ img.kernel \in [KernelFds -> OpenFile \cup {None}]
        /\ counted = [img EXCEPT !.devices = dv, !.kernel = img.kernel]
        /\ counted.procs = img.procs /\ counted.fdEntries = img.fdEntries
    BY <2>1, <2>a DEF Image
  <2>3. GoodImage(counted)
    <3>. HIDE DEF counted, dv, img
    <3>. QED
      BY <2>1, <2>2, OutsideGood
  <2>4. CASE Becomes(p, counted) /\ Returns(p, "open", name, None)
    BY <2>3, <2>4, BecomesInv, ReturnsOK, ResultsOK DEF Calls
  <2>5. ASSUME NEW e \in FdCreate(img), NEW s \in FdSlot(img.procs[pid].fds),
               Becomes(p, FdInstall(counted, pid, e, s, "Device", name)),
               Returns(p, "open", name, s)
        PROVE  ImagesInv' /\ LastOK'
    <3>1. e \in FdCreate(counted) /\ s \in FdSlot(counted.procs[pid].fds)
      BY <2>2 DEF FdCreate
    <3>2. GoodImage(FdInstall(counted, pid, e, s, "Device", name))
      <4>. HIDE DEF counted, img
      <4>. QED
        BY <2>1, <2>2, <2>3, <3>1, InstallGood
    <3>3. ImagesInv'
      BY <2>5, <3>2, BecomesInv
    <3>4. s \in Nat
      BY <2>1 DEF FdSlot, First
    <3>5. LastOK'
      BY <2>5, <3>4, ReturnsOK, ResultsOK DEF Calls
    <3>. QED
      BY <3>3, <3>5
  <2>. QED
    BY <1>2, <2>4, <2>5 DEF FdOpenFdFromDevice
<1>. QED
  BY <1>1, <1>2 DEF FdOpenFdFromDevice

\* What a read or write reaches is a file, a device or nothing.
LEMMA TargetTyped ==
  ASSUME NEW img \in Image, NEW pid \in DOMAIN img.procs, NEW s \in DOMAIN img.procs[pid].fds
  PROVE  Target(img, pid, s) \in Results
<1>. DEFINE entry == FdGet(img, img.procs[pid].fds[s])
<1>1. entry \in FdEntry
  <2>1. img.procs[pid].fds[s] \in Nat
    BY ProcessTyped
  <2>. QED
    BY <2>1, EntryTyped
<1>2. CASE entry.type = "Fd" /\ img.kernel[entry.d] # None
  <2>1. entry.d \in KernelFds
    BY <1>1, <1>2 DEF FdEntry, NullEntry
  <2>2. img.kernel[entry.d] \in OpenFile
    BY <1>2, <2>1 DEF Image
  <2>3. Target(img, pid, s) = img.kernel[entry.d].file
    BY <1>2 DEF Target
  <2>. HIDE DEF entry
  <2>. QED
    BY <2>2, <2>3 DEF OpenFile, Results
<1>3. CASE entry.type = "Device"
  <2>1. entry.d \in Devices
    BY <1>1, <1>3 DEF FdEntry, NullEntry
  <2>2. Target(img, pid, s) = entry.d
    BY <1>3 DEF Target
  <2>. QED
    BY <2>1, <2>2 DEF Results
<1>4. CASE ~(entry.type = "Fd" /\ img.kernel[entry.d] # None) /\ entry.type # "Device"
  <2>1. Target(img, pid, s) = None
    BY <1>4 DEF Target
  <2>. QED
    BY <2>1, ResultsOK
<1>. QED
  BY <1>2, <1>3, <1>4

\* read, write: no effect, and a result that Target bounds.
LEMMA TransferInv ==
  ASSUME ImagesInv, LastOK, NEW p \in Posix, NEW pid \in FindPid(image[p], p),
         Read(p, pid) \/ Write(p, pid)
  PROVE  ImagesInv' /\ LastOK'
<1>1. PICK s \in Held(p, pid), call \in {"read", "write"} :
        /\ NoEffect
        /\ Returns(p, call, s, Target(image[p], pid, s)) \/ Returns(p, call, s, None)
  BY DEF Read, Write
<1>2. s \in Nat
  <2>. DEFINE fds == image[p].procs[pid].fds
  <2>1. fds \in Seq(Nat) /\ s \in DOMAIN fds
    BY CallerTyped DEF Held
  <2>. HIDE DEF fds
  <2>. QED
    BY <2>1
<1>3. Target(image[p], pid, s) \in Results
  BY CallerTyped, TargetTyped DEF Held
<1>. QED
  BY <1>1, <1>2, <1>3, NoEffectInv, ReturnsOK, ResultsOK DEF Calls

LEMMA CloseInv ==
  ASSUME ImagesInv, LastOK, NEW p \in Posix, NEW pid \in FindPid(image[p], p), Close(p, pid)
  PROVE  ImagesInv' /\ LastOK'
<1>. DEFINE img   == image[p]
            fd(s) == img.procs[pid].fds[s]
            ok(s, err) == KernelCloses(img, FdGet(img, fd(s)), err)
<1>1. /\ img \in Image /\ GoodImage(img) /\ pid \in DOMAIN img.procs
      /\ img.procs[pid].fds \in Seq(Nat)
  BY CallerTyped
<1>2. PICK s \in Held(p, pid), err \in (IF CloseFails THEN BOOLEAN ELSE {FALSE}) :
        IF FdGet(img, fd(s)) = NullEntry
        THEN NoEffect /\ Returns(p, "close", s, None)
        ELSE /\ Becomes(p, FdClose(img, pid, fd(s), ok(s, err)))
             /\ Returns(p, "close", s, IF ok(s, err) THEN 0 ELSE None)
  BY DEF Close
<1>3. s \in DOMAIN img.procs[pid].fds /\ s \in Nat
  BY <1>1 DEF Held
<1>4. CASE FdGet(img, fd(s)) = NullEntry
  BY <1>2, <1>3, <1>4, NoEffectInv, ReturnsOK, ResultsOK DEF Calls
<1>5. CASE FdGet(img, fd(s)) # NullEntry
  <2>1. s \in OpenSlots(img, pid)
    <3>1. 0 \notin DOMAIN img.fdEntries
      BY <1>1 DEF Image
    <3>. QED
      BY <1>3, <1>5, <3>1 DEF OpenSlots, FdGet
  <2>2. ok(s, err) \in BOOLEAN
    BY DEF KernelCloses
  <2>3. Becomes(p, FdClose(img, pid, fd(s), ok(s, err)))
    BY <1>2, <1>5
  <2>4. GoodImage(FdClose(img, pid, fd(s), ok(s, err)))
    <3>. HIDE DEF img, ok
    <3>. QED
      BY <1>1, <2>1, <2>2, FdCloseGood
  <2>5. ImagesInv'
    <3>. HIDE DEF img, fd, ok
    <3>. QED
      BY <2>3, <2>4, BecomesInv
  <2>6. PICK val \in {0, None} : Returns(p, "close", s, val)
    <3>. HIDE DEF ok
    <3>. QED
      BY <1>2, <1>5
  <2>7. LastOK'
    BY <1>3, <2>6, ReturnsOK, ResultsOK DEF Calls
  <2>. QED
    BY <2>5, <2>7
<1>. QED
  BY <1>4, <1>5

LEMMA ChDirInv ==
  ASSUME ImagesInv, LastOK, NEW p \in Posix, NEW pid \in FindPid(image[p], p), ChDir(p, pid)
  PROVE  ImagesInv' /\ LastOK'
<1>1. PICK dir \in Dirs :
        \/ /\ Becomes(p, [image[p] EXCEPT !.procs[pid].cwd = dir])
           /\ Returns(p, "chdir", dir, 0)
        \/ NoEffect /\ Returns(p, "chdir", dir, None)
  BY DEF ChDir
<1>2. CASE NoEffect /\ Returns(p, "chdir", dir, None)
  BY <1>2, NoEffectInv, ReturnsOK, ResultsOK DEF Calls
<1>3. CASE /\ Becomes(p, [image[p] EXCEPT !.procs[pid].cwd = dir])
           /\ Returns(p, "chdir", dir, 0)
  <2>. DEFINE proc == [image[p].procs[pid] EXCEPT !.cwd = dir]
  <2>1. image[p].procs[pid] \in Process
    BY CallerTyped
  <2>2. proc \in Process /\ proc.fds = image[p].procs[pid].fds
    BY <2>1 DEF Process
  <2>3. Becomes(p, [image[p] EXCEPT !.procs[pid] = proc])
    BY <1>3
  <2>. HIDE DEF proc
  <2>4. GoodImage([image[p] EXCEPT !.procs[pid] = proc])
    BY <2>2, CallerTyped, ReplaceGood
  <2>5. ImagesInv'
    BY <2>3, <2>4, BecomesInv
  <2>6. LastOK'
    BY <1>3, ReturnsOK, ResultsOK DEF Calls
  <2>. QED
    BY <2>5, <2>6
<1>. QED
  BY <1>1, <1>2, <1>3

LEMMA QueryInv ==
  ASSUME ImagesInv, LastOK, NEW p \in Posix, NEW pid \in FindPid(image[p], p),
         GetPid(p, pid) \/ GetCwd(p, pid)
  PROVE  ImagesInv' /\ LastOK'
<1>1. pid \in Results
  BY CallerTyped, ResultsOK
<1>2. image[p].procs[pid].cwd \in Results
  BY CallerTyped, ResultsOK
<1>3. CASE GetPid(p, pid)
  BY <1>1, <1>3, NoEffectInv, ReturnsOK, ResultsOK DEF GetPid, Calls
<1>4. CASE GetCwd(p, pid)
  BY <1>2, <1>4, NoEffectInv, ReturnsOK, ResultsOK DEF GetCwd, Calls
<1>. QED
  BY <1>3, <1>4

\* One system call.
LEMMA SysCallInv ==
  ASSUME ImagesInv, LastOK, NEW p \in Posix, SysCall(p)
  PROVE  ImagesInv' /\ LastOK'
<1>1. PICK pid \in FindPid(image[p], p) :
        \/ Fork(p, pid) \/ Exec(p, pid) \/ Open(p, pid) \/ Read(p, pid) \/ Write(p, pid)
        \/ Close(p, pid) \/ GetPid(p, pid) \/ GetCwd(p, pid) \/ ChDir(p, pid) \/ Exit(p, pid)
  BY DEF SysCall
<1>2. CASE Fork(p, pid)
  BY <1>2, ForkInv
<1>3. CASE Exec(p, pid)
  BY <1>3, ExecInv
<1>4. CASE Open(p, pid)
  <2>1. PICK path \in Files \cup Devices, flags \in {O_RDONLY, O_RDWR}, mode \in {0} :
          FdOpenFdFromPath(p, pid, path, mode, flags)
    BY <1>4 DEF Open
  <2>2. mode = O_RDONLY /\ flags \in Nat
    BY DEF O_RDONLY, O_RDWR
  <2>3. CASE path \in Devices
    <3>1. FdOpenFdFromDevice(p, pid, path)
      BY <2>1, <2>3 DEF FdOpenFdFromPath
    <3>. QED
      BY <2>2, <2>3, <3>1, OpenDeviceInv
  <2>4. CASE path \notin Devices
    <3>1. FdOpenFdFromFile(p, pid, path, O_RDONLY)
      BY <2>1, <2>2, <2>4 DEF FdOpenFdFromPath
    <3>2. path \in Files
      BY <2>4
    <3>. QED
      BY <2>2, <3>1, <3>2, OpenFileInv
  <2>. QED
    BY <2>3, <2>4
<1>5. CASE Read(p, pid) \/ Write(p, pid)
  BY <1>5, TransferInv
<1>6. CASE Close(p, pid)
  BY <1>6, CloseInv
<1>7. CASE GetPid(p, pid) \/ GetCwd(p, pid)
  BY <1>7, QueryInv
<1>8. CASE ChDir(p, pid)
  BY <1>8, ChDirInv
<1>9. CASE Exit(p, pid)
  BY <1>9, EndsInv, ReturnsOK, ResultsOK DEF Exit, Calls
<1>. QED
  BY <1>1, <1>2, <1>3, <1>4, <1>5, <1>6, <1>7, <1>8, <1>9

-----------------------------------------------------------------------------
(* The theorems.                                                           *)

\* Initially every image is the one the server boots with.
LEMMA InvInit == Init => DescriptorsInv
<1>. SUFFICES ASSUME Init PROVE ImagesInv /\ LastOK
  BY InvParts
<1>1. BootImage \in Image
  BY BootGood DEF GoodImage
<1>2. ImagesInv
  BY <1>1, BootGood DEF Init, ImagesInv
<1>3. LastOK
  BY ResultsOK DEF Init, LastOK, NoCall, Calls
<1>. QED
  BY <1>2, <1>3

\* Every step of the daemon, of a program, or of fate keeps the invariant.
LEMMA InvNext == DescriptorsInv /\ [Next]_vars => DescriptorsInv'
<1>. SUFFICES ASSUME ImagesInv, LastOK, [Next]_vars PROVE ImagesInv' /\ LastOK'
  BY InvParts DEF DescriptorsInv, TypeOK, ImagesInv, LastOK
<1>1. CASE RunInit
  BY <1>1, RunInitInv DEF RunInit, LastOK
<1>2. CASE SpawnShell
  BY <1>2, SpawnShellInv DEF SpawnShell, LastOK
<1>3. CASE DaemonExits
  BY <1>3, EndsInv DEF DaemonExits, LastOK
<1>4. ASSUME NEW p \in Running, SysCall(p) PROVE ImagesInv' /\ LastOK'
  <2>1. p \in Posix
    BY DEF Running, ImagesInv
  <2>. QED
    BY <1>4, <2>1, SysCallInv
<1>5. ASSUME NEW p \in Running, Crash(p) PROVE ImagesInv' /\ LastOK'
  <2>1. p \in Posix
    BY DEF Running, ImagesInv
  <2>. QED
    BY <1>5, <2>1, EndsInv DEF Crash, LastOK
<1>6. CASE UNCHANGED vars
  BY <1>6 DEF vars, ImagesInv, LastOK
<1>. QED
  BY <1>1, <1>2, <1>3, <1>4, <1>5, <1>6 DEF Next

\* The state always has the shape the code's data structures give it.
THEOREM TypeCorrect == Spec => []TypeOK
<1>1. DescriptorsInv => TypeOK
  BY DEF DescriptorsInv
<1>. QED
  BY <1>1, InvInit, InvNext, PTL DEF Spec

\* No two open slots of an image hold the same descriptor, whatever processes
\* open, close, fork, exec or exit and even if close(2) reports errors: the
\* answer to process.cpp:379 is yes, fdRemove may stop at the first match.
THEOREM SlotsAlwaysUnique == Spec => []SlotsUnique
<1>1. DescriptorsInv => SlotsUnique
  BY DEF DescriptorsInv, TypeOK, GoodImage, SlotsUnique
<1>. QED
  BY <1>1, InvInit, InvNext, PTL DEF Spec

\* An open slot always leads to an entry in use with a reference counted, so
\* the assertion of fdClose (server.cpp:715) never fails.
THEOREM SlotsAlwaysBacked == Spec => []SlotsBacked
<1>1. DescriptorsInv => SlotsBacked
  BY DEF DescriptorsInv, TypeOK, GoodImage, SlotsBacked
<1>. QED
  BY <1>1, InvInit, InvNext, PTL DEF Spec

-----------------------------------------------------------------------------
(* That serverSysCall finds the process that calls it, and that only a pid *)
(* the kernel handed out before can stand for another process too.         *)

\* Every POSIX pid in the table of an image has been handed out, and stands for
\* a process that is running.
KnownPids(img, pids) ==
  \A i \in DOMAIN img.procs :
    /\ img.procs[i].posixPID \in pids \cup {None}
    /\ img.procs[i].posixPID # None => img.procs[i].state = "Running"

\* Where the table of img names POSIX process p.
Positions(img, p) == {i \in DOMAIN img.procs : img.procs[i].posixPID = p}

\* POSIX process p stands once in the table, as a running process.
Identified(img, p) ==
  \E i \in DOMAIN img.procs :
    /\ img.procs[i].posixPID = p /\ img.procs[i].state = "Running"
    /\ \A j \in DOMAIN img.procs : img.procs[j].posixPID = p => j = i

\* The inductive invariant: a new process can be told from every entry of the
\* table it inherits unless its pid is a used one, since all the pids there are.
PidsInv ==
  /\ Daemon \in used
  /\ Recycle = FALSE => reused = {}
  /\ \A p \in Posix : KnownPids(image[p], used)
  /\ \A p \in Running : Positions(image[p], p) # {}
  /\ \A p \in Running \ reused : Identified(image[p], p)

CallerInv == DescriptorsInv /\ PidsInv

\* Two images whose tables name the same POSIX processes in the same states.
SamePids(img, new) ==
  /\ DOMAIN new.procs = DOMAIN img.procs
  /\ \A i \in DOMAIN img.procs :
       /\ new.procs[i].posixPID = img.procs[i].posixPID
       /\ new.procs[i].state = img.procs[i].state

\* Where the table of img names p, that of new does, and nowhere else.
KeepsPid(img, new, p) == Positions(new, p) = Positions(img, p)

\* A program that goes on stays where it is in its table.
PidsKept == \A p \in Running \cap Running' : KeepsPid(image[p], image'[p], p)

-----------------------------------------------------------------------------
(* Operations on images.                                                   *)

\* None is not a pid.
LEMMA NoneNotPosix == None \notin Posix
  BY ImageAssumption

LEMMA SamePidsKeeps ==
  ASSUME NEW img, NEW new, SamePids(img, new), NEW pids, NEW p
  PROVE  /\ KnownPids(img, pids) => KnownPids(new, pids)
         /\ Identified(img, p) => Identified(new, p)
         /\ KeepsPid(img, new, p)
  BY DEF SamePids, KnownPids, Identified, KeepsPid, Positions

\* fork's child and the daemon's new processes: in the forked copy, the
\* process added last takes the child's pid, which no other has if it is new.
LEMMA ChildIdentified ==
  ASSUME NEW img, GoodImage(img), NEW pids, KnownPids(img, pids),
         NEW pid \in DOMAIN img.procs, NEW child \in Posix
  PROVE  /\ Positions(RunIn(img, pid, child), child) # {}
         /\ child \notin pids => Identified(RunIn(img, pid, child), child)
         /\ KnownPids(RunIn(img, pid, child), pids \cup {child})
<1>. DEFINE new == RunIn(img, pid, child)
            ps  == [img.procs EXCEPT ![pid].posixPID = child, ![pid].state = "Running"]
<1>1. img \in Image /\ img.procs \in Seq(Process) /\ img.procs[pid] \in Process
  BY ProcessTyped DEF GoodImage, Image
<1>2. new.procs = ps
  BY <1>1 DEF RunIn, Image
<1>3. /\ DOMAIN ps = DOMAIN img.procs
      /\ ps[pid].posixPID = child /\ ps[pid].state = "Running"
      /\ \A i \in DOMAIN ps : i # pid => ps[i] = img.procs[i]
  BY <1>1 DEF Process
<1>. HIDE DEF new, ps
<1>4. \A i \in DOMAIN new.procs : i # pid => new.procs[i].posixPID \in pids \cup {None}
  BY <1>2, <1>3 DEF KnownPids
<1>5. Positions(new, child) # {} /\ (child \notin pids => Identified(new, child))
  BY <1>2, <1>3, <1>4, NoneNotPosix DEF Identified, Positions
<1>6. KnownPids(new, pids \cup {child})
  BY <1>2, <1>3, <1>4 DEF KnownPids
<1>. QED
  BY <1>5, <1>6 DEF new

\* A process without a POSIX pid is added.
LEMMA AddProcPids ==
  ASSUME NEW img, GoodImage(img), NEW proc \in Process, proc.posixPID = None,
         NEW pids, KnownPids(img, pids), NEW p \in Posix
  PROVE  /\ KnownPids(AddProc(img, proc), pids)
         /\ Identified(img, p) => Identified(AddProc(img, proc), p)
         /\ KeepsPid(img, AddProc(img, proc), p)
<1>. DEFINE new == AddProc(img, proc)
            n   == Len(img.procs) + 1
<1>1. img \in Image /\ img.procs \in Seq(Process)
  BY DEF GoodImage, Image
<1>2. new.procs = Append(img.procs, proc)
  BY <1>1 DEF AddProc, Image
<1>3. /\ DOMAIN new.procs = DOMAIN img.procs \cup {n}
      /\ new.procs[n].posixPID = None
      /\ \A i \in DOMAIN img.procs : new.procs[i] = img.procs[i]
  BY <1>1, <1>2
<1>. HIDE DEF new, n
<1>4. KnownPids(new, pids)
  BY <1>3 DEF KnownPids
<1>5. Identified(img, p) => Identified(new, p)
  BY <1>3, NoneNotPosix DEF Identified
<1>6. KeepsPid(img, new, p)
  BY <1>3, NoneNotPosix DEF KeepsPid, Positions
<1>. QED
  BY <1>4, <1>5, <1>6 DEF new

\* Neither loadFileFS nor forkCopy sets a POSIX pid.
LEMMA FreshPids ==
  /\ \A dir \in Dirs : Loaded(dir).posixPID = None
  /\ \A proc \in Process : ForkCopy(proc).posixPID = None
<1>1. NewProcess \in Process /\ NewProcess.posixPID = None
  BY DEF NewProcess, Process
<1>. QED
  BY <1>1 DEF Loaded, ForkCopy, Process

\* Descriptors come and go without a change to who the processes are.
LEMMA InstallPids ==
  ASSUME NEW img \in Image, NEW pid \in DOMAIN img.procs, NEW e, NEW s, NEW type, NEW d
  PROVE  SamePids(img, FdInstall(img, pid, e, s, type, d))
<1>. DEFINE proc == [img.procs[pid] EXCEPT !.fds = Put(@, s, e)]
<1>1. img \in Image /\ img.procs \in Seq(Process) /\ img.procs[pid] \in Process
  BY ProcessTyped DEF Image
<1>2. FdInstall(img, pid, e, s, type, d).procs = [img.procs EXCEPT ![pid] = proc]
  BY <1>1 DEF FdInstall, Image
<1>3. proc.posixPID = img.procs[pid].posixPID /\ proc.state = img.procs[pid].state
  BY <1>1 DEF Process
<1>. HIDE DEF proc
<1>. QED
  BY <1>1, <1>2, <1>3 DEF SamePids

LEMMA FdClosePids ==
  ASSUME NEW img, GoodImage(img), NEW pid \in DOMAIN img.procs, NEW fd, NEW ok
  PROVE  SamePids(img, FdClose(img, pid, fd, ok))
<1>. DEFINE proc == [img.procs[pid] EXCEPT !.fds = FdRemove(@, fd)]
<1>1. img \in Image /\ img.procs \in Seq(Process) /\ img.procs[pid] \in Process
  BY ProcessTyped DEF GoodImage, Image
<1>2. FdClose(img, pid, fd, ok).procs \in {img.procs, [img.procs EXCEPT ![pid] = proc]}
  BY <1>1 DEF FdClose, Image
<1>3. proc.posixPID = img.procs[pid].posixPID /\ proc.state = img.procs[pid].state
  BY <1>1 DEF Process
<1>. HIDE DEF proc
<1>. QED
  BY <1>1, <1>2, <1>3 DEF SamePids

\* exec puts a new object at the caller's position and runs it as the caller.
LEMMA ExecPids ==
  ASSUME NEW img, GoodImage(img), NEW pid \in DOMAIN img.procs, NEW p \in Posix,
         img.procs[pid].posixPID = p,
         NEW pids, p \in pids, KnownPids(img, pids),
         NEW errs, NEW fresh \in Process
  PROVE  LET freed == ProcessFree(img, pid, errs)
             new   == RunIn([freed EXCEPT !.procs[pid] = fresh], pid, p)
         IN  /\ KnownPids(new, pids) /\ KeepsPid(img, new, p)
             /\ Identified(img, p) => Identified(new, p)
<1>. DEFINE freed  == ProcessFree(img, pid, errs)
            placed == [freed EXCEPT !.procs[pid] = fresh]
            new    == RunIn(placed, pid, p)
            proc   == [fresh EXCEPT !.posixPID = p, !.state = "Running"]
<1>1. img \in Image /\ img.procs \in Seq(Process)
  BY DEF GoodImage, Image
<1>2. freed.procs = [img.procs EXCEPT ![pid] = NewProcess]
  BY <1>1 DEF ProcessFree, Image
<1>3. freed \in Image
  BY ProcessFreeGood DEF GoodImage
<1>. HIDE DEF freed
<1>4. placed.procs = [img.procs EXCEPT ![pid] = fresh] /\ "procs" \in DOMAIN placed
  BY <1>1, <1>2, <1>3 DEF Image
<1>. HIDE DEF placed
<1>5. new.procs = [img.procs EXCEPT ![pid] = proc]
  BY <1>1, <1>4 DEF RunIn
<1>6. proc.posixPID = p /\ proc.state = "Running"
  BY DEF Process
<1>. HIDE DEF proc, new
<1>7. KnownPids(new, pids)
  BY <1>1, <1>5, <1>6 DEF KnownPids
<1>8. Identified(img, p) => Identified(new, p)
  BY <1>1, <1>5, <1>6 DEF Identified
<1>9. KeepsPid(img, new, p)
  BY <1>1, <1>5, <1>6 DEF KeepsPid, Positions
<1>. QED
  BY <1>7, <1>8, <1>9 DEF new, placed, freed

-----------------------------------------------------------------------------
(* Steps.                                                                  *)

\* A successful fork(2).
LEMMA ForkedPids ==
  ASSUME ImagesInv, PidsInv, NEW p \in Posix, NEW child \in Posix,
         NEW parentImage, NEW childImage,
         Forked(p, child, parentImage, childImage),
         KnownPids(parentImage, used),
         p \in Running => /\ KeepsPid(image[p], parentImage, p)
                          /\ Identified(image[p], p) => Identified(parentImage, p),
         KnownPids(childImage, used \cup {child}),
         Positions(childImage, child) # {},
         child \notin used => Identified(childImage, child)
  PROVE  PidsInv' /\ PidsKept
<1>1. /\ child \notin live /\ live' = live \cup {child} /\ used' = used \cup {child}
      /\ reused' = reused \cup ({child} \cap used) /\ (Recycle = FALSE => child \notin used)
      /\ image' = [image EXCEPT ![p] = parentImage, ![child] = childImage]
  BY DEF Forked
<1>2. Daemon \in used' /\ (Recycle = FALSE => reused' = {})
  BY <1>1 DEF PidsInv
<1>3. ASSUME NEW q \in Posix PROVE KnownPids(image'[q], used')
  <2>1. image'[q] = IF q = child THEN childImage ELSE IF q = p THEN parentImage ELSE image[q]
    BY <1>1 DEF ImagesInv
  <2>. QED
    BY <1>1, <2>1 DEF PidsInv, KnownPids
<1>4. ASSUME NEW q \in Running'
      PROVE  Positions(image'[q], q) # {} /\ (q \notin reused' => Identified(image'[q], q))
  <2>1. q = child \/ (q # child /\ q \in Running)
    BY <1>1, <1>4 DEF Running
  <2>2. q \in Posix
    BY <2>1 DEF Running, ImagesInv
  <2>3. image'[q] = IF q = child THEN childImage ELSE IF q = p THEN parentImage ELSE image[q]
    BY <1>1, <2>2 DEF ImagesInv
  <2>4. CASE q = child
    BY <1>1, <2>3, <2>4
  <2>5. CASE q # child /\ q \in Running
    <3>1. Positions(image[q], q) # {} /\ (q \notin reused => Identified(image[q], q))
      BY <2>5 DEF PidsInv
    <3>. QED
      BY <1>1, <2>3, <2>5, <3>1 DEF KeepsPid
  <2>. QED
    BY <2>1, <2>4, <2>5
<1>5. ASSUME NEW q \in Running \cap Running' PROVE KeepsPid(image[q], image'[q], q)
  <2>1. q \in Posix /\ q # child
    BY <1>1, <1>5 DEF Running, ImagesInv
  <2>2. image'[q] = IF q = p THEN parentImage ELSE image[q]
    BY <1>1, <2>1 DEF ImagesInv
  <2>3. KeepsPid(image[q], image[q], q)
    BY DEF KeepsPid
  <2>. QED
    BY <1>5, <2>2, <2>3
<1>. QED
  BY <1>2, <1>3, <1>4, <1>5 DEF PidsInv, PidsKept

\* p's image becomes another that names p where it did.
LEMMA BecomesPids ==
  ASSUME ImagesInv, PidsInv, NEW p \in Posix, NEW img, Becomes(p, img),
         KnownPids(img, used),
         p \in Running => /\ KeepsPid(image[p], img, p)
                          /\ Identified(image[p], p) => Identified(img, p)
  PROVE  PidsInv' /\ PidsKept
<1>1. /\ live' = live /\ used' = used /\ reused' = reused
      /\ image' = [image EXCEPT ![p] = img]
  BY DEF Becomes
<1>2. ASSUME NEW q \in Posix PROVE KnownPids(image'[q], used')
  BY <1>1 DEF PidsInv, ImagesInv
<1>3. ASSUME NEW q \in Running'
      PROVE  Positions(image'[q], q) # {} /\ (q \notin reused' => Identified(image'[q], q))
  <2>1. q \in Running /\ q \in Posix
    BY <1>1, <1>3 DEF Running, ImagesInv
  <2>2. Positions(image[q], q) # {} /\ (q \notin reused => Identified(image[q], q))
    BY <2>1 DEF PidsInv
  <2>3. image'[q] = IF q = p THEN img ELSE image[q]
    BY <1>1, <2>1 DEF ImagesInv
  <2>. QED
    BY <1>1, <2>1, <2>2, <2>3 DEF KeepsPid
<1>4. ASSUME NEW q \in Running \cap Running' PROVE KeepsPid(image[q], image'[q], q)
  <2>1. image'[q] = IF q = p THEN img ELSE image[q]
    BY <1>1, <1>4 DEF Running, ImagesInv
  <2>2. KeepsPid(image[q], image[q], q)
    BY DEF KeepsPid
  <2>. QED
    BY <1>4, <2>1, <2>2
<1>. QED
  BY <1>1, <1>2, <1>3, <1>4 DEF PidsInv, PidsKept

LEMMA EndsPids ==
  ASSUME ImagesInv, PidsInv, NEW p \in Posix, Ends(p) PROVE PidsInv' /\ PidsKept
<1>1. /\ live' = live \ {p} /\ used' = used /\ reused' = reused
      /\ image' = [image EXCEPT ![p] = BootImage]
  BY DEF Ends
<1>2. KnownPids(BootImage, used)
  BY DEF KnownPids, BootImage, NewProcess
<1>3. ASSUME NEW q \in Posix PROVE KnownPids(image'[q], used')
  BY <1>1, <1>2 DEF PidsInv, ImagesInv
<1>4. ASSUME NEW q \in Running'
      PROVE  Positions(image'[q], q) # {} /\ (q \notin reused' => Identified(image'[q], q))
  <2>1. q \in Running /\ q \in Posix /\ q # p
    BY <1>1, <1>4 DEF Running, ImagesInv
  <2>. QED
    BY <1>1, <2>1 DEF PidsInv, ImagesInv
<1>5. ASSUME NEW q \in Running \cap Running' PROVE KeepsPid(image[q], image'[q], q)
  <2>1. image'[q] = image[q]
    BY <1>1, <1>5 DEF Running, ImagesInv
  <2>. QED
    BY <2>1 DEF KeepsPid
<1>. QED
  BY <1>1, <1>3, <1>4, <1>5 DEF PidsInv, PidsKept

LEMMA NoEffectPids == PidsInv /\ NoEffect => PidsInv' /\ PidsKept
  BY DEF PidsInv, PidsKept, KeepsPid, NoEffect, Running

\* What is known of the caller of a system call.
LEMMA CallerPids ==
  ASSUME ImagesInv, PidsInv, NEW p \in Running
  PROVE  p \in Posix /\ p \in used /\ GoodImage(image[p]) /\ KnownPids(image[p], used)
  BY DEF ImagesInv, PidsInv, Running

LEMMA RunForkedPids ==
  ASSUME ImagesInv, PidsInv,
         NEW img, GoodImage(img), KnownPids(img, used), NEW pid \in DOMAIN img.procs,
         RunForked(img, pid)
  PROVE  PidsInv' /\ PidsKept
<1>1. PICK child \in Posix : Forked(Daemon, child, img, RunIn(img, pid, child))
  BY DEF RunForked
<1>3. Daemon \in Posix /\ Daemon \notin Running
  BY VPAssumption DEF Running
<1>4. /\ Positions(RunIn(img, pid, child), child) # {}
      /\ child \notin used => Identified(RunIn(img, pid, child), child)
      /\ KnownPids(RunIn(img, pid, child), used \cup {child})
  BY ChildIdentified
<1>. QED
  BY <1>1, <1>3, <1>4, ForkedPids

LEMMA RunInitPids ==
  ASSUME ImagesInv, PidsInv, RunInit PROVE PidsInv' /\ PidsKept
<1>. DEFINE img == AddProc(image[Daemon], Loaded(SysDir))
<1>1. Daemon \in Posix /\ SysDir \in Dirs
  BY VPAssumption, ImageAssumption
<1>2. GoodImage(image[Daemon]) /\ KnownPids(image[Daemon], used)
  BY <1>1 DEF ImagesInv, PidsInv
<1>3. Loaded(SysDir) \in Process /\ Loaded(SysDir).fds = <<>> /\ Loaded(SysDir).posixPID = None
  BY <1>1, FreshTyped, FreshPids
<1>4. GoodImage(img) /\ Len(img.procs) = Len(image[Daemon].procs) + 1
  BY <1>2, <1>3, AddProcGood
<1>5. KnownPids(img, used)
  BY <1>1, <1>2, <1>3, AddProcPids
<1>6. image[Daemon].procs \in Seq(Process) /\ img.procs \in Seq(Process)
  BY <1>2, <1>4 DEF GoodImage, Image
<1>. HIDE DEF img
<1>7. Len(img.procs) \in DOMAIN img.procs
  BY <1>4, <1>6
<1>8. CASE RunForked(img, Len(img.procs))
  BY <1>4, <1>5, <1>7, <1>8, RunForkedPids
<1>9. CASE Ends(Daemon)
  BY <1>1, <1>9, EndsPids
<1>. QED
  BY <1>8, <1>9 DEF RunInit, img

LEMMA SpawnShellPids ==
  ASSUME ImagesInv, PidsInv, SpawnShell PROVE PidsInv' /\ PidsKept
<1>1. PICK n \in TtyName(image[Daemon]) :
        LET named == [image[Daemon] EXCEPT !.devices[n] = 0]
            added == AddProc(named, Loaded(BinDir))
        IN  \/ \E img \in {named, added} :
                 /\ image' = [image EXCEPT ![Daemon] = img]
                 /\ UNCHANGED <<live, used, reused>>
            \/ RunForked(added, Len(added.procs))
  BY DEF SpawnShell
<1>. DEFINE named == [image[Daemon] EXCEPT !.devices[n] = 0]
            dv    == [image[Daemon].devices EXCEPT ![n] = 0]
            added == AddProc(named, Loaded(BinDir))
<1>2. Daemon \in Posix /\ BinDir \in Dirs /\ Daemon \notin Running
  BY VPAssumption, ImageAssumption DEF Running
<1>3. /\ image[Daemon] \in Image /\ GoodImage(image[Daemon])
      /\ KnownPids(image[Daemon], used)
  BY <1>2 DEF ImagesInv, PidsInv
<1>4. /\ dv \in [Devices -> Nat \cup {-1}]
      /\ image[Daemon].kernel \in [KernelFds -> OpenFile \cup {None}]
      /\ named = [image[Daemon] EXCEPT !.devices = dv, !.kernel = image[Daemon].kernel]
      /\ named.procs = image[Daemon].procs
  BY <1>3 DEF Image
<1>5. GoodImage(named)
  <2>. HIDE DEF named, dv
  <2>. QED
    BY <1>3, <1>4, OutsideGood
<1>6. KnownPids(named, used)
  BY <1>3, <1>4 DEF KnownPids
<1>. HIDE DEF named
<1>7. Loaded(BinDir) \in Process /\ Loaded(BinDir).fds = <<>> /\ Loaded(BinDir).posixPID = None
  BY <1>2, FreshTyped, FreshPids
<1>8. GoodImage(added) /\ Len(added.procs) = Len(named.procs) + 1
  BY <1>5, <1>7, AddProcGood
<1>9. KnownPids(added, used)
  BY <1>2, <1>5, <1>6, <1>7, AddProcPids
<1>10. named.procs \in Seq(Process) /\ added.procs \in Seq(Process)
  BY <1>5, <1>8 DEF GoodImage, Image
<1>. HIDE DEF added
<1>11. Len(added.procs) \in DOMAIN added.procs
  BY <1>8, <1>10
<1>12. CASE RunForked(added, Len(added.procs))
  BY <1>8, <1>9, <1>11, <1>12, RunForkedPids
<1>13. CASE \E img \in {named, added} :
              image' = [image EXCEPT ![Daemon] = img] /\ UNCHANGED <<live, used, reused>>
  <2>1. PICK img \in {named, added} : Becomes(Daemon, img)
    BY <1>13 DEF Becomes
  <2>2. KnownPids(img, used)
    BY <1>6, <1>9
  <2>. QED
    BY <1>2, <2>1, <2>2, BecomesPids
<1>. QED
  BY <1>1, <1>12, <1>13 DEF named, added

LEMMA ForkPids ==
  ASSUME ImagesInv, PidsInv, NEW p \in Running,
         NEW pid \in FindPid(image[p], p), Fork(p, pid)
  PROVE  PidsInv' /\ PidsKept
<1>. DEFINE proc     == ForkCopy(image[p].procs[pid])
            next     == AddProc(image[p], proc)
            childPID == Len(next.procs)
<1>1. p \in Posix /\ GoodImage(image[p]) /\ KnownPids(image[p], used)
  BY CallerPids
<1>2. proc \in Process /\ proc.fds = <<>> /\ proc.posixPID = None
  BY <1>1, CallerTyped, FreshTyped, FreshPids
<1>. HIDE DEF proc
<1>3. GoodImage(next) /\ Len(next.procs) = Len(image[p].procs) + 1
  BY <1>1, <1>2, AddProcGood
<1>4. /\ KnownPids(next, used) /\ KeepsPid(image[p], next, p)
      /\ Identified(image[p], p) => Identified(next, p)
  BY <1>1, <1>2, AddProcPids
<1>5. next.procs \in Seq(Process) /\ image[p].procs \in Seq(Process)
  BY <1>1, <1>3 DEF GoodImage, Image
<1>. HIDE DEF next
<1>6. childPID \in DOMAIN next.procs
  BY <1>3, <1>5
<1>. HIDE DEF childPID
<1>7. ASSUME NEW child \in Posix, Forked(p, child, next, RunIn(next, childPID, child))
      PROVE  PidsInv' /\ PidsKept
  <2>2. /\ Positions(RunIn(next, childPID, child), child) # {}
        /\ child \notin used => Identified(RunIn(next, childPID, child), child)
        /\ KnownPids(RunIn(next, childPID, child), used \cup {child})
    BY <1>3, <1>4, <1>6, ChildIdentified
  <2>. QED
    BY <1>1, <1>4, <1>7, <2>2, ForkedPids
<1>8. CASE NoEffect
  BY <1>8, NoEffectPids
<1>. QED
  BY <1>7, <1>8 DEF Fork, childPID, next, proc

LEMMA ExecCallPids ==
  ASSUME ImagesInv, PidsInv, NEW p \in Running, NEW pid \in FindPid(image[p], p), Exec(p, pid)
  PROVE  PidsInv' /\ PidsKept
<1>1. p \in Posix /\ p \in used /\ GoodImage(image[p]) /\ KnownPids(image[p], used)
  BY CallerPids
<1>2. CASE NoEffect
  BY <1>2, NoEffectPids
<1>3. CASE ~NoEffect
  <2>0. PICK dir \in Dirs,
             errs \in SUBSET (IF CloseFails THEN OpenSlots(image[p], pid) ELSE {}) :
          \E cwd \in SetCwd(dir, image[p].procs[pid].cwd) :
            LET fresh == [Loaded(dir) EXCEPT !.cwd = cwd]
                freed == ProcessFree(image[p], pid, errs)
            IN  Becomes(p, RunIn([freed EXCEPT !.procs[pid] = fresh], pid, p))
    BY <1>3 DEF Exec
  <2>1. PICK cwd \in SetCwd(dir, image[p].procs[pid].cwd) :
          LET fresh == [Loaded(dir) EXCEPT !.cwd = cwd]
              freed == ProcessFree(image[p], pid, errs)
          IN  Becomes(p, RunIn([freed EXCEPT !.procs[pid] = fresh], pid, p))
    BY <2>0
  <2>. DEFINE fresh == [Loaded(dir) EXCEPT !.cwd = cwd]
              freed == ProcessFree(image[p], pid, errs)
              new   == RunIn([freed EXCEPT !.procs[pid] = fresh], pid, p)
  <2>2. /\ pid \in DOMAIN image[p].procs /\ image[p].procs[pid].posixPID = p
        /\ cwd \in Dirs \cup {None}
    BY <1>1, <2>1, CallerTyped DEF SetCwd
  <2>3. fresh \in Process
    <3>. DEFINE proc == Loaded(dir)
                c    == cwd
    <3>1. proc \in Process /\ c \in Dirs \cup {None}
      BY <2>2, FreshTyped
    <3>. HIDE DEF proc, c
    <3>2. [proc EXCEPT !.cwd = c] \in Process
      BY <3>1 DEF Process
    <3>. QED
      BY <3>2 DEF proc, c
  <2>. HIDE DEF fresh
  <2>4. /\ KnownPids(new, used) /\ KeepsPid(image[p], new, p)
        /\ Identified(image[p], p) => Identified(new, p)
    BY <1>1, <2>2, <2>3, ExecPids
  <2>5. Becomes(p, new)
    BY <2>1 DEF fresh
  <2>. HIDE DEF new
  <2>. QED
    BY <1>1, <2>4, <2>5, BecomesPids
<1>. QED
  BY <1>2, <1>3

\* A call that leaves the identities in its caller's table alone.
LEMMA SamePidsStep ==
  ASSUME ImagesInv, PidsInv, NEW p \in Running,
         NEW img, SamePids(image[p], img), Becomes(p, img)
  PROVE  PidsInv' /\ PidsKept
<1>1. p \in Posix /\ KnownPids(image[p], used)
  BY CallerPids
<1>2. /\ KnownPids(img, used) /\ KeepsPid(image[p], img, p)
      /\ Identified(image[p], p) => Identified(img, p)
  BY <1>1, SamePidsKeeps
<1>. QED
  BY <1>1, <1>2, BecomesPids

LEMMA OpenPids ==
  ASSUME ImagesInv, PidsInv, NEW p \in Running, NEW pid \in FindPid(image[p], p), Open(p, pid)
  PROVE  PidsInv' /\ PidsKept
<1>1. /\ p \in Posix /\ image[p] \in Image /\ pid \in DOMAIN image[p].procs
  BY CallerPids, CallerTyped
<1>2. PICK path \in Files \cup Devices, flags \in {O_RDONLY, O_RDWR}, mode \in {0} :
        FdOpenFdFromPath(p, pid, path, mode, flags)
  BY DEF Open
<1>3. CASE NoEffect
  BY <1>3, NoEffectPids
<1>4. CASE path \in Devices /\ ~NoEffect
  <2>. DEFINE counted == [image[p] EXCEPT !.devices[path] = @ + 1]
  <2>1. FdOpenFdFromDevice(p, pid, path)
    BY <1>2, <1>4 DEF FdOpenFdFromPath
  <2>2. /\ image[p].devices[path] \in 0 .. MaxRefs - 1
        /\ \/ Becomes(p, counted)
           \/ \E e \in FdCreate(image[p]), s \in FdSlot(image[p].procs[pid].fds) :
                Becomes(p, FdInstall(counted, pid, e, s, "Device", path))
    BY <1>4, <2>1 DEF FdOpenFdFromDevice
  <2>3. image[p].devices[path] + 1 \in Nat
    BY <2>2
  <2>4. counted \in Image /\ counted.procs = image[p].procs
    BY <1>1, <1>4, <2>3 DEF Image
  <2>. HIDE DEF counted
  <2>5. SamePids(image[p], counted)
    BY <2>4 DEF SamePids
  <2>6. ASSUME NEW e, NEW s
        PROVE  SamePids(image[p], FdInstall(counted, pid, e, s, "Device", path))
    <3>1. SamePids(counted, FdInstall(counted, pid, e, s, "Device", path))
      BY <1>1, <2>4, InstallPids
    <3>. QED
      BY <2>4, <3>1 DEF SamePids
  <2>. QED
    BY <2>2, <2>5, <2>6, SamePidsStep
<1>5. CASE path \notin Devices /\ ~NoEffect
  <2>1. FdOpenFdFromFile(p, pid, path, O_RDONLY)
    BY <1>2, <1>5 DEF FdOpenFdFromPath, O_RDONLY
  <2>2. PICK k \in KernelFd(image[p]), e \in FdCreate(image[p]),
             s \in FdSlot(image[p].procs[pid].fds) :
          LET opened == [image[p] EXCEPT !.kernel[k] = [file |-> path, access |-> O_RDONLY]]
          IN  Becomes(p, FdInstall(opened, pid, e, s, "Fd", k))
    BY <1>5, <2>1 DEF FdOpenFdFromFile
  <2>. DEFINE opened == [image[p] EXCEPT !.kernel[k] = [file |-> path, access |-> O_RDONLY]]
  <2>3. k \in KernelFds /\ path \in Files
    BY <1>5 DEF KernelFd, First
  <2>4. opened \in Image /\ opened.procs = image[p].procs
    BY <1>1, <2>3 DEF Image, OpenFile
  <2>5. Becomes(p, FdInstall(opened, pid, e, s, "Fd", k))
    BY <2>2
  <2>. HIDE DEF opened
  <2>6. SamePids(opened, FdInstall(opened, pid, e, s, "Fd", k))
    BY <1>1, <2>4, InstallPids
  <2>7. SamePids(image[p], FdInstall(opened, pid, e, s, "Fd", k))
    BY <2>4, <2>6 DEF SamePids
  <2>. QED
    BY <2>5, <2>7, SamePidsStep
<1>. QED
  BY <1>3, <1>4, <1>5

LEMMA ClosePids ==
  ASSUME ImagesInv, PidsInv, NEW p \in Running, NEW pid \in FindPid(image[p], p), Close(p, pid)
  PROVE  PidsInv' /\ PidsKept
<1>1. /\ p \in Posix /\ GoodImage(image[p]) /\ pid \in DOMAIN image[p].procs
  BY CallerPids, CallerTyped
<1>2. NoEffect \/ \E fd, ok : Becomes(p, FdClose(image[p], pid, fd, ok))
  BY DEF Close
<1>3. CASE NoEffect
  BY <1>3, NoEffectPids
<1>4. ASSUME NEW fd, NEW ok, Becomes(p, FdClose(image[p], pid, fd, ok)) PROVE PidsInv' /\ PidsKept
  <2>1. SamePids(image[p], FdClose(image[p], pid, fd, ok))
    BY <1>1, FdClosePids
  <2>. QED
    BY <1>4, <2>1, SamePidsStep
<1>. QED
  BY <1>2, <1>3, <1>4

LEMMA ChDirPids ==
  ASSUME ImagesInv, PidsInv, NEW p \in Running, NEW pid \in FindPid(image[p], p), ChDir(p, pid)
  PROVE  PidsInv' /\ PidsKept
<1>1. /\ p \in Posix /\ image[p] \in Image /\ pid \in DOMAIN image[p].procs
      /\ image[p].procs \in Seq(Process) /\ image[p].procs[pid] \in Process
  BY CallerPids, CallerTyped
<1>2. CASE NoEffect
  BY <1>2, NoEffectPids
<1>3. ASSUME NEW dir \in Dirs, Becomes(p, [image[p] EXCEPT !.procs[pid].cwd = dir])
      PROVE  PidsInv' /\ PidsKept
  <2>. DEFINE new  == [image[p] EXCEPT !.procs[pid].cwd = dir]
              proc == [image[p].procs[pid] EXCEPT !.cwd = dir]
  <2>1. new.procs = [image[p].procs EXCEPT ![pid] = proc]
    BY <1>1 DEF Image
  <2>2. /\ proc.posixPID = image[p].procs[pid].posixPID
        /\ proc.state = image[p].procs[pid].state
    BY <1>1 DEF Process
  <2>. HIDE DEF proc
  <2>3. SamePids(image[p], new)
    <3>. HIDE DEF new
    <3>. QED
      BY <1>1, <2>1, <2>2 DEF SamePids
  <2>. QED
    BY <1>3, <2>3, SamePidsStep
<1>. QED
  BY <1>2, <1>3 DEF ChDir

-----------------------------------------------------------------------------
(* The theorem.                                                            *)

LEMMA CallerInit == Init => CallerInv
<1>. SUFFICES ASSUME Init PROVE CallerInv
  OBVIOUS
<1>1. KnownPids(BootImage, used)
  BY DEF KnownPids, BootImage, NewProcess
<1>2. Running = {}
  BY DEF Init, Running
<1>3. PidsInv
  BY <1>1, <1>2 DEF Init, PidsInv
<1>. QED
  BY <1>3, InvInit DEF CallerInv

LEMMA CallerNext ==
  CallerInv /\ [Next]_vars => CallerInv' /\ PidsKept
<1>. SUFFICES ASSUME DescriptorsInv, PidsInv, [Next]_vars PROVE PidsInv' /\ PidsKept
  BY InvNext DEF CallerInv
<1>0. ImagesInv
  BY InvParts
<1>1. CASE RunInit
  BY <1>0, <1>1, RunInitPids
<1>2. CASE SpawnShell
  BY <1>0, <1>2, SpawnShellPids
<1>3. CASE DaemonExits
  BY <1>0, <1>3, EndsPids, VPAssumption DEF DaemonExits
<1>4. ASSUME NEW p \in Running, SysCall(p) PROVE PidsInv' /\ PidsKept
  <2>1. PICK pid \in FindPid(image[p], p) :
          \/ Fork(p, pid) \/ Exec(p, pid) \/ Open(p, pid) \/ Read(p, pid) \/ Write(p, pid)
          \/ Close(p, pid) \/ GetPid(p, pid) \/ GetCwd(p, pid) \/ ChDir(p, pid) \/ Exit(p, pid)
    BY <1>4 DEF SysCall
  <2>2. CASE Fork(p, pid)
    BY <1>0, <2>2, ForkPids
  <2>3. CASE Exec(p, pid)
    BY <1>0, <2>3, ExecCallPids
  <2>4. CASE Open(p, pid)
    BY <1>0, <2>4, OpenPids
  <2>5. CASE Close(p, pid)
    BY <1>0, <2>5, ClosePids
  <2>6. CASE ChDir(p, pid)
    BY <1>0, <2>6, ChDirPids
  <2>7. CASE Read(p, pid) \/ Write(p, pid) \/ GetPid(p, pid) \/ GetCwd(p, pid)
    BY <2>7, NoEffectPids DEF Read, Write, GetPid, GetCwd
  <2>8. CASE Exit(p, pid)
    BY <1>0, <2>8, EndsPids, CallerPids DEF Exit
  <2>. QED
    BY <2>1, <2>2, <2>3, <2>4, <2>5, <2>6, <2>7, <2>8
<1>5. ASSUME NEW p \in Running, Crash(p) PROVE PidsInv' /\ PidsKept
  BY <1>0, <1>5, EndsPids, CallerPids DEF Crash
<1>6. CASE UNCHANGED vars
  BY <1>6 DEF vars, PidsInv, PidsKept, KeepsPid, Running
<1>. QED
  BY <1>1, <1>2, <1>3, <1>4, <1>5, <1>6 DEF Next

\* A system call is always executed for a process of the caller's table that is
\* running under the caller's POSIX pid, never for nobody; and for the process
\* that made it, never for an ancestor whose pid is still in the table, unless the
\* caller's pid is one the kernel had handed out before (server.cpp:30-43).
THEOREM CallerAlwaysIdentified == Spec => []CallerIdentified
<1>1. CallerInv => CallerIdentified
  <2>. SUFFICES ASSUME PidsInv, ImagesInv, NEW p \in Running
                PROVE  LET hits == {i \in DOMAIN image[p].procs : image[p].procs[i].posixPID = p}
                       IN  /\ hits # {}
                           /\ \A i \in hits : image[p].procs[i].state = "Running"
                           /\ p \notin reused => \E i \in hits : hits = {i}
    BY InvParts DEF CallerInv, CallerIdentified
  <2>1. p \in Posix /\ KnownPids(image[p], used)
    BY CallerPids
  <2>2. Positions(image[p], p) # {}
    BY DEF PidsInv
  <2>3. \A i \in Positions(image[p], p) : image[p].procs[i].state = "Running"
    BY <2>1, NoneNotPosix DEF KnownPids, Positions
  <2>4. ASSUME p \notin reused
        PROVE  \E i \in Positions(image[p], p) : Positions(image[p], p) = {i}
    <3>1. PICK i \in DOMAIN image[p].procs :
            /\ image[p].procs[i].posixPID = p
            /\ \A j \in DOMAIN image[p].procs : image[p].procs[j].posixPID = p => j = i
      BY <2>4 DEF PidsInv, Identified
    <3>2. i \in Positions(image[p], p) /\ Positions(image[p], p) = {i}
      BY <3>1 DEF Positions
    <3>. QED
      BY <3>2
  <2>. QED
    BY <2>2, <2>3, <2>4 DEF Positions
<1>2. CallerInv /\ [Next]_vars => CallerInv'
  BY CallerNext
<1>. QED
  BY <1>1, <1>2, CallerInit, PTL DEF Spec

\* A program keeps its platform pid as long as it lives, through exec too, and
\* whatever its relatives do (server.cpp:228 replaces the object in place).
THEOREM PidAlwaysStable == Spec => PidStable
<1>1. ASSUME CallerInv, [Next]_vars, NEW p \in Running \cap Running'
      PROVE  FindPid(image'[p], p) = FindPid(image[p], p)
  <2>1. Positions(image'[p], p) = Positions(image[p], p)
    BY <1>1, CallerNext DEF PidsKept, KeepsPid
  <2>2. \A img : FindPid(img, p) = First(Positions(img, p))
    BY DEF FindPid, Positions
  <2>. QED
    BY <2>1, <2>2
<1>2. CallerInv /\ [Next]_vars =>
        [\A p \in Running \cap Running' : FindPid(image[p], p)' = FindPid(image[p], p)]_vars
  BY <1>1
<1>3. CallerInv /\ [Next]_vars => CallerInv'
  BY CallerNext
<1>. QED
  BY <1>2, <1>3, CallerInit, PTL DEF Spec, PidStable

-----------------------------------------------------------------------------
(* That no descriptor is lost: entries, kernel descriptors and device        *)
(* references of an image account for each other.                            *)
(*                                                                           *)
(* Every step changes an image in one of six ways, whoever takes it          *)
(* (ImageStep); it is enough to follow the books through those.              *)

\* The slot-free half, which holds whatever close(2) reports: an open kernel
\* descriptor has an entry.
Recorded(img) ==
  \A k \in KernelFds : img.kernel[k] # None =>
    \E e \in FdEntriesOf(img) : img.fdEntries[e].d = k

OpenOn(img, n) ==
  {e \in DOMAIN img.fdEntries : img.fdEntries[e].type = "Device" /\ img.fdEntries[e].d = n}

\* A device counts its entries.
Covered(img) ==
  \A n \in Devices : OpenOn(img, n) # {} => img.devices[n] >= Cardinality(OpenOn(img, n))

InSlot(img, e) ==
  \E i \in DOMAIN img.procs : \E s \in OpenSlots(img, i) : img.procs[i].fds[s] = e

\* The other half, for a kernel whose close(2) does not fail: entries are held
\* by a slot, once, and files' entries by numbers of their own.
Owned(img) ==
  /\ \A e \in DOMAIN img.fdEntries : img.fdEntries[e].type # "NULL" =>
       InSlot(img, e) /\ img.fdEntries[e].refCount = 1
  /\ \A e, f \in FdEntriesOf(img) :
       /\ img.kernel[img.fdEntries[e].d] # None
       /\ img.fdEntries[e].d = img.fdEntries[f].d => e = f

Sound(img) == Recorded(img) /\ Covered(img) /\ (CloseFails = FALSE => Owned(img))

-----------------------------------------------------------------------------
(* The ways to change an image.                                            *)

\* The tables stay, and so do the descriptors of each process; devices may be
\* registered or counted.
Keeps(img, new) ==
  /\ new.fdEntries = img.fdEntries /\ new.kernel = img.kernel
  /\ \A n \in Devices : new.devices[n] >= img.devices[n]
  /\ \A i \in DOMAIN img.procs : i \in DOMAIN new.procs /\ new.procs[i].fds = img.procs[i].fds

\* open of a file, of a device.
OpensFile(img, new) ==
  \E pid \in DOMAIN img.procs, e \in FdCreate(img), k \in KernelFd(img), f \in OpenFile :
    \E s \in FdSlot(img.procs[pid].fds) :
      new = FdInstall([img EXCEPT !.kernel[k] = f], pid, e, s, "Fd", k)

OpensDevice(img, new) ==
  \E pid \in DOMAIN img.procs, e \in FdCreate(img), n \in Devices :
    \E s \in FdSlot(img.procs[pid].fds) :
      /\ img.devices[n] # -1
      /\ new = FdInstall([img EXCEPT !.devices[n] = @ + 1], pid, e, s, "Device", n)

\* close of a slot's descriptor.
Closes(img, new) ==
  \E pid \in DOMAIN img.procs, err \in BOOLEAN :
    \E s \in OpenSlots(img, pid) :
      LET fd == img.procs[pid].fds[s] IN
      /\ err => CloseFails
      /\ new = FdClose(img, pid, fd, KernelCloses(img, FdGet(img, fd), err))

\* exec: all that the process has open goes.
Replaces(img, new) ==
  \E pid \in DOMAIN img.procs, proc \in Process :
    \E errs \in SUBSET OpenSlots(img, pid) :
      /\ errs # {} => CloseFails
      /\ proc.fds = <<>>
      /\ new = [ProcessFree(img, pid, errs) EXCEPT !.procs[pid] = proc]

ImageStep(img, new) ==
  \/ new = BootImage
  \/ Keeps(img, new)
  \/ OpensFile(img, new)
  \/ OpensDevice(img, new)
  \/ Closes(img, new)
  \/ Replaces(img, new)

-----------------------------------------------------------------------------
(* What they do to the books.                                              *)

\* The entries of a device are finitely many.
LEMMA OpenOnFinite ==
  ASSUME NEW img \in Image, NEW n
  PROVE  IsFiniteSet(OpenOn(img, n)) /\ Cardinality(OpenOn(img, n)) \in Nat
<1>1. Len(img.fdEntries) \in Nat /\ DOMAIN img.fdEntries = 1 .. Len(img.fdEntries)
  BY DEF Image
<1>2. IsFiniteSet(DOMAIN img.fdEntries)
  <2>1. 1 \in Int /\ Len(img.fdEntries) \in Int
    BY <1>1
  <2>2. IsFiniteSet(1 .. Len(img.fdEntries))
    BY <2>1, FS_Interval
  <2>. QED
    BY <1>1, <2>2
<1>3. OpenOn(img, n) \in SUBSET DOMAIN img.fdEntries
  BY DEF OpenOn
<1>. QED
  BY <1>2, <1>3, FS_Subset, FS_CardinalityType

\* A file's entry names a number of the kernel.
LEMMA FdEntryNumber ==
  ASSUME NEW img \in Image, NEW e \in FdEntriesOf(img)
  PROVE  img.fdEntries[e].d \in KernelFds
<1>1. img.fdEntries[e] \in FdEntry /\ img.fdEntries[e].type = "Fd"
  BY DEF Image, FdEntriesOf
<1>. QED
  BY <1>1 DEF FdEntry, NullEntry

\* The count of a device.
LEMMA CountTyped ==
  ASSUME NEW img \in Image, NEW n \in Devices
  PROVE  img.devices[n] \in Int /\ (img.devices[n] # -1 => img.devices[n] \in Nat)
<1>. DEFINE dv == img.devices
<1>1. dv \in [Devices -> Nat \cup {-1}]
  BY DEF Image
<1>. HIDE DEF dv
<1>2. dv[n] \in Nat \cup {-1}
  BY <1>1
<1>3. dv[n] \in Int /\ (dv[n] # -1 => dv[n] \in Nat)
  BY <1>2
<1>. QED
  BY <1>3 DEF dv

\* What the kernel has for an open number is not None.
LEMMA NoneNoFile == \A f \in OpenFile : f # None
  BY ImageAssumption

LEMMA BootSound == Sound(BootImage)
  BY DEF Sound, Recorded, Covered, Owned, OpenOn, FdEntriesOf, BootImage

LEMMA KeepsSound ==
  ASSUME NEW img \in Image, Sound(img), NEW new \in Image, Keeps(img, new)
  PROVE  Sound(new)
<1>1. Recorded(new)
  BY DEF Sound, Recorded, FdEntriesOf, Keeps
<1>2. Covered(new)
  <2>. SUFFICES ASSUME NEW n \in Devices, OpenOn(new, n) # {}
                PROVE  new.devices[n] >= Cardinality(OpenOn(new, n))
    BY DEF Covered
  <2>1. OpenOn(new, n) = OpenOn(img, n)
    BY DEF OpenOn, Keeps
  <2>2. img.devices[n] >= Cardinality(OpenOn(img, n))
    BY <2>1 DEF Sound, Covered
  <2>3. img.devices[n] \in Int /\ new.devices[n] \in Int
    BY CountTyped
  <2>4. Cardinality(OpenOn(img, n)) \in Nat
    BY OpenOnFinite
  <2>. QED
    BY <2>1, <2>2, <2>3, <2>4 DEF Keeps
<1>3. ASSUME CloseFails = FALSE PROVE Owned(new)
  <2>1. Owned(img)
    BY <1>3 DEF Sound
  <2>2. \A e : InSlot(img, e) => InSlot(new, e)
    BY DEF InSlot, OpenSlots, Keeps
  <2>. QED
    BY <2>1, <2>2 DEF Owned, FdEntriesOf, Keeps
<1>. QED
  BY <1>1, <1>2, <1>3 DEF Sound

\* entry e is new, in a slot, and the only change to entries and slots.
Installed(img, new, e, entry) ==
  /\ e \in DOMAIN new.fdEntries /\ new.fdEntries[e] = entry
  /\ \A f \in DOMAIN new.fdEntries :
       f # e => f \in DOMAIN img.fdEntries /\ new.fdEntries[f] = img.fdEntries[f]
  /\ \A f \in DOMAIN img.fdEntries :
       f \in DOMAIN new.fdEntries /\ (f = e => img.fdEntries[f].type = "NULL")
  /\ InSlot(new, e)
  /\ \A f : InSlot(img, f) => InSlot(new, f)

\* Entry e, in use by nothing, and the free slot s of process pid are all that
\* changes in the tables.
InstallChanges(img, new, pid, e, s, entry) ==
  LET fds == img.procs[pid].fds
  IN  /\ e \in 1 .. Len(img.fdEntries) + 1
      /\ e \in DOMAIN img.fdEntries => img.fdEntries[e].type = "NULL"
      /\ s \in 1 .. Len(fds) + 1
      /\ s \in DOMAIN fds => fds[s] = 0
      /\ new.kernel = img.kernel /\ new.devices = img.devices
      /\ DOMAIN new.fdEntries = DOMAIN img.fdEntries \cup {e}
      /\ \A f \in DOMAIN new.fdEntries :
           new.fdEntries[f] = IF f = e THEN entry ELSE img.fdEntries[f]
      /\ DOMAIN new.procs = DOMAIN img.procs
      /\ \A i \in DOMAIN img.procs \ {pid} : new.procs[i].fds = img.procs[i].fds
      /\ new.procs[pid].cwd = img.procs[pid].cwd
      /\ DOMAIN new.procs[pid].fds = DOMAIN fds \cup {s}
      /\ \A t \in DOMAIN new.procs[pid].fds :
           new.procs[pid].fds[t] = IF t = s THEN e ELSE fds[t]

\* That is what FdInstall does.
LEMMA InstallDetails ==
  ASSUME NEW img \in Image, NEW pid \in DOMAIN img.procs,
         NEW e \in FdCreate(img), NEW s \in FdSlot(img.procs[pid].fds), NEW type, NEW d
  PROVE  InstallChanges(img, FdInstall(img, pid, e, s, type, d), pid, e, s,
                        [type |-> type, refCount |-> 1, d |-> d])
<1>. DEFINE new   == FdInstall(img, pid, e, s, type, d)
            entry == [type |-> type, refCount |-> 1, d |-> d]
            fds   == img.procs[pid].fds
            left  == Put(fds, s, e)
            es    == Put(img.fdEntries, e, entry)
            ps    == [img.procs EXCEPT ![pid].fds = left]
<1>1. /\ img.procs \in Seq(Process) /\ img.fdEntries \in Seq(FdEntry) /\ fds \in Seq(Nat)
      /\ img.procs[pid] \in Process
  BY ProcessTyped DEF Image
<1>2. /\ e \in 1 .. Len(img.fdEntries) + 1
      /\ e \in DOMAIN img.fdEntries => img.fdEntries[e].type = "NULL"
  BY DEF FdCreate, First
<1>3. /\ s \in 1 .. Len(fds) + 1
      /\ s \in DOMAIN fds => fds[s] = 0
  BY DEF FdSlot, First
<1>4. /\ new.fdEntries = es /\ new.procs = ps
      /\ new.kernel = img.kernel /\ new.devices = img.devices
  <2>1. new = [img EXCEPT !.fdEntries = es, !.procs = ps]
    BY DEF FdInstall
  <2>. HIDE DEF es, ps, new
  <2>. QED
    BY <2>1 DEF Image
<1>5. /\ DOMAIN es = DOMAIN img.fdEntries \cup {e}
      /\ \A f \in DOMAIN es : es[f] = IF f = e THEN entry ELSE img.fdEntries[f]
  <2>. DEFINE old == img.fdEntries
  <2>1. old \in Seq(FdEntry) /\ e \in 1 .. Len(old) + 1
    BY <1>1, <1>2
  <2>. HIDE DEF entry, old
  <2>2. /\ DOMAIN Put(old, e, entry) = DOMAIN old \cup {e}
        /\ \A f \in DOMAIN Put(old, e, entry) : Put(old, e, entry)[f] = IF f = e THEN entry ELSE old[f]
    BY <2>1 DEF Put
  <2>. QED
    BY <2>2 DEF old
<1>6. /\ DOMAIN left = DOMAIN fds \cup {s}
      /\ \A t \in DOMAIN left : left[t] = IF t = s THEN e ELSE fds[t]
  <2>. HIDE DEF fds
  <2>. QED
    BY <1>1, <1>3 DEF Put
<1>7. /\ DOMAIN ps = DOMAIN img.procs
      /\ \A i \in DOMAIN img.procs : ps[i].fds = IF i = pid THEN left ELSE img.procs[i].fds
      /\ ps[pid].cwd = img.procs[pid].cwd
  <2>. HIDE DEF left
  <2>1. /\ [img.procs[pid] EXCEPT !.fds = left].fds = left
        /\ [img.procs[pid] EXCEPT !.fds = left].cwd = img.procs[pid].cwd
    BY <1>1 DEF Process
  <2>. QED
    BY <1>1, <2>1
<1>8. /\ DOMAIN new.procs[pid].fds = DOMAIN fds \cup {s}
      /\ \A t \in DOMAIN new.procs[pid].fds : new.procs[pid].fds[t] = IF t = s THEN e ELSE fds[t]
  <2>1. new.procs[pid].fds = left
    BY <1>4, <1>7
  <2>. HIDE DEF new, left
  <2>. QED BY <1>6, <2>1
<1>. HIDE DEF new, entry, fds, left, es, ps
<1>9. /\ DOMAIN new.fdEntries = DOMAIN img.fdEntries \cup {e}
      /\ \A f \in DOMAIN new.fdEntries : new.fdEntries[f] = IF f = e THEN entry ELSE img.fdEntries[f]
      /\ DOMAIN new.procs = DOMAIN img.procs
      /\ \A i \in DOMAIN img.procs \ {pid} : new.procs[i].fds = img.procs[i].fds
      /\ new.procs[pid].cwd = img.procs[pid].cwd
  BY <1>4, <1>5, <1>7
<1>10. InstallChanges(img, new, pid, e, s, entry)
  BY <1>2, <1>3, <1>4, <1>8, <1>9 DEF fds, InstallChanges
<1>. QED BY <1>10 DEF new, entry

\* fdCreate gives a position that is not in use, fdAdd a slot that is free.
LEMMA InstallShape ==
  ASSUME NEW img \in Image, NEW pid \in DOMAIN img.procs,
         NEW e \in FdCreate(img), NEW s \in FdSlot(img.procs[pid].fds), NEW type, NEW d
  PROVE  LET new == FdInstall(img, pid, e, s, type, d)
         IN  /\ Installed(img, new, e, [type |-> type, refCount |-> 1, d |-> d])
             /\ new.kernel = img.kernel /\ new.devices = img.devices
<1>. DEFINE new   == FdInstall(img, pid, e, s, type, d)
            entry == [type |-> type, refCount |-> 1, d |-> d]
            fds   == img.procs[pid].fds
<1>0. InstallChanges(img, new, pid, e, s, entry)
  BY InstallDetails
<1>. HIDE DEF new, entry
<1>1. /\ e \in 1 .. Len(img.fdEntries) + 1 /\ (e \in DOMAIN img.fdEntries => img.fdEntries[e].type = "NULL")
      /\ s \in DOMAIN fds => fds[s] = 0
      /\ new.kernel = img.kernel /\ new.devices = img.devices
  BY <1>0 DEF InstallChanges
<1>2. /\ DOMAIN new.fdEntries = DOMAIN img.fdEntries \cup {e}
      /\ \A f \in DOMAIN new.fdEntries : new.fdEntries[f] = IF f = e THEN entry ELSE img.fdEntries[f]
  BY <1>0 DEF InstallChanges
<1>3. /\ DOMAIN new.procs = DOMAIN img.procs
      /\ \A i \in DOMAIN img.procs \ {pid} : new.procs[i].fds = img.procs[i].fds
      /\ DOMAIN new.procs[pid].fds = DOMAIN fds \cup {s}
      /\ \A t \in DOMAIN new.procs[pid].fds : new.procs[pid].fds[t] = IF t = s THEN e ELSE fds[t]
  BY <1>0 DEF InstallChanges
<1>4. InSlot(new, e)
  <2>1. s \in OpenSlots(new, pid) /\ new.procs[pid].fds[s] = e
    BY <1>1, <1>3 DEF OpenSlots
  <2>. QED
    BY <1>3, <2>1 DEF InSlot
<1>5. ASSUME NEW f, InSlot(img, f) PROVE InSlot(new, f)
  <2>0. PICK i \in DOMAIN img.procs : \E t \in OpenSlots(img, i) : img.procs[i].fds[t] = f
    BY <1>5 DEF InSlot
  <2>1. PICK t \in OpenSlots(img, i) : img.procs[i].fds[t] = f
    BY <2>0
  <2>2. t \in OpenSlots(new, i) /\ new.procs[i].fds[t] = f
    BY <1>1, <1>3, <2>1 DEF OpenSlots
  <2>. QED
    BY <1>3, <2>1, <2>2 DEF InSlot
<1>6. Installed(img, new, e, entry)
  BY <1>1, <1>2, <1>4, <1>5 DEF Installed
<1>. QED
  BY <1>1, <1>6 DEF new, entry

\* The books after open of a file: its number was closed, so no entry had it
\* unless a failed close(2) left one.
LEMMA OpensFileSound ==
  ASSUME NEW img \in Image, Sound(img), NEW new \in Image, OpensFile(img, new)
  PROVE  Sound(new)
<1>1. PICK pid \in DOMAIN img.procs, e \in FdCreate(img), k \in KernelFd(img), f \in OpenFile :
        \E s \in FdSlot(img.procs[pid].fds) :
          new = FdInstall([img EXCEPT !.kernel[k] = f], pid, e, s, "Fd", k)
  BY DEF OpensFile
<1>. DEFINE opened == [img EXCEPT !.kernel[k] = f]
            entry  == [type |-> "Fd", refCount |-> 1, d |-> k]
<1>2. PICK s \in FdSlot(img.procs[pid].fds) : new = FdInstall(opened, pid, e, s, "Fd", k)
  BY <1>1
<1>3. k \in KernelFds /\ img.kernel[k] = None
  BY DEF KernelFd, First
<1>4. /\ opened \in Image
      /\ opened.procs = img.procs /\ opened.fdEntries = img.fdEntries
      /\ opened.devices = img.devices
      /\ \A j \in KernelFds : opened.kernel[j] = IF j = k THEN f ELSE img.kernel[j]
  BY <1>3 DEF Image
<1>5. e \in FdCreate(opened)
  BY <1>4 DEF FdCreate
<1>6. Installed(opened, new, e, entry) /\ new.kernel = opened.kernel /\ new.devices = img.devices
  <2>. HIDE DEF opened
  <2>. QED
    BY <1>2, <1>4, <1>5, InstallShape
<1>7. \A g : InSlot(img, g) => InSlot(opened, g)
  BY <1>4 DEF InSlot, OpenSlots
<1>8. f # None
  BY NoneNoFile
<1>. HIDE DEF opened
<1>9. Recorded(new)
  <2>. SUFFICES ASSUME NEW j \in KernelFds, new.kernel[j] # None
                PROVE  \E g \in FdEntriesOf(new) : new.fdEntries[g].d = j
    BY DEF Recorded
  <2>1. CASE j = k
    BY <1>6, <2>1 DEF Installed, FdEntriesOf
  <2>2. CASE j # k
    <3>1. PICK g \in FdEntriesOf(img) : img.fdEntries[g].d = j
      BY <1>4, <1>6, <2>2 DEF Sound, Recorded
    <3>. QED
      BY <1>4, <1>6, <3>1 DEF Installed, FdEntriesOf
  <2>. QED
    BY <2>1, <2>2
<1>10. Covered(new)
  <2>1. \A n : OpenOn(new, n) = OpenOn(img, n)
    BY <1>4, <1>6 DEF OpenOn, Installed
  <2>. QED
    BY <1>6, <2>1 DEF Sound, Covered
<1>11. ASSUME CloseFails = FALSE PROVE Owned(new)
  <2>0. Owned(img)
    BY <1>11 DEF Sound
  <2>1. ASSUME NEW g \in DOMAIN new.fdEntries, new.fdEntries[g].type # "NULL"
        PROVE  InSlot(new, g) /\ new.fdEntries[g].refCount = 1
    <3>1. CASE g = e
      BY <1>6, <3>1 DEF Installed
    <3>2. CASE g # e
      BY <1>4, <1>6, <1>7, <2>0, <2>1, <3>2 DEF Installed, Owned
    <3>. QED
      BY <3>1, <3>2
  <2>2. ASSUME NEW g \in FdEntriesOf(new)
        PROVE  \/ g = e /\ new.fdEntries[g].d = k
               \/ /\ g # e /\ g \in FdEntriesOf(img) /\ new.fdEntries[g].d = img.fdEntries[g].d
                  /\ new.fdEntries[g].d # k
    <3>1. CASE g = e
      BY <1>6, <3>1 DEF Installed
    <3>2. CASE g # e
      <4>1. g \in FdEntriesOf(img) /\ new.fdEntries[g] = img.fdEntries[g]
        BY <1>4, <1>6, <3>2 DEF Installed, FdEntriesOf
      <4>. QED
        BY <1>3, <2>0, <3>2, <4>1 DEF Owned
    <3>. QED
      BY <3>1, <3>2
  <2>3. ASSUME NEW g \in FdEntriesOf(new) PROVE new.kernel[new.fdEntries[g].d] # None
    <3>1. new.fdEntries[g].d \in KernelFds
      BY FdEntryNumber
    <3>. QED
      BY <1>4, <1>6, <1>8, <2>0, <2>2, <3>1 DEF Owned
  <2>. QED
    BY <2>0, <2>1, <2>2, <2>3 DEF Owned
<1>. QED
  BY <1>9, <1>10, <1>11 DEF Sound

\* The books after open of a device, which counts it first.
LEMMA OpensDeviceSound ==
  ASSUME NEW img \in Image, Sound(img), NEW new \in Image, OpensDevice(img, new)
  PROVE  Sound(new)
<1>1. PICK pid \in DOMAIN img.procs, e \in FdCreate(img), n \in Devices :
        \E s \in FdSlot(img.procs[pid].fds) :
          /\ img.devices[n] # -1
          /\ new = FdInstall([img EXCEPT !.devices[n] = @ + 1], pid, e, s, "Device", n)
  BY DEF OpensDevice
<1>. DEFINE counted == [img EXCEPT !.devices[n] = @ + 1]
            entry   == [type |-> "Device", refCount |-> 1, d |-> n]
<1>2. PICK s \in FdSlot(img.procs[pid].fds) :
        img.devices[n] # -1 /\ new = FdInstall(counted, pid, e, s, "Device", n)
  BY <1>1
<1>3. img.devices[n] \in Nat /\ img.devices[n] + 1 \in Nat
  BY <1>2, CountTyped
<1>4. /\ counted \in Image
      /\ counted.procs = img.procs /\ counted.fdEntries = img.fdEntries
      /\ counted.kernel = img.kernel
      /\ \A m \in Devices : counted.devices[m] = IF m = n THEN img.devices[n] + 1 ELSE img.devices[m]
  BY <1>3 DEF Image
<1>5. e \in FdCreate(counted)
  BY <1>4 DEF FdCreate
<1>6. Installed(counted, new, e, entry) /\ new.kernel = img.kernel /\ new.devices = counted.devices
  <2>. HIDE DEF counted
  <2>. QED
    BY <1>2, <1>4, <1>5, InstallShape
<1>7. \A g : InSlot(img, g) => InSlot(counted, g)
  BY <1>4 DEF InSlot, OpenSlots
<1>. HIDE DEF counted
<1>8. FdEntriesOf(new) = FdEntriesOf(img)
      /\ \A g \in FdEntriesOf(img) : new.fdEntries[g] = img.fdEntries[g]
  BY <1>4, <1>6 DEF Installed, FdEntriesOf
<1>9. Recorded(new)
  BY <1>6, <1>8 DEF Sound, Recorded
<1>10. Covered(new)
  <2>. SUFFICES ASSUME NEW m \in Devices, OpenOn(new, m) # {}
                PROVE  new.devices[m] >= Cardinality(OpenOn(new, m))
    BY DEF Covered
  <2>1. CASE m # n
    <3>1. OpenOn(new, m) = OpenOn(img, m)
      BY <1>4, <1>6, <2>1 DEF OpenOn, Installed
    <3>. QED
      BY <1>4, <1>6, <2>1, <3>1 DEF Sound, Covered
  <2>2. CASE m = n
    <3>1. OpenOn(new, n) = OpenOn(img, n) \cup {e}
      BY <1>4, <1>6 DEF OpenOn, Installed
    <3>2. IsFiniteSet(OpenOn(img, n)) /\ Cardinality(OpenOn(img, n)) \in Nat
      BY OpenOnFinite
    <3>3. Cardinality(OpenOn(new, n)) \in Nat
          /\ Cardinality(OpenOn(new, n)) <= Cardinality(OpenOn(img, n)) + 1
      <4>1. /\ IsFiniteSet(OpenOn(img, n) \cup {e})
            /\ Cardinality(OpenOn(img, n) \cup {e}) =
                 IF e \in OpenOn(img, n) THEN Cardinality(OpenOn(img, n))
                                         ELSE Cardinality(OpenOn(img, n)) + 1
        BY <3>2, FS_AddElement, Zenon
      <4>. QED
        BY <3>1, <3>2, <4>1
    <3>4. img.devices[n] >= Cardinality(OpenOn(img, n))
      <4>1. CASE OpenOn(img, n) = {}
        BY <1>3, <4>1, FS_EmptySet
      <4>2. CASE OpenOn(img, n) # {}
        BY <4>2 DEF Sound, Covered
      <4>. QED
        BY <4>1, <4>2
    <3>5. new.devices[n] = img.devices[n] + 1
      BY <1>4, <1>6
    <3>. QED
      BY <1>3, <2>2, <3>2, <3>3, <3>4, <3>5
  <2>. QED
    BY <2>1, <2>2
<1>11. ASSUME CloseFails = FALSE PROVE Owned(new)
  <2>1. Owned(img)
    BY <1>11 DEF Sound
  <2>2. ASSUME NEW g \in DOMAIN new.fdEntries, new.fdEntries[g].type # "NULL"
        PROVE  InSlot(new, g) /\ new.fdEntries[g].refCount = 1
    <3>1. CASE g = e
      BY <1>6, <3>1 DEF Installed
    <3>2. CASE g # e
      BY <1>4, <1>6, <1>7, <2>1, <2>2, <3>2 DEF Installed, Owned
    <3>. QED
      BY <3>1, <3>2
  <2>. QED
    BY <1>6, <1>8, <2>1, <2>2 DEF Owned
<1>. QED
  BY <1>9, <1>10, <1>11 DEF Sound

\* Entries only leave the table, and those that stay keep what they lead to.
Shrinks(img, new) ==
  /\ DOMAIN new.fdEntries = DOMAIN img.fdEntries
  /\ \A e \in DOMAIN img.fdEntries :
       \/ new.fdEntries[e] = NullEntry
       \/ new.fdEntries[e].type = img.fdEntries[e].type /\ new.fdEntries[e].d = img.fdEntries[e].d

\* Where no entry is added, a device that is not counted down stays covered.
LEMMA ShrinksCovered ==
  ASSUME NEW img \in Image, Covered(img), NEW new \in Image,
         Shrinks(img, new), new.devices = img.devices
  PROVE  Covered(new)
<1>. SUFFICES ASSUME NEW n \in Devices, OpenOn(new, n) # {}
              PROVE  new.devices[n] >= Cardinality(OpenOn(new, n))
  BY DEF Covered
<1>1. OpenOn(new, n) \in SUBSET OpenOn(img, n)
  BY DEF OpenOn, Shrinks, NullEntry
<1>2. IsFiniteSet(OpenOn(img, n)) /\ Cardinality(OpenOn(img, n)) \in Nat
      /\ Cardinality(OpenOn(new, n)) \in Nat
  BY OpenOnFinite
<1>3. Cardinality(OpenOn(new, n)) <= Cardinality(OpenOn(img, n))
  BY <1>1, <1>2, FS_Subset, Zenon
<1>4. img.devices[n] >= Cardinality(OpenOn(img, n))
  BY <1>1 DEF Covered
<1>5. img.devices[n] \in Int
  BY CountTyped
<1>. QED
  BY <1>2, <1>3, <1>4, <1>5

\* Entries that leave took their kernel numbers along.
LEMMA ShrinksRecorded ==
  ASSUME NEW img \in Image, Recorded(img), NEW new \in Image, Shrinks(img, new),
         \A k \in KernelFds : new.kernel[k] # None =>
           /\ img.kernel[k] # None
           /\ \A e \in FdEntriesOf(img) :
                img.fdEntries[e].d = k => new.fdEntries[e].type = "Fd"
  PROVE  Recorded(new)
  BY DEF Recorded, Shrinks, FdEntriesOf, NullEntry

\* Entry gone and its number, if it has one, leave; nothing else loses a slot.
Dropped(img, new, gone) ==
  /\ DOMAIN new.fdEntries = DOMAIN img.fdEntries
  /\ \A e \in DOMAIN img.fdEntries :
       new.fdEntries[e] = IF e \in gone THEN NullEntry ELSE img.fdEntries[e]
  /\ \A k \in KernelFds : new.kernel[k] =
       IF \E e \in gone : img.fdEntries[e].type = "Fd" /\ img.fdEntries[e].d = k
       THEN None ELSE img.kernel[k]
  /\ \A e : e \notin gone /\ InSlot(img, e) => InSlot(new, e)

\* The books after entries left together with their slots and numbers.
LEMMA DroppedSound ==
  ASSUME NEW img \in Image, Sound(img), NEW new \in Image,
         NEW gone \in SUBSET DOMAIN img.fdEntries, Dropped(img, new, gone),
         new.devices = img.devices
  PROVE  Sound(new)
<1>1. Shrinks(img, new)
  BY DEF Dropped, Shrinks
<1>2. Covered(new)
  BY <1>1, ShrinksCovered DEF Sound
<1>3. Recorded(new)
  <2>1. ASSUME NEW k \in KernelFds, new.kernel[k] # None
        PROVE  /\ img.kernel[k] # None
               /\ \A e \in FdEntriesOf(img) :
                    img.fdEntries[e].d = k => new.fdEntries[e].type = "Fd"
    <3>1. /\ new.kernel[k] = img.kernel[k]
          /\ \A e \in gone : ~(img.fdEntries[e].type = "Fd" /\ img.fdEntries[e].d = k)
      BY <2>1 DEF Dropped
    <3>. QED
      BY <2>1, <3>1 DEF Dropped, FdEntriesOf
  <2>. QED
    BY <1>1, <2>1, ShrinksRecorded DEF Sound
<1>4. ASSUME CloseFails = FALSE PROVE Owned(new)
  <2>1. Owned(img)
    BY <1>4 DEF Sound
  <2>2. ASSUME NEW e \in DOMAIN new.fdEntries, new.fdEntries[e].type # "NULL"
        PROVE  /\ InSlot(new, e) /\ new.fdEntries[e].refCount = 1
               /\ e \in DOMAIN img.fdEntries /\ e \notin gone /\ new.fdEntries[e] = img.fdEntries[e]
    BY <2>1, <2>2 DEF Dropped, Owned, NullEntry
  <2>3. ASSUME NEW e \in FdEntriesOf(new)
        PROVE  /\ e \in FdEntriesOf(img) /\ new.fdEntries[e] = img.fdEntries[e]
               /\ new.kernel[new.fdEntries[e].d] # None
    <3>1. /\ e \in FdEntriesOf(img) /\ new.fdEntries[e] = img.fdEntries[e] /\ e \notin gone
      BY <2>2 DEF FdEntriesOf
    <3>2. img.fdEntries[e].d \in KernelFds
      BY <3>1, FdEntryNumber
    <3>3. \A f \in gone : img.fdEntries[f].type = "Fd" => img.fdEntries[f].d # img.fdEntries[e].d
      BY <2>1, <3>1 DEF Owned, FdEntriesOf
    <3>4. new.kernel[img.fdEntries[e].d] = img.kernel[img.fdEntries[e].d]
      BY <3>2, <3>3 DEF Dropped
    <3>. QED
      BY <2>1, <3>1, <3>4 DEF Owned
  <2>. QED
    BY <2>1, <2>2, <2>3 DEF Owned
<1>. QED
  BY <1>2, <1>3, <1>4 DEF Sound

\* The books after close.
LEMMA ClosesSound ==
  ASSUME NEW img \in Image, GoodImage(img), Sound(img), NEW new \in Image, Closes(img, new)
  PROVE  Sound(new)
<1>1. PICK pid \in DOMAIN img.procs, err \in BOOLEAN :
        \E s \in OpenSlots(img, pid) :
          LET fd == img.procs[pid].fds[s] IN
          /\ err => CloseFails
          /\ new = FdClose(img, pid, fd, KernelCloses(img, FdGet(img, fd), err))
  BY DEF Closes
<1>2. PICK s \in OpenSlots(img, pid) :
        LET fd == img.procs[pid].fds[s] IN
        /\ err => CloseFails
        /\ new = FdClose(img, pid, fd, KernelCloses(img, FdGet(img, fd), err))
  BY <1>1
<1>. DEFINE fds   == img.procs[pid].fds
            fd    == fds[s]
            entry == FdGet(img, fd)
            ok    == KernelCloses(img, entry, err)
            left  == FdRemove(fds, fd)
            ps    == [img.procs EXCEPT ![pid].fds = left]
            kn    == KernelClose(img, entry)
<1>3. new = FdClose(img, pid, fd, ok) /\ (err => CloseFails)
  BY <1>2
<1>4. /\ img.procs \in Seq(Process) /\ img.fdEntries \in Seq(FdEntry)
      /\ img.procs[pid] \in Process
      /\ fd \in DOMAIN img.fdEntries /\ entry = img.fdEntries[fd]
      /\ entry \in FdEntry /\ entry.type # "NULL"
  BY ProcessTyped, SlotTyped DEF Image, FdGet
<1>5. /\ DOMAIN left = DOMAIN fds
      /\ \A t \in DOMAIN fds : left[t] = IF t = s THEN 0 ELSE fds[t]
  BY FdRemoveProperties
<1>6. /\ DOMAIN ps = DOMAIN img.procs
      /\ \A i \in DOMAIN img.procs : ps[i].fds = IF i = pid THEN left ELSE img.procs[i].fds
  <2>. HIDE DEF left
  <2>1. [img.procs[pid] EXCEPT !.fds = left].fds = left
    BY <1>4 DEF Process
  <2>. QED
    BY <1>4, <2>1
<1>7. /\ kn \in [KernelFds -> OpenFile \cup {None}]
      /\ \A k \in KernelFds :
           kn[k] = IF entry.type = "Fd" /\ entry.d = k THEN None ELSE img.kernel[k]
  <2>1. img.kernel \in [KernelFds -> OpenFile \cup {None}]
    BY DEF Image
  <2>. HIDE DEF entry
  <2>. QED
    BY <2>1 DEF KernelClose
\* The slot goes, with the entry or not.
<1>8. CASE entry.refCount <= 1 /\ ok
  <2>. DEFINE es == [img.fdEntries EXCEPT ![fd] = NullEntry]
  <2>1. new = [img EXCEPT !.kernel = kn, !.fdEntries = es, !.procs = ps]
    BY <1>3, <1>8 DEF FdClose
  <2>2. DOMAIN es = DOMAIN img.fdEntries
        /\ \A e \in DOMAIN img.fdEntries : es[e] = IF e = fd THEN NullEntry ELSE img.fdEntries[e]
    BY <1>4
  <2>. HIDE DEF es, ps, kn, ok, left
  <2>3. /\ new.procs = ps /\ new.fdEntries = es /\ new.kernel = kn
        /\ new.devices = img.devices
    BY <2>1 DEF Image
  <2>4. ASSUME NEW e, e # fd, InSlot(img, e) PROVE InSlot(new, e)
    <3>1. PICK i \in DOMAIN img.procs : \E t \in OpenSlots(img, i) : img.procs[i].fds[t] = e
      BY <2>4 DEF InSlot
    <3>2. PICK t \in OpenSlots(img, i) : img.procs[i].fds[t] = e
      BY <3>1
    <3>3. t \in OpenSlots(new, i) /\ new.procs[i].fds[t] = e
      BY <1>5, <1>6, <2>3, <2>4, <3>2 DEF OpenSlots
    <3>. QED
      BY <1>6, <2>3, <3>3 DEF InSlot
  <2>5. Dropped(img, new, {fd})
    <3>. HIDE DEF fd, entry
    <3>. QED
      BY <1>4, <1>7, <2>2, <2>3, <2>4 DEF Dropped
  <2>. QED
    BY <1>4, <2>3, <2>5, DroppedSound
<1>9. CASE entry.refCount <= 1 /\ ~ok
  <2>1. new = [img EXCEPT !.kernel = kn]
    BY <1>3, <1>9 DEF FdClose
  <2>. HIDE DEF kn, ok, ps, left
  <2>2. /\ new.procs = img.procs /\ new.fdEntries = img.fdEntries /\ new.kernel = kn
        /\ new.devices = img.devices
    BY <2>1 DEF Image
  <2>. HIDE DEF entry, fd
  <2>3. Recorded(new)
    BY <1>7, <2>2 DEF Sound, Recorded, FdEntriesOf
  <2>4. Shrinks(img, new)
    BY <2>2 DEF Shrinks
  <2>5. Covered(new)
    BY <2>2, <2>4, ShrinksCovered DEF Sound
  <2>6. CloseFails # FALSE
    <3>. SUFFICES ASSUME CloseFails = FALSE PROVE FALSE
      OBVIOUS
    <3>1. Owned(img) /\ ~err
      BY <1>3 DEF Sound
    <3>2. entry.type = "Fd" => img.kernel[entry.d] # None
      BY <1>4, <3>1 DEF Owned, FdEntriesOf
    <3>. QED
      BY <1>9, <3>1, <3>2 DEF KernelCloses, ok
  <2>. QED
    BY <2>3, <2>5, <2>6 DEF Sound
<1>10. CASE ~(entry.refCount <= 1)
  <2>. DEFINE en == [entry EXCEPT !.refCount = @ - 1]
              es == [img.fdEntries EXCEPT ![fd] = en]
  <2>1. new = [img EXCEPT !.fdEntries = es, !.procs = ps]
    BY <1>3, <1>4, <1>10 DEF FdClose
  <2>2. en.type = entry.type /\ en.d = entry.d
    BY <1>4 DEF FdEntry, NullEntry
  <2>. HIDE DEF en
  <2>3. DOMAIN es = DOMAIN img.fdEntries
        /\ \A e \in DOMAIN img.fdEntries : es[e] = IF e = fd THEN en ELSE img.fdEntries[e]
    BY <1>4
  <2>. HIDE DEF es, ps, kn, ok, left
  <2>4. new.fdEntries = es /\ new.kernel = img.kernel /\ new.devices = img.devices
    BY <2>1 DEF Image
  <2>. HIDE DEF entry, fd
  <2>5. Shrinks(img, new)
    BY <1>4, <2>2, <2>3, <2>4 DEF Shrinks
  <2>6. \A e \in FdEntriesOf(img) : new.fdEntries[e].type = "Fd"
    BY <1>4, <2>2, <2>3, <2>4 DEF FdEntriesOf
  <2>7. Recorded(new) /\ Covered(new)
    BY <2>4, <2>5, <2>6, ShrinksRecorded, ShrinksCovered DEF Sound
  <2>8. CloseFails # FALSE
    <3>. SUFFICES ASSUME CloseFails = FALSE PROVE FALSE
      OBVIOUS
    <3>1. entry.refCount = 1
      BY <1>4 DEF Sound, Owned
    <3>. QED
      BY <1>10, <3>1
  <2>. QED
    BY <2>7, <2>8 DEF Sound
<1>. QED
  BY <1>8, <1>9, <1>10

\* The books after exec.  Entries whose close(2) failed stay without a slot;
\* if none can fail, all that the process held goes.
LEMMA ReplacesSound ==
  ASSUME NEW img \in Image, GoodImage(img), Sound(img), NEW new \in Image, Replaces(img, new)
  PROVE  Sound(new)
<1>1. PICK pid \in DOMAIN img.procs, proc \in Process :
        \E errs \in SUBSET OpenSlots(img, pid) :
          /\ errs # {} => CloseFails
          /\ proc.fds = <<>>
          /\ new = [ProcessFree(img, pid, errs) EXCEPT !.procs[pid] = proc]
  BY DEF Replaces
<1>2. PICK errs \in SUBSET OpenSlots(img, pid) :
          /\ errs # {} => CloseFails
          /\ proc.fds = <<>>
          /\ new = [ProcessFree(img, pid, errs) EXCEPT !.procs[pid] = proc]
  BY <1>1
<1>. DEFINE fds  == img.procs[pid].fds
            freed == FreedEntries(img, pid, errs)
            held == {img.fdEntries[fds[s]] : s \in OpenSlots(img, pid)}
            es   == [e \in DOMAIN img.fdEntries |->
                       IF e \in freed THEN NullEntry ELSE img.fdEntries[e]]
            kn   == [k \in KernelFds |->
                       IF \E en \in held : en.type = "Fd" /\ en.d = k THEN None
                                                                   ELSE img.kernel[k]]
            ps   == [img.procs EXCEPT ![pid] = proc]
<1>3. img.procs \in Seq(Process) /\ img.fdEntries \in Seq(FdEntry)
  BY DEF Image
<1>4. /\ new.procs = ps /\ new.fdEntries = es /\ new.kernel = kn /\ new.devices = img.devices
  <2>. DEFINE ps0 == [img.procs EXCEPT ![pid] = NewProcess]
  <2>1. ProcessFree(img, pid, errs) = [img EXCEPT !.fdEntries = es, !.kernel = kn, !.procs = ps0]
    BY DEF ProcessFree
  <2>2. [ps0 EXCEPT ![pid] = proc] = ps
    BY <1>3
  <2>. HIDE DEF es, kn, ps, ps0
  <2>3. new = [img EXCEPT !.fdEntries = es, !.kernel = kn, !.procs = [ps0 EXCEPT ![pid] = proc]]
    BY <1>2, <2>1 DEF Image
  <2>. QED
    BY <2>2, <2>3 DEF Image
<1>5. \A s \in OpenSlots(img, pid) :
        /\ s \in DOMAIN fds /\ fds[s] \in DOMAIN img.fdEntries
        /\ img.fdEntries[fds[s]].type # "NULL"
  BY SlotTyped
<1>6. \A e \in freed : e \in DOMAIN img.fdEntries /\ \E s \in OpenSlots(img, pid) : e = fds[s]
  BY <1>5 DEF FreedEntries
<1>7. /\ DOMAIN es = DOMAIN img.fdEntries
      /\ \A e \in DOMAIN img.fdEntries :
           es[e] = IF e \in freed THEN NullEntry ELSE img.fdEntries[e]
  OBVIOUS
<1>8. \A k \in KernelFds : kn[k] =
        IF \E s \in OpenSlots(img, pid) :
             img.fdEntries[fds[s]].type = "Fd" /\ img.fdEntries[fds[s]].d = k
        THEN None ELSE img.kernel[k]
  OBVIOUS
<1>9. ASSUME NEW e, InSlot(img, e), \A s \in OpenSlots(img, pid) : e # fds[s]
      PROVE  InSlot(new, e)
  <2>1. PICK i \in DOMAIN img.procs : \E t \in OpenSlots(img, i) : img.procs[i].fds[t] = e
    BY <1>9 DEF InSlot
  <2>2. i # pid
    BY <1>9, <2>1
  <2>3. i \in DOMAIN new.procs /\ new.procs[i] = img.procs[i]
    BY <1>3, <1>4, <2>2
  <2>. QED
    BY <2>1, <2>3 DEF InSlot, OpenSlots
<1>. HIDE DEF freed, es, kn, ps, held
<1>10. CASE CloseFails = FALSE
  <2>. DEFINE gone == {fds[s] : s \in OpenSlots(img, pid)}
  <2>1. Owned(img) /\ errs = {}
    BY <1>2, <1>10 DEF Sound
  <2>2. ASSUME NEW s \in OpenSlots(img, pid)
        PROVE  KernelCloses(img, img.fdEntries[fds[s]], s \in errs)
    BY <1>5, <2>1 DEF KernelCloses, Owned, FdEntriesOf
  <2>3. ASSUME NEW s \in OpenSlots(img, pid), NEW t \in OpenSlots(img, pid), t < s,
               img.fdEntries[fds[t]].type = "Fd", img.fdEntries[fds[s]].type = "Fd"
        PROVE  img.fdEntries[fds[t]].d # img.fdEntries[fds[s]].d
    <3>1. s \in Nat /\ t \in Nat
      <4>1. DOMAIN fds = 1 .. Len(fds) /\ Len(fds) \in Nat
        <5>1. fds \in Seq(Nat)
          BY ProcessTyped
        <5>. HIDE DEF fds
        <5>. QED
          BY <5>1
      <4>2. OpenSlots(img, pid) \subseteq DOMAIN fds
        BY DEF OpenSlots
      <4>3. s \in DOMAIN fds /\ t \in DOMAIN fds
        BY <4>2
      <4>. HIDE DEF fds
      <4>. QED
        BY <4>1, <4>3
    <3>2. fds[t] # fds[s]
      BY <2>3, <3>1 DEF GoodImage, UniqueSlots
    <3>. QED
      BY <1>5, <2>1, <2>3, <3>2 DEF Owned, FdEntriesOf
  <2>4. freed = gone
    BY <2>2, <2>3 DEF FreedEntries, freed
  <2>5. gone \in SUBSET DOMAIN img.fdEntries
    BY <1>5
  <2>6. Dropped(img, new, gone)
    BY <1>4, <1>7, <1>8, <1>9, <2>4 DEF Dropped
  <2>. QED
    BY <1>4, <2>5, <2>6, DroppedSound
<1>11. CASE CloseFails # FALSE
  <2>1. Shrinks(img, new)
    BY <1>4, <1>7 DEF Shrinks
  <2>2. ASSUME NEW k \in KernelFds, new.kernel[k] # None
        PROVE  /\ img.kernel[k] # None
               /\ \A e \in FdEntriesOf(img) :
                    img.fdEntries[e].d = k => new.fdEntries[e].type = "Fd"
    <3>1. /\ new.kernel[k] = img.kernel[k]
          /\ \A s \in OpenSlots(img, pid) :
               ~(img.fdEntries[fds[s]].type = "Fd" /\ img.fdEntries[fds[s]].d = k)
      BY <1>4, <1>8, <2>2
    <3>2. ASSUME NEW e \in FdEntriesOf(img), img.fdEntries[e].d = k
          PROVE  new.fdEntries[e].type = "Fd"
      <4>1. e \notin freed
        BY <1>6, <3>1, <3>2 DEF FdEntriesOf
      <4>. QED
        BY <1>4, <1>7, <4>1 DEF FdEntriesOf
    <3>. QED
      BY <2>2, <3>1, <3>2
  <2>3. Recorded(new) /\ Covered(new)
    BY <1>4, <2>1, <2>2, ShrinksRecorded, ShrinksCovered DEF Sound
  <2>. QED
    BY <1>11, <2>3 DEF Sound
<1>. QED
  BY <1>10, <1>11

\* Whichever way an image changed, its books are right again.
LEMMA ImageStepSound ==
  ASSUME NEW img \in Image, GoodImage(img), Sound(img), NEW new \in Image, ImageStep(img, new)
  PROVE  Sound(new)
  BY BootSound, KeepsSound, OpensFileSound, OpensDeviceSound, ClosesSound, ReplacesSound
     DEF ImageStep

-----------------------------------------------------------------------------
(* Every step changes images in these ways only.                           *)

\* Each image comes from one that was there, the child's from its parent's.
Steps == \A q \in Posix : \E r \in Posix : ImageStep(image[r], image'[q])

LEMMA KeepsSelf == ASSUME NEW img \in Image PROVE Keeps(img, img)
<1>1. \A n \in Devices : img.devices[n] >= img.devices[n]
  BY CountTyped
<1>. QED
  BY <1>1 DEF Keeps

LEMMA AddProcKeeps ==
  ASSUME NEW img \in Image, NEW proc
  PROVE  Keeps(img, AddProc(img, proc))
<1>. DEFINE ps == Append(img.procs, proc)
<1>1. img.procs \in Seq(Process) /\ Keeps(img, img)
  BY KeepsSelf DEF Image
<1>2. \A i \in DOMAIN img.procs : i \in DOMAIN ps /\ ps[i] = img.procs[i]
  BY <1>1
<1>3. AddProc(img, proc) = [img EXCEPT !.procs = ps]
  BY DEF AddProc
<1>. HIDE DEF ps
<1>. QED
  BY <1>1, <1>2, <1>3 DEF Keeps, Image

LEMMA RunInKeeps ==
  ASSUME NEW img \in Image, NEW pid \in DOMAIN img.procs, NEW posix
  PROVE  Keeps(img, RunIn(img, pid, posix))
<1>. DEFINE proc == [img.procs[pid] EXCEPT !.posixPID = posix, !.state = "Running"]
            ps   == [img.procs EXCEPT ![pid] = proc]
<1>1. img.procs \in Seq(Process) /\ Keeps(img, img)
  BY KeepsSelf DEF Image
<1>2. proc.fds = img.procs[pid].fds
  BY <1>1 DEF Process
<1>3. RunIn(img, pid, posix) = [img EXCEPT !.procs = ps]
  BY <1>1 DEF RunIn
<1>. HIDE DEF proc
<1>4. \A i \in DOMAIN img.procs : i \in DOMAIN ps /\ ps[i].fds = img.procs[i].fds
  BY <1>1, <1>2
<1>. HIDE DEF ps
<1>. QED
  BY <1>1, <1>3, <1>4 DEF Keeps, Image

LEMMA KeepsTransitive ==
  ASSUME NEW a \in Image, NEW b \in Image, NEW c \in Image, Keeps(a, b), Keeps(b, c)
  PROVE  Keeps(a, c)
<1>1. ASSUME NEW n \in Devices PROVE c.devices[n] >= a.devices[n]
  <2>1. a.devices[n] \in Int /\ b.devices[n] \in Int /\ c.devices[n] \in Int
    BY CountTyped
  <2>2. b.devices[n] >= a.devices[n] /\ c.devices[n] >= b.devices[n]
    BY DEF Keeps
  <2>. QED
    BY <2>1, <2>2
<1>. QED
  BY <1>1 DEF Keeps

LEMMA NoEffectSteps == ImagesInv /\ image' = image => Steps
  BY KeepsSelf DEF ImagesInv, Steps, ImageStep

LEMMA BecomesSteps ==
  ASSUME ImagesInv, NEW p \in Posix, NEW img, Becomes(p, img), ImageStep(image[p], img)
  PROVE  Steps
<1>1. ASSUME NEW q \in Posix PROVE \E r \in Posix : ImageStep(image[r], image'[q])
  <2>1. image'[q] = IF q = p THEN img ELSE image[q]
    BY DEF ImagesInv, Becomes
  <2>2. ImageStep(image[q], image[q])
    BY KeepsSelf DEF ImagesInv, ImageStep
  <2>. QED
    BY <2>1, <2>2
<1>. QED
  BY <1>1 DEF Steps

LEMMA EndsSteps == ASSUME ImagesInv, NEW p \in Posix, Ends(p) PROVE Steps
<1>1. ASSUME NEW q \in Posix PROVE \E r \in Posix : ImageStep(image[r], image'[q])
  <2>1. image'[q] = IF q = p THEN BootImage ELSE image[q]
    BY DEF ImagesInv, Ends
  <2>2. ImageStep(image[q], image[q]) /\ ImageStep(image[q], BootImage)
    BY KeepsSelf DEF ImagesInv, ImageStep
  <2>. QED
    BY <2>1, <2>2
<1>. QED
  BY <1>1 DEF Steps

LEMMA ForkedSteps ==
  ASSUME ImagesInv, NEW p \in Posix, NEW child \in Posix, NEW parentImage, NEW childImage,
         Forked(p, child, parentImage, childImage),
         Keeps(image[p], parentImage), Keeps(image[p], childImage)
  PROVE  Steps
<1>1. ASSUME NEW q \in Posix PROVE \E r \in Posix : ImageStep(image[r], image'[q])
  <2>1. image'[q] = IF q = child THEN childImage ELSE IF q = p THEN parentImage ELSE image[q]
    BY DEF ImagesInv, Forked
  <2>2. ImageStep(image[q], image[q])
    BY KeepsSelf DEF ImagesInv, ImageStep
  <2>3. ImageStep(image[p], parentImage) /\ ImageStep(image[p], childImage)
    BY DEF ImageStep
  <2>. QED
    BY <2>1, <2>2, <2>3
<1>. QED
  BY <1>1 DEF Steps

\* A fork in which the child's process is one that was just added.
LEMMA AddForkSteps ==
  ASSUME ImagesInv, NEW p \in Posix, NEW named \in Image, Keeps(image[p], named),
         NEW proc \in Process, proc.fds = <<>>, GoodImage(named), NEW child \in Posix,
         LET added == AddProc(named, proc)
         IN  Forked(p, child, added, RunIn(added, Len(added.procs), child))
  PROVE  Steps
<1>. DEFINE added == AddProc(named, proc)
            run   == RunIn(added, Len(added.procs), child)
<1>1. GoodImage(added) /\ Len(added.procs) = Len(named.procs) + 1
  BY AddProcGood
<1>2. named.procs \in Seq(Process) /\ added.procs \in Seq(Process) /\ added \in Image
      /\ image[p] \in Image
  BY <1>1 DEF GoodImage, Image, ImagesInv
<1>3. Keeps(named, added)
  BY AddProcKeeps
<1>. HIDE DEF added
<1>4. Len(added.procs) \in DOMAIN added.procs
  BY <1>1, <1>2
<1>5. Keeps(added, run)
  BY <1>2, <1>4, RunInKeeps
<1>6. run \in Image
  BY <1>1, <1>4, RunInGood DEF GoodImage
<1>. HIDE DEF run
<1>7. Keeps(image[p], added) /\ Keeps(image[p], run)
  BY <1>2, <1>3, <1>5, <1>6, KeepsTransitive
<1>. QED
  BY <1>7, ForkedSteps DEF added, run

\* The daemon's steps.
LEMMA RunInitSteps == ASSUME ImagesInv, RunInit PROVE Steps
<1>1. /\ image[Daemon] \in Image /\ GoodImage(image[Daemon]) /\ Keeps(image[Daemon], image[Daemon])
      /\ Loaded(SysDir) \in Process /\ Loaded(SysDir).fds = <<>>
  BY KeepsSelf, FreshTyped, VPAssumption, ImageAssumption DEF ImagesInv
<1>2. CASE Ends(Daemon)
  BY <1>2, EndsSteps, VPAssumption
<1>3. CASE ~Ends(Daemon)
  <2>. DEFINE added == AddProc(image[Daemon], Loaded(SysDir))
  <2>1. PICK child \in Posix :
          Forked(Daemon, child, added, RunIn(added, Len(added.procs), child))
    BY <1>3 DEF RunInit, RunForked
  <2>. QED
    BY <1>1, <2>1, AddForkSteps, VPAssumption
<1>. QED
  BY <1>2, <1>3

LEMMA SpawnShellSteps == ASSUME ImagesInv, SpawnShell PROVE Steps
<1>1. PICK n \in TtyName(image[Daemon]) :
        LET named == [image[Daemon] EXCEPT !.devices[n] = 0]
            added == AddProc(named, Loaded(BinDir))
        IN  \/ \E img \in {named, added} :
                 /\ image' = [image EXCEPT ![Daemon] = img]
                 /\ UNCHANGED <<live, used, reused>>
            \/ RunForked(added, Len(added.procs))
  BY DEF SpawnShell
<1>. DEFINE img   == image[Daemon]
            named == [img EXCEPT !.devices[n] = 0]
            dv    == [img.devices EXCEPT ![n] = 0]
            added == AddProc(named, Loaded(BinDir))
<1>2. /\ img \in Image /\ GoodImage(img) /\ Keeps(img, img)
      /\ Loaded(BinDir) \in Process /\ Loaded(BinDir).fds = <<>>
  BY KeepsSelf, FreshTyped, VPAssumption, ImageAssumption DEF ImagesInv
<1>3. img.devices[n] = -1
  BY DEF TtyName, First
<1>4. /\ dv \in [Devices -> Nat \cup {-1}]
      /\ img.kernel \in [KernelFds -> OpenFile \cup {None}]
      /\ named = [img EXCEPT !.devices = dv, !.kernel = img.kernel]
  BY <1>2 DEF Image
<1>5. ASSUME NEW m \in Devices PROVE named.devices[m] >= img.devices[m]
  <2>1. named.devices[m] = IF m = n THEN 0 ELSE img.devices[m]
    BY <1>2 DEF Image
  <2>2. img.devices[m] >= img.devices[m]
    BY <1>2 DEF Keeps
  <2>. QED
    BY <1>3, <2>1, <2>2
<1>6. GoodImage(named)
  <2>. HIDE DEF named, dv, img
  <2>. QED
    BY <1>2, <1>4, OutsideGood
<1>7. named \in Image /\ Keeps(img, named)
  BY <1>2, <1>5, <1>6 DEF GoodImage, Image, Keeps
<1>. HIDE DEF named
<1>8. added \in Image /\ Keeps(img, added)
  BY <1>2, <1>6, <1>7, AddProcGood, AddProcKeeps, KeepsTransitive DEF GoodImage
<1>9. CASE RunForked(added, Len(added.procs))
  <2>1. PICK child \in Posix :
          Forked(Daemon, child, added, RunIn(added, Len(added.procs), child))
    BY <1>9 DEF RunForked
  <2>. QED
    BY <1>2, <1>6, <1>7, <2>1, AddForkSteps, VPAssumption
<1>10. CASE \E new \in {named, added} :
              image' = [image EXCEPT ![Daemon] = new] /\ UNCHANGED <<live, used, reused>>
  <2>1. PICK new \in {named, added} : Becomes(Daemon, new)
    BY <1>10 DEF Becomes
  <2>2. ImageStep(img, new)
    BY <1>7, <1>8 DEF ImageStep
  <2>. QED
    BY <2>1, <2>2, BecomesSteps, VPAssumption
<1>. QED
  BY <1>1, <1>9, <1>10 DEF named

\* fork and exec.
LEMMA ForkSteps ==
  ASSUME ImagesInv, NEW p \in Posix, NEW pid \in FindPid(image[p], p), Fork(p, pid)
  PROVE  Steps
<1>. DEFINE proc  == ForkCopy(image[p].procs[pid])
            added == AddProc(image[p], proc)
<1>1. /\ image[p] \in Image /\ GoodImage(image[p]) /\ Keeps(image[p], image[p])
      /\ proc \in Process /\ proc.fds = <<>>
  BY CallerTyped, KeepsSelf, FreshTyped
<1>2. CASE NoEffect
  BY <1>2, NoEffectSteps DEF NoEffect
<1>3. CASE ~NoEffect
  <2>1. PICK child \in Posix : Forked(p, child, added, RunIn(added, Len(added.procs), child))
    BY <1>3 DEF Fork
  <2>. HIDE DEF proc
  <2>. QED
    BY <1>1, <2>1, AddForkSteps
<1>. QED
  BY <1>2, <1>3

LEMMA ExecSteps ==
  ASSUME ImagesInv, NEW p \in Posix, NEW pid \in FindPid(image[p], p), Exec(p, pid)
  PROVE  Steps
<1>1. CASE NoEffect
  BY <1>1, NoEffectSteps DEF NoEffect
<1>2. CASE ~NoEffect
  <2>0. PICK dir \in Dirs,
             errs \in SUBSET (IF CloseFails THEN OpenSlots(image[p], pid) ELSE {}) :
          \E cwd \in SetCwd(dir, image[p].procs[pid].cwd) :
            LET fresh == [Loaded(dir) EXCEPT !.cwd = cwd]
                freed == ProcessFree(image[p], pid, errs)
            IN  Becomes(p, RunIn([freed EXCEPT !.procs[pid] = fresh], pid, p))
    BY <1>2 DEF Exec
  <2>1. PICK cwd \in SetCwd(dir, image[p].procs[pid].cwd) :
          LET fresh == [Loaded(dir) EXCEPT !.cwd = cwd]
              freed == ProcessFree(image[p], pid, errs)
          IN  Becomes(p, RunIn([freed EXCEPT !.procs[pid] = fresh], pid, p))
    BY <2>0
  <2>. DEFINE fresh == [Loaded(dir) EXCEPT !.cwd = cwd]
              freed == ProcessFree(image[p], pid, errs)
              proc  == [fresh EXCEPT !.posixPID = p, !.state = "Running"]
  <2>2. image[p] \in Image /\ GoodImage(image[p]) /\ pid \in DOMAIN image[p].procs
        /\ cwd \in Dirs \cup {None}
    BY <2>1, CallerTyped DEF SetCwd
  <2>3. fresh \in Process /\ fresh.fds = <<>>
    <3>. DEFINE new == Loaded(dir)
    <3>1. new \in Process /\ new.fds = <<>>
      BY FreshTyped
    <3>. HIDE DEF new
    <3>2. [new EXCEPT !.cwd = cwd] \in Process /\ [new EXCEPT !.cwd = cwd].fds = <<>>
      BY <2>2, <3>1 DEF Process
    <3>. QED
      BY <3>2 DEF new
  <2>4. proc \in Process /\ proc.fds = <<>>
    <3>. HIDE DEF fresh
    <3>. QED
      BY <2>3 DEF Process
  <2>5. freed \in Image /\ pid \in DOMAIN freed.procs
    BY <2>2, ProcessFreeGood DEF GoodImage
  <2>6. errs \in SUBSET OpenSlots(image[p], pid) /\ (errs # {} => CloseFails)
    OBVIOUS
  <2>. HIDE DEF fresh, freed
  <2>7. RunIn([freed EXCEPT !.procs[pid] = fresh], pid, p) = [freed EXCEPT !.procs[pid] = proc]
    BY <2>5 DEF RunIn, Image
  <2>. HIDE DEF proc
  <2>8. ImageStep(image[p], [freed EXCEPT !.procs[pid] = proc])
    BY <2>2, <2>4, <2>6 DEF ImageStep, Replaces, freed
  <2>. QED
    BY <2>1, <2>7, <2>8, BecomesSteps DEF fresh, freed
<1>. QED
  BY <1>1, <1>2

\* open and close.
LEMMA OpenSteps ==
  ASSUME ImagesInv, NEW p \in Posix, NEW pid \in FindPid(image[p], p), Open(p, pid)
  PROVE  Steps
<1>1. PICK path \in Files \cup Devices, flags \in {O_RDONLY, O_RDWR}, mode \in {0} :
        FdOpenFdFromPath(p, pid, path, mode, flags)
  BY DEF Open
<1>2. pid \in DOMAIN image[p].procs /\ Keeps(image[p], image[p]) /\ image[p] \in Image
  BY CallerTyped, KeepsSelf
<1>3. CASE NoEffect
  BY <1>3, NoEffectSteps DEF NoEffect
<1>4. CASE ~NoEffect /\ path \in Devices
  <2>. DEFINE counted == [image[p] EXCEPT !.devices[path] = @ + 1]
  <2>1. /\ image[p].devices[path] \in 0 .. MaxRefs - 1
        /\ \/ \E e \in FdCreate(image[p]), s \in FdSlot(image[p].procs[pid].fds) :
                Becomes(p, FdInstall(counted, pid, e, s, "Device", path))
           \/ Becomes(p, counted)
    BY <1>1, <1>4 DEF FdOpenFdFromPath, FdOpenFdFromDevice
  <2>2. CASE Becomes(p, counted)
    <3>1. ASSUME NEW m \in Devices PROVE counted.devices[m] >= image[p].devices[m]
      <4>1. counted.devices[m] = IF m = path THEN image[p].devices[m] + 1 ELSE image[p].devices[m]
        BY <1>2, <1>4 DEF Image
      <4>2. image[p].devices[m] \in Int
        BY <1>2, CountTyped
      <4>. QED
        BY <4>1, <4>2
    <3>2. Keeps(image[p], counted)
      BY <1>2, <3>1 DEF Keeps, Image
    <3>. QED
      BY <2>2, <3>2, BecomesSteps DEF ImageStep
  <2>3. CASE \E e \in FdCreate(image[p]), s \in FdSlot(image[p].procs[pid].fds) :
                Becomes(p, FdInstall(counted, pid, e, s, "Device", path))
    <3>1. PICK e \in FdCreate(image[p]), s \in FdSlot(image[p].procs[pid].fds) :
            Becomes(p, FdInstall(counted, pid, e, s, "Device", path))
      BY <2>3
    <3>2. image[p].devices[path] # -1
      BY <2>1
    <3>3. OpensDevice(image[p], FdInstall(counted, pid, e, s, "Device", path))
      BY <1>2, <1>4, <3>2 DEF OpensDevice
    <3>. QED
      BY <3>1, <3>3, BecomesSteps DEF ImageStep
  <2>. QED
    BY <2>1, <2>2, <2>3
<1>5. CASE ~NoEffect /\ path \notin Devices
  <2>. DEFINE f == [file |-> path, access |-> mode]
  <2>1. PICK k \in KernelFd(image[p]), e \in FdCreate(image[p]),
             s \in FdSlot(image[p].procs[pid].fds) :
          Becomes(p, FdInstall([image[p] EXCEPT !.kernel[k] = f], pid, e, s, "Fd", k))
    BY <1>1, <1>5 DEF FdOpenFdFromPath, FdOpenFdFromFile
  <2>2. f \in OpenFile
    BY <1>5 DEF OpenFile, O_RDONLY
  <2>. HIDE DEF f
  <2>3. OpensFile(image[p], FdInstall([image[p] EXCEPT !.kernel[k] = f], pid, e, s, "Fd", k))
    BY <1>2, <2>2 DEF OpensFile
  <2>. QED
    BY <2>1, <2>3, BecomesSteps DEF ImageStep
<1>. QED
  BY <1>3, <1>4, <1>5

LEMMA CloseSteps ==
  ASSUME ImagesInv, NEW p \in Posix, NEW pid \in FindPid(image[p], p), Close(p, pid)
  PROVE  Steps
<1>. DEFINE img == image[p]
            fd(s) == img.procs[pid].fds[s]
<1>1. CASE NoEffect
  BY <1>1, NoEffectSteps DEF NoEffect
<1>2. CASE ~NoEffect
  <2>1. PICK s \in Held(p, pid), err \in (IF CloseFails THEN BOOLEAN ELSE {FALSE}) :
          /\ FdGet(img, fd(s)) # NullEntry
          /\ Becomes(p, FdClose(img, pid, fd(s), KernelCloses(img, FdGet(img, fd(s)), err)))
    BY <1>2 DEF Close
  <2>2. /\ img \in Image /\ pid \in DOMAIN img.procs /\ img.procs[pid].fds \in Seq(Nat)
    BY CallerTyped
  <2>3. s \in OpenSlots(img, pid)
    <3>1. 0 \notin DOMAIN img.fdEntries /\ s \in DOMAIN img.procs[pid].fds
      BY <2>2 DEF Image, Held
    <3>. QED
      BY <2>1, <3>1 DEF OpenSlots, FdGet
  <2>4. err \in BOOLEAN /\ (err => CloseFails)
    OBVIOUS
  <2>5. Closes(img, FdClose(img, pid, fd(s), KernelCloses(img, FdGet(img, fd(s)), err)))
    BY <2>2, <2>3, <2>4 DEF Closes
  <2>. QED
    BY <2>1, <2>5, BecomesSteps DEF ImageStep
<1>. QED
  BY <1>1, <1>2

LEMMA ChDirSteps ==
  ASSUME ImagesInv, NEW p \in Posix, NEW pid \in FindPid(image[p], p), ChDir(p, pid)
  PROVE  Steps
<1>1. CASE NoEffect
  BY <1>1, NoEffectSteps DEF NoEffect
<1>2. CASE ~NoEffect
  <2>1. PICK dir \in Dirs : Becomes(p, [image[p] EXCEPT !.procs[pid].cwd = dir])
    BY <1>2 DEF ChDir
  <2>. DEFINE proc == [image[p].procs[pid] EXCEPT !.cwd = dir]
              ps   == [image[p].procs EXCEPT ![pid] = proc]
  <2>2. /\ image[p] \in Image /\ image[p].procs \in Seq(Process)
        /\ pid \in DOMAIN image[p].procs /\ Keeps(image[p], image[p])
    BY CallerTyped, KeepsSelf
  <2>2a. proc.fds = image[p].procs[pid].fds
    BY CallerTyped DEF Process
  <2>3. [image[p] EXCEPT !.procs[pid].cwd = dir] = [image[p] EXCEPT !.procs = ps]
    OBVIOUS
  <2>. HIDE DEF proc
  <2>4. \A i \in DOMAIN image[p].procs : i \in DOMAIN ps /\ ps[i].fds = image[p].procs[i].fds
    BY <2>2, <2>2a
  <2>. HIDE DEF ps
  <2>5. Keeps(image[p], [image[p] EXCEPT !.procs = ps])
    BY <2>2, <2>4 DEF Keeps, Image
  <2>. QED
    BY <2>1, <2>3, <2>5, BecomesSteps DEF ImageStep
<1>. QED
  BY <1>1, <1>2

\* All steps.
LEMMA NextSteps == ImagesInv /\ [Next]_vars => Steps
<1>. SUFFICES ASSUME ImagesInv, [Next]_vars PROVE Steps
  OBVIOUS
<1>1. CASE RunInit
  BY <1>1, RunInitSteps
<1>2. CASE SpawnShell
  BY <1>2, SpawnShellSteps
<1>3. CASE DaemonExits
  BY <1>3, EndsSteps, VPAssumption DEF DaemonExits
<1>4. ASSUME NEW p \in Running, SysCall(p) PROVE Steps
  <2>1. p \in Posix
    BY DEF Running, ImagesInv
  <2>2. PICK pid \in FindPid(image[p], p) :
          \/ Fork(p, pid) \/ Exec(p, pid) \/ Open(p, pid) \/ Close(p, pid) \/ ChDir(p, pid)
          \/ Exit(p, pid) \/ NoEffect
    BY <1>4 DEF SysCall, Read, Write, GetPid, GetCwd
  <2>3. CASE NoEffect
    BY <2>3, NoEffectSteps DEF NoEffect
  <2>4. CASE Exit(p, pid)
    BY <2>1, <2>4, EndsSteps DEF Exit
  <2>. QED
    BY <2>1, <2>2, <2>3, <2>4, ForkSteps, ExecSteps, OpenSteps, CloseSteps, ChDirSteps
<1>5. ASSUME NEW p \in Running, Crash(p) PROVE Steps
  <2>1. p \in Posix
    BY DEF Running, ImagesInv
  <2>. QED
    BY <1>5, <2>1, EndsSteps DEF Crash
<1>6. CASE UNCHANGED vars
  BY <1>6, NoEffectSteps DEF vars
<1>. QED
  BY <1>1, <1>2, <1>3, <1>4, <1>5, <1>6 DEF Next

-----------------------------------------------------------------------------
(* The theorems.                                                           *)

\* The books of every image, on top of what the descriptor tables need.
OwnershipInv == DescriptorsInv /\ \A p \in Posix : Sound(image[p])

LEMMA OwnershipInit == Init => OwnershipInv
  BY InvInit, BootSound DEF Init, OwnershipInv

LEMMA OwnershipNext == OwnershipInv /\ [Next]_vars => OwnershipInv'
<1>. SUFFICES ASSUME OwnershipInv, [Next]_vars PROVE OwnershipInv'
  OBVIOUS
<1>1. DescriptorsInv' /\ ImagesInv /\ ImagesInv' /\ Steps
  BY InvNext, NextSteps DEF OwnershipInv, DescriptorsInv, TypeOK, ImagesInv
<1>2. ASSUME NEW q \in Posix PROVE Sound(image'[q])
  <2>1. PICK r \in Posix : ImageStep(image[r], image'[q])
    BY <1>1 DEF Steps
  <2>2. image[r] \in Image /\ GoodImage(image[r]) /\ Sound(image[r]) /\ image'[q] \in Image
    BY <1>1 DEF ImagesInv, OwnershipInv
  <2>. QED
    BY <2>1, <2>2, ImageStepSound
<1>3. (\A p \in Posix : Sound(image[p]))'
  BY <1>2
<1>. QED
  BY <1>1, <1>3 DEF OwnershipInv

\* The kernel holds nothing open that the server has lost track of, whatever
\* close(2) reports and wherever open fails (server.cpp:678, 720).
THEOREM KernelFdsAlwaysRecorded == Spec => []KernelFdsRecorded
<1>1. OwnershipInv => KernelFdsRecorded
  BY DEF OwnershipInv, DescriptorsInv, TypeOK, Sound, Recorded, KernelFdsRecorded
<1>. QED
  BY <1>1, OwnershipInit, OwnershipNext, PTL DEF Spec

\* The count of a device covers its open entries, so Devices::remove
\* (devices.cpp:57) never deletes one in use.
THEOREM DeviceRefsAlwaysCover == Spec => []DeviceRefsCover
<1>1. OwnershipInv => DeviceRefsCover
  BY DEF OwnershipInv, DescriptorsInv, TypeOK, Sound, Covered, OpenOn, DeviceRefsCover
<1>. QED
  BY <1>1, OwnershipInit, OwnershipNext, PTL DEF Spec

\* As long as close(2) does not fail no entry leaks: processFree (server.cpp:354)
\* finds all that exec has to close.
THEOREM EntriesAlwaysOwned ==
  ASSUME CloseFails = FALSE PROVE Spec => []EntriesOwned
<1>1. OwnershipInv => EntriesOwned
  BY DEF OwnershipInv, DescriptorsInv, TypeOK, Sound, Owned, InSlot, EntriesOwned
<1>. QED
  BY <1>1, OwnershipInit, OwnershipNext, PTL DEF Spec

\* Nor do two entries ever name one kernel descriptor, or a closed one, so a
\* close cannot close what another open returned (server.cpp:720).
THEOREM KernelFdsAlwaysOwned ==
  ASSUME CloseFails = FALSE PROVE Spec => []KernelFdsOwned
<1>1. OwnershipInv => KernelFdsOwned
  BY DEF OwnershipInv, DescriptorsInv, TypeOK, Sound, Owned, KernelFdsOwned
<1>. QED
  BY <1>1, OwnershipInit, OwnershipNext, PTL DEF Spec
=============================================================================

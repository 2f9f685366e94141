---------------------------- MODULE ObjectsProofs ----------------------------
(***************************************************************************)
(* Proofs about ProcessObjects: for any number of programs and of objects, *)
(* and unless the error path of forkCopy has freed something twice,        *)
(* libraries are held as often as objects hold them, and the process table *)
(* leads to objects that exist.                                            *)
(***************************************************************************)
EXTENDS ProcessObjects, FiniteSetTheorems, TLAPS

-----------------------------------------------------------------------------
(* The invariant.                                                          *)

Holders(m, lib) == {i \in DOMAIN m.objs : m.objs[i].handle = lib}

\* A memory with no pointer to anything freed and with a fair count of holders.
Sound(m) ==
  /\ m \in Memory
  /\ \A i \in DOMAIN m.objs : m.objs[i].dangling = {}
  /\ \A lib \in Libs : m.libs[lib] = Cardinality(Holders(m, lib))

\* The table ps lists different objects, all of them live and, but for the dummy
\* process, with a library.
Table(m, ps) ==
  /\ Len(ps) > 0
  /\ \A k \in DOMAIN ps : m.objs[ps[k]].live
  /\ \A k \in DOMAIN ps \ {1} : m.objs[ps[k]].handle \in Libs
  /\ \A j, k \in DOMAIN ps : ps[j] = ps[k] => j = k

\* The dummy process never runs.
TableInv == curr # None => Table(mem, procs) /\ curr # 1

\* After a double free only the types are left.
ObjectsInv == TypeOK /\ (mem.heap = "sound" => Sound(mem) /\ TableInv)

-----------------------------------------------------------------------------
(* Changing one object.                                                    *)

Put(m, i, o, libs, heap) ==
  [objs |-> [m.objs EXCEPT ![i] = o], libs |-> libs, heap |-> heap]

Released(m, i) ==
  [l \in Libs |-> IF l = m.objs[i].handle THEN m.libs[l] - 1 ELSE m.libs[l]]

\* The objects of a memory that have a library are finitely many.
LEMMA HoldersFinite ==
  ASSUME NEW m \in Memory, NEW lib
  PROVE  IsFiniteSet(Holders(m, lib)) /\ Cardinality(Holders(m, lib)) \in Nat
<1>1. Len(m.objs) \in Nat /\ DOMAIN m.objs = 1 .. Len(m.objs)
  BY DEF Memory
<1>2. IsFiniteSet(1 .. Len(m.objs))
  BY <1>1, FS_Interval
<1>3. Holders(m, lib) \in SUBSET (1 .. Len(m.objs))
  BY <1>1 DEF Holders
<1> QED
  BY <1>2, <1>3, FS_Subset, FS_CardinalityType

\* A change of one object is a change of the sequence at one position.
LEMMA PutObjs ==
  ASSUME NEW m \in Memory, NEW i \in DOMAIN m.objs, NEW o \in Process,
         NEW libs \in [Libs -> Nat], NEW heap \in {"sound", "corrupt"}
  PROVE  /\ Put(m, i, o, libs, heap) \in Memory
         /\ DOMAIN Put(m, i, o, libs, heap).objs = DOMAIN m.objs
         /\ Len(Put(m, i, o, libs, heap).objs) = Len(m.objs)
         /\ Put(m, i, o, libs, heap).objs[i] = o
         /\ \A j \in DOMAIN m.objs \ {i} : Put(m, i, o, libs, heap).objs[j] = m.objs[j]
BY DEF Put, Memory

\* An object that changes without touching its library.
LEMMA PutKeeps ==
  ASSUME NEW m, Sound(m), NEW i \in DOMAIN m.objs, NEW o \in Process,
         o.handle = m.objs[i].handle, o.dangling = {},
         NEW heap \in {"sound", "corrupt"}
  PROVE  Sound(Put(m, i, o, m.libs, heap))
<1> DEFINE n == Put(m, i, o, m.libs, heap)
<1>1. m \in Memory /\ m.libs \in [Libs -> Nat]
  BY DEF Sound, Memory
<1>2. /\ n \in Memory /\ DOMAIN n.objs = DOMAIN m.objs /\ n.objs[i] = o
      /\ \A j \in DOMAIN m.objs \ {i} : n.objs[j] = m.objs[j]
  BY <1>1, PutObjs
<1>3. n.libs = m.libs
  BY DEF Put
<1> HIDE DEF n
<1>4. \A lib : Holders(n, lib) = Holders(m, lib)
  BY <1>2 DEF Holders
<1>5. \A j \in DOMAIN n.objs : n.objs[j].dangling = {}
  BY <1>2 DEF Sound
<1>6. \A lib \in Libs : n.libs[lib] = Cardinality(Holders(n, lib))
  BY <1>3, <1>4 DEF Sound
<1>7. Sound(n)
  BY <1>2, <1>5, <1>6 DEF Sound
<1> QED
  BY <1>7 DEF n

\* An object without a library opens one.
LEMMA PutOpens ==
  ASSUME NEW m, Sound(m), NEW i \in DOMAIN m.objs, NEW o \in Process, NEW lib \in Libs,
         m.objs[i].handle = None, o.handle = lib, o.dangling = {}
  PROVE  Sound(Put(m, i, o, [m.libs EXCEPT ![lib] = @ + 1], m.heap))
<1> DEFINE libs == [m.libs EXCEPT ![lib] = @ + 1]
           n == Put(m, i, o, libs, m.heap)
<1>1. m \in Memory /\ m.libs \in [Libs -> Nat] /\ m.heap \in {"sound", "corrupt"}
  BY DEF Sound, Memory
<1>2. libs \in [Libs -> Nat]
  BY <1>1
<1> HIDE DEF libs
<1>3. /\ n \in Memory /\ DOMAIN n.objs = DOMAIN m.objs /\ n.objs[i] = o
      /\ \A j \in DOMAIN m.objs \ {i} : n.objs[j] = m.objs[j]
  BY <1>1, <1>2, PutObjs
<1>4. n.libs = [m.libs EXCEPT ![lib] = @ + 1]
  BY DEF Put, libs
<1> HIDE DEF n
<1>5. \A l \in Libs \ {lib} : Holders(n, l) = Holders(m, l)
  BY <1>3, ObjectsAssumption DEF Holders
<1>6. Holders(n, lib) = Holders(m, lib) \cup {i} /\ i \notin Holders(m, lib)
  BY <1>3, ObjectsAssumption DEF Holders
<1>7. Cardinality(Holders(n, lib)) = Cardinality(Holders(m, lib)) + 1
  BY <1>1, <1>6, HoldersFinite, FS_AddElement
<1>8. \A l \in Libs : n.libs[l] = Cardinality(Holders(n, l))
  <2> TAKE l \in Libs
  <2>1. CASE l = lib
    BY <2>1, <1>1, <1>4, <1>7 DEF Sound
  <2>2. CASE l # lib
    BY <2>2, <1>1, <1>4, <1>5 DEF Sound
  <2> QED
    BY <2>1, <2>2
<1>9. \A j \in DOMAIN n.objs : n.objs[j].dangling = {}
  BY <1>3 DEF Sound
<1>10. Sound(n)
  BY <1>3, <1>8, <1>9 DEF Sound
<1> QED
  BY <1>10 DEF n, libs

\* An object closes the library it has, if any.
LEMMA PutCloses ==
  ASSUME NEW m, Sound(m), NEW i \in DOMAIN m.objs, NEW o \in Process,
         o.handle = None, o.dangling = {}, NEW heap \in {"sound", "corrupt"}
  PROVE  Sound(Put(m, i, o, Released(m, i), heap))
<1> DEFINE n == Put(m, i, o, Released(m, i), heap)
           h == m.objs[i].handle
<1>1. m \in Memory /\ m.libs \in [Libs -> Nat]
  BY DEF Sound, Memory
<1>2. h \in Libs => /\ i \in Holders(m, h)
                    /\ Cardinality(Holders(m, h) \ {i}) = Cardinality(Holders(m, h)) - 1
                    /\ Cardinality(Holders(m, h) \ {i}) \in Nat
  <2> HAVE h \in Libs
  <2>1. i \in Holders(m, h)
    BY DEF Holders
  <2>2. IsFiniteSet(Holders(m, h)) /\ Cardinality(Holders(m, h)) \in Nat
    BY <1>1, HoldersFinite
  <2> HIDE DEF h
  <2>3. Cardinality(Holders(m, h) \ {i}) = Cardinality(Holders(m, h)) - 1
    BY <2>1, <2>2, FS_RemoveElement
  <2>4. Cardinality(Holders(m, h) \ {i}) \in Nat
    BY <2>2, FS_RemoveElement, FS_CardinalityType
  <2> QED
    BY <2>1, <2>3, <2>4
<1>3. \A l \in Libs : m.libs[l] = Cardinality(Holders(m, l))
  BY DEF Sound
<1>4. Released(m, i) \in [Libs -> Nat]
  <2>1. \A l \in Libs : l = h => m.libs[l] - 1 \in Nat
    BY <1>2, <1>3
  <2> QED
    BY <1>1, <2>1 DEF Released
<1>5. /\ n \in Memory /\ DOMAIN n.objs = DOMAIN m.objs /\ n.objs[i] = o
      /\ \A j \in DOMAIN m.objs \ {i} : n.objs[j] = m.objs[j]
  BY <1>1, <1>4, PutObjs
<1>6. n.libs = [l \in Libs |-> IF l = h THEN m.libs[l] - 1 ELSE m.libs[l]]
  BY DEF Put, Released
<1> HIDE DEF n
<1>7. \A l \in Libs : Holders(n, l) = Holders(m, l) \ {i}
  BY <1>5, ObjectsAssumption DEF Holders
<1>8. \A l \in Libs : l # h => i \notin Holders(m, l)
  BY DEF Holders
<1>9. \A l \in Libs : n.libs[l] = Cardinality(Holders(n, l))
  <2> TAKE l \in Libs
  <2>1. CASE l = h
    BY <2>1, <1>2, <1>3, <1>6, <1>7
  <2>2. CASE l # h
    <3>1. Holders(n, l) = Holders(m, l)
      BY <2>2, <1>7, <1>8
    <3> QED
      BY <2>2, <3>1, <1>3, <1>6
  <2> QED
    BY <2>1, <2>2
<1>10. \A j \in DOMAIN n.objs : n.objs[j].dangling = {}
  BY <1>5 DEF Sound
<1>11. Sound(n)
  BY <1>5, <1>9, <1>10 DEF Sound
<1> QED
  BY <1>11 DEF n

-----------------------------------------------------------------------------
(* The operators of ProcessObjects as changes of one object.               *)

\* What a change of object i leaves alone.
Touches(m, n, i) ==
  /\ DOMAIN n.objs = DOMAIN m.objs /\ Len(n.objs) = Len(m.objs)
  /\ n.heap = m.heap
  /\ \A j \in DOMAIN m.objs \ {i} : n.objs[j] = m.objs[j]

\* The parts of an object have their types.
LEMMA ObjectFields ==
  ASSUME NEW m \in Memory, NEW i \in DOMAIN m.objs
  PROVE  /\ m.objs[i] \in Process
         /\ m.objs[i].live \in BOOLEAN
         /\ m.objs[i].own \in SUBSET Fields
         /\ m.objs[i].dangling \in SUBSET Fields
         /\ m.objs[i].handle \in Libs \cup {None}
<1>1. m.objs[i] \in Process
  BY DEF Memory
<1> HIDE DEF Process
<1> DEFINE o == m.objs[i]
<1>2. o \in Process
  BY <1>1
<1> HIDE DEF o
<1>3. o.live \in BOOLEAN /\ o.own \in SUBSET Fields /\ o.dangling \in SUBSET Fields
      /\ o.handle \in Libs \cup {None}
  BY <1>2 DEF Process
<1> QED
  BY <1>2, <1>3 DEF o

\* A memory with some of its parts exchanged.
LEMMA Exchanged ==
  ASSUME NEW m \in Memory, NEW objs, NEW libs
  PROVE  /\ [m EXCEPT !.objs = objs] = [objs |-> objs, libs |-> m.libs, heap |-> m.heap]
         /\ [m EXCEPT !.objs = objs, !.libs = libs] =
              [objs |-> objs, libs |-> libs, heap |-> m.heap]
<1>1. m = [x \in {"objs", "libs", "heap"} |-> m[x]]
  BY DEF Memory
<1>2. [m EXCEPT !.objs = objs] = [objs |-> objs, libs |-> m.libs, heap |-> m.heap]
  BY <1>1
<1>3. [m EXCEPT !.objs = objs, !.libs = libs] =
        [objs |-> objs, libs |-> libs, heap |-> m.heap]
  <2> DEFINE n == [m EXCEPT !.objs = objs]
  <2>1. n = [objs |-> objs, libs |-> m.libs, heap |-> m.heap]
    BY <1>2
  <2> HIDE DEF n
  <2>2. [n EXCEPT !.libs = libs] = [objs |-> objs, libs |-> libs, heap |-> m.heap]
    BY <2>1
  <2>3. [m EXCEPT !.objs = objs, !.libs = libs] = [n EXCEPT !.libs = libs]
    BY DEF n
  <2> QED
    BY <2>2, <2>3
<1> QED
  BY <1>2, <1>3

\* A new object is sound, and is the last.
LEMMA AppendSound ==
  ASSUME NEW m, Sound(m)
  PROVE  LET n == [m EXCEPT !.objs = Append(@, NewProcess)]
         IN  /\ Sound(n)
             /\ Len(n.objs) = Len(m.objs) + 1
             /\ DOMAIN n.objs = DOMAIN m.objs \cup {Len(n.objs)}
             /\ Len(n.objs) \notin DOMAIN m.objs
             /\ n.heap = m.heap
             /\ n.objs[Len(n.objs)] = NewProcess
             /\ \A j \in DOMAIN m.objs : n.objs[j] = m.objs[j]
<1> DEFINE n == [m EXCEPT !.objs = Append(@, NewProcess)]
<1>1. m \in Memory /\ m.objs \in Seq(Process)
  BY DEF Sound, Memory
<1>2. NewProcess \in Process
  BY DEF NewProcess, Process
<1>3. n.objs = Append(m.objs, NewProcess) /\ n.libs = m.libs /\ n.heap = m.heap
  BY <1>1 DEF Memory
<1>4. n \in Memory
  <2>1. Append(m.objs, NewProcess) \in Seq(Process)
    BY <1>1, <1>2
  <2>2. m.libs \in [Libs -> Nat] /\ m.heap \in {"sound", "corrupt"}
    BY <1>1 DEF Memory
  <2>3. n = [objs |-> Append(m.objs, NewProcess), libs |-> m.libs, heap |-> m.heap]
    BY <1>1, Exchanged
  <2> QED
    BY <2>1, <2>2, <2>3 DEF Memory
<1>5. /\ Len(n.objs) = Len(m.objs) + 1
      /\ DOMAIN n.objs = DOMAIN m.objs \cup {Len(n.objs)}
      /\ Len(n.objs) \notin DOMAIN m.objs
      /\ n.objs[Len(n.objs)] = NewProcess
      /\ \A j \in DOMAIN m.objs : n.objs[j] = m.objs[j]
  BY <1>1, <1>2, <1>3
<1> HIDE DEF n
<1>6. NewProcess.handle = None /\ NewProcess.dangling = {}
  BY DEF NewProcess
<1>7. \A lib \in Libs : Holders(n, lib) = Holders(m, lib)
  BY <1>5, <1>6, ObjectsAssumption DEF Holders
<1>8. \A lib \in Libs : n.libs[lib] = Cardinality(Holders(n, lib))
  BY <1>3, <1>7 DEF Sound
<1>9. \A j \in DOMAIN n.objs : n.objs[j].dangling = {}
  BY <1>5, <1>6 DEF Sound
<1>10. Sound(n)
  BY <1>4, <1>8, <1>9 DEF Sound
<1> QED
  BY <1>3, <1>5, <1>10 DEF n

\* Giving an object more memory of its own.
LEMMA OwnSound ==
  ASSUME NEW m, Sound(m), NEW i \in DOMAIN m.objs, NEW own \in SUBSET Fields
  PROVE  LET n == [m EXCEPT !.objs[i].own = own]
         IN  /\ Sound(n) /\ Touches(m, n, i)
             /\ n.objs[i].live = m.objs[i].live
             /\ n.objs[i].handle = m.objs[i].handle
<1> DEFINE n == [m EXCEPT !.objs[i].own = own]
           o == [m.objs[i] EXCEPT !.own = own]
<1>1. m \in Memory /\ m.heap \in {"sound", "corrupt"} /\ m.libs \in [Libs -> Nat]
  BY DEF Sound, Memory
<1>2. m.objs[i] \in Process /\ m.objs[i].dangling = {}
  BY <1>1, ObjectFields DEF Sound
<1>3. o \in Process /\ o.live = m.objs[i].live /\ o.handle = m.objs[i].handle /\ o.dangling = {}
  BY <1>2 DEF Process
<1>4. n = Put(m, i, o, m.libs, m.heap)
  BY <1>1, Exchanged DEF Put
<1> HIDE DEF o, n
<1>5. Sound(n)
  BY <1>1, <1>3, <1>4, PutKeeps
<1>6. /\ DOMAIN n.objs = DOMAIN m.objs /\ Len(n.objs) = Len(m.objs) /\ n.objs[i] = o
      /\ \A j \in DOMAIN m.objs \ {i} : n.objs[j] = m.objs[j]
  BY <1>1, <1>3, <1>4, PutObjs
<1>7. n.heap = m.heap
  BY <1>4 DEF Put
<1>8. Touches(m, n, i)
  BY <1>6, <1>7 DEF Touches
<1> QED
  BY <1>3, <1>5, <1>6, <1>8 DEF n

\* dlopen for an object that has no library.
LEMMA DlOpenSound ==
  ASSUME NEW m, Sound(m), NEW i \in DOMAIN m.objs, NEW lib \in Libs, m.objs[i].handle = None
  PROVE  LET n == DlOpen(m, i, lib)
         IN  /\ Sound(n) /\ Touches(m, n, i)
             /\ n.objs[i].live = m.objs[i].live
             /\ n.objs[i].handle = lib
<1> DEFINE n == DlOpen(m, i, lib)
           o == [m.objs[i] EXCEPT !.handle = lib]
           libs == [m.libs EXCEPT ![lib] = @ + 1]
<1>1. m \in Memory /\ m.heap \in {"sound", "corrupt"} /\ m.libs \in [Libs -> Nat]
  BY DEF Sound, Memory
<1>2. m.objs[i] \in Process /\ m.objs[i].dangling = {}
  BY <1>1, ObjectFields DEF Sound
<1>3. o \in Process /\ o.live = m.objs[i].live /\ o.handle = lib /\ o.dangling = {}
  BY <1>2 DEF Process
<1>4. n = Put(m, i, o, libs, m.heap)
  <2>1. n = [m EXCEPT !.objs = [m.objs EXCEPT ![i] = o], !.libs = libs]
    BY DEF DlOpen
  <2> QED
    BY <1>1, <2>1, Exchanged DEF Put
<1>5. libs \in [Libs -> Nat]
  BY <1>1
<1>6. Sound(n)
  <2> HIDE DEF o
  <2>1. Sound(Put(m, i, o, [m.libs EXCEPT ![lib] = @ + 1], m.heap))
    BY <1>3, PutOpens
  <2> QED
    BY <2>1, <1>4
<1> HIDE DEF o, n, libs
<1>7. /\ DOMAIN n.objs = DOMAIN m.objs /\ Len(n.objs) = Len(m.objs) /\ n.objs[i] = o
      /\ \A j \in DOMAIN m.objs \ {i} : n.objs[j] = m.objs[j]
  BY <1>1, <1>3, <1>4, <1>5, PutObjs
<1>8. n.heap = m.heap
  BY <1>4 DEF Put
<1>9. Touches(m, n, i)
  BY <1>7, <1>8 DEF Touches
<1> QED
  BY <1>3, <1>6, <1>7, <1>9 DEF n

\* dlclose, also where there is nothing to close.
LEMMA DlCloseSound ==
  ASSUME NEW m, Sound(m), NEW i \in DOMAIN m.objs
  PROVE  LET n == DlClose(m, i)
         IN  /\ Sound(n) /\ Touches(m, n, i)
             /\ n.objs[i].live = m.objs[i].live
             /\ n.objs[i].handle = None
             /\ n.libs = Released(m, i)
<1> DEFINE n == DlClose(m, i)
           o == [m.objs[i] EXCEPT !.handle = None]
<1>1. m \in Memory /\ m.heap \in {"sound", "corrupt"} /\ m.libs \in [Libs -> Nat]
  BY DEF Sound, Memory
<1>2. m.objs[i] \in Process /\ m.objs[i].dangling = {}
  BY <1>1, ObjectFields DEF Sound
<1>3. o \in Process /\ o.live = m.objs[i].live /\ o.handle = None /\ o.dangling = {}
  BY <1>2 DEF Process
<1>4. n = Put(m, i, o, Released(m, i), m.heap)
  BY <1>1, Exchanged DEF DlClose, Put, Released
<1> HIDE DEF o, n
<1>5. Sound(n)
  BY <1>1, <1>3, <1>4, PutCloses
<1>6. n.objs = [m.objs EXCEPT ![i] = o] /\ n.heap = m.heap /\ n.libs = Released(m, i)
  BY <1>4 DEF Put
<1>7. /\ DOMAIN n.objs = DOMAIN m.objs /\ Len(n.objs) = Len(m.objs) /\ n.objs[i] = o
      /\ \A j \in DOMAIN m.objs \ {i} : n.objs[j] = m.objs[j]
  BY <1>1, <1>6 DEF Memory
<1>8. Touches(m, n, i)
  BY <1>6, <1>7 DEF Touches
<1> QED
  BY <1>3, <1>5, <1>6, <1>7, <1>8 DEF n

\* Setting up an object, up to any of its steps.
LEMMA DoneSound ==
  ASSUME NEW m, Sound(m), NEW i \in DOMAIN m.objs, m.objs[i].handle = None,
         NEW steps \in SUBSET (Fields \cup {"handle"}), NEW lib \in Libs
  PROVE  LET n == Done(m, i, steps, lib)
         IN  /\ Sound(n) /\ Touches(m, n, i)
             /\ n.objs[i].live = m.objs[i].live
             /\ "handle" \in steps => n.objs[i].handle = lib
<1> DEFINE opened == IF "handle" \in steps THEN DlOpen(m, i, lib) ELSE m
           own == opened.objs[i].own \cup (steps \ {"handle"})
           n == [opened EXCEPT !.objs[i].own = own]
<1>1. /\ Sound(opened) /\ Touches(m, opened, i)
      /\ opened.objs[i].live = m.objs[i].live
      /\ "handle" \in steps => opened.objs[i].handle = lib
  <2>1. CASE "handle" \in steps
    BY <2>1, DlOpenSound
  <2>2. CASE "handle" \notin steps
    BY <2>2 DEF Touches
  <2> QED
    BY <2>1, <2>2
<1>2. Done(m, i, steps, lib) = n
  BY DEF Done
<1> HIDE DEF opened
<1>3. i \in DOMAIN opened.objs /\ opened \in Memory
  BY <1>1 DEF Touches, Sound
<1>4. own \in SUBSET Fields
  BY <1>3, ObjectFields
<1> HIDE DEF own
<1>5. /\ Sound(n) /\ Touches(opened, n, i)
      /\ n.objs[i].live = opened.objs[i].live
      /\ n.objs[i].handle = opened.objs[i].handle
  BY <1>1, <1>3, <1>4, OwnSound
<1> HIDE DEF n
<1>6. Touches(m, n, i)
  BY <1>1, <1>5 DEF Touches
<1> QED
  BY <1>1, <1>2, <1>5, <1>6

\* The error paths of loading.
LEMMA LoadErrorSound ==
  ASSUME NEW m, Sound(m), NEW i \in DOMAIN m.objs
  PROVE  LET n == LoadError(m, i)
         IN  Sound(n) /\ Touches(m, n, i) /\ n.objs[i].live = m.objs[i].live
<1> DEFINE closed == DlClose(m, i)
           n == [closed EXCEPT !.objs[i].own = {}]
<1>1. Sound(closed) /\ Touches(m, closed, i) /\ closed.objs[i].live = m.objs[i].live
  BY DlCloseSound
<1>2. LoadError(m, i) = n
  BY DEF LoadError
<1> HIDE DEF closed
<1>3. i \in DOMAIN closed.objs
  BY <1>1 DEF Touches
<1>4. /\ Sound(n) /\ Touches(closed, n, i)
      /\ n.objs[i].live = closed.objs[i].live
  BY <1>1, <1>3, OwnSound
<1> HIDE DEF n
<1>5. Touches(m, n, i)
  BY <1>1, <1>4 DEF Touches
<1> QED
  BY <1>1, <1>2, <1>4, <1>5

\* The arguments of the process that runs.
LEMMA WithArgvSound ==
  ASSUME NEW m, Sound(m), NEW i \in DOMAIN m.objs
  PROVE  LET n == WithArgv(m, i)
         IN  /\ Sound(n) /\ Touches(m, n, i)
             /\ n.objs[i].live = m.objs[i].live
             /\ n.objs[i].handle = m.objs[i].handle
<1> DEFINE own == m.objs[i].own \cup {"argv"}
<1>1. m \in Memory
  BY DEF Sound
<1>2. own \in SUBSET Fields
  BY <1>1, ObjectFields DEF Fields
<1>3. WithArgv(m, i) = [m EXCEPT !.objs[i].own = own]
  BY DEF WithArgv
<1> HIDE DEF own
<1> QED
  BY <1>2, <1>3, OwnSound

\* setCwd, whether there is memory for the new directory or not.
LEMMA SetCwdSound ==
  ASSUME NEW m, Sound(m), NEW i \in DOMAIN m.objs, NEW n \in SetCwd(m, i)
  PROVE  /\ Sound(n) /\ Touches(m, n, i)
         /\ n.objs[i].live = m.objs[i].live
         /\ n.objs[i].handle = m.objs[i].handle
<1> DEFINE own == m.objs[i].own \cup {"cwd"}
<1>1. m \in Memory
  BY DEF Sound
<1>2. own \in SUBSET Fields
  BY <1>1, ObjectFields DEF Fields
<1>3. CASE n = m
  BY <1>3 DEF Touches
<1>4. CASE n = [m EXCEPT !.objs[i].own = own]
  <2> HIDE DEF own
  <2> QED
    BY <1>2, <1>4, OwnSound
<1> QED
  BY <1>3, <1>4 DEF SetCwd

\* ~Process changes one object, one count and, after a double free, the heap.
LEMMA DeletePut ==
  ASSUME NEW m \in Memory, NEW i \in DOMAIN m.objs
  PROVE  Delete(m, i) =
           Put(m, i, Deleted, Released(m, i),
               IF m.objs[i].live /\ m.objs[i].dangling = {} THEN m.heap ELSE "corrupt")
<1> DEFINE o == [m.objs[i] EXCEPT !.handle = None]
           heap == IF m.objs[i].live /\ m.objs[i].dangling = {} THEN m.heap ELSE "corrupt"
           closed == DlClose(m, i)
<1>1. closed = Put(m, i, o, Released(m, i), m.heap)
  BY Exchanged DEF DlClose, Put, Released
<1>2. closed.objs = [m.objs EXCEPT ![i] = o] /\ closed.heap = m.heap /\ closed.libs = Released(m, i)
  BY <1>1 DEF Put
<1>3. closed = [x \in {"objs", "libs", "heap"} |-> closed[x]]
  BY <1>1 DEF Put
<1>4. Delete(m, i) = [closed EXCEPT !.objs = [closed.objs EXCEPT ![i] = Deleted], !.heap = heap]
  BY <1>2 DEF Delete
<1>5. [closed.objs EXCEPT ![i] = Deleted] = [m.objs EXCEPT ![i] = Deleted]
  BY <1>2 DEF Memory
<1> HIDE DEF closed, heap, o
<1>6. Delete(m, i) = [objs |-> [m.objs EXCEPT ![i] = Deleted], libs |-> closed.libs, heap |-> heap]
  <2> DEFINE n == [closed EXCEPT !.objs = [m.objs EXCEPT ![i] = Deleted]]
  <2>1. n = [objs |-> [m.objs EXCEPT ![i] = Deleted], libs |-> closed.libs, heap |-> closed.heap]
    BY <1>3
  <2>2. Delete(m, i) = [n EXCEPT !.heap = heap]
    BY <1>4, <1>5
  <2> HIDE DEF n
  <2> QED
    BY <2>1, <2>2
<1> QED
  BY <1>2, <1>6 DEF Put, heap

\* ~Process of a live object that has no pointer to freed memory.
LEMMA DeleteSound ==
  ASSUME NEW m, Sound(m), NEW i \in DOMAIN m.objs, m.objs[i].live
  PROVE  Sound(Delete(m, i)) /\ Touches(m, Delete(m, i), i)
<1>1. m \in Memory /\ m.heap \in {"sound", "corrupt"} /\ m.objs[i].dangling = {}
  BY DEF Sound, Memory
<1>2. Deleted \in Process /\ Deleted.handle = None /\ Deleted.dangling = {}
  BY DEF Deleted, NewProcess, Process
<1>3. Delete(m, i) = Put(m, i, Deleted, Released(m, i), m.heap)
  BY <1>1, DeletePut
<1>4. Sound(Delete(m, i))
  BY <1>1, <1>2, <1>3, PutCloses
<1>5. Delete(m, i).objs = [m.objs EXCEPT ![i] = Deleted] /\ Delete(m, i).heap = m.heap
  BY <1>3 DEF Put
<1>6. Touches(m, Delete(m, i), i)
  BY <1>1, <1>5 DEF Touches, Memory
<1> QED
  BY <1>4, <1>6

-----------------------------------------------------------------------------
(* Loading and copying make one more object.                               *)

Grows(m, n) ==
  /\ Sound(n)
  /\ Len(n.objs) = Len(m.objs) + 1
  /\ DOMAIN n.objs = DOMAIN m.objs \cup {Len(n.objs)}
  /\ Len(n.objs) \notin DOMAIN m.objs
  /\ n.heap = m.heap
  /\ \A j \in DOMAIN m.objs : n.objs[j] = m.objs[j]

\* A change of the object just made does not matter to the others.
LEMMA GrowsOn ==
  ASSUME NEW m, NEW n, Grows(m, n), NEW o, Touches(n, o, Len(n.objs)), Sound(o)
  PROVE  Grows(m, o)
BY DEF Grows, Touches

\* loadFileFS leaves one more object; after success it has the library.
LEMMA LoadsGrows ==
  ASSUME NEW m, Sound(m), NEW lib \in Libs, NEW loaded \in Loads(m, lib)
  PROVE  LET i == Len(loaded.mem.objs)
         IN  /\ Grows(m, loaded.mem)
             /\ loaded.ok \in BOOLEAN
             /\ loaded.ok => loaded.mem.objs[i].live /\ loaded.mem.objs[i].handle = lib
<1> DEFINE fresh == [m EXCEPT !.objs = Append(@, NewProcess)]
           i == Len(fresh.objs)
           Steps == {{}, {"cwd"}, {"cwd", "handle"}, {"cwd", "handle", "name"}}
           All == {"cwd", "handle", "name", "path"}
<1>1. Grows(m, fresh) /\ fresh.objs[i] = NewProcess
  BY AppendSound DEF Grows
<1>2. loaded \in [ok : {TRUE}, mem : {Done(fresh, i, All, lib)}]
                 \cup [ok : {FALSE}, mem : {LoadError(Done(fresh, i, steps, lib), i) : steps \in Steps}]
  BY DEF Loads
<1> HIDE DEF fresh
<1>3. Sound(fresh) /\ i \in DOMAIN fresh.objs /\ fresh.objs[i].handle = None /\ fresh.objs[i].live
  BY <1>1 DEF Grows, NewProcess
<1>4. CASE loaded \in [ok : {TRUE}, mem : {Done(fresh, i, All, lib)}]
  <2> DEFINE n == Done(fresh, i, All, lib)
  <2>1. loaded.ok = TRUE /\ loaded.mem = n
    BY <1>4
  <2>2. All \in SUBSET (Fields \cup {"handle"}) /\ "handle" \in All
    BY DEF Fields
  <2> HIDE DEF All
  <2>3. Sound(n) /\ Touches(fresh, n, i) /\ n.objs[i].live = fresh.objs[i].live /\ n.objs[i].handle = lib
    <3>1. Sound(n) /\ Touches(fresh, n, i)
      BY <1>3, <2>2, DoneSound
    <3>2. n.objs[i].live = fresh.objs[i].live
      BY <1>3, <2>2, DoneSound
    <3>3. n.objs[i].handle = lib
      BY <1>3, <2>2, DoneSound
    <3> QED
      BY <3>1, <3>2, <3>3
  <2> HIDE DEF n
  <2>4. Grows(m, n) /\ Len(n.objs) = i
    BY <1>1, <2>3, GrowsOn DEF Touches
  <2> QED
    BY <1>3, <2>1, <2>3, <2>4 DEF n
<1>5. CASE loaded \in [ok : {FALSE}, mem : {LoadError(Done(fresh, i, steps, lib), i) : steps \in Steps}]
  <2>1. loaded.ok = FALSE
    BY <1>5
  <2>2. PICK steps \in Steps : loaded.mem = LoadError(Done(fresh, i, steps, lib), i)
    BY <1>5
  <2>3. steps \in SUBSET (Fields \cup {"handle"})
    BY DEF Fields
  <2> DEFINE done == Done(fresh, i, steps, lib)
             n == LoadError(done, i)
  <2>4. Sound(done) /\ Touches(fresh, done, i)
    BY <1>3, <2>3, DoneSound
  <2> HIDE DEF done
  <2>5. i \in DOMAIN done.objs /\ Grows(m, done) /\ Len(done.objs) = i
    BY <1>1, <1>3, <2>4, GrowsOn DEF Touches
  <2>6. Sound(n) /\ Touches(done, n, i)
    BY <2>4, <2>5, LoadErrorSound
  <2> HIDE DEF n
  <2>7. Grows(m, n)
    BY <2>5, <2>6, GrowsOn
  <2> QED
    BY <2>1, <2>2, <2>7 DEF n, done
<1> QED
  BY <1>2, <1>4, <1>5

\* forkCopy makes an object with the library of its parent.
LEMMA ForkCopyGrows ==
  ASSUME NEW i \in DOMAIN mem.objs, Sound(mem), mem.objs[i].handle \in Libs
  PROVE  LET n == ForkCopy(i)
         IN  /\ Grows(mem, n)
             /\ n.objs[Len(n.objs)].live
             /\ n.objs[Len(n.objs)].handle \in Libs
<1> DEFINE fresh == [mem EXCEPT !.objs = Append(@, NewProcess)]
           c == Len(fresh.objs)
           all == Fields \cup {"handle"}
           lib == mem.objs[i].handle
           n == Done(fresh, c, all, lib)
<1>1. Grows(mem, fresh) /\ fresh.objs[c] = NewProcess
  BY AppendSound DEF Grows
<1>2. c = Len(mem.objs) + 1
  BY <1>1 DEF Grows
<1>3. ForkCopy(i) = n
  BY <1>2 DEF ForkCopy
<1> HIDE DEF fresh
<1>4. Sound(fresh) /\ c \in DOMAIN fresh.objs /\ fresh.objs[c].handle = None /\ fresh.objs[c].live
  BY <1>1 DEF Grows, NewProcess
<1>5. /\ Sound(n) /\ Touches(fresh, n, c)
      /\ n.objs[c].live = fresh.objs[c].live
      /\ n.objs[c].handle = lib
  <2>1. all \in SUBSET (Fields \cup {"handle"}) /\ "handle" \in all /\ lib \in Libs
    OBVIOUS
  <2> HIDE DEF all, lib
  <2>2. Sound(n) /\ Touches(fresh, n, c)
    BY <1>4, <2>1, DoneSound
  <2>3. n.objs[c].live = fresh.objs[c].live
    BY <1>4, <2>1, DoneSound
  <2>4. n.objs[c].handle = lib
    BY <1>4, <2>1, DoneSound
  <2> QED
    BY <2>2, <2>3, <2>4
<1> HIDE DEF n
<1>6. Grows(mem, n) /\ Len(n.objs) = c
  BY <1>1, <1>5, GrowsOn DEF Touches
<1> QED
  BY <1>3, <1>4, <1>5, <1>6

-----------------------------------------------------------------------------
(* The table.                                                              *)

\* A table stays good while its objects keep their lives and libraries.
LEMMA TableKept ==
  ASSUME NEW m, NEW ps \in Seq(DOMAIN m.objs), Table(m, ps), NEW n,
         \A j \in DOMAIN m.objs : /\ n.objs[j].live = m.objs[j].live
                                  /\ n.objs[j].handle = m.objs[j].handle
  PROVE  Table(n, ps)
<1>1. \A k \in DOMAIN ps : ps[k] \in DOMAIN m.objs
  OBVIOUS
<1> QED
  BY <1>1 DEF Table

\* Adding the object just made.
LEMMA TableGrows ==
  ASSUME NEW m, NEW ps \in Seq(DOMAIN m.objs), Table(m, ps), NEW n, Grows(m, n),
         n.objs[Len(n.objs)].live, n.objs[Len(n.objs)].handle \in Libs
  PROVE  /\ Append(ps, Len(n.objs)) \in Seq(DOMAIN n.objs)
         /\ Table(n, Append(ps, Len(n.objs)))
<1> DEFINE i == Len(n.objs)
           qs == Append(ps, i)
<1>1. i \in DOMAIN n.objs /\ i \notin DOMAIN m.objs /\ DOMAIN m.objs \subseteq DOMAIN n.objs
  BY DEF Grows
<1>2. \A k \in DOMAIN ps : ps[k] \in DOMAIN m.objs /\ ps[k] \in DOMAIN n.objs
  BY <1>1
<1>3. ps \in Seq(DOMAIN n.objs)
  BY <1>1, <1>2
<1> HIDE DEF i
<1>4. /\ qs \in Seq(DOMAIN n.objs) /\ Len(qs) = Len(ps) + 1
      /\ DOMAIN qs = DOMAIN ps \cup {Len(qs)} /\ Len(qs) \notin DOMAIN ps
      /\ qs[Len(qs)] = i
      /\ \A k \in DOMAIN ps : qs[k] = ps[k]
  BY <1>1, <1>3
<1> HIDE DEF qs
<1>5. Len(qs) > 0
  BY <1>4
<1>6. n.objs[i].live /\ n.objs[i].handle \in Libs
  BY DEF i
<1>7. \A k \in DOMAIN ps : n.objs[ps[k]] = m.objs[ps[k]]
  BY <1>2 DEF Grows
<1>8. Table(n, qs)
  BY <1>1, <1>2, <1>4, <1>5, <1>6, <1>7 DEF Table
<1> QED
  BY <1>4, <1>8 DEF i, qs

-----------------------------------------------------------------------------
(* The steps.                                                              *)

\* What a step leaves behind that frees nothing twice.
StepInv == TypeOK' /\ Sound(mem') /\ TableInv'

\* The initial memory is sound and its table good.
LEMMA ObjectsInit ==
  Init => ObjectsInv
<1> HAVE Init
<1>1. NewProcess \in Process /\ NewProcess.handle = None /\ NewProcess.dangling = {} /\ NewProcess.live
  BY DEF NewProcess, Process
<1>2. /\ mem.objs = <<NewProcess>> /\ mem.libs = [l \in Libs |-> 0] /\ mem.heap = "sound"
      /\ procs = <<1>> /\ curr = 0
  BY DEF Init
<1>3. mem \in Memory
  <2>1. <<NewProcess>> \in Seq(Process)
    BY <1>1
  <2>2. [l \in Libs |-> 0] \in [Libs -> Nat]
    OBVIOUS
  <2> QED
    BY <2>1, <2>2 DEF Init, Memory
<1>4. DOMAIN mem.objs = {1} /\ Len(mem.objs) = 1 /\ mem.objs[1] = NewProcess
  BY <1>2
<1>5. procs \in Seq({1}) /\ Len(procs) = 1 /\ DOMAIN procs = {1} /\ procs[1] = 1
  BY <1>2
<1>6. TypeOK
  <2>1. Len(mem.objs) \in 1 .. MaxObjs
    BY <1>4, ObjectsAssumption
  <2>2. procs \in Seq(DOMAIN mem.objs)
    BY <1>4, <1>5
  <2>3. curr \in 0 .. Len(procs) \cup {None}
    BY <1>2, <1>5
  <2> QED
    BY <1>3, <2>1, <2>2, <2>3 DEF TypeOK
<1>7. \A lib \in Libs : Holders(mem, lib) = {}
  BY <1>1, <1>4, ObjectsAssumption DEF Holders
<1>8. Sound(mem)
  BY <1>1, <1>2, <1>3, <1>4, <1>7, FS_EmptySet DEF Sound
<1>9. TableInv
  BY <1>1, <1>4, <1>5, <1>2 DEF TableInv, Table
<1> QED
  BY <1>6, <1>8, <1>9 DEF ObjectsInv

\* With one more object there is room, and the old table is as good as before.
LEMMA GrowsFits ==
  ASSUME ObjectsInv, Goes, curr # None, NEW n, Grows(mem, n)
  PROVE  /\ n \in Memory /\ Len(n.objs) \in 1 .. MaxObjs
         /\ procs \in Seq(DOMAIN n.objs) /\ Table(n, procs)
<1>1. mem \in Memory /\ Len(mem.objs) \in 1 .. MaxObjs /\ procs \in Seq(DOMAIN mem.objs)
  BY DEF ObjectsInv, TypeOK
<1>2. n \in Memory
  BY DEF Grows, Sound
<1>3. Len(n.objs) \in 1 .. MaxObjs
  BY <1>1, ObjectsAssumption DEF Goes, Grows
<1>4. procs \in Seq(DOMAIN n.objs)
  <2>1. DOMAIN mem.objs \subseteq DOMAIN n.objs
    BY DEF Grows
  <2>2. \A k \in DOMAIN procs : procs[k] \in DOMAIN n.objs
    BY <1>1, <2>1
  <2> QED
    BY <1>1, <2>2
<1>5. Table(n, procs)
  BY <1>1, TableKept DEF ObjectsInv, TableInv, Goes, Grows
<1> QED
  BY <1>2, <1>3, <1>4, <1>5

\* A step that makes an object and leaves the table as it is.
LEMMA GrowsKept ==
  ASSUME ObjectsInv, Goes, curr # None, Grows(mem, mem'), procs' = procs,
         curr' \in {0, curr, None}
  PROVE  StepInv
<1>1. /\ mem' \in Memory /\ Len(mem'.objs) \in 1 .. MaxObjs
      /\ procs \in Seq(DOMAIN mem'.objs) /\ Table(mem', procs)
  BY GrowsFits
<1>2. curr \in 0 .. Len(procs) \cup {None} /\ Len(procs) \in Nat /\ curr # 1
  BY DEF ObjectsInv, TypeOK, TableInv, Goes
<1>3. TypeOK'
  BY <1>1, <1>2 DEF TypeOK
<1>4. TableInv'
  BY <1>1, <1>2 DEF TableInv
<1>5. Sound(mem')
  BY DEF Grows
<1> QED
  BY <1>3, <1>4, <1>5 DEF StepInv

\* A step that makes a live object with a library and puts it in the table.
LEMMA GrowsAdded ==
  ASSUME ObjectsInv, Goes, curr # None, Grows(mem, mem'),
         mem'.objs[Len(mem'.objs)].live, mem'.objs[Len(mem'.objs)].handle \in Libs,
         procs' = Append(procs, Len(mem'.objs)),
         curr' \in {0, curr, None, Len(procs')}
  PROVE  StepInv
<1>1. mem' \in Memory /\ Len(mem'.objs) \in 1 .. MaxObjs
  BY GrowsFits
<1>2. /\ procs \in Seq(DOMAIN mem.objs) /\ Table(mem, procs)
      /\ curr \in 0 .. Len(procs) \cup {None} /\ curr # 1
  BY DEF ObjectsInv, TypeOK, TableInv, Goes
<1>3. procs' \in Seq(DOMAIN mem'.objs) /\ Table(mem', procs')
  BY <1>2, TableGrows
<1>4. Len(procs') = Len(procs) + 1 /\ Len(procs) \in Nat /\ Len(procs) > 0
  BY <1>2 DEF Table
<1>5. curr' \in 0 .. Len(procs') \cup {None} /\ (curr' = None \/ curr' # 1)
  BY <1>2, <1>4
<1>6. TypeOK'
  BY <1>1, <1>2, <1>3, <1>5 DEF TypeOK
<1>7. TableInv'
  BY <1>3, <1>5 DEF TableInv
<1>8. Sound(mem')
  BY DEF Grows
<1> QED
  BY <1>6, <1>7, <1>8 DEF StepInv

\* The daemon loads init or a shell.
LEMMA DaemonStartsStep ==
  ObjectsInv /\ DaemonStarts => StepInv
<1> SUFFICES ASSUME ObjectsInv, DaemonStarts PROVE StepInv
  OBVIOUS
<1>1. /\ mem \in Memory /\ procs \in Seq(DOMAIN mem.objs) /\ Sound(mem)
      /\ mem.heap = "sound"
  BY DEF ObjectsInv, TypeOK, DaemonStarts, Goes
<1>2. curr = 0 /\ Goes /\ curr # None
  BY ObjectsAssumption DEF DaemonStarts
<1>3. Table(mem, procs)
  BY <1>2 DEF ObjectsInv, TableInv, Goes
<1>4. PICK lib \in Libs : \E loaded \in Loads(mem, lib) :
        LET i == Len(loaded.mem.objs)
            added == Append(procs, i)
            given_up == IF Len(procs) = 1 THEN None ELSE 0
        IN  \/ ~loaded.ok /\ mem' = loaded.mem /\ procs' = procs /\ curr' = given_up
            \/ loaded.ok /\ mem' = loaded.mem /\ procs' = added /\ curr' \in {0, given_up}
            \/ /\ loaded.ok
               /\ mem' = WithArgv(loaded.mem, i) /\ procs' = added /\ curr' = Len(added)
  BY DEF DaemonStarts
<1>5. PICK loaded \in Loads(mem, lib) :
        LET i == Len(loaded.mem.objs)
            added == Append(procs, i)
            given_up == IF Len(procs) = 1 THEN None ELSE 0
        IN  \/ ~loaded.ok /\ mem' = loaded.mem /\ procs' = procs /\ curr' = given_up
            \/ loaded.ok /\ mem' = loaded.mem /\ procs' = added /\ curr' \in {0, given_up}
            \/ /\ loaded.ok
               /\ mem' = WithArgv(loaded.mem, i) /\ procs' = added /\ curr' = Len(added)
  BY <1>4
<1> DEFINE n == loaded.mem
           i == Len(n.objs)
           added == Append(procs, i)
<1>6. /\ Grows(mem, n) /\ loaded.ok \in BOOLEAN
      /\ loaded.ok => n.objs[i].live /\ n.objs[i].handle = lib
  BY <1>1, LoadsGrows
<1> HIDE DEF n
<1>7. CASE ~loaded.ok /\ mem' = n /\ procs' = procs /\ curr' \in {0, None}
  BY <1>2, <1>6, <1>7, GrowsKept
<1>8. CASE loaded.ok /\ mem' = n /\ procs' = added /\ curr' \in {0, None}
  BY <1>2, <1>6, <1>8, GrowsAdded
<1>9. CASE loaded.ok /\ mem' = WithArgv(n, i) /\ procs' = added /\ curr' = Len(added)
  <2>1. Sound(n) /\ i \in DOMAIN n.objs
    BY <1>6 DEF Grows
  <2> DEFINE o == WithArgv(n, i)
  <2>2. /\ Sound(o) /\ Touches(n, o, i)
        /\ o.objs[i].live = n.objs[i].live /\ o.objs[i].handle = n.objs[i].handle
    BY <2>1, WithArgvSound
  <2> HIDE DEF o
  <2>3. Grows(mem, o) /\ Len(o.objs) = i
    BY <1>6, <2>2, GrowsOn DEF Touches
  <2>4. mem' = o /\ procs' = Append(procs, Len(o.objs)) /\ curr' = Len(procs')
    BY <1>9, <2>3 DEF o
  <2> QED
    BY <1>2, <1>6, <1>9, <2>2, <2>3, <2>4, GrowsAdded
<1> QED
  BY <1>5, <1>7, <1>8, <1>9 DEF n

\* What a running program is: a live object with a library.
LEMMA RunningObject ==
  ASSUME ObjectsInv, Running, mem.heap = "sound"
  PROVE  /\ curr \in DOMAIN procs /\ curr # None /\ curr # 1
         /\ procs[curr] \in DOMAIN mem.objs
         /\ mem.objs[procs[curr]].handle \in Libs
         /\ procs \in Seq(DOMAIN mem.objs) /\ Table(mem, procs)
         /\ Sound(mem) /\ mem \in Memory
<1>1. procs \in Seq(DOMAIN mem.objs) /\ curr \in 0 .. Len(procs) \cup {None} /\ curr # None /\ curr # 0
  BY DEF ObjectsInv, TypeOK, Running
<1>2. curr \in DOMAIN procs
  BY <1>1
<1>3. Table(mem, procs) /\ curr # 1 /\ Sound(mem) /\ mem \in Memory
  BY <1>1 DEF ObjectsInv, TableInv, TypeOK
<1>4. mem.objs[procs[curr]].handle \in Libs
  BY <1>2, <1>3 DEF Table
<1> QED
  BY <1>1, <1>2, <1>3, <1>4

\* The child as the error path of forkCopy leaves it before delete: with pointers
\* to what was freed, and after dlsym with a library closed under its handle.
SpoiltChild(child, c, fields) == [child EXCEPT !.objs[c].dangling = fields]

ClosedChild(child, c, lib) ==
  [[DlOpen(child, c, lib) EXCEPT !.objs[c].dangling = Fields] EXCEPT !.libs[lib] = @ - 1]

\* Only the object c changes, and the count of lib comes out as it was.
LEMMA SpoiltPut ==
  ASSUME NEW child \in Memory, NEW c \in DOMAIN child.objs, child.objs[c] = NewProcess,
         NEW fields
  PROVE  SpoiltChild(child, c, fields) =
           Put(child, c, [NewProcess EXCEPT !.dangling = fields], child.libs, child.heap)
BY Exchanged DEF SpoiltChild, Put

LEMMA ClosedPut ==
  ASSUME NEW child \in Memory, NEW c \in DOMAIN child.objs, child.objs[c] = NewProcess,
         NEW lib \in Libs
  PROVE  ClosedChild(child, c, lib) =
           Put(child, c, [NewProcess EXCEPT !.handle = lib, !.dangling = Fields],
               child.libs, child.heap)
<1> DEFINE o == [NewProcess EXCEPT !.handle = lib]
           p == [o EXCEPT !.dangling = Fields]
           libs == [child.libs EXCEPT ![lib] = @ + 1]
           opened == DlOpen(child, c, lib)
           spoilt == [opened EXCEPT !.objs[c].dangling = Fields]
           closed == [spoilt EXCEPT !.libs[lib] = @ - 1]
<1>1. child.libs \in [Libs -> Nat] /\ child.objs \in Seq(Process)
  BY DEF Memory
<1>2. opened = [child EXCEPT !.objs = [child.objs EXCEPT ![c] = o], !.libs = libs]
  BY DEF DlOpen
<1>3. libs \in [Libs -> Nat] /\ [libs EXCEPT ![lib] = @ - 1] = child.libs
  BY <1>1
<1> HIDE DEF libs
<1>4. opened = [objs |-> [child.objs EXCEPT ![c] = o], libs |-> libs, heap |-> child.heap]
  BY <1>2, Exchanged
<1> HIDE DEF opened
<1>5. opened.objs[c] = o
  <2> HIDE DEF o
  <2> QED
    BY <1>1, <1>4
<1>6. spoilt = [objs |-> [child.objs EXCEPT ![c] = p], libs |-> libs, heap |-> child.heap]
  <2> DEFINE objs == [opened.objs EXCEPT ![c] = p]
  <2>1. spoilt = [opened EXCEPT !.objs = objs]
    BY <1>5
  <2>2. objs = [child.objs EXCEPT ![c] = p]
    <3> HIDE DEF o, p
    <3> QED
      BY <1>1, <1>4
  <2> HIDE DEF objs, spoilt
  <2>3. spoilt = [objs |-> objs, libs |-> libs, heap |-> child.heap]
    BY <1>4, <2>1
  <2> QED
    BY <2>2, <2>3
<1> HIDE DEF spoilt, p, o
<1>7. closed = [objs |-> [child.objs EXCEPT ![c] = p], libs |-> child.libs, heap |-> child.heap]
  <2>1. spoilt.libs = libs /\ spoilt.heap = child.heap
        /\ spoilt.objs = [child.objs EXCEPT ![c] = p]
    BY <1>6
  <2>2. closed = [spoilt EXCEPT !.libs = [libs EXCEPT ![lib] = @ - 1]]
    BY <2>1
  <2>3. closed = [spoilt EXCEPT !.libs = child.libs]
    BY <1>3, <2>2
  <2> HIDE DEF closed
  <2> QED
    BY <1>6, <2>3
<1>8. ClosedChild(child, c, lib) = closed
  BY DEF ClosedChild, closed, spoilt, opened
<1>9. p = [NewProcess EXCEPT !.handle = lib, !.dangling = Fields]
  BY DEF p, o
<1> QED
  BY <1>7, <1>8, <1>9 DEF Put

\* The error path of forkCopy before dlsym: the child is gone and leaves no trace
\* but the heap.
LEMMA FreedTwiceStep ==
  ASSUME ObjectsInv, Running, Goes, NEW fields \in SUBSET Fields,
         NEW child, Grows(mem, child), NEW c, c = Len(child.objs), child.objs[c] = NewProcess,
         mem' = Delete(SpoiltChild(child, c, fields), c),
         curr' \in {curr, None}, procs' = procs
  PROVE  StepInv
<1>1. /\ Sound(mem) /\ mem \in Memory /\ curr # None /\ curr # 1
      /\ procs \in Seq(DOMAIN mem.objs) /\ Table(mem, procs)
  BY RunningObject DEF Goes
<1>2. child \in Memory /\ c \in DOMAIN child.objs /\ Sound(child)
      /\ child.heap \in {"sound", "corrupt"} /\ child.libs \in [Libs -> Nat]
  BY DEF Grows, Sound, Memory
<1> DEFINE spoilt == SpoiltChild(child, c, fields)
           o == [NewProcess EXCEPT !.dangling = fields]
<1>3. o \in Process /\ o.handle = None
  BY DEF Process, NewProcess
<1>4. spoilt = Put(child, c, o, child.libs, child.heap)
  BY <1>2, SpoiltPut
<1> HIDE DEF o, spoilt
<1>5. spoilt \in Memory /\ c \in DOMAIN spoilt.objs /\ spoilt.objs[c] = o
  BY <1>2, <1>3, <1>4, PutObjs
<1> DEFINE heap == IF spoilt.objs[c].live /\ spoilt.objs[c].dangling = {}
                   THEN spoilt.heap ELSE "corrupt"
<1>6. heap \in {"sound", "corrupt"}
  BY <1>5 DEF Memory
<1>7. mem' = Put(spoilt, c, Deleted, Released(spoilt, c), heap)
  BY <1>5, DeletePut DEF spoilt
<1> HIDE DEF heap
<1>8. Released(spoilt, c) = child.libs
  <2>1. spoilt.libs = child.libs
    BY <1>4 DEF Put
  <2>2. \A l \in Libs : l # spoilt.objs[c].handle
    BY <1>3, <1>5, ObjectsAssumption
  <2> QED
    BY <1>2, <2>1, <2>2 DEF Released
<1>9. [spoilt.objs EXCEPT ![c] = Deleted] = [child.objs EXCEPT ![c] = Deleted]
  <2>1. spoilt.objs = [child.objs EXCEPT ![c] = o]
    BY <1>4 DEF Put
  <2>2. child.objs \in Seq(Process)
    BY <1>2 DEF Memory
  <2> QED
    BY <1>2, <2>1, <2>2
<1>10. mem' = Put(child, c, Deleted, child.libs, heap)
  BY <1>7, <1>8, <1>9 DEF Put
<1>11. Deleted \in Process /\ Deleted.handle = child.objs[c].handle /\ Deleted.dangling = {}
  BY DEF Deleted, NewProcess, Process
<1> DEFINE n == Put(child, c, Deleted, child.libs, heap)
<1>12. Sound(n)
  BY <1>2, <1>6, <1>11, PutKeeps
<1>13. /\ DOMAIN n.objs = DOMAIN child.objs /\ Len(n.objs) = Len(child.objs)
       /\ \A j \in DOMAIN child.objs \ {c} : n.objs[j] = child.objs[j]
  BY <1>2, <1>6, <1>11, PutObjs
<1> HIDE DEF n
<1>14. mem' = n
  BY <1>10 DEF n
<1>15. \A j \in DOMAIN mem.objs : n.objs[j] = mem.objs[j]
  BY <1>13 DEF Grows
<1>16. Table(n, procs)
  BY <1>1, <1>15, TableKept
<1>17. /\ n \in Memory /\ Len(n.objs) \in 1 .. MaxObjs /\ procs \in Seq(DOMAIN n.objs)
  BY <1>1, <1>12, <1>13, GrowsFits DEF Sound
<1>18. curr' \in 0 .. Len(procs') \cup {None}
  BY DEF ObjectsInv, TypeOK
<1>19. TypeOK'
  BY <1>14, <1>17, <1>18 DEF TypeOK
<1>20. TableInv'
  BY <1>1, <1>14, <1>16 DEF TableInv
<1> QED
  BY <1>12, <1>14, <1>19, <1>20 DEF StepInv

\* The error path after dlsym: there is one closing too many, but not more closings
\* than openings, for the parent has the library open and still runs.
LEMMA ClosedTwiceStep ==
  ASSUME ObjectsInv, Running, Goes,
         NEW child, Grows(mem, child), NEW c, c = Len(child.objs), child.objs[c] = NewProcess,
         NEW lib, lib = mem.objs[procs[curr]].handle,
         mem' = Delete(ClosedChild(child, c, lib), c),
         curr' \in {curr, None}, procs' = procs
  PROVE  TypeOK' /\ mem'.heap = "corrupt"
<1>1. /\ mem \in Memory /\ curr # None /\ procs[curr] \in DOMAIN mem.objs
      /\ procs \in Seq(DOMAIN mem.objs) /\ lib \in Libs
  BY RunningObject DEF Goes
<1>2. child \in Memory /\ c \in DOMAIN child.objs /\ Sound(child)
      /\ child.heap \in {"sound", "corrupt"} /\ child.libs \in [Libs -> Nat]
  BY DEF Grows, Sound, Memory
<1>3. child.libs[lib] - 1 \in Nat
  <2>1. procs[curr] \in Holders(child, lib)
    BY <1>1 DEF Grows, Holders
  <2>2. IsFiniteSet(Holders(child, lib)) /\ Cardinality(Holders(child, lib)) \in Nat
    BY <1>2, HoldersFinite
  <2>3. Cardinality(Holders(child, lib)) # 0
    BY <2>1, <2>2, FS_EmptySet
  <2>4. child.libs[lib] = Cardinality(Holders(child, lib))
    BY <1>1, <1>2 DEF Sound
  <2> QED
    BY <2>2, <2>3, <2>4
<1> DEFINE closed == ClosedChild(child, c, lib)
           p == [NewProcess EXCEPT !.handle = lib, !.dangling = Fields]
<1>4. p \in Process /\ p.handle = lib /\ p.dangling # {}
  BY <1>1 DEF Process, NewProcess, Fields
<1>5. closed = Put(child, c, p, child.libs, child.heap)
  BY <1>1, <1>2, ClosedPut
<1> HIDE DEF p, closed
<1>6. closed \in Memory /\ c \in DOMAIN closed.objs /\ closed.objs[c] = p
      /\ DOMAIN closed.objs = DOMAIN child.objs /\ Len(closed.objs) = Len(child.objs)
  BY <1>2, <1>4, <1>5, PutObjs
<1>7. mem' = Put(closed, c, Deleted, Released(closed, c), "corrupt")
  BY <1>4, <1>6, DeletePut DEF closed
<1>8. Released(closed, c) \in [Libs -> Nat]
  <2>1. closed.libs = child.libs /\ closed.objs[c].handle = lib
    BY <1>4, <1>5, <1>6 DEF Put
  <2> QED
    BY <1>2, <1>3, <2>1 DEF Released
<1>9. Deleted \in Process
  BY DEF Deleted, NewProcess, Process
<1> DEFINE n == Put(closed, c, Deleted, Released(closed, c), "corrupt")
<1>10. n \in Memory /\ DOMAIN n.objs = DOMAIN child.objs /\ Len(n.objs) = Len(child.objs)
  BY <1>6, <1>8, <1>9, PutObjs
<1>11. n.heap = "corrupt"
  BY DEF Put
<1> HIDE DEF n
<1>12. mem' = n
  BY <1>7 DEF n
<1>13. Len(child.objs) \in 1 .. MaxObjs /\ procs \in Seq(DOMAIN child.objs)
  BY <1>1, GrowsFits
<1>14. curr' \in 0 .. Len(procs') \cup {None}
  BY DEF ObjectsInv, TypeOK
<1>15. TypeOK'
  BY <1>10, <1>12, <1>13, <1>14 DEF TypeOK
<1> QED
  BY <1>11, <1>12, <1>15

\* forkCopy that fails: either the child leaves no trace but the heap, or its
\* library was closed twice.
LEMMA ForkCopyFailsStep ==
  ASSUME ObjectsInv, Running, Goes, ForkCopyFails
  PROVE  ObjectsInv'
<1> DEFINE child == [mem EXCEPT !.objs = Append(@, NewProcess)]
           c == Len(child.objs)
           lib == mem.objs[procs[curr]].handle
<1>1. curr' \in {curr, None} /\ procs' = procs
  BY DEF ForkCopyFails
<1>2. \/ \E fields \in SUBSET Fields : mem' = Delete(SpoiltChild(child, c, fields), c)
      \/ mem' = Delete(ClosedChild(child, c, lib), c)
  BY DEF ForkCopyFails, Fields, SpoiltChild, ClosedChild
<1>3. Grows(mem, child) /\ child.objs[c] = NewProcess
  <2>1. Sound(mem)
    BY RunningObject DEF Goes
  <2> QED
    BY <2>1, AppendSound DEF Grows
<1> HIDE DEF child
<1>4. CASE \E fields \in SUBSET Fields : mem' = Delete(SpoiltChild(child, c, fields), c)
  <2>1. StepInv
    BY <1>1, <1>3, <1>4, FreedTwiceStep
  <2> QED
    BY <2>1 DEF StepInv, ObjectsInv
<1>5. CASE mem' = Delete(ClosedChild(child, c, lib), c)
  <2>1. TypeOK' /\ mem'.heap = "corrupt"
    BY <1>1, <1>3, <1>5, ClosedTwiceStep
  <2> QED
    BY <2>1 DEF ObjectsInv
<1> QED
  BY <1>2, <1>4, <1>5

\* processFork.
LEMMA ForkStep ==
  ObjectsInv /\ Fork => ObjectsInv'
<1> SUFFICES ASSUME ObjectsInv, Fork PROVE ObjectsInv'
  OBVIOUS
<1>1. Running /\ Goes
  BY DEF Fork
<1>2. /\ curr # None /\ procs[curr] \in DOMAIN mem.objs
      /\ mem.objs[procs[curr]].handle \in Libs /\ Sound(mem)
  BY <1>1, RunningObject DEF Goes
<1>3. CASE ForkCopyFails
  BY <1>1, <1>3, ForkCopyFailsStep
<1>4. CASE /\ mem' = ForkCopy(procs[curr])
           /\ \/ procs' = procs /\ curr' = curr
              \/ procs' = Append(procs, Len(mem'.objs)) /\ curr' \in {curr, Len(procs')}
  <2>1. /\ Grows(mem, mem') /\ mem'.objs[Len(mem'.objs)].live
        /\ mem'.objs[Len(mem'.objs)].handle \in Libs
    BY <1>2, <1>4, ForkCopyGrows
  <2>2. ASSUME procs' = procs, curr' = curr
        PROVE  StepInv
    BY <1>1, <1>2, <1>4, <2>1, <2>2, GrowsKept
  <2>3. ASSUME procs' = Append(procs, Len(mem'.objs)), curr' \in {curr, Len(procs')}
        PROVE  StepInv
    BY <1>1, <1>2, <1>4, <2>1, <2>3, GrowsAdded
  <2>4. StepInv
    BY <1>4, <2>2, <2>3
  <2> QED
    BY <2>4 DEF StepInv, ObjectsInv
<1> QED
  BY <1>3, <1>4 DEF Fork

\* exec: the caller's object is freed after its successor is in place.
LEMMA ExecStep ==
  ObjectsInv /\ Exec => StepInv
<1> SUFFICES ASSUME ObjectsInv, Exec PROVE StepInv
  OBVIOUS
<1>1. Running /\ Goes /\ curr' = curr
  BY DEF Exec
<1>2. /\ curr # None /\ curr # 1 /\ curr \in DOMAIN procs /\ procs[curr] \in DOMAIN mem.objs
      /\ procs \in Seq(DOMAIN mem.objs) /\ Table(mem, procs)
      /\ Sound(mem)
  BY <1>1, RunningObject DEF Goes
<1>3. PICK lib \in Libs : \E loaded \in Loads(mem, lib) :
        LET i == Len(loaded.mem.objs) IN
        \/ ~loaded.ok /\ mem' = loaded.mem /\ procs' = procs
        \/ /\ loaded.ok
           /\ \E m \in SetCwd(loaded.mem, i) : mem' = WithArgv(Delete(m, procs[curr]), i)
           /\ procs' = [procs EXCEPT ![curr] = i]
  BY DEF Exec
<1>4. PICK loaded \in Loads(mem, lib) :
        LET i == Len(loaded.mem.objs) IN
        \/ ~loaded.ok /\ mem' = loaded.mem /\ procs' = procs
        \/ /\ loaded.ok
           /\ \E m \in SetCwd(loaded.mem, i) : mem' = WithArgv(Delete(m, procs[curr]), i)
           /\ procs' = [procs EXCEPT ![curr] = i]
  BY <1>3
<1> DEFINE n == loaded.mem
           i == Len(n.objs)
<1>5. /\ Grows(mem, n)
      /\ loaded.ok => n.objs[i].live /\ n.objs[i].handle = lib
  BY <1>2, LoadsGrows
<1> HIDE DEF n
<1>6. CASE ~loaded.ok /\ mem' = n /\ procs' = procs
  BY <1>1, <1>2, <1>5, <1>6, GrowsKept
<1>7. CASE /\ loaded.ok
           /\ \E m \in SetCwd(n, i) : mem' = WithArgv(Delete(m, procs[curr]), i)
           /\ procs' = [procs EXCEPT ![curr] = i]
  <2>1. PICK m \in SetCwd(n, i) : mem' = WithArgv(Delete(m, procs[curr]), i)
    BY <1>7
  <2>2. Sound(n) /\ i \in DOMAIN n.objs /\ procs[curr] \in DOMAIN n.objs /\ i # procs[curr]
    BY <1>2, <1>5 DEF Grows
  <2>3. /\ Sound(m) /\ Touches(n, m, i)
        /\ m.objs[i].live = n.objs[i].live /\ m.objs[i].handle = n.objs[i].handle
    BY <2>2, SetCwdSound
  <2>4. Grows(mem, m) /\ Len(m.objs) = i /\ procs[curr] \in DOMAIN m.objs /\ i \in DOMAIN m.objs
    BY <1>5, <2>2, <2>3, GrowsOn DEF Touches
  <2> DEFINE d == Delete(m, procs[curr])
             o == WithArgv(d, i)
  <2>5. Sound(d) /\ Touches(m, d, procs[curr])
    <3>1. m.objs[procs[curr]].live
      BY <1>2, <2>4 DEF Grows, Table
    <3> QED
      BY <2>3, <2>4, <3>1, DeleteSound
  <2> HIDE DEF d
  <2>6. i \in DOMAIN d.objs /\ d.objs[i] = m.objs[i]
    BY <2>2, <2>4, <2>5 DEF Touches
  <2>7. /\ Sound(o) /\ Touches(d, o, i)
        /\ o.objs[i].live = d.objs[i].live /\ o.objs[i].handle = d.objs[i].handle
    BY <2>5, <2>6, WithArgvSound
  <2> HIDE DEF o
  <2>8. mem' = o
    BY <2>1 DEF o, d
  \* Argument and directory of the new object, and all of the old one, may differ.
  <2>9. Len(o.objs) = Len(m.objs) /\ DOMAIN o.objs = DOMAIN m.objs /\ o.heap = mem.heap
    BY <2>4, <2>5, <2>7 DEF Touches, Grows
  <2>10. \A j \in DOMAIN m.objs \ {i, procs[curr]} : o.objs[j] = m.objs[j]
    BY <2>5, <2>7 DEF Touches
  <2>11. o.objs[i].live /\ o.objs[i].handle \in Libs
    BY <1>5, <1>7, <2>3, <2>6, <2>7
  <2>12. procs' \in Seq(DOMAIN o.objs) /\ Table(o, procs')
    <3>1. procs' = [procs EXCEPT ![curr] = i]
      BY <1>7
    <3>2. /\ Len(procs') = Len(procs) /\ DOMAIN procs' = DOMAIN procs /\ procs'[curr] = i
          /\ \A k \in DOMAIN procs \ {curr} : procs'[k] = procs[k]
      BY <1>2, <3>1
    <3>3. \A k \in DOMAIN procs : procs[k] \in DOMAIN mem.objs
      BY <1>2
    <3>4. \A k \in DOMAIN procs \ {curr} : procs[k] # procs[curr]
      BY <1>2 DEF Table
    <3>5. \A k \in DOMAIN procs \ {curr} :
            procs'[k] \in DOMAIN mem.objs /\ procs'[k] # i /\ o.objs[procs'[k]] = mem.objs[procs[k]]
      BY <2>4, <2>10, <3>2, <3>3, <3>4 DEF Grows
    <3>6. procs' \in Seq(DOMAIN o.objs)
      BY <1>2, <2>2, <2>4, <2>9, <3>1, <3>3 DEF Grows
    <3>7. Table(o, procs')
      BY <1>2, <2>11, <3>2, <3>3, <3>5 DEF Table
    <3> QED
      BY <3>6, <3>7
  <2>13. mem' \in Memory /\ Len(mem'.objs) \in 1 .. MaxObjs
    BY <1>1, <1>2, <2>4, <2>7, <2>8, <2>9, GrowsFits DEF Sound
  <2>14. curr' \in 0 .. Len(procs') \cup {None}
    BY <1>1, <1>2, <1>7
  <2>15. TypeOK'
    BY <1>1, <1>2, <2>8, <2>12, <2>13, <2>14 DEF TypeOK
  <2>16. TableInv' /\ Sound(mem')
    BY <1>1, <1>2, <2>7, <2>8, <2>9, <2>12 DEF TableInv, Goes
  <2> QED
    BY <2>15, <2>16 DEF StepInv
<1> QED
  BY <1>4, <1>6, <1>7 DEF n

\* chdir.
LEMMA ChDirStep ==
  ObjectsInv /\ ChDir => StepInv
<1> SUFFICES ASSUME ObjectsInv, ChDir PROVE StepInv
  OBVIOUS
<1>1. /\ Running /\ mem.heap = "sound" /\ mem' \in SetCwd(mem, procs[curr])
      /\ procs' = procs /\ curr' = curr
  BY DEF ChDir
<1>2. /\ procs[curr] \in DOMAIN mem.objs /\ Sound(mem)
      /\ procs \in Seq(DOMAIN mem.objs) /\ Table(mem, procs)
  BY <1>1, RunningObject
<1>3. /\ Sound(mem') /\ Touches(mem, mem', procs[curr])
      /\ mem'.objs[procs[curr]].live = mem.objs[procs[curr]].live
      /\ mem'.objs[procs[curr]].handle = mem.objs[procs[curr]].handle
  BY <1>1, <1>2, SetCwdSound
<1>4. Table(mem', procs)
  BY <1>2, <1>3, TableKept DEF Touches
<1>5. TypeOK'
  BY <1>1, <1>3 DEF TypeOK, ObjectsInv, Touches, Sound
<1>6. TableInv'
  BY <1>1, <1>3, <1>4 DEF TableInv, ObjectsInv, Touches
<1> QED
  BY <1>3, <1>5, <1>6 DEF StepInv

\* exit: nothing runs afterwards.
LEMMA ExitStep ==
  ObjectsInv /\ Exit => StepInv
<1> SUFFICES ASSUME ObjectsInv, Exit PROVE StepInv
  OBVIOUS
<1>1. /\ Running /\ mem.heap = "sound" /\ mem' = Delete(mem, procs[curr])
      /\ procs' = procs /\ curr' = None
  BY DEF Exit
<1>2. procs[curr] \in DOMAIN mem.objs /\ Sound(mem) /\ mem.objs[procs[curr]].live
  BY <1>1, RunningObject DEF Table
<1>3. Sound(mem') /\ Touches(mem, mem', procs[curr])
  BY <1>1, <1>2, DeleteSound
<1>4. TypeOK'
  BY <1>1, <1>3 DEF TypeOK, ObjectsInv, Touches, Sound
<1>5. TableInv'
  BY <1>1, <1>3 DEF TableInv, Touches
<1> QED
  BY <1>3, <1>4, <1>5 DEF StepInv

-----------------------------------------------------------------------------
(* The theorems.                                                           *)

\* Every step keeps the invariant.
LEMMA ObjectsNext ==
  ObjectsInv /\ [Next]_vars => ObjectsInv'
<1> SUFFICES ASSUME ObjectsInv, [Next]_vars PROVE ObjectsInv'
  OBVIOUS
<1>1. CASE UNCHANGED vars
  BY <1>1 DEF vars, ObjectsInv, TypeOK, TableInv
<1>2. CASE Next
  <2>1. CASE Fork
    BY <2>1, ForkStep
  <2>2. CASE DaemonStarts \/ Exec \/ ChDir \/ Exit
    <3>1. StepInv
      BY <2>2, DaemonStartsStep, ExecStep, ChDirStep, ExitStep
    <3> QED
      BY <3>1 DEF StepInv, ObjectsInv
  <2> QED
    BY <1>2, <2>1, <2>2 DEF Next
<1> QED
  BY <1>1, <1>2

\* The invariant holds throughout.
LEMMA ObjectsAlways == Spec => []ObjectsInv
BY ObjectsInit, ObjectsNext, PTL DEF Spec

\* The memory of Process objects keeps its type (process.h:47).
THEOREM ObjectsTypeCorrect == Spec => []TypeOK
<1>1. ObjectsInv => TypeOK
  BY DEF ObjectsInv
<1> QED
  BY <1>1, ObjectsAlways, PTL

\* dlopen and dlclose balance (process.cpp:37, 310, 397), wherever loading, fork
\* and exec fail, until the error path of forkCopy (process.cpp:337) has freed or
\* closed something twice.
THEOREM HandlesAlwaysBalanced == Spec => []HandlesBalanced
<1>1. ObjectsInv => HandlesBalanced
  BY DEF ObjectsInv, Sound, HandlesBalanced, Holders
<1> QED
  BY <1>1, ObjectsAlways, PTL

\* Until then the table leads to live objects and the running program stays
\* mapped (server.cpp:209).
THEOREM TableAlwaysUsable == Spec => []TableUsable
<1>1. ObjectsInv => TableUsable
  <2> SUFFICES ASSUME ObjectsInv, mem.heap = "sound", curr # None
               PROVE  /\ \A k \in DOMAIN procs : mem.objs[procs[k]].live
                      /\ Running => mem.libs[mem.objs[procs[curr]].handle] > 0
    BY DEF TableUsable
  <2>1. \A k \in DOMAIN procs : mem.objs[procs[k]].live
    BY DEF ObjectsInv, TableInv, Table
  <2>2. ASSUME Running PROVE mem.libs[mem.objs[procs[curr]].handle] > 0
    <3> DEFINE i == procs[curr]
               lib == mem.objs[i].handle
    <3>1. i \in DOMAIN mem.objs /\ lib \in Libs /\ Sound(mem) /\ mem \in Memory
      BY <2>2, RunningObject
    <3>2. i \in Holders(mem, lib)
      BY <3>1 DEF Holders
    <3>3. IsFiniteSet(Holders(mem, lib)) /\ Cardinality(Holders(mem, lib)) \in Nat
      BY <3>1, HoldersFinite
    <3> HIDE DEF i, lib
    <3>4. Cardinality(Holders(mem, lib)) > 0
      BY <3>2, <3>3, FS_EmptySet
    <3>5. mem.libs[lib] > 0
      BY <3>1, <3>4 DEF Sound
    <3> QED
      BY <3>5 DEF lib, i
  <2> QED
    BY <2>1, <2>2
<1> QED
  BY <1>1, ObjectsAlways, PTL
=============================================================================

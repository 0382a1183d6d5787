------------------------- MODULE SharedMemoryProofs -------------------------
(***************************************************************************)
(* SharedMemory's properties, for every number of objects, constructions,  *)
(* deaths and failing calls.  Each conjunct of SharedMemoryInv has a lemma *)
(* that says a step of one object preserves it.                            *)
(***************************************************************************)
EXTENDS SharedMemoryInvariant, FiniteSetTheorems, TLAPS

ObjectStep(o) == Constructor(o) \/ Destructor(o) \/ Fault(o)

(* An object's own variables are its own. *)
LEMMA OthersStand ==
  ASSUME SharedMemoryTypeOK, NEW o \in Objects, NEW q \in Objects \ {o}, ObjectStep(o)
  PROVE  /\ pc'[q] = pc[q] /\ dataSize'[q] = dataSize[q] /\ fileDes'[q] = fileDes[q]
         /\ mapped'[q] = mapped[q] /\ holdsOwnership'[q] = holdsOwnership[q]
<1> USE DEF SharedMemoryTypeOK, Go, lockVars
<1>1. CASE \E size \in Sizes : Construct(o, size)
  BY <1>1 DEF Construct
<1>2. CASE Open(o) \/ CheckSize(o) \/ Map(o) \/ Count(o)
  BY <1>2 DEF Open, CheckSize, Map, Count
<1>3. CASE TryAlloc(o) \/ Create(o) \/ Truncate(o) \/ EndAlloc(o)
  BY <1>3 DEF TryAlloc, Create, Truncate, EndAlloc, Acquire, AcquireFails, Release
<1>4. CASE Unwind(o) \/ Uncount(o) \/ Close(o)
  BY <1>4 DEF Unwind, Uncount, Close, CloseLock, Release
<1>5. CASE TryFree(o) \/ Unlink(o) \/ EndFree(o)
  BY <1>5 DEF TryFree, Unlink, EndFree, Acquire, AcquireFails, Release
<1>6. CASE Fault(o)
  BY <1>6 DEF Fault, CallFails, Die, LoseLock
<1> QED
  BY <1>1, <1>2, <1>3, <1>4, <1>5, <1>6 DEF ObjectStep, Constructor, Destructor

(* An object that is past Acquire holds the semaphore, and no other does.  *)
LEMMA LockStep ==
  ASSUME SharedMemoryTypeOK, LockInv, NEW o \in Objects, ObjectStep(o)
  PROVE  LockInv'
<1> USE DEF SharedMemoryTypeOK, LockInv, Go, lockVars, InCritical
<1>1. CASE \E size \in Sizes : Construct(o, size)
  BY <1>1 DEF Construct
<1>2. CASE Open(o) \/ CheckSize(o) \/ Map(o) \/ Count(o) \/ Uncount(o)
  BY <1>2 DEF Open, CheckSize, Map, Count, Uncount, Live
<1>3. CASE Create(o) \/ Truncate(o) \/ Unlink(o)
  BY <1>3 DEF Create, Truncate, Unlink
<1>4. CASE TryAlloc(o) \/ TryFree(o)
  BY <1>4 DEF TryAlloc, TryFree, Acquire, AcquireFails
<1>5. CASE EndAlloc(o) \/ EndFree(o)
  BY <1>5 DEF EndAlloc, EndFree, Release
<1>6. CASE Unwind(o) \/ Close(o)
  BY <1>6 DEF Unwind, Close, CloseLock, Release
<1>7. CASE Fault(o)
  <2>1. faults' # 0 /\ faults' \in Nat
    BY <1>7 DEF Fault
  <2>2. CASE CallFails(o)
    BY <2>1, <2>2 DEF CallFails
  <2>3. CASE Die(o)
    BY <2>1, <2>3 DEF Die, LoseLock
  <2> QED
    BY <1>7, <2>2, <2>3 DEF Fault
<1> QED
  BY <1>1, <1>2, <1>3, <1>4, <1>5, <1>6, <1>7 DEF ObjectStep, Constructor, Destructor

----------------------------------------------------------------------------
(* The reference count of a region counts an object that is live in it,    *)
(* and two that are.                                                       *)
LEMMA LiveAreCounted ==
  ASSUME SharedMemoryTypeOK, CountInv, NEW o \in Objects, Live(o)
  PROVE  /\ mapped[o] \in 1 .. Len(regions)
         /\ regions[mapped[o]].count \in Nat \ {0}
         /\ faults = 0 /\ regions[mapped[o]].count # 1 =>
              \E q \in Objects \ {o} : Live(q) /\ mapped[q] = mapped[o]
         /\ \A q \in Objects \ {o} :
              Live(q) /\ mapped[q] = mapped[o] => regions[mapped[o]].count # 1
<1> DEFINE g == mapped[o]
<1>1. g \in 1 .. Len(regions) /\ regions[g].count \in Nat
  <2>1. g \in Known /\ g # 0 /\ regions \in Seq(Region)
    BY DEF SharedMemoryTypeOK, Live, None
  <2>2. g \in 1 .. Len(regions)
    BY <2>1 DEF Known
  <2>3. regions[g] \in Region
    BY <2>1, <2>2
  <2> QED
    BY <2>2, <2>3 DEF Region
<1>2. IsFiniteSet(Users(g)) /\ Cardinality(Users(g)) \in Nat
  BY SharedMemoryAssumption, FS_Subset, FS_CardinalityType DEF Users
<1>3. o \in Users(g)
  BY DEF Users
<1>4. Cardinality(Users(g)) # 0
  BY <1>2, <1>3, FS_EmptySet
<1>5. /\ Cardinality(Users(g)) <= regions[g].count
      /\ faults = 0 => Cardinality(Users(g)) = regions[g].count
  BY <1>1 DEF CountInv
<1>6. Cardinality(Users(g)) = 1 <=> \E x : Users(g) = {x}
  BY <1>2, FS_Singleton
<1>7. ASSUME faults = 0, regions[g].count # 1
      PROVE  \E q \in Objects \ {o} : Live(q) /\ mapped[q] = g
  <2>1. Users(g) # {o}
    BY <1>5, <1>6, <1>7
  <2> QED
    BY <1>3, <2>1 DEF Users
<1>8. ASSUME NEW q \in Objects \ {o}, Live(q), mapped[q] = g
      PROVE  regions[g].count # 1
  <2>1. q \in Users(g)
    BY <1>8 DEF Users
  <2>2. Cardinality(Users(g)) # 1
    BY <1>3, <1>6, <1>8, <2>1
  <2> QED
    BY <1>1, <1>2, <1>4, <1>5, <2>2
<1> QED
  BY <1>1, <1>2, <1>4, <1>5, <1>7, <1>8

(* Each step keeps the types, and forgets no region.                       *)
LEMMA TypeStep ==
  ASSUME SharedMemoryTypeOK, SizeInv, CountInv, NEW o \in Objects, ObjectStep(o), Remember
  PROVE  SharedMemoryTypeOK'
<1>1. history' \in [raced : BOOLEAN, skipped : BOOLEAN, contended : SUBSET Objects]
  BY DEF Remember
<1>2. regions' \in Seq(Region) /\ Len(regions) <= Len(regions')
  <2> USE DEF SharedMemoryTypeOK
  <2>1. CASE regions' = regions
    BY <2>1
  <2>2. CASE Create(o)
    <3> DEFINE x == [size |-> 0, count |-> 0]
    <3>1. x \in Region /\ regions \in Seq(Region)
      BY DEF Region
    <3>2. regions' = regions \/ regions' = Append(regions, x)
      BY <2>2 DEF Create
    <3> HIDE DEF x, SharedMemoryTypeOK
    <3> QED
      BY <3>1, <3>2
  <2>3. ASSUME NEW g \in 1 .. Len(regions), NEW x \in Region,
               regions' = [regions EXCEPT ![g] = x]
        PROVE  regions' \in Seq(Region) /\ Len(regions) <= Len(regions')
    BY <2>3
  <2>4. CASE Truncate(o)
    <3>1. dataSize[o] \in Nat /\ fileDes[o] \in 1 .. Len(regions)
      BY <2>4, SharedMemoryAssumption DEF Truncate, SizeInv, Known, None
    <3>2. [regions[fileDes[o]] EXCEPT !.size = dataSize[o]] \in Region
      <4>1. regions[fileDes[o]] \in Region
        BY <3>1
      <4> QED
        BY <3>1, <4>1 DEF Region
    <3> QED
      BY <2>3, <2>4, <3>1, <3>2 DEF Truncate
  <2>5. CASE Count(o)
    <3>1. mapped[o] \in 1 .. Len(regions)
      BY <2>5 DEF Count, Known, None
    <3>2. [regions[mapped[o]] EXCEPT !.count = @ + 1] \in Region
      <4>1. regions[mapped[o]] \in Region
        BY <3>1
      <4> QED
        BY <4>1 DEF Region
    <3> QED
      BY <2>3, <2>5, <3>1, <3>2 DEF Count, Counted
  <2>6. CASE Uncount(o)
    <3>1. mapped[o] \in 1 .. Len(regions) /\ regions[mapped[o]].count - 1 \in Nat
      BY <2>6, LiveAreCounted DEF Uncount
    <3>2. [regions[mapped[o]] EXCEPT !.count = @ - 1] \in Region
      <4>1. regions[mapped[o]] \in Region
        BY <3>1
      <4> QED
        BY <3>1, <4>1 DEF Region
    <3> QED
      BY <2>3, <2>6, <3>1, <3>2 DEF Uncount
  <2> QED
    BY <2>1, <2>2, <2>4, <2>5, <2>6
    DEF ObjectStep, Constructor, Destructor, Construct, Open, CheckSize, TryAlloc, EndAlloc, Map,
        Unwind, TryFree, Unlink, EndFree, Close, Fault, CallFails, Die
<1> USE DEF ObjectStep, Constructor, Destructor, Construct, Open, CheckSize, TryAlloc, Create,
            Truncate, EndAlloc, Map, Count, Unwind, Uncount, TryFree, Unlink, EndFree, Close,
            Fault, CallFails, Die, Go, lockVars, Acquire, AcquireFails, Release, CloseLock,
            LoseLock
<1>3. value' \in Nat /\ begun' \in Nat /\ faults' \in Nat
  BY DEF SharedMemoryTypeOK
<1>4. holdsOwnership' \in [Objects -> BOOLEAN]
  <2>1. holdsOwnership \in [Objects -> BOOLEAN]
    BY DEF SharedMemoryTypeOK
  <2>2. \/ holdsOwnership' = holdsOwnership
        \/ holdsOwnership' = [holdsOwnership EXCEPT ![o] = TRUE]
        \/ holdsOwnership' = [holdsOwnership EXCEPT ![o] = FALSE]
    OBVIOUS
  <2> QED
    BY <2>1, <2>2, Zenon
<1>5. pc' \in [Objects -> Steps]
  BY DEF SharedMemoryTypeOK, Steps
<1>6. dataSize' \in [Objects -> Sizes \cup {0}]
  BY DEF SharedMemoryTypeOK
<1>7. bound' \in Known' /\ Known \subseteq Known'
  BY DEF SharedMemoryTypeOK, Known, None
<1>8. fileDes' \in [Objects -> Known']
  <2>1. fileDes \in [Objects -> Known] /\ bound \in Known /\ 0 \in Known'
    BY DEF SharedMemoryTypeOK, Known, None
  <2>2. \/ fileDes' = fileDes
        \/ fileDes' = [fileDes EXCEPT ![o] = bound]
        \/ fileDes' = [fileDes EXCEPT ![o] = bound']
        \/ fileDes' = [fileDes EXCEPT ![o] = 0]
    BY DEF None
  <2> QED
    BY <1>7, <2>1, <2>2
<1>9. mapped' \in [Objects -> Known']
  <2>1. mapped \in [Objects -> Known] /\ fileDes[o] \in Known /\ 0 \in Known'
    BY DEF SharedMemoryTypeOK, Known, None
  <2>2. \/ mapped' = mapped
        \/ mapped' = [mapped EXCEPT ![o] = fileDes[o]]
        \/ mapped' = [mapped EXCEPT ![o] = 0]
    BY DEF None
  <2> QED
    BY <1>7, <2>1, <2>2
<1>10. \A p \in Objects : Opening(p)' => fileDes'[p] # None
  BY DEF SharedMemoryTypeOK, Known, None, Opening
<1>11. \A p \in Objects : pc'[p] \in {"count", "live"} => mapped'[p] # None
  BY DEF SharedMemoryTypeOK, Known, None, Opening, Live
<1> QED
  BY <1>1, <1>2, <1>3, <1>4, <1>5, <1>6, <1>7, <1>8, <1>9, <1>10, <1>11
  DEF SharedMemoryTypeOK

(* Counts and users change together: an object comes into use with its     *)
(* increment, goes with its decrement, or dies and stays counted.          *)
LEMMA CountStep ==
  ASSUME SharedMemoryTypeOK, SizeInv, CountInv, NEW o \in Objects, ObjectStep(o)
  PROVE  CountInv'
<1> SUFFICES ASSUME NEW g \in 1 .. Len(regions')
             PROVE  /\ Cardinality(Users(g))' <= regions'[g].count
                    /\ faults' = 0 => Cardinality(Users(g))' = regions'[g].count
  BY DEF CountInv
<1>0. /\ IsFiniteSet(Users(g)) /\ Cardinality(Users(g)) \in Nat
      /\ \A q \in Objects \ {o} : pc'[q] = pc[q] /\ mapped'[q] = mapped[q]
  BY SharedMemoryAssumption, FS_Subset, FS_CardinalityType, OthersStand DEF Users
<1>1. g \in 1 .. Len(regions) => /\ Cardinality(Users(g)) <= regions[g].count
                                 /\ faults = 0 => Cardinality(Users(g)) = regions[g].count
                                 /\ regions[g].count \in Nat
  <2>1. g \in 1 .. Len(regions) => regions[g] \in Region
    BY DEF SharedMemoryTypeOK
  <2> QED
    BY <2>1 DEF CountInv, Region
<1>2. CASE /\ g \in 1 .. Len(regions) /\ regions'[g].count = regions[g].count
           /\ ~Live(o) /\ ~Live(o)' /\ faults \in Nat /\ faults' \in {faults, faults + 1}
  <2>1. Users(g)' = Users(g)
    BY <1>0, <1>2 DEF Users, Live
  <2> QED
    BY <1>1, <1>2, <2>1
<1>3. CASE (\E size \in Sizes : Construct(o, size)) \/ Open(o) \/ CheckSize(o) \/ Map(o)
  BY <1>2, <1>3 DEF Construct, Open, CheckSize, Map, Go, Live, SharedMemoryTypeOK
<1>4. CASE TryAlloc(o) \/ EndAlloc(o) \/ Unwind(o) \/ TryFree(o) \/ Unlink(o) \/ EndFree(o) \/ Close(o)
  BY <1>2, <1>4
  DEF TryAlloc, EndAlloc, Unwind, TryFree, Unlink, EndFree, Close, Go, Live, SharedMemoryTypeOK
<1>5. CASE Truncate(o)
  BY <1>2, <1>5 DEF Truncate, Go, Live, SharedMemoryTypeOK
<1>6. CASE Create(o)
  <2>1. CASE g \in 1 .. Len(regions)
    <3>1. regions'[g] = regions[g]
      <4> DEFINE x == [size |-> 0, count |-> 0]
      <4>1. regions' = regions \/ regions' = Append(regions, x)
        BY <1>6 DEF Create
      <4> HIDE DEF x
      <4> QED
        BY <2>1, <4>1 DEF SharedMemoryTypeOK
    <3> QED
      BY <1>2, <1>6, <2>1, <3>1 DEF Create, Go, Live, SharedMemoryTypeOK
  <2>2. CASE g \notin 1 .. Len(regions)
    <3>1. regions'[g].count = 0
      BY <1>6, <2>2 DEF Create, SharedMemoryTypeOK
    <3>2. Users(g)' = {}
      BY <1>0, <1>6, <2>2 DEF Create, Go, Users, Live, SharedMemoryTypeOK, Known
    <3> QED
      BY <3>1, <3>2, FS_EmptySet
  <2> QED
    BY <2>1, <2>2
<1>7. CASE Count(o)
  <2>1. /\ g \in 1 .. Len(regions) /\ faults' = faults /\ mapped'[o] = mapped[o]
        /\ ~Live(o) /\ Live(o)'
        /\ regions'[g].count = IF g = mapped[o] THEN regions[g].count + 1 ELSE regions[g].count
    BY <1>7 DEF Count, Counted, Go, Live, SharedMemoryTypeOK
  <2>2. Users(g)' = IF g = mapped[o] THEN Users(g) \cup {o} ELSE Users(g)
    BY <1>0, <2>1 DEF Users, Live
  <2>3. o \notin Users(g)
    BY <2>1 DEF Users
  <2>4. Cardinality(Users(g) \cup {o}) = Cardinality(Users(g)) + 1
    BY <1>0, <2>3, FS_AddElement
  <2> QED
    BY <1>0, <1>1, <2>1, <2>2, <2>4
<1>8. CASE Uncount(o)
  <2>1. /\ g \in 1 .. Len(regions) /\ faults' = faults /\ ~Live(o)' /\ Live(o)
        /\ regions'[g].count = IF g = mapped[o] THEN regions[g].count - 1 ELSE regions[g].count
    BY <1>8 DEF Uncount, Go, Live, SharedMemoryTypeOK
  <2>2. Users(g)' = Users(g) \ {o} /\ (o \in Users(g) <=> g = mapped[o])
    BY <1>0, <2>1 DEF Users, Live
  <2>3. Cardinality(Users(g) \ {o}) =
          IF o \in Users(g) THEN Cardinality(Users(g)) - 1 ELSE Cardinality(Users(g))
    BY <1>0, FS_RemoveElement
  <2> QED
    BY <1>0, <1>1, <2>1, <2>2, <2>3
<1>9. CASE Fault(o)
  <2>1. /\ g \in 1 .. Len(regions) /\ faults' # 0 /\ ~Live(o)'
        /\ regions'[g].count = regions[g].count
    BY <1>9 DEF Fault, CallFails, Die, Go, Live, SharedMemoryTypeOK
  <2>2. Users(g)' = Users(g) \ {o}
    BY <1>0, <2>1 DEF Users, Live
  <2>3. Cardinality(Users(g) \ {o}) <= Cardinality(Users(g))
    BY <1>0, FS_RemoveElement
  <2>4. Cardinality(Users(g) \ {o}) \in Nat
    BY <1>0, FS_RemoveElement, FS_CardinalityType
  <2> QED
    BY <1>0, <1>1, <2>1, <2>2, <2>3, <2>4
<1> QED
  BY <1>3, <1>4, <1>5, <1>6, <1>7, <1>8, <1>9 DEF ObjectStep, Constructor, Destructor

----------------------------------------------------------------------------
(* The size of a region changes only from 0, by its creator's ftruncate.   *)
LEMMA SizesStay ==
  ASSUME SharedMemoryTypeOK, SizeInv, NEW o \in Objects, ObjectStep(o),
         NEW g \in 1 .. Len(regions)
  PROVE  /\ g \in 1 .. Len(regions')
         /\ \/ /\ ~(Truncate(o) /\ g = fileDes[o])
               /\ regions'[g].size = regions[g].size
            \/ /\ Truncate(o) /\ g = fileDes[o] /\ dataSize[o] # 0
               /\ regions[g].size = 0 /\ regions'[g].size = dataSize[o]
<1>1. regions \in Seq(Region) /\ regions[g] \in Region
  BY DEF SharedMemoryTypeOK
<1>2. CASE regions' = regions /\ ~Truncate(o)
  BY <1>2
<1>3. CASE Create(o)
  <2> DEFINE x == [size |-> 0, count |-> 0]
  <2>1. (regions' = regions \/ regions' = Append(regions, x)) /\ ~Truncate(o)
    BY <1>3 DEF Create, Truncate
  <2> HIDE DEF x
  <2> QED
    BY <1>1, <2>1
<1>4. CASE Truncate(o)
  <2>1. dataSize[o] # 0
    BY <1>4, SharedMemoryAssumption DEF Truncate, SizeInv
  <2>2. /\ regions' = [regions EXCEPT ![fileDes[o]].size = dataSize[o]]
        /\ regions[fileDes[o]].size = 0
    BY <1>4 DEF Truncate, SizeInv
  <2>3. CASE g = fileDes[o]
    BY <1>1, <1>4, <2>1, <2>2, <2>3
  <2>4. CASE g # fileDes[o]
    BY <1>1, <2>2, <2>4
  <2> QED
    BY <2>3, <2>4
<1>5. CASE Count(o) \/ Uncount(o)
  <2>1. (\E h, c : regions' = [regions EXCEPT ![h].count = c]) /\ ~Truncate(o)
    BY <1>5 DEF Count, Uncount, Truncate, Live
  <2> QED
    BY <1>1, <2>1
<1> QED
  BY <1>2, <1>3, <1>4, <1>5
  DEF ObjectStep, Constructor, Destructor, Construct, Open, CheckSize, TryAlloc, EndAlloc, Map,
      Unwind, TryFree, Unlink, EndFree, Close, Fault, CallFails, Die

(* The region of an object that is past the check has the size it asked for. *)
LEMMA SizeStep ==
  ASSUME SharedMemoryTypeOK, LockInv, SizeInv, NEW o \in Objects, ObjectStep(o)
  PROVE  SizeInv'
<1> SUFFICES ASSUME NEW q \in Objects
    PROVE /\ pc'[q] # "out" => dataSize'[q] \in Sizes
          /\ pc'[q] \in {"truncate", "unlock", "live"} => fileDes'[q] # None
          /\ pc'[q] = "truncate" => regions'[fileDes'[q]].size = 0
          /\ pc'[q] \in {"map", "count", "live"} => regions'[fileDes'[q]].size = dataSize'[q]
          /\ pc'[q] \in {"count", "live"} => mapped'[q] = fileDes'[q]
  BY DEF SizeInv
<1>1. /\ pc[q] # "out" => dataSize[q] \in Sizes /\ dataSize[q] # 0
      /\ pc[q] \in {"truncate", "unlock", "live"} => fileDes[q] # None
      /\ pc[q] = "truncate" => regions[fileDes[q]].size = 0
      /\ pc[q] \in {"map", "count", "live"} => regions[fileDes[q]].size = dataSize[q]
      /\ pc[q] \in {"count", "live"} => mapped[q] = fileDes[q]
  BY SharedMemoryAssumption DEF SizeInv
<1>2. pc[q] \in {"truncate", "stat", "map", "count", "live"} => fileDes[q] \in 1 .. Len(regions)
  BY <1>1 DEF SharedMemoryTypeOK, Opening, Known, None
<1>3. CASE q # o
  <2>1. /\ pc'[q] = pc[q] /\ dataSize'[q] = dataSize[q] /\ fileDes'[q] = fileDes[q]
        /\ mapped'[q] = mapped[q]
    BY <1>3, OthersStand
  <2>2. pc[q] \in {"map", "count", "live"} => regions'[fileDes[q]].size = dataSize[q]
    BY <1>1, <1>2, SizesStay
  <2>3. pc[q] = "truncate" => regions'[fileDes[q]].size = 0
    <3>1. pc[q] = "truncate" => ~Truncate(o)
      BY <1>3 DEF LockInv, InCritical, Truncate
    <3> QED
      BY <1>1, <1>2, <3>1, SizesStay
  <2> QED
    BY <1>1, <2>1, <2>2, <2>3
<1>4. CASE q = o
  <2> USE DEF SharedMemoryTypeOK, Go
  <2>1. CASE \E size \in Sizes : Construct(o, size)
    BY <1>1, <1>4, <2>1 DEF Construct
  <2>2. CASE Open(o) \/ CheckSize(o)
    BY <1>1, <1>4, <2>2 DEF Open, CheckSize, SizeMatches
  <2>3. CASE TryAlloc(o) \/ EndAlloc(o) \/ Unwind(o)
    BY <1>1, <1>4, <2>3 DEF TryAlloc, EndAlloc, Unwind
  <2>4. CASE Create(o)
    <3> DEFINE x == [size |-> 0, count |-> 0]
    <3>1. CASE bound = None
      <4>1. /\ regions' = Append(regions, x) /\ fileDes'[o] = Len(regions')
            /\ pc'[o] = "truncate" /\ dataSize' = dataSize /\ pc[o] = "create"
        BY <2>4, <3>1 DEF Create
      <4>2. regions'[Len(regions')] = x /\ Len(regions') # 0
        <5> HIDE DEF x
        <5> QED
          BY <4>1
      <4> QED
        BY <1>1, <1>4, <4>1, <4>2 DEF None
    <3>2. CASE bound # None
      BY <1>1, <1>4, <2>4, <3>2 DEF Create
    <3> QED
      BY <3>1, <3>2
  <2>5. CASE Truncate(o)
    BY <1>1, <1>2, <1>4, <2>5 DEF Truncate
  <2>6. CASE Map(o)
    BY <1>1, <1>2, <1>4, <2>6 DEF Map
  <2>7. CASE Count(o)
    BY <1>1, <1>2, <1>4, <2>7, SizesStay DEF Count, Opening
  <2>8. CASE Uncount(o) \/ TryFree(o) \/ Unlink(o) \/ EndFree(o) \/ Close(o)
    BY <1>1, <1>4, <2>8 DEF Uncount, TryFree, Unlink, EndFree, Close, Live
  <2>9. CASE Fault(o)
    BY <1>1, <1>4, <2>9 DEF Fault, CallFails, Die
  <2> QED
    BY <2>1, <2>2, <2>3, <2>4, <2>5, <2>6, <2>7, <2>8, <2>9 DEF ObjectStep, Constructor, Destructor
<1> QED
  BY <1>3, <1>4

(* What the name is bound to changes by a creation, while unbound, and by  *)
(* an unlink, both of a holder of the semaphore.                           *)
LEMMA BindingStays ==
  ASSUME SharedMemoryTypeOK, LockInv, NEW o \in Objects, ObjectStep(o), bound' # bound
  PROVE  /\ holdsOwnership[o]
         /\ \/ Create(o) /\ bound = None /\ bound' # None
            \/ Unlink(o) /\ bound' = None
<1>1. CASE Create(o)
  <2>1. holdsOwnership[o]
    BY <1>1 DEF Create, LockInv, InCritical
  <2>2. Len(regions') # 0 /\ bound = None /\ bound' = Len(regions')
    <3> DEFINE x == [size |-> 0, count |-> 0]
    <3>1. regions' = Append(regions, x) /\ bound' = Len(regions') /\ bound = None
      BY <1>1 DEF Create
    <3>2. regions \in Seq(Region)
      BY DEF SharedMemoryTypeOK
    <3> HIDE DEF x
    <3> QED
      BY <3>1, <3>2
  <2> QED
    BY <1>1, <2>1, <2>2 DEF None
<1>2. CASE Unlink(o)
  BY <1>2 DEF Unlink, LockInv, InCritical
<1> QED
  BY <1>1, <1>2
  DEF ObjectStep, Constructor, Destructor, Construct, Open, CheckSize, TryAlloc, Truncate,
      EndAlloc, Map, Count, Unwind, Uncount, TryFree, EndFree, Close, Fault, CallFails, Die

(* Until a race, what objects open or have is what the name is bound to.   *)
LEMMA NameStep ==
  ASSUME SharedMemoryTypeOK, LockInv, SizeInv, CountInv, NameInv,
         NEW o \in Objects, ObjectStep(o), Remember
  PROVE  NameInv'
<1> SUFFICES ASSUME ~history'.raced, NEW q \in Objects, Opening(q)' \/ Live(q)'
             PROVE  fileDes'[q] = bound' /\ \A p \in Objects : ~Freeing(p)'
  BY DEF NameInv
<1>1. /\ ~history.raced
      /\ Opening(q)' => \A p \in Objects : ~Freeing(p)'
  BY DEF Remember
<1>2. \A r \in Objects : Opening(r) \/ Live(r) =>
        fileDes[r] = bound /\ bound # None /\ \A p \in Objects : ~Freeing(p)
  BY <1>1 DEF NameInv, SharedMemoryTypeOK, SizeInv, Live
<1>3. \A r \in Objects \ {o} : pc'[r] = pc[r] /\ fileDes'[r] = fileDes[r]
  BY OthersStand
<1>4. (Opening(q) \/ Live(q)) => bound' = bound
  <2>1. Unlink(o) => Freeing(o)
    BY DEF Unlink, Freeing
  <2> QED
    BY <1>2, <2>1, BindingStays
<1>5. CASE q # o
  <2>1. (Opening(q)' <=> Opening(q)) /\ (Live(q)' <=> Live(q))
    BY <1>3, <1>5 DEF Opening, Live
  <2>2. fileDes'[q] = bound'
    BY <1>2, <1>3, <1>4, <1>5, <2>1
  <2>3. ASSUME Live(q), NEW p \in Objects, Freeing(p)' PROVE FALSE
    <3>1. ~Freeing(p) /\ p = o
      BY <1>2, <1>3, <2>3 DEF Freeing
    <3>2. Uncount(o) /\ regions'[mapped[o]].count = 0
      BY <2>3, <3>1
      DEF ObjectStep, Constructor, Destructor, Construct, Open, CheckSize, TryAlloc, Create,
          Truncate, EndAlloc, Map, Count, Unwind, Uncount, TryFree, Unlink, EndFree, Close,
          Fault, CallFails, Die, Go, Freeing, IsLast, SharedMemoryTypeOK
    <3>3. Live(o) /\ mapped[q] = mapped[o]
      BY <1>2, <2>3, <3>2 DEF Uncount, SizeInv, Live
    <3>4. /\ mapped[o] \in 1 .. Len(regions) /\ regions[mapped[o]].count \in Nat
          /\ regions[mapped[o]].count # 1
      BY <1>5, <2>3, <3>3, LiveAreCounted
    <3>5. regions'[mapped[o]].count = regions[mapped[o]].count - 1
      <4>1. regions \in Seq(Region) /\ regions[mapped[o]] \in Region
        BY <3>4 DEF SharedMemoryTypeOK
      <4> QED
        BY <3>2, <3>4, <4>1 DEF Uncount, Region
    <3> QED
      BY <3>2, <3>4, <3>5
  <2> QED
    BY <1>1, <2>1, <2>2, <2>3
<1>6. CASE q = o
  <2>1. (Open(o) /\ pc'[o] = "stat") \/ CheckSize(o) \/ Map(o) \/ Count(o)
    BY <1>6
    DEF ObjectStep, Constructor, Destructor, Construct, Open, CheckSize, TryAlloc, Create,
        Truncate, EndAlloc, Map, Count, Unwind, Uncount, TryFree, Unlink, EndFree, Close,
        Fault, CallFails, Die, Go, Opening, Live, SharedMemoryTypeOK
  <2>2. CASE Open(o) /\ pc'[o] = "stat"
    <3>1. fileDes'[o] = bound'
      BY <2>2 DEF Open, Go, SharedMemoryTypeOK
    <3>2. Opening(q)'
      BY <1>6, <2>2 DEF Opening
    <3> QED
      BY <1>1, <1>6, <3>1, <3>2
  <2>3. CASE CheckSize(o) \/ Map(o) \/ Count(o)
    <3>1. Opening(o) /\ fileDes' = fileDes /\ bound' = bound
      BY <2>3 DEF CheckSize, Map, Count, Opening
    <3>2. \A p \in Objects : ~Freeing(p)'
      BY <1>2, <1>3, <1>6, <3>1 DEF Freeing, Opening, Live
    <3> QED
      BY <1>2, <1>6, <3>1, <3>2
  <2> QED
    BY <2>1, <2>2, <2>3
<1> QED
  BY <1>5, <1>6

(* Somebody will free the bound region until it is unbound.                *)
LEMMA FreedStep ==
  ASSUME SharedMemoryTypeOK, LockInv, SizeInv, CountInv, NameInv, FreedInv,
         NEW o \in Objects, ObjectStep(o), Remember
  PROVE  FreedInv'
<1> SUFFICES ASSUME faults' = 0, ~history'.skipped, bound' # None
             PROVE  \E q \in Objects : Responsible(q)'
  BY DEF FreedInv
<1>1. faults = 0 /\ ~history.skipped /\ ~Fault(o)
  <2>1. ~history.skipped
    BY DEF Remember
  <2>2. ~Fault(o)
    BY DEF Fault, SharedMemoryTypeOK
  <2>3. faults' = faults
    BY <2>2
    DEF ObjectStep, Constructor, Destructor, Construct, Open, CheckSize, TryAlloc, Create,
        Truncate, EndAlloc, Map, Count, Unwind, Uncount, TryFree, Unlink, EndFree, Close
  <2> QED
    BY <2>1, <2>2, <2>3
<1>2. CASE bound = None
  <2>1. Create(o) /\ bound' # bound
    BY <1>2, BindingStays
  <2>2. pc'[o] = "truncate" /\ fileDes'[o] = bound'
    BY <2>1 DEF Create, Go, SharedMemoryTypeOK
  <2> QED
    BY <2>2 DEF Responsible
<1>3. CASE bound # None
  <2>1. bound' = bound /\ bound \in 1 .. Len(regions)
    BY <1>3, BindingStays DEF SharedMemoryTypeOK, Known, None
  <2>2. PICK q \in Objects : Responsible(q)
    BY <1>1, <1>3 DEF FreedInv
  <2>3. pc[q] # "out" /\ dataSize[q] # 0
    BY <2>2, SharedMemoryAssumption DEF Responsible, SizeInv
  <2>4. regions[bound].size = dataSize[q] => regions'[bound].size = dataSize[q]
    BY <2>1, <2>3, SizesStay
  <2>5. CASE q # o
    <3>1. pc'[q] = pc[q] /\ dataSize'[q] = dataSize[q] /\ fileDes'[q] = fileDes[q]
      BY <2>5, OthersStand
    <3> QED
      BY <2>1, <2>2, <2>4, <3>1 DEF Responsible
  <2>6. CASE q = o
    <3> USE DEF SharedMemoryTypeOK, Go
    <3>1. CASE Open(o) \/ CheckSize(o) \/ EndAlloc(o)
      BY <2>1, <2>2, <2>4, <2>6, <3>1 DEF Open, CheckSize, EndAlloc, SizeMatches, Responsible
    <3>2. CASE Truncate(o)
      <4>1. regions'[bound].size = dataSize[o]
        <5>1. regions \in Seq(Region) /\ regions[bound] \in Region /\ fileDes[o] = bound
          BY <2>1, <2>2, <2>6, <3>2 DEF Truncate, Responsible
        <5> QED
          BY <2>1, <3>2, <5>1 DEF Truncate
      <4> QED
        BY <2>1, <2>2, <2>6, <3>2, <4>1 DEF Truncate, Responsible
    <3>3. CASE Map(o) \/ Count(o)
      BY <2>1, <2>2, <2>6, <3>3 DEF Map, Count, Responsible
    <3>4. CASE Uncount(o)
      <4>1. mapped[o] = bound /\ Live(o)
        BY <2>2, <2>6, <3>4 DEF Uncount, Live, Responsible, SizeInv
      <4>2. /\ regions[bound].count \in Nat
            /\ regions[bound].count # 1 =>
                 \E r \in Objects \ {o} : Live(r) /\ mapped[r] = bound
        BY <1>1, <4>1, LiveAreCounted
      <4>3. regions'[bound].count = regions[bound].count - 1
        <5>1. regions \in Seq(Region) /\ regions[bound] \in Region
          BY <2>1
        <5> QED
          BY <2>1, <3>4, <4>1, <5>1 DEF Uncount, Region
      <4>4. CASE regions[bound].count = 1
        BY <3>4, <4>1, <4>3, <4>4 DEF Uncount, IsLast, Responsible
      <4>5. CASE regions[bound].count # 1
        <5>1. PICK r \in Objects \ {o} : Live(r) /\ mapped[r] = bound
          BY <4>2, <4>5
        <5>2. pc'[r] = "live" /\ fileDes'[r] = bound
          BY <5>1, OthersStand DEF Live, SizeInv
        <5> QED
          BY <2>1, <5>2 DEF Responsible
      <4> QED
        BY <4>4, <4>5
    <3>5. CASE TryFree(o)
      BY <3>5 DEF TryFree, Remember, Responsible
    <3>6. CASE Unlink(o)
      BY <3>6 DEF Unlink
    <3>7. ~ \/ \E size \in Sizes : Construct(o, size)
            \/ TryAlloc(o) \/ Create(o) \/ Unwind(o) \/ EndFree(o) \/ Close(o)
      BY <2>2, <2>6
      DEF Construct, TryAlloc, Create, Unwind, EndFree, Close, Responsible
    <3> QED
      BY <1>1, <3>1, <3>2, <3>3, <3>4, <3>5, <3>6, <3>7 DEF ObjectStep, Constructor, Destructor
  <2> QED
    BY <2>5, <2>6
<1> QED
  BY <1>2, <1>3

(* What excuses a constructor is remembered until it is called again.      *)
LEMMA ExcuseStays ==
  ASSUME SharedMemoryTypeOK, NEW o \in Objects, ObjectStep(o), Remember, NEW q \in Objects,
         ~Excused(q)'
  PROVE  /\ faults' = 0 /\ faults = 0
         /\ Constructing(q) /\ (Constructing(q)' \/ Threw(q)') => ~Excused(q)
         /\ Threw(q) /\ Threw(q)' => ~Excused(q)
         /\ Constructing(q)' => \A p \in Objects \ {q} : ~holdsOwnership[p]
<1>1. faults' = 0 /\ faults = 0
  <2>1. faults' \in {faults, faults + 1}
    BY DEF ObjectStep, Constructor, Destructor, Construct, Open, CheckSize, TryAlloc, Create,
           Truncate, EndAlloc, Map, Count, Unwind, Uncount, TryFree, Unlink, EndFree, Close,
           Fault
  <2> QED
    BY <2>1 DEF Excused, SharedMemoryTypeOK
<1> QED
  BY <1>1 DEF Remember, Excused

(* A constructor throws only when the region has another size.             *)
LEMMA ThrowStep ==
  ASSUME SharedMemoryTypeOK, LockInv, SizeInv, ThrowInv, NEW o \in Objects, ObjectStep(o), Remember
  PROVE  ThrowInv'
<1>1. ASSUME NEW q \in Objects, ~Excused(q)'
      PROVE  /\ pc'[q] \in {"alloc", "create"} => bound' = None
             /\ pc'[q] \in {"truncate", "unlock", "reopen"} => bound' # None
             /\ pc'[q] \in {"unwind", "threw"} =>
                  fileDes'[q] # None /\ regions'[fileDes'[q]].size \notin {0, dataSize'[q]}
  <2>1. /\ faults' = 0 /\ faults = 0
        /\ Constructing(q) /\ (Constructing(q)' \/ Threw(q)') => ~Excused(q)
        /\ Threw(q) /\ Threw(q)' => ~Excused(q)
        /\ Constructing(q)' => \A p \in Objects \ {q} : ~holdsOwnership[p]
    BY <1>1, ExcuseStays
  <2>2. ASSUME ~Excused(q)
        PROVE  /\ pc[q] \in {"alloc", "create"} => bound = None
               /\ pc[q] \in {"truncate", "unlock", "reopen"} => bound # None
               /\ pc[q] \in {"unwind", "threw"} =>
                    /\ fileDes[q] \in 1 .. Len(regions)
                    /\ regions[fileDes[q]].size \notin {0, dataSize[q]}
    BY <2>2 DEF ThrowInv, SharedMemoryTypeOK, Known, None
  <2>3. CASE q # o
    <3>1. pc'[q] = pc[q] /\ dataSize'[q] = dataSize[q] /\ fileDes'[q] = fileDes[q]
      BY <2>3, OthersStand
    <3>2. Constructing(q)' => bound' = bound
      BY <2>1, <2>3, BindingStays
    <3>3. ASSUME pc[q] \in {"unwind", "threw"}
          PROVE  fileDes[q] # None /\ regions'[fileDes[q]].size \notin {0, dataSize[q]}
      <4>1. ~Excused(q)
        BY <2>1, <3>1, <3>3 DEF Constructing, Threw
      <4> QED
        BY <2>2, <3>3, <4>1, SizesStay DEF None
    <3> QED
      BY <2>1, <2>2, <3>1, <3>2, <3>3 DEF Constructing, Opening
  <2>4. CASE q = o
    <3> USE DEF SharedMemoryTypeOK, Go
    <3>1. CASE Open(o)
      BY <2>1, <2>2, <2>4, <3>1 DEF Open, Constructing, Opening
    <3>2. CASE CheckSize(o)
      <4>1. CASE pc'[o] = "map"
        BY <2>4, <4>1
      <4>2. CASE pc'[o] = "unwind"
        <5>1. /\ fileDes[o] \in 1 .. Len(regions) /\ fileDes[o] # None
              /\ regions[fileDes[o]].size # dataSize[o] /\ Constructing(o)'
              /\ UNCHANGED <<regions, fileDes, dataSize>> /\ pc[o] = "stat"
          BY <3>2, <4>2 DEF CheckSize, SizeMatches, Constructing, Opening, Known, None
        <5>2. regions[fileDes[o]].size # 0
          <6> SUFFICES ASSUME regions[fileDes[o]].size = 0 PROVE FALSE
            OBVIOUS
          <6>1. PICK p \in Objects : pc[p] = "truncate" /\ fileDes[p] = fileDes[o]
            BY <2>1, <5>1 DEF ThrowInv
          <6> QED
            BY <2>1, <2>4, <5>1, <6>1 DEF LockInv, InCritical
        <5> QED
          BY <2>4, <4>2, <5>1, <5>2
      <4> QED
        BY <3>2, <4>1, <4>2 DEF CheckSize
    <3>3. CASE TryAlloc(o)
      <4>1. Constructing(o) /\ Constructing(o)' /\ pc[o] = "alloc" /\ bound' = bound
        BY <3>3 DEF TryAlloc, Constructing, Opening
      <4>2. CASE pc'[o] = "create"
        BY <2>1, <2>2, <2>4, <4>1, <4>2
      <4>3. CASE pc'[o] = "reopen"
        <5>1. value = 0
          BY <3>3, <4>3 DEF TryAlloc, AcquireFails
        <5>2. PICK p \in Objects : holdsOwnership[p]
          BY <2>1, <5>1 DEF LockInv
        <5>3. p # o
          BY <4>1, <5>2 DEF LockInv, InCritical
        <5> QED
          BY <2>1, <2>4, <4>1, <5>2, <5>3
      <4> QED
        BY <3>3, <4>2, <4>3 DEF TryAlloc
    <3>4. CASE Create(o)
      <4>1. Constructing(o) /\ Constructing(o)' /\ pc[o] = "create"
        BY <3>4 DEF Create, Constructing, Opening
      <4>2. bound = None
        BY <2>1, <2>2, <2>4, <4>1
      <4>3. pc'[o] = "truncate"
        BY <3>4, <4>2 DEF Create
      <4>4. bound' # None
        BY <3>4, <4>2 DEF Create, None
      <4> QED
        BY <2>4, <4>3, <4>4
    <3>5. CASE Truncate(o) \/ EndAlloc(o)
      BY <2>1, <2>2, <2>4, <3>5 DEF Truncate, EndAlloc, Constructing, Opening
    <3>6. CASE Unwind(o)
      BY <2>1, <2>2, <2>4, <3>6 DEF Unwind, Constructing, Opening, Threw, None
    <3>7. CASE (\E size \in Sizes : Construct(o, size)) \/ Map(o) \/ Count(o)
      BY <2>4, <3>7 DEF Construct, Map, Count
    <3>8. CASE Destructor(o)
      BY <2>4, <3>8 DEF Destructor, Uncount, TryFree, Unlink, EndFree, Close
    <3>9. CASE Fault(o)
      BY <2>1, <3>9 DEF Fault
    <3> QED
      BY <3>1, <3>2, <3>3, <3>4, <3>5, <3>6, <3>7, <3>8, <3>9 DEF ObjectStep, Constructor
  <2> QED
    BY <2>3, <2>4
<1>2. ASSUME faults' = 0, NEW g \in 1 .. Len(regions'), regions'[g].size = 0
      PROVE  \E p \in Objects : pc'[p] = "truncate" /\ fileDes'[p] = g
  <2>1. faults = 0 /\ ~Fault(o)
    <3>1. ~Fault(o)
      BY <1>2 DEF Fault, SharedMemoryTypeOK
    <3> QED
      BY <1>2, <3>1
      DEF ObjectStep, Constructor, Destructor, Construct, Open, CheckSize, TryAlloc, Create,
          Truncate, EndAlloc, Map, Count, Unwind, Uncount, TryFree, Unlink, EndFree, Close
  <2>2. CASE g \in 1 .. Len(regions)
    <3>1. regions[g].size = 0 /\ ~(Truncate(o) /\ g = fileDes[o])
      BY <1>2, <2>2, SizesStay DEF Truncate, SizeInv
    <3>2. PICK p \in Objects : pc[p] = "truncate" /\ fileDes[p] = g
      BY <2>1, <2>2, <3>1 DEF ThrowInv
    <3>3. p # o
      BY <2>1, <3>1, <3>2
      DEF ObjectStep, Constructor, Destructor, Construct, Open, CheckSize, TryAlloc, Create,
          Truncate, EndAlloc, Map, Count, Unwind, Uncount, TryFree, Unlink, EndFree, Close, Live
    <3> QED
      BY <3>2, <3>3, OthersStand
  <2>3. CASE g \notin 1 .. Len(regions)
    <3>1. Create(o) /\ bound = None
      BY <2>1, <2>3
      DEF ObjectStep, Constructor, Destructor, Construct, Open, CheckSize, TryAlloc, Create,
          Truncate, EndAlloc, Map, Count, Unwind, Uncount, TryFree, Unlink, EndFree, Close
    <3>2. g = Len(regions')
      BY <2>3, <3>1 DEF Create, SharedMemoryTypeOK
    <3> QED
      BY <3>1, <3>2 DEF Create, Go, SharedMemoryTypeOK
  <2> QED
    BY <2>2, <2>3
<1> QED
  BY <1>1, <1>2 DEF ThrowInv

----------------------------------------------------------------------------
(* There is no object at first, and no region.                             *)
LEMMA InitEstablishesSharedMemoryInv == Init => SharedMemoryInv
<1> SUFFICES ASSUME Init PROVE SharedMemoryInv
  OBVIOUS
<1>1. SharedMemoryTypeOK
  BY DEF Init, LockInit, SharedMemoryTypeOK, Known, None, Steps, Opening
<1>2. LockInv /\ SizeInv
  BY DEF Init, LockInit, LockInv, SizeInv, InCritical
<1>3. CountInv /\ NameInv /\ FreedInv /\ ThrowInv
  BY DEF Init, CountInv, NameInv, FreedInv, ThrowInv, Opening, Live
<1> QED
  BY <1>1, <1>2, <1>3 DEF SharedMemoryInv

(* No step of an object leaves the invariant.                              *)
LEMMA NextPreservesSharedMemoryInv == SharedMemoryInv /\ [Next]_shmVars => SharedMemoryInv'
<1> SUFFICES ASSUME SharedMemoryInv, [Next]_shmVars PROVE SharedMemoryInv'
  OBVIOUS
<1>1. CASE Next
  <2>1. PICK o \in Objects : ObjectStep(o) /\ Remember
    BY <1>1 DEF Next, ObjectStep
  <2> QED
    BY <2>1, TypeStep, LockStep, SizeStep, CountStep, NameStep, FreedStep, ThrowStep
    DEF SharedMemoryInv
<1>2. CASE UNCHANGED shmVars
  <2>1. SharedMemoryTypeOK'
    BY <1>2 DEF shmVars, lockVars, memoryVars, objectVars, SharedMemoryInv, SharedMemoryTypeOK,
                Known, Opening
  <2>2. LockInv' /\ SizeInv' /\ NameInv'
    BY <1>2 DEF shmVars, lockVars, memoryVars, objectVars, SharedMemoryInv, LockInv, SizeInv,
                NameInv, InCritical, Opening, Live, Freeing
  <2>3. CountInv' /\ FreedInv' /\ ThrowInv'
    BY <1>2 DEF shmVars, lockVars, memoryVars, objectVars, SharedMemoryInv, CountInv, Users,
                FreedInv, Responsible, ThrowInv, Excused, Live
  <2> QED
    BY <2>1, <2>2, <2>3 DEF SharedMemoryInv
<1> QED
  BY <1>1, <1>2

(***************************************************************************)
(* The constructors and destructors keep the inductive invariant, however  *)
(* they interleave, fail and die.                                          *)
(***************************************************************************)
THEOREM SharedMemoryInvariance == Spec => []SharedMemoryInv
BY InitEstablishesSharedMemoryInv, NextPreservesSharedMemoryInv, PTL DEF Spec

(***************************************************************************)
(* One object at a time creates or unlinks, and the semaphore is not lost  *)
(* but by a death: the bounds of counting come from LockInv, which speaks  *)
(* of holders only.                                                        *)
(***************************************************************************)
THEOREM OneHolderAlways == Spec => []OneHolder
<1>1. SharedMemoryInv => OneHolder
  <2> SUFFICES ASSUME SharedMemoryInv PROVE OneHolder
    OBVIOUS
  <2>1. LockInv
    BY DEF SharedMemoryInv
  <2>2. \A o, p \in Objects : InCritical(o) /\ InCritical(p) => o = p
    BY <2>1 DEF LockInv
  <2>3. /\ value \in {0, 1}
        /\ Cardinality(Holders) \in {0, 1}
        /\ value = 1 => Cardinality(Holders) = 0
        /\ faults = 0 /\ value = 0 => Cardinality(Holders) = 1
    <3>1. CASE \E o \in Objects : holdsOwnership[o]
      <4>1. PICK o \in Objects : holdsOwnership[o]
        BY <3>1
      <4>2. Holders = {o} /\ value = 0
        BY <2>1, <4>1 DEF LockInv, Holders
      <4> QED
        BY <4>2, FS_Singleton
    <3>2. CASE ~\E o \in Objects : holdsOwnership[o]
      <4>1. Holders = {} /\ value \in {0, 1} /\ (faults = 0 => value = 1)
        BY <2>1, <3>2 DEF LockInv, Holders
      <4> QED
        BY <4>1, FS_EmptySet
    <3> QED
      BY <3>1, <3>2
  <2> QED
    BY <2>2, <2>3 DEF OneHolder
<1> QED
  BY <1>1, SharedMemoryInvariance, PTL

(* An object in use has a region of its size, and all have the same one.   *)
THEOREM LiveAlwaysShare == Spec => []LiveShareTheBoundRegion
<1>1. SharedMemoryInv => LiveShareTheBoundRegion
  BY DEF SharedMemoryInv, LiveShareTheBoundRegion, SizeInv, NameInv, Live
<1> QED
  BY <1>1, SharedMemoryInvariance, PTL

(* The last destructor unbinds the name: while it is bound, somebody is on *)
(* the way to use the region or to free it.                                *)
THEOREM AlwaysRemoved == Spec => []RemovedAfterLastUser
<1>1. SharedMemoryInv => RemovedAfterLastUser
  BY DEF SharedMemoryInv, RemovedAfterLastUser, FreedInv, Responsible
<1> QED
  BY <1>1, SharedMemoryInvariance, PTL

(* A constructor that nobody interfered with throws for a reason.          *)
THEOREM UncontendedAlwaysSucceed == Spec => []UncontendedConstructionSucceeds
<1>1. SharedMemoryInv => UncontendedConstructionSucceeds
  <2> SUFFICES ASSUME SharedMemoryInv, NEW o \in Objects, Threw(o), ~(faults > 0),
                      o \notin history.contended
               PROVE  fileDes[o] # None /\ regions[fileDes[o]].size # dataSize[o]
    BY DEF UncontendedConstructionSucceeds
  <2> QED
    BY DEF SharedMemoryInv, ThrowInv, Excused, Threw
<1> QED
  BY <1>1, SharedMemoryInvariance, PTL
=============================================================================

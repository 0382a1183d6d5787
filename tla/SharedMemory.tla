---------------------------- MODULE SharedMemory ----------------------------
(***************************************************************************)
(* SharedMemory objects of one name: their constructors and destructors,   *)
(* one step per system call or access to the reference count, interleaved, *)
(* with processes that die and calls that fail.                            *)
(*                                                                         *)
(* The kernel binds the name to a region, or to none; a region that is no  *)
(* longer bound stays with those who have it open or mapped.               *)
(***************************************************************************)
EXTENDS SemaphoreLock, Sequences

CONSTANTS
  Sizes,        \* sizes the objects are constructed with (m_DataSize)
  MaxObjects,   \* bound on the number of constructions
  MaxFaults     \* bound on the number of deaths and failing calls

ASSUME SharedMemoryAssumption ==
  /\ IsFiniteSet(Objects)
  /\ Sizes \subseteq Nat \ {0}
  /\ MaxObjects \in Nat /\ MaxFaults \in Nat

VARIABLES
  regions,   \* the regions created so far: their size, and the reference count
  bound,     \* the number of the region the name is bound to, 0 if none
  pc,        \* what each object does next
  dataSize,  \* m_DataSize
  fileDes,   \* the region that m_FileDes, or the constructor's local, is open on
  mapped,    \* the region m_RefCounter points to
  begun,     \* constructions begun so far
  faults,    \* faults so far
  history    \* see below

objectVars == <<pc, dataSize, fileDes, mapped>>
memoryVars == <<regions, bound, objectVars, begun, faults>>
shmVars    == <<lockVars, memoryVars, history>>

None == 0

Go(o, step) == pc' = [pc EXCEPT ![o] = step]

(* The destructor found that it was the last; it has not finished. *)
Freeing(o) == pc[o] \in {"free", "unlink", "unlock_free"}
(* The constructor has a file open, and has not counted itself.    *)
Opening(o) == pc[o] \in {"stat", "map", "count"}
(* Between Acquire and Release. *)
InCritical(o) == pc[o] \in {"create", "truncate", "unlock", "unlink", "unlock_free"}
(* In the constructor. *)
Constructing(o) ==
  Opening(o) \/ pc[o] \in {"open", "alloc", "create", "truncate", "unlock", "reopen", "unwind"}
Live(o)  == pc[o] = "live"
Threw(o) == pc[o] = "threw"

----------------------------------------------------------------------------
(* Mutations of the definitions below. *)

LastButOne(count)    == count <= 1
CountBefore(count)   == count + 1 = 0
LessTheCount(found, size) == found = size - 1

----------------------------------------------------------------------------
(* Whether the count left by the destructor means that nobody else is in.  *)
IsLast(count) == count = 0

Counted(count) == count + 1

(* fstat finds the size that is asked for.  Both sizes include the count.  *)
SizeMatches(found, size) == found = size

Init ==
  /\ LockInit
  /\ regions = <<>> /\ bound = None
  /\ pc = [o \in Objects |-> "out"]
  /\ dataSize = [o \in Objects |-> 0]
  /\ fileDes = [o \in Objects |-> None]
  /\ mapped = [o \in Objects |-> None]
  /\ begun = 0 /\ faults = 0
  /\ history = [raced |-> FALSE, skipped |-> FALSE, contended |-> {}]

(* The constructor is called, with a name and a size that are valid. *)
Construct(o, size) ==
  /\ pc[o] \in {"out", "threw"} /\ begun < MaxObjects
  /\ begun' = begun + 1
  /\ dataSize' = [dataSize EXCEPT ![o] = size]
  /\ fileDes' = [fileDes EXCEPT ![o] = None]
  /\ Go(o, "open")
  /\ UNCHANGED <<lockVars, regions, bound, mapped, faults>>

(* OpenSharedMemFile: shm_open. *)
Open(o) ==
  /\ pc[o] \in {"open", "reopen"}
  /\ IF bound # None
     THEN Go(o, "stat") /\ fileDes' = [fileDes EXCEPT ![o] = bound]
     ELSE Go(o, IF pc[o] = "open" THEN "alloc" ELSE "unwind") /\ UNCHANGED fileDes
  /\ UNCHANGED <<lockVars, regions, bound, dataSize, mapped, begun, faults>>

(* OpenSharedMemFile: fstat. *)
CheckSize(o) ==
  /\ pc[o] = "stat"
  /\ Go(o, IF SizeMatches(regions[fileDes[o]].size, dataSize[o]) THEN "map" ELSE "unwind")
  /\ UNCHANGED <<lockVars, regions, bound, dataSize, fileDes, mapped, begun, faults>>

(* AllocSharedMem returns at once if the semaphore is taken. *)
TryAlloc(o) ==
  /\ pc[o] = "alloc"
  /\ \/ Acquire(o) /\ Go(o, "create")
     \/ AcquireFails /\ Go(o, "reopen")
  /\ UNCHANGED <<regions, bound, dataSize, fileDes, mapped, begun, faults>>

Create(o) ==
  /\ pc[o] = "create"
  /\ IF bound = None
     THEN /\ regions' = Append(regions, [size |-> 0, count |-> 0])
          /\ bound' = Len(regions')
          /\ fileDes' = [fileDes EXCEPT ![o] = bound']
          /\ Go(o, "truncate")
     ELSE Go(o, "unwind") /\ UNCHANGED <<regions, bound, fileDes>>
  /\ UNCHANGED <<lockVars, dataSize, mapped, begun, faults>>

Truncate(o) ==
  /\ pc[o] = "truncate"
  /\ regions' = [regions EXCEPT ![fileDes[o]].size = dataSize[o]]
  /\ Go(o, "unlock")
  /\ UNCHANGED <<lockVars, bound, dataSize, fileDes, mapped, begun, faults>>

(* AllocSharedMem ends, and its file descriptor is forgotten. *)
EndAlloc(o) ==
  /\ pc[o] = "unlock"
  /\ Release(o)
  /\ fileDes' = [fileDes EXCEPT ![o] = None]
  /\ Go(o, "reopen")
  /\ UNCHANGED <<regions, bound, dataSize, mapped, begun, faults>>

Map(o) ==
  /\ pc[o] = "map"
  /\ mapped' = [mapped EXCEPT ![o] = fileDes[o]]
  /\ Go(o, "count")
  /\ UNCHANGED <<lockVars, regions, bound, dataSize, fileDes, begun, faults>>

Count(o) ==
  /\ pc[o] = "count"
  /\ regions' = [regions EXCEPT ![mapped[o]].count = Counted(@)]
  /\ Go(o, "live")
  /\ UNCHANGED <<lockVars, bound, dataSize, fileDes, mapped, begun, faults>>

(* The constructor throws: m_SemLock is destroyed, ~SharedMemory not run.  *)
Unwind(o) ==
  /\ pc[o] = "unwind"
  /\ CloseLock(o)
  /\ Go(o, "threw")
  /\ UNCHANGED <<regions, bound, dataSize, fileDes, mapped, begun, faults>>

(* The destructor takes itself out of the count, and unmaps. *)
Uncount(o) ==
  /\ Live(o)
  /\ regions' = [regions EXCEPT ![mapped[o]].count = @ - 1]
  /\ mapped' = [mapped EXCEPT ![o] = None]
  /\ Go(o, IF IsLast(regions'[mapped[o]].count) THEN "free" ELSE "close")
  /\ UNCHANGED <<lockVars, bound, dataSize, fileDes, begun, faults>>

(* FreeSharedMem returns at once if the semaphore is taken. *)
TryFree(o) ==
  /\ pc[o] = "free"
  /\ \/ Acquire(o) /\ Go(o, "unlink")
     \/ AcquireFails /\ Go(o, "close")
  /\ UNCHANGED <<regions, bound, dataSize, fileDes, mapped, begun, faults>>

(* If there is nothing to unlink, the destructor of m_SemLock releases. *)
Unlink(o) ==
  /\ pc[o] = "unlink"
  /\ bound' = None
  /\ Go(o, IF bound = None THEN "close" ELSE "unlock_free")
  /\ UNCHANGED <<lockVars, regions, dataSize, fileDes, mapped, begun, faults>>

EndFree(o) ==
  /\ pc[o] = "unlock_free"
  /\ Release(o)
  /\ Go(o, "close")
  /\ UNCHANGED <<regions, bound, dataSize, fileDes, mapped, begun, faults>>

(* The file is closed, and m_SemLock destroyed. *)
Close(o) ==
  /\ pc[o] = "close"
  /\ CloseLock(o)
  /\ fileDes' = [fileDes EXCEPT ![o] = None]
  /\ Go(o, "out")
  /\ UNCHANGED <<regions, bound, dataSize, mapped, begun, faults>>

(* ftruncate, fstat or mmap fails: the constructor throws.  *)
CallFails(o) ==
  /\ pc[o] \in {"truncate", "stat", "map"}
  /\ Go(o, "unwind")
  /\ UNCHANGED <<lockVars, regions, bound, dataSize, fileDes, mapped, begun>>

(* The process dies between two steps: it no longer has the region open or *)
(* mapped, and that is all the kernel undoes.                              *)
Die(o) ==
  /\ pc[o] \notin {"out", "threw"}
  /\ LoseLock(o)
  /\ fileDes' = [fileDes EXCEPT ![o] = None]
  /\ mapped' = [mapped EXCEPT ![o] = None]
  /\ Go(o, "out")
  /\ UNCHANGED <<regions, bound, dataSize, begun>>

Fault(o) ==
  /\ faults < MaxFaults
  /\ faults' = faults + 1
  /\ CallFails(o) \/ Die(o)

Constructor(o) ==
  \/ \E size \in Sizes : Construct(o, size)
  \/ Open(o) \/ CheckSize(o)
  \/ TryAlloc(o) \/ Create(o) \/ Truncate(o) \/ EndAlloc(o)
  \/ Map(o) \/ Count(o) \/ Unwind(o)

Destructor(o) == Uncount(o) \/ TryFree(o) \/ Unlink(o) \/ EndFree(o) \/ Close(o)

(***************************************************************************)
(* History, for the properties.  raced: some object had the region open    *)
(* and was not counted, or opened it, while another was freeing it.        *)
(* skipped: a destructor did not free the region, the semaphore being      *)
(* taken.  contended: the objects whose constructor is in progress or has  *)
(* thrown, and met another object that held the semaphore.                 *)
(***************************************************************************)
Remember ==
  history' =
    [raced     |-> history.raced \/ \E o, p \in Objects : Opening(o)' /\ Freeing(p)',
     skipped   |-> history.skipped \/ \E o \in Objects : pc[o] = "free" /\ pc'[o] = "close",
     contended |->
       {o \in Objects :
          \/ Threw(o)' /\ o \in history.contended
          \/ /\ Constructing(o)'
             /\ \/ Constructing(o) /\ o \in history.contended
                \/ \E p \in Objects \ {o} : holdsOwnership[p] \/ holdsOwnership'[p]}]

Next ==
  /\ \E o \in Objects : Constructor(o) \/ Destructor(o) \/ Fault(o)
  /\ Remember

Spec == Init /\ [][Next]_shmVars

----------------------------------------------------------------------------
Steps ==
  {"out", "open", "stat", "alloc", "create", "truncate", "unlock", "reopen", "map", "count",
   "unwind", "threw", "live", "free", "unlink", "unlock_free", "close"}

Known  == 0 .. Len(regions)
Region == [size : Nat, count : Nat]

SharedMemoryTypeOK ==
  /\ value \in Nat /\ holdsOwnership \in [Objects -> BOOLEAN]
  /\ regions \in Seq(Region) /\ bound \in Known
  /\ pc \in [Objects -> Steps] /\ dataSize \in [Objects -> Sizes \cup {0}]
  /\ fileDes \in [Objects -> Known] /\ mapped \in [Objects -> Known]
  /\ \A o \in Objects : Opening(o) => fileDes[o] # None
  /\ \A o \in Objects : pc[o] \in {"count", "live"} => mapped[o] # None
  /\ begun \in Nat /\ faults \in Nat
  /\ history \in [raced : BOOLEAN, skipped : BOOLEAN, contended : SUBSET Objects]

(***************************************************************************)
(* The semaphore lets one object at a time create or unlink the region,    *)
(* whichever constructors throw and whichever processes die; as long as    *)
(* none dies it is never lost (SharedMemory.cpp:169, 204,                  *)
(* SemaphoreLock.cpp:61-68, 80-102).                                       *)
(***************************************************************************)
OneHolder ==
  /\ \A o, p \in Objects : InCritical(o) /\ InCritical(p) => o = p
  /\ value + Cardinality(Holders) <= 1
  /\ faults = 0 => value + Cardinality(Holders) = 1

(***************************************************************************)
(* An object in use maps a region of the size it was constructed with,     *)
(* even if it opened it between the shm_open that created it and the       *)
(* ftruncate; and that is the region the name is bound to, so that all     *)
(* share one and it is not unlinked under them - provided no process came  *)
(* to open the region while another was freeing it.  Deaths do not break   *)
(* it (SharedMemory.cpp:50-75, 84-93, 138, 174, 187).                      *)
(***************************************************************************)
LiveShareTheBoundRegion ==
  \A o \in Objects : Live(o) =>
    /\ regions[mapped[o]].size = dataSize[o]
    /\ ~history.raced => mapped[o] = bound

(***************************************************************************)
(* When all objects are gone the name is unbound, unless a process died,   *)
(* or a destructor met somebody in AllocSharedMem or FreeSharedMem         *)
(* (SharedMemory.cpp:91, 204).                                             *)
(***************************************************************************)
RemovedAfterLastUser ==
  /\ faults = 0 /\ ~history.skipped
  /\ \A o \in Objects : pc[o] \in {"out", "threw"}
  => bound = None

(***************************************************************************)
(* A constructor throws only if a call failed, the sizes differ, or it met *)
(* another object that held the semaphore: sequences of constructions  *)
(* and destructions, however long, do not leave the name in a state in     *)
(* which it cannot be opened (SharedMemory.cpp:50-64, 169-184).            *)
(***************************************************************************)
UncontendedConstructionSucceeds ==
  \A o \in Objects : Threw(o) =>
    \/ faults > 0 \/ o \in history.contended
    \/ fileDes[o] # None /\ regions[fileDes[o]].size # dataSize[o]

=============================================================================

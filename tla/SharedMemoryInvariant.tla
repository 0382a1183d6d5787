----------------------- MODULE SharedMemoryInvariant ------------------------
(***************************************************************************)
(* The inductive invariant behind the properties of SharedMemory.          *)
(***************************************************************************)
EXTENDS SharedMemory

(* Who holds the semaphore, and that without deaths it is never lost.  A   *)
(* constructor that throws, and a destructor that found nothing to unlink, *)
(* keep it until m_SemLock is destroyed.                                   *)
LockInv ==
  /\ value \in {0, 1}
  /\ \A o \in Objects :
       /\ InCritical(o) => holdsOwnership[o]
       /\ holdsOwnership[o] => InCritical(o) \/ pc[o] \in {"unwind", "close"}
       /\ value = 1 => ~holdsOwnership[o]
  /\ \A o, p \in Objects : holdsOwnership[o] /\ holdsOwnership[p] => o = p
  /\ faults = 0 => value = 1 \/ \E o \in Objects : holdsOwnership[o]

(* A region is sized once, by the object that created it, before anything  *)
(* else gets past the check of its size.                                   *)
SizeInv ==
  \A o \in Objects :
    /\ pc[o] # "out" => dataSize[o] \in Sizes
    /\ pc[o] \in {"truncate", "unlock", "live"} => fileDes[o] # None
    /\ pc[o] = "truncate" => regions[fileDes[o]].size = 0
    /\ pc[o] \in {"map", "count", "live"} => regions[fileDes[o]].size = dataSize[o]
    /\ pc[o] \in {"count", "live"} => mapped[o] = fileDes[o]

(* The objects counted in region g.  Those that died are never uncounted.  *)
Users(g) == {o \in Objects : Live(o) /\ mapped[o] = g}

CountInv ==
  \A g \in 1 .. Len(regions) :
    /\ Cardinality(Users(g)) <= regions[g].count
    /\ faults = 0 => Cardinality(Users(g)) = regions[g].count

(* Until one object opens the region while another frees it, all have the  *)
(* region open that the name is bound to, and it is freed after the last.  *)
NameInv ==
  ~history.raced =>
    \A o \in Objects : Opening(o) \/ Live(o) =>
      /\ fileDes[o] = bound
      /\ \A p \in Objects : ~Freeing(p)

(* The object will be live in the bound region, or will unbind it.         *)
Responsible(o) ==
  \/ pc[o] \in {"truncate", "map", "count", "live"} /\ fileDes[o] = bound
  \/ pc[o] \in {"unlock", "stat"} /\ fileDes[o] = bound /\ regions[bound].size = dataSize[o]
  \/ pc[o] = "reopen" /\ regions[bound].size = dataSize[o]
  \/ pc[o] \in {"free", "unlink"}

FreedInv ==
  faults = 0 /\ ~history.skipped /\ bound # None => \E o \in Objects : Responsible(o)

(* What brings a constructor to throw was done by a holder of the          *)
(* semaphore while the constructor was in progress.                        *)
Excused(o) == faults > 0 \/ o \in history.contended

ThrowInv ==
  /\ \A o \in Objects : ~Excused(o) =>
       /\ pc[o] \in {"alloc", "create"} => bound = None
       /\ pc[o] \in {"truncate", "unlock", "reopen"} => bound # None
       /\ pc[o] \in {"unwind", "threw"} =>
            fileDes[o] # None /\ regions[fileDes[o]].size \notin {0, dataSize[o]}
  /\ faults = 0 =>
       \A g \in 1 .. Len(regions) : regions[g].size = 0 =>
         \E p \in Objects : pc[p] = "truncate" /\ fileDes[p] = g

(***************************************************************************)
(* The inductive invariant of SharedMemory.                                *)
(***************************************************************************)
SharedMemoryInv ==
  /\ SharedMemoryTypeOK
  /\ LockInv /\ SizeInv /\ CountInv /\ NameInv /\ FreedInv /\ ThrowInv
=============================================================================

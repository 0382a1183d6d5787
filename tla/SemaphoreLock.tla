--------------------------- MODULE SemaphoreLock ---------------------------
(***************************************************************************)
(* SemaphoreLock objects on one named semaphore.  sem_open creates the     *)
(* semaphore with value 1 or finds it, and nothing removes it, so it may   *)
(* as well have been there from the start.  m_HoldsOwnership belongs to    *)
(* one object and is stored with the system call before it.                *)
(***************************************************************************)
EXTENDS Integers, FiniteSets

CONSTANT Objects   \* the objects, in whatever processes

VARIABLES
  value,            \* the semaphore's
  holdsOwnership    \* m_HoldsOwnership of each object

lockVars == <<value, holdsOwnership>>

Holders == {o \in Objects : holdsOwnership[o]}

LockInit ==
  /\ value = 1
  /\ holdsOwnership = [o \in Objects |-> FALSE]

(* Acquire returns true. *)
Acquire(o) ==
  /\ value > 0
  /\ value' = value - 1
  /\ holdsOwnership' = [holdsOwnership EXCEPT ![o] = TRUE]

(* Acquire returns false: sem_trywait does not wait. *)
AcquireFails == value = 0 /\ UNCHANGED lockVars

(* Release posts the semaphore, whoever acquired it. *)
Release(o) ==
  /\ value' = value + 1
  /\ holdsOwnership' = [holdsOwnership EXCEPT ![o] = FALSE]

(* A mutation of CloseLock. *)
PostAnyway(o) == Release(o)

(* The destructor. *)
CloseLock(o) ==
  IF holdsOwnership[o] THEN Release(o) ELSE UNCHANGED lockVars

(* The object's process dies: the kernel posts nothing. *)
LoseLock(o) ==
  /\ holdsOwnership' = [holdsOwnership EXCEPT ![o] = FALSE]
  /\ UNCHANGED value
=============================================================================

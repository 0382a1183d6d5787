------------------------------ MODULE Session ------------------------------
(***************************************************************************)
(* Writers and readers that come and go: IWrapper over its two regions,    *)
(* the semaphore that keeps writers apart, the constructor of Writer that  *)
(* resets State under whoever is attached, the destructors, a region that  *)
(* cannot be had, and processes that die.                                  *)
(*                                                                         *)
(* A region is mapped and given back in one step here; SharedMemory has    *)
(* the races within those steps.  Writer's variables are those of the one  *)
(* live writer (OneWriter).                                                *)
(***************************************************************************)
EXTENDS Reader, SemaphoreLock

CONSTANTS
  MaxSessions,   \* bound on the constructions of a Writer or a Reader
  MaxFaults      \* bound on the failures and deaths

ASSUME SessionAssumption ==
  /\ {MaxSessions, MaxFaults} \subseteq Nat
  /\ IsFiniteSet(Objects) /\ IsFiniteSet(Readers)
  /\ Objects \cap Readers = {}

VARIABLES
  stage,      \* of each process: the next step of its constructor or destructor,
              \* "live" in between and "out" outside
  users,      \* the reference counts of the regions
  sessions, faults,
  attached    \* history: the readers of the live stream, see ResetReadIdx

sessionVars == <<stage, users, lockVars, sessions, faults, attached>>
allVars     == <<vars, sessionVars>>

Processes == Objects \cup Readers
Regions   == {"state", "data"}

(* A byte of an earlier stream. *)
OldByte == <<0, 1>>

Live(p) == stage[p] = "live"

Goto(p, s) == stage' = [stage EXCEPT ![p] = s]

(* The processes that count in a region. *)
Mapping(g) ==
  LET before == IF g = "state" THEN {"state"} ELSE {"state", "data", "unwrapState"}
  IN  {p \in Processes : stage[p] \notin before \cup {"out"}}

----------------------------------------------------------------------------
(* Mutations of the definitions below. *)

KeepReadIdx         == UNCHANGED readIdx
KeepSeqNum          == UNCHANGED seqNum
RefusedKeepsRegions == "out"

----------------------------------------------------------------------------
SessionInit ==
  /\ Init
  /\ LockInit
  /\ stage = [p \in Processes |-> "out"]
  /\ users = [g \in Regions |-> 0]
  /\ sessions = 0 /\ faults = 0
  /\ attached = [r \in Readers |-> FALSE]

(* A Writer or a Reader is constructed: first IWrapper. *)
Construct(p) ==
  /\ stage[p] = "out" /\ sessions < MaxSessions
  /\ sessions' = sessions + 1
  /\ Goto(p, "state")
  /\ UNCHANGED <<vars, users, lockVars, faults, attached>>

(* Nothing has been written in what is now the stream; the writer starts   *)
(* at the beginning of the buffer.                                         *)
NewStream ==
  /\ log' = <<>> /\ wPc' = "idle"
  /\ wLocalIndex' = 0 /\ wLocalSeqNum' = 0 /\ nextElement' = 0

(* A region nobody uses was removed; the next to map it makes a new one,   *)
(* of zeros.                                                               *)
WrapState(p) ==
  /\ stage[p] = "state"
  /\ users' = [users EXCEPT !["state"] = @ + 1]
  /\ IF users["state"] = 0
     THEN readIdx' = 0 /\ writeIdx' = 0 /\ seqNum' = 0 /\ NewStream
     ELSE UNCHANGED <<readIdx, writeIdx, seqNum, log, wPc, wLocalIndex, wLocalSeqNum, nextElement>>
  /\ Goto(p, "data")
  /\ UNCHANGED <<cell, readerVars, lockVars, sessions, faults, attached>>

WrapData(p) ==
  /\ stage[p] = "data"
  /\ users' = [users EXCEPT !["data"] = @ + 1]
  /\ cell' = IF users["data"] = 0 THEN [c \in Cell |-> ZeroByte] ELSE cell
  /\ Goto(p, IF p \in Objects THEN "ensure" ELSE "live")
  /\ UNCHANGED <<readIdx, writeIdx, seqNum, log, wPc, wLocalIndex, wLocalSeqNum, nextElement,
                 readerVars, lockVars, sessions, faults, attached>>

(* The second region cannot be had: the constructor of IWrapper throws,    *)
(* and what it has of the first is leaked, with its count.                 *)
WrapFails(p) ==
  /\ stage[p] = "data" /\ faults < MaxFaults
  /\ faults' = faults + 1
  /\ Goto(p, "out")
  /\ UNCHANGED <<vars, users, lockVars, sessions, attached>>

(* What a refused Writer's constructor unwinds: its lock, then IWrapper. *)
AfterRefusal == "close"

(* EnsureSingleton. *)
EnsureSingleton(w) ==
  /\ stage[w] = "ensure"
  /\ \/ Acquire(w) /\ Goto(w, "readIdx")
     \/ AcquireFails /\ Goto(w, AfterRefusal)
  /\ UNCHANGED <<vars, users, sessions, faults, attached>>

StoreZeroReadIdx == readIdx' = 0

StoreZeroSeqNum  == seqNum' = 0

(* A reader that has never moved from where a new stream begins. *)
AtBeginning(r) ==
  /\ rLocalIndex[r] = 0 /\ rLocalSeqNum[r] = 0
  /\ rPc[r] \in {"attach", "idle", "poll"} /\ ret[r] \in {"none", "empty"}

(***************************************************************************)
(* The writer's constructor stores 0 to readIdx, with which the stream     *)
(* begins again.  It follows, from here, the readers that stand at its     *)
(* beginning; the others go on in a stream that is over, until they leave. *)
(***************************************************************************)
ResetReadIdx(w) ==
  /\ stage[w] = "readIdx"
  /\ StoreZeroReadIdx
  /\ NewStream
  /\ cell' = [c \in Cell |-> IF cell[c] = ZeroByte THEN ZeroByte ELSE OldByte]
  /\ attached' = [r \in Readers |-> AtBeginning(r)]
  /\ rNext' = [r \in Readers |-> IF AtBeginning(r) THEN 1 ELSE rNext[r]]
  /\ synced' = [r \in Readers |-> AtBeginning(r) /\ rPc[r] # "attach"]
  /\ Goto(w, "writeIdx")
  /\ UNCHANGED <<writeIdx, seqNum, rPc, rLocalIndex, rLocalSeqNum, rCap, rSize, rData, ret,
                 users, lockVars, sessions, faults>>

ResetWriteIdx(w) ==
  /\ stage[w] = "writeIdx"
  /\ writeIdx' = 0
  /\ Goto(w, "seqNum")
  /\ UNCHANGED <<readIdx, seqNum, cell, wPc, wLocalIndex, wLocalSeqNum, nextElement, log,
                 readerVars, users, lockVars, sessions, faults, attached>>

ResetSeqNum(w) ==
  /\ stage[w] = "seqNum"
  /\ StoreZeroSeqNum
  /\ Goto(w, "live")
  /\ UNCHANGED <<readIdx, writeIdx, cell, wPc, wLocalIndex, wLocalSeqNum, nextElement, log,
                 readerVars, users, lockVars, sessions, faults, attached>>

LiveWrites(w) == Live(w) /\ WriterNext /\ UNCHANGED <<readerVars, sessionVars>>

LiveReads(r) ==
  /\ Live(r)
  /\ ReaderNext(r)
  /\ attached' = [attached EXCEPT ![r] = @ \/ rPc[r] = "closed"]
  /\ UNCHANGED <<writerVars, stage, users, lockVars, sessions, faults>>

(* ~Writer posts the semaphore. *)
Unlock(w) ==
  /\ Live(w) /\ wPc = "idle"
  /\ Release(w)
  /\ Goto(w, "close")
  /\ UNCHANGED <<vars, users, sessions, faults, attached>>

(* ~SemaphoreLock. *)
DestroyLock(w) ==
  /\ stage[w] = "close"
  /\ CloseLock(w)
  /\ Goto(w, "unwrapData")
  /\ UNCHANGED <<vars, users, sessions, faults, attached>>

(* The members of a reader that is gone. *)
Closed(r) ==
  /\ rPc' = [rPc EXCEPT ![r] = "closed"]
  /\ rLocalIndex' = [rLocalIndex EXCEPT ![r] = 0]
  /\ rLocalSeqNum' = [rLocalSeqNum EXCEPT ![r] = 0]
  /\ rCap' = [rCap EXCEPT ![r] = 0]
  /\ rSize' = [rSize EXCEPT ![r] = 0]
  /\ rData' = [rData EXCEPT ![r] = <<>>]
  /\ ret' = [ret EXCEPT ![r] = "none"]
  /\ rNext' = [rNext EXCEPT ![r] = 1]
  /\ synced' = [synced EXCEPT ![r] = FALSE]
  /\ attached' = [attached EXCEPT ![r] = FALSE]

Leave(r) ==
  /\ Live(r) /\ rPc[r] = "idle"
  /\ Closed(r)
  /\ Goto(r, "unwrapData")
  /\ UNCHANGED <<writerVars, users, lockVars, sessions, faults>>

(* ~IWrapper. *)
UnwrapData(p) ==
  /\ stage[p] = "unwrapData"
  /\ users' = [users EXCEPT !["data"] = @ - 1]
  /\ Goto(p, "unwrapState")
  /\ UNCHANGED <<vars, lockVars, sessions, faults, attached>>

UnwrapState(p) ==
  /\ stage[p] = "unwrapState"
  /\ users' = [users EXCEPT !["state"] = @ - 1]
  /\ Goto(p, "out")
  /\ UNCHANGED <<vars, lockVars, sessions, faults, attached>>

(* A process dies: nothing counts back and nothing posts.  The Write of a  *)
(* writer stays where it was.                                              *)
Die(p) ==
  /\ stage[p] # "out" /\ faults < MaxFaults
  /\ faults' = faults + 1
  /\ Goto(p, "out")
  /\ IF p \in Objects THEN LoseLock(p) /\ UNCHANGED <<readerVars, attached>>
     ELSE Closed(p) /\ UNCHANGED lockVars
  /\ UNCHANGED <<writerVars, users, sessions>>

WriterSession(w) ==
  \/ EnsureSingleton(w)
  \/ ResetReadIdx(w) \/ ResetWriteIdx(w) \/ ResetSeqNum(w)
  \/ LiveWrites(w)
  \/ Unlock(w) \/ DestroyLock(w)

ReaderSession(r) == LiveReads(r) \/ Leave(r)

ProcessSession(p) ==
  \/ Construct(p) \/ WrapState(p) \/ WrapData(p) \/ WrapFails(p)
  \/ UnwrapData(p) \/ UnwrapState(p) \/ Die(p)

SessionNext ==
  \/ \E p \in Processes : ProcessSession(p)
  \/ \E w \in Objects : WriterSession(w)
  \/ \E r \in Readers : ReaderSession(r)

SessionSpec == SessionInit /\ [][SessionNext]_allVars

----------------------------------------------------------------------------
Stages == {"out", "state", "data", "ensure", "readIdx", "writeIdx", "seqNum", "live", "close",
           "unwrapData", "unwrapState"}

SessionTypeOK ==
  /\ ReaderTypeOK
  /\ value \in Nat /\ holdsOwnership \in [Objects -> BOOLEAN]
  /\ stage \in [Processes -> Stages]
  /\ users \in [Regions -> Nat]
  /\ sessions \in 0 .. MaxSessions /\ faults \in 0 .. MaxFaults
  /\ attached \in [Readers -> BOOLEAN]

(* The writers past EnsureSingleton and not yet past ~Writer. *)
ActiveWriters == {w \in Objects : stage[w] \in {"readIdx", "writeIdx", "seqNum", "live"}}

(***************************************************************************)
(* There is one writer at a time, over every overlap of constructors, of   *)
(* refusals and of destructors that release the semaphore twice over       *)
(* (Writer.cpp:33, SemaphoreLock.cpp:62), and when none died a writer is   *)
(* refused only because there is another.                                  *)
(***************************************************************************)
OneWriter ==
  /\ Cardinality(ActiveWriters) <= 1
  /\ value + Cardinality(ActiveWriters) <= 1
  /\ faults = 0 => value + Cardinality(ActiveWriters) = 1

(***************************************************************************)
(* What is shared is what the live writer believes it is, also after it    *)
(* took over from another one, and while others are refused: nobody else   *)
(* resets State under it (Writer.cpp:22-27).                               *)
(***************************************************************************)
StateIsTheLiveWriters ==
  \A w \in Objects : Live(w) /\ wPc = "idle" =>
    readIdx = wLocalIndex /\ writeIdx = wLocalIndex /\ seqNum = wLocalSeqNum

(***************************************************************************)
(* A reader that attached to the stream of the live writer, or waited at   *)
(* the beginning of the buffer when the writer came, is served as if there *)
(* had been no other writer, whatever an earlier one left in the buffer    *)
(* (Writer.cpp:25-29, Reader.cpp:21-22).                                   *)
(***************************************************************************)
AttachedReaderIsServed ==
  \A r \in Readers : attached[r] =>
    /\ ReadIsIntact(r)
    /\ KeptUp(r) /\ (\E w \in Objects : Live(w)) => InStep(r) /\ NotRefused(r)

(***************************************************************************)
(* Every region counts at least those who map it; and exactly those, when  *)
(* no constructor of IWrapper failed half way and nobody died, so that a   *)
(* refused Writer gives back what it mapped (IWrapper.cpp:20-22, 45-50).   *)
(***************************************************************************)
RegionsAreGivenBack ==
  \A g \in Regions :
    /\ users[g] >= Cardinality(Mapping(g))
    /\ faults = 0 => users[g] = Cardinality(Mapping(g))
=============================================================================

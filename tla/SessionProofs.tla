---------------------------- MODULE SessionProofs ----------------------------
(***************************************************************************)
(* Proofs about Session: one writer at a time, whatever fails and whoever  *)
(* dies; regions given back; and the stream of a writer that took over,    *)
(* and the readers attached to it, as good as the first.  Writer's and     *)
(* Reader's steps are those of ReaderProofs.                               *)
(***************************************************************************)
EXTENDS SessionInvariant, ReaderProofs, FiniteSetTheorems

ProcessStep(p) ==
  \/ ProcessSession(p)
  \/ p \in Objects /\ WriterSession(p)
  \/ p \in Readers /\ ReaderSession(p)

(* Processes move one at a time. *)
LEMMA OthersWait ==
  ASSUME SessionTypeOK, NEW p \in Processes, ProcessStep(p)
  PROVE  /\ \A q \in Processes \ {p} : stage'[q] = stage[q]
         /\ faults \in Nat /\ faults' \in {faults, faults + 1}
<1>1. stage \in [Processes -> Stages] /\ faults \in Nat
  BY SessionAssumption DEF SessionTypeOK
<1>2. CASE ProcessSession(p)
  BY <1>1, <1>2
  DEF ProcessSession, Construct, WrapState, WrapData, WrapFails, UnwrapData, UnwrapState, Die, Goto
<1>3. CASE WriterSession(p)
  BY <1>1, <1>3
  DEF WriterSession, EnsureSingleton, ResetReadIdx, ResetWriteIdx, ResetSeqNum, LiveWrites, Unlock,
      DestroyLock, Goto, sessionVars
<1>4. CASE ReaderSession(p)
  BY <1>1, <1>4 DEF ReaderSession, LiveReads, Leave, Goto
<1> QED
  BY <1>2, <1>3, <1>4 DEF ProcessStep

(***************************************************************************)
(* Whose turn it is to write, over each step.                              *)
(***************************************************************************)
LEMMA TurnStep ==
  ASSUME SessionTypeOK, TurnInv, NEW p \in Processes, ProcessStep(p)
  PROVE  TurnInv'
<1>1. /\ stage \in [Processes -> Stages] /\ holdsOwnership \in [Objects -> BOOLEAN]
      /\ Objects \subseteq Processes
  BY DEF SessionTypeOK, Processes
<1>2. /\ \A q \in Processes \ {p} : stage'[q] = stage[q]
      /\ faults \in Nat /\ faults' \in {faults, faults + 1}
  BY OthersWait
<1>3. \A w \in Objects \ {p} : Active(w)' <=> Active(w)
  BY <1>1, <1>2 DEF Active
<1>4. ASSUME UNCHANGED lockVars, p \in Objects => (Active(p)' <=> Active(p))
      PROVE  TurnInv'
  <2>1. \A w \in Objects : Active(w)' <=> Active(w)
    BY <1>3, <1>4
  <2>2. faults' = 0 => faults = 0
    BY <1>2
  <2>3. value' = value /\ holdsOwnership' = holdsOwnership
    BY <1>4 DEF lockVars
  <2> QED
    BY <2>1, <2>2, <2>3 DEF TurnInv
<1>5. CASE \/ Construct(p) \/ WrapState(p) \/ WrapData(p) \/ WrapFails(p)
           \/ UnwrapData(p) \/ UnwrapState(p)
  BY <1>1, <1>4, <1>5
  DEF Construct, WrapState, WrapData, WrapFails, UnwrapData, UnwrapState, Goto, Active
<1>6. CASE Die(p)
  <2>1. ~Active(p)' /\ faults' # 0 /\ value' = value
    BY <1>1, <1>2, <1>6 DEF Die, Goto, Active, LoseLock, lockVars
  <2>2. p \in Objects => holdsOwnership' = [holdsOwnership EXCEPT ![p] = FALSE]
    BY <1>6 DEF Die, LoseLock
  <2>3. p \notin Objects => holdsOwnership' = holdsOwnership
    BY <1>6 DEF Die, lockVars
  <2> QED
    BY <1>1, <1>3, <2>1, <2>2, <2>3 DEF TurnInv
<1>7. CASE p \in Objects /\ EnsureSingleton(p)
  <2>1. ~Active(p)
    BY <1>7 DEF EnsureSingleton, Active
  <2>2. CASE Acquire(p) /\ Goto(p, "readIdx")
    <3>1. Active(p)' /\ value' = value - 1 /\ value > 0
      BY <1>1, <2>2 DEF Goto, Acquire, Active
    <3>2. holdsOwnership' = [holdsOwnership EXCEPT ![p] = TRUE]
      BY <2>2 DEF Acquire
    <3>3. value = 1 /\ value' = 0
      BY <3>1 DEF TurnInv
    <3> QED
      BY <1>1, <1>3, <1>7, <3>1, <3>2, <3>3 DEF TurnInv
  <2>3. CASE AcquireFails /\ Goto(p, AfterRefusal)
    BY <1>1, <1>4, <2>1, <2>3 DEF AcquireFails, Goto, AfterRefusal, Active
  <2> QED
    BY <1>7, <2>2, <2>3 DEF EnsureSingleton
<1>8. CASE p \in Objects /\ (ResetReadIdx(p) \/ ResetWriteIdx(p) \/ ResetSeqNum(p) \/ LiveWrites(p))
  BY <1>1, <1>4, <1>8
  DEF ResetReadIdx, ResetWriteIdx, ResetSeqNum, LiveWrites, sessionVars, Goto, Active
<1>9. CASE p \in Objects /\ Unlock(p)
  <2>1. Active(p) /\ ~Active(p)' /\ value' = value + 1
    BY <1>1, <1>9 DEF Unlock, Live, Goto, Release, Active
  <2>2. holdsOwnership' = [holdsOwnership EXCEPT ![p] = FALSE]
    BY <1>9 DEF Unlock, Release
  <2>3. value' = 1
    BY <1>9, <2>1 DEF TurnInv
  <2> QED
    BY <1>1, <1>3, <1>9, <2>1, <2>2, <2>3 DEF TurnInv
<1>10. CASE p \in Objects /\ DestroyLock(p)
  <2>1. ~holdsOwnership[p]
    BY <1>10 DEF TurnInv, DestroyLock, Active
  <2> QED
    BY <1>1, <1>4, <1>10, <2>1 DEF DestroyLock, CloseLock, Goto, Active
<1>11. CASE p \in Readers /\ ReaderSession(p)
  <2>1. p \notin Objects
    BY <1>11, SessionAssumption
  <2> QED
    BY <1>4, <1>11, <2>1 DEF ReaderSession, LiveReads, Leave
<1> QED
  BY <1>5, <1>6, <1>7, <1>8, <1>9, <1>10, <1>11 DEF ProcessStep, ProcessSession, WriterSession

----------------------------------------------------------------------------
(* Who maps a region is counted in it. *)
LEMMA MappingIsCounted ==
  ASSUME SessionTypeOK, UsersInv, NEW g \in Regions
  PROVE  /\ IsFiniteSet(Mapping(g)) /\ Cardinality(Mapping(g)) \in Nat
         /\ users[g] \in Nat /\ Cardinality(Mapping(g)) <= users[g]
         /\ faults = 0 => Cardinality(Mapping(g)) = users[g]
         /\ Mapping(g) # {} => users[g] # 0
<1>1. IsFiniteSet(Processes)
  BY SessionAssumption, FS_Union DEF Processes
<1>2. IsFiniteSet(Mapping(g)) /\ Cardinality(Mapping(g)) \in Nat
  BY <1>1, FS_Subset, FS_CardinalityType DEF Mapping
<1>3. users[g] \in Nat
  BY DEF SessionTypeOK
<1>4. Mapping(g) # {} => Cardinality(Mapping(g)) # 0
  BY <1>2, FS_EmptySet
<1> QED
  BY <1>2, <1>3, <1>4 DEF UsersInv

(* The reference counts, over each step. *)
LEMMA UsersStep ==
  ASSUME SessionTypeOK, UsersInv, NEW p \in Processes, ProcessStep(p)
  PROVE  UsersInv'
<1> SUFFICES ASSUME NEW g \in Regions
             PROVE  /\ Cardinality(Mapping(g))' <= users'[g]
                    /\ faults' = 0 => Cardinality(Mapping(g))' = users'[g]
  BY DEF UsersInv
<1> DEFINE M == Mapping(g)
<1>1. /\ IsFiniteSet(M) /\ Cardinality(M) \in Nat
      /\ users[g] \in Nat /\ Cardinality(M) <= users[g]
      /\ faults = 0 => Cardinality(M) = users[g]
  BY MappingIsCounted
<1>2. /\ \A q \in Processes \ {p} : stage'[q] = stage[q]
      /\ faults \in Nat /\ faults' \in {faults, faults + 1}
  BY OthersWait
<1>3. /\ stage \in [Processes -> Stages] /\ users \in [Regions -> Nat]
      /\ g = "state" \/ g = "data"
  BY DEF SessionTypeOK, Regions
<1>4. M' = IF (p \in M)' THEN M \cup {p} ELSE M \ {p}
  BY <1>2 DEF Mapping
<1>5. /\ Cardinality(M \cup {p}) = IF p \in M THEN Cardinality(M) ELSE Cardinality(M) + 1
      /\ Cardinality(M \ {p}) = IF p \in M THEN Cardinality(M) - 1 ELSE Cardinality(M)
  BY <1>1, FS_AddElement, FS_RemoveElement
<1>6. p \in M => Cardinality(M) # 0
  BY <1>1, FS_EmptySet
<1>7. ASSUME (p \in M)' <=> p \in M, users'[g] = users[g] PROVE Cardinality(M)' <= users'[g]
                    /\ (faults' = 0 => Cardinality(M)' = users'[g])
  <2>1. M' = M
    BY <1>4, <1>7
  <2>2. faults' = 0 => faults = 0
    BY <1>2
  <2> QED
    BY <1>1, <1>7, <2>1, <2>2
<1>8. ASSUME p \notin M, (p \in M)', users'[g] = users[g] + 1
      PROVE  Cardinality(M)' <= users'[g] /\ (faults' = 0 => Cardinality(M)' = users'[g])
  <2>1. Cardinality(M') = Cardinality(M) + 1
    BY <1>4, <1>5, <1>8
  <2>2. faults' = 0 => faults = 0
    BY <1>2
  <2> HIDE DEF M
  <2> QED
    BY <1>1, <1>8, <2>1, <2>2
<1>9. ASSUME p \in M, ~(p \in M)',
             users'[g] = users[g] - 1 \/ (users'[g] = users[g] /\ faults' # 0)
      PROVE  Cardinality(M)' <= users'[g] /\ (faults' = 0 => Cardinality(M)' = users'[g])
  <2>1. Cardinality(M') = Cardinality(M) - 1
    BY <1>4, <1>5, <1>9
  <2>2. faults' = 0 => faults = 0
    BY <1>2
  <2> HIDE DEF M
  <2> QED
    BY <1>1, <1>9, <2>1, <2>2
<1>10. CASE Construct(p)
  BY <1>3, <1>7, <1>10 DEF Construct, Goto, Mapping
<1>11. CASE WrapState(p)
  BY <1>3, <1>7, <1>8, <1>11 DEF WrapState, Goto, Mapping
<1>12. CASE WrapData(p)
  BY <1>3, <1>7, <1>8, <1>12 DEF WrapData, Goto, Mapping
<1>13. CASE UnwrapData(p) \/ UnwrapState(p)
  <2> DEFINE left == IF UnwrapData(p) THEN "data" ELSE "state"
  <2>1. /\ stage[p] = IF left = "data" THEN "unwrapData" ELSE "unwrapState"
        /\ stage'[p] = IF left = "data" THEN "unwrapState" ELSE "out"
        /\ users'[g] = IF g = left THEN users[g] - 1 ELSE users[g]
    BY <1>3, <1>13 DEF UnwrapData, UnwrapState, Goto
  <2>2. CASE g = left
    <3>1. p \in M /\ ~(p \in M)'
      BY <1>3, <2>1, <2>2 DEF Mapping
    <3>2. users'[g] = users[g] - 1
      BY <2>1, <2>2
    <3> QED
      BY <1>9, <3>1, <3>2
  <2>3. CASE g # left
    <3>1. CASE left = "data" /\ g = "state"
      <4>1. p \in M /\ (p \in M)'
        BY <2>1, <3>1 DEF Mapping
      <4> QED
        BY <1>7, <2>1, <2>3, <4>1
    <3>2. CASE left = "state" /\ g = "data"
      <4>1. p \notin M /\ ~(p \in M)'
        BY <2>1, <3>2 DEF Mapping
      <4> QED
        BY <1>7, <2>1, <2>3, <4>1
    <3> QED
      BY <1>3, <2>3, <3>1, <3>2
  <2> QED
    BY <2>2, <2>3
<1>14. CASE WrapFails(p) \/ Die(p)
  <2>1. stage'[p] = "out" /\ users' = users /\ faults' # 0
    BY <1>2, <1>3, <1>14 DEF WrapFails, Die, Goto
  <2>2. ~(p \in M)'
    BY <2>1 DEF Mapping
  <2>3. CASE p \in M
    BY <1>9, <2>1, <2>2, <2>3
  <2>4. CASE p \notin M
    BY <1>7, <2>1, <2>2, <2>4
  <2> QED
    BY <2>3, <2>4
<1>15. CASE WriterSession(p)
  BY <1>3, <1>7, <1>15
  DEF WriterSession, EnsureSingleton, AfterRefusal, ResetReadIdx, ResetWriteIdx, ResetSeqNum,
      LiveWrites, Unlock, DestroyLock, Live, Goto, sessionVars, Mapping
<1>16. CASE ReaderSession(p)
  BY <1>3, <1>7, <1>16 DEF ReaderSession, LiveReads, Leave, Live, Goto, Mapping
<1> QED
  BY <1>10, <1>11, <1>12, <1>13, <1>14, <1>15, <1>16
  DEF ProcessStep, ProcessSession

----------------------------------------------------------------------------
(* Only a live writer writes, and then there is a stream to write on. *)
LEMMA LiveHasStream ==
  ASSUME StreamInv, NEW w \in Objects, Live(w)
  PROVE  WriterInv
BY DEF StreamInv, Interrupted

(* No step of a process leaves the types of the buffer.                    *)
LEMMA WriterTypeStep ==
  ASSUME WriterTypeOK, StreamInv, NEW p \in Processes, ProcessStep(p)
  PROVE  WriterTypeOK'
<1>0. 0 \in Index /\ 0 \in Nat /\ <<>> \in Seq(FrameRecord) /\ ZeroByte \in Byte /\ OldByte \in Byte
  BY FramingAssumption DEF Index, ZeroByte, OldByte, Byte
<1>1. CASE UNCHANGED writerVars
  BY <1>1 DEF writerVars, shared, WriterTypeOK
<1>2. CASE WrapState(p)
  BY <1>0, <1>2 DEF WrapState, NewStream, WriterTypeOK
<1>3. CASE WrapData(p)
  BY <1>0, <1>3 DEF WrapData, WriterTypeOK
<1>4. CASE ResetReadIdx(p)
  BY <1>0, <1>4 DEF ResetReadIdx, StoreZeroReadIdx, NewStream, WriterTypeOK
<1>5. CASE ResetWriteIdx(p) \/ ResetSeqNum(p)
  BY <1>0, <1>5 DEF ResetWriteIdx, ResetSeqNum, StoreZeroSeqNum, WriterTypeOK
<1>6. CASE p \in Objects /\ LiveWrites(p)
  <2>1. WriterInv
    BY <1>6, LiveHasStream DEF LiveWrites
  <2> QED
    BY <1>6, <2>1, NextPreservesInv DEF LiveWrites, WriterInv
<1>7. CASE Construct(p) \/ WrapFails(p) \/ UnwrapData(p) \/ UnwrapState(p) \/ Die(p)
  BY <1>1, <1>7 DEF Construct, WrapFails, UnwrapData, UnwrapState, Die, vars
<1>8. CASE EnsureSingleton(p) \/ Unlock(p) \/ DestroyLock(p) \/ ReaderSession(p)
  BY <1>1, <1>8 DEF EnsureSingleton, Unlock, DestroyLock, ReaderSession, LiveReads, Leave, vars
<1> QED
  BY <1>2, <1>3, <1>4, <1>5, <1>6, <1>7, <1>8 DEF ProcessStep, ProcessSession, WriterSession

(* A reader that is gone leaves the others as they are. *)
LEMMA ClosedKeepsReadInv ==
  ASSUME ReadInv, WriterTypeOK', NEW r \in Readers, Closed(r)
  PROVE  ReadInv'
<1>1. 0 \in Index /\ 0 \in Size /\ <<>> \in Seq(Byte)
  BY FramingAssumption DEF Index, Size
<1>2. ReaderTypeOK'
  BY <1>1 DEF Closed, ReadInv, ReaderTypeOK, ReaderPcs
<1>3. ASSUME NEW q \in Readers PROVE ReadShape(q)'
  <2>1. CASE q = r
    BY <2>1 DEF Closed, ReadInv, ReaderTypeOK, ReadShape
  <2>2. CASE q # r
    BY <2>2 DEF Closed, ReadInv, ReaderTypeOK, ReadShape
  <2> QED
    BY <2>1, <2>2
<1> QED
  BY <1>2, <1>3 DEF ReadInv

(* Readers keep the shape of a Read in progress, whoever comes or goes.    *)
LEMMA ReadInvStep ==
  ASSUME ReadInv, StreamInv, NEW p \in Processes, ProcessStep(p)
  PROVE  ReadInv'
<1>1. WriterTypeOK'
  BY WriterTypeStep DEF ReadInv, ReaderTypeOK
<1>2. CASE UNCHANGED readerVars
  BY <1>1, <1>2, OthersPreserveReadInv
<1>3. CASE ResetReadIdx(p)
  <2>1. /\ rNext' \in [Readers -> Nat \ {0}] /\ synced' \in [Readers -> BOOLEAN]
        /\ UNCHANGED <<rPc, rLocalIndex, rLocalSeqNum, rCap, rSize, rData, ret>>
    BY <1>3 DEF ResetReadIdx, ReadInv, ReaderTypeOK
  <2> QED
    BY <1>1, <2>1 DEF ReadInv, ReaderTypeOK, ReadShape
<1>4. CASE p \in Readers /\ LiveReads(p)
  BY <1>4, ReaderNextPreservesReadInv DEF LiveReads
<1>5. CASE p \in Readers /\ Closed(p)
  BY <1>1, <1>5, ClosedKeepsReadInv
<1>6. CASE ProcessSession(p)
  BY <1>2, <1>5, <1>6
  DEF ProcessSession, Construct, WrapState, WrapData, WrapFails, UnwrapData, UnwrapState, Die,
      Processes, vars
<1>7. CASE WriterSession(p)
  BY <1>2, <1>3, <1>7
  DEF WriterSession, EnsureSingleton, ResetWriteIdx, ResetSeqNum, LiveWrites, Unlock,
      DestroyLock, vars
<1>8. CASE p \in Readers /\ ReaderSession(p)
  BY <1>4, <1>5, <1>8 DEF ReaderSession, Leave
<1> QED
  BY <1>6, <1>7, <1>8 DEF ProcessStep

(* The types of what sessions add. *)
LEMMA SessionTypeStep ==
  ASSUME SessionTypeOK, TurnInv', UsersInv, ReadInv', NEW p \in Processes, ProcessStep(p)
  PROVE  SessionTypeOK'
<1> USE DEF Goto
<1>1. /\ stage \in [Processes -> Stages] /\ users \in [Regions -> Nat]
      /\ holdsOwnership \in [Objects -> BOOLEAN] /\ attached \in [Readers -> BOOLEAN]
      /\ sessions \in 0 .. MaxSessions /\ faults \in 0 .. MaxFaults
      /\ MaxSessions \in Nat /\ MaxFaults \in Nat /\ rPc \in [Readers -> ReaderPcs]
  BY SessionAssumption DEF SessionTypeOK, ReaderTypeOK
<1>2. ReaderTypeOK' /\ value' \in Nat
  BY DEF ReadInv, TurnInv
<1>3. holdsOwnership' \in [Objects -> BOOLEAN]
  <2>1. \/ UNCHANGED lockVars
        \/ holdsOwnership' = [holdsOwnership EXCEPT ![p] = TRUE]
        \/ holdsOwnership' = [holdsOwnership EXCEPT ![p] = FALSE]
    BY DEF ProcessStep, ProcessSession, Construct, WrapState, WrapData, WrapFails, UnwrapData,
           UnwrapState, Die, WriterSession, EnsureSingleton, ResetReadIdx, ResetWriteIdx,
           ResetSeqNum, LiveWrites, Unlock, DestroyLock, ReaderSession, LiveReads, Leave,
           Acquire, AcquireFails, Release, CloseLock, LoseLock, sessionVars
  <2> QED
    BY <1>1, <2>1 DEF lockVars
<1>4. stage' \in [Processes -> Stages] /\ sessions' \in 0 .. MaxSessions /\ faults' \in 0 .. MaxFaults
  <2>1. CASE ProcessSession(p)
    BY <1>1, <2>1
    DEF ProcessSession, Construct, WrapState, WrapData, WrapFails, UnwrapData, UnwrapState, Die,
        Stages
  <2>2. CASE WriterSession(p)
    BY <1>1, <2>2
    DEF WriterSession, EnsureSingleton, AfterRefusal, ResetReadIdx, ResetWriteIdx, ResetSeqNum,
        LiveWrites, Unlock, DestroyLock, sessionVars, Stages
  <2>3. CASE ReaderSession(p)
    BY <1>1, <2>3 DEF ReaderSession, LiveReads, Leave, Stages
  <2> QED
    BY <2>1, <2>2, <2>3 DEF ProcessStep
<1>5. users' \in [Regions -> Nat]
  <2>1. CASE WrapState(p) \/ WrapData(p)
    BY <1>1, <2>1 DEF WrapState, WrapData, Regions
  <2>2. CASE UnwrapData(p)
    <3>1. p \in Mapping("data") /\ "data" \in Regions
      BY <2>2 DEF UnwrapData, Mapping, Regions
    <3>2. users["data"] - 1 \in Nat
      BY <1>1, <3>1, MappingIsCounted
    <3> QED
      BY <1>1, <2>2, <3>1, <3>2 DEF UnwrapData
  <2>3. CASE UnwrapState(p)
    <3>1. p \in Mapping("state") /\ "state" \in Regions
      BY <2>3 DEF UnwrapState, Mapping, Regions
    <3>2. users["state"] - 1 \in Nat
      BY <1>1, <3>1, MappingIsCounted
    <3> QED
      BY <1>1, <2>3, <3>1, <3>2 DEF UnwrapState
  <2>4. CASE Construct(p) \/ WrapFails(p) \/ Die(p)
    BY <1>1, <2>4 DEF Construct, WrapFails, Die
  <2>5. CASE WriterSession(p) \/ ReaderSession(p)
    BY <1>1, <2>5
    DEF WriterSession, EnsureSingleton, ResetReadIdx, ResetWriteIdx, ResetSeqNum, LiveWrites,
        Unlock, DestroyLock, sessionVars, ReaderSession, LiveReads, Leave
  <2> QED
    BY <2>1, <2>2, <2>3, <2>4, <2>5 DEF ProcessStep, ProcessSession
<1>6. attached' \in [Readers -> BOOLEAN]
  <2>1. \/ UNCHANGED attached
        \/ attached' = [attached EXCEPT ![p] = FALSE]
        \/ attached' = [attached EXCEPT ![p] = attached[p] \/ rPc[p] = "closed"]
        \/ ResetReadIdx(p)
    BY DEF ProcessStep, ProcessSession, Construct, WrapState, WrapData, WrapFails, UnwrapData,
           UnwrapState, Die, WriterSession, EnsureSingleton, ResetWriteIdx,
           ResetSeqNum, LiveWrites, Unlock, DestroyLock, ReaderSession, LiveReads, Leave, Closed,
           sessionVars
  <2>2. ResetReadIdx(p) => attached' \in [Readers -> BOOLEAN]
    BY DEF ResetReadIdx, AtBeginning
  <2> QED
    BY <1>1, <2>1, <2>2
<1> QED
  BY <1>2, <1>3, <1>4, <1>5, <1>6 DEF SessionTypeOK

(***************************************************************************)
(* What readers come and go with, over each step.                          *)
(***************************************************************************)
LEMMA PresenceStep ==
  ASSUME SessionTypeOK, PresenceInv, NEW p \in Processes, ProcessStep(p)
  PROVE  PresenceInv'
<1>1. /\ stage \in [Processes -> Stages] /\ Readers \subseteq Processes /\ ReaderTypeOK
      /\ attached \in [Readers -> BOOLEAN] /\ synced \in [Readers -> BOOLEAN]
      /\ \A q \in Processes \ {p} : stage'[q] = stage[q]
  BY OthersWait DEF SessionTypeOK, Processes, ReaderTypeOK
<1> SUFFICES ASSUME NEW r \in Readers
             PROVE  /\ ~Live(r)' => rPc'[r] = "closed"
                    /\ rPc'[r] = "closed" => ~attached'[r]
                    /\ rPc'[r] \in {"closed", "attach"} => ~synced'[r]
                    /\ rPc'[r] # "idle" => ret'[r] = "none"
  BY DEF PresenceInv, Live
<1> USE DEF PresenceInv
<1>2. CASE UNCHANGED <<readerVars, attached>> /\ (Live(r) => Live(r)')
  BY <1>2 DEF readerVars
<1>3. CASE r # p /\ (ProcessSession(p) \/ (p \in Readers /\ ReaderSession(p)))
  <2>1. Live(r)' = Live(r)
    BY <1>1, <1>3 DEF Live
  <2>2. \/ UNCHANGED <<readerVars, attached>>
        \/ p \in Readers /\ Closed(p)
        \/ p \in Readers /\ LiveReads(p)
    BY <1>3
    DEF ProcessSession, Construct, WrapState, WrapData, WrapFails, UnwrapData, UnwrapState, Die,
        ReaderSession, Leave, Processes, vars
  <2>3. CASE p \in Readers /\ Closed(p)
    BY <1>1, <1>3, <2>1, <2>3 DEF Closed
  <2>4. CASE p \in Readers /\ LiveReads(p)
    <3>1. rPc'[r] = rPc[r] /\ synced'[r] = synced[r] /\ ret'[r] = ret[r]
      BY <1>1, <1>3, <2>4, OthersStay DEF LiveReads
    <3>2. attached'[r] = attached[r]
      BY <1>1, <1>3, <2>4 DEF LiveReads
    <3> QED
      BY <2>1, <3>1, <3>2
  <2> QED
    BY <1>2, <2>1, <2>2, <2>3, <2>4
<1>4. CASE r = p /\ ProcessSession(p)
  <2>1. CASE Construct(p) \/ WrapState(p) \/ WrapFails(p) \/ UnwrapData(p) \/ UnwrapState(p)
             \/ WrapData(p)
    <3>1. ~Live(r) /\ UNCHANGED <<readerVars, attached>>
      BY <1>4, <2>1
      DEF Construct, WrapState, WrapData, WrapFails, UnwrapData, UnwrapState, Live, vars
    <3> QED
      BY <1>2, <3>1
  <2>2. CASE Die(p)
    BY <1>1, <1>4, <2>2, SessionAssumption DEF Die, Closed, ReaderTypeOK
  <2> QED
    BY <1>4, <2>1, <2>2 DEF ProcessSession
<1>5. CASE r = p /\ ReaderSession(p)
  <2>1. CASE Leave(p)
    BY <1>1, <1>5, <2>1 DEF Leave, Closed, ReaderTypeOK
  <2>2. CASE LiveReads(p)
    <3>1. Live(r) /\ Live(r)' /\ ReaderNext(r)
      BY <1>5, <2>2 DEF LiveReads, Live
    <3>2. attached'[r] = (attached[r] \/ rPc[r] = "closed")
      BY <1>1, <1>5, <2>2 DEF LiveReads
    <3>3. /\ rPc'[r] # "closed"
          /\ rPc'[r] = "attach" => ~synced'[r]
          /\ rPc'[r] # "idle" => ret'[r] = "none"
      <4>1. CASE AttachIndex(r) \/ AttachSeqNum(r) \/ \E cap \in Caps : Read(r, cap)
        BY <1>1, <4>1 DEF ReaderTypeOK, AttachIndex, AttachSeqNum, Read
      <4>2. CASE PollEmpty(r) \/ PollData(r) \/ CheckLag(r) \/ Recheck(r)
        BY <1>1, <4>2 DEF ReaderTypeOK, PollEmpty, PollData, CheckLag, Recheck, Return
      <4>3. CASE \E size \in Size \cup {MaxMessageSize + 1} : ReadHeader(r, size)
        BY <1>1, <4>3 DEF ReaderTypeOK, ReadHeader, Return
      <4>4. CASE ReadBody(r) \/ ReadRest(r)
        BY <1>1, <4>4 DEF ReaderTypeOK, ReadBody, ReadRest
      <4> QED
        BY <3>1, <4>1, <4>2, <4>3, <4>4 DEF ReaderNext, ReadInProgress
    <3> QED
      BY <3>1, <3>3
  <2> QED
    BY <1>5, <2>1, <2>2 DEF ReaderSession
<1>6. CASE p \in Objects /\ ResetReadIdx(p)
  <2>1. Live(r)' = Live(r)
    BY <1>1, <1>6, SessionAssumption DEF Live
  <2>2. /\ rPc' = rPc /\ ret' = ret
        /\ attached'[r] = AtBeginning(r)
        /\ synced'[r] = (AtBeginning(r) /\ rPc[r] # "attach")
    BY <1>6 DEF ResetReadIdx
  <2>3. rPc[r] = "closed" => ~AtBeginning(r)
    BY DEF AtBeginning
  <2> QED
    BY <2>1, <2>2, <2>3
<1>7. CASE p \in Objects /\ WriterSession(p) /\ ~ResetReadIdx(p)
  <2>1. Live(r)' = Live(r)
    BY <1>1, <1>7, SessionAssumption DEF Live
  <2>2. UNCHANGED <<readerVars, attached>>
    BY <1>7
    DEF WriterSession, EnsureSingleton, ResetWriteIdx, ResetSeqNum, LiveWrites, Unlock,
        DestroyLock, vars, sessionVars
  <2> QED
    BY <1>2, <2>1, <2>2
<1> QED
  BY <1>3, <1>4, <1>5, <1>6, <1>7 DEF ProcessStep

----------------------------------------------------------------------------
(* Where a closed reader stands says nothing yet. *)
LEMMA ClosedFollows ==
  ASSUME PresenceInv, NEW r \in Readers, rPc[r] = "closed"
  PROVE  Follows(r) /\ WaitsAtEnd(r)
BY DEF PresenceInv, Follows, JoinShape, ReadIsIntact, KeptUp, WaitsAtEnd

(***************************************************************************)
(* While there is no stream to go on with, a reader that waits at its end  *)
(* goes on waiting: readIdx is where it waits, so that Read returns 0.     *)
(***************************************************************************)
LEMMA WaitingGoesOn ==
  ASSUME ReadInv, readIdx = IndexAt(Published + 1), UNCHANGED writerVars,
         NEW r \in Readers, Follows(r), WaitsAtEnd(r), ReaderNext(r)
  PROVE  Follows(r)' /\ WaitsAtEnd(r)'
<1>1. PICK k \in Nat \ {0} : rNext[r] = k
  BY DEF ReadInv, ReaderTypeOK
<1>2. Published \in Nat /\ Published' = Published /\ ReaderTypeOK
  BY SameWriter DEF ReadInv, ReaderTypeOK, WriterTypeOK, Published, Last
<1>3. KeptUp(r) => k > Published /\ k = Published + 1
  <2>1. KeptUp(r) => k > Published /\ k <= Published + 1
    BY <1>1 DEF KeptUp, WaitsAtEnd, Follows, JoinShape
  <2> QED
    BY <1>2, <2>1
<1>4. KeptUp(r) => rPc[r] \notin {"check", "header", "body", "rest", "recheck"}
  BY <1>1, <1>2, <1>3 DEF Follows, Placed
<1>5. ASSUME synced'[r] = synced[r], rNext'[r] = rNext[r],
             rPc[r] \notin {"closed", "attach"}, rPc'[r] \notin {"closed", "attach"}
      PROVE  WaitsAtEnd(r)'
  BY <1>2, <1>5 DEF WaitsAtEnd
<1>6. CASE AttachIndex(r)
  <2>1. rNext'[r] = Published + 1
    BY <1>2, <1>6 DEF AttachIndex, ReaderTypeOK
  <2> QED
    BY <1>2, <1>6, <2>1, AttachFollows DEF WaitsAtEnd
<1>7. CASE AttachSeqNum(r)
  <2>1. rNext'[r] = rNext[r] /\ rPc[r] = "attach"
    BY <1>7 DEF AttachSeqNum
  <2> QED
    BY <1>2, <1>7, <2>1, AttachFollows DEF WaitsAtEnd
<1>8. ASSUME NEW cap \in Caps, Read(r, cap) PROVE Follows(r)' /\ WaitsAtEnd(r)'
  <2>1. Follows(r)'
    BY <1>8, ReadFollows
  <2>2. /\ synced'[r] = synced[r] /\ rNext'[r] = rNext[r]
        /\ rPc[r] = "idle" /\ rPc'[r] = "poll"
    BY <1>2, <1>8 DEF Read, ReaderTypeOK
  <2> QED
    BY <1>5, <2>1, <2>2
<1>9. CASE PollEmpty(r)
  <2>1. /\ synced'[r] = synced[r] /\ rNext'[r] = rNext[r] /\ rLocalIndex'[r] = rLocalIndex[r]
        /\ rLocalSeqNum'[r] = rLocalSeqNum[r]
        /\ rPc[r] = "poll" /\ rPc'[r] = "idle" /\ ret'[r] = "empty"
    BY <1>2, <1>9 DEF PollEmpty, Return, ReaderTypeOK
  <2>2. KeptUp(r) => Placed(r)' /\ NotRefused(r)'
    BY <2>1, SameWriter DEF Follows, Placed, NotRefused
  <2> QED
    BY <1>5, <2>1, <2>2, ReadStepFollows
<1>10. CASE PollData(r)
  <2>1. /\ synced'[r] = synced[r] /\ rNext'[r] = rNext[r] /\ ret'[r] = ret[r]
        /\ rPc[r] = "poll" /\ rPc'[r] = "check" /\ rLocalIndex[r] # readIdx
    BY <1>2, <1>10 DEF PollData, ReadLimit, ReaderTypeOK
  <2>2. ~KeptUp(r)
    BY <1>1, <1>2, <1>3, <2>1 DEF Follows, Placed
  <2>3. ret[r] = "none"
    BY <2>1 DEF Follows, JoinShape
  <2> QED
    BY <1>5, <2>1, <2>2, <2>3, ReadStepFollows
<1>11. ASSUME CheckLag(r) \/ (\E size \in Size \cup {MaxMessageSize + 1} : ReadHeader(r, size))
                \/ ReadBody(r) \/ ReadRest(r)
       PROVE  Follows(r)' /\ WaitsAtEnd(r)'
  <2>1. /\ synced'[r] = synced[r] /\ rNext'[r] = rNext[r]
        /\ rPc[r] \in {"check", "header", "body", "rest"}
        /\ \/ rPc'[r] = "idle" /\ ret'[r] \in {"overwritten", "error"}
           \/ rPc'[r] \in {"header", "body", "rest", "recheck"} /\ ret'[r] = ret[r]
    <3>1. CASE CheckLag(r)
      BY <1>2, <3>1 DEF CheckLag, Return, ReaderTypeOK
    <3>2. CASE \E size \in Size \cup {MaxMessageSize + 1} : ReadHeader(r, size)
      BY <1>2, <3>2 DEF ReadHeader, Return, ReaderTypeOK
    <3>3. CASE ReadBody(r) \/ ReadRest(r)
      BY <1>2, <3>3 DEF ReadBody, ReadRest, ReaderTypeOK
    <3> QED
      BY <1>11, <3>1, <3>2, <3>3
  <2>2. ~KeptUp(r) /\ ret[r] = "none"
    BY <1>4, <2>1 DEF Follows, JoinShape
  <2> QED
    BY <1>5, <2>1, <2>2, ReadStepFollows
<1>12. CASE Recheck(r)
  <2>1. ~KeptUp(r)
    BY <1>4, <1>12 DEF Recheck
  <2>2. ~synced'[r] /\ rPc'[r] = "idle"
    BY <1>2, <1>12, <2>1 DEF Recheck, Return, ReaderTypeOK
  <2> QED
    BY <2>2 DEF Follows, JoinShape, ReadIsIntact, KeptUp, WaitsAtEnd
<1> QED
  BY <1>6, <1>7, <1>8, <1>9, <1>10, <1>11, <1>12 DEF ReaderNext, ReadInProgress

(* Steps that leave the writer's side alone. *)
LEMMA SameStream ==
  ASSUME StreamInv, UNCHANGED writerVars,
         \A w \in Objects : /\ Live(w)' => Live(w)
                            /\ stage'[w] \in {"writeIdx", "seqNum"} => stage'[w] = stage[w],
         \A r \in Readers : attached'[r] => Follows(r)' /\ (Interrupted => WaitsAtEnd(r)')
  PROVE  StreamInv'
<1>1. UNCHANGED <<readIdx, writeIdx, log, wPc, wLocalIndex, wLocalSeqNum, nextElement>>
  BY DEF writerVars, shared
<1>2. ResetInv'
  BY <1>1 DEF StreamInv, ResetInv, FreshWriter
<1>3. WriterInv => WriterInv'
  BY NextPreservesInv
<1>4. Interrupted => Interrupted'
  <2>1. IndexAt(Published + 1)' = IndexAt(Published + 1)
    BY SameWriter
  <2> QED
    BY <1>1, <2>1 DEF Interrupted
<1> QED
  BY <1>2, <1>3, <1>4 DEF StreamInv

(* Who has mapped a region keeps it from being made anew. *)
LEMMA MappedIsNotNew ==
  ASSUME SessionTypeOK, UsersInv, PresenceInv, NEW g \in Regions, users[g] = 0
  PROVE  /\ \A w \in Objects : ~Active(w)
         /\ \A r \in Readers : ~attached[r]
<1>1. Mapping(g) = {}
  BY MappingIsCounted
<1>2. \A q \in Processes : stage[q] \notin {"readIdx", "writeIdx", "seqNum", "live"}
  BY <1>1 DEF Mapping, Regions
<1> QED
  BY <1>2 DEF Active, Live, PresenceInv, Processes

(* Steps of processes that leave every reader alone, and the stream too. *)
LEMMA StandsByStream ==
  ASSUME SessionTypeOK, StreamInv, UNCHANGED <<vars, attached>>,
         NEW p \in Processes, ProcessStep(p),
         stage'[p] \notin {"writeIdx", "seqNum"}, stage'[p] = "live" => p \notin Objects
  PROVE  StreamInv'
<1>1. /\ \A q \in Processes \ {p} : stage'[q] = stage[q]
      /\ Objects \subseteq Processes
  BY OthersWait DEF Processes
<1>2. /\ UNCHANGED writerVars /\ UNCHANGED <<wPc, wLocalIndex, log>>
      /\ UNCHANGED <<rPc, rLocalIndex, rLocalSeqNum, rCap, rSize, rData, ret, rNext, synced>>
  BY DEF vars, writerVars, readerVars
<1>3. ASSUME NEW r \in Readers, attached'[r]
      PROVE  Follows(r)' /\ (Interrupted => WaitsAtEnd(r)')
  <2>1. Follows(r) /\ (Interrupted => WaitsAtEnd(r))
    BY <1>3 DEF StreamInv, Interrupted
  <2> QED
    BY <1>2, <2>1, PlaceStands, SameWriter DEF WaitsAtEnd
<1> QED
  BY <1>1, <1>2, <1>3, SameStream DEF Live

(* A reader leaves the stream: the others do not notice. *)
LEMMA LeavesStream ==
  ASSUME SessionTypeOK, StreamInv, UNCHANGED writerVars, NEW p \in Readers, ProcessStep(p),
         Closed(p)
  PROVE  StreamInv'
<1>1. /\ \A q \in Processes \ {p} : stage'[q] = stage[q]
      /\ Objects \subseteq Processes \ {p} /\ ReaderTypeOK /\ attached \in [Readers -> BOOLEAN]
  BY OthersWait, SessionAssumption DEF Processes, SessionTypeOK
<1>2. UNCHANGED <<wPc, wLocalIndex, log>>
  BY DEF writerVars
<1>3. ASSUME NEW r \in Readers, attached'[r]
      PROVE  Follows(r)' /\ (Interrupted => WaitsAtEnd(r)')
  <2>1. attached[r] /\ r # p
    BY <1>1, <1>3 DEF Closed
  <2>2. Follows(r) /\ (Interrupted => WaitsAtEnd(r))
    BY <2>1 DEF StreamInv, Interrupted
  <2>3. /\ rPc'[r] = rPc[r] /\ rLocalIndex'[r] = rLocalIndex[r]
        /\ rLocalSeqNum'[r] = rLocalSeqNum[r] /\ rCap'[r] = rCap[r] /\ rSize'[r] = rSize[r]
        /\ rData'[r] = rData[r] /\ ret'[r] = ret[r] /\ rNext'[r] = rNext[r]
        /\ synced'[r] = synced[r]
    BY <1>1, <2>1 DEF Closed, ReaderTypeOK
  <2> QED
    BY <1>2, <2>2, <2>3, PlaceStands, SameWriter DEF WaitsAtEnd
<1> QED
  BY <1>1, <1>3, SameStream DEF Live

(* A reader reads: each one attached stays at its place, or goes on waiting. *)
LEMMA ReadsOfStream ==
  ASSUME SessionTypeOK, ReadInv, PresenceInv, StreamInv, NEW p \in Readers, LiveReads(p)
  PROVE  StreamInv'
<1>1. /\ UNCHANGED writerVars /\ stage' = stage /\ ReaderNext(p) /\ ReaderTypeOK
      /\ attached' = [attached EXCEPT ![p] = attached[p] \/ rPc[p] = "closed"]
      /\ attached \in [Readers -> BOOLEAN]
  BY DEF LiveReads, SessionTypeOK
<1>2. ASSUME NEW r \in Readers, attached'[r]
      PROVE  Follows(r) /\ (Interrupted => WaitsAtEnd(r))
  <2>1. attached[r] \/ rPc[r] = "closed"
    BY <1>1, <1>2
  <2> QED
    BY <2>1, ClosedFollows DEF StreamInv, Interrupted
<1>3. ASSUME NEW r \in Readers, attached'[r], r # p
      PROVE  Follows(r)' /\ (Interrupted => WaitsAtEnd(r)')
  <2>1. rPc'[r] = rPc[r] /\ rNext'[r] = rNext[r] /\ synced'[r] = synced[r]
    BY <1>1, <1>3, OthersStay
  <2> QED
    BY <1>1, <1>2, <1>3, <2>1, OthersFollow, SameWriter DEF WaitsAtEnd
<1>4. ASSUME attached'[p]
      PROVE  Follows(p)' /\ (Interrupted => WaitsAtEnd(p)')
  <2>1. CASE Interrupted
    <3>1. readIdx = IndexAt(Published + 1)
      BY <2>1 DEF Interrupted
    <3> QED
      BY <1>1, <1>2, <1>4, <2>1, <3>1, WaitingGoesOn
  <2>2. CASE ~Interrupted
    BY <1>1, <1>2, <1>4, <2>2, ReaderStepFollows DEF StreamInv, ReaderInv
  <2> QED
    BY <2>1, <2>2
<1> QED
  BY <1>1, <1>3, <1>4, SameStream DEF Live

(* The one live writer writes. *)
LEMMA WritesOfStream ==
  ASSUME ReadInv, TurnInv, StreamInv, NEW p \in Objects, LiveWrites(p)
  PROVE  StreamInv'
<1>1. /\ WriterNext /\ UNCHANGED readerVars /\ stage' = stage /\ attached' = attached /\ Live(p)
  BY DEF LiveWrites, sessionVars
<1>2. WriterInv /\ WriterInv'
  BY <1>1, LiveHasStream, NextPreservesInv
<1>3. ResetInv'
  <2>1. \A w \in Objects : stage'[w] \notin {"writeIdx", "seqNum"}
    BY <1>1 DEF TurnInv, Active, Live
  <2> QED
    BY <2>1 DEF ResetInv
<1>4. ASSUME NEW r \in Readers, attached'[r] PROVE Follows(r)'
  BY <1>1, <1>2, <1>4, WriterStepFollows DEF StreamInv, ReaderInv
<1> QED
  BY <1>2, <1>3, <1>4 DEF StreamInv

(* A stream with nothing in it and State that says so is one to go on with. *)
Anew == FreshWriter /\ readIdx = 0 /\ writeIdx = 0 /\ seqNum = 0

(* Such a beginning satisfies the invariant of the writer.                 *)
LEMMA AnewIsAStream == WriterTypeOK /\ Anew => WriterInv
BY EmptyStream DEF Anew, FreshWriter

(***************************************************************************)
(* A region is mapped: one that others use is left as it is; a new one     *)
(* begins a stream, or leaves State without what it was the state of.      *)
(***************************************************************************)
LEMMA WrapsStream ==
  ASSUME SessionTypeOK, UsersInv, PresenceInv, StreamInv, WriterTypeOK',
         NEW p \in Processes, WrapState(p) \/ WrapData(p)
  PROVE  StreamInv'
<1>1. /\ stage \in [Processes -> Stages] /\ ReaderTypeOK /\ ProcessStep(p)
      /\ UNCHANGED <<readerVars, attached>>
      /\ "state" \in Regions /\ "data" \in Regions /\ Objects \subseteq Processes
  BY DEF SessionTypeOK, WrapState, WrapData, ProcessStep, ProcessSession, Regions, Processes
<1>2. /\ \A q \in Processes \ {p} : stage'[q] = stage[q]
      /\ stage'[p] \in {"data", "ensure", "live"} /\ (stage'[p] = "live" => p \notin Objects)
  BY <1>1, OthersWait DEF WrapState, WrapData, Goto
<1>3. CASE WrapState(p) /\ users["state"] = 0
  <2>1. (\A w \in Objects : ~Active(w)) /\ (\A r \in Readers : ~attached[r])
    BY <1>1, <1>3, MappedIsNotNew
  <2>2. Anew'
    BY <1>3 DEF WrapState, NewStream, Anew, FreshWriter
  <2>3. WriterInv'
    BY <2>2, AnewIsAStream, PTL
  <2>4. ResetInv'
    BY <1>1, <1>2, <2>1 DEF ResetInv, Active
  <2> QED
    BY <1>1, <2>1, <2>3, <2>4 DEF StreamInv
<1>4. CASE WrapData(p) /\ users["data"] = 0
  <2>1. (\A w \in Objects : ~Active(w)) /\ (\A r \in Readers : ~attached[r])
    BY <1>1, <1>4, MappedIsNotNew
  <2>2. readIdx = IndexAt(Published + 1)
    BY NextBegins DEF StreamInv, Interrupted
  <2>3. UNCHANGED <<readIdx, log, wPc, wLocalIndex>>
    BY <1>4 DEF WrapData
  <2>4. IndexAt(Published + 1)' = IndexAt(Published + 1)
    BY <2>3 DEF IndexAt, Published, Last, Frame
  <2>5. \A w \in Objects : stage'[w] \notin {"writeIdx", "seqNum", "live"}
    BY <1>1, <1>2, <2>1 DEF Active
  <2>6. ResetInv' /\ Interrupted'
    BY <1>1, <2>1, <2>2, <2>3, <2>4, <2>5 DEF ResetInv, Interrupted, Live
  <2> QED
    BY <1>1, <2>1, <2>6 DEF StreamInv
<1>5. CASE UNCHANGED vars
  BY <1>1, <1>2, <1>5, StandsByStream
<1> QED
  BY <1>1, <1>3, <1>4, <1>5 DEF WrapState, WrapData, vars, writerVars, shared

(***************************************************************************)
(* The constructor of a writer, between its stores to State: from the      *)
(* first on the stream is empty, and the readers that stood at the         *)
(* beginning of the buffer wait in it.                                     *)
(***************************************************************************)
LEMMA BeginsStream ==
  ASSUME SessionTypeOK, TurnInv, PresenceInv, NEW p \in Objects, ResetReadIdx(p)
  PROVE  StreamInv'
<1>1. /\ stage' = [stage EXCEPT ![p] = "writeIdx"] /\ stage \in [Processes -> Stages]
      /\ stage[p] = "readIdx" /\ Objects \subseteq Processes /\ ReaderTypeOK
  BY DEF ResetReadIdx, Goto, SessionTypeOK, Processes
<1>2. FreshWriter' /\ readIdx' = 0
  BY DEF ResetReadIdx, StoreZeroReadIdx, NewStream, FreshWriter
<1>3. \A w \in Objects : ~Live(w)' /\ stage'[w] # "seqNum"
  <2>1. \A w \in Objects \ {p} : ~Active(w)
    BY <1>1 DEF TurnInv, Active
  <2> QED
    BY <1>1, <2>1 DEF Active, Live
<1>4. Last' = 0 /\ Published' = 0 /\ (Published + 1)' = 1 /\ IndexAt(1)' = 0 /\ SeqAt(1)' = 0
  BY <1>2 DEF FreshWriter, Last, Published, IndexAt, SeqAt, HeadSeq
<1>5. ASSUME NEW r \in Readers, attached'[r]
      PROVE  Follows(r)' /\ WaitsAtEnd(r)'
  <2>1. /\ AtBeginning(r) /\ rNext'[r] = 1 /\ synced'[r] = (rPc[r] # "attach")
        /\ UNCHANGED <<rPc, rLocalIndex, rLocalSeqNum, ret>>
    BY <1>5 DEF ResetReadIdx
  <2>2. /\ rLocalIndex'[r] = 0 /\ rLocalSeqNum'[r] = 0 /\ ret'[r] \in {"none", "empty"}
        /\ rPc'[r] \in {"attach", "idle", "poll"} /\ (rPc'[r] # "idle" => ret'[r] = "none")
    BY <2>1 DEF AtBeginning, PresenceInv
  <2>3. JoinShape(r)' /\ ReadIsIntact(r)'
    <3>1. IndexAt(rNext[r])' = 0
      BY <1>2, <2>1 DEF IndexAt, Last, FreshWriter
    <3>2. rNext'[r] <= (Published + 1)' /\ rPc'[r] # "closed" /\ ret'[r] # "message"
      BY <1>4, <2>1, <2>2
    <3>3. rPc'[r] \in {"closed", "attach"} => ~synced'[r]
      BY <2>1, <3>2
    <3> QED
      BY <2>2, <3>1, <3>2, <3>3 DEF JoinShape, ReadIsIntact
  <2>4. KeptUp(r)' => Placed(r)' /\ NotRefused(r)'
    <3>1. ASSUME KeptUp(r)' PROVE rPc'[r] \in {"idle", "poll"}
      BY <2>1, <2>2, <3>1 DEF KeptUp
    <3> QED
      BY <1>4, <2>1, <2>2, <3>1 DEF Placed, NotRefused
  <2> QED
    BY <1>4, <2>1, <2>3, <2>4 DEF Follows, WaitsAtEnd
<1>6. ResetInv' /\ Interrupted'
  BY <1>2, <1>3, <1>4, <1>5 DEF ResetInv, Interrupted
<1> QED
  BY <1>5, <1>6 DEF StreamInv

(* The constructor stores writeIdx and seqNum of the new stream.           *)
LEMMA GoesOnBeginning ==
  ASSUME SessionTypeOK, TurnInv, StreamInv, WriterTypeOK',
         NEW p \in Objects, ResetWriteIdx(p) \/ ResetSeqNum(p)
  PROVE  StreamInv'
<1>1. /\ stage' = [stage EXCEPT ![p] = IF stage[p] = "writeIdx" THEN "seqNum" ELSE "live"]
      /\ stage \in [Processes -> Stages] /\ stage[p] \in {"writeIdx", "seqNum"}
      /\ Objects \subseteq Processes /\ ReaderTypeOK /\ UNCHANGED <<readerVars, attached>>
      /\ UNCHANGED <<readIdx, wPc, wLocalIndex, wLocalSeqNum, nextElement, log>>
  BY DEF ResetWriteIdx, ResetSeqNum, Goto, SessionTypeOK, Processes
<1>2. FreshWriter /\ readIdx = 0
  BY <1>1 DEF StreamInv, ResetInv
<1>3. FreshWriter' /\ readIdx' = 0 /\ writeIdx' = 0
  <2>1. writeIdx' = 0
    BY DEF ResetWriteIdx, ResetSeqNum, StreamInv, ResetInv
  <2> QED
    BY <1>1, <1>2, <2>1 DEF FreshWriter
<1>4. \A w \in Objects \ {p} : stage'[w] \notin {"readIdx", "writeIdx", "seqNum", "live"}
  BY <1>1 DEF TurnInv, Active
<1>5. ResetInv'
  BY <1>3 DEF ResetInv
<1>6. ASSUME NEW r \in Readers, attached'[r] PROVE Follows(r)'
  BY <1>1, <1>6, PlaceStands DEF StreamInv, readerVars
<1>7. WriterInv' \/ Interrupted'
  <2>1. CASE ResetWriteIdx(p)
    <3>1. Published' = 0 /\ (Published + 1)' = 1 /\ IndexAt(1)' = 0
      BY <1>3 DEF FreshWriter, Published, Last, IndexAt
    <3>2. \A r \in Readers : WaitsAtEnd(r)'
      <4>1. \A r \in Readers : rNext'[r] \in Nat \ {0}
        BY <1>1 DEF ReaderTypeOK, readerVars
      <4> QED
        BY <3>1, <4>1 DEF WaitsAtEnd
    <3>3. ~Live(p)'
      BY <1>1, <2>1 DEF ResetWriteIdx, Live
    <3> QED
      BY <1>3, <1>4, <3>1, <3>2, <3>3 DEF Interrupted, Live
  <2>2. CASE ResetSeqNum(p)
    <3>1. Anew'
      BY <1>3, <2>2 DEF ResetSeqNum, StoreZeroSeqNum, Anew
    <3> QED
      BY <3>1, AnewIsAStream, PTL
  <2> QED
    BY <2>1, <2>2
<1> QED
  BY <1>5, <1>6, <1>7 DEF StreamInv
(***************************************************************************)
(* The stream over each step: nobody but the owner of the semaphore        *)
(* disturbs it, and what interrupts it finds no writer to write on.        *)
(***************************************************************************)
LEMMA StreamStep ==
  ASSUME SessionTypeOK, ReadInv, TurnInv, UsersInv, PresenceInv, StreamInv, WriterTypeOK',
         NEW p \in Processes, ProcessStep(p)
  PROVE  StreamInv'
<1>1. /\ stage \in [Processes -> Stages] /\ Objects \cap Readers = {}
      /\ p \in Objects \cup Readers
  BY SessionAssumption DEF SessionTypeOK, Processes
<1>2. CASE Construct(p) \/ WrapFails(p) \/ UnwrapData(p) \/ UnwrapState(p)
  <2>1. stage'[p] \in {"state", "out", "unwrapState"} /\ UNCHANGED <<vars, attached>>
    BY <1>1, <1>2 DEF Construct, WrapFails, UnwrapData, UnwrapState, Goto
  <2> QED
    BY <2>1, StandsByStream
<1>3. CASE WrapState(p) \/ WrapData(p)
  BY <1>3, WrapsStream
<1>4. CASE p \in Objects /\ Die(p)
  <2>1. stage'[p] = "out" /\ UNCHANGED <<vars, attached>>
    BY <1>1, <1>4 DEF Die, Goto, vars
  <2> QED
    BY <2>1, StandsByStream
<1>5. CASE p \in Readers /\ (Die(p) \/ Leave(p))
  <2>1. Closed(p) /\ UNCHANGED writerVars
    BY <1>1, <1>5 DEF Die, Leave
  <2> QED
    BY <1>5, <2>1, LeavesStream
<1>6. CASE p \in Objects /\ (EnsureSingleton(p) \/ Unlock(p) \/ DestroyLock(p))
  <2>1. stage'[p] \in {"readIdx", "close", "unwrapData"} /\ UNCHANGED <<vars, attached>>
    BY <1>1, <1>6 DEF EnsureSingleton, AfterRefusal, Unlock, DestroyLock, Goto
  <2> QED
    BY <2>1, StandsByStream
<1>7. CASE p \in Objects /\ ResetReadIdx(p)
  BY <1>7, BeginsStream
<1>8. CASE p \in Objects /\ (ResetWriteIdx(p) \/ ResetSeqNum(p))
  BY <1>8, GoesOnBeginning
<1>9. CASE p \in Objects /\ LiveWrites(p)
  BY <1>9, WritesOfStream
<1>10. CASE p \in Readers /\ LiveReads(p)
  BY <1>10, ReadsOfStream
<1> QED
  BY <1>1, <1>2, <1>3, <1>4, <1>5, <1>6, <1>7, <1>8, <1>9, <1>10
  DEF ProcessStep, ProcessSession, WriterSession, ReaderSession

----------------------------------------------------------------------------
(* Nobody is there: the invariant holds of what Init and LockInit say.     *)
LEMMA InitEstablishesSessionInv == SessionInit => SessionInv
<1> SUFFICES ASSUME SessionInit PROVE SessionInv
  OBVIOUS
<1>1. /\ stage = [q \in Processes |-> "out"] /\ users = [g \in Regions |-> 0]
      /\ sessions = 0 /\ faults = 0 /\ attached = [r \in Readers |-> FALSE]
      /\ value = 1 /\ holdsOwnership = [w \in Objects |-> FALSE]
      /\ Objects \subseteq Processes /\ Readers \subseteq Processes
  BY DEF SessionInit, LockInit, Processes
<1>2. ReaderInv
  BY InitEstablishesReaderInv DEF SessionInit
<1>3. SessionTypeOK
  BY <1>1, <1>2, SessionAssumption DEF SessionTypeOK, ReaderInv, ReadInv, Stages
<1>4. TurnInv
  BY <1>1 DEF TurnInv, Active
<1>5. UsersInv
  <2> SUFFICES ASSUME NEW g \in Regions
               PROVE  Cardinality(Mapping(g)) = 0 /\ users[g] = 0
    BY DEF UsersInv
  <2>1. Mapping(g) = {}
    BY <1>1 DEF Mapping
  <2> QED
    BY <1>1, <2>1, FS_EmptySet
<1>6. PresenceInv
  BY <1>1 DEF SessionInit, Init, ReaderInit, PresenceInv, Live
<1>7. StreamInv
  BY <1>1, <1>2 DEF StreamInv, ResetInv, ReaderInv
<1> QED
  BY <1>2, <1>3, <1>4, <1>5, <1>6, <1>7 DEF SessionInv, ReaderInv, ReadInv

(* One step of one process after another keeps it.                         *)
LEMMA NextPreservesSessionInv == SessionInv /\ [SessionNext]_allVars => SessionInv'
<1> SUFFICES ASSUME SessionInv, [SessionNext]_allVars PROVE SessionInv'
  OBVIOUS
<1>1. ReadInv /\ SessionTypeOK /\ TurnInv /\ UsersInv /\ PresenceInv /\ StreamInv
  BY DEF SessionInv, ReadInv, SessionTypeOK
<1>2. CASE UNCHANGED allVars
  <2>1. /\ UNCHANGED <<writerVars, readIdx, writeIdx, seqNum, cell, wPc, wLocalIndex>>
        /\ UNCHANGED <<wLocalSeqNum, nextElement, log, rPc, rLocalIndex, rLocalSeqNum, rCap>>
        /\ UNCHANGED <<rSize, rData, ret, rNext, synced, stage, users, value, holdsOwnership>>
        /\ UNCHANGED <<sessions, faults, attached>>
    BY <1>2 DEF allVars, vars, writerVars, shared, readerVars, sessionVars, lockVars
  <2>2. SessionTypeOK' /\ \A r \in Readers : ReadShape(r)'
    BY <1>1, <2>1 DEF ReadInv, ReadShape, SessionTypeOK, ReaderTypeOK, WriterTypeOK
  <2>3. TurnInv' /\ UsersInv'
    BY <1>1, <2>1 DEF TurnInv, Active, UsersInv, Mapping
  <2>4. PresenceInv'
    BY <1>1, <2>1 DEF PresenceInv, Live
  <2>5. ASSUME NEW r \in Readers, attached'[r]
        PROVE  Follows(r)' /\ (Interrupted => WaitsAtEnd(r)')
    <3>1. Follows(r) /\ (Interrupted => WaitsAtEnd(r))
      BY <1>1, <2>1, <2>5 DEF StreamInv, Interrupted
    <3> QED
      BY <2>1, <3>1, PlaceStands, SameWriter DEF WaitsAtEnd
  <2>6. StreamInv'
    BY <1>1, <2>1, <2>5, SameStream DEF Live
  <2> QED
    BY <2>2, <2>3, <2>4, <2>6 DEF SessionInv
<1>3. ASSUME NEW p \in Processes, ProcessStep(p) PROVE SessionInv'
  <2>1. WriterTypeOK'
    BY <1>1, <1>3, WriterTypeStep DEF ReadInv, ReaderTypeOK
  <2>2. TurnInv' /\ UsersInv' /\ PresenceInv'
    BY <1>1, <1>3, TurnStep, UsersStep, PresenceStep
  <2>3. ReadInv'
    BY <1>1, <1>3, ReadInvStep
  <2>4. SessionTypeOK'
    BY <1>1, <1>3, <2>2, <2>3, SessionTypeStep
  <2>5. StreamInv'
    BY <1>1, <1>3, <2>1, StreamStep
  <2> QED
    BY <2>2, <2>3, <2>4, <2>5 DEF SessionInv, ReadInv
<1>4. SessionNext => \E p \in Processes : ProcessStep(p)
  BY DEF SessionNext, ProcessStep, Processes
<1> QED
  BY <1>2, <1>3, <1>4

(***************************************************************************)
(* Over all constructions, refusals, failures and deaths: whose turn it    *)
(* is, who counts, and a stream that a live writer can go on with.         *)
(***************************************************************************)
THEOREM SessionInvariance == SessionSpec => []SessionInv
BY InitEstablishesSessionInv, NextPreservesSessionInv, PTL DEF SessionSpec

(* There is one writer at a time, and without deaths no refusal but for    *)
(* another writer.                                                         *)
THEOREM OneWriterAlways == SessionSpec => []OneWriter
<1>1. SessionInv => OneWriter
  <2> SUFFICES ASSUME SessionInv PROVE OneWriter
    OBVIOUS
  <2>1. TurnInv /\ ActiveWriters = {w \in Objects : Active(w)}
    BY DEF SessionInv, ActiveWriters, Active
  <2>2. CASE \E w \in Objects : Active(w)
    <3>1. PICK w \in Objects : Active(w)
      BY <2>2
    <3>2. ActiveWriters = {w} /\ value = 0
      BY <2>1, <3>1 DEF TurnInv
    <3> QED
      BY <3>2, FS_Singleton DEF OneWriter
  <2>3. CASE ~\E w \in Objects : Active(w)
    <3>1. ActiveWriters = {} /\ value \in {0, 1} /\ (faults = 0 => value = 1)
      BY <2>1, <2>3 DEF TurnInv
    <3> QED
      BY <3>1, FS_EmptySet DEF OneWriter
  <2> QED
    BY <2>2, <2>3
<1> QED
  BY <1>1, SessionInvariance, PTL

(* What is shared is what the live writer believes it is: nobody resets    *)
(* State under it.                                                         *)
THEOREM StateAlwaysTheWriters == SessionSpec => []StateIsTheLiveWriters
<1>1. SessionInv => StateIsTheLiveWriters
  <2> SUFFICES ASSUME SessionInv, NEW w \in Objects, Live(w), wPc = "idle"
               PROVE  /\ readIdx = wLocalIndex /\ writeIdx = wLocalIndex
                      /\ seqNum = wLocalSeqNum
    BY DEF StateIsTheLiveWriters
  <2>1. HeadInv /\ SharedInv
    BY LiveHasStream DEF SessionInv, WriterInv
  <2>2. Published = Last
    BY DEF Published
  <2> QED
    BY <2>1, <2>2 DEF HeadInv, SharedInv
<1> QED
  BY <1>1, SessionInvariance, PTL

(***************************************************************************)
(* A reader of the live stream is served as if there had been no other     *)
(* writer, whatever an earlier one left in the buffer.                     *)
(***************************************************************************)
THEOREM AttachedReadersAreServed == SessionSpec => []AttachedReaderIsServed
<1>1. SessionInv => AttachedReaderIsServed
  <2> SUFFICES ASSUME SessionInv, NEW r \in Readers, attached[r]
               PROVE  /\ ReadIsIntact(r)
                      /\ KeptUp(r) /\ (\E w \in Objects : Live(w)) => InStep(r) /\ NotRefused(r)
    BY DEF AttachedReaderIsServed
  <2>1. Follows(r) /\ StreamInv /\ ReadInv
    BY DEF SessionInv, StreamInv, ReadInv, SessionTypeOK
  <2>2. ASSUME KeptUp(r), NEW w \in Objects, Live(w) PROVE InStep(r) /\ NotRefused(r)
    <3>1. ReaderInv
      BY <2>1, <2>2, LiveHasStream DEF ReaderInv
    <3> QED
      BY <2>1, <2>2, <3>1, FollowerInStep DEF Follows
  <2> QED
    BY <2>1, <2>2 DEF Follows
<1> QED
  BY <1>1, SessionInvariance, PTL

(* A region counts those who map it, and nobody else unless a failure or a *)
(* death left its count behind.                                            *)
THEOREM RegionsAlwaysGivenBack == SessionSpec => []RegionsAreGivenBack
<1>1. SessionInv => RegionsAreGivenBack
  <2> SUFFICES ASSUME SessionInv, NEW g \in Regions
               PROVE  /\ users[g] >= Cardinality(Mapping(g))
                      /\ faults = 0 => users[g] = Cardinality(Mapping(g))
    BY DEF RegionsAreGivenBack
  <2> QED
    BY MappingIsCounted DEF SessionInv
<1> QED
  BY <1>1, SessionInvariance, PTL
=============================================================================

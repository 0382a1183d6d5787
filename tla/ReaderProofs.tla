---------------------------- MODULE ReaderProofs ----------------------------
(***************************************************************************)
(* Proofs about the writer and its readers, for every buffer, header and   *)
(* message size, every number of readers and messages and every sequence   *)
(* of requests.  First of the writer alone: WriterInv is shown to be       *)
(* inductive, one lemma per action, and to imply each property.  Then that *)
(* readers do not disturb the writer, and stay in bounds whatever they     *)
(* read, and what a reader that keeps up is promised, with one lemma per   *)
(* step of Read.  Last, that they implement MessageStream: the refinement  *)
(* is shown step by step, from FollowInv.                                  *)
(***************************************************************************)
EXTENDS ReaderInvariant, ReaderStream, TLAPS

----------------------------------------------------------------------------
(* The writer. *)

(* `%=` takes one buffer's length off an index less than two lengths.      *)
LEMMA ModOneLap ==
  ASSUME NEW n \in Nat, NEW a \in Nat, n <= a, a < n + n
  PROVE  a % n = a - n
  OBVIOUS

(* Where Write leaves its index (Writer.cpp:55, 75, 123), without `%`.     *)
LEMMA AdvanceCases ==
  ASSUME NEW i \in Index, NEW size \in Size
  PROVE  /\ Fits(i, size) => WriterAdvance(i, size) = i + FrameLen(size)
         /\ Split(i, size) =>
              WriterAdvance(i, size) = i + FrameLen(size) - BufferSize
         /\ ~HeaderFits(i) => WriterAdvance(i, size) = FrameLen(size)
         /\ WriterAdvance(i, size) \in Index
<1>1. Fits(i, size) => WriterAdvance(i, size) = i + FrameLen(size)
  BY DEF WriterAdvance
<1>2. ASSUME Split(i, size)
      PROVE  WriterAdvance(i, size) = i + FrameLen(size) - BufferSize
  <2> DEFINE end == i + FrameLen(size)
  <2>1. /\ end \in Nat
        /\ BufferSize <= end
        /\ end < BufferSize + BufferSize
    BY <1>2, FramingAssumption
    DEF Split, Fits, HeaderFits, SpaceToEnd, FrameLen, Index, Size
  <2>2. WriterAdvance(i, size) = end % BufferSize
    BY <1>2 DEF WriterAdvance, Split
  <2>3. end % BufferSize = end - BufferSize
    <3> HIDE DEF end
    <3> QED
      BY <2>1, ModOneLap, FramingAssumption
  <2> QED
    BY <2>2, <2>3, FramingAssumption DEF Index, Size, FrameLen
<1>3. ~HeaderFits(i) => WriterAdvance(i, size) = FrameLen(size)
  BY FramingAssumption
  DEF WriterAdvance, Fits, HeaderFits, SpaceToEnd, FrameLen, Index, Size
<1>4. WriterAdvance(i, size) \in Index
  BY <1>1, <1>2, <1>3, FramingAssumption
  DEF Split, Fits, HeaderFits, SpaceToEnd, FrameLen, Index, Size
<1> QED
  BY <1>1, <1>2, <1>3, <1>4

----------------------------------------------------------------------------

(***************************************************************************)
(* What typing says of the k-th message begun.                             *)
(***************************************************************************)
LEMMA FrameType ==
  ASSUME WriterTypeOK, NEW k \in 1 .. Last
  PROVE  /\ Frame(k).size \in Size /\ Frame(k).idx \in Index
         /\ Frame(k).seq \in Nat /\ Frame(k).base \in Nat
         /\ FrameStart(Frame(k).idx) \in 0 .. BufferSize - HeaderSize
         /\ FrameLen(Frame(k).size) \in HeaderSize .. BufferSize
         /\ FrameLen(Frame(k).size) \in Nat /\ Pos(k) \in Nat /\ EndPos(k) \in Nat
         /\ Ended(k) \in Nat
<1>1. log[k] \in FrameRecord
  BY DEF WriterTypeOK, Last
<1>2. /\ Frame(k).size \in Size /\ Frame(k).idx \in Index
      /\ Frame(k).seq \in Nat /\ Frame(k).base \in Nat
  BY <1>1 DEF FrameRecord, Frame
<1>3. /\ FrameStart(Frame(k).idx) \in 0 .. BufferSize - HeaderSize
      /\ FrameLen(Frame(k).size) \in HeaderSize .. BufferSize
      /\ FrameLen(Frame(k).size) \in Nat
  BY <1>2, FramingAssumption
  DEF FrameStart, FrameLen, HeaderFits, SpaceToEnd, Index, Size
<1> QED
  BY <1>2, <1>3, FramingAssumption DEF Pos, EndPos, Ended

(***************************************************************************)
(* An older frame less than one buffer back on the tape has no cell in     *)
(* common with the last frame.                                             *)
(***************************************************************************)
LEMMA CellsApart ==
  ASSUME WriterTypeOK, TapeInv, NEW k \in 1 .. Last - 1,
         EndPos(Last) - Pos(k) <= BufferSize,
         NEW a \in 0 .. FrameLen(Frame(k).size) - 1,
         NEW b \in 0 .. FrameLen(Frame(Last).size) - 1
  PROVE  FrameCell(Frame(k).idx, a) # FrameCell(Frame(Last).idx, b)
<1> DEFINE f == Frame(k)
           g == Frame(Last)
<1>1. Last \in Nat
  BY DEF WriterTypeOK, Last
<1>2. k \in 1 .. Last /\ Last \in 1 .. Last /\ k < Last
  BY <1>1
<1>3. Apart(k, Last)
  BY <1>2 DEF TapeInv
<1>4. /\ f.base \in Nat /\ FrameStart(f.idx) \in 0 .. BufferSize - HeaderSize
      /\ FrameLen(f.size) \in HeaderSize .. BufferSize
      /\ g.base \in Nat /\ FrameStart(g.idx) \in 0 .. BufferSize - HeaderSize
      /\ FrameLen(g.size) \in HeaderSize .. BufferSize
  BY <1>2, FrameType
<1>5. Pos(k) = f.base + FrameStart(f.idx) /\ Pos(Last) = g.base + FrameStart(g.idx)
      /\ EndPos(Last) = Pos(Last) + FrameLen(g.size)
  BY DEF Pos, EndPos
<1>6. g.base - f.base \in {0, BufferSize}
  BY <1>3, <1>4, <1>5, FramingAssumption DEF Apart
<1>7. Pos(Last) - Pos(k) >= FrameLen(f.size)
  BY <1>3 DEF Apart
<1> HIDE DEF f, g
<1> QED
  BY <1>4, <1>5, <1>6, <1>7, FramingAssumption DEF FrameCell, f, g

----------------------------------------------------------------------------
(* A stream of no messages, whatever an earlier one left in the buffer.    *)
LEMMA EmptyStream ==
  ASSUME WriterTypeOK, log = <<>>, wPc = "idle", readIdx = 0, writeIdx = 0, seqNum = 0,
         wLocalIndex = 0, wLocalSeqNum = 0, nextElement = 0
  PROVE  WriterInv
<1>1. Last = 0
  BY DEF Last
<1>2. HeadInv /\ SharedInv
  BY <1>1 DEF HeadInv, SharedInv, LapBase, HeadPos, HeadSeq, Published
<1>3. ChainInv /\ TapeInv /\ OnTapeIntact
  BY <1>1 DEF TapeInv, OnTapeIntact, ChainInv
<1>4. ProgressInv
  BY <1>1 DEF ProgressInv
<1> QED
  BY <1>2, <1>3, <1>4 DEF WriterInv

(* Fresh memory satisfies the invariant. *)
LEMMA InitEstablishesInv == WriterInit => WriterInv
<1> SUFFICES ASSUME WriterInit PROVE WriterInv
  OBVIOUS
<1>1. WriterTypeOK
  BY FramingAssumption DEF WriterInit, WriterTypeOK, Index, Byte, ZeroByte
<1> QED
  BY <1>1, EmptyStream DEF WriterInit

(* What the log of a step that leaves it alone says stays as it was. *)
LEMMA SameLog ==
  ASSUME log' = log, NEW k \in Nat
  PROVE  /\ Last' = Last /\ Frame(k)' = Frame(k)
         /\ HeadPos' = HeadPos /\ HeadSeq' = HeadSeq /\ LapBase' = LapBase
         /\ Pos(k)' = Pos(k) /\ EndPos(k)' = EndPos(k) /\ Ended(k)' = Ended(k)
         /\ TapeInv' = TapeInv /\ ChainInv' = ChainInv
BY DEF ChainInv, Last, Frame, HeadPos, HeadSeq, LapBase, Pos, EndPos, Ended, TapeInv, Apart

(* When no Write is in progress the frame about to be begun lies where the *)
(* tape ends, or at the next lap when its header does not fit.             *)
LEMMA NextFrame ==
  ASSUME WriterInv, wPc = "idle", Last > 0,
         NEW base \in Nat,
         base = IF HeaderFits(wLocalIndex) THEN LapBase ELSE LapBase + BufferSize
  PROVE  LET gap == base + FrameStart(wLocalIndex) - EndPos(Last)
         IN  /\ base - Frame(Last).base \in {0, BufferSize}
             /\ gap \in 0 .. HeaderSize - 1
             /\ base = Frame(Last).base => gap = 0
<1> DEFINE f == Frame(Last)
<1>1. Last \in 1 .. Last
  BY DEF WriterInv, WriterTypeOK, Last
<1>2. /\ f.size \in Size /\ f.idx \in Index /\ f.base \in Nat
      /\ EndPos(Last) = f.base + FrameStart(f.idx) + FrameLen(f.size)
  BY <1>1, FrameType DEF WriterInv, EndPos, Pos
<1>3. wLocalIndex = WriterAdvance(f.idx, f.size) /\ wLocalIndex \in Index
  BY DEF WriterInv, SharedInv, WriterTypeOK
<1>4. LapBase = IF Split(f.idx, f.size) THEN f.base + BufferSize ELSE f.base
  BY <1>1 DEF LapBase
<1>5. LapBase + wLocalIndex = EndPos(Last)
  BY DEF WriterInv, HeadInv, HeadPos
<1>6. Split(f.idx, f.size) => HeaderFits(wLocalIndex)
  <2>1. Split(f.idx, f.size) =>
          wLocalIndex = f.idx + FrameLen(f.size) - BufferSize
    BY <1>2, <1>3, AdvanceCases
  <2> HIDE DEF f
  <2> QED
    BY <2>1, <1>2, FramingAssumption
    DEF Split, HeaderFits, SpaceToEnd, FrameLen, Index, Size
<1> HIDE DEF f
<1>7. base - f.base \in {0, BufferSize}
  BY <1>2, <1>4, <1>6, FramingAssumption
<1>8. base + FrameStart(wLocalIndex) - EndPos(Last) \in 0 .. HeaderSize - 1
  BY <1>2, <1>3, <1>4, <1>5, <1>6, FramingAssumption
  DEF FrameStart, HeaderFits, SpaceToEnd, Index, Size, FrameLen
<1>9. base = f.base => base + FrameStart(wLocalIndex) - EndPos(Last) = 0
  BY <1>2, <1>3, <1>4, <1>5, <1>6, FramingAssumption
  DEF FrameStart, HeaderFits, SpaceToEnd, Index, Size, FrameLen
<1> QED
  BY <1>7, <1>8, <1>9 DEF f

(* Beginning a frame keeps the tape in order (Writer.cpp:52-60, 75-85,     *)
(* 123-127).                                                               *)
LEMMA WritePreservesInv ==
  ASSUME WriterInv, NEW size \in Requests, Write(size)
  PROVE  WriterInv'
<1> DEFINE base == IF HeaderFits(wLocalIndex) THEN LapBase ELSE LapBase + BufferSize
           new  == [size |-> size, idx |-> wLocalIndex, seq |-> wLocalSeqNum,
                    base |-> base]
<1>1. /\ size \in Size /\ wLocalIndex \in Index /\ wLocalSeqNum \in Nat
      /\ log \in Seq(FrameRecord) /\ Last \in Nat
  BY WriterAssumption DEF WriterInv, WriterTypeOK, Write, Size, Last
<1>2. LapBase \in Nat /\ base \in Nat
  <2>1. CASE Last = 0
    BY <2>1, FramingAssumption DEF LapBase
  <2>2. CASE Last > 0
    <3>1. Frame(Last).base \in Nat
      BY <1>1, <2>2, FrameType DEF WriterInv
    <3> QED
      BY <2>2, <3>1, FramingAssumption DEF LapBase
  <2> QED
    BY <1>1, <2>1, <2>2
<1>3. new \in FrameRecord
  BY <1>1, <1>2 DEF FrameRecord
<1>4. log' = Append(log, new)
  BY DEF Write
<1> HIDE DEF base
<1>5. /\ log' \in Seq(FrameRecord) /\ Last' = Last + 1
      /\ Frame(Last)' = new
      /\ \A k \in 1 .. Last : Frame(k)' = Frame(k)
  <2> HIDE DEF new
  <2> QED
    BY <1>1, <1>3, <1>4 DEF Last, Frame
<1>6. /\ wPc = "idle" /\ wPc' = "header" /\ cell' = cell
      /\ wLocalIndex' = WriterAdvance(wLocalIndex, size)
      /\ writeIdx' = wLocalIndex' /\ nextElement' = HeaderAt(wLocalIndex)
      /\ UNCHANGED <<readIdx, seqNum, wLocalSeqNum>>
  BY DEF Write
<1>7. wLocalIndex' \in Index
  BY <1>1, <1>6, AdvanceCases
<1>8. nextElement' = FrameStart(wLocalIndex) /\ nextElement' \in Index
  <2>1. nextElement = wLocalIndex
    BY <1>6 DEF WriterInv, ProgressInv
  <2> QED
    BY <1>1, <1>6, <2>1, FramingAssumption DEF HeaderAt, FrameStart, Index
<1>9. WriterTypeOK'
  <2>1. log' # <<>>
    BY <1>1, <1>5 DEF Last
  <2> QED
    BY <1>1, <1>5, <1>6, <1>7, <1>8, <2>1 DEF WriterInv, WriterTypeOK
<1>10. /\ new.size = size /\ new.idx = wLocalIndex /\ new.seq = wLocalSeqNum
       /\ new.base = base
  OBVIOUS
<1> HIDE DEF new
<1>11. HeadInv'
  <2>1. /\ LapBase' = IF Split(wLocalIndex, size) THEN base + BufferSize ELSE base
        /\ HeadPos' = base + FrameStart(wLocalIndex) + FrameLen(size)
        /\ Frame(Last)'.seq = wLocalSeqNum
        /\ Frame(Last)'.size = size
    BY <1>1, <1>5, <1>10 DEF LapBase, HeadPos, EndPos, Pos
  <2>2. LapBase' + wLocalIndex' = HeadPos'
    <3>1. /\ Fits(wLocalIndex, size) => wLocalIndex' = wLocalIndex + FrameLen(size)
          /\ Split(wLocalIndex, size) =>
               wLocalIndex' = wLocalIndex + FrameLen(size) - BufferSize
          /\ ~HeaderFits(wLocalIndex) => wLocalIndex' = FrameLen(size)
      BY <1>1, <1>6, AdvanceCases
    <3> QED
      BY <1>1, <1>2, <2>1, <3>1, FramingAssumption
      DEF FrameStart, Split, Fits, HeaderFits, SpaceToEnd, FrameLen, Index, Size
  <2> QED
    BY <1>6, <2>1, <2>2 DEF HeadInv
<1>12. TapeInv'
  <2> SUFFICES ASSUME NEW k \in 1 .. Last + 1, NEW l \in 1 .. Last + 1, k < l
               PROVE  Apart(k, l)'
    BY <1>5 DEF TapeInv
  <2>1. k \in 1 .. Last /\ Frame(k)' = Frame(k)
    BY <1>1, <1>5
  <2>2. CASE l \in 1 .. Last
    <3>1. Frame(l)' = Frame(l)
      BY <1>5, <2>2
    <3>2. Apart(k, l)
      BY <2>1, <2>2 DEF WriterInv, TapeInv
    <3> QED
      BY <2>1, <3>1, <3>2 DEF Apart, Pos
  <2>3. CASE l = Last + 1
    <3> DEFINE e    == Frame(k)
               f    == Frame(Last)
               step == base - f.base
               gap  == base + FrameStart(wLocalIndex) - EndPos(Last)
    <3>1. /\ step \in {0, BufferSize}
          /\ gap \in 0 .. HeaderSize - 1
          /\ step = 0 => gap = 0
      <4>1. f.base \in Nat
        BY <1>1, <2>1, FrameType DEF WriterInv
      <4> QED
        BY <1>1, <1>2, <1>6, <2>1, <4>1, NextFrame DEF base
    <3>2. /\ e.base \in Nat /\ e.seq \in Nat /\ FrameLen(e.size) \in HeaderSize .. BufferSize
          /\ FrameStart(e.idx) \in 0 .. BufferSize - HeaderSize
          /\ f.base \in Nat /\ f.seq \in Nat /\ FrameLen(f.size) \in HeaderSize .. BufferSize
          /\ FrameStart(f.idx) \in 0 .. BufferSize - HeaderSize
          /\ Pos(k) = e.base + FrameStart(e.idx)
          /\ Pos(Last) = f.base + FrameStart(f.idx)
          /\ EndPos(Last) = Pos(Last) + FrameLen(f.size)
      BY <1>1, <2>1, FrameType DEF WriterInv, Pos, EndPos
    <3>3. /\ FrameStart(wLocalIndex) \in 0 .. BufferSize - HeaderSize
          /\ Pos(k)' = Pos(k)
          /\ Pos(l)' = base + FrameStart(wLocalIndex)
          /\ Frame(l)'.base = base /\ Frame(l)'.seq = wLocalSeqNum
          /\ Frame(k)'.base = e.base /\ Frame(k)'.seq = e.seq /\ Frame(k)'.size = e.size
      BY <1>1, <1>5, <1>10, <2>1, <2>3, FramingAssumption
      DEF Pos, FrameStart, HeaderFits, SpaceToEnd, Index
    <3>4. wLocalSeqNum = f.seq + FrameLen(f.size)
      BY <1>1, <1>6, <2>1 DEF WriterInv, HeadInv, HeadSeq, Ended
    <3>5. CASE k = Last
      <4>1. /\ Frame(k)'.base = f.base /\ Frame(k)'.seq = f.seq
            /\ Frame(k)'.size = f.size /\ Pos(k)' = Pos(Last)
        BY <3>3, <3>5
      <4>2. /\ Frame(l)'.base - Frame(k)'.base = step
            /\ Pos(l)' - Pos(k)' = FrameLen(f.size) + gap
            /\ Frame(l)'.seq - Frame(k)'.seq = FrameLen(f.size)
        <5> HIDE DEF f
        <5> QED
          BY <1>2, <3>2, <3>3, <3>4, <4>1, FramingAssumption
      <4>3. FrameLen(f.size) \in Nat /\ BufferSize \in Nat \ {0} /\ HeaderSize \in Nat
        BY <3>2, FramingAssumption
      <4> HIDE DEF f, step, gap
      <4> QED
        BY <3>1, <4>1, <4>2, <4>3 DEF Apart
    <3>6. CASE k < Last
      <4>1. Apart(k, Last)
        BY <1>1, <2>1, <3>6 DEF WriterInv, TapeInv
      <4> HIDE DEF e, f
      <4> QED
        BY <1>2, <3>1, <3>2, <3>3, <3>4, <4>1, FramingAssumption
        DEF Apart, SafeWindow, e, f
    <3> QED
      BY <1>1, <2>1, <3>5, <3>6
  <2> QED
    BY <1>1, <2>2, <2>3
<1>13. ProgressInv'
  <2>1. Done' = 0
    BY <1>6 DEF Done
  <2>2. nextElement' = FrameStart(Frame(Last)'.idx)
    BY <1>5, <1>8, <1>10
  <2> QED
    BY <1>6, <2>1, <2>2 DEF ProgressInv
<1>14. OnTapeIntact'
  <2> SUFFICES ASSUME NEW k \in 1 .. Last, HeadPos' - Pos(k)' <= BufferSize
               PROVE  Intact(k)'
    BY <1>1, <1>5 DEF OnTapeIntact
  <2>1. Frame(k)' = Frame(k) /\ Pos(k)' = Pos(k)
    BY <1>5 DEF Pos
  <2>2. Intact(k)' = Intact(k)
    BY <1>6, <2>1 DEF Intact, StoredByte
  <2>3. CASE k = Last
    BY <1>1, <1>6, <2>2, <2>3 DEF WriterInv, ProgressInv, Done, Intact
  <2>4. CASE k < Last
    <3>1. HeadPos <= HeadPos'
      <4>1. /\ HeadPos = EndPos(Last) /\ EndPos(Last) \in Nat
            /\ base + FrameStart(wLocalIndex) - EndPos(Last) \in 0 .. HeaderSize - 1
        BY <1>1, <1>2, <1>6, NextFrame, FrameType DEF WriterInv, HeadPos, base
      <4>2. HeadPos' = base + FrameStart(wLocalIndex) + FrameLen(size)
        BY <1>1, <1>5, <1>10 DEF HeadPos, EndPos, Pos
      <4> QED
        BY <1>1, <1>2, <4>1, <4>2, FramingAssumption
        DEF FrameLen, Size, FrameStart, HeaderFits, SpaceToEnd, Index
    <3>2. HeadPos \in Nat /\ HeadPos' \in Nat /\ Pos(k) \in Nat
      <4>1. HeadPos' = base + FrameStart(wLocalIndex) + FrameLen(size)
        BY <1>1, <1>5, <1>10 DEF HeadPos, EndPos, Pos
      <4>2. HeadPos' \in Nat
        BY <1>1, <1>2, <4>1, FramingAssumption
        DEF FrameLen, Size, FrameStart, HeaderFits, SpaceToEnd, Index
      <4> QED
        BY <1>1, <4>2, FrameType DEF WriterInv, HeadPos
    <3>3. HeadPos - Pos(k) <= BufferSize
      BY <2>1, <3>1, <3>2, FramingAssumption
    <3> QED
      BY <1>1, <2>2, <2>4, <3>3 DEF WriterInv, OnTapeIntact
  <2> QED
    BY <1>1, <2>3, <2>4
<1>15. SharedInv'
  <2>1. Published = Last /\ Published' = Last
    BY <1>1, <1>5, <1>6 DEF Published
  <2>2. Last > 0 => log'[Last] = Frame(Last)
    BY <1>1, <1>5 DEF Frame
  <2>3. readIdx = IF Last = 0 THEN 0
                  ELSE WriterAdvance(Frame(Last).idx, Frame(Last).size)
    BY <2>1 DEF WriterInv, SharedInv
  <2>4. Frame(Published)' = log'[Last]
    BY <2>1 DEF Frame
  <2>5. seqNum = wLocalSeqNum
    BY DEF WriterInv, SharedInv
  <2> QED
    BY <1>1, <1>5, <1>6, <1>10, <2>1, <2>2, <2>3, <2>4, <2>5 DEF SharedInv
<1>16. ChainInv'
  <2>1. /\ wLocalSeqNum = HeadSeq
        /\ wLocalIndex = IF Last = 0 THEN 0
                         ELSE WriterAdvance(Frame(Last).idx, Frame(Last).size)
    BY <1>6 DEF WriterInv, HeadInv, SharedInv
  <2>2. /\ log'[Last + 1].seq = wLocalSeqNum /\ log'[Last + 1].idx = wLocalIndex
        /\ \A k \in 1 .. Last : log'[k] = log[k]
    BY <1>5, <1>10 DEF Frame
  <2>3. Frame(1)'.seq = 0 /\ Frame(1)'.idx = 0
    <3>1. CASE Last = 0
      BY <2>1, <2>2, <3>1 DEF HeadSeq, Frame
    <3>2. CASE Last > 0
      BY <1>1, <2>2, <3>2 DEF WriterInv, ChainInv, Frame
    <3> QED
      BY <1>1, <3>1, <3>2
  <2>4. ASSUME NEW k \in 1 .. Last
        PROVE  /\ Frame(k + 1)'.seq = Ended(k)'
               /\ Frame(k + 1)'.idx = WriterAdvance(Frame(k)'.idx, Frame(k)'.size)
    <3>1. Ended(k)' = Ended(k) /\ Frame(k)' = Frame(k)
      BY <2>2 DEF Ended, Frame
    <3>2. CASE k = Last
      BY <1>1, <2>1, <2>2, <3>1, <3>2 DEF Frame, HeadSeq
    <3>3. CASE k < Last
      <4>1. k \in 1 .. Last - 1 /\ log'[k + 1] = log[k + 1]
        BY <1>1, <2>2, <3>3
      <4> QED
        BY <3>1, <4>1 DEF WriterInv, ChainInv, Frame
    <3> QED
      BY <1>1, <3>2, <3>3
  <2> QED
    BY <1>1, <1>5, <2>3, <2>4 DEF ChainInv
<1> QED
  BY <1>9, <1>11, <1>12, <1>13, <1>14, <1>15, <1>16 DEF WriterInv

----------------------------------------------------------------------------
(* A copy into cells of the last frame leaves older frames less than one   *)
(* buffer back as they were, and fills the buffer with bytes.              *)
LEMMA CopyKeepsOlderFrames ==
  ASSUME WriterInv, wPc # "idle", log' = log,
         NEW at \in Nat, NEW n \in Nat, NEW j \in Nat,
         cell' = Copied(at, n, j),
         \A c \in Cell : at <= c /\ c < at + n =>
           \E b \in 0 .. FrameLen(Frame(Last).size) - 1 :
             c = FrameCell(Frame(Last).idx, b)
  PROVE  OnTapeIntact' /\ cell' \in [Cell -> Byte]
<1> DEFINE g == Frame(Last)
<1>1. Last \in Nat \ {0} /\ Last \in 1 .. Last
  <2>1. log \in Seq(FrameRecord) /\ log # <<>>
    BY DEF WriterInv, WriterTypeOK
  <2> QED
    BY <2>1 DEF Last
<1>2. g.size \in Size /\ g.idx \in Index
  BY <1>1, FrameType DEF WriterInv
<1>3. \A i \in Nat : StoredByte(Last, i) \in Byte
  <2> SUFFICES ASSUME NEW i \in Nat PROVE StoredByte(Last, i) \in Byte
    OBVIOUS
  <2>1. CASE Split(g.idx, g.size) /\ i >= SpaceToEnd(g.idx)
    <3>1. HeaderSize + RestSource(g.idx, g.size) + (i - SpaceToEnd(g.idx)) \in Nat
      <4> HIDE DEF g
      <4> QED
        BY <1>2, <2>1, FramingAssumption
        DEF RestSource, RestPart, Split, Fits, HeaderFits, SpaceToEnd, FrameLen, Index, Size
    <3> QED
      BY <1>1, <2>1, <3>1 DEF StoredByte, Byte
  <2>2. CASE ~(Split(g.idx, g.size) /\ i >= SpaceToEnd(g.idx))
    BY <1>1, <2>2 DEF StoredByte, Byte
  <2> QED
    BY <2>1, <2>2
<1>4. cell' \in [Cell -> Byte]
  <2> SUFFICES ASSUME NEW c \in Cell
               PROVE  (IF at <= c /\ c < at + n THEN StoredByte(Last, j + (c - at))
                       ELSE cell[c]) \in Byte
    BY DEF Copied
  <2>1. CASE at <= c /\ c < at + n
    <3>1. j + (c - at) \in Nat
      BY <2>1, FramingAssumption DEF Cell
    <3> QED
      BY <1>3, <2>1, <3>1
  <2>2. CASE ~(at <= c /\ c < at + n)
    BY <2>2 DEF WriterInv, WriterTypeOK
  <2> QED
    BY <2>1, <2>2
<1>5. OnTapeIntact'
  <2> SUFFICES ASSUME NEW k \in 1 .. Last - 1, HeadPos - Pos(k) <= BufferSize
               PROVE  Intact(k)'
    BY <1>1, SameLog DEF OnTapeIntact
  <2>1. k \in 1 .. Last /\ Frame(k)' = Frame(k)
    BY <1>1, SameLog
  <2>2. Intact(k)
    BY DEF WriterInv, OnTapeIntact
  <2> SUFFICES ASSUME NEW a \in 0 .. FrameLen(Frame(k).size) - 1
               PROVE  cell'[FrameCell(Frame(k).idx, a)] = StoredByte(k, a)'
    BY <2>1 DEF Intact
  <2>3. StoredByte(k, a)' = StoredByte(k, a)
    BY <2>1 DEF StoredByte
  <2>4. EndPos(Last) - Pos(k) <= BufferSize
    BY <1>1 DEF HeadPos
  <2>5. \A b \in 0 .. FrameLen(g.size) - 1 :
          FrameCell(Frame(k).idx, a) # FrameCell(g.idx, b)
    BY <2>4, CellsApart DEF WriterInv
  <2>6. FrameCell(Frame(k).idx, a) \in Cell
    BY <2>1, FrameType, FramingAssumption DEF WriterInv, FrameCell, Cell
  <2>7. cell'[FrameCell(Frame(k).idx, a)] = cell[FrameCell(Frame(k).idx, a)]
    BY <2>5, <2>6 DEF Copied
  <2> QED
    BY <2>2, <2>3, <2>7 DEF Intact
<1> QED
  BY <1>4, <1>5

(* What the invariant says of the Write in progress. *)
LEMMA WriteUnderWay ==
  ASSUME WriterInv, wPc # "idle"
  PROVE  LET f == Frame(Last)
         IN  /\ Last \in Nat \ {0} /\ Last \in 1 .. Last
             /\ f.size \in Size /\ f.idx \in Index
             /\ FrameStart(f.idx) \in 0 .. BufferSize - HeaderSize
             /\ FrameLen(f.size) \in HeaderSize .. BufferSize
             /\ wLocalIndex \in Index
             /\ Fits(f.idx, f.size) => wLocalIndex = f.idx + FrameLen(f.size)
             /\ Split(f.idx, f.size) => wLocalIndex = f.idx + FrameLen(f.size) - BufferSize
             /\ ~HeaderFits(f.idx) => wLocalIndex = FrameLen(f.size)
<1>1. log \in Seq(FrameRecord) /\ log # <<>>
  BY DEF WriterInv, WriterTypeOK
<1>2. Last \in Nat \ {0} /\ Last \in 1 .. Last
  BY <1>1 DEF Last
<1>3. wLocalIndex = WriterAdvance(Frame(Last).idx, Frame(Last).size)
  BY <1>2 DEF WriterInv, SharedInv
<1> QED
  BY <1>2, <1>3, FrameType, AdvanceCases DEF WriterInv, WriterTypeOK

(* A copy disturbs nothing but the cells, m_NextElement and the program    *)
(* counter: what remains to be shown of it is that it copies what          *)
(* ProgressInv says.                                                       *)
LEMMA CopyPreservesRest ==
  ASSUME WriterInv, wPc # "idle", wPc' \in {"body", "rest", "seq"}, wPc # "read",
         OnTapeIntact', cell' \in [Cell -> Byte], nextElement' \in Index,
         ProgressInv',
         UNCHANGED <<readIdx, writeIdx, seqNum, wLocalIndex, wLocalSeqNum, log>>
  PROVE  WriterInv'
<1>1. /\ Last' = Last /\ HeadPos' = HeadPos /\ LapBase' = LapBase
      /\ TapeInv' = TapeInv /\ ChainInv' = ChainInv
  BY DEF Last, HeadPos, LapBase, EndPos, Ended, Pos, Frame, TapeInv, Apart, ChainInv
<1>2. /\ log' = log /\ wPc' # "idle" /\ wPc' # "read" /\ wPc' \in {"body", "rest", "seq"}
      /\ \A k : Frame(k)' = Frame(k)
  BY DEF Frame
<1>3. WriterTypeOK'
  BY <1>2 DEF WriterInv, WriterTypeOK
<1>4. HeadInv'
  BY <1>1, <1>2 DEF WriterInv, HeadInv, Frame
<1>5. SharedInv'
  BY <1>1, <1>2 DEF WriterInv, SharedInv, Published, Frame
<1> QED
  BY <1>1, <1>3, <1>4, <1>5 DEF WriterInv

(* The copy of the header (Writer.cpp:63, 88, 130). *)
LEMMA CopyHeaderPreservesInv ==
  ASSUME WriterInv, CopyHeader
  PROVE  WriterInv'
<1> DEFINE f == Frame(Last)
<1>1. /\ wPc = "header" /\ wPc' = "body" /\ log' = log
      /\ cell' = Copied(nextElement, HeaderSize, 0)
      /\ UNCHANGED <<readIdx, writeIdx, seqNum, wLocalIndex, wLocalSeqNum, nextElement>>
  BY DEF CopyHeader
<1>2. /\ nextElement = FrameStart(f.idx) /\ nextElement \in Index
      /\ f.idx \in Index
      /\ FrameStart(f.idx) \in 0 .. BufferSize - HeaderSize
      /\ FrameLen(f.size) \in HeaderSize .. BufferSize
  BY <1>1, WriteUnderWay DEF WriterInv, ProgressInv, WriterTypeOK
<1>3. nextElement \in Nat /\ HeaderSize \in Nat
  BY <1>2, FramingAssumption DEF Index
<1>4. \A c \in Cell : nextElement <= c /\ c < nextElement + HeaderSize =>
        \E b \in 0 .. FrameLen(f.size) - 1 : c = FrameCell(f.idx, b)
  <2> SUFFICES ASSUME NEW c \in Cell, nextElement <= c, c < nextElement + HeaderSize
               PROVE  \E b \in 0 .. FrameLen(f.size) - 1 : c = FrameCell(f.idx, b)
    OBVIOUS
  <2> HIDE DEF f
  <2>1. /\ c - nextElement \in 0 .. FrameLen(f.size) - 1
        /\ c = FrameCell(f.idx, c - nextElement)
    BY <1>2, FramingAssumption DEF FrameCell, Cell
  <2> QED
    BY <2>1
<1>5. OnTapeIntact' /\ cell' \in [Cell -> Byte]
  BY <1>1, <1>3, <1>4, CopyKeepsOlderFrames
<1>6. ProgressInv'
  <2>1. Frame(Last)' = f /\ Done' = HeaderSize
    BY <1>1 DEF Done, Last, Frame
  <2>2. ASSUME NEW j \in 0 .. HeaderSize - 1
        PROVE  cell'[FrameCell(f.idx, j)] = StoredByte(Last, j)
    <3>1. FrameCell(f.idx, j) = nextElement + j /\ nextElement + j \in Cell
      <4> HIDE DEF f
      <4> QED
        BY <1>2, FramingAssumption DEF FrameCell, Cell
    <3>2. 0 + ((nextElement + j) - nextElement) = j
      BY <1>3, FramingAssumption
    <3>3. nextElement <= nextElement + j /\ nextElement + j < nextElement + HeaderSize
      BY <1>3, FramingAssumption
    <3> QED
      BY <1>1, <3>1, <3>2, <3>3 DEF Copied
  <2>3. \A j : StoredByte(Last, j)' = StoredByte(Last, j)
    BY <1>1 DEF StoredByte, Frame, Last
  <2> QED
    BY <1>1, <1>2, <2>1, <2>2, <2>3 DEF ProgressInv
<1> QED
  BY <1>1, <1>2, <1>5, <1>6, CopyPreservesRest

(* The copy of the payload, or of its first part (Writer.cpp:64, 89, 131). *)
LEMMA CopyBodyPreservesInv ==
  ASSUME WriterInv, CopyBody
  PROVE  WriterInv'
<1> DEFINE f     == Frame(Last)
           split == Split(f.idx, f.size)
           n     == IF split THEN FirstPart(f.idx) ELSE f.size
           at    == nextElement + HeaderSize
<1>1. /\ wPc = "body" /\ log' = log
      /\ wPc' = IF split THEN "rest" ELSE "seq"
      /\ cell' = Copied(at, n, HeaderSize)
      /\ nextElement' = IF split THEN 0 ELSE nextElement + FrameLen(f.size)
      /\ UNCHANGED <<readIdx, writeIdx, seqNum, wLocalIndex, wLocalSeqNum>>
  BY DEF CopyBody, AfterBody
<1>2. /\ nextElement = FrameStart(f.idx)
      /\ f.idx \in Index /\ f.size \in Size
      /\ FrameStart(f.idx) \in 0 .. BufferSize - HeaderSize
      /\ FrameLen(f.size) \in HeaderSize .. BufferSize
      /\ Fits(f.idx, f.size) => wLocalIndex = f.idx + FrameLen(f.size)
      /\ ~HeaderFits(f.idx) => wLocalIndex = FrameLen(f.size)
  BY <1>1, WriteUnderWay DEF WriterInv, ProgressInv
<1> HIDE DEF f
<1>3. at \in Nat /\ n \in Nat /\ nextElement \in Nat
  BY <1>2, FramingAssumption
  DEF Index, Size, FirstPart, Split, HeaderFits, SpaceToEnd
<1>4. n + HeaderSize <= FrameLen(f.size) /\ at + n <= BufferSize
  BY <1>2, FramingAssumption
  DEF Index, Size, FirstPart, Split, Fits, HeaderFits, SpaceToEnd, FrameLen, FrameStart
<1>5. \A c \in Cell : at <= c /\ c < at + n =>
        \E b \in 0 .. FrameLen(f.size) - 1 : c = FrameCell(f.idx, b)
  <2> SUFFICES ASSUME NEW c \in Cell, at <= c, c < at + n
               PROVE  \E b \in 0 .. FrameLen(f.size) - 1 : c = FrameCell(f.idx, b)
    OBVIOUS
  <2> HIDE DEF n
  <2>1. /\ c - nextElement \in 0 .. FrameLen(f.size) - 1
        /\ c = FrameCell(f.idx, c - nextElement)
    BY <1>2, <1>3, <1>4, FramingAssumption DEF FrameCell, Cell
  <2> QED
    BY <2>1
<1>6. OnTapeIntact' /\ cell' \in [Cell -> Byte]
  <2> HIDE DEF at, n
  <2> QED
    BY <1>1, <1>3, <1>5, FramingAssumption, CopyKeepsOlderFrames DEF f
<1>7. ~split => nextElement + FrameLen(f.size) = wLocalIndex
  BY <1>2, FramingAssumption
  DEF Split, Fits, HeaderFits, FrameStart, SpaceToEnd, FrameLen, Index, Size
<1>8. nextElement' \in Index
  BY <1>1, <1>7, FramingAssumption DEF Index, WriterInv, WriterTypeOK
<1>9. ProgressInv'
  <2>1. Frame(Last)' = f /\ Last' = Last
        /\ \A j : StoredByte(Last, j)' = StoredByte(Last, j)
    BY <1>1 DEF Last, Frame, StoredByte, f
  <2>2. Done' = HeaderSize + n
    <3>1. Done' = IF split THEN SpaceToEnd(f.idx) ELSE FrameLen(f.size)
      BY <1>1, <2>1 DEF Done
    <3> QED
      BY <1>2, <3>1, FramingAssumption
      DEF FirstPart, SpaceToEnd, FrameLen, Index, Size
  <2>3. ASSUME NEW j \in 0 .. HeaderSize + n - 1
        PROVE  cell'[FrameCell(f.idx, j)] = StoredByte(Last, j)
    <3> HIDE DEF n
    <3>1. FrameCell(f.idx, j) = nextElement + j /\ nextElement + j \in Cell
      BY <1>2, <1>3, <1>4, FramingAssumption DEF FrameCell, Cell
    <3>2. CASE j < HeaderSize
      <4>1. ~(at <= nextElement + j)
        BY <1>3, <3>2, FramingAssumption
      <4>2. cell[FrameCell(f.idx, j)] = StoredByte(Last, j)
        <5>1. Done = HeaderSize /\ Last > 0 /\ j \in 0 .. HeaderSize - 1
          BY <1>1, <1>3, <3>2, WriteUnderWay, FramingAssumption DEF Done
        <5> QED
          BY <5>1 DEF WriterInv, ProgressInv, f
      <4> HIDE DEF at
      <4> QED
        BY <1>1, <3>1, <4>1, <4>2 DEF Copied
    <3>3. CASE j >= HeaderSize
      <4>1. /\ at <= nextElement + j /\ nextElement + j < at + n
            /\ HeaderSize + ((nextElement + j) - at) = j
        BY <1>3, <3>3, FramingAssumption
      <4> HIDE DEF at
      <4> QED
        BY <1>1, <3>1, <4>1 DEF Copied
    <3> QED
      BY <1>3, <3>2, <3>3, FramingAssumption
  <2>4. \A j \in 0 .. Done' - 1 :
          cell'[FrameCell(Frame(Last)'.idx, j)] = StoredByte(Last, j)'
    <3> SUFFICES ASSUME NEW j \in 0 .. Done' - 1
                 PROVE  cell'[FrameCell(Frame(Last)'.idx, j)] = StoredByte(Last, j)'
      OBVIOUS
    <3> HIDE DEF n
    <3>1. j \in 0 .. HeaderSize + n - 1
      BY <1>3, <2>2, FramingAssumption
    <3>2. cell'[FrameCell(f.idx, j)] = StoredByte(Last, j)
      BY <2>3, <3>1
    <3> QED
      BY <2>1, <3>2
  <2>5. /\ wPc' = "rest" => nextElement' = 0 /\ Split(Frame(Last)'.idx, Frame(Last)'.size)
        /\ wPc' = "seq" => nextElement' = wLocalIndex'
        /\ wPc' \in {"rest", "seq"}
    BY <1>1, <1>7, <2>1
  <2> QED
    BY <2>4, <2>5 DEF ProgressInv
<1> QED
  BY <1>1, <1>6, <1>8, <1>9, CopyPreservesRest

(* The copy of the rest of a split payload (Writer.cpp:93-107). *)
LEMMA CopyRestPreservesInv ==
  ASSUME WriterInv, CopyRest
  PROVE  WriterInv'
<1> DEFINE f     == Frame(Last)
           n     == RestPart(f.idx, f.size)
           space == SpaceToEnd(f.idx)
<1>1. /\ wPc = "rest" /\ wPc' = "seq" /\ log' = log
      /\ cell' = Copied(nextElement, n, space)
      /\ nextElement' = nextElement + n
      /\ UNCHANGED <<readIdx, writeIdx, seqNum, wLocalIndex, wLocalSeqNum>>
  BY DEF CopyRest
<1>2. /\ nextElement = 0 /\ Split(f.idx, f.size)
      /\ f.idx \in Index /\ f.size \in Size
      /\ FrameLen(f.size) \in HeaderSize .. BufferSize
      /\ wLocalIndex = f.idx + FrameLen(f.size) - BufferSize
      /\ wLocalIndex \in Index
  BY <1>1, WriteUnderWay DEF WriterInv, ProgressInv
<1> HIDE DEF f
<1>3. /\ n \in Nat /\ space \in Nat /\ n + space = FrameLen(f.size)
      /\ n <= f.idx /\ FrameStart(f.idx) = f.idx /\ f.idx + space = BufferSize
      /\ f.idx \in Nat
  BY <1>2, FramingAssumption
  DEF Index, Size, RestPart, Split, Fits, HeaderFits, SpaceToEnd, FrameLen, FrameStart
<1>4. n = wLocalIndex
  BY <1>2, FramingAssumption DEF Index, Size, RestPart, SpaceToEnd, FrameLen
<1> HIDE DEF n, space
<1>5. \A c \in Cell : nextElement <= c /\ c < nextElement + n =>
        \E b \in 0 .. FrameLen(f.size) - 1 : c = FrameCell(f.idx, b)
  <2> SUFFICES ASSUME NEW c \in Cell, c < n
               PROVE  \E b \in 0 .. FrameLen(f.size) - 1 : c = FrameCell(f.idx, b)
    BY <1>2, <1>3, FramingAssumption DEF Cell
  <2>1. c + space \in 0 .. FrameLen(f.size) - 1 /\ c = FrameCell(f.idx, c + space)
    BY <1>2, <1>3, FramingAssumption DEF FrameCell, Cell
  <2> QED
    BY <2>1
<1>6. OnTapeIntact' /\ cell' \in [Cell -> Byte]
  BY <1>1, <1>2, <1>3, <1>5, CopyKeepsOlderFrames DEF f
<1>7. nextElement' = wLocalIndex' /\ nextElement' \in Index
  BY <1>1, <1>2, <1>3, <1>4
<1>8. ProgressInv'
  <2>1. Frame(Last)' = f /\ Last' = Last
        /\ \A j : StoredByte(Last, j)' = StoredByte(Last, j)
    BY <1>1 DEF Last, Frame, StoredByte, f
  <2>2. Done' = FrameLen(f.size)
    BY <1>1, <2>1 DEF Done
  <2>3. ASSUME NEW j \in 0 .. FrameLen(f.size) - 1
        PROVE  cell'[FrameCell(f.idx, j)] = StoredByte(Last, j)
    <3>1. FrameCell(f.idx, j) = IF j < space THEN f.idx + j ELSE j - space
      BY <1>2, <1>3, FramingAssumption DEF FrameCell
    <3>2. FrameCell(f.idx, j) \in Cell
      BY <1>2, <1>3, <3>1, FramingAssumption DEF Cell
    <3>3. CASE j < space
      <4>1. ~(f.idx + j < nextElement + n)
        BY <1>2, <1>3, FramingAssumption
      <4>2. cell[FrameCell(f.idx, j)] = StoredByte(Last, j)
        <5>1. Done = space /\ Last > 0 /\ j \in 0 .. space - 1
          BY <1>1, <1>3, <3>3, WriteUnderWay DEF Done, f, space
        <5> QED
          BY <5>1 DEF WriterInv, ProgressInv, f
      <4> QED
        BY <1>1, <3>1, <3>2, <3>3, <4>1, <4>2 DEF Copied
    <3>4. CASE j >= space
      <4>1. /\ nextElement <= j - space /\ j - space < nextElement + n
            /\ space + ((j - space) - nextElement) = j
            /\ FrameCell(f.idx, j) = j - space
        BY <1>2, <1>3, <3>1, <3>4, FramingAssumption
      <4> QED
        BY <1>1, <3>2, <4>1 DEF Copied
    <3> QED
      BY <1>2, <1>3, <3>3, <3>4
  <2> QED
    BY <1>1, <1>7, <2>1, <2>2, <2>3 DEF ProgressInv
<1> QED
  BY <1>1, <1>6, <1>7, <1>8, CopyPreservesRest

(* Counting the message (Writer.cpp:147-148). *)
LEMMA StoreSeqNumPreservesInv ==
  ASSUME WriterInv, StoreSeqNum
  PROVE  WriterInv'
<1>1. /\ wPc = "seq" /\ wPc' = "read" /\ log' = log /\ cell' = cell
      /\ wLocalSeqNum' = wLocalSeqNum + FrameLen(Frame(Last).size)
      /\ seqNum' = wLocalSeqNum'
      /\ UNCHANGED <<readIdx, writeIdx, wLocalIndex, nextElement>>
  BY DEF StoreSeqNum, SeqAfter
<1>2. /\ Last' = Last /\ HeadPos' = HeadPos /\ LapBase' = LapBase /\ HeadSeq' = HeadSeq
      /\ TapeInv' = TapeInv /\ ChainInv' = ChainInv /\ \A k : Frame(k)' = Frame(k)
  BY <1>1
  DEF Last, HeadPos, HeadSeq, Ended, LapBase, EndPos, Pos, Frame, TapeInv, Apart, ChainInv
<1>3. /\ Last \in Nat \ {0} /\ wLocalSeqNum = Frame(Last).seq
      /\ FrameLen(Frame(Last).size) \in Nat /\ wLocalSeqNum \in Nat
  BY <1>1, WriteUnderWay, FrameType DEF WriterInv, HeadInv, WriterTypeOK
<1>4. wLocalSeqNum' = HeadSeq /\ wLocalSeqNum' \in Nat
  BY <1>1, <1>3 DEF HeadSeq, Ended
<1>5. WriterTypeOK'
  BY <1>1, <1>4 DEF WriterInv, WriterTypeOK
<1>6. HeadInv'
  BY <1>1, <1>2, <1>4 DEF WriterInv, HeadInv
<1>7. OnTapeIntact'
  BY <1>1 DEF WriterInv, OnTapeIntact, Intact, StoredByte, Last, HeadPos, EndPos, Pos, Frame
<1>8. ProgressInv'
  BY <1>1 DEF WriterInv, ProgressInv, Done, StoredByte, Last, Frame
<1>9. SharedInv'
  BY <1>1, <1>2 DEF WriterInv, SharedInv, Published, Frame
<1> QED
  BY <1>2, <1>5, <1>6, <1>7, <1>8, <1>9 DEF WriterInv

(* Releasing the message (Writer.cpp:151). *)
LEMMA StoreReadIdxPreservesInv ==
  ASSUME WriterInv, StoreReadIdx
  PROVE  WriterInv'
<1>1. /\ wPc = "read" /\ wPc' = "idle" /\ log' = log /\ cell' = cell
      /\ readIdx' = wLocalIndex
      /\ UNCHANGED <<writeIdx, seqNum, wLocalIndex, wLocalSeqNum, nextElement>>
  BY DEF StoreReadIdx, ReleaseIndex
<1>2. /\ Last' = Last /\ HeadPos' = HeadPos /\ LapBase' = LapBase /\ HeadSeq' = HeadSeq
      /\ TapeInv' = TapeInv /\ ChainInv' = ChainInv /\ \A k : Frame(k)' = Frame(k)
  BY <1>1
  DEF Last, HeadPos, HeadSeq, Ended, LapBase, EndPos, Pos, Frame, TapeInv, Apart, ChainInv
<1>3. /\ Last \in Nat \ {0}
      /\ wLocalIndex = WriterAdvance(Frame(Last).idx, Frame(Last).size)
  BY <1>1, WriteUnderWay DEF WriterInv, SharedInv
<1>4. WriterTypeOK'
  BY <1>1 DEF WriterInv, WriterTypeOK
<1>5. HeadInv'
  BY <1>1, <1>2 DEF WriterInv, HeadInv
<1>6. OnTapeIntact'
  BY <1>1 DEF WriterInv, OnTapeIntact, Intact, StoredByte, Last, HeadPos, EndPos, Pos, Frame
<1>7. ProgressInv'
  BY <1>1 DEF WriterInv, ProgressInv, Done, StoredByte, Last, Frame
<1>8. SharedInv'
  BY <1>1, <1>2, <1>3 DEF WriterInv, SharedInv, Published, Frame
<1> QED
  BY <1>2, <1>4, <1>5, <1>6, <1>7, <1>8 DEF WriterInv

----------------------------------------------------------------------------
(* No step of Write leaves the invariant.                                  *)
LEMMA NextPreservesInv == WriterInv /\ [WriterNext]_writerVars => WriterInv'
<1> SUFFICES ASSUME WriterInv, [WriterNext]_writerVars
             PROVE  WriterInv'
  OBVIOUS
<1>1. ASSUME NEW size \in Requests, Write(size) PROVE WriterInv'
  BY <1>1, WritePreservesInv
<1>2. CASE CopyHeader
  BY <1>2, CopyHeaderPreservesInv
<1>3. CASE CopyBody
  BY <1>3, CopyBodyPreservesInv
<1>4. CASE CopyRest
  BY <1>4, CopyRestPreservesInv
<1>5. CASE StoreSeqNum
  BY <1>5, StoreSeqNumPreservesInv
<1>6. CASE StoreReadIdx
  BY <1>6, StoreReadIdxPreservesInv
<1>7. CASE UNCHANGED writerVars
  <2>1. UNCHANGED <<readIdx, writeIdx, seqNum, cell, wPc, wLocalIndex, wLocalSeqNum,
                    nextElement, log>>
    BY <1>7 DEF writerVars, shared
  <2> QED
    BY <2>1
    DEF WriterInv, WriterTypeOK, HeadInv, ChainInv, TapeInv, ProgressInv, OnTapeIntact, SharedInv,
        Apart, Done, Intact, StoredByte, Last, HeadPos, HeadSeq, Ended, LapBase, EndPos,
        Pos, Frame, Published
<1> QED
  BY <1>1, <1>2, <1>3, <1>4, <1>5, <1>6, <1>7 DEF WriterNext, WriteInProgress

(***************************************************************************)
(* The inductive invariant holds, and with it every variable keeps its     *)
(* type and every index stays within the buffer, however many laps the     *)
(* writer makes.                                                           *)
(***************************************************************************)
THEOREM WriterInvariance == WriterSpec => []WriterInv
BY InitEstablishesInv, NextPreservesInv, PTL DEF WriterSpec

(* The values of readIdx, writeIdx and seqNum, the cells, the writer's own *)
(* state and its log are always of their types.                            *)
THEOREM WriterTypeCorrect == WriterSpec => []WriterTypeOK
<1>1. WriterInv => WriterTypeOK
  BY DEF WriterInv
<1> QED
  BY <1>1, WriterInvariance, PTL

(***************************************************************************)
(* A released message stays whole while the writer has counted at most the *)
(* safe window since its first byte.  The window is on bytes counted, and  *)
(* the invariant speaks of places on the tape: a frame in the window is at *)
(* most one lap back, and that lap skipped at most HeaderSize - 1 bytes.   *)
(***************************************************************************)
LEMMA InvKeepsWindow == WriterInv => WindowIntact
<1> SUFFICES ASSUME WriterInv, NEW k \in 1 .. Published, InWindow(k)
             PROVE  Intact(k)
  BY DEF WindowIntact
<1>1. /\ log \in Seq(FrameRecord) /\ Last \in Nat
      /\ k \in 1 .. Last /\ (wPc # "idle" => k \in 1 .. Last - 1)
  <2>1. log \in Seq(FrameRecord) /\ Last \in Nat
    BY DEF WriterInv, WriterTypeOK, Last
  <2> QED
    BY <2>1 DEF Published
<1>2. CASE k = Last
  BY <1>1, <1>2 DEF WriterInv, ProgressInv, Done, Intact
<1>3. CASE k < Last
  <2> DEFINE f == Frame(k)
             g == Frame(Last)
  <2>1. Apart(k, Last) /\ Last \in 1 .. Last
    BY <1>1, <1>3 DEF WriterInv, TapeInv
  <2>2. /\ f.base \in Nat /\ f.seq \in Nat /\ g.base \in Nat /\ g.seq \in Nat
        /\ FrameLen(g.size) \in HeaderSize .. BufferSize
        /\ Pos(k) \in Nat /\ Pos(Last) \in Nat
        /\ EndPos(Last) = Pos(Last) + FrameLen(g.size)
    BY <1>1, <2>1, FrameType DEF WriterInv, EndPos
  <2>5. HeadSeq = g.seq + FrameLen(g.size) /\ HeadPos = EndPos(Last)
    BY <1>1, <1>3 DEF HeadSeq, Ended, HeadPos
  <2>3. HeadSeq - f.seq <= SafeWindow
    BY <1>1, <1>3 DEF InWindow
  <2> HIDE DEF f, g
  <2>4. HeadPos - Pos(k) <= BufferSize
    BY <2>1, <2>2, <2>3, <2>5, FramingAssumption DEF Apart, SafeWindow, f, g
  <2> QED
    BY <1>1, <1>3, <2>4 DEF WriterInv, OnTapeIntact
<1> QED
  BY <1>1, <1>2, <1>3

(* A released message in the safe window is whole in the buffer.           *)
THEOREM WindowStaysIntact == WriterSpec => []WindowIntact
BY InvKeepsWindow, WriterInvariance, PTL

(***************************************************************************)
(* No memcpy of Write leaves the buffer.                                   *)
(***************************************************************************)
THEOREM CopiesStayInBounds == WriterSpec => []CopyInBounds
<1>1. WriterInv => CopyInBounds
  <2> SUFFICES ASSUME WriterInv, wPc # "idle"
               PROVE  CopyInBounds
    BY DEF CopyInBounds
  <2> DEFINE f == Frame(Last)
  <2>1. /\ f.size \in Size /\ f.idx \in Index
        /\ FrameStart(f.idx) \in 0 .. BufferSize - HeaderSize
        /\ FrameLen(f.size) \in HeaderSize .. BufferSize
    BY WriteUnderWay
  <2>2. /\ wPc \in {"header", "body"} => nextElement = FrameStart(f.idx)
        /\ wPc = "rest" => nextElement = 0 /\ Split(f.idx, f.size)
        /\ AfterBody(Last) = IF Split(f.idx, f.size) THEN "rest" ELSE "seq"
    BY DEF WriterInv, ProgressInv, AfterBody
  <2> HIDE DEF f
  <2>3. wPc = "header" => nextElement + HeaderSize <= BufferSize
    BY <2>1, <2>2, FramingAssumption
  <2>4. wPc = "body" =>
          nextElement + HeaderSize
            + (IF AfterBody(Last) = "rest" THEN FirstPart(f.idx) ELSE f.size) <= BufferSize
    <3>1. Split(f.idx, f.size) => FrameStart(f.idx) + HeaderSize + FirstPart(f.idx) <= BufferSize
      BY <2>1, FramingAssumption
      DEF Split, FrameStart, HeaderFits, FirstPart, SpaceToEnd, Index, Size
    <3>2. ~Split(f.idx, f.size) => FrameStart(f.idx) + HeaderSize + f.size <= BufferSize
      BY <2>1, FramingAssumption
      DEF Split, Fits, FrameStart, HeaderFits, SpaceToEnd, FrameLen, Index, Size
    <3> QED
      BY <2>2, <3>1, <3>2
  <2>5. wPc = "rest" => nextElement + RestPart(f.idx, f.size) <= BufferSize
    BY <2>1, <2>2, FramingAssumption
    DEF RestPart, Split, Fits, HeaderFits, SpaceToEnd, FrameLen, Index, Size
  <2> QED
    BY <2>3, <2>4, <2>5 DEF CopyInBounds, f
<1> QED
  BY <1>1, WriterInvariance, PTL

(* The DEBUG build's assertion on m_NextElement never fails. *)
THEOREM NextElementFollowsWriteIdx == WriterSpec => []NextElementAtWriteIdx
<1>1. WriterInv => NextElementAtWriteIdx
  BY DEF WriterInv, ProgressInv, HeadInv, NextElementAtWriteIdx
<1> QED
  BY <1>1, WriterInvariance, PTL

(***************************************************************************)
(* What is released is counted, what is counted is in place.               *)
(***************************************************************************)
THEOREM ReleaseOrder == WriterSpec => []ReleasedIsCountedAndInPlace
<1>1. WriterInv => ReleasedIsCountedAndInPlace
  <2> SUFFICES ASSUME WriterInv PROVE ReleasedIsCountedAndInPlace
    OBVIOUS
  <2> DEFINE counted == IF wPc \in {"idle", "read"} THEN Last ELSE Last - 1
  <2>1. Last \in Nat /\ (wPc # "idle" => Last > 0)
    BY DEF WriterInv, WriterTypeOK, Last
  <2>2. seqNum = IF counted = 0 THEN 0 ELSE Ended(counted)
    <3>1. CASE wPc \in {"idle", "read"}
      BY <3>1 DEF WriterInv, SharedInv, HeadInv, HeadSeq
    <3>2. CASE wPc \notin {"idle", "read"} /\ Last = 1
      BY <3>2 DEF WriterInv, SharedInv, HeadInv, ChainInv
    <3>3. CASE wPc \notin {"idle", "read"} /\ Last > 1
      <4>1. Last - 1 \in 1 .. Last - 1 /\ (Last - 1) + 1 = Last
        BY <2>1, <3>3
      <4>2. Frame(Last).seq = Ended(Last - 1)
        BY <4>1 DEF WriterInv, ChainInv
      <4> QED
        BY <2>1, <3>3, <4>2 DEF WriterInv, SharedInv, HeadInv
    <3> QED
      BY <2>1, <3>1, <3>2, <3>3
  <2>3. counted = Last /\ Last > 0 => Intact(Last)
    BY <2>1 DEF WriterInv, ProgressInv, Done, Intact
  <2>4. Published > 0 =>
          readIdx = WriterAdvance(Frame(Published).idx, Frame(Published).size)
    BY DEF WriterInv, SharedInv
  <2> QED
    BY <2>2, <2>3, <2>4 DEF ReleasedIsCountedAndInPlace
<1> QED
  BY <1>1, WriterInvariance, PTL

----------------------------------------------------------------------------
(* The writer and its readers. *)

(* A step of the whole is a step of the writer, or leaves it alone. *)
LEMMA NextIsWriterStep == [Next]_vars => [WriterNext]_writerVars
BY DEF Next, vars

(***************************************************************************)
(* A behaviour of the writer and its readers is one of the writer: readers *)
(* store nothing the writer reads, so what is proved of Writer holds here. *)
(***************************************************************************)
THEOREM ReadersDoNotDisturb == Spec => WriterSpec
<1>1. Init => WriterInit
  BY DEF Init
<1> QED
  BY <1>1, NextIsWriterStep, PTL DEF Spec, WriterSpec

(* A released message is whole in the safe window, with readers about. *)
THEOREM WindowStaysIntactForReaders == Spec => []WindowIntact
BY ReadersDoNotDisturb, WindowStaysIntact, PTL

----------------------------------------------------------------------------
(* The buffer begins empty, and no reader has read anything.               *)
LEMMA InitEstablishesReaderInv == Init => ReaderInv
<1> SUFFICES ASSUME Init PROVE ReaderInv
  OBVIOUS
<1>1. WriterInv
  BY InitEstablishesInv DEF Init
<1>2. ReaderTypeOK
  <2>1. WriterTypeOK
    BY <1>1 DEF WriterInv
  <2>2. 0 \in Index /\ 0 \in Size /\ <<>> \in Seq(Byte)
    BY FramingAssumption DEF Index, Size
  <2> QED
    BY <2>1, <2>2 DEF Init, ReaderInit, ReaderTypeOK, ReaderPcs
<1>3. \A r \in Readers : ReadShape(r)
  BY DEF Init, ReaderInit, ReadShape
<1> QED
  BY <1>1, <1>2, <1>3 DEF ReaderInv, ReadInv

(* The offset at which a reader looks for a header leaves room for one. *)
LEMMA FrameStartInBounds ==
  ASSUME NEW i \in Index
  PROVE  /\ FrameStart(i) \in 0 .. BufferSize - HeaderSize
         /\ FrameStart(i) \in Index /\ HeaderFits(FrameStart(i))
BY FramingAssumption DEF FrameStart, HeaderFits, SpaceToEnd, Index

(* The bytes a Read copies are bytes. *)
LEMMA BytesAtType ==
  ASSUME WriterTypeOK, NEW at \in Nat, NEW n \in Nat, at + n <= BufferSize
  PROVE  BytesAt(at, n) \in Seq(Byte) /\ Len(BytesAt(at, n)) = n
<1>1. \A o \in 1 .. n : cell[at + o - 1] \in Byte
  <2> SUFFICES ASSUME NEW o \in 1 .. n PROVE cell[at + o - 1] \in Byte
    OBVIOUS
  <2>1. at + o - 1 \in Cell
    BY FramingAssumption DEF Cell
  <2> QED
    BY <2>1 DEF WriterTypeOK
<1>2. BytesAt(at, n) \in [1 .. n -> Byte]
  BY <1>1 DEF BytesAt
<1> QED
  BY <1>2

(* Steps that leave the copies and the sizes of all readers alone, or drop *)
(* them, and do not enter a copy.                                          *)
LEMMA ReaderStepPreservesReadInv ==
  ASSUME ReadInv, UNCHANGED writerVars, NEW r \in Readers,
         ReaderTypeOK', ReadShape(r)',
         \A q \in Readers \ {r} :
           /\ rPc'[q] = rPc[q] /\ rLocalIndex'[q] = rLocalIndex[q]
           /\ rData'[q] = rData[q] /\ rSize'[q] = rSize[q] /\ rCap'[q] = rCap[q]
  PROVE  ReadInv'
<1>1. ASSUME NEW q \in Readers \ {r} PROVE ReadShape(q)'
  BY <1>1 DEF ReadInv, ReadShape
<1> QED
  BY <1>1 DEF ReadInv

(* A reader's step leaves the writer's variables their types.              *)
LEMMA WriterTypeKept ==
  ASSUME ReadInv, UNCHANGED writerVars
  PROVE  WriterTypeOK'
BY DEF writerVars, shared, ReadInv, ReaderTypeOK, WriterTypeOK

(* The constructor, the calls, the polls and the checks copy nothing. *)
LEMMA QuietStepPreservesReadInv ==
  ASSUME ReadInv, UNCHANGED writerVars, NEW r \in Readers,
         \/ AttachIndex(r) \/ AttachSeqNum(r)
         \/ \E cap \in Caps : Read(r, cap)
         \/ PollEmpty(r) \/ PollData(r) \/ CheckLag(r) \/ Recheck(r)
  PROVE  ReadInv'
<1>1. WriterTypeOK'
  BY WriterTypeKept
<1>2. Published + 1 \in Nat \ {0}
  BY DEF ReadInv, ReaderTypeOK, WriterTypeOK, Published, Last
<1>3. readIdx \in Index /\ seqNum \in Nat /\ 0 \in Size /\ <<>> \in Seq(Byte)
  BY FramingAssumption DEF ReadInv, ReaderTypeOK, WriterTypeOK, Size
<1>4. ReaderTypeOK' /\ rPc'[r] \in {"attach", "idle", "poll", "check", "header"}
  <2>1. CASE AttachIndex(r)
    BY <1>1, <1>2, <1>3, <2>1 DEF ReadInv, ReaderTypeOK, ReaderPcs, AttachIndex
  <2>2. CASE AttachSeqNum(r)
    BY <1>1, <1>3, <2>2 DEF ReadInv, ReaderTypeOK, ReaderPcs, AttachSeqNum
  <2>3. CASE \E cap \in Caps : Read(r, cap)
    BY <1>1, <1>3, <2>3 DEF ReadInv, ReaderTypeOK, ReaderPcs, Read
  <2>4. CASE PollEmpty(r)
    BY <1>1, <1>3, <2>4 DEF ReadInv, ReaderTypeOK, ReaderPcs, PollEmpty, Return
  <2>5. CASE PollData(r)
    BY <1>1, <2>5 DEF ReadInv, ReaderTypeOK, ReaderPcs, PollData
  <2>6. CASE CheckLag(r)
    BY <1>1, <1>3, <2>6 DEF ReadInv, ReaderTypeOK, ReaderPcs, CheckLag, Return
  <2>7. CASE Recheck(r)
    <3>1. KeptUp(r) \in BOOLEAN
      BY <2>7 DEF KeptUp, ReadInv, ReaderTypeOK
    <3>2. synced' \in [Readers -> BOOLEAN]
      BY <2>7, <3>1 DEF ReadInv, ReaderTypeOK, Recheck
    <3>3. rNext' \in [Readers -> Nat \ {0}]
      BY <2>7 DEF ReadInv, ReaderTypeOK, Recheck
    <3> QED
      BY <1>1, <1>3, <2>7, <3>2, <3>3 DEF ReadInv, ReaderTypeOK, ReaderPcs, Recheck, Return
  <2> QED
    BY <2>1, <2>2, <2>3, <2>4, <2>5, <2>6, <2>7
<1>5. ReadShape(r)'
  BY <1>4 DEF ReadShape
<1>6. \A q \in Readers \ {r} :
        /\ rPc'[q] = rPc[q] /\ rLocalIndex'[q] = rLocalIndex[q]
        /\ rData'[q] = rData[q] /\ rSize'[q] = rSize[q] /\ rCap'[q] = rCap[q]
  BY DEF ReadInv, ReaderTypeOK, AttachIndex, AttachSeqNum, Read, PollEmpty, PollData,
         CheckLag, Recheck, Return
<1> QED
  BY <1>4, <1>5, <1>6, ReaderStepPreservesReadInv

(* The header is read, and with it the size, valid or not. *)
LEMMA ReadHeaderPreservesReadInv ==
  ASSUME ReadInv, UNCHANGED writerVars, NEW r \in Readers,
         NEW size \in Size \cup {MaxMessageSize + 1}, ReadHeader(r, size)
  PROVE  ReadInv'
<1>1. WriterTypeOK'
  BY WriterTypeKept
<1>2. /\ rLocalIndex[r] \in Index
      /\ rLocalIndex'[r] \in Index /\ HeaderFits(rLocalIndex'[r])
  BY FrameStartInBounds DEF ReadInv, ReaderTypeOK, ReadHeader
<1>3. rLocalIndex' \in [Readers -> Index]
  BY <1>2 DEF ReadInv, ReaderTypeOK, ReadHeader
<1>4. CASE Acceptable(r, size)
  <2>1. size \in Size /\ size <= rCap[r]
    BY <1>4, FramingAssumption DEF Acceptable, Size
  <2>2. ReaderTypeOK' /\ ReadShape(r)'
    BY <1>1, <1>2, <1>3, <1>4, <2>1
    DEF ReadInv, ReaderTypeOK, ReaderPcs, ReadHeader, ReadShape
  <2> QED
    BY <1>4, <2>2, ReaderStepPreservesReadInv DEF ReadHeader, ReadInv, ReaderTypeOK
<1>5. CASE ~Acceptable(r, size)
  <2>1. 0 \in Size
    BY FramingAssumption DEF Size
  <2>2. ReaderTypeOK' /\ ReadShape(r)'
    BY <1>1, <1>3, <1>5, <2>1
    DEF ReadInv, ReaderTypeOK, ReaderPcs, ReadHeader, ReadShape, Return
  <2> QED
    BY <1>5, <2>2, ReaderStepPreservesReadInv DEF ReadHeader, ReadInv, ReaderTypeOK, Return
<1> QED
  BY <1>4, <1>5

(* The payload is read, whole or up to the end of the buffer. *)
LEMMA ReadBodyPreservesReadInv ==
  ASSUME ReadInv, UNCHANGED writerVars, NEW r \in Readers, ReadBody(r)
  PROVE  ReadInv'
<1> DEFINE i == rLocalIndex[r]
           size == rSize[r]
           fits == Fits(i, size)
           n == IF fits THEN size ELSE FirstPart(i)
<1>1. WriterTypeOK /\ WriterTypeOK'
  BY WriterTypeKept DEF ReadInv, ReaderTypeOK
<1>2. i \in Index /\ size \in Size /\ HeaderFits(i) /\ size <= rCap[r]
  BY DEF ReadInv, ReaderTypeOK, ReadShape, ReadBody
<1>3. /\ n \in Nat /\ i + HeaderSize \in Nat /\ (i + HeaderSize) + n <= BufferSize
      /\ fits => n = size /\ i + FrameLen(size) \in Index
      /\ ~fits => n < size
      /\ 0 \in Index
  <2> HIDE DEF i, size
  <2> QED
    BY <1>2, FramingAssumption
    DEF Index, Size, HeaderFits, Fits, FirstPart, FrameLen, SpaceToEnd
<1>4. BytesAt(i + HeaderSize, n) \in Seq(Byte) /\ Len(BytesAt(i + HeaderSize, n)) = n
  BY <1>1, <1>3, BytesAtType
<1>5. rLocalSeqNum[r] + FrameLen(size) \in Nat
  BY <1>2, FramingAssumption DEF ReadInv, ReaderTypeOK, FrameLen, Size
<1>6. /\ rPc[r] = "body" /\ rPc' = [rPc EXCEPT ![r] = IF fits THEN "recheck" ELSE "rest"]
      /\ rData' = [rData EXCEPT ![r] = BytesAt(i + HeaderSize, n)]
      /\ rLocalIndex' = [rLocalIndex EXCEPT ![r] = IF fits THEN i + FrameLen(size) ELSE 0]
      /\ rLocalSeqNum' = [rLocalSeqNum EXCEPT
           ![r] = IF fits THEN rLocalSeqNum[r] + FrameLen(size) ELSE rLocalSeqNum[r]]
      /\ UNCHANGED <<rCap, rSize, ret, rNext, synced>>
  BY DEF ReadBody, SeqAfterRead
<1> HIDE DEF n, fits
<1>7. ReaderTypeOK'
  BY <1>1, <1>3, <1>4, <1>5, <1>6 DEF ReadInv, ReaderTypeOK, ReaderPcs
<1>8. ReadShape(r)'
  BY <1>2, <1>3, <1>4, <1>6 DEF ReadInv, ReaderTypeOK, ReadShape
<1> QED
  BY <1>6, <1>7, <1>8, ReaderStepPreservesReadInv DEF ReadInv, ReaderTypeOK

(* The rest of a split message is read. *)
LEMMA ReadRestPreservesReadInv ==
  ASSUME ReadInv, UNCHANGED writerVars, NEW r \in Readers, ReadRest(r)
  PROVE  ReadInv'
<1> DEFINE n == rSize[r] - Len(rData[r])
           got == BytesAt(0, n)
<1>1. WriterTypeOK /\ WriterTypeOK'
  BY WriterTypeKept DEF ReadInv, ReaderTypeOK
<1>2. /\ rLocalIndex[r] = 0 /\ rSize[r] \in Size /\ rData[r] \in Seq(Byte)
      /\ Len(rData[r]) \in Nat /\ Len(rData[r]) < rSize[r] /\ rSize[r] <= rCap[r]
      /\ rLocalSeqNum[r] \in Nat
  BY DEF ReadInv, ReaderTypeOK, ReadShape, ReadRest
<1>3. n \in Nat /\ 0 + n \in Index /\ 0 + n <= BufferSize
  BY <1>2, FramingAssumption DEF Index, Size
<1>4. got \in Seq(Byte) /\ Len(got) = n
  BY <1>1, <1>3, BytesAtType
<1>5. rLocalSeqNum[r] + FrameLen(rSize[r]) \in Nat
  BY <1>2, FramingAssumption DEF FrameLen, Size
<1>6. /\ rPc[r] = "rest" /\ rPc' = [rPc EXCEPT ![r] = "recheck"]
      /\ rData' = [rData EXCEPT ![r] = rData[r] \o got]
      /\ rLocalIndex' = [rLocalIndex EXCEPT ![r] = 0 + n]
      /\ rLocalSeqNum' = [rLocalSeqNum EXCEPT ![r] = rLocalSeqNum[r] + FrameLen(rSize[r])]
      /\ UNCHANGED <<rCap, rSize, ret, rNext, synced>>
  BY <1>2 DEF ReadRest, SeqAfterRead, BytesLeft
<1> HIDE DEF got
<1>7. /\ rData[r] \o got \in Seq(Byte)
      /\ Len(rData[r] \o got) = rSize[r]
  <2>1. Len(rData[r] \o got) = Len(rData[r]) + Len(got) /\ rData[r] \o got \in Seq(Byte)
    BY <1>2, <1>4
  <2> QED
    BY <1>2, <1>4, <2>1, FramingAssumption DEF Size
<1> HIDE DEF n
<1>8. ReaderTypeOK'
  BY <1>1, <1>3, <1>5, <1>6, <1>7 DEF ReadInv, ReaderTypeOK, ReaderPcs
<1>9. ReadShape(r)'
  BY <1>2, <1>6, <1>7 DEF ReadInv, ReaderTypeOK, ReadShape
<1> QED
  BY <1>6, <1>8, <1>9, ReaderStepPreservesReadInv DEF ReadInv, ReaderTypeOK

(* No step of a reader, whatever it finds, breaks it. *)
LEMMA ReaderNextPreservesReadInv ==
  ASSUME ReadInv, UNCHANGED writerVars, NEW r \in Readers, ReaderNext(r)
  PROVE  ReadInv'
BY QuietStepPreservesReadInv, ReadHeaderPreservesReadInv, ReadBodyPreservesReadInv,
   ReadRestPreservesReadInv DEF ReaderNext, ReadInProgress

(* Nor a step of which the readers are no part. *)
LEMMA OthersPreserveReadInv ==
  ASSUME ReadInv, UNCHANGED readerVars, WriterTypeOK'
  PROVE  ReadInv'
<1>1. UNCHANGED <<rPc, rLocalIndex, rLocalSeqNum, rCap, rSize, rData, ret, rNext, synced>>
  BY DEF readerVars
<1> QED
  BY <1>1 DEF ReadInv, ReaderTypeOK, ReadShape

(* The writer and the readers keep their invariants together. *)
LEMMA NextPreservesReaderInv == ReaderInv /\ [Next]_vars => ReaderInv'
<1> SUFFICES ASSUME ReaderInv, [Next]_vars PROVE ReaderInv'
  OBVIOUS
<1>1. WriterInv'
  BY NextIsWriterStep, NextPreservesInv DEF ReaderInv
<1>2. CASE UNCHANGED readerVars
  BY <1>1, <1>2, OthersPreserveReadInv DEF ReaderInv, WriterInv
<1>3. ASSUME NEW r \in Readers, ReaderNext(r), UNCHANGED writerVars
      PROVE  ReadInv'
  BY <1>3, ReaderNextPreservesReadInv DEF ReaderInv
<1> QED
  BY <1>1, <1>2, <1>3 DEF Next, vars, ReaderInv

(***************************************************************************)
(* Along every interleaving of Write and the Reads, the writer's invariant *)
(* holds, and each Read in progress has copied as much as its place in the *)
(* code says, of a message its buffer has room for.                        *)
(***************************************************************************)
THEOREM ReaderInvariance == Spec => []ReaderInv
BY InitEstablishesReaderInv, NextPreservesReaderInv, PTL DEF Spec

(* Writer and readers keep their types, and their indices in the buffer.   *)
THEOREM ReaderTypeCorrect == Spec => []ReaderTypeOK
<1>1. ReaderInv => ReaderTypeOK
  BY DEF ReaderInv, ReadInv
<1> QED
  BY <1>1, ReaderInvariance, PTL

(***************************************************************************)
(* However far the writer is ahead, and whatever bytes a reader takes for  *)
(* a header, the memcpys of Read stay in the circular buffer and in the    *)
(* application's.                                                          *)
(***************************************************************************)
THEOREM ReadsStayInBounds == Spec => []ReadsInBounds
<1>1. ReaderInv => ReadsInBounds
  <2> SUFFICES ASSUME ReaderInv, NEW r \in Readers
               PROVE  /\ ReadCells(r) \subseteq Cell
                      /\ rPc[r] \in {"body", "rest", "recheck"} => rSize[r] <= rCap[r]
                      /\ rPc[r] = "rest" => Len(rData[r]) < rSize[r]
                      /\ rPc[r] = "recheck" => Len(rData[r]) = rSize[r]
    BY DEF ReadsInBounds
  <2>1. ReadShape(r) /\ rLocalIndex[r] \in Index /\ rSize[r] \in Size /\ rData[r] \in Seq(Byte)
    BY DEF ReaderInv, ReadInv, ReaderTypeOK
  <2>2. CASE rPc[r] = "header"
    <3>1. FrameStart(rLocalIndex[r]) \in 0 .. BufferSize - HeaderSize
      BY <2>1, FrameStartInBounds
    <3>2. CellsFrom(FrameStart(rLocalIndex[r]), HeaderSize) \subseteq Cell
      BY <3>1, FramingAssumption DEF CellsFrom, Cell
    <3> QED
      BY <2>1, <2>2, <3>2 DEF ReadCells, ReadShape
  <2>3. CASE rPc[r] = "body"
    <3> DEFINE i == rLocalIndex[r]
               n == IF Fits(i, rSize[r]) THEN rSize[r] ELSE FirstPart(i)
    <3>1. i \in Index /\ rSize[r] \in Size /\ HeaderFits(i)
      BY <2>1, <2>3 DEF ReadShape
    <3>2. i + HeaderSize \in Nat /\ n \in Nat /\ (i + HeaderSize) + n <= BufferSize
      <4> HIDE DEF i
      <4> QED
        BY <3>1, FramingAssumption
        DEF Index, Size, HeaderFits, Fits, FirstPart, FrameLen, SpaceToEnd
    <3>3. CellsFrom(i + HeaderSize, n) \subseteq Cell
      <4> HIDE DEF i, n
      <4> QED
        BY <3>2, FramingAssumption DEF CellsFrom, Cell
    <3> QED
      BY <2>1, <2>3, <3>3 DEF ReadCells, ReadShape
  <2>4. CASE rPc[r] = "rest"
    <3>1. rLocalIndex[r] = 0 /\ Len(rData[r]) \in Nat
      BY <2>1, <2>4 DEF ReadShape
    <3>2. CellsFrom(0, rSize[r] - Len(rData[r])) \subseteq Cell
      BY <2>1, <3>1, FramingAssumption DEF CellsFrom, Cell, Size
    <3> QED
      BY <2>1, <2>4, <3>1, <3>2 DEF ReadCells, ReadShape, BytesLeft
  <2>5. CASE rPc[r] \notin {"header", "body", "rest"}
    BY <2>1, <2>5 DEF ReadCells, ReadShape
  <2> QED
    BY <2>2, <2>3, <2>4, <2>5
<1> QED
  BY <1>1, ReaderInvariance, PTL

----------------------------------------------------------------------------
(* Readers that keep up: first, what the writer's invariant says of the    *)
(* frames ahead of one.                                                    *)

(* Between two messages that end less than the safe window after the first *)
(* began, the tape runs less than one buffer, and skips less than a header.*)
LEMMA WindowOnTape ==
  ASSUME WriterInv, NEW p \in 1 .. Last, NEW k \in 1 .. p,
         Ended(p) - Frame(k).seq < SafeWindow
  PROVE  LET laps    == Frame(p).base - Frame(k).base
             taped   == EndPos(p) - Pos(k)
             counted == Ended(p) - Frame(k).seq
         IN  /\ laps \in {0, BufferSize}
             /\ laps = 0 => taped = counted
             /\ HeaderSize <= counted /\ counted <= taped /\ taped < BufferSize
<1> DEFINE f == Frame(k)
           g == Frame(p)
<1>1. /\ f.base \in Nat /\ f.seq \in Nat /\ g.base \in Nat /\ g.seq \in Nat
      /\ FrameLen(g.size) \in HeaderSize .. BufferSize
      /\ Pos(k) \in Nat /\ Pos(p) \in Nat
      /\ k \in 1 .. Last
  BY FrameType DEF WriterInv, WriterTypeOK, Last
<1>2. EndPos(p) = Pos(p) + FrameLen(g.size) /\ Ended(p) = g.seq + FrameLen(g.size)
  BY DEF EndPos, Ended
<1>3. CASE k = p
  BY <1>1, <1>2, <1>3, FramingAssumption DEF SafeWindow
<1>4. CASE k < p
  <2>1. Apart(k, p)
    BY <1>1, <1>4 DEF WriterInv, TapeInv
  <2>2. FrameLen(f.size) \in HeaderSize .. BufferSize
    BY <1>1, FrameType DEF WriterInv
  <2> HIDE DEF f, g
  <2> QED
    BY <1>1, <1>2, <2>1, <2>2, FramingAssumption DEF Apart, SafeWindow, f, g
<1> QED
  BY <1>3, <1>4

(* Messages are counted one after the other.                               *)
LEMMA CountsGrow ==
  ASSUME WriterInv, NEW p \in 1 .. Last, NEW k \in 1 .. p
  PROVE  /\ Ended(k) \in Nat /\ Ended(p) \in Nat /\ Frame(k).seq \in Nat
         /\ Frame(k).seq + HeaderSize <= Ended(k) /\ Ended(k) <= Ended(p)
         /\ k < p => Ended(k) <= Frame(p).seq
<1>1. k \in 1 .. Last
  BY DEF WriterInv, WriterTypeOK, Last
<1>2. /\ Frame(k).seq \in Nat /\ FrameLen(Frame(k).size) \in HeaderSize .. BufferSize
      /\ Frame(p).seq \in Nat /\ FrameLen(Frame(p).size) \in HeaderSize .. BufferSize
  BY <1>1, FrameType DEF WriterInv
<1>3. k < p => Frame(p).seq - Frame(k).seq >= FrameLen(Frame(k).size)
  BY <1>1 DEF WriterInv, TapeInv, Apart
<1> QED
  BY <1>1, <1>2, <1>3, FramingAssumption DEF Ended

(* The index at which a message ends, and the place on the tape.           *)
LEMMA EndIsAdvance ==
  ASSUME WriterInv, NEW p \in 1 .. Last
  PROVE  EndPos(p) - WriterAdvance(Frame(p).idx, Frame(p).size) - Frame(p).base
           \in {0, BufferSize}
<1> DEFINE f == Frame(p)
<1>1. f.idx \in Index /\ f.size \in Size /\ f.base \in Nat
  BY FrameType DEF WriterInv
<1>2. EndPos(p) = f.base + FrameStart(f.idx) + FrameLen(f.size)
  BY DEF EndPos, Pos
<1> HIDE DEF f
<1>3. Fits(f.idx, f.size) => HeaderFits(f.idx)
  BY <1>1, FramingAssumption DEF Fits, HeaderFits, FrameLen, SpaceToEnd, Index, Size
<1>4. FrameLen(f.size) \in Nat
  BY <1>1, FramingAssumption DEF FrameLen, Size
<1> QED
  BY <1>1, <1>2, <1>3, <1>4, AdvanceCases, FramingAssumption
  DEF FrameStart, Split, Index, f

(***************************************************************************)
(* readIdx, which has no count of laps, is not the index at which a        *)
(* released message begins, nor the offset its header went to, while less  *)
(* than the safe window was written since.                                 *)
(***************************************************************************)
LEMMA LimitIsElsewhere ==
  ASSUME WriterInv, NEW k \in 1 .. Published, HeadSeq - Frame(k).seq < SafeWindow
  PROVE  readIdx # Frame(k).idx /\ readIdx # FrameStart(Frame(k).idx)
<1> DEFINE p       == Published
           i       == Frame(k).idx
           limit   == WriterAdvance(Frame(p).idx, Frame(p).size)
           laps    == Frame(p).base - Frame(k).base
           counted == Ended(p) - Frame(k).seq
           taped   == EndPos(p) - Pos(k)
<1>1. Last \in Nat /\ p \in 1 .. Last /\ k \in 1 .. p /\ k \in 1 .. Last
      /\ Last \in 1 .. Last /\ HeadSeq = Ended(Last)
  BY DEF WriterInv, WriterTypeOK, Last, Published, HeadSeq
<1>2. Ended(p) <= HeadSeq /\ Ended(p) \in Nat /\ HeadSeq \in Nat
  BY <1>1, CountsGrow
<1>3. /\ i \in Index /\ Frame(k).base \in Nat /\ Frame(p).base \in Nat
      /\ Frame(k).seq \in Nat /\ EndPos(p) \in Nat /\ Frame(p).idx \in Index
      /\ Frame(p).size \in Size
  BY <1>1, FrameType DEF WriterInv
<1>4. counted < SafeWindow
  BY <1>2, <1>3, FramingAssumption DEF SafeWindow
<1>5. /\ laps \in {0, BufferSize}
      /\ laps = 0 => taped = counted
      /\ HeaderSize <= counted /\ counted <= taped /\ taped < BufferSize
  BY <1>1, <1>4, WindowOnTape
<1>6. EndPos(p) - limit - Frame(p).base \in {0, BufferSize}
  BY <1>1, EndIsAdvance
<1>7. readIdx = limit
  BY <1>1 DEF WriterInv, SharedInv
<1>8. limit \in Index
  BY <1>3, AdvanceCases
<1>9. Pos(k) = Frame(k).base + FrameStart(i)
  BY DEF Pos
<1>10. FrameStart(i) = IF i <= BufferSize - HeaderSize THEN i ELSE 0
  BY <1>3, FramingAssumption DEF FrameStart, HeaderFits, SpaceToEnd, Index
<1> HIDE DEF p, i, limit, laps, counted, taped
<1>11. laps \in Int /\ counted \in Int /\ taped \in Int
  BY <1>5, <1>4, <1>3, <1>2, <1>9, <1>10, FramingAssumption DEF laps, counted, taped, Index
<1>12. PICK s \in {0, BufferSize} : EndPos(p) - limit - Frame(p).base = s
  BY <1>6
<1>13. taped = laps + s + limit - FrameStart(i) /\ s \in Int /\ limit \in Int
  BY <1>3, <1>8, <1>9, <1>10, <1>12, FramingAssumption DEF taped, laps, Index
<1>14. limit # FrameStart(i)
  <2> SUFFICES ASSUME limit = FrameStart(i) PROVE FALSE
    OBVIOUS
  <2>1. taped = laps + s
    BY <1>11, <1>13
  <2>2. taped \in {0, BufferSize, BufferSize + BufferSize}
    BY <2>1, <1>5, <1>12, FramingAssumption
  <2> QED
    BY <2>2, <1>5, <1>11, FramingAssumption
<1>15. limit # i
  <2>1. CASE i <= BufferSize - HeaderSize
    BY <2>1, <1>10, <1>14
  <2>2. CASE i > BufferSize - HeaderSize
    <3> SUFFICES ASSUME limit = i PROVE FALSE
      OBVIOUS
    <3>1. taped = laps + s + i
      BY <2>2, <1>3, <1>10, <1>11, <1>13, FramingAssumption DEF Index
    <3>2. laps = 0 /\ s = 0
      <4>1. i \in Nat /\ laps + s + i < BufferSize
        BY <3>1, <1>3, <1>5, FramingAssumption DEF Index
      <4> QED
        BY <4>1, <1>5, <1>11, <1>12, FramingAssumption
    <3> QED
      BY <2>2, <3>1, <3>2, <1>3, <1>4, <1>5, FramingAssumption DEF Index, SafeWindow
  <2> QED
    BY <2>1, <2>2, <1>3, FramingAssumption DEF Index
<1> QED
  BY <1>7, <1>14, <1>15 DEF i

(* A message begins at the index, and the count, at which the one before   *)
(* ended; the one that is to be released next, at readIdx.                 *)
LEMMA NextBegins ==
  ASSUME WriterInv
  PROVE  /\ IndexAt(Published + 1) = readIdx
         /\ \A k \in 1 .. Published :
              /\ IndexAt(k + 1) = WriterAdvance(Frame(k).idx, Frame(k).size)
              /\ SeqAt(k + 1) = Ended(k)
<1>1. /\ Last \in Nat /\ Published \in 0 .. Last /\ Published + 1 >= Last
      /\ wPc # "idle" => Last > 0 /\ Published = Last - 1
      /\ wPc = "idle" => Published = Last
  BY DEF WriterInv, WriterTypeOK, Last, Published
<1>2. ASSUME NEW k \in 1 .. Published
      PROVE  /\ IndexAt(k + 1) = WriterAdvance(Frame(k).idx, Frame(k).size)
             /\ SeqAt(k + 1) = Ended(k)
  <2>1. CASE k = Last
    BY <1>1, <2>1 DEF WriterInv, SharedInv, IndexAt, SeqAt, HeadSeq
  <2>2. CASE k < Last
    <3>1. k \in 1 .. Last - 1 /\ k + 1 <= Last
      BY <1>1, <2>2
    <3> QED
      BY <3>1 DEF WriterInv, ChainInv, IndexAt, SeqAt
  <2> QED
    BY <1>1, <2>1, <2>2
<1>3. IndexAt(Published + 1) = readIdx
  <2>1. CASE Published > 0
    <3>1. Published \in 1 .. Published
      BY <1>1, <2>1
    <3>2. readIdx = WriterAdvance(Frame(Published).idx, Frame(Published).size)
      BY <2>1, <1>1 DEF WriterInv, SharedInv
    <3> QED
      BY <1>2, <3>1, <3>2
  <2>2. CASE Published = 0
    <3>1. readIdx = 0 /\ (Last = 0 => wLocalIndex = 0)
      BY <2>2 DEF WriterInv, SharedInv
    <3>2. CASE Last = 0
      BY <2>2, <3>1, <3>2 DEF IndexAt
    <3>3. CASE Last = 1
      BY <2>2, <3>1, <3>3 DEF IndexAt, WriterInv, ChainInv
    <3> QED
      BY <1>1, <2>2, <3>2, <3>3
  <2> QED
    BY <1>1, <2>1, <2>2
<1> QED
  BY <1>2, <1>3

(* seqNum counts every released message, and none that is not begun.       *)
LEMMA SeqNumCounts ==
  ASSUME WriterInv, NEW k \in 1 .. Published
  PROVE  /\ Ended(k) \in Nat /\ seqNum \in Nat /\ HeadSeq \in Nat
         /\ Ended(k) <= seqNum /\ seqNum <= HeadSeq
<1>1. /\ Last \in 1 .. Last /\ k \in 1 .. Last
      /\ wPc # "idle" => k < Last
  BY DEF WriterInv, WriterTypeOK, Last, Published
<1>2. HeadSeq = Ended(Last)
  BY <1>1 DEF HeadSeq
<1>3. /\ Ended(k) \in Nat /\ Ended(Last) \in Nat /\ Frame(Last).seq \in Nat
      /\ Frame(Last).seq <= Ended(Last) /\ Ended(k) <= Ended(Last)
      /\ k < Last => Ended(k) <= Frame(Last).seq
  <2>1. Last \in 1 .. Last /\ Frame(Last).seq + HeaderSize <= Ended(Last)
    BY <1>1, CountsGrow
  <2> QED
    BY <1>1, <2>1, CountsGrow, FramingAssumption
<1>4. seqNum = IF wPc \in {"idle", "read"} THEN HeadSeq ELSE Frame(Last).seq
  BY DEF WriterInv, HeadInv, SharedInv
<1> QED
  BY <1>1, <1>2, <1>3, <1>4

(* A reader where a whole message begins reads its size, and nothing else. *)
LEMMA HeaderIsRead ==
  ASSUME WriterInv, NEW k \in 1 .. Last, Intact(k)
  PROVE  HeaderReadsAs(FrameStart(Frame(k).idx)) = {Frame(k).size}
<1> DEFINE f  == Frame(k)
           at == FrameStart(f.idx)
           bytes == [j \in 0 .. HeaderSize - 1 |-> cell[at + j]]
           of == {l \in 1 .. Last : \A j \in DOMAIN bytes : bytes[j] = <<l, j>>}
<1>1. /\ f.idx \in Index /\ f.size \in Size /\ at \in 0 .. BufferSize - HeaderSize
      /\ FrameLen(f.size) \in HeaderSize .. BufferSize
  BY FrameType DEF WriterInv
<1>2. ASSUME NEW j \in 0 .. HeaderSize - 1
      PROVE  cell[at + j] = <<k, j>>
  <2>1. j \in 0 .. FrameLen(f.size) - 1
    BY <1>1, FramingAssumption
  <2>2. FrameCell(f.idx, j) = at + j
    BY <1>1, FramingAssumption DEF FrameCell
  <2>3. ~(Split(f.idx, f.size) /\ j >= SpaceToEnd(f.idx))
    BY <1>1, FramingAssumption DEF Split, HeaderFits, SpaceToEnd, Index
  <2>4. StoredByte(k, j) = <<k, j>>
    BY <2>3 DEF StoredByte
  <2> QED
    BY <2>1, <2>2, <2>4 DEF Intact
<1>3. k \in of
  BY <1>2
<1>4. ASSUME NEW l \in of PROVE l = k
  <2>1. 0 \in DOMAIN bytes
    BY FramingAssumption
  <2>2. bytes[0] = <<l, 0>> /\ bytes[0] = <<k, 0>>
    BY <1>3, <2>1
  <2> QED
    BY <2>2
<1>5. of = {k}
  BY <1>3, <1>4
<1>6. HeaderReadsAs(at) = {Frame(l).size : l \in of}
  BY <1>3 DEF HeaderReadsAs
<1> QED
  BY <1>5, <1>6

(* The bytes a reader copies of a whole message are those of its payload:  *)
(* all of them together, or the two parts of a split message.              *)
LEMMA PayloadIsRead ==
  ASSUME WriterInv, NEW k \in 1 .. Last, Intact(k)
  PROVE  LET f  == Frame(k)
             at == FrameStart(f.idx) + HeaderSize
         IN  /\ ~Split(f.idx, f.size) => \A o \in 1 .. f.size :
                  cell[at + o - 1] = StoredByte(k, HeaderSize + o - 1)
             /\ Split(f.idx, f.size) => \A o \in 1 .. FirstPart(f.idx) :
                  cell[at + o - 1] = StoredByte(k, HeaderSize + o - 1)
             /\ Split(f.idx, f.size) => \A o \in 1 .. f.size - FirstPart(f.idx) :
                  cell[o - 1] = StoredByte(k, HeaderSize + FirstPart(f.idx) + o - 1)
<1> DEFINE f  == Frame(k)
           at == FrameStart(f.idx) + HeaderSize
<1>1. /\ f.idx \in Index /\ f.size \in Size
      /\ FrameLen(f.size) = HeaderSize + f.size
  BY FrameType DEF WriterInv, FrameLen
<1>2. ASSUME NEW j \in 0 .. HeaderSize + f.size - 1
      PROVE  cell[FrameCell(f.idx, j)] = StoredByte(k, j)
  <2>1. j \in 0 .. FrameLen(f.size) - 1
    BY <1>1, FramingAssumption DEF Size
  <2> QED
    BY <2>1 DEF Intact
<1>3. FrameStart(f.idx) = IF HeaderFits(f.idx) THEN f.idx ELSE 0
  BY DEF FrameStart
<1> HIDE DEF f
<1>4. ASSUME ~Split(f.idx, f.size), NEW o \in 1 .. f.size
      PROVE  cell[at + o - 1] = StoredByte(k, HeaderSize + o - 1)
  <2>1. HeaderSize + o - 1 \in 0 .. HeaderSize + f.size - 1
    BY <1>1, FramingAssumption DEF Size
  <2>2. FrameCell(f.idx, HeaderSize + o - 1) = at + o - 1
    BY <1>1, <1>3, <1>4, FramingAssumption
    DEF Split, Fits, HeaderFits, SpaceToEnd, FrameLen, FrameCell, Index, Size
  <2> QED
    BY <1>2, <2>1, <2>2
<1>5. ASSUME Split(f.idx, f.size), NEW o \in 1 .. FirstPart(f.idx)
      PROVE  cell[at + o - 1] = StoredByte(k, HeaderSize + o - 1)
  <2>1. HeaderSize + o - 1 \in 0 .. HeaderSize + f.size - 1
    BY <1>1, <1>5, FramingAssumption
    DEF Size, Index, FirstPart, Split, Fits, HeaderFits, SpaceToEnd, FrameLen
  <2>2. FrameCell(f.idx, HeaderSize + o - 1) = at + o - 1
    BY <1>1, <1>3, <1>5, FramingAssumption
    DEF Split, Fits, HeaderFits, SpaceToEnd, FrameLen, FrameCell, FirstPart, Index, Size
  <2> QED
    BY <1>2, <2>1, <2>2
<1>6. ASSUME Split(f.idx, f.size), NEW o \in 1 .. f.size - FirstPart(f.idx)
      PROVE  cell[o - 1] = StoredByte(k, HeaderSize + FirstPart(f.idx) + o - 1)
  <2>1. /\ FirstPart(f.idx) = BufferSize - f.idx - HeaderSize /\ FirstPart(f.idx) \in Nat
        /\ HeaderFits(f.idx)
    BY <1>1, <1>6, FramingAssumption DEF Index, FirstPart, Split, HeaderFits, SpaceToEnd
  <2>2. HeaderSize + FirstPart(f.idx) + o - 1 \in 0 .. HeaderSize + f.size - 1
    BY <1>1, <2>1, FramingAssumption DEF Size
  <2> DEFINE j == HeaderSize + FirstPart(f.idx) + o - 1
  <2>3. /\ FrameStart(f.idx) + j = BufferSize + o - 1
        /\ j \in Int /\ FrameStart(f.idx) \in Int /\ o \in Nat \ {0}
    BY <1>1, <1>3, <2>1, FramingAssumption DEF Size, Index
  <2>4. FrameCell(f.idx, j) = o - 1
    <3> HIDE DEF j
    <3> QED
      BY <2>3, FramingAssumption DEF FrameCell
  <2> QED
    BY <1>2, <2>2, <2>4
<1> QED
  BY <1>4, <1>5, <1>6 DEF f

----------------------------------------------------------------------------
(* Write begins one more message, where the last one ended.               *)
LEMMA WriteAppends ==
  ASSUME WriterInv, NEW size \in Requests, Write(size)
  PROVE  /\ Last' = Last + 1 /\ Published = Last /\ Published' = Last
         /\ \A k \in 1 .. Last : log'[k] = log[k]
         /\ log'[Last + 1].seq = HeadSeq /\ log'[Last + 1].idx = wLocalIndex
         /\ HeadSeq' = HeadSeq + FrameLen(size) /\ HeadSeq' \in Nat
<1>1. Last \in Nat /\ log \in Seq(FrameRecord)
  BY DEF WriterInv, WriterTypeOK, Last
<1>2. HeadSeq \in Nat
  <2>1. Last > 0 => Last \in 1 .. Last
    BY <1>1
  <2> QED
    BY <1>1, <2>1, FrameType DEF WriterInv, HeadSeq
<1> DEFINE new == [size |-> size, idx |-> wLocalIndex, seq |-> wLocalSeqNum,
                   base |-> IF HeaderFits(wLocalIndex) THEN LapBase
                            ELSE LapBase + BufferSize]
<1>3. log' = Append(log, new) /\ wPc = "idle" /\ wPc' = "header"
  BY DEF Write
<1>4. /\ Last' = Last + 1 /\ log'[Last + 1] = new
      /\ \A k \in 1 .. Last : log'[k] = log[k]
  <2> HIDE DEF new
  <2> QED
    BY <1>1, <1>3 DEF Last
<1>5. wLocalSeqNum = HeadSeq
  BY <1>3 DEF WriterInv, HeadInv
<1>6. Published = Last /\ Published' = Last
  BY <1>1, <1>3, <1>4 DEF Published
<1>7. HeadSeq' = log'[Last'].seq + FrameLen(log'[Last'].size)
  BY <1>1, <1>4 DEF HeadSeq, Ended, Frame
<1>8. HeadSeq' = HeadSeq + FrameLen(size)
  BY <1>4, <1>5, <1>7
<1>9. FrameLen(size) \in Nat
  BY WriterAssumption, FramingAssumption DEF FrameLen
<1> QED
  BY <1>2, <1>4, <1>5, <1>6, <1>8, <1>9

(* What a step of the writer leaves as it was.                             *)
LEMMA WriterMoves ==
  ASSUME WriterInv, [WriterNext]_writerVars
  PROVE  /\ Last \in Nat /\ Last' \in Nat /\ Last <= Last'
         /\ Published \in 0 .. Last /\ Published' \in Nat
         /\ Published <= Published' /\ Last <= Published + 1
         /\ HeadSeq \in Nat /\ HeadSeq' \in Nat /\ HeadSeq <= HeadSeq'
         /\ \A k \in 1 .. Last : Frame(k)' = Frame(k)
         /\ \A k \in 1 .. Published + 1 :
              SeqAt(k)' = SeqAt(k) /\ IndexAt(k)' = IndexAt(k)
<1>1. /\ Last \in Nat /\ Published \in 0 .. Last /\ Last <= Published + 1
      /\ wPc # "idle" => Published = Last - 1
      /\ wPc = "idle" => Published = Last
      /\ log \in Seq(FrameRecord)
  BY DEF WriterInv, WriterTypeOK, Last, Published
<1>2. HeadSeq \in Nat
  <2>1. Last > 0 => Last \in 1 .. Last
    BY <1>1
  <2> QED
    BY <1>1, <2>1, FrameType DEF WriterInv, HeadSeq
<1>3. CASE log' = log /\ wLocalIndex' = wLocalIndex
             /\ (wPc' # "idle" => wPc # "idle")
  BY <1>1, <1>2, <1>3 DEF Last, HeadSeq, Ended, Frame, SeqAt, IndexAt, Published
<1>4. CASE WriteInProgress \/ UNCHANGED writerVars
  BY <1>3, <1>4 DEF WriteInProgress, CopyHeader, CopyBody, CopyRest, StoreSeqNum,
                    StoreReadIdx, writerVars
<1>5. ASSUME NEW size \in Requests, Write(size)
      PROVE  /\ Last' = Last + 1 /\ Published' = Last
             /\ \A k \in 1 .. Last : log'[k] = log[k]
             /\ log'[Last + 1].seq = HeadSeq /\ log'[Last + 1].idx = wLocalIndex
             /\ HeadSeq' = HeadSeq + FrameLen(size) /\ HeadSeq' \in Nat
  BY <1>5, <1>1, WriteAppends
<1>6. ASSUME NEW size \in Requests, Write(size)
      PROVE  \A k \in 1 .. Published + 1 :
               SeqAt(k)' = SeqAt(k) /\ IndexAt(k)' = IndexAt(k)
  <2> SUFFICES ASSUME NEW k \in 1 .. Last + 1
               PROVE  SeqAt(k)' = SeqAt(k) /\ IndexAt(k)' = IndexAt(k)
    BY <1>1, <1>6 DEF Write
  <2>1. k <= Last' /\ SeqAt(k)' = log'[k].seq /\ IndexAt(k)' = log'[k].idx
    BY <1>1, <1>5, <1>6 DEF SeqAt, IndexAt, Frame
  <2>2. CASE k <= Last
    <3>1. k \in 1 .. Last
      BY <1>1, <2>2
    <3> QED
      BY <1>5, <1>6, <2>1, <2>2, <3>1 DEF SeqAt, IndexAt, Frame
  <2>3. CASE k = Last + 1
    BY <1>1, <1>5, <1>6, <2>1, <2>3 DEF SeqAt, IndexAt
  <2> QED
    BY <1>1, <2>2, <2>3
<1>7. ASSUME NEW size \in Requests, Write(size)
      PROVE  HeadSeq <= HeadSeq'
  <2>1. FrameLen(size) \in Nat
    BY WriterAssumption, FramingAssumption DEF FrameLen
  <2> QED
    BY <1>2, <1>5, <1>7, <2>1
<1>8. ASSUME NEW size \in Requests, Write(size)
      PROVE  \A k \in 1 .. Last : Frame(k)' = Frame(k)
  BY <1>5, <1>8 DEF Frame
<1>9. ASSUME NEW size \in Requests, Write(size)
      PROVE  /\ Last' \in Nat /\ Last <= Last' /\ Published' \in Nat /\ Published <= Published'
  BY <1>1, <1>5, <1>9
<1>10. CASE \E size \in Requests : Write(size)
  BY <1>1, <1>2, <1>5, <1>6, <1>7, <1>8, <1>9, <1>10
<1> QED
  BY <1>4, <1>10 DEF WriterNext

(* A step of a reader leaves the stream as it was.                         *)
LEMMA SameWriter ==
  ASSUME UNCHANGED writerVars
  PROVE  /\ Last' = Last /\ Published' = Published /\ HeadSeq' = HeadSeq
         /\ readIdx' = readIdx /\ seqNum' = seqNum
         /\ \A k : /\ Frame(k)' = Frame(k) /\ SeqAt(k)' = SeqAt(k)
                   /\ IndexAt(k)' = IndexAt(k) /\ Ended(k)' = Ended(k)
                   /\ Payload(k)' = Payload(k)
         /\ \A k, j : StoredByte(k, j)' = StoredByte(k, j)
BY DEF writerVars, shared, Last, Published, HeadSeq, Frame, SeqAt, IndexAt, Ended,
       Payload, StoredByte

(* A message begun keeps its payload.                                      *)
LEMMA StoredStays ==
  ASSUME NEW k, Frame(k)' = Frame(k)
  PROVE  /\ \A j : StoredByte(k, j)' = StoredByte(k, j)
         /\ Payload(k)' = Payload(k) /\ Ended(k)' = Ended(k)
BY DEF StoredByte, Payload, Ended

(* A reader that has fallen behind does not keep up again.                 *)
LEMMA LostStaysLost ==
  ASSUME ReaderInv, [WriterNext]_writerVars, UNCHANGED readerVars,
         NEW r \in Readers, Follows(r),
         KeptUp(r)'
  PROVE  KeptUp(r)
<1>1. PICK k \in Nat \ {0} : rNext[r] = k
  BY DEF ReaderInv, ReadInv, ReaderTypeOK
<1>2. rNext[r] = k /\ rNext'[r] = k /\ synced'[r] = synced[r]
  BY <1>1 DEF readerVars
<1>3. synced[r] /\ (k <= Last' => HeadSeq' - Frame(k)'.seq < SafeWindow)
  BY <1>2 DEF KeptUp
<1>4. WriterInv
  BY DEF ReaderInv
<1>5. /\ Last \in Nat /\ Last' \in Nat /\ Last <= Last'
      /\ HeadSeq \in Nat /\ HeadSeq' \in Nat /\ HeadSeq <= HeadSeq'
      /\ \A l \in 1 .. Last : Frame(l)' = Frame(l)
  BY <1>4, WriterMoves
<1>6. k <= Last => Frame(k)' = Frame(k) /\ Frame(k).seq \in Nat
  BY <1>4, <1>5, FrameType DEF WriterInv
<1>7. k <= Last => HeadSeq - Frame(k).seq < SafeWindow
  BY <1>3, <1>5, <1>6, FramingAssumption DEF SafeWindow
<1> QED
  BY <1>2, <1>3, <1>7 DEF KeptUp

(* No step of the writer takes a reader that keeps up from its place.      *)
LEMMA WriterStepFollows ==
  ASSUME ReaderInv, [WriterNext]_writerVars, UNCHANGED readerVars,
         NEW r \in Readers, Follows(r)
  PROVE  Follows(r)'
<1>0. PICK k \in Nat \ {0} : rNext[r] = k
  BY DEF ReaderInv, ReadInv, ReaderTypeOK
<1>1. /\ WriterInv /\ JoinShape(r) /\ ReadIsIntact(r)
      /\ KeptUp(r) => Placed(r) /\ NotRefused(r)
  BY DEF Follows, ReaderInv
<1>2. /\ UNCHANGED <<rPc, rLocalIndex, rLocalSeqNum, rCap, rSize, rData, ret, rNext, synced>>
      /\ rNext[r] = k /\ rNext'[r] = k
  BY <1>0 DEF readerVars
<1>3. /\ Last \in Nat /\ Last' \in Nat /\ Last <= Last'
      /\ Published \in 0 .. Last /\ Published' \in Nat
      /\ Published <= Published' /\ Last <= Published + 1
      /\ HeadSeq \in Nat /\ HeadSeq' \in Nat /\ HeadSeq <= HeadSeq'
      /\ \A l \in 1 .. Last : Frame(l)' = Frame(l)
      /\ \A l \in 1 .. Published + 1 :
           SeqAt(l)' = SeqAt(l) /\ IndexAt(l)' = IndexAt(l)
  BY <1>1, WriterMoves
<1>4. /\ Last \in Nat /\ Published \in Nat /\ Published' \in Nat
      /\ Published <= Published'
  BY <1>3
<1>5. JoinShape(r)'
  <2>1. synced[r] \/ rPc[r] = "attach" => k <= Published' + 1
    <3>1. synced[r] \/ rPc[r] = "attach" => k <= Published + 1
      BY <1>1, <1>2, Zenon DEF JoinShape
    <3>2. ASSUME NEW p \in Nat, NEW q \in Nat, p <= q
          PROVE  k <= p + 1 => k <= q + 1
      BY <1>0, <3>2
    <3>3. k <= Published + 1 => k <= Published' + 1
      BY <1>4, <3>2
    <3> QED
      BY <3>1, <3>3
  <2>2. rPc[r] = "attach" => IndexAt(k)' = IndexAt(k)
    BY <1>1, <1>2, <1>3 DEF JoinShape
  <2> QED
    BY <1>1, <1>2, <2>1, <2>2 DEF JoinShape
<1>6. ReadIsIntact(r)'
  <2> SUFFICES ASSUME ret[r] = "message", synced[r]
               PROVE  /\ k - 1 \in 1 .. Published' /\ rData[r] = Payload(k - 1)'
    BY <1>2 DEF ReadIsIntact
  <2>1. k - 1 \in 1 .. Published /\ rData[r] = Payload(k - 1)
    BY <1>1, <1>2 DEF ReadIsIntact
  <2>2. Frame(k - 1)' = Frame(k - 1)
    BY <1>3, <2>1
  <2> QED
    BY <1>3, <2>1, <2>2, StoredStays
<1>7. ASSUME KeptUp(r)' PROVE Placed(r)' /\ NotRefused(r)'
  <2>1. synced[r] /\ (k <= Last' => HeadSeq' - Frame(k)'.seq < SafeWindow)
    BY <1>2, <1>7 DEF KeptUp
  <2>2. k \in 1 .. Published + 1 /\ SeqAt(k)' = SeqAt(k) /\ IndexAt(k)' = IndexAt(k)
    BY <1>1, <1>2, <1>3, <2>1 DEF JoinShape
  <2>3. k <= Last => Frame(k)' = Frame(k)
    BY <1>1, <1>3
  <2>4. KeptUp(r)
    BY <1>7, LostStaysLost
  <2>5. k <= Published => /\ k <= Published'
                          /\ Frame(k)' = Frame(k) /\ Ended(k)' = Ended(k)
                          /\ \A j : StoredByte(k, j)' = StoredByte(k, j)
    BY <1>1, <1>3, <2>3, StoredStays
  <2>6. Placed(r) /\ NotRefused(r)
    BY <1>1, <2>4
  <2>7. Placed(r)'
    BY <1>2, <2>2, <2>5, <2>6 DEF Placed, CopiedFrom
  <2>8. NotRefused(r)'
    BY <1>2, <2>5, <2>6 DEF NotRefused
  <2> QED
    BY <2>7, <2>8
<1> QED
  BY <1>5, <1>6, <1>7 DEF Follows

----------------------------------------------------------------------------
(* Readers share nothing: a step of one leaves the others where they are.  *)
LEMMA OthersStay ==
  ASSUME ReaderTypeOK, NEW r \in Readers, NEW q \in Readers \ {r}, ReaderNext(r)
  PROVE  /\ rPc'[q] = rPc[q] /\ rLocalIndex'[q] = rLocalIndex[q]
         /\ rLocalSeqNum'[q] = rLocalSeqNum[q] /\ rCap'[q] = rCap[q]
         /\ rSize'[q] = rSize[q] /\ rData'[q] = rData[q] /\ ret'[q] = ret[q]
         /\ rNext'[q] = rNext[q] /\ synced'[q] = synced[q]
<1>1. CASE AttachIndex(r) \/ AttachSeqNum(r) \/ \E cap \in Caps : Read(r, cap)
  BY <1>1 DEF ReaderTypeOK, AttachIndex, AttachSeqNum, Read
<1>2. CASE PollEmpty(r) \/ PollData(r) \/ CheckLag(r) \/ Recheck(r)
  BY <1>2 DEF ReaderTypeOK, PollEmpty, PollData, CheckLag, Recheck, Return
<1>3. CASE \E size \in Size \cup {MaxMessageSize + 1} : ReadHeader(r, size)
  BY <1>3 DEF ReaderTypeOK, ReadHeader, Return
<1>4. CASE ReadBody(r) \/ ReadRest(r)
  BY <1>4 DEF ReaderTypeOK, ReadBody, ReadRest
<1> QED
  BY <1>1, <1>2, <1>3, <1>4 DEF ReaderNext, ReadInProgress

(* A reader that does not move stays at its place while the log stands.    *)
LEMMA PlaceStands ==
  ASSUME UNCHANGED <<wPc, wLocalIndex, log>>, NEW q \in Readers, Follows(q),
         rPc'[q] = rPc[q], rLocalIndex'[q] = rLocalIndex[q],
         rLocalSeqNum'[q] = rLocalSeqNum[q], rCap'[q] = rCap[q], rSize'[q] = rSize[q],
         rData'[q] = rData[q], ret'[q] = ret[q], rNext'[q] = rNext[q], synced'[q] = synced[q]
  PROVE  Follows(q)'
<1>1. /\ Last' = Last /\ Published' = Published /\ HeadSeq' = HeadSeq
      /\ \A k : /\ Frame(k)' = Frame(k) /\ SeqAt(k)' = SeqAt(k)
                /\ IndexAt(k)' = IndexAt(k) /\ Ended(k)' = Ended(k)
                /\ Payload(k)' = Payload(k)
                /\ \A j : StoredByte(k, j)' = StoredByte(k, j)
  BY DEF Last, Published, HeadSeq, Frame, Ended, SeqAt, IndexAt, Payload, StoredByte
<1>2. /\ JoinShape(q)' <=> JoinShape(q)
      /\ ReadIsIntact(q)' <=> ReadIsIntact(q)
  BY <1>1 DEF JoinShape, ReadIsIntact
<1>3. KeptUp(q)' <=> KeptUp(q)
  BY <1>1 DEF KeptUp
<1>4. /\ Placed(q)' <=> Placed(q)
      /\ NotRefused(q)' <=> NotRefused(q)
  BY <1>1 DEF Placed, CopiedFrom, NotRefused
<1> QED
  BY <1>2, <1>3, <1>4 DEF Follows

(* A reader that does not move stays where it is in the stream.            *)
LEMMA OthersFollow ==
  ASSUME ReadInv, UNCHANGED writerVars, NEW r \in Readers, ReaderNext(r),
         NEW q \in Readers \ {r}, Follows(q)
  PROVE  Follows(q)'
BY OthersStay, PlaceStands DEF ReadInv, writerVars

(* A step of Read up to its last: what has to be shown of it.              *)
LEMMA ReadStepFollows ==
  ASSUME UNCHANGED writerVars, NEW r \in Readers, Follows(r),
         synced'[r] = synced[r], rNext'[r] = rNext[r],
         rPc[r] \notin {"closed", "attach"}, rPc'[r] \notin {"closed", "attach"},
         rPc'[r] # "idle" => ret'[r] = "none",
         ret'[r] # "message",
         KeptUp(r) => Placed(r)' /\ NotRefused(r)'
  PROVE  Follows(r)'
<1>1. JoinShape(r)
  BY DEF Follows
<1>2. JoinShape(r)'
  BY <1>1, SameWriter DEF JoinShape
<1>3. ReadIsIntact(r)'
  BY DEF ReadIsIntact
<1>4. KeptUp(r)' => KeptUp(r)
  BY SameWriter DEF KeptUp
<1> QED
  BY <1>2, <1>3, <1>4 DEF Follows

(* The constructor finds the end of the stream.                            *)
LEMMA AttachFollows ==
  ASSUME ReadInv, readIdx = IndexAt(Published + 1), UNCHANGED writerVars, NEW r \in Readers, Follows(r),
         AttachIndex(r) \/ AttachSeqNum(r)
  PROVE  Follows(r)'
<1>1. WriterTypeOK /\ ReaderTypeOK /\ JoinShape(r)
  BY DEF ReadInv, ReaderTypeOK, Follows
<1>2. CASE AttachIndex(r)
  <2>1. /\ rPc'[r] = "attach" /\ rNext'[r] = Published + 1 /\ rLocalIndex'[r] = readIdx
        /\ synced'[r] = synced[r] /\ ret'[r] = ret[r] /\ rPc[r] = "closed"
    BY <1>1, <1>2 DEF AttachIndex, ReaderTypeOK
  <2>2. ~synced'[r] /\ ret'[r] = "none"
    BY <1>1, <2>1 DEF JoinShape
  <2>3. IndexAt(Published + 1)' = readIdx
    BY SameWriter
  <2>4. Published' = Published /\ Published + 1 <= Published + 1
    BY <1>1, SameWriter DEF WriterTypeOK, Published, Last
  <2>5. JoinShape(r)'
    BY <2>1, <2>2, <2>3, <2>4 DEF JoinShape
  <2> QED
    BY <2>2, <2>5 DEF Follows, ReadIsIntact, KeptUp
<1>3. CASE AttachSeqNum(r)
  <2>1. PICK k \in Nat \ {0} : rNext[r] = k
    BY <1>1 DEF ReaderTypeOK
  <2>2. /\ rPc'[r] = "idle" /\ rNext'[r] = k /\ rLocalIndex'[r] = rLocalIndex[r]
        /\ rLocalSeqNum'[r] = seqNum /\ synced'[r] = (seqNum = SeqAt(k))
        /\ ret'[r] = ret[r] /\ rPc[r] = "attach"
    BY <1>1, <1>3, <2>1 DEF AttachSeqNum, ReaderTypeOK
  <2>3. /\ ret'[r] = "none" /\ k <= Published + 1 /\ rLocalIndex'[r] = IndexAt(k)
    BY <1>1, <2>1, <2>2 DEF JoinShape
  <2>4. JoinShape(r)' /\ ReadIsIntact(r)'
    BY <2>2, <2>3, SameWriter DEF JoinShape, ReadIsIntact
  <2>5. ASSUME KeptUp(r)' PROVE Placed(r)' /\ NotRefused(r)'
    <3>1. rLocalSeqNum'[r] = SeqAt(k)
      BY <2>2, <2>5 DEF KeptUp
    <3> QED
      BY <2>2, <2>3, <3>1, SameWriter DEF Placed, NotRefused
  <2> QED
    BY <2>4, <2>5 DEF Follows
<1> QED
  BY <1>2, <1>3

(* A Read begins where the last one left the reader.                       *)
LEMMA ReadFollows ==
  ASSUME ReadInv, UNCHANGED writerVars, NEW r \in Readers, Follows(r),
         NEW cap \in Caps, Read(r, cap)
  PROVE  Follows(r)'
<1>1. /\ rPc[r] = "idle" /\ rPc'[r] = "poll" /\ ret'[r] = "none"
      /\ rNext'[r] = rNext[r] /\ synced'[r] = synced[r]
      /\ rLocalIndex'[r] = rLocalIndex[r] /\ rLocalSeqNum'[r] = rLocalSeqNum[r]
  BY DEF Read, ReadInv, ReaderTypeOK
<1>2. ASSUME KeptUp(r) PROVE Placed(r)' /\ NotRefused(r)'
  <2>1. Placed(r)
    BY <1>2 DEF Follows
  <2> QED
    BY <1>1, <2>1, SameWriter DEF Placed, NotRefused
<1> QED
  BY <1>1, <1>2, ReadStepFollows

(***************************************************************************)
(* readIdx tells a reader that keeps up whether its next message is        *)
(* released: it is equal to the reader's index exactly when it is not.     *)
(***************************************************************************)
LEMMA PollTells ==
  ASSUME ReaderInv, NEW r \in Readers, Follows(r), KeptUp(r), rPc[r] = "poll"
  PROVE  /\ rNext[r] \in 1 .. Published + 1
         /\ rLocalIndex[r] = readIdx <=> rNext[r] > Published
<1>1. PICK k \in Nat \ {0} : rNext[r] = k
  BY DEF ReaderInv, ReadInv, ReaderTypeOK
<1>2. WriterInv /\ JoinShape(r) /\ Placed(r)
  BY DEF ReaderInv, Follows
<1>3. synced[r] /\ (k <= Last => HeadSeq - Frame(k).seq < SafeWindow)
  BY <1>1 DEF KeptUp
<1>4. k <= Published + 1
  BY <1>1, <1>2, <1>3 DEF JoinShape
<1>5. Last \in Nat /\ Published \in Nat /\ Published <= Last
  BY <1>2 DEF WriterInv, WriterTypeOK, Last, Published
<1>6. \/ rLocalIndex[r] = IndexAt(k)
      \/ k <= Published /\ rLocalIndex[r] = FrameStart(Frame(k).idx)
  BY <1>1, <1>2 DEF Placed
<1>7. CASE k <= Published
  <2>1. k \in 1 .. Published /\ k <= Last
    BY <1>5, <1>7
  <2>2. readIdx # Frame(k).idx /\ readIdx # FrameStart(Frame(k).idx)
    BY <1>2, <1>3, <2>1, LimitIsElsewhere
  <2>3. rLocalIndex[r] # readIdx
    BY <1>6, <2>1, <2>2 DEF IndexAt
  <2> QED
    BY <1>1, <1>5, <1>7, <2>3
<1>8. CASE k = Published + 1
  <2>1. rLocalIndex[r] = readIdx
    BY <1>2, <1>5, <1>6, <1>8, NextBegins
  <2> QED
    BY <1>1, <1>5, <1>8, <2>1
<1> QED
  BY <1>4, <1>5, <1>7, <1>8

(* A reader that finds readIdx moved has a message to read.                *)
LEMMA PollFollows ==
  ASSUME ReaderInv, UNCHANGED writerVars, NEW r \in Readers, Follows(r),
         PollEmpty(r) \/ PollData(r)
  PROVE  Follows(r)'
<1>1. /\ rPc[r] = "poll" /\ rNext'[r] = rNext[r] /\ synced'[r] = synced[r]
      /\ rLocalIndex'[r] = rLocalIndex[r] /\ rLocalSeqNum'[r] = rLocalSeqNum[r]
      /\ \/ rPc'[r] = "idle" /\ ret'[r] = "empty"
         \/ rPc'[r] = "check" /\ ret'[r] = ret[r] /\ rLocalIndex[r] # readIdx
  BY DEF PollEmpty, PollData, Return, ReadLimit, ReaderInv, ReadInv, ReaderTypeOK
<1>2. ret[r] = "none"
  BY <1>1 DEF Follows, JoinShape
<1>3. ASSUME KeptUp(r) PROVE Placed(r)' /\ NotRefused(r)'
  <2>1. Placed(r)
    BY <1>3 DEF Follows
  <2>2. rPc'[r] = "check" => rNext[r] <= Published
    <3>1. /\ rNext[r] \in 1 .. Published + 1
          /\ rLocalIndex[r] = readIdx <=> rNext[r] > Published
      BY <1>1, <1>3, PollTells
    <3>2. Published \in Nat
      BY DEF ReaderInv, WriterInv, WriterTypeOK, Last, Published
    <3>3. rLocalIndex[r] # readIdx => rNext[r] <= Published
      BY <3>1, <3>2
    <3> QED
      BY <1>1, <3>3
  <2> QED
    BY <1>1, <1>2, <2>1, <2>2, SameWriter DEF Placed, NotRefused
<1> QED
  BY <1>1, <1>2, <1>3, ReadStepFollows

(* The message a reader that keeps up is to return, once released, is in   *)
(* the buffer, whole, and neither check of Read takes it for overwritten.  *)
LEMMA KeptMessage ==
  ASSUME ReaderInv, NEW r \in Readers, Follows(r), KeptUp(r),
         NEW k \in Nat \ {0}, rNext[r] = k, k <= Published
  PROVE  /\ k \in 1 .. Published /\ k \in 1 .. Last /\ Intact(k)
         /\ Frame(k).size \in Size /\ Frame(k).idx \in Index
         /\ ~Overwritten(Frame(k).seq) /\ ~Overwritten(Ended(k))
<1>1. WriterInv /\ Last \in Nat /\ Published \in Nat /\ Published <= Last
  BY DEF ReaderInv, WriterInv, WriterTypeOK, Last, Published
<1>2. k \in 1 .. Published /\ k \in 1 .. Last /\ k <= Last
  BY <1>1
<1>3. HeadSeq - Frame(k).seq < SafeWindow
  BY <1>2 DEF KeptUp
<1>4. /\ Frame(k).seq \in Nat /\ Ended(k) \in Nat /\ Frame(k).seq <= Ended(k)
      /\ Ended(k) <= seqNum /\ seqNum \in Nat /\ seqNum <= HeadSeq /\ HeadSeq \in Nat
  <2>1. k \in 1 .. k /\ Frame(k).seq + HeaderSize <= Ended(k)
    BY <1>1, <1>2, CountsGrow
  <2> QED
    BY <1>1, <1>2, <2>1, SeqNumCounts, CountsGrow, FramingAssumption
<1>5. Intact(k)
  <2>1. InWindow(k)
    BY <1>3, <1>4, FramingAssumption DEF InWindow, SafeWindow
  <2> QED
    BY <1>1, <1>2, <2>1, InvKeepsWindow DEF WindowIntact
<1>6. ~Overwritten(Frame(k).seq) /\ ~Overwritten(Ended(k))
  BY <1>3, <1>4, FramingAssumption DEF Overwritten, Lag, SafeWindow
<1> QED
  BY <1>1, <1>2, <1>5, <1>6, FrameType DEF WriterInv

(* A reader that keeps up is not told that it was overwritten.             *)
LEMMA CheckLagFollows ==
  ASSUME ReaderInv, UNCHANGED writerVars, NEW r \in Readers, Follows(r), CheckLag(r)
  PROVE  Follows(r)'
<1>1. PICK k \in Nat \ {0} : rNext[r] = k
  BY DEF ReaderInv, ReadInv, ReaderTypeOK
<1>2. /\ rPc[r] = "check" /\ rNext'[r] = rNext[r] /\ synced'[r] = synced[r]
      /\ rLocalIndex'[r] = rLocalIndex[r] /\ rLocalSeqNum'[r] = rLocalSeqNum[r]
      /\ IF Overwritten(rLocalSeqNum[r]) THEN rPc'[r] = "idle" /\ ret'[r] = "overwritten"
         ELSE rPc'[r] = "header" /\ ret'[r] = ret[r]
  BY DEF CheckLag, Return, ReaderInv, ReadInv, ReaderTypeOK
<1>3. ret[r] = "none"
  BY <1>2 DEF Follows, JoinShape
<1>4. ASSUME KeptUp(r) PROVE Placed(r)' /\ NotRefused(r)'
  <2>1. Placed(r)
    BY <1>4 DEF Follows
  <2>2. k <= Published /\ rLocalSeqNum[r] = SeqAt(k)
    BY <1>1, <1>2, <2>1 DEF Placed
  <2>3. ~Overwritten(Frame(k).seq) /\ k \in 1 .. Last
    BY <1>1, <1>4, <2>2, KeptMessage
  <2>4. ~Overwritten(rLocalSeqNum[r])
    BY <2>2, <2>3 DEF SeqAt
  <2> QED
    BY <1>2, <1>3, <2>1, <2>4, SameWriter DEF Placed, NotRefused
<1> QED
  BY <1>2, <1>3, <1>4, ReadStepFollows

(* A reader that keeps up reads the header of its next message.            *)
LEMMA ReadHeaderFollows ==
  ASSUME ReaderInv, UNCHANGED writerVars, NEW r \in Readers, Follows(r),
         NEW size \in Size \cup {MaxMessageSize + 1}, ReadHeader(r, size)
  PROVE  Follows(r)'
<1>1. PICK k \in Nat \ {0} : rNext[r] = k
  BY DEF ReaderInv, ReadInv, ReaderTypeOK
<1>2. /\ rPc[r] = "header" /\ rNext'[r] = rNext[r] /\ synced'[r] = synced[r]
      /\ rLocalIndex'[r] = FrameStart(rLocalIndex[r])
      /\ rLocalSeqNum'[r] = rLocalSeqNum[r] /\ rCap'[r] = rCap[r]
      /\ size \in HeaderReadsAs(FrameStart(rLocalIndex[r]))
      /\ IF Acceptable(r, size) THEN rPc'[r] = "body" /\ ret'[r] = ret[r] /\ rSize'[r] = size
         ELSE rPc'[r] = "idle" /\ ret'[r] = "error"
  BY DEF ReadHeader, Return, ReaderInv, ReadInv, ReaderTypeOK
<1>3. ret[r] = "none"
  BY <1>2 DEF Follows, JoinShape
<1>4. ASSUME KeptUp(r) PROVE Placed(r)' /\ NotRefused(r)'
  <2>1. Placed(r) /\ WriterInv /\ rCap[r] \in Nat
    <3>1. Placed(r) /\ WriterInv
      BY <1>4 DEF Follows, ReaderInv
    <3>2. rCap[r] \in Caps \cup {0}
      BY DEF ReaderInv, ReadInv, ReaderTypeOK
    <3>3. rCap[r] \in Caps => rCap[r] \in Nat
      BY ReaderAssumption, Zenon
    <3>4. rCap[r] = 0 => rCap[r] \in Nat
      OBVIOUS
    <3> QED
      BY <3>1, <3>2, <3>3, <3>4, Zenon
  <2>2. /\ k <= Published /\ rLocalSeqNum[r] = SeqAt(k)
        /\ rLocalIndex[r] = IndexAt(k) \/ rLocalIndex[r] = FrameStart(Frame(k).idx)
    BY <1>1, <1>2, <2>1 DEF Placed
  <2>3. /\ k \in 1 .. Published /\ k \in 1 .. Last /\ Intact(k)
        /\ Frame(k).size \in Size /\ Frame(k).idx \in Index
    BY <1>1, <1>4, <2>2, KeptMessage
  <2>4. /\ rLocalSeqNum[r] = Frame(k).seq
        /\ FrameStart(rLocalIndex[r]) = FrameStart(Frame(k).idx)
    <3>1. k <= Last
      BY <2>3
    <3>2. FrameStart(FrameStart(Frame(k).idx)) = FrameStart(Frame(k).idx)
      BY <2>3, FrameStartInBounds DEF FrameStart
    <3> QED
      BY <2>2, <3>1, <3>2 DEF SeqAt, IndexAt
  <2>5. size = Frame(k).size
    BY <1>2, <2>1, <2>3, <2>4, HeaderIsRead
  <2>6. size <= MaxMessageSize /\ (~Acceptable(r, size) => Frame(k).size > rCap[r])
    BY <2>1, <2>3, <2>5, FramingAssumption DEF Acceptable, Size
  <2>7. Placed(r)'
    BY <1>1, <1>2, <2>2, <2>4, <2>5, SameWriter DEF Placed
  <2>8. NotRefused(r)'
    BY <1>1, <1>2, <1>3, <2>2, <2>6, SameWriter DEF NotRefused
  <2> QED
    BY <2>7, <2>8
<1> QED
  BY <1>2, <1>3, <1>4, ReadStepFollows

(* The payload is copied from behind the header, or the part of it that    *)
(* lies before the end of the buffer.                                      *)
LEMMA ReadBodyFollows ==
  ASSUME ReaderInv, UNCHANGED writerVars, NEW r \in Readers, Follows(r), ReadBody(r)
  PROVE  Follows(r)'
<1> DEFINE i    == rLocalIndex[r]
           fits == Fits(i, rSize[r])
           n    == IF fits THEN rSize[r] ELSE FirstPart(i)
<1>1. PICK k \in Nat \ {0} : rNext[r] = k
  BY DEF ReaderInv, ReadInv, ReaderTypeOK
<1>2. /\ rPc[r] = "body" /\ rNext'[r] = rNext[r] /\ synced'[r] = synced[r]
      /\ ret'[r] = ret[r] /\ rSize'[r] = rSize[r]
      /\ rPc'[r] = IF fits THEN "recheck" ELSE "rest"
      /\ rData'[r] = BytesAt(i + HeaderSize, n)
      /\ fits => /\ rLocalIndex'[r] = i + FrameLen(rSize[r])
                 /\ rLocalSeqNum'[r] = rLocalSeqNum[r] + FrameLen(rSize[r])
      /\ ~fits => rLocalSeqNum'[r] = rLocalSeqNum[r]
  BY DEF ReadBody, SeqAfterRead, ReaderInv, ReadInv, ReaderTypeOK
<1>3. ret[r] = "none"
  BY <1>2 DEF Follows, JoinShape
<1>4. ASSUME KeptUp(r) PROVE Placed(r)' /\ NotRefused(r)'
  <2> DEFINE f == Frame(k)
  <2>1. Placed(r) /\ WriterInv
    BY <1>4 DEF Follows, ReaderInv
  <2>2. /\ k <= Published /\ rSize[r] = f.size /\ rLocalSeqNum[r] = f.seq
        /\ i = FrameStart(f.idx)
    BY <1>1, <1>2, <2>1 DEF Placed
  <2>3. /\ k \in 1 .. Published /\ k \in 1 .. Last /\ Intact(k)
        /\ f.size \in Size /\ f.idx \in Index
    BY <1>1, <1>4, <2>2, KeptMessage
  <2>4. /\ fits <=> ~Split(f.idx, f.size)
        /\ fits => i + FrameLen(f.size) = WriterAdvance(f.idx, f.size)
        /\ ~fits => i = f.idx /\ n = FirstPart(f.idx) /\ n \in Nat
        /\ fits => n = f.size /\ n \in Nat
    <3>1. FrameStart(f.idx) = IF HeaderFits(f.idx) THEN f.idx ELSE 0
      BY DEF FrameStart
    <3>2. FrameStart(f.idx) \in Index
      BY <2>3, FrameStartInBounds
    <3>3. /\ Fits(FrameStart(f.idx), f.size) <=> ~Split(f.idx, f.size)
          /\ Split(f.idx, f.size) => FrameStart(f.idx) = f.idx /\ FirstPart(f.idx) \in Nat
      <4> HIDE DEF f
      <4> QED
        BY <2>3, <3>1, FramingAssumption
        DEF Fits, Split, HeaderFits, SpaceToEnd, FrameLen, FirstPart, Index, Size
    <3>4. ~Split(f.idx, f.size) =>
            FrameStart(f.idx) + FrameLen(f.size) = WriterAdvance(f.idx, f.size)
      <4>1. CASE HeaderFits(f.idx) /\ Fits(f.idx, f.size)
        BY <2>3, <3>1, <4>1, AdvanceCases
      <4>2. CASE ~HeaderFits(f.idx)
        BY <2>3, <3>1, <4>2, AdvanceCases, FramingAssumption DEF FrameLen, Size
      <4> QED
        BY <4>1, <4>2 DEF Split
    <3> QED
      BY <2>2, <2>3, <3>3, <3>4 DEF Size
  <2>5. CopiedFrom(r, k)' /\ Len(rData'[r]) = n
    <3>1. Len(rData'[r]) = n /\ \A o \in 1 .. n : rData'[r][o] = cell[(i + HeaderSize) + o - 1]
      <4>1. n \in Nat
        BY <2>4
      <4> HIDE DEF n, i
      <4> QED
        BY <1>2, <4>1 DEF BytesAt
    <3>2. \A o \in 1 .. n : cell[(i + HeaderSize) + o - 1] = StoredByte(k, HeaderSize + o - 1)
      <4> HIDE DEF n, i, fits
      <4> QED
        BY <2>1, <2>2, <2>3, <2>4, PayloadIsRead
    <3> HIDE DEF n, i
    <3> QED
      BY <3>1, <3>2, SameWriter DEF CopiedFrom
  <2>6. rLocalSeqNum[r] + FrameLen(rSize[r]) = Ended(k)
    BY <2>2 DEF Ended
  <2> HIDE DEF n, i, fits
  <2>7. Placed(r)'
    BY <1>1, <1>2, <2>2, <2>4, <2>5, <2>6, SameWriter DEF Placed
  <2>8. NotRefused(r)'
    BY <1>2, <1>3 DEF NotRefused
  <2> QED
    BY <2>7, <2>8
<1> QED
  BY <1>2, <1>3, <1>4, ReadStepFollows

(* The rest of a split payload is copied from the beginning of the buffer. *)
LEMMA ReadRestFollows ==
  ASSUME ReaderInv, UNCHANGED writerVars, NEW r \in Readers, Follows(r), ReadRest(r)
  PROVE  Follows(r)'
<1> DEFINE had == rData[r]
           n   == rSize[r] - Len(had)
           got == BytesAt(0, n)
<1>1. PICK k \in Nat \ {0} : rNext[r] = k
  BY DEF ReaderInv, ReadInv, ReaderTypeOK
<1>2. /\ rLocalIndex[r] = 0 /\ had \in Seq(Byte) /\ Len(had) \in Nat
      /\ rSize[r] \in Size /\ Len(had) < rSize[r] /\ WriterTypeOK
  BY DEF ReadRest, ReaderInv, ReadInv, ReaderTypeOK, ReadShape
<1>3. /\ rPc[r] = "rest" /\ rNext'[r] = rNext[r] /\ synced'[r] = synced[r]
      /\ ret'[r] = ret[r] /\ rSize'[r] = rSize[r] /\ rPc'[r] = "recheck"
      /\ rData'[r] = had \o got /\ rLocalIndex'[r] = 0 + n
      /\ rLocalSeqNum'[r] = rLocalSeqNum[r] + FrameLen(rSize[r])
  BY <1>2 DEF ReadRest, SeqAfterRead, BytesLeft, ReaderInv, ReadInv, ReaderTypeOK
<1>4. ret[r] = "none"
  BY <1>3 DEF Follows, JoinShape
<1>5. ASSUME KeptUp(r) PROVE Placed(r)' /\ NotRefused(r)'
  <2> DEFINE f == Frame(k)
             first == FirstPart(f.idx)
  <2>1. Placed(r) /\ WriterInv
    BY <1>5 DEF Follows, ReaderInv
  <2>2. /\ k <= Published /\ rSize[r] = f.size /\ rLocalSeqNum[r] = f.seq
        /\ Split(f.idx, f.size) /\ Len(had) = first /\ CopiedFrom(r, k)
    BY <1>1, <1>3, <2>1 DEF Placed
  <2>3. /\ k \in 1 .. Published /\ k \in 1 .. Last /\ Intact(k)
        /\ f.size \in Size /\ f.idx \in Index
    BY <1>1, <1>5, <2>2, KeptMessage
  <2>4. /\ n = f.size - first /\ n \in Nat /\ first \in Nat /\ f.size \in Nat
        /\ n = WriterAdvance(f.idx, f.size) /\ n <= BufferSize
    <3>1. n = f.size - first /\ first \in Nat /\ f.size \in Nat /\ n \in Nat
      BY <1>2, <2>2, FramingAssumption DEF Size
    <3>2. WriterAdvance(f.idx, f.size) = f.idx + FrameLen(f.size) - BufferSize
      BY <2>2, <2>3, AdvanceCases
    <3>3. f.size - first = f.idx + FrameLen(f.size) - BufferSize /\ f.size <= BufferSize
      BY <2>3, FramingAssumption DEF FirstPart, SpaceToEnd, FrameLen, Index, Size
    <3> HIDE DEF n, first
    <3> QED
      BY <3>1, <3>2, <3>3, FramingAssumption
  <2>5. got \in Seq(Byte) /\ Len(got) = n /\ \A o \in 1 .. n : got[o] = cell[o - 1]
    <3>1. 0 + n <= BufferSize
      BY <2>4
    <3> HIDE DEF n
    <3>2. got \in Seq(Byte) /\ Len(got) = n
      BY <1>2, <2>4, <3>1, BytesAtType
    <3>3. ASSUME NEW o \in 1 .. n PROVE got[o] = cell[o - 1]
      <4>1. 0 + o - 1 = o - 1
        BY <2>4
      <4> QED
        BY <4>1 DEF BytesAt
    <3> QED
      BY <3>2, <3>3
  <2> HIDE DEF got, n, had, first
  <2>6. Len(had \o got) = f.size /\ \A o \in 1 .. f.size :
          (had \o got)[o] = IF o <= first THEN had[o] ELSE got[o - first]
    BY <1>2, <2>2, <2>4, <2>5
  <2>7. ASSUME NEW o \in 1 .. f.size
        PROVE  (had \o got)[o] = StoredByte(k, HeaderSize + o - 1)
    <3>1. CASE o <= first
      <4>1. o \in 1 .. Len(rData[r])
        BY <2>2, <2>4, <3>1 DEF had
      <4> QED
        BY <2>2, <2>6, <3>1, <4>1 DEF CopiedFrom, had
    <3>2. CASE o > first
      <4>1. PICK p \in 1 .. n : o - first = p
        BY <2>4, <3>2
      <4>2. HeaderSize + first + p - 1 = HeaderSize + o - 1 /\ ~(o <= first)
        BY <2>4, <3>2, <4>1, FramingAssumption
      <4>3. cell[p - 1] = StoredByte(k, HeaderSize + first + p - 1)
        BY <2>1, <2>2, <2>3, <2>4, PayloadIsRead DEF first
      <4>4. (had \o got)[o] = got[p] /\ got[p] = cell[p - 1]
        BY <2>5, <2>6, <4>1, <4>2
      <4> QED
        BY <4>2, <4>3, <4>4, Zenon
    <3>3. o <= first \/ o > first
      BY <2>4
    <3> QED
      BY <3>1, <3>2, <3>3, Zenon
  <2>8. CopiedFrom(r, k)'
    BY <1>3, <2>6, <2>7, SameWriter DEF CopiedFrom
  <2>9. rLocalSeqNum[r] + FrameLen(rSize[r]) = Ended(k) /\ 0 + n = n
    BY <2>2, <2>4 DEF Ended
  <2>10. Placed(r)'
    BY <1>1, <1>3, <2>2, <2>4, <2>8, <2>9, SameWriter DEF Placed
  <2>11. NotRefused(r)'
    BY <1>3, <1>4 DEF NotRefused
  <2> QED
    BY <2>10, <2>11
<1> QED
  BY <1>3, <1>4, <1>5, ReadStepFollows

(* The last check: a reader that keeps up returns the message, and stands  *)
(* at the next one; one that does not is followed no more.                 *)
LEMMA RecheckFollows ==
  ASSUME ReaderInv, UNCHANGED writerVars, NEW r \in Readers, Follows(r), Recheck(r)
  PROVE  Follows(r)'
<1>1. PICK k \in Nat \ {0} : rNext[r] = k
  BY DEF ReaderInv, ReadInv, ReaderTypeOK
<1>2. /\ rPc[r] = "recheck" /\ rPc'[r] = "idle"
      /\ rLocalIndex'[r] = rLocalIndex[r] /\ rLocalSeqNum'[r] = rLocalSeqNum[r]
      /\ rData'[r] = rData[r]
      /\ ret'[r] = IF Overwritten(rLocalSeqNum[r]) THEN "overwritten" ELSE "message"
  BY DEF Recheck, Return, ReaderInv, ReadInv, ReaderTypeOK
<1>3. /\ synced'[r] = KeptUp(r)
      /\ rNext'[r] = IF KeptUp(r) THEN k + 1 ELSE k
  BY <1>1 DEF Recheck, ReaderInv, ReadInv, ReaderTypeOK
<1>4. WriterInv /\ Published \in Nat
  BY DEF ReaderInv, WriterInv, WriterTypeOK, Last, Published
<1>5. CASE ~KeptUp(r)
  <2>1. ~synced'[r]
    BY <1>3, <1>5
  <2> QED
    BY <1>2, <2>1 DEF Follows, JoinShape, ReadIsIntact, KeptUp
<1>6. CASE KeptUp(r)
  <2> DEFINE f == Frame(k)
  <2>1. Placed(r) /\ ReadShape(r) /\ rData[r] \in Seq(Byte)
    BY <1>6 DEF Follows, ReaderInv, ReadInv, ReaderTypeOK
  <2>2. /\ k <= Published /\ rSize[r] = f.size /\ rLocalSeqNum[r] = Ended(k)
        /\ rLocalIndex[r] = WriterAdvance(f.idx, f.size)
        /\ CopiedFrom(r, k) /\ Len(rData[r]) = f.size
    BY <1>1, <1>2, <2>1 DEF Placed, ReadShape
  <2>3. k \in 1 .. Published /\ k \in 1 .. Last /\ ~Overwritten(Ended(k))
    BY <1>1, <1>6, <2>2, KeptMessage
  <2>4. synced'[r] /\ rNext'[r] = k + 1 /\ ret'[r] = "message"
    BY <1>2, <1>3, <1>6, <2>2, <2>3
  <2>5. rData[r] = Payload(k)
    <3>1. /\ DOMAIN rData[r] = 1 .. f.size /\ rData[r] = [o \in DOMAIN rData[r] |-> rData[r][o]]
      BY <2>1, <2>2
    <3>2. \A o \in 1 .. f.size : rData[r][o] = StoredByte(k, HeaderSize + o - 1)
      BY <2>2 DEF CopiedFrom
    <3> QED
      BY <3>1, <3>2 DEF Payload
  <2>6. k + 1 <= Published + 1 /\ (k + 1) - 1 = k
    BY <1>4, <2>3
  <2>7. JoinShape(r)'
    BY <1>2, <2>4, <2>6, SameWriter DEF JoinShape
  <2>8. ReadIsIntact(r)'
    BY <1>2, <2>3, <2>4, <2>5, <2>6, SameWriter DEF ReadIsIntact
  <2>9. IndexAt(k + 1) = WriterAdvance(f.idx, f.size) /\ SeqAt(k + 1) = Ended(k)
    BY <1>4, <2>3, NextBegins
  <2>10. Placed(r)' /\ NotRefused(r)'
    BY <1>2, <2>2, <2>4, <2>9, SameWriter DEF Placed, NotRefused
  <2> QED
    BY <2>7, <2>8, <2>10 DEF Follows
<1> QED
  BY <1>5, <1>6

(* A reader that is at its place stays there, whatever it does. *)
LEMMA ReaderStepFollows ==
  ASSUME ReaderInv, UNCHANGED writerVars, NEW r \in Readers, Follows(r), ReaderNext(r)
  PROVE  Follows(r)'
<1>1. ReadInv /\ readIdx = IndexAt(Published + 1)
  BY NextBegins DEF ReaderInv
<1> QED
  BY <1>1, AttachFollows, ReadFollows, PollFollows, CheckLagFollows, ReadHeaderFollows,
     ReadBodyFollows, ReadRestFollows, RecheckFollows DEF ReaderNext, ReadInProgress

----------------------------------------------------------------------------
(* Readers that are not attached follow nothing.                           *)
LEMMA InitEstablishesFollowInv == Init => FollowInv
<1> SUFFICES ASSUME Init PROVE FollowInv
  OBVIOUS
<1>1. ReaderInv
  BY InitEstablishesReaderInv
<1>2. ASSUME NEW r \in Readers PROVE Follows(r)
  BY DEF Init, ReaderInit, Follows, JoinShape, ReadIsIntact, KeptUp
<1> QED
  BY <1>1, <1>2 DEF FollowInv

(* No step of the writer or of a reader leaves the invariant.              *)
LEMMA NextPreservesFollowInv == FollowInv /\ [Next]_vars => FollowInv'
<1> SUFFICES ASSUME FollowInv, [Next]_vars PROVE FollowInv'
  OBVIOUS
<1>1. ReaderInv /\ ReaderInv' /\ \A r \in Readers : Follows(r)
  BY NextPreservesReaderInv DEF FollowInv
<1>2. ASSUME NEW r \in Readers, UNCHANGED readerVars PROVE Follows(r)'
  BY <1>1, <1>2, WriterStepFollows, NextIsWriterStep
<1>3. ASSUME NEW r \in Readers, ReaderNext(r), UNCHANGED writerVars,
             NEW q \in Readers
      PROVE  Follows(q)'
  <2>1. CASE q = r
    BY <1>1, <1>3, <2>1, ReaderStepFollows
  <2>2. CASE q # r
    BY <1>1, <1>3, <2>2, OthersFollow DEF ReaderInv
  <2> QED
    BY <2>1, <2>2
<1>4. \A r \in Readers : Follows(r)'
  BY <1>2, <1>3 DEF Next, vars
<1> QED
  BY <1>1, <1>4 DEF FollowInv

(***************************************************************************)
(* Along every interleaving of Write and the Reads, a reader that keeps up *)
(* is at its place in the stream, at each step of a Read.                  *)
(***************************************************************************)
THEOREM FollowInvariance == Spec => []FollowInv
BY InitEstablishesFollowInv, NextPreservesFollowInv, PTL DEF Spec

(* At its place a reader is in step with the writer. *)
LEMMA FollowerInStep ==
  ASSUME ReaderInv, NEW r \in Readers, Follows(r), KeptUp(r)
  PROVE  InStep(r)
<1>1. PICK k \in Nat \ {0} : rNext[r] = k
  BY DEF ReaderInv, ReadInv, ReaderTypeOK
<1>2. Placed(r) /\ NotRefused(r)
  BY DEF Follows
<1>3. ASSUME rPc[r] \in {"idle", "poll", "check", "header", "body"}
      PROVE  /\ rLocalSeqNum[r] = SeqAt(k)
             /\ FrameStart(rLocalIndex[r]) = FrameStart(IndexAt(k))
  <2>1. CASE k <= Published
    <3>1. k <= Last /\ Frame(k).idx \in Index
      BY <1>1, <2>1, KeptMessage
    <3>2. FrameStart(FrameStart(Frame(k).idx)) = FrameStart(Frame(k).idx)
      BY <3>1, FrameStartInBounds DEF FrameStart
    <3> QED
      BY <1>1, <1>2, <1>3, <3>1, <3>2 DEF Placed, SeqAt, IndexAt
  <2>2. CASE ~(k <= Published)
    BY <1>1, <1>2, <1>3, <2>2 DEF Placed
  <2> QED
    BY <2>1, <2>2
<1> QED
  BY <1>1, <1>2, <1>3 DEF InStep, IndexAt

(***************************************************************************)
(* A reader that keeps up gets the messages whole, in order, none missed   *)
(* and none twice, and is refused only one its buffer is too small for.    *)
(***************************************************************************)
THEOREM KeptUpReadersAreServed == Spec => []KeptUpReaderIsServed
<1>1. FollowInv => KeptUpReaderIsServed
  <2> SUFFICES ASSUME FollowInv, NEW r \in Readers
               PROVE  ReadIsIntact(r) /\ (KeptUp(r) => InStep(r) /\ NotRefused(r))
    BY DEF KeptUpReaderIsServed
  <2>1. ReadIsIntact(r)
    BY DEF FollowInv, Follows
  <2>2. KeptUp(r) => InStep(r) /\ NotRefused(r)
    BY FollowerInStep DEF FollowInv, Follows
  <2> QED
    BY <2>1, <2>2
<1> QED
  BY <1>1, FollowInvariance, PTL

(* Read returns 0 to a reader that keeps up only when it has read it all.  *)
THEOREM EmptyOnlyWhenCaughtUp == Spec => EmptyMeansCaughtUp
<1>1. ASSUME FollowInv, [Next]_vars, NEW r \in Readers,
             KeptUp(r), ret[r] = "none", ret'[r] = "empty"
      PROVE  rNext[r] > Published
  <2>1. CASE UNCHANGED readerVars
    BY <1>1, <2>1 DEF readerVars
  <2>2. ASSUME NEW q \in Readers, ReaderNext(q), UNCHANGED writerVars
        PROVE  rNext[r] > Published
    <3>1. ReaderTypeOK
      BY <1>1 DEF FollowInv, ReaderInv, ReadInv
    <3>2. q = r
      BY <1>1, <2>2, <3>1, OthersStay
    <3>3. PollEmpty(r)
      <4>1. CASE AttachIndex(r) \/ AttachSeqNum(r) \/ \E cap \in Caps : Read(r, cap)
        BY <1>1, <3>1, <4>1 DEF ReaderTypeOK, AttachIndex, AttachSeqNum, Read
      <4>2. CASE PollData(r) \/ CheckLag(r) \/ Recheck(r)
        BY <1>1, <3>1, <4>2 DEF ReaderTypeOK, PollData, CheckLag, Recheck, Return
      <4>3. CASE \E size \in Size \cup {MaxMessageSize + 1} : ReadHeader(r, size)
        BY <1>1, <3>1, <4>3 DEF ReaderTypeOK, ReadHeader, Return
      <4>4. CASE ReadBody(r) \/ ReadRest(r)
        BY <1>1, <3>1, <4>4 DEF ReaderTypeOK, ReadBody, ReadRest
      <4> QED
        BY <2>2, <3>2, <4>1, <4>2, <4>3, <4>4 DEF ReaderNext, ReadInProgress
    <3> QED
      BY <1>1, <3>3, PollTells DEF FollowInv, PollEmpty, ReadLimit
  <2> QED
    BY <1>1, <2>1, <2>2 DEF Next, vars
<1>2. FollowInv /\ [Next]_vars =>
        \A r \in Readers :
          KeptUp(r) /\ ret[r] = "none" /\ ret'[r] = "empty" => rNext[r] > Published
  BY <1>1
<1> QED
  BY <1>2, FollowInvariance, PTL DEF Spec, EmptyMeansCaughtUp

----------------------------------------------------------------------------
(* The bytes of a frame, as the copies of Read and Write address them:     *)
(* header, payload, and the rest of a split one.                           *)
LEMMA CellsOfFrame ==
  ASSUME NEW i \in Index, NEW size \in Size, NEW c,
         \/ c \in CellsFrom(FrameStart(i), HeaderSize)
         \/ ~Split(i, size) /\ c \in CellsFrom(FrameStart(i) + HeaderSize, size)
         \/ Split(i, size) /\ c \in CellsFrom(FrameStart(i) + HeaderSize, FirstPart(i))
         \/ Split(i, size) /\ c \in CellsFrom(0, RestPart(i, size))
  PROVE  \E b \in 0 .. FrameLen(size) - 1 : c = FrameCell(i, b)
<1> DEFINE at == FrameStart(i)
<1>1. /\ at = IF HeaderFits(i) THEN i ELSE 0
      /\ at \in Nat /\ at + HeaderSize <= BufferSize /\ i \in Nat /\ i <= BufferSize
      /\ size \in Nat /\ size <= MaxMessageSize /\ FrameLen(size) = HeaderSize + size
      /\ HeaderFits(i) <=> i + HeaderSize <= BufferSize
  BY FramingAssumption DEF FrameStart, HeaderFits, SpaceToEnd, Index, Size, FrameLen
<1>2. Split(i, size) <=> i + HeaderSize <= BufferSize /\ i + HeaderSize + size > BufferSize
  BY <1>1, FramingAssumption DEF Split, Fits, HeaderFits, SpaceToEnd
<1>3. FirstPart(i) = BufferSize - i - HeaderSize
      /\ RestPart(i, size) = HeaderSize + size - (BufferSize - i)
  BY <1>1, FramingAssumption DEF FirstPart, RestPart, SpaceToEnd
<1> HIDE DEF at
<1>4. CASE c \in CellsFrom(at, HeaderSize)
  <2>1. c - at \in 0 .. FrameLen(size) - 1 /\ c = at + (c - at) /\ c < BufferSize
    BY <1>1, <1>4, FramingAssumption DEF CellsFrom
  <2> QED
    BY <2>1 DEF FrameCell, at
<1>5. CASE ~Split(i, size) /\ c \in CellsFrom(at + HeaderSize, size)
  <2>1. c - at \in 0 .. FrameLen(size) - 1 /\ c = at + (c - at) /\ c < BufferSize
    BY <1>1, <1>2, <1>5, FramingAssumption DEF CellsFrom
  <2> QED
    BY <2>1 DEF FrameCell, at
<1>6. CASE Split(i, size) /\ c \in CellsFrom(at + HeaderSize, FirstPart(i))
  <2>1. c - at \in 0 .. FrameLen(size) - 1 /\ c = at + (c - at) /\ c < BufferSize
    BY <1>1, <1>2, <1>3, <1>6, FramingAssumption DEF CellsFrom
  <2> QED
    BY <2>1 DEF FrameCell, at
<1>7. CASE Split(i, size) /\ c \in CellsFrom(0, RestPart(i, size))
  <2> DEFINE b == BufferSize - i + c
  <2>1. /\ b \in 0 .. FrameLen(size) - 1 /\ at + b - BufferSize = c /\ at + b >= BufferSize
        /\ at \in Int /\ b \in Int
    BY <1>1, <1>2, <1>3, <1>7, FramingAssumption DEF CellsFrom
  <2>2. FrameCell(i, b) = c
    <3> HIDE DEF b
    <3> QED
      BY <2>1, FramingAssumption DEF FrameCell, at
  <2> QED
    BY <2>1, <2>2
<1> QED
  BY <1>4, <1>5, <1>6, <1>7 DEF at

(* The writer copies to cells of the frame that it writes.                 *)
LEMMA WriteCellsOfFrame ==
  ASSUME WriterInv, NEW c \in WriteCells
  PROVE  /\ wPc # "idle"
         /\ \E b \in 0 .. FrameLen(Frame(Last).size) - 1 : c = FrameCell(Frame(Last).idx, b)
<1>1. wPc \in {"header", "body", "rest"}
  BY DEF WriteCells
<1>2. Last \in 1 .. Last /\ Frame(Last).size \in Size /\ Frame(Last).idx \in Index
  <2>1. Last \in 1 .. Last
    BY <1>1 DEF WriterInv, WriterTypeOK, Last
  <2> QED
    BY <2>1, FrameType DEF WriterInv
<1>3. /\ wPc \in {"header", "body"} => nextElement = FrameStart(Frame(Last).idx)
      /\ wPc = "rest" => nextElement = 0 /\ Split(Frame(Last).idx, Frame(Last).size)
  BY DEF WriterInv, ProgressInv
<1>4. CASE wPc = "header"
  BY <1>2, <1>3, <1>4, CellsOfFrame DEF WriteCells
<1>5. CASE wPc = "body"
  BY <1>2, <1>3, <1>5, CellsOfFrame DEF WriteCells
<1>6. CASE wPc = "rest"
  BY <1>2, <1>3, <1>6, CellsOfFrame DEF WriteCells
<1> QED
  BY <1>1, <1>4, <1>5, <1>6

(* A reader that keeps up copies cells of the frame it reads.              *)
LEMMA ReadCellsOfFrame ==
  ASSUME ReaderInv, NEW r \in Readers, Follows(r), KeptUp(r), NEW c \in ReadCells(r),
         NEW k \in Nat \ {0}, rNext[r] = k
  PROVE  /\ k <= Published
         /\ \E a \in 0 .. FrameLen(Frame(k).size) - 1 : c = FrameCell(Frame(k).idx, a)
<1> DEFINE f == Frame(k)
<1>1. rPc[r] \in {"header", "body", "rest"}
  BY DEF ReadCells
<1>2. Placed(r) /\ ReadShape(r)
  BY DEF Follows, ReaderInv, ReadInv
<1>3. k <= Published
  BY <1>1, <1>2 DEF Placed
<1>4. k \in 1 .. Last /\ f.size \in Size /\ f.idx \in Index /\ k <= Last
  BY <1>3, KeptMessage
<1>5. /\ FrameStart(FrameStart(f.idx)) = FrameStart(f.idx)
      /\ FrameStart(f.idx) \in Index /\ HeaderFits(FrameStart(f.idx))
  BY <1>4, FrameStartInBounds DEF FrameStart
<1>6. CASE rPc[r] = "header"
  <2>1. FrameStart(rLocalIndex[r]) = FrameStart(f.idx)
    BY <1>2, <1>4, <1>5, <1>6 DEF Placed, IndexAt
  <2> QED
    BY <1>3, <1>4, <1>6, <2>1, CellsOfFrame DEF ReadCells
<1>7. CASE rPc[r] = "body"
  <2>1. rLocalIndex[r] = FrameStart(f.idx) /\ rSize[r] = f.size
    BY <1>2, <1>7 DEF Placed
  <2>2. /\ Fits(FrameStart(f.idx), f.size) <=> ~Split(f.idx, f.size)
        /\ Split(f.idx, f.size) => FrameStart(f.idx) = f.idx
    <3> HIDE DEF f
    <3> QED
      BY <1>4, FramingAssumption
      DEF FrameStart, Fits, Split, HeaderFits, SpaceToEnd, FrameLen, Index, Size
  <2> QED
    BY <1>3, <1>4, <1>7, <2>1, <2>2, CellsOfFrame DEF ReadCells
<1>8. CASE rPc[r] = "rest"
  <2>1. /\ rLocalIndex[r] = 0 /\ rSize[r] = f.size /\ Split(f.idx, f.size)
        /\ Len(rData[r]) = FirstPart(f.idx)
    BY <1>2, <1>8 DEF Placed, ReadShape
  <2>2. f.size - FirstPart(f.idx) = RestPart(f.idx, f.size)
    BY <1>4, FramingAssumption DEF FirstPart, RestPart, SpaceToEnd, FrameLen, Index, Size
  <2> QED
    BY <1>3, <1>4, <1>8, <2>1, <2>2, CellsOfFrame DEF ReadCells, BytesLeft
<1> QED
  BY <1>1, <1>6, <1>7, <1>8

(***************************************************************************)
(* No memcpy of a reader that keeps up overlaps the memcpy the writer is   *)
(* in: the reader is in a released frame, and the writer in the frame      *)
(* begun last, less than one buffer further on the tape.                   *)
(***************************************************************************)
THEOREM KeptUpReadersNeverRace == Spec => []KeptUpReaderNeverRaces
<1>1. FollowInv => KeptUpReaderNeverRaces
  <2> SUFFICES ASSUME FollowInv, NEW r \in Readers, KeptUp(r),
                      NEW c \in ReadCells(r), c \in WriteCells
               PROVE  FALSE
    BY DEF KeptUpReaderNeverRaces
  <2>1. PICK k \in Nat \ {0} : rNext[r] = k
    BY DEF FollowInv, ReaderInv, ReadInv, ReaderTypeOK
  <2>2. WriterInv /\ WriterTypeOK /\ TapeInv
    BY DEF FollowInv, ReaderInv, WriterInv
  <2>3. /\ wPc # "idle"
        /\ \E b \in 0 .. FrameLen(Frame(Last).size) - 1 : c = FrameCell(Frame(Last).idx, b)
    BY <2>2, WriteCellsOfFrame
  <2>4. /\ k <= Published
        /\ \E a \in 0 .. FrameLen(Frame(k).size) - 1 : c = FrameCell(Frame(k).idx, a)
    BY <2>1, ReadCellsOfFrame DEF FollowInv
  <2>5. k \in 1 .. Last - 1 /\ Last \in 1 .. Last /\ k \in 1 .. Last /\ k <= Last
    BY <2>2, <2>3, <2>4 DEF WriterTypeOK, Last, Published
  <2>6. Ended(Last) - Frame(k).seq < SafeWindow
    BY <2>1, <2>5 DEF KeptUp, HeadSeq
  <2>7. EndPos(Last) - Pos(k) < BufferSize
    BY <2>2, <2>5, <2>6, WindowOnTape
  <2>8. EndPos(Last) - Pos(k) <= BufferSize
    BY <2>2, <2>5, <2>7, FrameType, FramingAssumption
  <2> QED
    BY <2>2, <2>3, <2>4, <2>5, <2>8, CellsApart
<1> QED
  BY <1>1, FollowInvariance, PTL
----------------------------------------------------------------------------
(* The message stream. *)

(* The stream's counts, taken from its messages, are those of the frames.  *)
SentIsCounted ==
  /\ Len(SentSoFar) = Last
  /\ Stream!Total(SentSoFar) = HeadSeq
  /\ \A k \in 1 .. Last :
       SentSoFar[k] = [message |-> Payload(k), before |-> Frame(k).seq]

(* The messages sent are those of the log, and what they are counted by.   *)
LEMMA SentCounts == WriterInv => SentIsCounted
<1> SUFFICES ASSUME WriterInv PROVE SentIsCounted
  OBVIOUS
<1>1. Last \in Nat
  BY DEF WriterInv, WriterTypeOK, Last
<1>2. /\ Len(SentSoFar) = Last
      /\ \A k \in 1 .. Last :
           SentSoFar[k] = [message |-> Payload(k), before |-> Frame(k).seq]
  BY <1>1 DEF SentSoFar
<1>3. CASE Last = 0
  BY <1>2, <1>3 DEF SentSoFar, SentIsCounted, Stream!Total, HeadSeq
<1>4. CASE Last # 0
  <2>1. Last \in 1 .. Last /\ SentSoFar # <<>>
    BY <1>1, <1>2, <1>4
  <2>2. Frame(Last).size \in Size /\ Frame(Last).seq \in Nat
    BY <2>1, FrameType DEF WriterInv
  <2>3. Len(Payload(Last)) = Frame(Last).size
    BY <2>2, FramingAssumption DEF Payload, Size
  <2>4. Stream!Total(SentSoFar) = Frame(Last).seq + HeaderSize + Frame(Last).size
    BY <1>2, <2>1, <2>3 DEF Stream!Total
  <2>5. HeadSeq = Frame(Last).seq + (HeaderSize + Frame(Last).size)
    BY <1>4 DEF HeadSeq, Ended, FrameLen
  <2>6. Stream!Total(SentSoFar) = HeadSeq
    BY <2>2, <2>4, <2>5, FramingAssumption DEF Size
  <2> QED
    BY <1>2, <2>6 DEF SentIsCounted
<1> QED
  BY <1>3, <1>4

(* Keeping up is, for the stream, to have joined it and not to be behind.  *)
Standing == \A r \in Readers :
  KeptUp(r) <=> synced[r] /\ ~Stream!Behind(SentSoFar, rNext[r])

(* To keep up in Reader is to keep up with the abstract stream.            *)
LEMMA StandingIs == ReaderInv => Standing
<1> SUFFICES ASSUME ReaderInv, NEW r \in Readers
             PROVE  KeptUp(r) <=> synced[r] /\ ~Stream!Behind(SentSoFar, rNext[r])
  BY DEF Standing
<1>1. PICK k \in Nat \ {0} : rNext[r] = k
  BY DEF ReaderInv, ReadInv, ReaderTypeOK
<1>2. WriterInv /\ SentIsCounted /\ Last \in Nat
  BY SentCounts DEF ReaderInv, WriterInv, WriterTypeOK, Last
<1>3. CASE k <= Last
  <2>1. /\ k \in 1 .. Last /\ k <= Len(SentSoFar)
        /\ Stream!Total(SentSoFar) = HeadSeq /\ SentSoFar[k].before = Frame(k).seq
    BY <1>2, <1>3 DEF SentIsCounted
  <2>2. Stream!Behind(SentSoFar, k) <=> HeadSeq - Frame(k).seq >= SafeWindow
    BY <2>1 DEF Stream!Behind, Stream!Backlog
  <2>3. Last \in 1 .. Last /\ Frame(k).seq \in Nat /\ HeadSeq \in Nat
    <3>1. Last \in 1 .. Last /\ HeadSeq = Ended(Last)
      BY <1>2, <1>3 DEF HeadSeq
    <3> QED
      BY <1>2, <2>1, <3>1, FrameType DEF WriterInv
  <2>4. HeadSeq - Frame(k).seq < SafeWindow <=> ~(HeadSeq - Frame(k).seq >= SafeWindow)
    BY <2>3, FramingAssumption DEF SafeWindow
  <2> QED
    BY <1>1, <1>3, <2>2, <2>4, Zenon DEF KeptUp
<1>4. CASE ~(k <= Last)
  <2>1. ~Stream!Behind(SentSoFar, k)
    BY <1>2, <1>4, FramingAssumption
    DEF SentIsCounted, Stream!Behind, Stream!Backlog, SafeWindow
  <2> QED
    BY <1>1, <1>4, <2>1, Zenon DEF KeptUp
<1> QED
  BY <1>3, <1>4

(* The same of the state after a step. *)
LEMMA CountsAfter == WriterInv' => SentIsCounted'
BY SentCounts, PTL

(* That is so after a step, too.                                           *)
LEMMA StandingAfter == ReaderInv' => Standing'
BY StandingIs, PTL

----------------------------------------------------------------------------
(* Init begins an empty stream. *)
LEMMA InitBeginsStream == Init => Stream!StreamInit
<1> SUFFICES ASSUME Init PROVE Stream!StreamInit
  OBVIOUS
<1>1. Last = 0 /\ SentSoFar = <<>> /\ Published = 0
  BY DEF Init, WriterInit, SentSoFar, Last, Published
<1>2. rNext = [r \in Readers |-> 1]
  BY DEF Init, ReaderInit
<1>3. /\ Places = [r \in Readers |-> "outside"]
      /\ Tales = [r \in Readers |-> [what |-> "none", message |-> <<>>]]
  BY DEF Init, ReaderInit, Places, Place, Tales, Told
<1> QED
  BY <1>1, <1>2, <1>3 DEF Stream!StreamInit, Stream!Result, Stream!NoMessage

(* Reserving a frame begins a message, and loses the readers it leaves a   *)
(* whole window behind.                                                    *)
LEMMA WriteBegins ==
  ASSUME FollowInv, FollowInv', UNCHANGED readerVars, NEW size \in Requests, Write(size)
  PROVE  Stream!Begin
<1>1. WriterInv /\ WriterInv' /\ ReaderInv /\ ReaderInv'
  BY DEF FollowInv, ReaderInv
<1>2. Last \in Nat /\ SentIsCounted /\ SentIsCounted' /\ Standing /\ Standing'
  BY <1>1, SentCounts, CountsAfter, StandingIs, StandingAfter
  DEF WriterInv, WriterTypeOK, Last
<1>3. /\ Last' = Last + 1 /\ Published = Last /\ Published' = Last
      /\ \A k \in 1 .. Last : log'[k] = log[k]
      /\ log'[Last + 1].seq = HeadSeq
  BY <1>1, WriteAppends
<1>4. /\ Len(SentSoFar) = Last /\ Len(SentSoFar') = Last + 1
      /\ Stream!Total(SentSoFar) = HeadSeq
  BY <1>2, <1>3 DEF SentIsCounted
<1>5. ASSUME NEW k \in 1 .. Last PROVE SentSoFar'[k] = SentSoFar[k]
  <2>1. Frame(k)' = Frame(k) /\ k \in 1 .. Last'
    BY <1>2, <1>3 DEF Frame
  <2>2. SentSoFar'[k] = [message |-> Payload(k)', before |-> Frame(k)'.seq]
    BY <1>2, <2>1 DEF SentIsCounted
  <2> QED
    BY <1>2, <2>1, <2>2, StoredStays DEF SentIsCounted
<1>6. SentSoFar'[Last + 1].before = HeadSeq
  <2>1. PICK n \in Nat : Last + 1 = n
    BY <1>2
  <2>2. n \in 1 .. Last' /\ log'[n].seq = HeadSeq
    BY <1>2, <1>3, <2>1
  <2>3. SentSoFar'[n].before = Frame(n)'.seq
    BY <1>2, <2>2 DEF SentIsCounted
  <2> QED
    BY <2>1, <2>2, <2>3 DEF Frame
<1>7. UNCHANGED <<rPc, rNext, synced, ret, rData>>
  BY DEF readerVars
<1>8. ASSUME NEW r \in Readers
      PROVE  Place(r)' = IF Place(r) = "following" /\ Stream!Behind(SentSoFar', rNext[r])
                         THEN "lost" ELSE Place(r)
  <2>1. /\ KeptUp(r) <=> synced[r] /\ ~Stream!Behind(SentSoFar, rNext[r])
        /\ KeptUp(r)' <=> synced[r] /\ ~Stream!Behind(SentSoFar', rNext[r])
    BY <1>2, <1>7 DEF Standing
  <2>2. KeptUp(r)' => KeptUp(r)
    BY <1>1, LostStaysLost DEF FollowInv, WriterNext
  <2> QED
    BY <1>7, <2>1, <2>2 DEF Place
<1>9. /\ Places' = [r \in Readers |->
                      IF Places[r] = "following" /\ Stream!Behind(SentSoFar', rNext[r])
                      THEN "lost" ELSE Places[r]]
      /\ Tales' = Tales
  BY <1>7, <1>8 DEF Places, Tales, Told
<1> QED
  BY <1>3, <1>4, <1>5, <1>6, <1>7, <1>9 DEF Stream!Begin

(* The other steps of Write are of no message, until readIdx is stored.    *)
LEMMA WriteGoesOn ==
  ASSUME FollowInv, FollowInv', UNCHANGED readerVars, WriteInProgress
  PROVE  Stream!Release \/ UNCHANGED Stream!streamVars
<1>1. WriterInv /\ Last \in Nat /\ SentIsCounted
  BY SentCounts DEF FollowInv, ReaderInv, WriterInv, WriterTypeOK, Last
<1>2. log' = log /\ wPc # "idle" /\ Last # 0
  BY <1>1 DEF WriteInProgress, CopyHeader, CopyBody, CopyRest, StoreSeqNum, StoreReadIdx,
              WriterInv, WriterTypeOK, Last
<1>3. UNCHANGED <<rPc, rNext, synced, ret, rData>>
  BY DEF readerVars
<1>4. /\ Last' = Last /\ HeadSeq' = HeadSeq
      /\ \A k : Frame(k)' = Frame(k) /\ Payload(k)' = Payload(k)
  BY <1>2 DEF Last, HeadSeq, Ended, Frame, Payload, StoredByte
<1>5. SentSoFar' = SentSoFar /\ Places' = Places /\ Tales' = Tales
  <2>1. SentSoFar' = SentSoFar
    BY <1>4 DEF SentSoFar
  <2>2. \A r \in Readers : Place(r)' = Place(r) /\ Told(r)' = Told(r)
    BY <1>3, <1>4 DEF Place, KeptUp, Told
  <2> QED
    BY <2>1, <2>2 DEF Places, Tales
<1>6. CASE wPc' = "idle"
  <2>1. Published = Last - 1 /\ Published' = Last /\ Len(SentSoFar) = Last
    BY <1>1, <1>2, <1>4, <1>6 DEF Published, SentIsCounted
  <2> QED
    BY <1>1, <1>2, <1>3, <1>5, <2>1 DEF Stream!Release
<1>7. CASE wPc' # "idle"
  <2>1. Published' = Published
    BY <1>2, <1>4, <1>7 DEF Published
  <2> QED
    BY <1>3, <1>5, <2>1 DEF Stream!streamVars
<1> QED
  BY <1>6, <1>7

----------------------------------------------------------------------------
(* A step of a reader is of no message and of no other reader.             *)
LEMMA OneReaderMoves ==
  ASSUME FollowInv, FollowInv', UNCHANGED writerVars, NEW r \in Readers, ReaderNext(r)
  PROVE  /\ SentSoFar' = SentSoFar /\ Published' = Published
         /\ rNext' = [rNext EXCEPT ![r] = rNext'[r]]
         /\ Places' = [Places EXCEPT ![r] = Place(r)']
         /\ Tales' = [Tales EXCEPT ![r] = Told(r)']
<1>1. SentSoFar' = SentSoFar /\ Published' = Published
  BY SameWriter DEF SentSoFar
<1>2. ReaderTypeOK /\ ReaderTypeOK'
  BY DEF FollowInv, ReaderInv, ReadInv
<1>3. ASSUME NEW q \in Readers \ {r}
      PROVE  rNext'[q] = rNext[q] /\ Place(q)' = Place(q) /\ Told(q)' = Told(q)
  <2>1. /\ rPc'[q] = rPc[q] /\ rNext'[q] = rNext[q] /\ synced'[q] = synced[q]
        /\ ret'[q] = ret[q] /\ rData'[q] = rData[q]
    BY <1>2, OthersStay
  <2> QED
    BY <2>1, SameWriter DEF Place, KeptUp, Told
<1>4. rNext' = [rNext EXCEPT ![r] = rNext'[r]]
  BY <1>2, <1>3 DEF ReaderTypeOK
<1>5. /\ Places' = [Places EXCEPT ![r] = Place(r)']
      /\ Tales' = [Tales EXCEPT ![r] = Told(r)']
  BY <1>3 DEF Places, Tales
<1> QED
  BY <1>1, <1>4, <1>5

(* A step that tells the reader nothing, and leaves it at its message.     *)
LEMMA SilentStep ==
  ASSUME FollowInv, FollowInv', UNCHANGED writerVars, NEW r \in Readers, ReaderNext(r),
         rNext'[r] = rNext[r], Place(r)' = Place(r), Told(r)' = Told(r)
  PROVE  UNCHANGED Stream!streamVars
<1>1. /\ rNext' = [rNext EXCEPT ![r] = rNext[r]]
      /\ Places' = [Places EXCEPT ![r] = Places[r]]
      /\ Tales' = [Tales EXCEPT ![r] = Tales[r]]
  BY OneReaderMoves DEF Places, Tales
<1>2. rNext \in [Readers -> Nat \ {0}]
  BY DEF FollowInv, ReaderInv, ReadInv, ReaderTypeOK
<1> QED
  BY <1>1, <1>2, OneReaderMoves DEF Places, Tales, Stream!streamVars

(* A step of a reader that does not keep up is of a lost one.              *)
LEMMA LostStrays ==
  ASSUME FollowInv, FollowInv', UNCHANGED writerVars, NEW r \in Readers, ReaderNext(r),
         Place(r) = "lost", Place(r)' = "lost"
  PROVE  Stream!Stray(r)
<1>1. /\ Places' = [Places EXCEPT ![r] = Places[r]] /\ Places[r] = "lost"
  BY OneReaderMoves DEF Places
<1>2. \A q \in Readers \ {r} : Tales'[q] = Tales[q] /\ rNext'[q] = rNext[q]
  <2>1. ReaderTypeOK
    BY DEF FollowInv, ReaderInv, ReadInv
  <2>2. \A q \in Readers \ {r} : Told(q)' = Told(q) /\ rNext'[q] = rNext[q]
    BY <2>1, OthersStay DEF Told
  <2> QED
    BY <2>2 DEF Tales
<1> QED
  BY <1>1, <1>2, OneReaderMoves DEF Stream!Stray, Places

(* The constructor joins the stream, or finds it gone on meanwhile.        *)
LEMMA AttachJoins ==
  ASSUME FollowInv, FollowInv', UNCHANGED writerVars, NEW r \in Readers,
         AttachIndex(r) \/ AttachSeqNum(r)
  PROVE  Stream!ChoosePlace(r) \/ Stream!Join(r)
<1>1. ReaderNext(r) /\ ReaderTypeOK /\ ReaderInv' /\ WriterInv
  BY DEF ReaderNext, ReadInProgress, FollowInv, ReaderInv, ReadInv
<1>2. /\ SentSoFar' = SentSoFar /\ Published' = Published
      /\ rNext' = [rNext EXCEPT ![r] = rNext'[r]]
      /\ Places' = [Places EXCEPT ![r] = Place(r)']
      /\ Tales' = [Tales EXCEPT ![r] = Told(r)']
  BY <1>1, OneReaderMoves
<1>3. Places[r] = "outside" /\ Place(r) = "outside" /\ ret'[r] = ret[r] /\ rData'[r] = rData[r]
  BY DEF AttachIndex, AttachSeqNum, Places, Place
<1>4. Tales' = Tales
  BY <1>2, <1>3 DEF Tales, Told
<1>5. CASE AttachIndex(r)
  <2>1. rNext'[r] = Published + 1 /\ Place(r)' = "outside"
    BY <1>1, <1>5 DEF AttachIndex, Place, ReaderTypeOK
  <2>2. Places' = Places
    BY <1>2, <1>3, <2>1 DEF Places
  <2> QED
    BY <1>2, <1>3, <1>4, <2>1, <2>2 DEF Stream!ChoosePlace
<1>6. CASE AttachSeqNum(r)
  <2>1. PICK k \in Nat \ {0} : rNext[r] = k
    BY <1>1 DEF ReaderTypeOK
  <2>2. /\ rPc[r] = "attach" /\ rPc'[r] = "idle" /\ rNext' = rNext
        /\ synced'[r] = (seqNum = SeqAt(k))
    BY <1>1, <1>6, <2>1 DEF AttachSeqNum, ReaderTypeOK
  <2>3. Place(r)' = IF KeptUp(r)' THEN "following" ELSE "lost"
    BY <2>2 DEF Place
  <2>4. ASSUME KeptUp(r)'
        PROVE  k = Published + 1 /\ ~Stream!Behind(SentSoFar, k)
    <3>1. seqNum = SeqAt(k) /\ ~Stream!Behind(SentSoFar, k)
      BY <1>1, <1>2, <2>1, <2>2, <2>4, StandingAfter DEF Standing
    <3>2. k <= Published + 1 /\ Published \in Nat /\ Published <= Last /\ Last \in Nat
      BY <1>1, <2>1, <2>2
      DEF FollowInv, Follows, JoinShape, WriterInv, WriterTypeOK, Published, Last
    <3>3. ~(k <= Published)
      <4> SUFFICES ASSUME k <= Published PROVE FALSE
        OBVIOUS
      <4>1. k \in 1 .. Published /\ k \in 1 .. Last /\ k \in 1 .. k /\ k <= Last
        BY <3>2
      <4>2. Ended(k) <= seqNum /\ Ended(k) \in Nat /\ seqNum \in Nat
        BY <1>1, <4>1, SeqNumCounts
      <4>3. Frame(k).seq + HeaderSize <= Ended(k) /\ Frame(k).seq \in Nat
        BY <1>1, <4>1, CountsGrow, FrameType DEF WriterInv
      <4> QED
        BY <3>1, <4>1, <4>2, <4>3, FramingAssumption DEF SeqAt
    <3> QED
      BY <3>1, <3>2, <3>3
  <2>5. Places' = [Places EXCEPT ![r] = IF KeptUp(r)' THEN "following" ELSE "lost"]
    BY <1>2, <2>3
  <2> QED
    BY <1>2, <1>3, <1>4, <2>1, <2>2, <2>4, <2>5 DEF Stream!Join
<1> QED
  BY <1>5, <1>6

(* A step of Read up to its last one leaves the reader where it is.        *)
LEMMA ReadStepStands ==
  ASSUME FollowInv, FollowInv', UNCHANGED writerVars, NEW r \in Readers, ReaderNext(r),
         rPc[r] \notin {"closed", "attach"}, rPc'[r] \notin {"closed", "attach"},
         synced'[r] = synced[r], rNext'[r] = rNext[r]
  PROVE  /\ UNCHANGED <<SentSoFar, Published, rNext, Places>>
         /\ Tales' = [Tales EXCEPT ![r] = Told(r)']
         /\ Places[r] = IF KeptUp(r) THEN "following" ELSE "lost"
         /\ ~KeptUp(r) => Stream!Stray(r)
         /\ Told(r)' = Told(r) => UNCHANGED Stream!streamVars
<1>1. /\ SentSoFar' = SentSoFar /\ Published' = Published
      /\ rNext' = [rNext EXCEPT ![r] = rNext'[r]]
      /\ Places' = [Places EXCEPT ![r] = Place(r)']
      /\ Tales' = [Tales EXCEPT ![r] = Told(r)']
  BY OneReaderMoves
<1>2. rNext' = rNext
  BY <1>1 DEF FollowInv, ReaderInv, ReadInv, ReaderTypeOK
<1>3. KeptUp(r)' <=> KeptUp(r)
  BY SameWriter DEF KeptUp
<1>4. /\ Place(r) = IF KeptUp(r) THEN "following" ELSE "lost"
      /\ Place(r)' = Place(r) /\ Places[r] = Place(r)
  BY <1>3 DEF Place, Places
<1>5. Places' = Places
  BY <1>1, <1>4 DEF Places
<1>6. ~KeptUp(r) => Stream!Stray(r)
  BY <1>4, LostStrays
<1>7. Told(r)' = Told(r) => UNCHANGED Stream!streamVars
  BY <1>4, SilentStep
<1> QED
  BY <1>1, <1>2, <1>4, <1>5, <1>6, <1>7

(* A call of Read asks. *)
LEMMA ReadAsks ==
  ASSUME FollowInv, FollowInv', UNCHANGED writerVars, NEW r \in Readers,
         NEW cap \in Caps, Read(r, cap)
  PROVE  Stream!Ask(r) \/ Stream!Stray(r)
<1>1. /\ ReaderNext(r) /\ rPc[r] = "idle" /\ rPc'[r] = "poll" /\ ret'[r] = "none"
      /\ rNext'[r] = rNext[r] /\ synced'[r] = synced[r]
  BY DEF Read, ReaderNext, FollowInv, ReaderInv, ReadInv, ReaderTypeOK
<1>2. /\ UNCHANGED <<SentSoFar, Published, rNext, Places>>
      /\ Tales' = [Tales EXCEPT ![r] = Told(r)']
      /\ Places[r] = IF KeptUp(r) THEN "following" ELSE "lost"
      /\ ~KeptUp(r) => Stream!Stray(r)
  BY <1>1, ReadStepStands
<1>3. Told(r)' = Stream!Result("none", Stream!NoMessage)
  BY <1>1 DEF Told, Stream!Result, Stream!NoMessage
<1> QED
  BY <1>2, <1>3 DEF Stream!Ask, Stream!Tell

(* The load of readIdx tells that there is nothing yet, or goes on. *)
LEMMA PollAnswers ==
  ASSUME FollowInv, FollowInv', UNCHANGED writerVars, NEW r \in Readers,
         PollEmpty(r) \/ PollData(r)
  PROVE  Stream!NothingYet(r) \/ Stream!Stray(r) \/ UNCHANGED Stream!streamVars
<1>1. /\ ReaderNext(r) /\ rPc[r] = "poll" /\ rPc'[r] \in {"idle", "check"}
      /\ rNext'[r] = rNext[r] /\ synced'[r] = synced[r] /\ rData'[r] = rData[r]
  BY DEF PollEmpty, PollData, Return, ReaderNext, ReadInProgress, FollowInv, ReaderInv,
         ReadInv, ReaderTypeOK
<1>2. /\ UNCHANGED <<SentSoFar, Published, rNext, Places>>
      /\ Tales' = [Tales EXCEPT ![r] = Told(r)']
      /\ Places[r] = IF KeptUp(r) THEN "following" ELSE "lost"
      /\ ~KeptUp(r) => Stream!Stray(r)
      /\ Told(r)' = Told(r) => UNCHANGED Stream!streamVars
  BY <1>1, ReadStepStands
<1>3. CASE PollEmpty(r) /\ KeptUp(r)
  <2>1. ret'[r] = "empty" /\ rLocalIndex[r] = readIdx
    BY <1>3 DEF PollEmpty, Return, ReadLimit, FollowInv, ReaderInv, ReadInv, ReaderTypeOK
  <2>2. rNext[r] > Published
    BY <1>1, <1>3, <2>1, PollTells DEF FollowInv
  <2>3. Told(r)' = Stream!Result("empty", Stream!NoMessage)
    BY <2>1 DEF Told, Stream!Result, Stream!NoMessage
  <2> QED
    BY <1>2, <1>3, <2>2, <2>3 DEF Stream!NothingYet, Stream!Tell
<1>4. CASE PollData(r)
  <2>1. Told(r)' = Told(r)
    BY <1>1, <1>4 DEF PollData, Told
  <2> QED
    BY <1>2, <2>1
<1> QED
  BY <1>2, <1>3, <1>4

(* The check before reading takes no message for overwritten that is not.  *)
LEMMA CheckLagPasses ==
  ASSUME FollowInv, FollowInv', UNCHANGED writerVars, NEW r \in Readers, CheckLag(r)
  PROVE  Stream!Stray(r) \/ UNCHANGED Stream!streamVars
<1>1. /\ ReaderNext(r) /\ rPc[r] = "check" /\ rPc'[r] \in {"idle", "header"}
      /\ rNext'[r] = rNext[r] /\ synced'[r] = synced[r] /\ rData'[r] = rData[r]
      /\ IF Overwritten(rLocalSeqNum[r]) THEN ret'[r] = "overwritten" ELSE ret'[r] = ret[r]
  BY DEF CheckLag, Return, ReaderNext, ReadInProgress, FollowInv, ReaderInv, ReadInv, ReaderTypeOK
<1>2. /\ ~KeptUp(r) => Stream!Stray(r)
      /\ Told(r)' = Told(r) => UNCHANGED Stream!streamVars
  BY <1>1, ReadStepStands
<1>3. CASE KeptUp(r)
  <2>1. PICK k \in Nat \ {0} : rNext[r] = k
    BY DEF FollowInv, ReaderInv, ReadInv, ReaderTypeOK
  <2>2. k <= Published /\ rLocalSeqNum[r] = SeqAt(k)
    BY <1>1, <1>3, <2>1 DEF FollowInv, Follows, Placed
  <2>3. ~Overwritten(Frame(k).seq) /\ k <= Last
    BY <1>3, <2>1, <2>2, KeptMessage DEF FollowInv
  <2>4. ret'[r] = ret[r]
    BY <1>1, <2>2, <2>3 DEF SeqAt
  <2> QED
    BY <1>1, <1>2, <2>4 DEF Told
<1> QED
  BY <1>2, <1>3

(* The header tells that the read buffer is too small, or Read goes on.    *)
LEMMA HeaderAnswers ==
  ASSUME FollowInv, FollowInv', UNCHANGED writerVars, NEW r \in Readers,
         NEW size \in Size \cup {MaxMessageSize + 1}, ReadHeader(r, size)
  PROVE  Stream!TooSmall(r) \/ Stream!Stray(r) \/ UNCHANGED Stream!streamVars
<1>1. /\ ReaderNext(r) /\ rPc[r] = "header" /\ rPc'[r] \in {"idle", "body"}
      /\ rNext'[r] = rNext[r] /\ synced'[r] = synced[r] /\ rData'[r] = rData[r]
      /\ ret'[r] = ret[r] \/ ret'[r] = "error"
  BY DEF ReadHeader, Return, ReaderNext, ReadInProgress, FollowInv, ReaderInv, ReadInv, ReaderTypeOK
<1>2. /\ UNCHANGED <<SentSoFar, Published, rNext, Places>>
      /\ Tales' = [Tales EXCEPT ![r] = Told(r)']
      /\ Places[r] = IF KeptUp(r) THEN "following" ELSE "lost"
      /\ ~KeptUp(r) => Stream!Stray(r)
      /\ Told(r)' = Told(r) => UNCHANGED Stream!streamVars
  BY <1>1, ReadStepStands
<1>3. CASE ret'[r] = "error" /\ KeptUp(r)
  <2>1. rNext[r] <= Published
    BY <1>1, <1>3 DEF FollowInv, Follows, Placed
  <2>2. Told(r)' = Stream!Result("error", Stream!NoMessage)
    BY <1>3 DEF Told, Stream!Result, Stream!NoMessage
  <2> QED
    BY <1>2, <1>3, <2>1, <2>2 DEF Stream!TooSmall, Stream!Tell
<1>4. CASE ret'[r] = ret[r]
  BY <1>1, <1>2, <1>4 DEF Told
<1> QED
  BY <1>1, <1>2, <1>3, <1>4

(* Copying the payload tells nothing yet. *)
LEMMA CopyIsSilent ==
  ASSUME FollowInv, FollowInv', UNCHANGED writerVars, NEW r \in Readers,
         ReadBody(r) \/ ReadRest(r)
  PROVE  UNCHANGED Stream!streamVars
<1>1. /\ ReaderNext(r) /\ rPc[r] \in {"body", "rest"} /\ rPc'[r] \in {"rest", "recheck"}
      /\ rNext'[r] = rNext[r] /\ synced'[r] = synced[r] /\ ret'[r] = ret[r]
  BY DEF ReadBody, ReadRest, ReaderNext, ReadInProgress, FollowInv, ReaderInv, ReadInv, ReaderTypeOK
<1>2. ret[r] = "none"
  BY <1>1 DEF FollowInv, Follows, JoinShape
<1> QED
  BY <1>1, <1>2, ReadStepStands DEF Told

(***************************************************************************)
(* The last check delivers the message, and the reader stays in the        *)
(* window: the next message began no earlier than this one.                *)
(***************************************************************************)
LEMMA RecheckDelivers ==
  ASSUME FollowInv, FollowInv', UNCHANGED writerVars, NEW r \in Readers, Recheck(r)
  PROVE  Stream!Deliver(r) \/ Stream!Stray(r)
<1>1. PICK k \in Nat \ {0} : rNext[r] = k
  BY DEF FollowInv, ReaderInv, ReadInv, ReaderTypeOK
<1>2. /\ ReaderNext(r) /\ rPc[r] = "recheck" /\ rPc'[r] = "idle"
      /\ ret'[r] = IF Overwritten(rLocalSeqNum[r]) THEN "overwritten" ELSE "message"
      /\ synced'[r] = KeptUp(r) /\ rNext'[r] = IF KeptUp(r) THEN k + 1 ELSE k
  BY <1>1 DEF Recheck, Return, ReaderNext, ReadInProgress, FollowInv, ReaderInv, ReadInv, ReaderTypeOK
<1>3. /\ SentSoFar' = SentSoFar /\ Published' = Published
      /\ rNext' = [rNext EXCEPT ![r] = rNext'[r]]
      /\ Places' = [Places EXCEPT ![r] = Place(r)']
      /\ Tales' = [Tales EXCEPT ![r] = Told(r)']
  BY <1>2, OneReaderMoves
<1>4. CASE ~KeptUp(r)
  <2>1. Place(r) = "lost" /\ Place(r)' = "lost"
    BY <1>2, <1>4 DEF Place, KeptUp
  <2> QED
    BY <1>2, <2>1, LostStrays
<1>5. CASE KeptUp(r)
  <2>1. WriterInv /\ Placed(r) /\ ret[r] = "none" /\ SentIsCounted
    BY <1>2, <1>5, SentCounts DEF FollowInv, Follows, JoinShape, ReaderInv
  <2>2. k <= Published /\ rLocalSeqNum[r] = Ended(k)
    BY <1>1, <1>2, <2>1 DEF Placed
  <2>3. k \in 1 .. Published /\ k \in 1 .. Last /\ ~Overwritten(Ended(k))
    BY <1>1, <1>5, <2>2, KeptMessage DEF FollowInv
  <2>4. synced'[r] /\ rNext'[r] = k + 1 /\ ret'[r] = "message"
    BY <1>2, <1>5, <2>2, <2>3
  <2>5. rData'[r] = SentSoFar[k].message
    <3>1. ReadIsIntact(r)' /\ (k + 1) - 1 = k
      BY DEF FollowInv, Follows
    <3>2. rData'[r] = Payload(k)'
      BY <2>4, <3>1 DEF ReadIsIntact
    <3> QED
      BY <2>1, <2>3, <3>2, SameWriter DEF SentIsCounted
  <2>6. KeptUp(r)'
    <3>1. ASSUME k + 1 <= Last PROVE HeadSeq - Frame(k + 1).seq < SafeWindow
      <4>1. PICK l \in 1 .. Last : l = k + 1
        BY <2>1, <3>1 DEF WriterInv, WriterTypeOK, Last
      <4>2. /\ Frame(l).seq = Ended(k) /\ Frame(k).seq + HeaderSize <= Ended(k)
            /\ Frame(k).seq \in Nat /\ Frame(l).seq \in Nat /\ HeadSeq \in Nat
        <5>1. k \in 1 .. Last - 1 /\ k \in 1 .. k /\ Last \in 1 .. Last
          <6>1. Last \in Nat
            BY <2>1 DEF WriterInv, WriterTypeOK, Last
          <6> QED
            BY <2>3, <4>1, <6>1
        <5>2. Frame(l).seq = Ended(k)
          BY <2>1, <4>1, <5>1 DEF WriterInv, ChainInv
        <5>3. Frame(k).seq + HeaderSize <= Ended(k)
          BY <2>1, <2>3, <5>1, CountsGrow
        <5>4. HeadSeq \in Nat
          BY <2>1, <2>3, SeqNumCounts
        <5> QED
          BY <2>1, <2>3, <5>2, <5>3, <5>4, FrameType DEF WriterInv
      <4>3. HeadSeq - Frame(k).seq < SafeWindow
        BY <1>1, <1>5, <2>3 DEF KeptUp
      <4> QED
        BY <4>1, <4>2, <4>3, FramingAssumption DEF SafeWindow
    <3> QED
      BY <2>4, <3>1, SameWriter DEF KeptUp
  <2>7. /\ Places[r] = "following" /\ Place(r)' = "following" /\ Tales[r].what = "none"
        /\ Told(r)' = Stream!Result("message", SentSoFar[k].message)
    BY <1>2, <1>5, <2>1, <2>4, <2>5, <2>6 DEF Places, Place, Tales, Told, Stream!Result
  <2>8. Places' = Places /\ rNext' = [rNext EXCEPT ![r] = @ + 1]
    BY <1>1, <1>3, <2>4, <2>7 DEF Places
  <2> QED
    BY <1>1, <1>3, <2>2, <2>7, <2>8 DEF Stream!Deliver, Stream!Tell
<1> QED
  BY <1>4, <1>5

----------------------------------------------------------------------------
(* A step of the buffer is a step of the stream, or none.                  *)
LEMMA NextIsOfTheStream ==
  FollowInv /\ FollowInv' /\ [Next]_vars => [Stream!StreamNext]_(Stream!streamVars)
<1> SUFFICES ASSUME FollowInv, FollowInv', [Next]_vars
             PROVE  Stream!StreamNext \/ UNCHANGED Stream!streamVars
  OBVIOUS
<1>1. CASE WriterNext /\ UNCHANGED readerVars
  BY <1>1, WriteBegins, WriteGoesOn DEF WriterNext, Stream!StreamNext
<1>2. ASSUME NEW r \in Readers, ReaderNext(r), UNCHANGED writerVars
      PROVE  Stream!StreamNext \/ UNCHANGED Stream!streamVars
  <2>1. CASE AttachIndex(r) \/ AttachSeqNum(r)
    BY <1>2, <2>1, AttachJoins DEF Stream!StreamNext
  <2>2. CASE \E cap \in Caps : Read(r, cap)
    BY <1>2, <2>2, ReadAsks DEF Stream!StreamNext
  <2>3. CASE PollEmpty(r) \/ PollData(r)
    BY <1>2, <2>3, PollAnswers DEF Stream!StreamNext
  <2>4. CASE CheckLag(r)
    BY <1>2, <2>4, CheckLagPasses DEF Stream!StreamNext
  <2>5. CASE \E size \in Size \cup {MaxMessageSize + 1} : ReadHeader(r, size)
    BY <1>2, <2>5, HeaderAnswers DEF Stream!StreamNext
  <2>6. CASE ReadBody(r) \/ ReadRest(r)
    BY <1>2, <2>6, CopyIsSilent
  <2>7. CASE Recheck(r)
    BY <1>2, <2>7, RecheckDelivers DEF Stream!StreamNext
  <2> QED
    BY <1>2, <2>1, <2>2, <2>3, <2>4, <2>5, <2>6, <2>7 DEF ReaderNext, ReadInProgress
<1>3. CASE UNCHANGED vars
  BY <1>3, SameWriter
  DEF vars, readerVars, Stream!streamVars, SentSoFar, Places, Place, Tales, Told, KeptUp
<1> QED
  BY <1>1, <1>2, <1>3 DEF Next

(***************************************************************************)
(* The buffer keeps the promise of MessageStream: along every interleaving *)
(* of Write and the Reads, a reader that stays within the safe window gets *)
(* the stream from where it joined, and only the store of writeIdx, or an  *)
(* attachment during a Write, ever loses one.                              *)
(***************************************************************************)
THEOREM BufferIsAStream == Spec => ImplementsMessageStream
BY InitBeginsStream, NextIsOfTheStream, FollowInvariance, PTL
DEF Spec, ImplementsMessageStream, Stream!StreamSpec
=============================================================================

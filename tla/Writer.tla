------------------------------- MODULE Writer -------------------------------
(***************************************************************************)
(* Writer::Write over the shared State and buffer, one step per access a   *)
(* reader in another process could see: the store of writeIdx, each        *)
(* memcpy, the store of seqNum, the store of readIdx.  What Write computes *)
(* in between is local and belongs to the next visible access.             *)
(*                                                                         *)
(* Accesses are sequentially consistent, which is what the release stores  *)
(* give on x86 (readers never store to this memory).  A memcpy is one      *)
(* step: what matters of a copy is only whether it is over when a reader   *)
(* copies the same bytes.                                                  *)
(***************************************************************************)
EXTENDS Framing

CONSTANTS
  Requests,     \* sizes the application passes to Write, too large ones too
  MaxMessages   \* bound on the number of messages written

ASSUME WriterAssumption ==
  /\ Requests \subseteq Nat
  /\ MaxMessages \in Nat

VARIABLES
  readIdx, writeIdx, seqNum,   \* State
  cell,          \* the buffer: the byte each offset holds
  wPc,           \* the next visible access of the Write in progress
  wLocalIndex,   \* m_LocalIndex
  wLocalSeqNum,  \* m_LocalSeqNum
  nextElement,   \* m_NextElement, as an offset
  log            \* history: the messages begun. The last record also holds the
                 \* locals of the Write in progress: size (msgSize), idx (the
                 \* index it began at), seq (the bytes counted before it);
                 \* base is the buffer's length times the laps before its header

shared     == <<readIdx, writeIdx, seqNum, cell>>
writerVars == <<shared, wPc, wLocalIndex, wLocalSeqNum, nextElement, log>>

(***************************************************************************)
(* Byte j of message k is <<k, j>>: j < HeaderSize is a byte of its        *)
(* header, HeaderSize + o is byte o of the application's buffer.           *)
(* <<0, 0>> is the zero byte of fresh memory.                              *)
(***************************************************************************)
Byte     == Nat \X Nat
ZeroByte == <<0, 0>>

Last     == Len(log)
Frame(k) == log[k]
Ended(k) == Frame(k).seq + FrameLen(Frame(k).size)
HeadSeq  == IF Last = 0 THEN 0 ELSE Ended(Last)

(* The bytes gone round before the end of the last frame. *)
LapBase ==
  IF Last = 0 THEN 0
  ELSE IF Split(Frame(Last).idx, Frame(Last).size)
       THEN Frame(Last).base + BufferSize
       ELSE Frame(Last).base

(* How many messages have been released to the readers. *)
Published == IF wPc = "idle" THEN Last ELSE Last - 1

----------------------------------------------------------------------------
(* Mutations of the definitions below. *)

SkipRest(k)         == "seq"
CountPayloadOnly(k) == wLocalSeqNum + Frame(k).size
ReleaseFrameStart   == Frame(Last).idx

----------------------------------------------------------------------------
(* The offset of the application's buffer that the second memcpy of a      *)
(* split write starts from.                                                *)
RestSource(i, size) == RestPart(i, size)

(* Byte j of the frame of message k, once all of it is copied.             *)
StoredByte(k, j) ==
  LET f == Frame(k)
  IN  IF Split(f.idx, f.size) /\ j >= SpaceToEnd(f.idx)
      THEN <<k, HeaderSize + RestSource(f.idx, f.size) + (j - SpaceToEnd(f.idx))>>
      ELSE <<k, j>>

(* Copy bytes j, j + 1, ... of the frame to the n offsets from `at`.       *)
Copied(at, n, j) ==
  [c \in Cell |-> IF at <= c /\ c < at + n THEN StoredByte(Last, j + (c - at))
                  ELSE cell[c]]

(* m_NextElement when the header is copied; the header goes to 0 when it   *)
(* does not fit.                                                           *)
HeaderAt(i) == IF HeaderFits(i) THEN nextElement ELSE 0

(* What follows the first part of the payload. *)
AfterBody(k) == IF Split(Frame(k).idx, Frame(k).size) THEN "rest" ELSE "seq"

SeqAfter(k) == wLocalSeqNum + FrameLen(Frame(k).size)

(* The index up to which readers may read once the Write is over. *)
ReleaseIndex == wLocalIndex

----------------------------------------------------------------------------
(* Writer::Writer on fresh memory. *)
WriterInit ==
  /\ readIdx = 0 /\ writeIdx = 0 /\ seqNum = 0
  /\ cell = [c \in Cell |-> ZeroByte]
  /\ wPc = "idle"
  /\ wLocalIndex = 0 /\ wLocalSeqNum = 0 /\ nextElement = 0
  /\ log = <<>>

(* Write is called: it rejects a size too large, else moves its index and  *)
(* reserves the frame by storing writeIdx.                                 *)
Write(size) ==
  /\ wPc = "idle" /\ Last < MaxMessages
  /\ size <= MaxMessageSize
  /\ wLocalIndex' = WriterAdvance(wLocalIndex, size)
  /\ writeIdx' = wLocalIndex'
  /\ nextElement' = HeaderAt(wLocalIndex)
  /\ log' = Append(log, [size |-> size, idx |-> wLocalIndex, seq |-> wLocalSeqNum,
                         base |-> IF HeaderFits(wLocalIndex) THEN LapBase
                                  ELSE LapBase + BufferSize])
  /\ wPc' = "header"
  /\ UNCHANGED <<readIdx, seqNum, cell, wLocalSeqNum>>

CopyHeader ==
  /\ wPc = "header"
  /\ cell' = Copied(nextElement, HeaderSize, 0)
  /\ wPc' = "body"
  /\ UNCHANGED <<readIdx, writeIdx, seqNum, wLocalIndex, wLocalSeqNum, nextElement, log>>

(* The payload, or the part of it before the end of the buffer. *)
CopyBody ==
  LET f == Frame(Last)
      split == Split(f.idx, f.size)
  IN  /\ wPc = "body"
      /\ cell' = Copied(nextElement + HeaderSize,
                        IF split THEN FirstPart(f.idx) ELSE f.size, HeaderSize)
      /\ nextElement' = IF split THEN 0 ELSE nextElement + FrameLen(f.size)
      /\ wPc' = AfterBody(Last)
      /\ UNCHANGED <<readIdx, writeIdx, seqNum, wLocalIndex, wLocalSeqNum, log>>

(* The part of a split payload that goes to the beginning of the buffer. *)
CopyRest ==
  LET f == Frame(Last)
      rest == RestPart(f.idx, f.size)
  IN  /\ wPc = "rest"
      /\ cell' = Copied(nextElement, rest, SpaceToEnd(f.idx))
      /\ nextElement' = nextElement + rest
      /\ wPc' = "seq"
      /\ UNCHANGED <<readIdx, writeIdx, seqNum, wLocalIndex, wLocalSeqNum, log>>

StoreSeqNum ==
  /\ wPc = "seq"
  /\ wLocalSeqNum' = SeqAfter(Last)
  /\ seqNum' = wLocalSeqNum'
  /\ wPc' = "read"
  /\ UNCHANGED <<readIdx, writeIdx, cell, wLocalIndex, nextElement, log>>

(* Release the message to the readers, and return true. *)
StoreReadIdx ==
  /\ wPc = "read"
  /\ readIdx' = ReleaseIndex
  /\ wPc' = "idle"
  /\ UNCHANGED <<writeIdx, seqNum, cell, wLocalIndex, wLocalSeqNum, nextElement, log>>

WriteInProgress ==
  CopyHeader \/ CopyBody \/ CopyRest \/ StoreSeqNum \/ StoreReadIdx

WriterNext == (\E size \in Requests : Write(size)) \/ WriteInProgress

WriterSpec == WriterInit /\ [][WriterNext]_writerVars

----------------------------------------------------------------------------
FrameRecord == [size : Size, idx : Index, seq : Nat, base : Nat]

(* The variables hold values of their C++ types, and indices stay in the buffer. *)
WriterTypeOK ==
  /\ readIdx \in Index /\ writeIdx \in Index /\ seqNum \in Nat
  /\ cell \in [Cell -> Byte]
  /\ wPc \in {"idle", "header", "body", "rest", "seq", "read"}
  /\ wLocalIndex \in Index /\ wLocalSeqNum \in Nat /\ nextElement \in Index
  /\ log \in Seq(FrameRecord)
  /\ wPc # "idle" => log # <<>>

(* Every byte of the frame of message k is the one the writer stored there. *)
Intact(k) ==
  \A j \in 0 .. FrameLen(Frame(k).size) - 1 :
    cell[FrameCell(Frame(k).idx, j)] = StoredByte(k, j)

(* The writer has not reserved further than the safe window past the start *)
(* of frame k, or frame k is the last one.                                 *)
InWindow(k) == k >= Last \/ HeadSeq - Frame(k).seq <= SafeWindow

(***************************************************************************)
(* A message that was released to the readers stays in the buffer, whole,  *)
(* until the writer has reserved more than the safe window past its first  *)
(* byte: over every sequence of plain, exactly fitting, split and skipping *)
(* writes (Writer.cpp:58-139), no copy reaches back into it.               *)
(***************************************************************************)
WindowIntact == \A k \in 1 .. Published : InWindow(k) => Intact(k)

(***************************************************************************)
(* No memcpy of Write leaves the buffer (Writer.cpp:63, 64, 88, 89, 104,   *)
(* 130, 131).                                                              *)
(***************************************************************************)
CopyInBounds ==
  /\ wPc = "header" => nextElement + HeaderSize <= BufferSize
  /\ wPc = "body" =>
       nextElement + HeaderSize
         + (IF AfterBody(Last) = "rest" THEN FirstPart(Frame(Last).idx) ELSE Frame(Last).size)
       <= BufferSize
  /\ wPc = "rest" =>
       nextElement + RestPart(Frame(Last).idx, Frame(Last).size) <= BufferSize

(***************************************************************************)
(* The assertion of the DEBUG build at Writer.cpp:143: once the copies are *)
(* done m_NextElement, moved copy by copy, stands where the write index,   *)
(* computed beforehand, says.                                              *)
(***************************************************************************)
NextElementAtWriteIdx ==
  wPc \in {"seq", "read", "idle"} => nextElement = writeIdx

(***************************************************************************)
(* A reader that sees readIdx at the end of a message finds a seqNum that  *)
(* counts that message (it uses the two to tell how far behind it is), and *)
(* seqNum counts no message whose bytes are not all in place               *)
(* (Writer.cpp:147-151).                                                   *)
(***************************************************************************)
ReleasedIsCountedAndInPlace ==
  LET counted == IF wPc \in {"idle", "read"} THEN Last ELSE Last - 1
  IN  /\ seqNum = IF counted = 0 THEN 0 ELSE Ended(counted)
      /\ counted = Last /\ Last > 0 => Intact(Last)
      /\ Published > 0 => readIdx = WriterAdvance(Frame(Published).idx, Frame(Published).size)
=============================================================================

-------------------------- MODULE WriterInvariant ---------------------------
(***************************************************************************)
(* The inductive invariant behind the properties of Writer.  It looks at   *)
(* the buffer as a tape that goes on for ever, of which offset a and       *)
(* offset a + BufferSize are the same cell: frames follow each other on    *)
(* the tape, in order, with a gap where a header did not fit, and the      *)
(* bytes stored stay until the tape has run one whole buffer further.      *)
(***************************************************************************)
EXTENDS Writer

(* The place on the tape of the first byte of frame k, and of its end.     *)
Pos(k)    == Frame(k).base + FrameStart(Frame(k).idx)
EndPos(k) == Pos(k) + FrameLen(Frame(k).size)
HeadPos   == IF Last = 0 THEN 0 ELSE EndPos(Last)

(* The writer's index is where the last frame ends. *)
HeadInv ==
  /\ LapBase + wLocalIndex = HeadPos
  /\ writeIdx = wLocalIndex
  /\ wLocalSeqNum = IF wPc \in {"idle", "read"} THEN HeadSeq ELSE Frame(Last).seq

(* Each frame begins at the index, and the count, at which the one before  *)
(* it ended.                                                               *)
ChainInv ==
  /\ Last > 0 => Frame(1).seq = 0 /\ Frame(1).idx = 0
  /\ \A k \in 1 .. Last - 1 :
       /\ Frame(k + 1).seq = Ended(k)
       /\ Frame(k + 1).idx = WriterAdvance(Frame(k).idx, Frame(k).size)

(***************************************************************************)
(* How two frames lie on the tape.  Each lap between them leaves at most   *)
(* HeaderSize - 1 bytes that seqNum does not count.                        *)
(***************************************************************************)
Apart(k, l) ==
  LET laps    == Frame(l).base - Frame(k).base
      taped   == Pos(l) - Pos(k)
      counted == Frame(l).seq - Frame(k).seq
  IN  /\ laps \in {0, BufferSize} \/ laps >= 2 * BufferSize
      /\ taped >= FrameLen(Frame(k).size)
      /\ counted >= FrameLen(Frame(k).size)
      /\ laps = 0 => taped = counted
      /\ laps = BufferSize => taped >= counted /\ taped - counted < HeaderSize
      /\ laps >= 2 * BufferSize =>
           counted > SafeWindow /\ taped > BufferSize

TapeInv == \A k, l \in 1 .. Last : k < l => Apart(k, l)

(* How many bytes of the frame in progress have been copied. *)
Done ==
  CASE wPc = "header" -> 0
    [] wPc = "body"   -> HeaderSize
    [] wPc = "rest"   -> SpaceToEnd(Frame(Last).idx)
    [] OTHER          -> FrameLen(Frame(Last).size)

(* The Write in progress has copied the bytes before its program counter,  *)
(* and m_NextElement is where it copies next.                              *)
ProgressInv ==
  /\ Last > 0 => \A j \in 0 .. Done - 1 :
       cell[FrameCell(Frame(Last).idx, j)] = StoredByte(Last, j)
  /\ wPc \in {"header", "body"} => nextElement = FrameStart(Frame(Last).idx)
  /\ wPc = "rest" => nextElement = 0 /\ Split(Frame(Last).idx, Frame(Last).size)
  /\ wPc \in {"seq", "read", "idle"} => nextElement = wLocalIndex

(* A frame less than one buffer back on the tape is whole. *)
OnTapeIntact ==
  \A k \in 1 .. Last - 1 : HeadPos - Pos(k) <= BufferSize => Intact(k)

(* What the readers see. *)
SharedInv ==
  /\ seqNum = wLocalSeqNum
  /\ readIdx = IF Published = 0 THEN 0
               ELSE WriterAdvance(Frame(Published).idx, Frame(Published).size)
  /\ wLocalIndex = IF Last = 0 THEN 0
                   ELSE WriterAdvance(Frame(Last).idx, Frame(Last).size)

(***************************************************************************)
(* The inductive invariant of Writer.                                      *)
(***************************************************************************)
WriterInv ==
  WriterTypeOK /\ HeadInv /\ ChainInv /\ TapeInv /\ ProgressInv /\ OnTapeIntact /\ SharedInv
=============================================================================

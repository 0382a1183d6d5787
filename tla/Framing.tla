------------------------------ MODULE Framing ------------------------------
(***************************************************************************)
(* How a message is laid out in the circular buffer: the arithmetic that   *)
(* Writer::Write and Reader::Read each do on their own, and must agree on. *)
(*                                                                         *)
(* A message of `size` bytes is stored as a frame: a header of HeaderSize  *)
(* bytes (the size) and then the payload.  A frame begins where the last   *)
(* one ended.  If the header does not fit before the end of the buffer,    *)
(* the bytes left there are skipped and the frame begins at 0; if the      *)
(* header fits and the payload does not, the frame is split.  An index may *)
(* stand at BufferSize: a frame that ends exactly there does not wrap.     *)
(***************************************************************************)
EXTENDS Integers, Sequences

CONSTANTS
  BufferSize,      \* Spec::bufferCapacity, m_CircularBuffer.size_bytes()
  HeaderSize,      \* HEADER_SIZE
  MaxMessageSize   \* MAX_MESSAGE_SIZE

(***************************************************************************)
(* The largest frame fits the buffer.  Nothing in the code checks it; it   *)
(* is the smallest buffer bin/benchmarks/Writer.cpp:43 uses, and below it  *)
(* Write copies past the end of the mapping.                               *)
(***************************************************************************)
ASSUME FramingAssumption ==
  /\ BufferSize \in Nat
  /\ HeaderSize \in Nat \ {0}
  /\ MaxMessageSize \in Nat
  /\ HeaderSize + MaxMessageSize <= BufferSize

Index == 0 .. BufferSize
Cell  == 0 .. BufferSize - 1
Size  == 0 .. MaxMessageSize

FrameLen(size) == HeaderSize + size
SpaceToEnd(i)  == BufferSize - i

----------------------------------------------------------------------------
(* Mutations of the definitions below. *)

HeaderFitsLoosely(i) == SpaceToEnd(i) >= HeaderSize - 1

----------------------------------------------------------------------------
Fits(i, size) == FrameLen(size) <= SpaceToEnd(i)
HeaderFits(i) == SpaceToEnd(i) >= HeaderSize
Split(i, size) == HeaderFits(i) /\ ~Fits(i, size)

(* Where Write leaves m_LocalIndex. *)
WriterAdvance(i, size) ==
  IF Fits(i, size) THEN i + FrameLen(size)
  ELSE IF HeaderFits(i) THEN (i + FrameLen(size)) % BufferSize
  ELSE FrameLen(size)

(* Payload bytes of a split frame that go before the end of the buffer,    *)
(* and the bytes of it that go at the beginning.                           *)
FirstPart(i)       == SpaceToEnd(i) - HeaderSize
RestPart(i, size)  == FrameLen(size) - SpaceToEnd(i)

(* The offset of the header, and of byte j of the frame, of a message      *)
(* written when m_LocalIndex was i.                                        *)
FrameStart(i)   == IF HeaderFits(i) THEN i ELSE 0
FrameCell(i, j) ==
  IF FrameStart(i) + j < BufferSize THEN FrameStart(i) + j
  ELSE FrameStart(i) + j - BufferSize

(***************************************************************************)
(* How far, in counted bytes, the writer may reserve ahead of the first    *)
(* byte of a frame without touching the frame.  It is less than BufferSize *)
(* because the bytes skipped at the end of the buffer, HeaderSize - 1 at   *)
(* most, are not counted by seqNum.                                        *)
(***************************************************************************)
SafeWindow == BufferSize - (HeaderSize - 1)
=============================================================================

-------------------------- MODULE ReaderInvariant ---------------------------
(***************************************************************************)
(* The inductive invariants behind the properties of Reader.  ReaderInv    *)
(* says what the progress of a Read tells of its index and of the bytes it *)
(* has copied, whatever the header was that it read; FollowInv adds where  *)
(* a reader that keeps up is in the stream of messages.                    *)
(***************************************************************************)
EXTENDS Reader, WriterInvariant

ReadShape(r) ==
  /\ rPc[r] = "body" => HeaderFits(rLocalIndex[r])
  /\ rPc[r] = "rest" => rLocalIndex[r] = 0 /\ Len(rData[r]) < rSize[r]
  /\ rPc[r] = "recheck" => Len(rData[r]) = rSize[r]
  /\ rPc[r] \in {"body", "rest", "recheck"} => rSize[r] <= rCap[r]

(***************************************************************************)
(* Of the readers alone, whatever becomes of the stream: no Read copies    *)
(* more than its size, its index and the read buffer allow, even of a      *)
(* header made of overwritten bytes (Reader.cpp:54-162).                   *)
(***************************************************************************)
ReadInv == ReaderTypeOK /\ \A r \in Readers : ReadShape(r)

(* The inductive invariant of the writer with its readers. *)
ReaderInv == WriterInv /\ ReadInv

----------------------------------------------------------------------------
(* Where the frame of message k begins, or will if it is the next one.     *)
IndexAt(k) == IF k <= Last THEN Frame(k).idx ELSE wLocalIndex

(* Of any reader, lapped or not: where the constructor found the stream,   *)
(* and that a Read in progress has told nothing yet.                       *)
JoinShape(r) ==
  /\ rPc[r] \in {"closed", "attach"} => ~synced[r]
  /\ rPc[r] = "attach" =>
       rNext[r] <= Published + 1 /\ rLocalIndex[r] = IndexAt(rNext[r])
  /\ rPc[r] # "idle" => ret[r] = "none"
  /\ synced[r] => rNext[r] <= Published + 1

(* The bytes copied so far are the first ones of the payload of message k. *)
CopiedFrom(r, k) ==
  \A o \in 1 .. Len(rData[r]) : rData[r][o] = StoredByte(k, HeaderSize + o - 1)

(***************************************************************************)
(* Of a reader that keeps up: how far each step of Read has taken it       *)
(* through the frame of the message it is to return next.  Before a Read,  *)
(* it stands where the message before ended, or, after an error, where     *)
(* the frame begins.                                                       *)
(***************************************************************************)
Placed(r) ==
  LET k == rNext[r]
      f == Frame(k)
  IN  /\ rPc[r] \in {"idle", "poll", "check", "header"} =>
           /\ rLocalSeqNum[r] = SeqAt(k)
           /\ \/ rLocalIndex[r] = IndexAt(k)
              \/ k <= Published /\ rLocalIndex[r] = FrameStart(f.idx)
      /\ rPc[r] \in {"check", "header", "body", "rest", "recheck"} => k <= Published
      /\ rPc[r] \in {"body", "rest", "recheck"} => rSize[r] = f.size
      /\ rPc[r] \in {"body", "rest"} => rLocalSeqNum[r] = f.seq
      /\ rPc[r] = "body" => rLocalIndex[r] = FrameStart(f.idx)
      /\ rPc[r] = "rest" => Split(f.idx, f.size) /\ Len(rData[r]) = FirstPart(f.idx)
      /\ rPc[r] \in {"rest", "recheck"} => CopiedFrom(r, k)
      /\ rPc[r] = "recheck" =>
           /\ rLocalSeqNum[r] = Ended(k)
           /\ rLocalIndex[r] = WriterAdvance(f.idx, f.size)

Follows(r) ==
  /\ JoinShape(r)
  /\ ReadIsIntact(r)
  /\ KeptUp(r) => Placed(r) /\ NotRefused(r)

(***************************************************************************)
(* The inductive invariant behind what a reader that keeps up is promised. *)
(***************************************************************************)
FollowInv == ReaderInv /\ \A r \in Readers : Follows(r)
=============================================================================

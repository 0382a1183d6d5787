------------------------------- MODULE Reader -------------------------------
(***************************************************************************)
(* Readers of the buffer beside the one writer: the constructor of Reader  *)
(* and Reader::Read, one step per access to shared memory (a load of       *)
(* readIdx or seqNum, or a memcpy), interleaved with the steps of Write.   *)
(* Readers store nothing the writer or another reader sees.                *)
(*                                                                         *)
(* A Read returns the size of a message ("message"), 0 ("empty"), -1       *)
(* ("error": a header no message has, or a read buffer too small) or       *)
(* INT_MIN ("overwritten").                                                *)
(***************************************************************************)
EXTENDS Writer

CONSTANTS
  Readers,     \* the Reader objects
  Caps,        \* sizes of the read buffers the application passes to Read
  SeqModulus   \* 2^64: SeqNumT is unsigned, so a lag below 0 wraps

ASSUME ReaderAssumption ==
  /\ Caps \subseteq Nat
  /\ SeqModulus \in Nat
  /\ SeqModulus > (MaxMessages + 2) * BufferSize

VARIABLES
  rPc,           \* the reader's next visible access
  rLocalIndex,   \* m_LocalIndex
  rLocalSeqNum,  \* m_LocalSeqNum
  rCap,          \* the size of the read buffer of the Read in progress
  rSize,         \* msgSize
  rData,         \* the bytes this Read has copied to the read buffer
  ret,           \* what the last Read returned
  rNext,         \* history: the number of the message the reader is to return next
  synced         \* history: it attached between two writes, and each message
                 \* it returned was still in the window then

readerVars == <<rPc, rLocalIndex, rLocalSeqNum, rCap, rSize, rData, ret, rNext, synced>>
vars       == <<writerVars, readerVars>>

(***************************************************************************)
(* A reader keeps up while the writer has reserved less than the safe      *)
(* window since the first byte of the message the reader is to return      *)
(* next.  At the whole window the bytes are still there, but readIdx may   *)
(* be one lap ahead and equal to the reader's index.                       *)
(***************************************************************************)
KeptUp(r) ==
  /\ synced[r]
  /\ rNext[r] <= Last => HeadSeq - Frame(rNext[r]).seq < SafeWindow

----------------------------------------------------------------------------
(* Mutations of the definitions below. *)

ReadToWriteIdx           == writeIdx
AcceptSmaller(r, size)   == size <= MaxMessageSize /\ size < rCap[r]
RestOfFrame(r)           == rSize[r]

----------------------------------------------------------------------------
(* seqNum - m_LocalSeqNum, in unsigned arithmetic. *)
Lag(local) ==
  IF seqNum >= local THEN seqNum - local ELSE seqNum - local + SeqModulus

Overwritten(local) == Lag(local) > BufferSize

(* The index Read compares its own to. *)
ReadLimit == readIdx

(* What the header bytes at offset `at` may read as: the size a message    *)
(* was stored with, 0 in fresh memory, and anything at all when the bytes  *)
(* are not one message's header.  MaxMessageSize + 1 stands for all the    *)
(* values Read rejects.                                                    *)
HeaderReadsAs(at) ==
  LET bytes == [j \in 0 .. HeaderSize - 1 |-> cell[at + j]]
      of    == {k \in 1 .. Last : \A j \in DOMAIN bytes : bytes[j] = <<k, j>>}
  IN  IF of # {} THEN {Frame(k).size : k \in of}
      ELSE IF \A j \in DOMAIN bytes : bytes[j] = ZeroByte THEN {0}
      ELSE Size \cup {MaxMessageSize + 1}

(* The header is of a message the writer may have stored and the read      *)
(* buffer has room for.                                                    *)
Acceptable(r, size) == size <= MaxMessageSize /\ size <= rCap[r]

(* The n bytes from offset `at`. *)
BytesAt(at, n) == [o \in 1 .. n |-> cell[at + o - 1]]

(* The bytes of a split message that Read has yet to copy. *)
BytesLeft(r) == rSize[r] - Len(rData[r])

(* m_LocalSeqNum once the message is read. *)
SeqAfterRead(r) == rLocalSeqNum[r] + FrameLen(rSize[r])

(* Return from Read; its local dies. *)
Return(r, what) ==
  /\ rPc' = [rPc EXCEPT ![r] = "idle"]
  /\ ret' = [ret EXCEPT ![r] = what]
  /\ rSize' = [rSize EXCEPT ![r] = 0]

----------------------------------------------------------------------------
ReaderInit ==
  /\ rPc = [r \in Readers |-> "closed"]
  /\ rLocalIndex = [r \in Readers |-> 0]
  /\ rLocalSeqNum = [r \in Readers |-> 0]
  /\ rCap = [r \in Readers |-> 0]
  /\ rSize = [r \in Readers |-> 0]
  /\ rData = [r \in Readers |-> <<>>]
  /\ ret = [r \in Readers |-> "none"]
  /\ rNext = [r \in Readers |-> 1]
  /\ synced = [r \in Readers |-> FALSE]

(* Reader::Reader loads readIdx, and then seqNum. *)
AttachIndex(r) ==
  /\ rPc[r] = "closed"
  /\ rLocalIndex' = [rLocalIndex EXCEPT ![r] = readIdx]
  /\ rNext' = [rNext EXCEPT ![r] = Published + 1]
  /\ rPc' = [rPc EXCEPT ![r] = "attach"]
  /\ UNCHANGED <<rLocalSeqNum, rCap, rSize, rData, ret, synced>>

SeqAt(k) == IF k <= Last THEN Frame(k).seq ELSE HeadSeq

AttachSeqNum(r) ==
  /\ rPc[r] = "attach"
  /\ rLocalSeqNum' = [rLocalSeqNum EXCEPT ![r] = seqNum]
  /\ synced' = [synced EXCEPT ![r] = seqNum = SeqAt(rNext[r])]
  /\ rPc' = [rPc EXCEPT ![r] = "idle"]
  /\ UNCHANGED <<rLocalIndex, rCap, rSize, rData, ret, rNext>>

(* Read is called, after whatever it returned before. *)
Read(r, cap) ==
  /\ rPc[r] = "idle"
  /\ rCap' = [rCap EXCEPT ![r] = cap]
  /\ rData' = [rData EXCEPT ![r] = <<>>]
  /\ ret' = [ret EXCEPT ![r] = "none"]
  /\ rPc' = [rPc EXCEPT ![r] = "poll"]
  /\ UNCHANGED <<rLocalIndex, rLocalSeqNum, rSize, rNext, synced>>

PollEmpty(r) ==
  /\ rPc[r] = "poll"
  /\ rLocalIndex[r] = ReadLimit
  /\ Return(r, "empty")
  /\ UNCHANGED <<rLocalIndex, rLocalSeqNum, rCap, rData, rNext, synced>>

PollData(r) ==
  /\ rPc[r] = "poll"
  /\ rLocalIndex[r] # ReadLimit
  /\ rPc' = [rPc EXCEPT ![r] = "check"]
  /\ UNCHANGED <<rLocalIndex, rLocalSeqNum, rCap, rSize, rData, ret, rNext, synced>>

CheckLag(r) ==
  /\ rPc[r] = "check"
  /\ IF Overwritten(rLocalSeqNum[r])
     THEN Return(r, "overwritten")
     ELSE /\ rPc' = [rPc EXCEPT ![r] = "header"]
          /\ UNCHANGED <<ret, rSize>>
  /\ UNCHANGED <<rLocalIndex, rLocalSeqNum, rCap, rData, rNext, synced>>

(* Read the header, at 0 when it does not fit where the reader stands. The *)
(* index is moved before the size is validated, and stays moved.           *)
ReadHeader(r, size) ==
  /\ rPc[r] = "header"
  /\ size \in HeaderReadsAs(FrameStart(rLocalIndex[r]))
  /\ rLocalIndex' = [rLocalIndex EXCEPT ![r] = FrameStart(rLocalIndex[r])]
  /\ IF Acceptable(r, size)
     THEN /\ rPc' = [rPc EXCEPT ![r] = "body"]
          /\ rSize' = [rSize EXCEPT ![r] = size]
          /\ UNCHANGED ret
     ELSE Return(r, "error")
  /\ UNCHANGED <<rLocalSeqNum, rCap, rData, rNext, synced>>

(* Copy the payload, or the part of it before the end of the buffer. *)
ReadBody(r) ==
  LET i == rLocalIndex[r]
      fits == Fits(i, rSize[r])
  IN  /\ rPc[r] = "body"
      /\ rData' = [rData EXCEPT ![r] =
                     BytesAt(i + HeaderSize, IF fits THEN rSize[r] ELSE FirstPart(i))]
      /\ rLocalIndex' = [rLocalIndex EXCEPT ![r] =
                           IF fits THEN i + FrameLen(rSize[r]) ELSE 0]
      /\ rLocalSeqNum' = [rLocalSeqNum EXCEPT ![r] =
                            IF fits THEN SeqAfterRead(r) ELSE @]
      /\ rPc' = [rPc EXCEPT ![r] = IF fits THEN "recheck" ELSE "rest"]
      /\ UNCHANGED <<rCap, rSize, ret, rNext, synced>>

ReadRest(r) ==
  /\ rPc[r] = "rest"
  /\ rData' = [rData EXCEPT ![r] = @ \o BytesAt(rLocalIndex[r], BytesLeft(r))]
  /\ rLocalIndex' = [rLocalIndex EXCEPT ![r] = @ + BytesLeft(r)]
  /\ rLocalSeqNum' = [rLocalSeqNum EXCEPT ![r] = SeqAfterRead(r)]
  /\ rPc' = [rPc EXCEPT ![r] = "recheck"]
  /\ UNCHANGED <<rCap, rSize, ret, rNext, synced>>

(* The check after reading, with the sequence number already advanced. *)
Recheck(r) ==
  /\ rPc[r] = "recheck"
  /\ Return(r, IF Overwritten(rLocalSeqNum[r]) THEN "overwritten" ELSE "message")
  /\ synced' = [synced EXCEPT ![r] = KeptUp(r)]
  /\ rNext' = [rNext EXCEPT ![r] = IF KeptUp(r) THEN @ + 1 ELSE @]
  /\ UNCHANGED <<rLocalIndex, rLocalSeqNum, rCap, rData>>

(* A step of a Read or of a constructor in progress. *)
ReadInProgress(r) ==
  \/ AttachSeqNum(r)
  \/ PollEmpty(r) \/ PollData(r)
  \/ CheckLag(r)
  \/ \E size \in Size \cup {MaxMessageSize + 1} : ReadHeader(r, size)
  \/ ReadBody(r) \/ ReadRest(r)
  \/ Recheck(r)

ReaderNext(r) == AttachIndex(r) \/ (\E cap \in Caps : Read(r, cap)) \/ ReadInProgress(r)

Init == WriterInit /\ ReaderInit

Next ==
  \/ WriterNext /\ UNCHANGED readerVars
  \/ \E r \in Readers : ReaderNext(r) /\ UNCHANGED writerVars

Spec == Init /\ [][Next]_vars

(***************************************************************************)
(* ReaderApp::Run calls Read again and again, with a buffer every message  *)
(* fits, and the scheduler starves no process: a Read begun, and a Write   *)
(* begun, goes on to its end.  Nothing makes an application write.         *)
(***************************************************************************)
FairSpec ==
  /\ Spec
  /\ WF_vars(WriteInProgress /\ UNCHANGED readerVars)
  /\ \A r \in Readers :
       /\ WF_vars(ReadInProgress(r) /\ UNCHANGED writerVars)
       /\ WF_vars(\E cap \in Caps : Read(r, cap) /\ UNCHANGED writerVars)

----------------------------------------------------------------------------
(* The payload of message k as it is stored. *)
Payload(k) == [o \in 1 .. Frame(k).size |-> StoredByte(k, HeaderSize + o - 1)]

CellsFrom(at, n) == at .. at + n - 1

(* The offsets the next memcpy of the Read in progress copies from. *)
ReadCells(r) ==
  LET i == rLocalIndex[r]
  IN  CASE rPc[r] = "header" -> CellsFrom(FrameStart(i), HeaderSize)
        [] rPc[r] = "body"   -> CellsFrom(i + HeaderSize,
                                  IF Fits(i, rSize[r]) THEN rSize[r] ELSE FirstPart(i))
        [] rPc[r] = "rest"   -> CellsFrom(i, BytesLeft(r))
        [] OTHER             -> {}

(* The offsets the next memcpy of the Write in progress copies to. *)
WriteCells ==
  LET f == Frame(Last)
  IN  CASE wPc = "header" -> CellsFrom(nextElement, HeaderSize)
        [] wPc = "body"   -> CellsFrom(nextElement + HeaderSize,
                               IF Split(f.idx, f.size) THEN FirstPart(f.idx) ELSE f.size)
        [] wPc = "rest"   -> CellsFrom(nextElement, RestPart(f.idx, f.size))
        [] OTHER          -> {}

ReaderPcs == {"closed", "attach", "idle", "poll", "check", "header", "body", "rest", "recheck"}

ReaderTypeOK ==
  /\ WriterTypeOK
  /\ rPc \in [Readers -> ReaderPcs]
  /\ rLocalIndex \in [Readers -> Index]
  /\ rLocalSeqNum \in [Readers -> Nat]
  /\ rCap \in [Readers -> Caps \cup {0}]
  /\ rSize \in [Readers -> Size]
  /\ rData \in [Readers -> Seq(Byte)]
  /\ ret \in [Readers -> {"none", "empty", "error", "overwritten", "message"}]
  /\ rNext \in [Readers -> Nat \ {0}]
  /\ synced \in [Readers -> BOOLEAN]

(***************************************************************************)
(* Whatever a lapped reader finds where it expects a header, no memcpy of  *)
(* Read leaves the circular buffer or the application's read buffer        *)
(* (Reader.cpp:56, 84, 98, 111, 136, 153).                                 *)
(***************************************************************************)
ReadsInBounds ==
  \A r \in Readers :
    /\ ReadCells(r) \subseteq Cell
    /\ rPc[r] \in {"body", "rest", "recheck"} => rSize[r] <= rCap[r]
    /\ rPc[r] = "rest" => Len(rData[r]) < rSize[r]
    /\ rPc[r] = "recheck" => Len(rData[r]) = rSize[r]

(* Of one reader: it expects the next message where it is, and has counted *)
(* the bytes before it.                                                    *)
InStep(r) ==
  rPc[r] \in {"idle", "poll", "check", "header", "body"} =>
    /\ rLocalSeqNum[r] = SeqAt(rNext[r])
    /\ FrameStart(rLocalIndex[r]) =
         FrameStart(IF rNext[r] <= Last THEN Frame(rNext[r]).idx ELSE wLocalIndex)

(* Of one reader: what Read returned is the message before its next. *)
ReadIsIntact(r) ==
  ret[r] = "message" /\ synced[r] =>
    /\ rNext[r] - 1 \in 1 .. Published
    /\ rData[r] = Payload(rNext[r] - 1)

(* Of one reader: an error means that its read buffer is too small. *)
NotRefused(r) ==
  /\ ret[r] # "overwritten"
  /\ ret[r] = "error" => rNext[r] <= Published /\ Frame(rNext[r]).size > rCap[r]

(***************************************************************************)
(* A reader that keeps up computes for itself, from headers alone, where   *)
(* the writer put the next message and how many bytes it counted before    *)
(* it, a retried Read included: the wrap-around arithmetic of the two      *)
(* sides (Writer.cpp:58-139, Reader.cpp:49-162) never drifts apart.  What  *)
(* Read returns to it is the payload of the next message as the writer     *)
(* stored it, in order, none missed, none twice; it is never told that it  *)
(* was overwritten, and gets -1 only for a message larger than the buffer  *)
(* it brought (Reader.cpp:39, 59, 71, 139, 145, 166).                      *)
(***************************************************************************)
KeptUpReaderIsServed ==
  \A r \in Readers : ReadIsIntact(r) /\ (KeptUp(r) => InStep(r) /\ NotRefused(r))

(***************************************************************************)
(* The memcpy of a reader that keeps up and the memcpy the writer may be   *)
(* in meanwhile share no byte of the buffer.  (They are plain accesses, so *)
(* sharing one would be a data race; it is also what lets a copy be one    *)
(* step here.)                                                             *)
(***************************************************************************)
KeptUpReaderNeverRaces ==
  \A r \in Readers : KeptUp(r) => ReadCells(r) \cap WriteCells = {}

(***************************************************************************)
(* Read tells a reader that keeps up that there is nothing to read only    *)
(* when every released message was returned to it: readIdx, one index for  *)
(* all laps, is not mistaken for the reader's own (Reader.cpp:31).         *)
(***************************************************************************)
EmptyMeansCaughtUp ==
  [][\A r \in Readers :
       KeptUp(r) /\ ret[r] = "none" /\ ret'[r] = "empty" => rNext[r] > Published]_vars

(***************************************************************************)
(* A message the writer has begun is, in the end, returned to each reader  *)
(* that waits for it, unless the writer gets a safe window ahead of it.    *)
(***************************************************************************)
EveryMessageIsRead ==
  \A r \in Readers : \A k \in 1 .. MaxMessages :
    (synced[r] /\ rNext[r] = k /\ k <= Last) ~> (rNext[r] > k \/ ~KeptUp(r))
=============================================================================

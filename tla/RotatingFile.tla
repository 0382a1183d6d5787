---------------------------- MODULE RotatingFile ----------------------------
(***************************************************************************)
(* rotating_file_sink: a log file of bounded size, file 0, and the files   *)
(* 1, 2, ... it was before, the oldest last.  A rotation is a loop of      *)
(* removals and renamings, of which any may fail, or be the last thing the *)
(* process does.                                                           *)
(***************************************************************************)
EXTENDS FileHelper

CONSTANTS
  MaxSize,        \* max_size_
  MessageSizes    \* sizes of formatted messages

ASSUME RotatingFileAssumption ==
  /\ MaxSize \in Nat \ {0} /\ MaxFiles \in Nat
  /\ MessageSizes \subseteq Nat \ {0} /\ 0 .. MaxFiles \subseteq Names
  /\ {MaxMessages, MaxFaults} \subseteq Nat

VARIABLES
  pc,            \* "down" without a sink, "idle" between calls, else the step of rotate_
  index,         \* i in rotate_
  why,           \* what the rotation is for: "log", "hand" or "open"
  pending,       \* the message to write after the rotation, or none
  currentSize    \* current_size_

rotatingVars == <<pc, index, why, pending, currentSize>>

----------------------------------------------------------------------------
(* Mutations of the definitions below. *)

SizeUnknown(h)     == 0
StopAtNoSource     == 0

----------------------------------------------------------------------------
(* The first i of the loop, and the i after one whose source is missing.   *)
FirstIndex == MaxFiles
SkipIndex  == index - 1

(* current_size_ when the file is opened.                                  *)
SizeAtOpen(h) == FileSize(h)

RotatingInit ==
  /\ FileInit
  /\ pc = "down" /\ index = 0 /\ why = "open" /\ pending = <<>>
  /\ currentSize = 0

(* rotate_ begins by closing the file. *)
BeginRotation(h, reason, messages) ==
  /\ fh' = Closed(h)
  /\ pc' = "rotate" /\ index' = FirstIndex /\ why' = reason /\ pending' = messages

OpenSink(rotateOnOpen) ==
  /\ pc = "down"
  /\ LET h == Opened(fh, 0, FALSE)
     IN  /\ currentSize' = SizeAtOpen(h)
         /\ IF rotateOnOpen /\ currentSize' > 0
            THEN BeginRotation(h, "open", <<>>)
            ELSE fh' = h /\ pc' = "idle" /\ UNCHANGED <<index, why, pending>>
  /\ UNCHANGED <<nextId, lost, faults>>

OpenSinkFails ==
  /\ pc = "down" /\ Fault
  /\ fh' \in NotOpened(fh, 0, FALSE)
  /\ UNCHANGED <<nextId, lost, rotatingVars>>

LogCall == pc = "idle" /\ nextId <= MaxMessages /\ nextId' = nextId + 1

(* A message that no rotation is needed for.  stdio may write its buffer   *)
(* to the disk at once, or keep it.                                        *)
LogPlain(size) ==
  LET m == Message(size, 0)
      h == Written(fh, m)
  IN  /\ LogCall
      /\ \/ currentSize + size <= MaxSize /\ fh' \in {h, Flushed(h)}
         \/ /\ currentSize + size > MaxSize /\ fh.isOpen /\ FileSize(Flushed(fh)) = 0
            /\ fh' = Written(Flushed(fh), m)
      /\ lost' = IF fh.isOpen THEN lost ELSE lost \cup {m.id}
      /\ currentSize' = currentSize + size
      /\ UNCHANGED <<faults, pc, index, why, pending>>

LogRotates(size) ==
  /\ LogCall
  /\ currentSize + size > MaxSize /\ fh.isOpen /\ FileSize(Flushed(fh)) > 0
  /\ BeginRotation(Flushed(fh), "log", <<Message(size, 0)>>)
  /\ UNCHANGED <<lost, faults, currentSize>>

(* The write throws, and current_size_ stays as it was.                    *)
LogFails(size) ==
  /\ LogCall /\ fh.isOpen /\ Fault
  /\ currentSize + size <= MaxSize \/ FileSize(Flushed(fh)) = 0
  /\ WriteStops(fh, Append(fh.buffer, Message(size, 0)), {})
  /\ UNCHANGED rotatingVars

(* No file is open, and size() throws; or the flush before it does.        *)
LogThrows(size) ==
  /\ LogCall /\ currentSize + size > MaxSize
  /\ \/ ~fh.isOpen /\ lost' = lost \cup {nextId} /\ UNCHANGED <<fh, faults>>
     \/ Fault /\ WriteStops(fh, fh.buffer, {nextId})
  /\ UNCHANGED rotatingVars

(* A flush that was asked for throws.  When it is the fclose of a close    *)
(* that fails nobody hears of it, and the files are left as by this step   *)
(* and the close.                                                          *)
FlushFails ==
  /\ pc = "idle" /\ Fault
  /\ WriteStops(fh, fh.buffer, {})
  /\ UNCHANGED <<nextId, rotatingVars>>

RotateNow ==
  /\ pc = "idle"
  /\ BeginRotation(fh, "hand", <<>>)
  /\ UNCHANGED <<nextId, lost, faults, currentSize>>

(* One turn of the loop: nothing to rename, or the target is removed ...   *)
SkipMissing ==
  /\ pc = "rotate" /\ index > 0 /\ ~Exists(fh, index - 1)
  /\ index' = SkipIndex
  /\ UNCHANGED <<fileVars, pc, why, pending, currentSize>>

RemoveTarget ==
  /\ pc = "rotate" /\ index > 0 /\ Exists(fh, index - 1)
  /\ fh' = Removed(fh, index)
  /\ pc' = "rename"
  /\ UNCHANGED <<nextId, lost, faults, index, why, pending, currentSize>>

(* ... and the source takes its name, ... *)
Rename ==
  /\ pc = "rename"
  /\ fh' = Renamed(fh, index - 1, index)
  /\ index' = index - 1 /\ pc' = "rotate"
  /\ UNCHANGED <<nextId, lost, faults, why, pending, currentSize>>

(* The exception leaves the sink, or the constructor; the message is not   *)
(* written.                                                                *)
Throw ==
  /\ pc' = IF why = "open" THEN "down" ELSE "idle"
  /\ pending' = <<>>

(* ... or both tries fail: the log file is truncated all the same, or that *)
(* fails too.  What it held is lost.                                       *)
RenameFails ==
  /\ pc = "rename" /\ Fault
  /\ \/ /\ LET h == Opened(fh, 0, TRUE)
           IN  fh' = IF why = "open" THEN Closed(h) ELSE h
        /\ currentSize' = 0
     \/ fh' \in NotOpened(fh, 0, TRUE) /\ UNCHANGED currentSize
  /\ lost' = lost \cup Ids(pending) \cup
               (IF Exists(fh, 0) /\ fh'.dir[0] = <<>> THEN Ids(fh.dir[0]) ELSE {})
  /\ Throw
  /\ UNCHANGED <<nextId, index, why>>

(* The loop is over: a new log file, and the message in it.                *)
Reopen ==
  /\ pc = "rotate" /\ index = 0
  /\ LET h == Opened(fh, 0, TRUE)
     IN  fh' = IF pending = <<>> THEN h ELSE Written(h, pending[1])
  /\ currentSize' = CASE why = "log"  -> pending[1].size
                      [] why = "open" -> 0
                      [] why = "hand" -> currentSize
  /\ pc' = "idle" /\ pending' = <<>>
  /\ UNCHANGED <<nextId, lost, faults, index, why>>

(* The new log file cannot be opened, or the message cannot be written to  *)
(* it: then current_size_ is still that of the file before.                *)
ReopenFails ==
  /\ pc = "rotate" /\ index = 0 /\ Fault
  /\ \/ fh' \in NotOpened(fh, 0, TRUE) /\ lost' = lost \cup Ids(pending)
     \/ WriteStops(Opened(fh, 0, TRUE), pending, {})
  /\ Throw
  /\ UNCHANGED <<nextId, index, why, currentSize>>

FlushSink ==
  /\ pc = "idle" /\ fh.buffer # <<>>
  /\ fh' = Flushed(fh)
  /\ UNCHANGED <<nextId, lost, faults, rotatingVars>>

(* The sink is destroyed, or the process dies at any step. *)
DestroySink ==
  /\ pc = "idle"
  /\ fh' = Closed(fh)
  /\ pc' = "down"
  /\ UNCHANGED <<nextId, lost, faults, index, why, pending, currentSize>>

Crash ==
  /\ pc # "down" /\ Fault
  /\ fh' = Crashed(fh)
  /\ lost' = lost \cup Ids(fh.buffer) \cup Ids(pending)
  /\ pc' = "down" /\ pending' = <<>>
  /\ UNCHANGED <<nextId, index, why, currentSize>>

RotatingNext ==
  \/ (\E rotateOnOpen \in BOOLEAN : OpenSink(rotateOnOpen)) \/ OpenSinkFails
  \/ \E size \in MessageSizes : LogPlain(size) \/ LogFails(size) \/ LogRotates(size) \/ LogThrows(size)
  \/ RotateNow \/ FlushSink \/ FlushFails
  \/ SkipMissing \/ RemoveTarget \/ Rename \/ RenameFails \/ Reopen \/ ReopenFails
  \/ DestroySink \/ Crash

RotatingSpec == RotatingInit /\ [][RotatingNext]_<<fileVars, rotatingVars>>

----------------------------------------------------------------------------
Stored(h, n) == IF Exists(h, n) THEN h.dir[n] ELSE <<>>

Increasing(messages) == \A j, k \in DOMAIN messages : j < k => messages[j].id < messages[k].id

Before(some, others) ==
  \A j \in DOMAIN some : \A k \in DOMAIN others : some[j].id < others[k].id

(* The files, the oldest first, then what is still buffered, and then the  *)
(* message that waits for a rotation.                                      *)
InOrder(h, waiting) ==
  /\ Increasing(h.buffer \o waiting)
  /\ \A n \in 0 .. MaxFiles :
       /\ Increasing(Stored(h, n)) /\ Before(Stored(h, n), h.buffer \o waiting)
       /\ \A m \in 0 .. n - 1 : Before(Stored(h, n), Stored(h, m))

Held(h, waiting) ==
  (UNION {Ids(Stored(h, n)) : n \in 0 .. MaxFiles}) \cup Ids(h.buffer) \cup Ids(waiting)

RotatingTypeOK ==
  /\ FileTypeOK
  /\ pc \in {"down", "idle", "rotate", "rename"}
  /\ index \in 0 .. MaxFiles
  /\ why \in {"log", "hand", "open"}
  /\ Len(pending) <= 1
  /\ currentSize \in Nat

(***************************************************************************)
(* Read from the oldest file to the newest, the messages are in the order  *)
(* in which they were logged, none twice: also after a crash or a failure  *)
(* in the middle of a rotation, and the rotations after it                 *)
(* (rotating_file_sink-inl.h:138-176).                                     *)
(***************************************************************************)
FilesAreInOrder == InOrder(fh, pending)

(***************************************************************************)
(* A rotation lets go of the oldest file only, whatever gaps an earlier    *)
(* failure left between the files: every other message stays, but for      *)
(* those that are counted as lost because the process died or a call       *)
(* failed (rotating_file_sink-inl.h:143-165).                              *)
(***************************************************************************)
OnlyTheOldestAreDropped ==
  [][Held(fh, pending) \subseteq Held(fh', pending') \cup lost' \cup Ids(Stored(fh, MaxFiles))
    ]_<<fileVars, rotatingVars>>

(* Within the limit, but for one message that is larger than it.           *)
Fits(file) == WholeSize(file) <= MaxSize \/ Len(file) = 1

(***************************************************************************)
(* No file outgrows the limit, but for one message that is larger than it  *)
(* and for what is left of messages whose writing failed: by those pieces, *)
(* and by nothing else, does current_size_, an estimate that is corrected  *)
(* only at rotations, fall behind the file.  A write that throws keeps it  *)
(* as it was with part of the line on the disk or in stdio                 *)
(* (rotating_file_sink-inl.h:111-124, file_helper-inl.h:105-107).          *)
(***************************************************************************)
FilesAreBounded ==
  /\ \A n \in DOMAIN fh.dir : Fits(fh.dir[n])
  /\ LET file == Stored(fh, 0) \o fh.buffer
     IN  pc = "idle" /\ fh.isOpen => WholeSize(file) <= currentSize /\ Fits(file)
=============================================================================

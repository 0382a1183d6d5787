----------------------------- MODULE TimedFile -----------------------------
(***************************************************************************)
(* daily_file_sink and hourly_file_sink: a file for every day, or hour,    *)
(* named by the time of the message that opens it, and a queue of the last *)
(* names, whose oldest file is deleted at a rotation.  A message carries   *)
(* the time at which it was logged, and reaches the sink later; the sink   *)
(* schedules the next rotation by its own clock.                           *)
(***************************************************************************)
EXTENDS FileHelper

CONSTANTS
  Period,        \* length of the day, or of the hour
  Rotations,     \* the times of the day at which a daily sink may rotate
  MaxDelay,      \* bound on the time a message takes to reach the sink
  MaxTime        \* bound on the clock

ASSUME TimedFileAssumption ==
  /\ {Period, MaxFiles} \subseteq Nat \ {0}
  /\ Rotations \subseteq 0 .. Period - 1
  /\ {MaxDelay, MaxTime, MaxMessages, MaxFaults} \subseteq Nat

VARIABLES
  sink,         \* the arguments that the sink is constructed with, at every start
  isUp,         \* the sink is constructed
  rotationTp,   \* rotation_tp_
  emptyAtOpen,  \* remove_init_file_ of an hourly sink
  queue,        \* filenames_q_, from the front
  now,          \* the clock
  namedAt,      \* history: the time that the name of the open file is from
  firstName     \* history: the name of this sink's first file

sinkVars  == <<sink, isUp, rotationTp, emptyAtOpen, queue, namedAt, firstName>>
timedVars == <<sinkVars, now>>

Sinks ==
  [hourly : {FALSE}, rotation : Rotations, truncate : BOOLEAN] \cup
  [hourly : {TRUE}, rotation : {0}, truncate : BOOLEAN]

(* calc_filename: files are named by the period.                           *)
NameOf(time) == time \div Period

----------------------------------------------------------------------------
(* Mutations of the definitions below. *)

APeriodFromNow(time) == time + Period
NeverFull            == FALSE
OneTooSoon           == Len(queue) >= MaxFiles - 1

----------------------------------------------------------------------------
NextRotation(time) ==
  LET today == NameOf(time) * Period + sink.rotation
  IN  IF today > time THEN today ELSE today + Period

QueueIsFull == Len(queue) = MaxFiles

(* init_filenames_q_: the files that exist, from now back to the first gap. *)
InitQueue(h, time) ==
  LET last == NameOf(time)
      size == Max({k \in 0 .. MaxFiles : \A j \in 0 .. k - 1 : Exists(h, last - j)})
  IN  [i \in 1 .. size |-> last - size + i]

TimedInit ==
  /\ FileInit
  /\ sink \in Sinks /\ isUp = FALSE /\ rotationTp = 0 /\ emptyAtOpen = FALSE /\ queue = <<>>
  /\ now = 0 /\ namedAt = 0 /\ firstName = 0

Tick == now < MaxTime /\ now' = now + 1 /\ UNCHANGED <<fileVars, sinkVars>>

(* The constructor reads the clock for the name, and again, after the file *)
(* is open, for the next rotation and for the queue.  That the period ends *)
(* between them counts as a fault.                                         *)
OpenTimed(later) ==
  /\ ~isUp /\ isUp' = TRUE
  /\ LET h == Opened(fh, NameOf(now), sink.truncate)
     IN  /\ fh' = h
         /\ emptyAtOpen' = (sink.hourly /\ FileSize(h) = 0)
         /\ queue' = InitQueue(h, later)
  /\ IF NameOf(later) = NameOf(now) THEN UNCHANGED faults ELSE Fault
  /\ now' = later /\ rotationTp' = NextRotation(later)
  /\ namedAt' = now /\ firstName' = NameOf(now)
  /\ lost' = lost \cup (IF sink.truncate /\ Exists(fh, NameOf(now))
                        THEN Ids(fh.dir[NameOf(now)]) ELSE {})
  /\ UNCHANGED <<nextId, sink>>

(* A call logs a message that was made at this time.                       *)
TimedLog(time) ==
  /\ isUp /\ nextId <= MaxMessages
  /\ time \in 0 .. now /\ now - time <= MaxDelay
  /\ nextId' = nextId + 1 /\ emptyAtOpen' = FALSE
  /\ UNCHANGED <<sink, isUp, now, firstName>>

(* No rotation is due.  When the file could not be opened, nothing happens. *)
LogInFile(time) ==
  LET m == Message(1, time)
  IN  /\ time < rotationTp /\ TimedLog(time)
      /\ \/ /\ fh' \in {Written(fh, m), Flushed(Written(fh, m))}
            /\ lost' = IF fh.isOpen THEN lost ELSE lost \cup {m.id}
            /\ UNCHANGED faults
         \/ fh.isOpen /\ Fault /\ WriteStops(fh, Append(fh.buffer, m), {})
      /\ UNCHANGED <<rotationTp, queue, namedAt>>

(* An hourly sink removes the file it was constructed with, if still empty. *)
BeforeRotation == IF emptyAtOpen THEN Removed(Closed(fh), fh.filename) ELSE fh

(* A new file, the message in it, and the oldest file deleted.  When the   *)
(* write fails the queue does not hear of the file; when the deletion      *)
(* fails the name is dropped all the same.                                 *)
LogInNextFile(time) ==
  LET m == Message(1, time)
      h == Opened(BeforeRotation, NameOf(time), sink.truncate)
      w == Written(h, m)
      rest == IF QueueIsFull THEN Tail(queue) ELSE queue
  IN  /\ time >= rotationTp /\ TimedLog(time)
      /\ rotationTp' = NextRotation(now) /\ namedAt' = time
      /\ \/ /\ fh' = IF QueueIsFull THEN Removed(w, Head(queue)) ELSE w
            /\ queue' = Append(rest, NameOf(time))
            /\ UNCHANGED <<lost, faults>>
         \/ /\ QueueIsFull /\ Exists(w, Head(queue)) /\ Fault
            /\ fh' = w /\ queue' = Append(rest, NameOf(time))
            /\ UNCHANGED lost
         \/ Fault /\ WriteStops(h, <<m>>, {}) /\ UNCHANGED queue

(* The next file cannot be opened.  The rotation is still due.             *)
RotationFails(time) ==
  /\ isUp /\ time >= rotationTp /\ nextId <= MaxMessages /\ now - time \in 0 .. MaxDelay
  /\ Fault
  /\ fh' \in NotOpened(BeforeRotation, NameOf(time), sink.truncate)
  /\ nextId' = nextId + 1 /\ lost' = lost \cup {nextId}
  /\ UNCHANGED timedVars

FlushTimed ==
  /\ isUp /\ fh.buffer # <<>>
  /\ \/ fh' = Flushed(fh) /\ UNCHANGED <<lost, faults>>
     \/ Fault /\ WriteStops(fh, fh.buffer, {})
  /\ UNCHANGED <<nextId, timedVars>>

EndSink ==
  /\ isUp' = FALSE /\ rotationTp' = 0 /\ emptyAtOpen' = FALSE /\ queue' = <<>>
  /\ namedAt' = 0 /\ firstName' = 0
  /\ UNCHANGED sink

DestroyTimed ==
  /\ isUp
  /\ fh' = Closed(fh) /\ EndSink
  /\ UNCHANGED <<nextId, lost, faults, now>>

CrashTimed ==
  /\ isUp /\ Fault
  /\ fh' = Crashed(fh) /\ EndSink
  /\ lost' = lost \cup Ids(fh.buffer)
  /\ UNCHANGED <<nextId, now>>

TimedNext ==
  \/ Tick \/ FlushTimed \/ DestroyTimed \/ CrashTimed
  \/ \E later \in now .. now + 1 : later <= MaxTime /\ OpenTimed(later)
  \/ \E time \in 0 .. now : LogInFile(time) \/ LogInNextFile(time) \/ RotationFails(time)

TimedSpec == TimedInit /\ [][TimedNext]_<<fileVars, timedVars>>

----------------------------------------------------------------------------
TimedTypeOK ==
  /\ FileTypeOK
  /\ sink \in Sinks /\ isUp \in BOOLEAN
  /\ rotationTp \in 0 .. MaxTime + Period
  /\ emptyAtOpen \in BOOLEAN
  /\ Len(queue) <= MaxFiles /\ Range(queue) \subseteq Names
  /\ {now, namedAt} \subseteq 0 .. MaxTime /\ firstName \in Names
  /\ isUp => rotationTp > namedAt

(***************************************************************************)
(* A message is not written to the file of a period that has ended when    *)
(* the message is logged: a daily sink with its rotation at an hour of its *)
(* own may still use the file of the day before until then.  Excepted are  *)
(* the messages until the next rotation when the period ended while the    *)
(* file was being opened (daily_file_sink.h:88-91) or before the message   *)
(* that opened it got to the sink (:110-112): the rotation after that is   *)
(* one period later than it should be.                                     *)
(***************************************************************************)
EachMessageInItsPeriod ==
  [][\A m \in Range(fh'.buffer) :
       m.id = nextId /\ rotationTp' = NextRotation(namedAt') =>
         fh'.filename >= NameOf(m.time - sink.rotation)]_<<fileVars, timedVars>>

Deleted == DOMAIN fh.dir \ DOMAIN fh'.dir

InFiles == (UNION {Ids(fh.dir[n]) : n \in DOMAIN fh.dir}) \cup Ids(fh.buffer)

(* What a file has once the buffer is written.                             *)
Complete(name) == Closed(fh).dir[name]

(***************************************************************************)
(* A sink that rotates when the period begins deletes a file with messages *)
(* only when it leaves max_files_ later ones: one fewer for an hourly sink *)
(* while its queue has the empty file it removed                           *)
(* (hourly_file_sink.h:79-82).  That goes for the files of an earlier      *)
(* execution too: the queue has those up to the first gap (:104-121), and  *)
(* they are deleted in their turn, which the description of the sink       *)
(* denies (:42-43, daily_file_sink.h:65-66).  It never deletes the file it *)
(* writes to, and but for a crash, a failing call or the truncation it was *)
(* asked for when it was constructed no message disappears in another way. *)
(***************************************************************************)
RetainsTheLastFiles ==
  [][sink.rotation = 0 =>
       /\ \A n \in Deleted : Complete(n) # <<>> =>
            Cardinality({k \in DOMAIN fh'.dir : k > n}) >=
              (IF sink.hourly /\ \E k \in Range(queue') : ~Exists(fh', k)
               THEN MaxFiles - 1 ELSE MaxFiles)
       /\ ~fh'.unlinked
       /\ InFiles \subseteq InFiles' \cup lost' \cup (UNION {Ids(Complete(n)) : n \in Deleted})
    ]_<<fileVars, timedVars>>

(***************************************************************************)
(* A sink leaves no more than max_files_ files of its own, and one more    *)
(* for every call that failed: a file whose first write fails, or whose    *)
(* deletion fails, is never deleted (daily_file_sink.h:116-121, 166-182).  *)
(***************************************************************************)
OldFilesAreDeleted ==
  isUp => Cardinality({n \in DOMAIN fh.dir : n >= firstName}) <= MaxFiles + faults
=============================================================================

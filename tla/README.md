# The circular buffer in TLA+

TLA+ modules for the programs of this repository: the shared-memory circular
buffer (one writer process, any number of reader processes), the processes that
map and leave its regions, the applications in `bin/`, and the parts of the
bundled spdlog through which they log; the TLC runs that check them on small
instances; and TLAPS proofs about the buffer for every size. Paths are relative
to the root of the repository; spdlog's are relative to `include/spdlog`.

## The system

| Component | State it keeps | Operations |
| --- | --- | --- |
| `Writer` (`src/circularbuffer/Writer.cpp`) | `m_LocalIndex`, `m_LocalSeqNum`, `m_NextElement`, a `SemaphoreLock` | constructor (resets `State`), `Write`, destructor |
| `Reader` (`src/circularbuffer/Reader.cpp`) | `m_LocalIndex`, `m_LocalSeqNum` | constructor (loads `State`), `Read` |
| `State` (`include/circularbuffer/State.hpp`) | the atomics `readIdx`, `writeIdx`, `seqNum`, in shared memory | load, store |
| `IWrapper` (`src/circularbuffer/IWrapper.cpp`) | the two `SharedMemory` regions (state and data) | constructor, destructor |
| `SharedMemory` (`src/circularbuffer/SharedMemory.cpp`) | a mapping with a reference count at its start, a file descriptor, a `SemaphoreLock` | constructor (open, or create and open; map; count), destructor (uncount, unmap, perhaps unlink) |
| `SemaphoreLock` (`src/circularbuffer/SemaphoreLock.cpp`) | a named semaphore, `m_HoldsOwnership` | constructor, `Acquire`, `Release`, destructor |
| Applications (`bin/`) | flags, a thread per application | loops around `Read` and `Write`, a signal handler |
| `Utils` (`src/circularbuffer/Utils.cpp`) | a latch | `SetupSpdlog` |
| spdlog: asynchronous logging (`details/circular_q.h`, `mpmc_blocking_q.h`, `thread_pool*`, `async_logger*`) | a ring with a mutex and two condition variables, workers, reference counts | log, flush, the end of the pool |
| spdlog: files (`details/file_helper*`, `sinks/rotating_file_sink*`, `daily_file_sink.h`, `hourly_file_sink.h`) | an open `FILE`, sizes, names, the time of the next rotation | log, flush, rotate |
| spdlog: registry (`details/registry*`, `periodic_worker*`, `cfg/`) | loggers by name, settings of all, a flusher thread | register, drop, set, load levels, `flush_every`, `shutdown` |
| spdlog: formatting, console (`pattern_formatter*`, `sinks/ansicolor_sink*`) | compiled flags, the last calendar time, offsets | compile, clone, format; log to a console |
| spdlog: logger and sinks (`logger*`, `backtracer*`, `sinks/dup_filter_sink.h`, `dist_sink.h`, `tcp_sink.h`) | a ring of messages, the last message, a socket | log, dump, enable, disable |

The writer and the readers share `State` and the bytes of the buffer and
nothing else: no locks, no messages, no callbacks. `Write` stores `writeIdx`,
copies a header and a payload, and stores `seqNum` and then `readIdx`; `Read`
loads `readIdx` and `seqNum`, copies a header and a payload, and loads `seqNum`
again. `writeIdx` is never loaded by a reader. Processes come and go: each maps
the regions through `SharedMemory`, whose named semaphores serialise creation
and unlinking, and the writer holds one more semaphore to be the only one. The
applications run a reader and a writer each in a thread and stop them by flags.
Constructors set spdlog up; everything logs through its default logger.

What is hard in it:

- **Concurrency without locks.** Readers copy bytes that the writer may be
  overwriting. Only the distance between the two, which each side computes for
  itself, keeps the copies apart.
- **Arithmetic at the end of the buffer.** A frame (header and payload) may fit,
  fit exactly, be split, or find no room for its header and skip to the
  beginning. Writer and readers must agree on every sequence of these, from
  headers alone. An index may stand one past the last byte. Skipped bytes are
  not counted by `seqNum`.
- **Overwrite detection** by unsigned differences of a counter that is stored
  after the bytes it counts.
- **Lifetimes.** Attaching while a message is being released, a second writer
  over live readers, a region unlinked while it is opened, processes that die
  holding a semaphore or a reference, a thread told to stop before it runs.
- **Logging.** Condition variables and a pool destroyed by whoever uses it last;
  rotations that fail half way; messages that reach a sink after their time;
  threads joined under locks that their callbacks need; what a formatter or a
  sink remembers of the message before; connections that fail in mid-line.

## Modules

| Module | What it is |
| --- | --- |
| `Framing` | The layout arithmetic of `Write` and `Read`, with `BufferSize`, `HeaderSize` and `MaxMessageSize` as constants |
| `Writer` | `Write`, one step per visible access: `Write` (store `writeIdx`), `CopyHeader`, `CopyBody`, `CopyRest`, `StoreSeqNum`, `StoreReadIdx` |
| `WriterInvariant` | The inductive invariant of `Writer` |
| `Reader` | Readers beside the writer: `AttachIndex`, `AttachSeqNum` (the constructor); `Read`, `PollEmpty`, `PollData`, `CheckLag`, `ReadHeader`, `ReadBody`, `ReadRest`, `Recheck` (the loads and copies of `Read`) |
| `MessageStream` | The abstract specification: a stream of messages, a window, readers that follow it or are lost |
| `ReaderStream` | The refinement mapping from `Reader` to `MessageStream` |
| `ReaderClaims` | A statement of the documentation that the code does not keep |
| `ReaderInvariant` | The inductive invariants of the writer with its readers |
| `ReaderProofs` | Lemmas on the arithmetic; the proofs about `Writer` and `Reader`, and that `Reader` implements `MessageStream` |
| `SemaphoreLock` | The named semaphore and the objects on it: `Acquire`, `Release`, the destructor |
| `SharedMemory` | Objects of one name, composed with `SemaphoreLock`: the constructor is `Construct`, `Open`, `CheckSize`, `TryAlloc`, `Create`, `Truncate`, `EndAlloc`, `Map`, `Count`, `Unwind` (a throw); the destructor `Uncount`, `TryFree`, `Unlink`, `EndFree`, `Close`; `Fault` is a failing call or a death |
| `SharedMemoryInvariant`, `SharedMemoryProofs` | Its inductive invariant and the proofs |
| `Session` | `Reader` and `SemaphoreLock` composed: writers and readers that are constructed, refused, destroyed or die over the same two regions |
| `SessionInvariant`, `SessionProofs` | Its inductive invariant and the proofs, which use those of `Reader` |
| `Applications` | The three `main`s of `bin/`: the signal handler, the flags, `Run` in its threads, `Stop` and `join` |
| `CircularQ`, `ThreadPool` | spdlog's ring, and the queue, the workers, the loggers and the end of a pool over it |
| `ThreadPoolProofs` | Its inductive invariant, and the proofs |
| `FileHelper` | One open file and its directory, as functions; a crash and a failing call |
| `RotatingFile`, `TimedFile` | The sinks over `FileHelper` |
| `FileProofs` | What each call of `FileHelper` leaves; inductive invariants of both sinks, and the proofs |
| `Registry` | The registry, the periodic flusher, and `SetupSpdlog` of `Utils.cpp` as its caller |
| `RegistryProofs` | Inductive invariants of `Registry` and, as it is short, of `Applications`, and the proofs |
| `PatternFormatter`, `ConsoleSinks` | The formatter, as functions on its state; the coloured sinks of a logger that use it |
| `ConsoleProofs` | What each flag writes and each line says; their inductive invariant, and the proofs |
| `Logger` | A logger with a backtracer, over a filter of duplicates with a `tcp_sink` behind it, and a second sink |
| `LoggerProofs` | Its inductive invariant, and the proofs |
| `MC...` | What TLC runs |

### How the state of the buffer corresponds to the code

`readIdx`, `writeIdx`, `seqNum` are the atomics of `State`; `cell` is the buffer.
`wLocalIndex`, `wLocalSeqNum`, `nextElement` are the writer's members and
`rLocalIndex`, `rLocalSeqNum` each reader's. `wPc` and `rPc` say which access a
call in progress makes next; the locals of `Write` are in the last record of
`log`, those of `Read` are `rCap` (size of the application's buffer), `rSize`
(`msgSize`) and `rData` (the bytes copied to the application). `ret` is what
`Read` returned: a message, "empty" (0 at Reader.cpp:33), "error" (-1) or
"overwritten" (`INT_MIN`).

A byte of the buffer is a pair: which message it is of, and which byte of it.
So TLC sees at once a frame with bytes of two messages, or with the bytes of one
in the wrong places. A header whose bytes are one message's reads as its size;
a header made of anything else reads as any size at all, valid or not.

`log`, `rNext` and `synced` are history: the code has no such variables, and no
guard or assignment of the code's own variables depends on their contents except
where a local of `Write` is kept in the last record of `log`. `base` in `log`
counts the laps before a header, and only the invariant uses it.

`Read` loops nowhere and `Write` never fails half way, so each is a short
sequence of steps. A rejected `Write` (too large) changes nothing and is not a
step; the runs offer one such size.

### What keeping up means

`KeptUp(r)`: the reader attached between two writes, and the writer has reserved
less than `SafeWindow` bytes since the first byte of the message the reader is
to return next. `SafeWindow` is `BufferSize - (HeaderSize - 1)`: the bytes
skipped at the end of a lap, `HeaderSize - 1` at most, are not counted. This
window is exact at both ends: a header may be lost at a lag within `BufferSize`,
and at the whole window `readIdx` may equal the reader's index although there is
a lap to read. The promises of `Read` are stated for readers that keep up. To
others only `ReadsInBounds` and the type invariant are promised: the code cannot
tell them reliably that they were overwritten (see the differences below).

### Memory

Steps interleave and each sees all earlier ones (sequential consistency). On
x86 that is what the release stores and acquire loads give, since no process
both stores to shared memory and loads what another stores there. A `memcpy` is
one step. For a reader that keeps up this loses nothing: `KeptUpReaderNeverRaces`
says that the copy it makes and the copy the writer is in never share a byte.

`SeqNumT` is unsigned: `Lag` wraps at `SeqModulus`, 2^64 in the code and any
larger number than the runs can count to here. That `seqNum` itself reaches
2^64 is left out.

### Shared memory

`regions` and `bound` are the kernel's: the regions created, and the one the name
is bound to. Each has the size `fstat` finds and the reference count kept in its
first bytes. `fileDes` and `mapped` are `m_FileDes` and `m_RefCounter` of each
object, as the region they lead to. A region no longer bound lives on for those
who have it open or mapped, as in POSIX. A semaphore that exists stays, as
nothing in the code removes one, so it is there from the start with value 1.
`munmap` and `close` are seen by no other process, and belong to the step before
or after. A constructor that throws destroys `m_SemLock`, which releases it if it
is held, and does not run `~SharedMemory`; its file stays open (`fileDes` keeps
its value, and the descriptor leaks). Validation of the arguments comes before
any effect, and only valid ones are modelled. `shm_open` fails only because a
name is bound or not bound; `ftruncate`, `fstat` and `mmap` may fail for any
reason (`CallFails`). `history` remembers what the properties speak of.

### Sessions

`stage` is how far a process is in its constructor or destructor, `users` the
reference counts. `SharedMemory` has the races inside a mapping; here a region is
mapped, or given back, in one step: the first to map one finds zeros, the last to
give it back removes it, and a region that nobody gave back stays. What a writer
does when it is live is `Writer`'s actions, on the bytes that earlier writers
left (`OldByte`). `ResetReadIdx`, `ResetWriteIdx` and `ResetSeqNum` are the three
stores of the constructor, seen one by one by readers that are attached or
attach between them. `attached` is history: which readers belong to the stream
of the live writer. Of the others, those attached to an earlier stream at any
place but the beginning of the buffer, nothing is promised, and the code has no
means to tell them. A writer that dies keeps its semaphore, and every later one
is refused.

### Applications

`mainPc` is where `main` is, `runPc` where each `Run` is; `gRunning` is the flag of
the signal handler, `running` those of the applications. `unheard` is history:
the applications that were told to stop before they ran.

### spdlog

- `ThreadPool`: a step is what is done under `queue_mutex_`, a `notify_one` after
  it, a change of the pool's use count, or the handling of a message. Threads
  waiting on a condition variable are those whose `pc` is its name;
  `notify_one` wakes any one of them. `refs` are the threads with a strong
  reference, `Main` standing for the registry's. Messages are numbers in the
  order in which they were pushed, `accepted` has their types.
- `FileHelper`: `fh` is the object together with the directory; what stdio still
  buffers is `buffer`, which a crash loses. An `fopen` that fails may have
  emptied the file before (`NotOpened`). A write or a flush that throws leaves any
  first part of what stdio had and was given, the last line of it perhaps a piece
  (`Parts`, `WriteStops`), on the disk or still buffered; a failing `fclose`, which
  nobody hears of, is such a flush before the close. `RotatingFile` goes file by
  file through the renames, with a failure (of a write or a flush, of an open, of
  both tries of a rename) or a crash at any step: `LogFails` is a write that throws
  before `current_size_` is updated, `LogThrows` the flush before a rotation,
  `ReopenFails` also the write after one. `TimedFile` has a clock that moves between the time of a message, its
  arrival at the sink, and the sink's own look at it.
- `Registry`: an operation under `logger_map_mutex_` is one step, but `flush_all`
  one per logger. `FlushEvery` and `Shutdown` hold `flusher_mutex_` until the old
  worker is joined. `SetupSpdlog` is the test of its latch, `set_pattern`
  (which only takes the mutex here), the level read without the mutex, `set_level`
  under it, and the store; a thread that finds no default logger there dereferences null
  ("crashed"; that the other threads go on is an over-approximation). The
  levels of the environment are pairs of names (`LoadLevels`), not text.
- `PatternFormatter`: a formatter is its flags, and what they remember. A field of a
  line has its place, its size and the calendar time that it was made from, not its
  characters; `Calendar` is any function of seconds. The console's mutex makes
  a call of a sink one step.
- `Logger`: a call of one sink is a step, as sinks have mutexes; the backtracer's
  is `holder`, held for a whole dump. Each sink has a level of its own, the
  announcement of dropped messages that of the last of them. `dropped`, `told` and
  `due` are history: the drops since a message last got through, and how many the
  sink behind the connection was told of and should have been. What may become of
  lines in a connection is a set of outcomes (`Connect`, `Send`).

## Runs

| Run | Instance | What it shows |
| --- | --- | --- |
| `reader` | 7 bytes, headers of 2, messages of 0, 1, 3 (and 4, rejected), 4 writes, read buffers of 1 and 4, one reader | Attaching at any moment, retries after -1, a lapped reader. `WindowIntact`, `CopyInBounds`, `ReleasedIsCountedAndInPlace`, `ReadsInBounds`; to a reader that keeps up, `KeptUpReaderIsServed`, `KeptUpReaderNeverRaces`, `EmptyMeansCaughtUp` |
| `stream` | the same with a read buffer that is always large enough, fairness | `Reader` implements `MessageStream` (`ImplementsMessageStream`); every message is read by a reader that keeps up (`EveryMessageIsRead`) |
| `shared_memory` | 3 interchangeable objects, 4 constructions with 2 sizes, 1 fault | `OneHolder`; regions are shared (`LiveShareTheBoundRegion`) and removed (`RemovedAfterLastUser`), and construction succeeds (`UncontendedConstructionSucceeds`), except in the races that the properties name |
| `session` | 2 interchangeable writers and a reader, 3 constructions, 1 fault, 5 bytes, 2 writes | `OneWriter`; `StateIsTheLiveWriters` after a restart; `AttachedReaderIsServed` across one; `RegionsAreGivenBack` by a refused writer |
| `app` | the three programs, a signal and a failing `Read` at any time | `EndsWhenToldTo`, but for two races |
| `async` | queue of 2, 2 loggers with every policy, pools of 1 and 2 workers (3 and 2 messages), 2 sinks, 1 exception | `RingHoldsTheLatest`, `NothingIsLost`, `OneWorkerKeepsOrder`, `PoolEndsDrained`; log, flush and shutdown return (`CallsReturn`) |
| `rotating` | 2 old files, a limit of 3, messages of 1, 2 and 4, 5 messages, 2 faults, of which each may cut a line at any byte | `FilesAreInOrder`, `FilesAreBounded`, `OnlyTheOldestAreDropped` |
| `timed` | periods of 2, 3 of them, 2 files, 3 messages, 1 fault, either sink | `OldFilesAreDeleted`, `EachMessageInItsPeriod`, `RetainsTheLastFiles` |
| `registry` | 3 loggers, 2 of one name, 2 threads, 2 workers, 3 calls | `SettingsReachEveryLogger`, `NoStrayFlusher`, `LevelStaysTheApplications`; `RegistryCallsReturn`, `RegisteredAreFlushed` |
| `console` | 2 sinks, 2 threads, 3 calls, 3 times within three seconds, 4 patterns with every flag | `TimesAreTheMessages`, `FieldsHaveTheirWidth`, `ColouredIsTheMarked` |
| `logger` | 2 threads, 4 calls, 2 texts, messages of 3 levels, sinks of 3, a ring of 2, 1 fault | `DumpedOnceInOrder`, `SkippedAreAnnounced`, `ConnectionsCarryWholeLines` |
| `claim_whole_message` | as `reader` | One documented claim, violated; see below |

**Why the bounds are enough.** Headers of 2 bytes are the shortest that can fail
to fit with a byte to spare, and can be half overwritten. The buffers are about
two frames long, so two or three writes make a lap and every offset from the end
is reached; four writes of 3 bytes lap a reader of a 7-byte buffer twice. A lapped
header reads as any size, so message contents add nothing. One reader suffices,
as readers store nothing shared. `MaxMessages` bounds the log; the proofs have no
such bound. Three objects are enough for one to free, one to come late, and one
to find the name unbound; the fourth construction is an object's second life.
Three sessions are a writer, its successor, and a reader attached to either, or
a writer refused by another.

A queue of two with its spare slot wraps after three messages; with one worker
and three messages it is full, overrun and waited for, and a pool of two adds the
wake-ups that may go to the wrong thread. Two old files make a chain with a gap
in the middle, and five messages rotate it past a fault twice. Three periods are
one more than the files that are kept. Three calls to the registry are a setting,
a flusher and its end, and two flushers beside a shutdown. Three calls of the
console are a pattern between two messages; the times are two in one second and
one after the cached offset is too old. Four calls of the logger fill a ring
of two, drop one from it, and dump it in two threads.

**Fairness.** `FairSpec` of `Reader` is weakly fair to the steps of a `Write` in
progress, to those of a `Read` in progress, and to calling `Read` again, as
`ReaderApp::Run` does (bin/ReaderApp.hpp:34). No fairness makes an application
write, a signal come, a call fail. `Applications` and `ThreadPool` are weakly fair
to each thread: the scheduler starves none, and a thread that waits on a
condition variable is not enabled until it is notified. `Registry` is strongly
fair to each thread and worker, because the flusher takes and releases the mutex
of the map again and again, and one who waits for it is assumed to get it in the
end.

Deadlock is not checked, as all these systems may stop: after their bounded
calls applications need not make another, and a signal need not come. What must
not be stuck is stated as liveness instead (`EveryMessageIsRead`,
`EndsWhenToldTo`, `CallsReturn`, `RegistryCallsReturn`, `RegisteredAreFlushed`).

### Where the code and its documentation differ

- `claim_whole_message`: README.md:110 and Writer.cpp:103 say that the second copy
  of a split write is the rest of the message. It starts at the offset
  `bytesRemaining`, which is how long the rest is, not where it begins
  (Writer.cpp:105). The model stores the bytes the code stores (`StoredByte`), so
  every other property speaks of the message as stored.

Two more statements differ from the code. The models do what the code does, and
the properties say so, but no run shows the difference:

- Files of previous executions are not deleted, say daily_file_sink.h:65-66 and
  hourly_file_sink.h:42-43. Those that lie, without a gap, before the current
  period are put in the queue by the constructor (`init_filenames_q_`,
  daily_file_sink.h:127-144, hourly_file_sink.h:101-118) and are deleted in their
  turn. `RetainsTheLastFiles` promises how many later files are left, whichever
  execution a deleted one is of.
- Three equal messages and another are announced as "Skipped 3 duplicate messages"
  in the example at dup_filter_sink.h:27-35. The first of them is logged, and the
  count is of those after it (dup_filter_sink.h:56): it is 2.

The properties are stated around the following limits, which no run of their
own shows:

- A lapped reader may return a message with bytes of another, as a `Write` in
  progress has not stored `seqNum` yet (Reader.cpp:165; README.md:125 says that the
  check after reading excludes an overwrite).
- A header may be lost at a lag that the check before reading accepts, as skipped
  bytes are not counted (Reader.cpp:39; README.md:125).
- A reader that attaches during the release of a message is told `INT_MIN` after
  one read, its sequence number being ahead of the writer's (Reader.cpp:21-22;
  Reader.hpp:20 says overwritten).
- A reader exactly one lap behind is told that there is no data (Reader.cpp:31;
  Reader.hpp:19).
- A process may open a region while another unlinks it, and then not share it
  (SharedMemory.cpp:91; README.md:80).
- The data of a region starts 4 times as far in as the count is long, as a number
  of bytes is added to a pointer to int (SharedMemory.cpp:240), so that it may end
  past the last page.
- `current_size_` of a rotating sink falls behind its file by what is left there of
  lines whose writing threw (rotating_file_sink-inl.h:123-124), so that the file
  may outgrow its limit by these pieces; `FilesAreBounded` says that it does so by
  nothing else.
- A filter of duplicates begins to count anew once its announcement was handed on,
  also to sinks that do not log the level of the last dropped message
  (dup_filter_sink.h:57, 76; dist_sink.h:52): these are never told, though nothing
  failed. `SkippedAreAnnounced` is about announcements that the sink does log.
- A `Run` raises its flag, also after `Stop` has lowered it (bin/ReaderApp.hpp:32).
- A daily sink with a rotation hour other than 0 and one file to retain may
  delete the file it has open (daily_file_sink.h:166); an hourly one retains one
  file fewer after it removed the empty file it began with
  (hourly_file_sink.h:79-82).
- `%c` tells the padding one character more than it writes in the first nine
  days of a month (pattern_formatter-inl.h:227), and `%+` is not padded. A flag
  `%$` without `%^` colours from the start of the line. `%z` keeps its offset for
  some seconds, older messages included. A flag of the application's own finds
  no calendar time unless it asked for it (`need_localtime`).
- A ring made for no items never has room: `MaxItems` is positive.

## Proofs

### The writer

The first part of `ReaderProofs` proves, for every buffer, header and message size that satisfies
`FramingAssumption`, any set of requests and any number of messages, that each
behaviour of `WriterSpec` keeps `WriterInv` (`WriterInvariance`), and from it
`WriterTypeCorrect`, `WindowStaysIntact`, `CopiesStayInBounds`,
`NextElementFollowsWriteIdx` and `ReleaseOrder`.

`WindowIntact` is not inductive. Whether a frame is whole depends on where all
later frames were put, and the window is measured in counted bytes, from which
the skipped ones are missing. `WriterInv` therefore lays the frames on a tape
that never wraps, of which each stretch of `BufferSize` offsets is the buffer:

1. `HeadInv`, `ChainInv`: each frame begins where the one before it ended.
2. `TapeInv`: how far apart two frames are on the tape, and how that compares to
   the bytes counted between them: equal in one lap, less than a header more
   in two, and beyond the window in any more.
3. `OnTapeIntact`: a frame is whole while the end of the tape is within one
   buffer of its start. A copy cannot touch it: bytes less than one buffer apart
   on the tape are different cells (lemma `CellsApart`).
4. `ProgressInv`, `SharedInv`: what the `Write` in progress has done so far.

`FramingAssumption` (the largest frame fits in the buffer, a header has a byte)
is assumed by the code rather than checked: a `Write` of a larger frame copies
past the mapping. The smallest buffer of bin/benchmarks/Writer.cpp is the
smallest that satisfies it.

### Readers

The second part lifts this to readers: a step of a reader leaves the writer's
variables alone, so a behaviour of `Spec` is one of `WriterSpec`
(`ReadersDoNotDisturb`), and all of the above holds with any number of readers
(`WindowStaysIntactForReaders`). `ReaderInv` adds to it what the progress of a
`Read` says of its index and of the bytes it has copied; it makes no assumption
on the header that was read, so `ReaderTypeCorrect` and `ReadsStayInBounds` hold
for lapped readers too.

`FollowInv` says where a reader that keeps up is. `KeptUpReaderIsServed` is not
inductive: it speaks of what `Read` returned, and says nothing of a `Read` half
way. `Placed` names the message the reader is to return next, puts its index at
the frame of that message (before or after the bytes skipped at the end of a
lap), and says that the bytes copied so far are the first of it. Then:

1. A writer's step leaves a reader that still keeps up where it is, as the frame
   it reads is inside the window that `WriterInv` keeps whole.
2. `readIdx` is not mistaken: a reader's index equals it only if all that was
   released is read, since the window is less than a whole lap. That is
   `EmptyOnlyWhenCaughtUp`, an action property, and it is why `SafeWindow` counts
   the bytes that may be skipped.
3. The checks before and after reading measure less than a lap, so they do not
   refuse (`KeptUpReadersAreServed`).
4. The cells a reader copies and those the writer is copying belong to frames
   less than a buffer apart on the tape (`KeptUpReadersNeverRace`).

The last part shows the refinement, step by step: `Write` begins a message,
`StoreReadIdx` releases it, the steps of `Read` ask, deliver, or find nothing,
`AttachSeqNum` joins, and every other step stutters (`BufferIsAStream`).

### Regions and sessions

`SharedMemoryProofs` is about any number of objects, regions and faults. What has
to be added to its properties is who holds the semaphore between `Acquire` and
`Release`, a destructor that found nothing to unlink and a throwing constructor
included (`LockInv`); that a region is sized once (`SizeInv`); counts
(`CountInv`); and, until a race that `history` names, that what objects have open
is what the name is bound to, that one of them is responsible for removing it,
and what the constructors that are about to throw have seen (`NameInv`,
`FreedInv`, `ThrowInv`).

`SessionProofs` composes. Who may write is `TurnInv`: `m_HoldsOwnership` is true
just while its writer is past `EnsureSingleton`. For the stream, `WriterInv` of
`Writer` holds again after each takeover, though the buffer has the bytes of
another stream in it, or there is no stream to go on with and nobody writes
(`Interrupted`: State is half reset, or was left by a writer that died, or the
buffer is new under an old State). All lemmas on readers are reused: they assume
`WriterInv` and `Follows`, not `Spec`.

### spdlog

`RegistryProofs`: settings reach all loggers since they are in the map or get
them when they are added; a call that stops a flusher keeps `flusher_mutex_` until
it has joined it (`FlusherInv`). Its last part is about the applications: whom
`main` has told to stop (`StoppedInv`) and waited for (`JoinedInv`). From these,
who is waited for will not go on (`JoinedAlwaysTold`), unless it was told before
it began, and when `main` returns no thread uses a reader or writer any more
(`NeverOutlivesMain`).

`ThreadPoolProofs` (`PoolInv`), for every size of the ring, number of workers,
producers, sinks and messages:

1. `RingInv`: the i-th item from the head is the i-th message after those that
   left. Pushing and popping move one index by one round the ring (lemma
   `RoundTheRing`).
2. `TakenInv`: what left was overrun, or is in the hands of one worker, or is done
   with. `SinkInv`: what is done with was offered to each sink once, and
   `OrderInv`: in order, if there is one worker.
3. `RefsInv`: a thread that posts has a reference, so the destructor, of which there
   is one, begins when none does. Hence what it posts comes last (`EndInv`); it
   waits for room, so none of it is overrun; as many workers have ended as terminate
   messages were taken, so when all have ended all were, and so was everything
   before them.

`FileProofs` has a lemma for each call of `FileHelper` (`OpenedHelper`,
`RemovedHelper`, `RenamedHelper`, ...) and two parts, each of which cites the
assumption of its own module only.

1. The rotating sink, for any number of files, messages, crashes and failing calls
   (`RotatingInv`). `FilesAreInOrder` is not inductive: it says nothing of the file
   that a rename would write over, nor of what a rotation may still find open. In
   the middle of a rotation the target of the next rename has just been removed
   or was missing, and no file is open (`StepInv`); ids are below `nextId`. Order is then a matter of pairs of files, and a rename, which moves
   one file over an empty place next to it, keeps it (`OrderedShifted`).
   `OnlyTheOldestAreDropped` follows by what each step does to `Held`.

   `FilesAreBounded` has an invariant of its own (`SizeInv`), on the whole lines
   of each file: whatever part of what was to be written a failure leaves, its
   whole lines are among those that were there or were to come, so they are no
   more than `current_size_` allows for. That a file fits must be known of all
   files at every step of a rotation, as any of them may be the one that is opened
   next, and what the rotation is for decides what `current_size_` is after it.
   The size of a file is a sum along it. That a sum is at least each of its parts
   is an induction, which is stated as a fact about the set of the positions it
   holds for (`UpTo`).
2. The daily and hourly sinks, for any period, time of rotation and delay
   (`TimedInv`). A file from the sink's first on that is not in its queue is
   there through a call that failed, one for each (`Untracked`): a write after the
   file was made, a deletion after its name was dropped, a constructor during
   which the period ended, an `fopen` that emptied a file and then failed. With
   the queue's length that bounds the files (`OldFilesAlwaysDeleted`). That the
   open file has the name of `namedAt`, and no file a name from the future,
   gives `EachMessageAlwaysInItsPeriod`: a message before the next rotation is,
   less the hour of rotation, before the end of the file's period
   (`BeforeRotationInPeriod`).

   `RetainsTheLastFiles` is about a sink that rotates as its period begins. Its
   invariant (`KeepInv`) says that the file of the next rotation is later than each
   that has messages or is in the queue, so that the queue ascends (`QueueInv`),
   and that the files in it exist, but for the empty one that an hourly sink
   removes (`RemovedInv`). What is deleted is then the oldest of the queue, and as
   many later ones are there as are to be retained. A deleted file's messages
   include those that stdio still buffers (`Complete`): a sink that retains one
   file deletes it while it is open.

`LoggerProofs` (`LoggerInv`), for any number of threads, calls and failures, and
every size of the ring. `DumpedOnceInOrder` is not inductive: it does not say
what is dumped next.

1. `RingInv`: the ring has the latest of the messages that were kept, in order.
   `HolderInv`: who is dumping has the backtracer's mutex, and what it is handing to
   the sinks is at the front of the ring.
2. `OnceInv`: a message is on its way to the ring in one thread, or was put there,
   once. `PlainInv`: what was dumped is out of the ring already, or is the front
   that its dumper is about to pop. So the next message that is dumped was kept
   later than all before it.
3. `FilterInv` and `NetInv` are inductive once one knows what every outcome of a
   connection attempt and of a `send` leaves, for each level of a line and each
   level of the sinks (`SkippedAlwaysAnnounced`,
   `ConnectionsAlwaysCarryWholeLines`).

`ConsoleProofs` (`ConsoleInv`), for every pattern, padding, clock, calendar, number
of sinks and of calls:

1. `FormattersInv`: the calendar time that a formatter remembers is that of the
   second in which it was refreshed last, and each flag that writes one made the
   formatter ask for it. Clones, `set_pattern` and `set_formatter` keep this, or
   start from a second before every message's, so that the first message
   refreshes. `%+` remembers the date of a second of its own.
2. `LinesInv`: a written line is made of fields with the calendar time of the
   message and the width that was asked for, and its range was marked by fields of
   the line. `TimesAreTheMessages` and the other properties are parts of it.
3. Patterns, lines and flags are gone through one by one. Such a recursion has a
   value at each position if each step has one for what may come before
   (`RunExists`, `RunStays`), which again is an induction in the form of `UpTo`; what
   a step may leave is a lemma for each kind of flag.

### Assumptions

Each module names its own. Besides `FramingAssumption`: processes and workers
are finitely many where they are counted, and no writer is a reader, no worker a
caller, no thread or logger the null pointer (`SessionAssumption`,
`ThreadPoolAssumption`, `RegistryAssumption`), nor `Nobody` a thread of the logger, whose sinks
have numbers as levels (`LoggerAssumption`); every pool has a worker, as the constructor requires
(thread_pool-inl.h:21); a ring has room for an item (circular_q.h:21-37), that of
the backtracer too; the files of a rotating sink have names of their own
(`RotatingFileAssumption`), and a daily sink rotates at a time of its day
(`TimedFileAssumption`). A console's messages are later than the first seconds
after the epoch, with which a formatter begins, the C library's calendar times
have weekdays, days and months in their ranges, and a padding is a number and a
side, as `handle_padspec_` leaves it (`ConsoleAssumption`). The bounds on calls,
posts and faults are constants like the others, and what is proved holds for
each value of them.

### What is not proved

Each safety property that a run checks is also proved. Liveness under fairness is
out of reach of the prover and stays with TLC (`EveryMessageIsRead`,
`EndsWhenToldTo`, `CallsReturn`, `RegistryCallsReturn`, `RegisteredAreFlushed`).
The type invariants of `RotatingFile` and `TimedFile` are not stated as theorems,
as their content is in `RotatingInv`, `SizeInv` and `TimedInv` but for the bounds of
the runs; what types `Logger` and `ConsoleSinks` need is part of their inductive
invariants. What a recursive
definition computes is known only as far as the proofs need it: that sizes and
digits are numbers, and what fields lines are made of.

## Not modelled

- Of the buffer: memory models weaker than x86's; `seqNum` reaching 2^64;
  messages larger than the buffer (`FramingAssumption`); the random generators,
  delays and the config file of `bin/`; logging by the buffer's own code.
- Of asynchronous logging: `dequeue_for` (nothing calls it), resets of the
  counters, callbacks at the start and stop of threads, spurious wake-ups (they
  re-test a predicate and change nothing), a `sink->flush()` that throws
  (async_logger-inl.h:73-78: it is caught, and the next sink is flushed).
- Of the files: `set_max_size`, `set_max_files`, directories, event handlers.
- Of the registry: formatters and error handlers, handed on like the settings.
- Of formatting: the characters of a field, the calendar itself, colour codes.
- Of the logger: the error handler, `flush` (it is in `ThreadPool` and `Registry`),
  swapping, changes to the sinks of a `dist_sink`, a `send` that returns 0, on which
  tcp_client.h:118-121 leaves the loop without closing the connection: a stream
  socket does not return 0 when it is asked to send more than no bytes.
- Sinks for Windows, Qt, Android, databases, syslog and UDP, which hand a line to
  an external service, and the bundled formatting library, which is text.

## Plan

1. Done: the buffer and its abstract specification, shared memory, sessions,
   applications, asynchronous logging, files, registry, formatting, the logger;
   the proofs of all safety properties that the runs check, and of the refinement.
2. What would come next: `set_max_size` and `set_max_files` of the rotating sink,
   `dequeue_for` and the callbacks of the workers, error handlers, and liveness
   properties stated as theorems once a prover for fairness is at hand.

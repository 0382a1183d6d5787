----------------------------- MODULE FileHelper -----------------------------
(***************************************************************************)
(* spdlog's file_helper: one FILE at a time, what stdio still buffers of   *)
(* it, and the directory it is in.  The sinks that write to files do so    *)
(* under their mutex, so that only a crash comes between two of its calls. *)
(* What a call leaves is a function of what it finds.                      *)
(***************************************************************************)
EXTENDS Integers, Sequences, FiniteSets, SequencesExt

CONSTANTS
  Names,        \* the names of files
  MaxFiles,     \* max_files_
  MaxMessages,  \* bound on the messages logged
  MaxFaults     \* bound on crashes and failing calls

VARIABLES
  fh,       \* the file_helper and the directory, see below
  nextId,   \* messages are numbered as they are logged
  lost,     \* history: messages no file has all of, or that a crash took
  faults

fileVars == <<fh, nextId, lost, faults>>

(* A message has a number, a size once formatted, and a time.  It is whole *)
(* unless a write stopped in the middle of it.                             *)
Message(size, time) == [id |-> nextId, size |-> size, time |-> time, whole |-> TRUE]

(* dir has the contents of the files that exist; filename and isOpen are   *)
(* filename_ and fd_ # nullptr; buffer is written and not yet on the disk; *)
(* unlinked means that the open file has no name any more.                 *)
NewHelper == [dir |-> [n \in {} |-> <<>>], filename |-> 0, isOpen |-> FALSE,
              buffer |-> <<>>, unlinked |-> FALSE]

Exists(h, name) == name \in DOMAIN h.dir

----------------------------------------------------------------------------
(* Mutations of the definitions below. *)

Copied(h, from, to) == [h EXCEPT !.dir = (to :> h.dir[from]) @@ @]

----------------------------------------------------------------------------
(* The first k numbers, added up.                                          *)
SumUpTo(numbers) ==
  LET sum[k \in 0 .. Len(numbers)] == IF k = 0 THEN 0 ELSE sum[k - 1] + numbers[k]
  IN  sum

Total(numbers) == SumUpTo(numbers)[Len(numbers)]

(* The bytes of messages, and of those among them that are whole.          *)
SizeOf(messages) == Total([k \in DOMAIN messages |-> messages[k].size])

WholeSize(messages) ==
  Total([k \in DOMAIN messages |-> IF messages[k].whole THEN messages[k].size ELSE 0])

Ids(messages) == {messages[k].id : k \in DOMAIN messages}

(* flush, or stdio making room in its buffer. *)
Flushed(h) ==
  IF h.isOpen /\ ~h.unlinked
  THEN [h EXCEPT !.dir[h.filename] = @ \o h.buffer, !.buffer = <<>>]
  ELSE [h EXCEPT !.buffer = <<>>]

(* close; fclose flushes. *)
Closed(h) == [Flushed(h) EXCEPT !.isOpen = FALSE, !.unlinked = FALSE]

(* fopen_s: a file that is not there is made, and "wb" empties the others. *)
Fopen(dir, name, mode) ==
  [n \in DOMAIN dir \cup {name} |->
     IF n = name /\ (mode = "wb" \/ name \notin DOMAIN dir) THEN <<>> ELSE dir[n]]

(* open empties the file with an fopen of its own, if it is to, and then   *)
(* opens it to append.                                                     *)
Opened(h, name, truncate) ==
  LET c == Closed(h)
      d == IF truncate THEN Fopen(c.dir, name, "wb") ELSE c.dir
  IN  [c EXCEPT !.filename = name, !.isOpen = TRUE, !.dir = Fopen(d, name, "ab")]

(* open gives up after its last try, perhaps with the file emptied.        *)
NotOpened(h, name, truncate) ==
  LET c == [Closed(h) EXCEPT !.filename = name]
  IN  {c} \cup IF truncate THEN {[c EXCEPT !.dir = Fopen(@, name, "wb")]} ELSE {}

(* write does nothing, and says nothing, when no file is open. *)
Written(h, m) == IF h.isOpen THEN [h EXCEPT !.buffer = Append(@, m)] ELSE h

(* What is left of messages whose writing stops with an error: the first   *)
(* of them, and perhaps a piece of the next one.                           *)
Parts(messages) ==
  UNION {LET first == SubSeq(messages, 1, k)
             next  == messages[k + 1]
         IN  {first} \cup {Append(first, [next EXCEPT !.size = c, !.whole = FALSE]) :
                             c \in 1 .. next.size - 1} :
         k \in 0 .. Len(messages) - 1}

(* write or flush throws: the rest of these messages, those that stdio had *)
(* and those it was given, is gone, and so are those it was to be given    *)
(* next.  What is left is on the disk, or still buffered.                  *)
WriteStops(h, messages, next) ==
  \E part \in Parts(messages) :
    LET left == [h EXCEPT !.buffer = part]
    IN  /\ fh' \in {left, Flushed(left)}
        /\ lost' = lost \cup next \cup {m.id : m \in Range(messages) \ Range(part)}

(* size() of the open file, which counts what is on the disk. *)
FileSize(h) == IF h.unlinked THEN 0 ELSE SizeOf(h.dir[h.filename])

(* os::remove, also of the file that is open; os::rename. *)
Removed(h, name) ==
  [h EXCEPT !.dir = [n \in DOMAIN h.dir \ {name} |-> h.dir[n]],
            !.unlinked = @ \/ (h.isOpen /\ h.filename = name)]

Renamed(h, from, to) ==
  [h EXCEPT !.dir = [n \in (DOMAIN h.dir \ {from}) \cup {to} |->
                       IF n = to THEN h.dir[from] ELSE h.dir[n]]]

(* The process dies: what stdio had is gone. *)
Crashed(h) == [h EXCEPT !.isOpen = FALSE, !.buffer = <<>>, !.unlinked = FALSE]

FileInit == fh = NewHelper /\ nextId = 1 /\ lost = {} /\ faults = 0

Fault == faults < MaxFaults /\ faults' = faults + 1

FileTypeOK ==
  /\ DOMAIN fh.dir \subseteq Names /\ fh.filename \in Names \cup {0}
  /\ fh.isOpen => Exists(fh, fh.filename) \/ fh.unlinked
  /\ fh.buffer # <<>> => fh.isOpen
  /\ nextId \in Nat \ {0} /\ lost \subseteq 1 .. nextId - 1
  /\ faults \in 0 .. MaxFaults
=============================================================================

---------------------------- MODULE ConsoleSinks ----------------------------
(***************************************************************************)
(* The coloured console sinks of spdlog (ansicolor_sink), behind a logger: *)
(* its threads hand each message to one sink after the other, and set the  *)
(* formatter of all of them or of one, meanwhile.  The sinks share the     *)
(* console's mutex, so that a call of one is one step.                     *)
(*                                                                         *)
(* Which bytes of a line are to be coloured is noted in the message: the   *)
(* sinks that get it see what the formatter of the one before left there.  *)
(* Messages come with any time: the clock is the system's, which may be    *)
(* set, a message may wait for the mutex while later ones are written, and *)
(* a call of log may bring its own time.                                   *)
(***************************************************************************)
EXTENDS PatternFormatter

CONSTANTS
  Threads,   \* the threads that log
  Order,     \* the sinks of the logger, in its order
  Times,     \* the times of messages
  Births,    \* the times at which formatters are made
  Kinds,     \* what a message may be, but for its number and its time
  Patterns,  \* the patterns of the application
  Types,     \* local time, UTC
  Idle,
  MaxCalls   \* bound on the calls

ASSUME ConsoleAssumption ==
  /\ Order # <<>> /\ Order \in Seq({Order[k] : k \in DOMAIN Order})
  /\ Times \subseteq Nat /\ (\A t \in Times : t >= Refresh /\ t >= Second)
  /\ Births \subseteq Int
  /\ Kinds \subseteq [logger : Nat, level : DOMAIN LevelSize, thread : Nat, size : Nat,
                      source : Sources, mdc : Seq(Nat)]
  /\ \A p \in Patterns : IsPattern(p)
  /\ \A type \in Types \cup {"local"}, t \in Times : Calendar(type, SecondOf(t)) \in CalendarTimes

VARIABLES
  formatter,   \* formatter_ of each sink
  doColors,    \* should_do_colors_ of each sink
  call,        \* the call each thread is in
  calls,       \* messages are numbered by the calls
  line         \* history: the last line that each sink wrote

vars == <<formatter, doColors, call, calls, line>>

Sinks == {Order[k] : k \in DOMAIN Order}

NoRange == <<0, 0>>

NoLine == [size |-> 0]

----------------------------------------------------------------------------
(* Mutations of the definitions below. *)

LeftByTheLast(range) == range

----------------------------------------------------------------------------
(* What log makes of the range that it finds in the message. *)
RangeBefore(range) == NoRange

Begin(t, what) ==
  /\ call[t] = Idle /\ calls < MaxCalls
  /\ calls' = calls + 1
  /\ call' = [call EXCEPT ![t] = what]

(* On to the next sink of the logger. *)
NextSink(t, c) ==
  call' = [call EXCEPT ![t] = IF c.next = Len(Order) THEN Idle ELSE [c EXCEPT !.next = @ + 1]]

Init ==
  /\ \E now \in Births : formatter = [s \in Sinks |-> DefaultFormatter("local", now)]
  /\ doColors = [s \in Sinks |-> TRUE]
  /\ call = [t \in Threads |-> Idle]
  /\ calls = 0
  /\ line = [s \in Sinks |-> NoLine]

(* A message, with the diagnostic context of its thread. *)
Log(t) ==
  /\ \E kind \in Kinds, time \in Times :
       LET msg == [id |-> calls + 1, time |-> time, logger |-> kind.logger, level |-> kind.level,
                   thread |-> kind.thread, size |-> kind.size, source |-> kind.source,
                   mdc |-> kind.mdc]
       IN  Begin(t, [op |-> "log", msg |-> msg, range |-> NoRange, next |-> 1])
  /\ UNCHANGED <<formatter, doColors, line>>

(* ansicolor_sink::log. *)
SinkLog(t) ==
  /\ call[t] # Idle /\ call[t].op = "log"
  /\ LET c   == call[t]
         s   == Order[c.next]
         did == Format(formatter[s], c.msg, RangeBefore(c.range))
         has == did.line.range[2] > did.line.range[1]
     IN  /\ formatter' = [formatter EXCEPT ![s] = did.formatter]
         /\ line' = [line EXCEPT ![s] =
              [msg |-> c.msg, type |-> formatter[s].type,
               promised |-> formatter[s].needLocaltime,
               fields |-> did.line.fields, size |-> did.line.size,
               coloured |-> IF doColors[s] /\ has THEN did.line.range ELSE NoRange]]
         /\ NextSink(t, [c EXCEPT !.range = did.line.range])
  /\ UNCHANGED <<doColors, calls>>

(* logger::set_pattern, or set_formatter of one that the application made  *)
(* of a default formatter: with a flag of its own, a pattern, and perhaps  *)
(* a request for the calendar time.                                        *)
Made(pattern, type, now) ==
  LET own == SetPattern(AddFlag(DefaultFormatter(type, now), "*"), pattern, now)
  IN  IF \E k \in DOMAIN pattern : pattern[k].flag = "*"
      THEN {own, NeedLocaltime(own, TRUE)}
      ELSE {PatternFormatter(pattern, type, {}, now)}

SetFormatter(t) ==
  /\ \E p \in Patterns, type \in Types, now \in Births : \E h \in Made(p, type, now) :
       Begin(t, [op |-> "format", formatter |-> h, now |-> now, next |-> 1])
  /\ UNCHANGED <<formatter, doColors, line>>

(* Each sink gets a clone, and the last the formatter itself. *)
SinkSetFormatter(t) ==
  /\ call[t] # Idle /\ call[t].op = "format"
  /\ LET c == call[t]
     IN  /\ formatter' = [formatter EXCEPT ![Order[c.next]] =
                            IF c.next = Len(Order) THEN c.formatter ELSE Clone(c.formatter, c.now)]
         /\ NextSink(t, c)
  /\ UNCHANGED <<doColors, calls, line>>

(* A pattern, or a colour mode, for one sink. *)
SinkSetPattern(s) ==
  /\ calls < MaxCalls /\ calls' = calls + 1
  /\ \E p \in Patterns, now \in Births :
       formatter' = [formatter EXCEPT ![s] = PatternFormatter(p, "local", {}, now)]
  /\ UNCHANGED <<doColors, call, line>>

SetColorMode(s) ==
  /\ calls < MaxCalls /\ calls' = calls + 1
  /\ doColors' = [doColors EXCEPT ![s] = ~@]
  /\ UNCHANGED <<formatter, call, line>>

Next ==
  \/ \E t \in Threads : Log(t) \/ SinkLog(t) \/ SetFormatter(t) \/ SinkSetFormatter(t)
  \/ \E s \in Sinks : SinkSetPattern(s) \/ SetColorMode(s)

Spec == Init /\ [][Next]_vars

----------------------------------------------------------------------------
Written == {s \in Sinks : line[s] # NoLine}

FieldsOf(s) == {line[s].fields[k] : k \in DOMAIN line[s].fields}

(***************************************************************************)
(* The date and time of a line are those of its message, whatever was      *)
(* formatted before, later messages included, and whatever formatter and   *)
(* pattern the sink had then (pattern_formatter-inl.h:853, 963-986).  A    *)
(* flag of the application's own is told only on request.                  *)
(***************************************************************************)
TimesAreTheMessages ==
  \A s \in Written : \A f \in FieldsOf(s) :
    f.flag \in (LocalFlags \ {"z"}) \cup (IF line[s].promised THEN {"*"} ELSE {}) =>
      f.from = Calendar(line[s].type, SecondOf(line[s].msg.time))

(***************************************************************************)
(* A field that is padded has at least its width, and one that may be cut  *)
(* has exactly its width, so that columns line up: each flag tells the     *)
(* padding the size that it then writes (pattern_formatter-inl.h:42-78).   *)
(* %c does not, on the first nine days of a month, and %+ is not padded.   *)
(***************************************************************************)
FieldsHaveTheirWidth ==
  \A s \in Written : \A f \in FieldsOf(s) :
    LET size == f.last - f.first
        short == f.flag = "c" /\ Calendar(line[s].type, SecondOf(line[s].msg.time)).mday < 10
    IN  f.pad.enabled /\ ~short => /\ size >= f.pad.width
                                   /\ f.pad.truncate => size = f.pad.width

(***************************************************************************)
(* What a sink colours begins and ends where its own pattern says, and not *)
(* where the pattern of another sink, or of an earlier message, did        *)
(* (ansicolor_sink-inl.h:45-49).                                           *)
(***************************************************************************)
ColouredIsTheMarked ==
  \A s \in Written :
    LET marks(flag) == {k \in DOMAIN line[s].fields : line[s].fields[k].flag = flag}
    IN  line[s].coloured # NoRange =>
          \/ marks("+") # {}
          \/ /\ \E k \in marks("$") : line[s].coloured[2] = line[s].fields[k].first
             /\ \/ line[s].coloured[1] = 0
                \/ \E k \in marks("^") : line[s].coloured[1] = line[s].fields[k].first
=============================================================================

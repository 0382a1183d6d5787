------------------------------- MODULE Logger -------------------------------
(***************************************************************************)
(* spdlog's logger with two sinks and a backtracer.  Its first sink drops  *)
(* repeated messages (dup_filter_sink) and hands the rest to two sinks of  *)
(* its own, of which the first sends them to a server (tcp_sink); the      *)
(* second is any sink that does not fail.                                  *)
(*                                                                         *)
(* A thread that logs gives its message to one sink after the other and    *)
(* then to the backtracer.  A step is a call of one sink, which it does    *)
(* under its mutex, or what is done under the backtracer's mutex; that one *)
(* is held for a whole dump, sinks included.                               *)
(***************************************************************************)
EXTENDS Integers, Sequences

CONSTANTS
  Threads,    \* the threads that log
  Nobody,     \* who has a mutex that no thread has
  Kinds,      \* what messages are: texts and levels
  Level,      \* level_ of the logger
  SinkLevel,  \* level_ of each of the sinks: the logger's two, the filter's two
  Items,      \* how many messages the backtracer keeps
  MaxSkip,    \* max_skip_duration_
  MaxTime,    \* bounds on the clock,
  MaxCalls,   \* on the calls,
  MaxFaults   \* and on what fails to connect or to be sent

ASSUME LoggerAssumption ==
  /\ Items \in Nat \ {0} /\ MaxSkip \in Nat
  /\ Level \in Int /\ Nobody \notin Threads
  /\ SinkLevel \in [{"filter", "plain", "tcp", "behind"} -> Int]
  /\ \A kind \in Kinds : kind.level \in Int /\ kind.text \notin {"start", "end", "", "skipped"}

VARIABLES
  call,         \* what each thread is doing
  enabled,      \* enabled_ of the backtracer
  messages,     \* messages_, its ring
  holder,       \* the thread that has mutex_ of the backtracer, or Nobody
  filter,       \* the members of the dup_filter_sink
  socket,       \* socket_ of the tcp_client: the number of its connection, or 0
  now, calls, faults,
  streams,      \* history: of each line that went into each connection, whether it is whole
  plain,        \* history: the messages of a dump that the logger's second sink logged
  traced,       \* history: the messages in the order of the backtracer
  dropped,      \* history: the repeated messages dropped since one last got through, see NoneDropped
  told, due     \* history: of how many before those the sink behind the tcp_sink was told,
                \* and should have been

tracerVars == <<enabled, messages, holder, traced>>
netVars    == <<socket, streams, faults>>
filterVars == <<filter, dropped, told, due>>
vars == <<call, tracerVars, filterVars, netVars, now, calls, plain>>

Message(id, text, level) == [id |-> id, text |-> text, level |-> level, time |-> now]

(* The level of the lines around a dump, and one that is above all.        *)
Info == 2
Off  == 6
Marker(text) == Message(0, text, Info)

Idle == [at |-> "idle"]

(* A message on its way through the sinks, and what comes after them.      *)
Sinking(msg, then, dumped) ==
  [at |-> "sinks", sink |-> 1, msg |-> msg, then |-> then, dumped |-> dumped]

After(c) == IF c.then = "return" THEN Idle ELSE [c EXCEPT !.at = c.then]

----------------------------------------------------------------------------
(* Mutations of the definitions below. *)

WhoeverHasIt(t)          == TRUE
KeptWhenFailed           == socket
ResetAnyway(msg, failed) ==
  [time |-> msg.time, text |-> msg.text, skipped |-> 0, level |-> filter.level]

----------------------------------------------------------------------------
ShouldLog(level) == level >= Level

SinkLogs(sink, level) == level >= SinkLevel[sink]

Doing(t, at) == call[t].at = at

Begin(t, what) ==
  /\ call[t] = Idle /\ calls < MaxCalls
  /\ calls' = calls + 1
  /\ call' = [call EXCEPT ![t] = what]

(* How many messages were dropped, the level of the last, and of how many  *)
(* the sink behind the tcp_sink was told.                                  *)
NoneDropped == [count |-> 0, level |-> Off, told |-> 0]

Init ==
  /\ call = [t \in Threads |-> Idle]
  /\ enabled = TRUE /\ messages = <<>> /\ holder = Nobody /\ traced = <<>>
  /\ filter = [time |-> -MaxTime - MaxSkip, text |-> "", skipped |-> 0, level |-> Off]
  /\ \/ socket = 0 /\ streams = <<>>
     \/ socket = 1 /\ streams = <<<<>>>>   \* unless it is lazy
  /\ faults = 0
  /\ now = 1 /\ calls = 0
  /\ plain = <<>> /\ dropped = NoneDropped /\ told = 0 /\ due = 0

Tick ==
  /\ now < MaxTime /\ now' = now + 1
  /\ UNCHANGED <<call, tracerVars, filterVars, netVars, calls, plain>>

(* log, which looks at both levels before it makes a message.              *)
Log(t, text, level) ==
  LET msg == Message(calls + 1, text, level)
      c   == Sinking(msg, IF enabled THEN "push" ELSE "return", FALSE)
  IN  /\ ShouldLog(level) \/ enabled
      /\ Begin(t, IF ShouldLog(level) THEN c ELSE After(c))
      /\ UNCHANGED <<tracerVars, filterVars, netVars, now, plain>>

(* trace, debug, ..., critical: log of what they are given, at their level. *)
LogAny(t) == \E kind \in Kinds : Log(t, kind.text, kind.level)

----------------------------------------------------------------------------
(* tcp_client. *)

(* Where a connection stands that failed in the middle of a line. *)
SocketAfterFailure == 0

Sent(conns, s, line) == [conns EXCEPT ![s] = Append(@, line)]

(* What may become of lines that tcp_sink is given one after the other, up *)
(* to the first that fails: how many it is done with, where that leaves the *)
(* connections, what went into them, and whether one failed, 0 or 1.       *)
Outcome(sent, s, conns, failed) ==
  [sent |-> sent, socket |-> s, streams |-> conns, failed |-> failed]

(* What connect may come to: it closes first, tries each address of the    *)
(* server, and throws if there is none that it can connect to.             *)
Connect(o) ==
  {Outcome(o.sent, Len(o.streams) + 1, Append(o.streams, <<>>), 0)}
    \cup IF faults = MaxFaults THEN {} ELSE {Outcome(o.sent, 0, o.streams, 1)}

(* What send may come to: it sends what is left until there is nothing,    *)
(* and closes the connection when that fails, before the first byte or     *)
(* after.                                                                  *)
Send(o) ==
  {Outcome(o.sent + 1, o.socket, Sent(o.streams, o.socket, "whole"), 0)}
    \cup IF faults = MaxFaults THEN {}
         ELSE {Outcome(o.sent, SocketAfterFailure, conns, 1) :
                 conns \in {o.streams, Sent(o.streams, o.socket, "cut")}}

(* tcp_sink connects if it has to.                                         *)
SendOne(o) ==
  LET connected == IF o.socket = 0 THEN Connect(o) ELSE {o}
  IN  UNION {IF c.failed = 1 THEN {c} ELSE Send(c) : c \in connected}

(* One line more, where none has failed.  The tcp_sink is not given what   *)
(* is below its level, and cannot fail on it.                              *)
SendNext(outcomes, level) ==
  UNION {IF o.failed = 1 THEN {o}
         ELSE IF SinkLogs("tcp", level) THEN SendOne(o)
         ELSE {Outcome(o.sent + 1, o.socket, o.streams, 0)} : o \in outcomes}

----------------------------------------------------------------------------
(* dup_filter_sink. *)

(* filter_, which a message that is older than the last passes only if it  *)
(* says something else.                                                    *)
IsNew(msg) == msg.time - filter.time > MaxSkip \/ msg.text # filter.text

(* The members of the sink after a message, if it went through. *)
FilterAfter(msg, failed) ==
  IF failed = 1 THEN filter
  ELSE [time |-> msg.time, text |-> msg.text, skipped |-> 0, level |-> filter.level]

(* The history, when the sink behind has heard of this many.               *)
Tell(heard, failed) ==
  IF failed = 1
  THEN dropped' = [dropped EXCEPT !.told = heard] /\ UNCHANGED <<told, due>>
  ELSE /\ told' = told + heard
       /\ due' = IF SinkLogs("behind", dropped.level) THEN due + dropped.count ELSE due
       /\ dropped' = NoneDropped

Suppress(msg) ==
  /\ filter' = [filter EXCEPT !.skipped = @ + 1, !.level = msg.level]
  /\ dropped' = [dropped EXCEPT !.count = @ + 1, !.level = msg.level]
  /\ UNCHANGED <<netVars, told, due>>

(* The message goes to both sinks, each of which logs it if it is of its   *)
(* level, after a line that tells of what was dropped before it and has    *)
(* the level of the last of that.  An exception of the tcp_sink keeps the  *)
(* line that it fails on from the sink behind it, and leaves the members   *)
(* as they were.                                                           *)
PassOn(msg) ==
  LET announced == IF filter.skipped > 0 THEN 1 ELSE 0
      one == SendNext({Outcome(0, socket, streams, 0)},
                      IF announced = 1 THEN filter.level ELSE msg.level)
  IN  \E o \in IF announced = 1 THEN SendNext(one, msg.level) ELSE one :
        /\ socket' = o.socket /\ streams' = o.streams
        /\ faults' = faults + o.failed
        /\ filter' = FilterAfter(msg, o.failed)
        /\ Tell(IF o.sent >= announced /\ SinkLogs("behind", filter.level)
                THEN filter.skipped ELSE dropped.told, o.failed)

DupFilter(msg) == IF IsNew(msg) THEN PassOn(msg) ELSE Suppress(msg)

(* sink_it_ asks each sink whether it logs the message, catches what the   *)
(* sink throws, and goes on with the next.                                 *)
FirstSink(t) ==
  /\ Doing(t, "sinks") /\ call[t].sink = 1
  /\ IF SinkLogs("filter", call[t].msg.level) THEN DupFilter(call[t].msg)
     ELSE UNCHANGED <<filterVars, netVars>>
  /\ call' = [call EXCEPT ![t].sink = 2]
  /\ UNCHANGED <<tracerVars, now, calls, plain>>

SecondSink(t) ==
  /\ Doing(t, "sinks") /\ call[t].sink = 2
  /\ plain' = IF call[t].dumped /\ SinkLogs("plain", call[t].msg.level)
              THEN Append(plain, call[t].msg.id) ELSE plain
  /\ call' = [call EXCEPT ![t] = After(@)]
  /\ UNCHANGED <<tracerVars, filterVars, netVars, now, calls>>

----------------------------------------------------------------------------
(* The backtracer. *)
HasTracer(t) == holder \in {Nobody, t}

(* push_back: a full ring drops its oldest message. *)
Push(t) ==
  /\ Doing(t, "push") /\ HasTracer(t)
  /\ LET kept == IF Len(messages) = Items THEN Tail(messages) ELSE messages
     IN  messages' = Append(kept, call[t].msg)
  /\ traced' = Append(traced, call[t].msg.id)
  /\ call' = [call EXCEPT ![t] = Idle]
  /\ UNCHANGED <<enabled, holder, filterVars, netVars, now, calls, plain>>

(* enable_backtrace begins with an empty ring, disable_backtrace keeps it. *)
EnableBacktrace(t) ==
  /\ HasTracer(t)
  /\ Begin(t, Idle)
  /\ enabled' = TRUE /\ messages' = <<>>
  /\ UNCHANGED <<holder, traced, filterVars, netVars, now, plain>>

DisableBacktrace(t) ==
  /\ HasTracer(t)
  /\ Begin(t, Idle)
  /\ enabled' = FALSE
  /\ UNCHANGED <<messages, holder, traced, filterVars, netVars, now, plain>>

(* dump_backtrace, if there is anything to dump: a line before it, ...     *)
DumpBacktrace(t) ==
  /\ HasTracer(t) /\ enabled /\ messages # <<>>
  /\ Begin(t, Sinking(Marker("start"), "lock", FALSE))
  /\ UNCHANGED <<tracerVars, filterVars, netVars, now, plain>>

(* ... foreach_pop, which holds the mutex, ... *)
Lock(t) ==
  /\ Doing(t, "lock") /\ HasTracer(t)
  /\ holder' = t
  /\ call' = [call EXCEPT ![t].at = "next"]
  /\ UNCHANGED <<enabled, messages, traced, filterVars, netVars, now, calls, plain>>

SinkFront(t) ==
  /\ Doing(t, "next") /\ messages # <<>>
  /\ call' = [call EXCEPT ![t] = Sinking(Head(messages), "pop", TRUE)]
  /\ UNCHANGED <<tracerVars, filterVars, netVars, now, calls, plain>>

PopFront(t) ==
  /\ Doing(t, "pop") /\ messages # <<>>
  /\ messages' = Tail(messages)
  /\ call' = [call EXCEPT ![t].at = "next"]
  /\ UNCHANGED <<enabled, holder, traced, filterVars, netVars, now, calls, plain>>

(* ... and a line after it. *)
EndDump(t) ==
  /\ Doing(t, "next") /\ messages = <<>>
  /\ holder' = Nobody
  /\ call' = [call EXCEPT ![t] = Sinking(Marker("end"), "return", FALSE)]
  /\ UNCHANGED <<enabled, messages, traced, filterVars, netVars, now, calls, plain>>

----------------------------------------------------------------------------
ThreadStep(t) ==
  \/ LogAny(t)
  \/ FirstSink(t) \/ SecondSink(t) \/ Push(t)
  \/ EnableBacktrace(t) \/ DisableBacktrace(t) \/ DumpBacktrace(t)
  \/ Lock(t) \/ SinkFront(t) \/ PopFront(t) \/ EndDump(t)

Next == Tick \/ \E t \in Threads : ThreadStep(t)

Spec == Init /\ [][Next]_vars

----------------------------------------------------------------------------
(***************************************************************************)
(* No message is dumped twice, and those that are come in the order in     *)
(* which they were kept, whatever threads dump at the same time, and log   *)
(* and turn the backtrace on and off meanwhile (backtracer-inl.h:54-61).   *)
(***************************************************************************)
DumpedOnceInOrder ==
  \A j, k \in DOMAIN plain :
    j < k => /\ plain[j] # plain[k]
             /\ \E m, n \in DOMAIN traced : m < n /\ traced[m] = plain[j] /\ traced[n] = plain[k]

(***************************************************************************)
(* The repeated messages that were dropped before a message got through    *)
(* are announced, all of them, to the sink behind the tcp_sink, whatever   *)
(* failed in between (dup_filter_sink.h:53-78); and if nothing fails it    *)
(* hears of nothing else, and of none twice.  Excepted are those of which  *)
(* the last has a level that this sink does not log: the announcement has  *)
(* that level (:57, :67), is filtered as a message would be                *)
(* (dist_sink.h:52), and the count begins anew all the same (:76).         *)
(***************************************************************************)
SkippedAreAnnounced == told >= due /\ (faults = 0 => told = due)

(***************************************************************************)
(* The server gets whole lines: a line that was cut short is the last of   *)
(* its connection, and the next goes into another (tcp_sink.h:57-64,       *)
(* tcp_client.h:111-117).                                                  *)
(***************************************************************************)
ConnectionsCarryWholeLines ==
  \A s \in DOMAIN streams : \A k \in DOMAIN streams[s] :
    streams[s][k] = "whole" \/ (k = Len(streams[s]) /\ socket # s)
=============================================================================

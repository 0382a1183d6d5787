---------------------------- MODULE LoggerProofs ----------------------------
(***************************************************************************)
(* Proofs about the logger.  For every number of threads, calls and        *)
(* failing calls, every size of the ring and every kind of messages: what  *)
(* is dumped is in the order in which it was kept, repeated messages are   *)
(* announced, and connections carry whole lines.                           *)
(***************************************************************************)
EXTENDS Logger, SequenceTheorems, TLAPS

Logged == [id : Nat, text : {kind.text : kind \in Kinds}, level : Int, time : Int]

IsCall(c) ==
  /\ c = [at |-> c.at, sink |-> c.sink, msg |-> c.msg, then |-> c.then, dumped |-> c.dumped]
  /\ c.at \in {"sinks", "push", "lock", "next", "pop"}
  /\ c.then \in {"push", "return", "lock", "pop"}
  /\ c.dumped \in BOOLEAN /\ (c.dumped <=> c.then = "pop")

Before == Len(traced) - Len(messages)

(* The dump that a thread has the backtracer's mutex for.                  *)
Sunk(t)    == Doing(t, "pop")
Dumping(t) == Doing(t, "next") \/ Sunk(t) \/ (Doing(t, "sinks") /\ call[t].dumped)

(* The message of a thread is on its way to the ring.                      *)
Keeping(t) == Doing(t, "push") \/ (Doing(t, "sinks") /\ call[t].then = "push")

(* A call in progress, and what comes after its sinks.                     *)
CallInv ==
  /\ call = [t \in Threads |-> call[t]]
  /\ \A t \in Threads : call[t] # Idle => IsCall(call[t])

(* The ring has the latest of the messages that were kept.                 *)
RingInv ==
  /\ messages \in Seq(Logged) /\ traced \in Seq(Nat) /\ Len(messages) <= Len(traced)
  /\ \A i \in 1 .. Len(messages) : messages[i].id = traced[Before + i]

(* Who dumps has the mutex, and what it dumps is at the front of the ring. *)
HolderInv ==
  /\ holder \in Threads \cup {Nobody}
  /\ \A t \in Threads : Dumping(t) => holder = t
  /\ \A t \in Threads : Dumping(t) /\ ~Doing(t, "next") => messages # <<>>
  /\ \A t \in Threads : Doing(t, "sinks") /\ call[t].dumped => call[t].msg = Head(messages)

(* A message is on its way to the ring, or has been there, once.           *)
OnceInv ==
  /\ calls \in Nat /\ now \in Int
  /\ \A m \in DOMAIN traced : traced[m] \in 1 .. calls
  /\ \A m, n \in DOMAIN traced : traced[m] = traced[n] => m = n
  /\ \A t \in Threads : Keeping(t) =>
       /\ call[t].msg \in Logged /\ call[t].msg.id \in 1 .. calls
       /\ \A m \in DOMAIN traced : traced[m] # call[t].msg.id
       /\ \A u \in Threads : Keeping(u) /\ call[u].msg.id = call[t].msg.id => u = t

(* What was dumped is out of the ring, or about to be.                     *)
PlainInv ==
  /\ plain \in Seq(Nat)
  /\ \A j \in DOMAIN plain : \E m \in DOMAIN traced :
       /\ traced[m] = plain[j]
       /\ m <= Before \/ (m = Before + 1 /\ \E t \in Threads : Sunk(t))
  /\ DumpedOnceInOrder

TracerInv == CallInv /\ RingInv /\ HolderInv /\ OnceInv /\ PlainInv

Line == {"whole", "cut"}

(* The filter counts what was dropped since a message last got through,    *)
(* with the level of the last, and only a failure comes between telling of *)
(* it and beginning anew.                                                  *)
FilterInv ==
  /\ filter = [time |-> filter.time, text |-> filter.text, skipped |-> filter.skipped,
               level |-> filter.level]
  /\ dropped = [count |-> filter.skipped, level |-> dropped.level, told |-> dropped.told]
  /\ {told, due, filter.skipped, dropped.told, faults} \subseteq Nat
  /\ filter.skipped # 0 => dropped.level = filter.level
  /\ faults = 0 => dropped.told = 0
  /\ SkippedAreAnnounced

NetInv ==
  /\ streams \in Seq(Seq(Line)) /\ socket \in 0 .. Len(streams)
  /\ ConnectionsCarryWholeLines

(***************************************************************************)
(* The inductive invariant of Logger.                                      *)
(***************************************************************************)
LoggerInv == TracerInv /\ FilterInv /\ NetInv
----------------------------------------------------------------------------
(* The call that a thread is in. *)

(* What a call becomes.                                                    *)
LEMMA CallFields ==
  ASSUME NEW c, IsCall(c)
  PROVE  /\ \A x : LET d == [c EXCEPT !.at = x]
                   IN  /\ d = [at |-> x, sink |-> c.sink, msg |-> c.msg, then |-> c.then,
                               dumped |-> c.dumped]
                       /\ x \in {"sinks", "push", "lock", "next", "pop"} => IsCall(d)
         /\ \A x : LET d == [c EXCEPT !.sink = x]
                   IN  /\ d = [at |-> c.at, sink |-> x, msg |-> c.msg, then |-> c.then,
                               dumped |-> c.dumped]
                       /\ IsCall(d)
<1>1. PICK a, s, m, n, e : /\ c = [at |-> a, sink |-> s, msg |-> m, then |-> n, dumped |-> e]
                           /\ a = c.at /\ s = c.sink /\ m = c.msg /\ n = c.then /\ e = c.dumped
  BY DEF IsCall
<1>2. ASSUME NEW x
      PROVE  [c EXCEPT !.at = x] = [at |-> x, sink |-> s, msg |-> m, then |-> n, dumped |-> e]
  BY <1>1
<1>3. ASSUME NEW x
      PROVE  [c EXCEPT !.sink = x] = [at |-> a, sink |-> x, msg |-> m, then |-> n, dumped |-> e]
  BY <1>1
<1> QED
  BY <1>1, <1>2, <1>3 DEF IsCall

(* What comes after the sinks.                                             *)
LEMMA AfterIs ==
  ASSUME NEW c, IsCall(c)
  PROVE  \/ c.then = "return" /\ After(c) = Idle
         \/ /\ c.then # "return" /\ IsCall(After(c))
            /\ After(c).at = c.then /\ After(c).msg = c.msg /\ After(c).then = c.then
            /\ After(c).dumped = c.dumped
<1>1. CASE c.then = "return"
  BY <1>1 DEF After
<1>2. CASE c.then # "return"
  <2>1. c.then \in {"push", "lock", "pop"}
    BY <1>2 DEF IsCall
  <2>2. PICK d : d = [c EXCEPT !.at = c.then]
    OBVIOUS
  <2>3. /\ d = [at |-> c.then, sink |-> c.sink, msg |-> c.msg, then |-> c.then, dumped |-> c.dumped]
        /\ IsCall(d)
    BY <2>1, <2>2, CallFields
  <2> QED
    BY <1>2, <2>2, <2>3 DEF After
<1> QED
  BY <1>1, <1>2

(* A step of one thread changes its own call.                              *)
LEMMA CallChanges ==
  ASSUME CallInv, NEW t \in Threads, NEW d, call' = [call EXCEPT ![t] = d],
         d # Idle => IsCall(d)
  PROVE  CallInv' /\ call'[t] = d /\ \A u \in Threads \ {t} : call'[u] = call[u]
  BY DEF CallInv

----------------------------------------------------------------------------
(* What a step that leaves the ring alone keeps. *)

(* No message begins or ends its way to the ring, but for a new one.       *)
LEMMA OnceKept ==
  ASSUME OnceInv, calls' \in Nat, calls' >= calls, now' \in Int, traced' = traced,
         NEW t \in Threads, \A u \in Threads \ {t} : call'[u] = call[u],
         Keeping(t)' => \/ Keeping(t) /\ call'[t].msg = call[t].msg
                        \/ /\ call'[t].msg \in Logged /\ call'[t].msg.id = calls + 1
                           /\ calls' = calls + 1
  PROVE  OnceInv'
<1>1. \A u \in Threads \ {t} : (Keeping(u)' <=> Keeping(u)) /\ call'[u].msg = call[u].msg
  BY DEF Keeping, Doing
<1>2. calls \in Nat
  BY DEF OnceInv
<1>3. \A m \in DOMAIN traced : traced[m] \in 1 .. calls'
  BY <1>2 DEF OnceInv
<1>4. ASSUME NEW u \in Threads, Keeping(u)'
      PROVE  /\ call'[u].msg \in Logged /\ call'[u].msg.id \in 1 .. calls'
             /\ \A m \in DOMAIN traced : traced[m] # call'[u].msg.id
  <2>1. CASE Keeping(u) /\ call'[u].msg = call[u].msg
    BY <1>2, <2>1 DEF OnceInv
  <2>2. CASE /\ u = t /\ call'[t].msg \in Logged /\ call'[t].msg.id = calls + 1
             /\ calls' = calls + 1
    BY <1>2, <2>2 DEF OnceInv
  <2> QED
    BY <1>1, <1>4, <2>1, <2>2
<1>5. ASSUME NEW u \in Threads, NEW v \in Threads, Keeping(u)', Keeping(v)',
             call'[u].msg.id = call'[v].msg.id
      PROVE  u = v
  <2>1. ASSUME NEW w \in Threads, Keeping(w)'
        PROVE  \/ Keeping(w) /\ call'[w].msg = call[w].msg
               \/ w = t /\ call'[w].msg.id = calls + 1
    BY <1>1, <2>1
  <2>2. \A w \in Threads : Keeping(w) => call[w].msg.id \in 1 .. calls
    BY DEF OnceInv
  <2>3. CASE Keeping(u) /\ Keeping(v) /\ call'[u].msg = call[u].msg /\ call'[v].msg = call[v].msg
    BY <1>5, <2>3 DEF OnceInv
  <2> QED
    BY <1>2, <1>5, <2>1, <2>2, <2>3
<1> QED
  BY <1>3, <1>4, <1>5 DEF OnceInv

(* Nothing is dumped, and who is about to take a message out still is.     *)
LEMMA PlainKept ==
  ASSUME PlainInv, plain' = plain, traced' = traced, messages' = messages,
         \A t \in Threads : Sunk(t) => Sunk(t)'
  PROVE  PlainInv'
<1>1. Before' = Before
  BY DEF Before
<1>2. DumpedOnceInOrder'
  BY DEF PlainInv, DumpedOnceInOrder
<1> QED
  BY <1>1, <1>2 DEF PlainInv

(* The ring is what it was.                                                *)
LEMMA RingKept ==
  ASSUME RingInv, messages' = messages, traced' = traced
  PROVE  RingInv'
  BY DEF RingInv, Before

(* No dump begins, or goes on.                                             *)
LEMMA HolderKept ==
  ASSUME HolderInv, holder' = holder, messages' = messages,
         NEW t \in Threads, \A u \in Threads \ {t} : call'[u] = call[u],
         Dumping(t)' => Dumping(t) /\ ~Doing(t, "next") /\ call'[t].msg = call[t].msg,
         Doing(t, "sinks")' => \/ Doing(t, "sinks") /\ call'[t].dumped = call[t].dumped
                               \/ ~call'[t].dumped
  PROVE  HolderInv'
<1>1. \A u \in Threads \ {t} : /\ Dumping(u)' <=> Dumping(u)
                               /\ \A at : Doing(u, at)' <=> Doing(u, at)
  BY DEF Dumping, Sunk, Doing
<1>2. \A u \in Threads : Dumping(u)' => Dumping(u)
  BY <1>1
<1>3. \A u \in Threads : Dumping(u)' /\ ~Doing(u, "next")' => messages' # <<>>
  BY <1>1 DEF HolderInv
<1>4. ASSUME NEW u \in Threads, Doing(u, "sinks")', call'[u].dumped
      PROVE  call'[u].msg = Head(messages)
  <2>1. CASE u # t
    BY <1>1, <1>4, <2>1 DEF HolderInv
  <2>2. CASE u = t
    <3>1. Dumping(t)'
      BY <1>4, <2>2 DEF Dumping
    <3>2. Doing(t, "sinks") /\ call[t].dumped
      BY <1>4, <2>2
    <3> QED
      BY <2>2, <3>1, <3>2 DEF HolderInv
  <2> QED
    BY <2>1, <2>2
<1> QED
  BY <1>2, <1>3, <1>4 DEF HolderInv
----------------------------------------------------------------------------
(* The steps, and the backtracer. *)

(* A message that is made now.                                             *)
LEMMA NewMessage ==
  ASSUME OnceInv, NEW kind \in Kinds
  PROVE  LET msg == Message(calls + 1, kind.text, kind.level)
         IN  msg \in Logged /\ msg.id = calls + 1
<1>1. PICK id, text, level, time : id = calls + 1 /\ text = kind.text /\ level = kind.level /\ time = now
  OBVIOUS
<1>2. id \in Nat /\ time \in Int
  BY <1>1 DEF OnceInv
<1>3. level \in Int
  BY <1>1, LoggerAssumption
<1>4. text \in {k.text : k \in Kinds}
  BY <1>1
<1>5. Message(id, text, level) = [id |-> id, text |-> text, level |-> level, time |-> time]
  BY <1>1 DEF Message
<1> QED
  BY <1>1, <1>2, <1>3, <1>4, <1>5 DEF Logged

(* A call of log begins.                                                   *)
LEMMA LogTracerStep ==
  ASSUME TracerInv, NEW t \in Threads, LogAny(t)
  PROVE  TracerInv'
<1>1. PICK kind \in Kinds : Log(t, kind.text, kind.level)
  BY DEF LogAny
<1>2. PICK msg : msg = Message(calls + 1, kind.text, kind.level)
  OBVIOUS
<1>3. PICK then : then = IF enabled THEN "push" ELSE "return"
  OBVIOUS
<1>4. PICK c : c = Sinking(msg, then, FALSE)
  OBVIOUS
<1>5. PICK d : d = IF ShouldLog(kind.level) THEN c ELSE After(c)
  OBVIOUS
<1>6. /\ ShouldLog(kind.level) \/ enabled
      /\ Begin(t, d) /\ UNCHANGED <<tracerVars, filterVars, netVars, now, plain>>
  BY <1>1, <1>2, <1>3, <1>4, <1>5, Zenon DEF Log
<1>7. /\ call[t] = Idle /\ calls' = calls + 1 /\ call' = [call EXCEPT ![t] = d]
      /\ messages' = messages /\ traced' = traced /\ holder' = holder /\ plain' = plain /\ now' = now
  BY <1>6 DEF Begin, tracerVars
<1>8. msg \in Logged /\ msg.id = calls + 1
  BY <1>2, NewMessage DEF TracerInv
<1>9. /\ IsCall(c) /\ c.at = "sinks" /\ c.msg = msg /\ c.then = then /\ c.dumped = FALSE
      /\ then \in {"push", "return"}
  <2>1. then \in {"push", "return"}
    BY <1>3
  <2>2. c = [at |-> "sinks", sink |-> 1, msg |-> msg, then |-> then, dumped |-> FALSE]
    BY <1>4 DEF Sinking
  <2> QED
    BY <2>1, <2>2 DEF IsCall
<1>10. d # Idle => /\ IsCall(d) /\ d.msg = msg /\ d.at \in {"sinks", "push"} /\ ~d.dumped
  BY <1>5, <1>9, AfterIs
<1>11. CallInv' /\ call'[t] = d /\ \A u \in Threads \ {t} : call'[u] = call[u]
  BY <1>7, <1>10, CallChanges DEF TracerInv
<1>12. OnceInv'
  <2>1. calls \in Nat /\ now \in Int /\ OnceInv
    BY DEF TracerInv, OnceInv
  <2>2. Keeping(t)' => call'[t].msg = msg
    BY <1>10, <1>11 DEF Keeping, Doing, Idle
  <2> QED
    BY <1>7, <1>8, <1>11, <2>1, <2>2, OnceKept
<1>13. PlainInv'
  <2>1. \A u \in Threads : Sunk(u) => Sunk(u)'
    BY <1>7, <1>11 DEF Sunk, Doing, Idle
  <2> QED
    BY <1>7, <2>1, PlainKept DEF TracerInv
<1>14. HolderInv'
  <2>1. ~Dumping(t)' /\ (Doing(t, "sinks")' => ~call'[t].dumped)
    BY <1>10, <1>11 DEF Dumping, Sunk, Doing, Idle
  <2> QED
    BY <1>7, <1>11, <2>1, HolderKept DEF TracerInv
<1> QED
  BY <1>7, <1>11, <1>12, <1>13, <1>14, RingKept DEF TracerInv

(* A call goes from the first sink to the second.                          *)
LEMMA FirstSinkTracerStep ==
  ASSUME TracerInv, NEW t \in Threads, FirstSink(t)
  PROVE  TracerInv'
<1>1. PICK c, d : c = call[t] /\ d = [c EXCEPT !.sink = 2]
  OBVIOUS
<1>2. /\ c.at = "sinks" /\ call' = [call EXCEPT ![t] = d]
      /\ messages' = messages /\ traced' = traced /\ holder' = holder /\ plain' = plain
      /\ calls' = calls /\ now' = now
  BY <1>1 DEF FirstSink, Doing, tracerVars
<1>3. IsCall(c)
  BY <1>1, <1>2 DEF TracerInv, CallInv, Idle
<1>4. IsCall(d) /\ d.at = c.at /\ d.msg = c.msg /\ d.then = c.then /\ d.dumped = c.dumped
  <2>1. /\ d = [at |-> c.at, sink |-> 2, msg |-> c.msg, then |-> c.then, dumped |-> c.dumped]
        /\ IsCall(d)
    BY <1>1, <1>3, CallFields
  <2> QED
    BY <2>1
<1>5. CallInv' /\ call'[t] = d /\ \A u \in Threads \ {t} : call'[u] = call[u]
  BY <1>2, <1>4, CallChanges DEF TracerInv
<1>6. OnceInv'
  <2>1. calls \in Nat /\ now \in Int /\ OnceInv
    BY DEF TracerInv, OnceInv
  <2>2. Keeping(t)' => Keeping(t) /\ call'[t].msg = call[t].msg
    BY <1>1, <1>2, <1>4, <1>5 DEF Keeping, Doing
  <2> QED
    BY <1>2, <1>5, <2>1, <2>2, OnceKept
<1>7. PlainInv'
  <2>1. \A u \in Threads : Sunk(u) => Sunk(u)'
    BY <1>1, <1>2, <1>5 DEF Sunk, Doing
  <2> QED
    BY <1>2, <2>1, PlainKept DEF TracerInv
<1>8. HolderInv'
  <2>1. Dumping(t)' => Dumping(t) /\ ~Doing(t, "next") /\ call'[t].msg = call[t].msg
    BY <1>1, <1>2, <1>4, <1>5 DEF Dumping, Sunk, Doing
  <2>2. Doing(t, "sinks") /\ call'[t].dumped = call[t].dumped
    BY <1>1, <1>2, <1>4, <1>5 DEF Doing
  <2> QED
    BY <1>2, <1>5, <2>1, <2>2, HolderKept DEF TracerInv
<1> QED
  BY <1>2, <1>5, <1>6, <1>7, <1>8, RingKept DEF TracerInv

(* A dumped message is the next after those dumped before it.              *)
LEMMA DumpedInOrder ==
  ASSUME TracerInv, NEW t \in Threads, Doing(t, "sinks"), call[t].dumped,
         plain' = Append(plain, call[t].msg.id), messages' = messages, traced' = traced,
         Sunk(t)'
  PROVE  PlainInv'
<1>1. PICK b, id, p : b = Before /\ id = call[t].msg.id /\ p = Len(plain)
  OBVIOUS
<1>2. PICK l, n : l = Len(messages) /\ n = Len(traced)
  OBVIOUS
<1>3. /\ messages \in Seq(Logged) /\ traced \in Seq(Nat) /\ plain \in Seq(Nat)
      /\ l \in Nat /\ n \in Nat /\ l <= n /\ b = n - l /\ p \in Nat
      /\ DOMAIN traced = 1 .. n /\ DOMAIN plain = 1 .. p
  BY <1>1, <1>2 DEF TracerInv, RingInv, PlainInv, Before
<1>4. Dumping(t) /\ messages # <<>> /\ call[t].msg = Head(messages)
  BY DEF TracerInv, HolderInv, Dumping, Doing
<1>5. l # 0 /\ Head(messages) = messages[1] /\ messages[1] \in Logged
  BY <1>2, <1>3, <1>4
<1>6. b + 1 \in 1 .. n /\ traced[b + 1] = id /\ id \in Nat
  <2>1. 1 \in 1 .. Len(messages)
    BY <1>2, <1>3, <1>5
  <2>2. messages[1].id = traced[Before + 1]
    BY <2>1 DEF TracerInv, RingInv
  <2> QED
    BY <1>1, <1>3, <1>4, <1>5, <2>2 DEF Logged
<1>7. \A u \in Threads : ~Sunk(u)
  <2>1. ASSUME NEW u \in Threads, Sunk(u) PROVE FALSE
    <3>1. holder = u /\ holder = t
      BY <1>4, <2>1 DEF TracerInv, HolderInv, Dumping
    <3> QED
      BY <2>1, <3>1 DEF Sunk, Doing
  <2> QED
    BY <2>1
<1>8. \A j \in 1 .. p : \E m \in 1 .. n : traced[m] = plain[j] /\ m <= b
  BY <1>1, <1>3, <1>7 DEF TracerInv, PlainInv
<1>9. PICK q : q = Append(plain, id)
  OBVIOUS
<1>10. /\ q \in Seq(Nat) /\ DOMAIN q = 1 .. p + 1 /\ q[p + 1] = id
       /\ \A j \in 1 .. p : q[j] = plain[j]
  BY <1>1, <1>3, <1>6, <1>9
<1>11. plain' = q /\ Before' = b
  BY <1>1, <1>9 DEF Before
<1>12. \A j \in 1 .. p + 1 : j \in 1 .. p \/ j = p + 1
  BY <1>3
<1>13. \A j \in DOMAIN q : \E m \in 1 .. n :
         traced[m] = q[j] /\ (m <= b \/ (m = b + 1 /\ \E u \in Threads : Sunk(u)'))
  BY <1>6, <1>8, <1>10, <1>12
<1>14. ASSUME NEW j \in 1 .. p + 1, NEW k \in 1 .. p + 1, j < k
       PROVE  q[j] # q[k] /\ \E m, o \in 1 .. n : m < o /\ traced[m] = q[j] /\ traced[o] = q[k]
  <2>1. j \in 1 .. p
    BY <1>3, <1>14
  <2>2. CASE k \in 1 .. p
    <3>1. /\ plain[j] # plain[k]
          /\ \E m, o \in DOMAIN traced : m < o /\ traced[m] = plain[j] /\ traced[o] = plain[k]
      <4>1. j \in DOMAIN plain /\ k \in DOMAIN plain
        BY <1>3, <2>1, <2>2
      <4> QED
        BY <1>14, <4>1 DEF TracerInv, PlainInv, DumpedOnceInOrder
    <3> QED
      BY <1>3, <1>10, <2>1, <2>2, <3>1
  <2>3. CASE k = p + 1
    <3>1. PICK m \in 1 .. n : traced[m] = q[j] /\ m <= b
      BY <1>8, <1>10, <2>1
    <3>2. m < b + 1 /\ traced[b + 1] = q[k]
      BY <1>3, <1>6, <1>10, <2>3, <3>1
    <3>3. traced[m] # traced[b + 1]
      <4>1. m \in DOMAIN traced /\ b + 1 \in DOMAIN traced /\ m # b + 1
        BY <1>3, <1>6, <3>1, <3>2
      <4> QED
        BY <4>1 DEF TracerInv, OnceInv
    <3> QED
      BY <1>6, <3>1, <3>2, <3>3
  <2> QED
    BY <1>12, <2>2, <2>3
<1>15. DumpedOnceInOrder'
  <2>1. DOMAIN plain' = 1 .. p + 1 /\ DOMAIN traced' = 1 .. n
    BY <1>3, <1>10, <1>11
  <2> QED
    BY <1>11, <1>14, <2>1 DEF DumpedOnceInOrder
<1>16. \A j \in DOMAIN plain' : \E m \in DOMAIN traced' :
         traced'[m] = plain'[j] /\ (m <= Before' \/ (m = Before' + 1 /\ \E u \in Threads : Sunk(u)'))
  BY <1>3, <1>11, <1>13
<1> QED
  BY <1>10, <1>11, <1>15, <1>16 DEF PlainInv

(* A call leaves the second sink, which a dump told of its message.        *)
LEMMA SecondSinkTracerStep ==
  ASSUME TracerInv, NEW t \in Threads, SecondSink(t)
  PROVE  TracerInv'
<1>1. PICK c, d : c = call[t] /\ d = After(c)
  OBVIOUS
<1>2. /\ c.at = "sinks" /\ call' = [call EXCEPT ![t] = d]
      /\ messages' = messages /\ traced' = traced /\ holder' = holder
      /\ calls' = calls /\ now' = now
      /\ plain' = IF c.dumped /\ SinkLogs("plain", c.msg.level)
                  THEN Append(plain, c.msg.id) ELSE plain
  <2>1. call' = [call EXCEPT ![t] = After(call[t])]
    BY DEF SecondSink
  <2> QED
    BY <1>1, <2>1 DEF SecondSink, Doing, tracerVars
<1>3. IsCall(c)
  BY <1>1, <1>2 DEF TracerInv, CallInv, Idle
<1>4. \/ c.then = "return" /\ d = Idle
      \/ /\ c.then # "return" /\ IsCall(d)
         /\ d.at = c.then /\ d.msg = c.msg /\ d.then = c.then /\ d.dumped = c.dumped
  BY <1>1, <1>3, AfterIs
<1>5. CallInv' /\ call'[t] = d /\ \A u \in Threads \ {t} : call'[u] = call[u]
  BY <1>2, <1>4, CallChanges DEF TracerInv
<1>6. OnceInv'
  <2>1. calls \in Nat /\ now \in Int /\ OnceInv
    BY DEF TracerInv, OnceInv
  <2>2. Keeping(t)' => Keeping(t) /\ call'[t].msg = call[t].msg
    BY <1>1, <1>2, <1>3, <1>4, <1>5 DEF Keeping, Doing, Idle, IsCall
  <2> QED
    BY <1>2, <1>5, <2>1, <2>2, OnceKept
<1>7. CASE c.dumped
  <2>1. c.then = "pop" /\ d.at = "pop" /\ d.msg = c.msg
    BY <1>3, <1>4, <1>7 DEF IsCall
  <2>2. Sunk(t)' /\ Doing(t, "sinks") /\ call[t].dumped
    BY <1>1, <1>2, <1>5, <1>7, <2>1 DEF Sunk, Doing
  <2>3. PlainInv'
    <3>1. CASE SinkLogs("plain", c.msg.level)
      BY <1>1, <1>2, <1>7, <2>2, <3>1, DumpedInOrder
    <3>2. CASE ~SinkLogs("plain", c.msg.level)
      <4>1. \A u \in Threads : Sunk(u) => Sunk(u)'
        BY <1>5, <2>2 DEF Sunk, Doing
      <4> QED
        BY <1>2, <3>2, <4>1, PlainKept DEF TracerInv
    <3> QED
      BY <3>1, <3>2
  <2>4. HolderInv'
    <3>1. Dumping(t) /\ ~Doing(t, "next") /\ call'[t].msg = call[t].msg
      BY <1>1, <1>2, <1>5, <2>1, <2>2 DEF Dumping, Doing
    <3>2. ~Doing(t, "sinks")'
      BY <1>5, <2>1 DEF Doing
    <3> QED
      BY <1>2, <1>5, <3>1, <3>2, HolderKept DEF TracerInv
  <2> QED
    BY <1>2, <1>5, <1>6, <2>3, <2>4, RingKept DEF TracerInv
<1>8. CASE ~c.dumped
  <2>1. c.then # "pop" /\ ~Sunk(t)
    BY <1>1, <1>2, <1>3, <1>8 DEF IsCall, Sunk, Doing
  <2>2. d.at \in {"idle", "push", "lock"}
    BY <1>3, <1>4, <2>1 DEF IsCall, Idle
  <2>3. ~Dumping(t)' /\ ~Doing(t, "sinks")'
    BY <1>5, <2>2 DEF Dumping, Sunk, Doing
  <2>4. HolderInv'
    BY <1>2, <1>5, <2>3, HolderKept DEF TracerInv
  <2>5. PlainInv'
    <3>1. \A u \in Threads : Sunk(u) => Sunk(u)'
      BY <1>5, <2>1 DEF Sunk, Doing
    <3> QED
      BY <1>2, <1>8, <3>1, PlainKept DEF TracerInv
  <2> QED
    BY <1>2, <1>5, <1>6, <2>4, <2>5, RingKept DEF TracerInv
<1> QED
  BY <1>7, <1>8

(* A thread that takes the mutex for a moment finds no dump in progress.   *)
LEMMA NobodyDumps ==
  ASSUME TracerInv, NEW t \in Threads, HasTracer(t), ~Dumping(t)
  PROVE  \A u \in Threads : ~Dumping(u)
  BY LoggerAssumption DEF TracerInv, HolderInv, HasTracer

(* A message is kept.                                                      *)
LEMMA PushTracerStep ==
  ASSUME TracerInv, NEW t \in Threads, Push(t)
  PROVE  TracerInv'
<1>1. PICK msg, kept, id : /\ msg = call[t].msg /\ id = msg.id
                           /\ kept = IF Len(messages) = Items THEN Tail(messages) ELSE messages
  OBVIOUS
<1>2. /\ Doing(t, "push") /\ HasTracer(t) /\ call' = [call EXCEPT ![t] = Idle]
      /\ messages' = Append(kept, msg) /\ traced' = Append(traced, id)
      /\ holder' = holder /\ plain' = plain /\ calls' = calls /\ now' = now
  BY <1>1 DEF Push
<1>3. ~Dumping(t) /\ Keeping(t)
  BY <1>2 DEF Dumping, Sunk, Keeping, Doing
<1>4. CallInv' /\ call'[t] = Idle /\ \A u \in Threads \ {t} : call'[u] = call[u]
  BY <1>2, CallChanges DEF TracerInv
<1>5. \A u \in Threads : ~Dumping(u) /\ ~Dumping(u)'
  BY <1>2, <1>3, <1>4, NobodyDumps DEF Dumping, Sunk, Doing, Idle
<1>6. PICK l, n, b : l = Len(messages) /\ n = Len(traced) /\ b = Before
  OBVIOUS
<1>7. /\ messages \in Seq(Logged) /\ traced \in Seq(Nat) /\ l \in Nat /\ n \in Nat /\ l <= n
      /\ b = n - l /\ DOMAIN traced = 1 .. n
      /\ \A i \in 1 .. l : messages[i].id = traced[b + i]
  BY <1>6 DEF TracerInv, RingInv, Before
<1>8. /\ msg \in Logged /\ id \in Nat /\ id \in 1 .. calls /\ calls \in Nat
      /\ \A m \in DOMAIN traced : traced[m] # id
  BY <1>1, <1>3 DEF TracerInv, OnceInv, Logged
<1>9. PICK w : w = Append(traced, id)
  OBVIOUS
<1>10. /\ w \in Seq(Nat) /\ Len(w) = n + 1 /\ DOMAIN w = 1 .. n + 1
       /\ w[n + 1] = id /\ \A m \in 1 .. n : w[m] = traced[m]
  BY <1>6, <1>7, <1>8, <1>9
<1>11. PICK k : k = Len(kept)
  OBVIOUS
<1>12. /\ kept \in Seq(Logged) /\ k \in Nat /\ k <= l
       /\ \A i \in 1 .. k : kept[i].id = traced[n - k + i]
  <2>1. CASE l = Items
    <3>1. messages # <<>> /\ l >= 1
      <4>1. l >= 1
        <5>1. Items \in Nat \ {0}
          BY LoggerAssumption, Zenon
        <5> QED
          BY <2>1, <5>1
      <4>2. PICK e : e = <<>> /\ Len(e) = 0
        OBVIOUS
      <4> QED
        BY <1>6, <4>1, <4>2
    <3>2. kept = Tail(messages)
      BY <1>1, <1>6, <2>1
    <3>3. kept \in Seq(Logged) /\ k = l - 1 /\ \A i \in 1 .. k : kept[i] = messages[i + 1]
      BY <1>6, <1>7, <1>11, <3>1, <3>2
    <3>4. ASSUME NEW i \in 1 .. k PROVE kept[i].id = traced[n - k + i]
      <4>1. i + 1 \in 1 .. l /\ b + (i + 1) = n - k + i
        BY <1>7, <3>1, <3>3
      <4>2. messages[i + 1].id = traced[b + (i + 1)]
        BY <1>7, <4>1
      <4> QED
        BY <3>3, <4>1, <4>2
    <3> QED
      BY <1>7, <3>1, <3>3, <3>4
  <2>2. CASE l # Items
    <3>1. kept = messages /\ k = l
      BY <1>1, <1>6, <1>11, <2>2
    <3> QED
      BY <1>7, <3>1
  <2> QED
    BY <2>1, <2>2
<1>13. PICK q : q = Append(kept, msg)
  OBVIOUS
<1>14. /\ q \in Seq(Logged) /\ Len(q) = k + 1 /\ q[k + 1] = msg
       /\ \A i \in 1 .. k : q[i] = kept[i]
  BY <1>8, <1>11, <1>12, <1>13
<1>15. messages' = q /\ traced' = w /\ Before' = n - k
  <2>1. messages' = q /\ traced' = w
    BY <1>2, <1>9, <1>13
  <2>2. Before' = Len(w) - Len(q)
    BY <2>1 DEF Before
  <2> QED
    BY <1>7, <1>10, <1>12, <1>14, <2>1, <2>2
<1>16. RingInv'
  <2>1. ASSUME NEW i \in 1 .. k + 1 PROVE q[i].id = w[n - k + i]
    <3>1. CASE i \in 1 .. k
      <4>1. n - k + i \in 1 .. n
        <5>1. /\ n \in Nat /\ k \in Nat /\ l \in Nat /\ k <= l /\ l <= n
              /\ i \in Nat /\ 1 <= i /\ i <= k
          BY <1>7, <1>12, <3>1
        <5> QED
          BY <5>1
      <4> QED
        BY <1>10, <1>12, <1>14, <3>1, <4>1
    <3>2. CASE i = k + 1
      <4>1. n - k + i = n + 1
        BY <1>7, <1>12, <3>2
      <4> QED
        BY <1>1, <1>10, <1>14, <3>2, <4>1
    <3> QED
      BY <1>12, <3>1, <3>2
  <2>2. k + 1 <= n + 1
    BY <1>7, <1>12
  <2> QED
    BY <1>10, <1>14, <1>15, <2>1, <2>2 DEF RingInv
<1>17. HolderInv'
  <2>1. \A u \in Threads : ~(Doing(u, "sinks")' /\ call'[u].dumped)
    BY <1>5 DEF Dumping
  <2> QED
    BY <1>2, <1>5, <2>1 DEF TracerInv, HolderInv
<1>18. OnceInv'
  <2>1. \A m \in 1 .. n + 1 : m \in 1 .. n \/ m = n + 1
    BY <1>7
  <2>2. \A m \in 1 .. n + 1 : w[m] \in 1 .. calls
    BY <1>7, <1>8, <1>10, <2>1 DEF TracerInv, OnceInv
  <2>3. ASSUME NEW m \in 1 .. n + 1, NEW o \in 1 .. n + 1, w[m] = w[o] PROVE m = o
    <3>1. CASE m \in 1 .. n /\ o \in 1 .. n
      BY <1>7, <1>10, <2>3, <3>1 DEF TracerInv, OnceInv
    <3> QED
      BY <1>7, <1>8, <1>10, <2>1, <2>3, <3>1
  <2>4. ASSUME NEW u \in Threads, Keeping(u)'
        PROVE  /\ u # t /\ Keeping(u) /\ call'[u] = call[u]
               /\ call[u].msg \in Logged /\ call[u].msg.id \in 1 .. calls
               /\ \A m \in 1 .. n + 1 : w[m] # call[u].msg.id
    <3>1. u # t
      BY <1>4, <2>4 DEF Keeping, Doing, Idle
    <3>2. Keeping(u) /\ call'[u] = call[u]
      BY <1>4, <2>4, <3>1 DEF Keeping, Doing
    <3>3. call[u].msg \in Logged /\ call[u].msg.id \in 1 .. calls
          /\ \A m \in 1 .. n : traced[m] # call[u].msg.id
      BY <1>7, <3>2 DEF TracerInv, OnceInv
    <3>4. call[u].msg.id # id
      BY <1>1, <1>3, <3>1, <3>2 DEF TracerInv, OnceInv
    <3> QED
      BY <1>10, <2>1, <3>1, <3>2, <3>3, <3>4
  <2>5. \A u, v \in Threads : Keeping(u)' /\ Keeping(v)' /\ call'[v].msg.id = call'[u].msg.id => v = u
    BY <2>4 DEF TracerInv, OnceInv
  <2>6. calls' \in Nat /\ now' \in Int
    BY <1>2 DEF TracerInv, OnceInv
  <2> QED
    BY <1>2, <1>10, <1>15, <2>2, <2>3, <2>4, <2>5, <2>6 DEF OnceInv
<1>19. PlainInv'
  <2>1. \A u \in Threads : ~Sunk(u)
    BY <1>5 DEF Dumping
  <2>2. b <= n - k
    BY <1>7, <1>12
  <2>3. \A j \in DOMAIN plain : \E m \in 1 .. n : traced[m] = plain[j] /\ m <= b
    BY <1>6, <1>7, <2>1 DEF TracerInv, PlainInv
  <2>4. \A j \in DOMAIN plain : \E m \in 1 .. n + 1 : w[m] = plain[j] /\ m <= n - k
    <3>1. \A m \in 1 .. n : m \in 1 .. n + 1 /\ (m <= b => m <= n - k)
      BY <1>7, <1>12, <2>2
    <3> QED
      BY <1>10, <2>3, <3>1
  <2>5. DumpedOnceInOrder'
    <3>1. ASSUME NEW i \in DOMAIN plain, NEW j \in DOMAIN plain, i < j
          PROVE  /\ plain[i] # plain[j]
                 /\ \E m, o \in 1 .. n + 1 : m < o /\ w[m] = plain[i] /\ w[o] = plain[j]
      <4>1. plain[i] # plain[j] /\ \E m, o \in 1 .. n : m < o /\ traced[m] = plain[i] /\ traced[o] = plain[j]
        BY <1>7, <3>1 DEF TracerInv, PlainInv, DumpedOnceInOrder
      <4>2. \A m \in 1 .. n : m \in 1 .. n + 1
        BY <1>7
      <4> QED
        BY <1>10, <4>1, <4>2
    <3> QED
      BY <1>2, <1>10, <1>15, <3>1 DEF DumpedOnceInOrder
  <2>6. plain \in Seq(Nat)
    BY DEF TracerInv, PlainInv
  <2> QED
    BY <1>2, <1>10, <1>15, <2>4, <2>5, <2>6 DEF PlainInv
<1> QED
  BY <1>4, <1>16, <1>17, <1>18, <1>19 DEF TracerInv
(* Messages leave the front of the ring.                                   *)
LEMMA PlainOut ==
  ASSUME TracerInv, plain' = plain, traced' = traced, Before' \in Int, Before' >= Before,
         (\E t \in Threads : Sunk(t)) => Before' > Before
  PROVE  PlainInv'
<1>1. PICK b, e : b = Before /\ e = Before'
  OBVIOUS
<1>2. b \in Int /\ e \in Int /\ e >= b /\ \A m \in DOMAIN traced : m \in Int
  BY <1>1 DEF TracerInv, RingInv, Before
<1>3. ASSUME NEW j \in DOMAIN plain
      PROVE  \E m \in DOMAIN traced : traced[m] = plain[j] /\ m <= e
  <2>1. PICK m \in DOMAIN traced : /\ traced[m] = plain[j]
                                   /\ m <= b \/ (m = b + 1 /\ \E t \in Threads : Sunk(t))
    BY <1>1 DEF TracerInv, PlainInv
  <2>2. m <= e
    BY <1>1, <1>2, <2>1
  <2> QED
    BY <2>1, <2>2
<1>4. DumpedOnceInOrder'
  BY DEF TracerInv, PlainInv, DumpedOnceInOrder
<1> QED
  BY <1>1, <1>3, <1>4 DEF TracerInv, PlainInv

(* A call begins that keeps and dumps nothing of its own yet.              *)
LEMMA BeginTracerStep ==
  ASSUME TracerInv, NEW t \in Threads, NEW d, Begin(t, d), now' = now, traced' = traced,
         \/ d = Idle
         \/ IsCall(d) /\ d.at = "sinks" /\ d.then \notin {"push", "pop"}
  PROVE  /\ CallInv' /\ OnceInv' /\ ~Dumping(t) /\ ~Dumping(t)' /\ ~Doing(t, "next")
         /\ Doing(t, "sinks")' => ~call'[t].dumped
         /\ \A u \in Threads : Sunk(u)' <=> Sunk(u)
         /\ \A u \in Threads \ {t} : call'[u] = call[u]
<1>1. call[t] = Idle /\ call' = [call EXCEPT ![t] = d] /\ calls' = calls + 1
  BY DEF Begin
<1>2. CallInv' /\ call'[t] = d /\ \A u \in Threads \ {t} : call'[u] = call[u]
  BY <1>1, CallChanges DEF TracerInv
<1>3. ~Dumping(t) /\ ~Doing(t, "next") /\ ~Sunk(t)
  BY <1>1 DEF Dumping, Sunk, Doing, Idle
<1>4. ~Dumping(t)' /\ ~Keeping(t)' /\ ~Sunk(t)' /\ (Doing(t, "sinks")' => ~call'[t].dumped)
  <2>1. CASE d = Idle
    BY <1>2, <2>1 DEF Dumping, Sunk, Keeping, Doing, Idle
  <2>2. CASE IsCall(d) /\ d.at = "sinks" /\ d.then \notin {"push", "pop"}
    BY <1>2, <2>2 DEF Dumping, Sunk, Keeping, Doing, IsCall
  <2> QED
    BY <2>1, <2>2
<1>5. OnceInv'
  <2>1. calls \in Nat /\ now \in Int /\ OnceInv
    BY DEF TracerInv, OnceInv
  <2> QED
    BY <1>1, <1>2, <1>4, <2>1, OnceKept
<1>6. \A u \in Threads : Sunk(u)' <=> Sunk(u)
  BY <1>2, <1>3, <1>4 DEF Sunk, Doing
<1> QED
  BY <1>2, <1>3, <1>4, <1>5, <1>6

(* The backtrace is turned on, with an empty ring.                         *)
LEMMA EnableTracerStep ==
  ASSUME TracerInv, NEW t \in Threads, EnableBacktrace(t)
  PROVE  TracerInv'
<1>1. PICK d, e : d = Idle /\ e = <<>>
  OBVIOUS
<1> e \in Seq(Logged) /\ Len(e) = 0
  BY <1>1
<1>2. /\ HasTracer(t) /\ Begin(t, d) /\ messages' = e /\ holder' = holder /\ traced' = traced
      /\ now' = now /\ plain' = plain
  BY <1>1 DEF EnableBacktrace
<1>3. /\ CallInv' /\ OnceInv' /\ ~Dumping(t) /\ ~Dumping(t)'
      /\ \A u \in Threads : Sunk(u)' <=> Sunk(u)
      /\ \A u \in Threads \ {t} : call'[u] = call[u]
  BY <1>1, <1>2, BeginTracerStep
<1>4. \A u \in Threads : ~Dumping(u) /\ ~Dumping(u)'
  BY <1>2, <1>3, NobodyDumps DEF Dumping, Sunk, Doing
<1>5. PICK l, n : l = Len(messages) /\ n = Len(traced)
  OBVIOUS
<1>6. l \in Nat /\ n \in Nat /\ l <= n /\ Before = n - l /\ Before' = n /\ traced \in Seq(Nat)
  <2>1. Before' = n - Len(e)
    BY <1>2, <1>5 DEF Before
  <2> QED
    BY <1>1, <1>5, <2>1 DEF TracerInv, RingInv, Before
<1>7. RingInv'
  <2>1. \A i \in 1 .. 0 : e[i].id = traced[n + i]
    OBVIOUS
  <2> QED
    BY <1>1, <1>2, <1>5, <1>6, <2>1 DEF RingInv
<1>8. HolderInv'
  <2>1. \A u \in Threads : ~(Doing(u, "sinks")' /\ call'[u].dumped)
    BY <1>4 DEF Dumping
  <2> QED
    BY <1>2, <1>4, <2>1 DEF TracerInv, HolderInv
<1>9. PlainInv'
  <2>1. ~\E u \in Threads : Sunk(u)
    BY <1>4 DEF Dumping
  <2> QED
    BY <1>2, <1>6, <2>1, PlainOut
<1> QED
  BY <1>3, <1>7, <1>8, <1>9 DEF TracerInv

(* The backtrace is turned off, and its ring kept.                         *)
LEMMA DisableTracerStep ==
  ASSUME TracerInv, NEW t \in Threads, DisableBacktrace(t)
  PROVE  TracerInv'
<1>1. /\ Begin(t, Idle) /\ messages' = messages /\ holder' = holder /\ traced' = traced
      /\ now' = now /\ plain' = plain
  BY DEF DisableBacktrace
<1>2. /\ CallInv' /\ OnceInv' /\ ~Dumping(t)' /\ (Doing(t, "sinks")' => ~call'[t].dumped)
      /\ \A u \in Threads : Sunk(u)' <=> Sunk(u)
      /\ \A u \in Threads \ {t} : call'[u] = call[u]
  BY <1>1, BeginTracerStep
<1> QED
  BY <1>1, <1>2, RingKept, PlainKept, HolderKept DEF TracerInv

(* A dump begins, with a line of its own.                                  *)
LEMMA DumpTracerStep ==
  ASSUME TracerInv, NEW t \in Threads, DumpBacktrace(t)
  PROVE  TracerInv'
<1>1. PICK d : d = Sinking(Marker("start"), "lock", FALSE)
  OBVIOUS
<1>2. /\ Begin(t, d) /\ messages' = messages /\ holder' = holder /\ traced' = traced
      /\ now' = now /\ plain' = plain
  BY <1>1 DEF DumpBacktrace, tracerVars
<1>3. IsCall(d) /\ d.at = "sinks" /\ d.then = "lock"
  <2>1. PICK msg : msg = Marker("start")
    OBVIOUS
  <2>2. d = [at |-> "sinks", sink |-> 1, msg |-> msg, then |-> "lock", dumped |-> FALSE]
    BY <1>1, <2>1, Zenon DEF Sinking
  <2> QED
    BY <2>2 DEF IsCall
<1>4. /\ CallInv' /\ OnceInv' /\ ~Dumping(t)' /\ (Doing(t, "sinks")' => ~call'[t].dumped)
      /\ \A u \in Threads : Sunk(u)' <=> Sunk(u)
      /\ \A u \in Threads \ {t} : call'[u] = call[u]
  BY <1>2, <1>3, BeginTracerStep
<1> QED
  BY <1>2, <1>4, RingKept, PlainKept, HolderKept DEF TracerInv
(* The dump takes the mutex.                                               *)
LEMMA LockTracerStep ==
  ASSUME TracerInv, NEW t \in Threads, Lock(t)
  PROVE  TracerInv'
<1>1. PICK c, d : c = call[t] /\ d = [c EXCEPT !.at = "next"]
  OBVIOUS
<1>2. /\ c.at = "lock" /\ HasTracer(t) /\ holder' = t /\ call' = [call EXCEPT ![t] = d]
      /\ messages' = messages /\ traced' = traced /\ plain' = plain /\ calls' = calls /\ now' = now
  BY <1>1 DEF Lock, Doing
<1>3. IsCall(c) /\ ~Dumping(t) /\ ~Sunk(t)
  BY <1>1, <1>2 DEF TracerInv, CallInv, Idle, Dumping, Sunk, Doing
<1>4. IsCall(d) /\ d.at = "next"
  <2>1. /\ d = [at |-> "next", sink |-> c.sink, msg |-> c.msg, then |-> c.then, dumped |-> c.dumped]
        /\ IsCall(d)
    BY <1>1, <1>3, CallFields
  <2> QED
    BY <2>1
<1>5. CallInv' /\ call'[t] = d /\ \A u \in Threads \ {t} : call'[u] = call[u]
  BY <1>2, <1>4, CallChanges DEF TracerInv
<1>6. OnceInv'
  <2>1. calls \in Nat /\ now \in Int /\ OnceInv
    BY DEF TracerInv, OnceInv
  <2>2. ~Keeping(t)'
    BY <1>4, <1>5 DEF Keeping, Doing
  <2> QED
    BY <1>2, <1>5, <2>1, <2>2, OnceKept
<1>7. PlainInv'
  <2>1. \A u \in Threads : Sunk(u) => Sunk(u)'
    BY <1>3, <1>5 DEF Sunk, Doing
  <2> QED
    BY <1>2, <2>1, PlainKept DEF TracerInv
<1>8. \A u \in Threads : Dumping(u)' => u = t
  BY <1>2, <1>3, <1>5, NobodyDumps DEF Dumping, Sunk, Doing
<1>9. HolderInv'
  <2>1. Doing(t, "next")' /\ ~Doing(t, "sinks")'
    BY <1>4, <1>5 DEF Doing
  <2>2. \A u \in Threads : ~(Doing(u, "sinks")' /\ call'[u].dumped)
    BY <1>8, <2>1 DEF Dumping
  <2> QED
    BY <1>2, <1>8, <2>1, <2>2 DEF HolderInv
<1> QED
  BY <1>2, <1>5, <1>6, <1>7, <1>9, RingKept DEF TracerInv

(* Only one thread dumps at a time.                                        *)
LEMMA OneDumps ==
  ASSUME TracerInv, NEW t \in Threads, Dumping(t)
  PROVE  holder = t /\ \A u \in Threads \ {t} : ~Dumping(u)
  BY DEF TracerInv, HolderInv

(* The front of the ring goes to the sinks.                                *)
LEMMA SinkFrontTracerStep ==
  ASSUME TracerInv, NEW t \in Threads, SinkFront(t)
  PROVE  TracerInv'
<1>1. PICK msg, d : msg = Head(messages) /\ d = Sinking(msg, "pop", TRUE)
  OBVIOUS
<1>2. /\ Doing(t, "next") /\ messages # <<>> /\ call' = [call EXCEPT ![t] = d]
      /\ messages' = messages /\ traced' = traced /\ plain' = plain /\ holder' = holder
      /\ calls' = calls /\ now' = now
  BY <1>1 DEF SinkFront, tracerVars
<1>3. IsCall(d) /\ d.at = "sinks" /\ d.msg = msg /\ d.then = "pop" /\ d.dumped = TRUE
  <2>1. d = [at |-> "sinks", sink |-> 1, msg |-> msg, then |-> "pop", dumped |-> TRUE]
    BY <1>1, Zenon DEF Sinking
  <2> QED
    BY <2>1 DEF IsCall
<1>4. CallInv' /\ call'[t] = d /\ \A u \in Threads \ {t} : call'[u] = call[u]
  BY <1>2, <1>3, CallChanges DEF TracerInv
<1>5. OnceInv'
  <2>1. calls \in Nat /\ now \in Int /\ OnceInv
    BY DEF TracerInv, OnceInv
  <2>2. ~Keeping(t)'
    BY <1>3, <1>4 DEF Keeping, Doing
  <2> QED
    BY <1>2, <1>4, <2>1, <2>2, OnceKept
<1>6. PlainInv'
  <2>1. \A u \in Threads : Sunk(u) => Sunk(u)'
    BY <1>2, <1>4 DEF Sunk, Doing
  <2> QED
    BY <1>2, <2>1, PlainKept DEF TracerInv
<1>7. holder = t /\ \A u \in Threads \ {t} : ~Dumping(u) /\ ~Dumping(u)'
  BY <1>2, <1>4, OneDumps DEF Dumping, Sunk, Doing
<1>8. HolderInv'
  <2>1. Doing(t, "sinks")' /\ call'[t].dumped /\ call'[t].msg = Head(messages)
    BY <1>1, <1>3, <1>4 DEF Doing
  <2>2. \A u \in Threads : Dumping(u)' => u = t
    BY <1>7
  <2>3. \A u \in Threads : Doing(u, "sinks")' /\ call'[u].dumped => u = t
    BY <1>7 DEF Dumping
  <2> QED
    BY <1>2, <1>7, <2>1, <2>2, <2>3 DEF HolderInv
<1> QED
  BY <1>2, <1>4, <1>5, <1>6, <1>8, RingKept DEF TracerInv

(* The front of the ring, which was dumped, leaves it.                     *)
LEMMA PopFrontTracerStep ==
  ASSUME TracerInv, NEW t \in Threads, PopFront(t)
  PROVE  TracerInv'
<1>1. PICK c, d, r : c = call[t] /\ d = [c EXCEPT !.at = "next"] /\ r = Tail(messages)
  OBVIOUS
<1>2. /\ c.at = "pop" /\ messages # <<>> /\ call' = [call EXCEPT ![t] = d]
      /\ messages' = r /\ traced' = traced /\ plain' = plain /\ holder' = holder
      /\ calls' = calls /\ now' = now
  BY <1>1 DEF PopFront, Doing
<1>3. IsCall(c) /\ Dumping(t)
  BY <1>1, <1>2 DEF TracerInv, CallInv, Idle, Dumping, Sunk, Doing
<1>4. IsCall(d) /\ d.at = "next"
  <2>1. /\ d = [at |-> "next", sink |-> c.sink, msg |-> c.msg, then |-> c.then, dumped |-> c.dumped]
        /\ IsCall(d)
    BY <1>1, <1>3, CallFields
  <2> QED
    BY <2>1
<1>5. CallInv' /\ call'[t] = d /\ \A u \in Threads \ {t} : call'[u] = call[u]
  BY <1>2, <1>4, CallChanges DEF TracerInv
<1>6. OnceInv'
  <2>1. calls \in Nat /\ now \in Int /\ OnceInv
    BY DEF TracerInv, OnceInv
  <2>2. ~Keeping(t)'
    BY <1>4, <1>5 DEF Keeping, Doing
  <2> QED
    BY <1>2, <1>5, <2>1, <2>2, OnceKept
<1>7. PICK l, n : l = Len(messages) /\ n = Len(traced)
  OBVIOUS
<1>8. /\ messages \in Seq(Logged) /\ traced \in Seq(Nat) /\ l \in Nat /\ n \in Nat /\ l <= n
      /\ Before = n - l /\ \A i \in 1 .. l : messages[i].id = traced[n - l + i]
  BY <1>7 DEF TracerInv, RingInv, Before
<1>9. /\ l >= 1 /\ r \in Seq(Logged) /\ Len(r) = l - 1
      /\ \A i \in 1 .. l - 1 : r[i] = messages[i + 1]
  BY <1>1, <1>2, <1>7, <1>8
<1>10. Before' = n - (l - 1)
  BY <1>2, <1>7, <1>9 DEF Before
<1>11. RingInv'
  <2>1. ASSUME NEW i \in 1 .. l - 1 PROVE r[i].id = traced[n - (l - 1) + i]
    <3>1. i + 1 \in 1 .. l /\ n - l + (i + 1) = n - (l - 1) + i
      BY <1>8, <1>9
    <3>2. messages[i + 1].id = traced[n - l + (i + 1)]
      BY <1>8, <3>1
    <3> QED
      BY <1>9, <3>1, <3>2
  <2>2. l - 1 <= n
    BY <1>8
  <2> QED
    BY <1>2, <1>7, <1>8, <1>9, <1>10, <2>1, <2>2 DEF RingInv
<1>12. PlainInv'
  <2>1. Before' \in Int /\ Before' >= Before /\ Before' > Before
    BY <1>8, <1>9, <1>10
  <2> QED
    BY <1>2, <2>1, PlainOut
<1>13. holder = t /\ \A u \in Threads \ {t} : ~Dumping(u) /\ ~Dumping(u)'
  BY <1>3, <1>5, OneDumps DEF Dumping, Sunk, Doing
<1>14. HolderInv'
  <2>1. Doing(t, "next")' /\ ~Doing(t, "sinks")'
    BY <1>4, <1>5 DEF Doing
  <2>2. \A u \in Threads : Dumping(u)' => u = t
    BY <1>13
  <2>3. \A u \in Threads : ~(Doing(u, "sinks")' /\ call'[u].dumped)
    BY <1>13, <2>1 DEF Dumping
  <2> QED
    BY <1>2, <1>13, <2>1, <2>2, <2>3 DEF HolderInv
<1> QED
  BY <1>5, <1>6, <1>11, <1>12, <1>14 DEF TracerInv

(* The dump ends, and gives the mutex back.                                *)
LEMMA EndDumpTracerStep ==
  ASSUME TracerInv, NEW t \in Threads, EndDump(t)
  PROVE  TracerInv'
<1>1. PICK d : d = Sinking(Marker("end"), "return", FALSE)
  OBVIOUS
<1>2. /\ Doing(t, "next") /\ holder' = Nobody /\ call' = [call EXCEPT ![t] = d]
      /\ messages' = messages /\ traced' = traced /\ plain' = plain
      /\ calls' = calls /\ now' = now
  BY <1>1 DEF EndDump
<1>3. IsCall(d) /\ d.at = "sinks" /\ d.then = "return" /\ d.dumped = FALSE
  <2>1. PICK msg : msg = Marker("end")
    OBVIOUS
  <2>2. d = [at |-> "sinks", sink |-> 1, msg |-> msg, then |-> "return", dumped |-> FALSE]
    BY <1>1, <2>1, Zenon DEF Sinking
  <2> QED
    BY <2>2 DEF IsCall
<1>4. CallInv' /\ call'[t] = d /\ \A u \in Threads \ {t} : call'[u] = call[u]
  BY <1>2, <1>3, CallChanges DEF TracerInv
<1>5. OnceInv'
  <2>1. calls \in Nat /\ now \in Int /\ OnceInv
    BY DEF TracerInv, OnceInv
  <2>2. ~Keeping(t)'
    BY <1>3, <1>4 DEF Keeping, Doing
  <2> QED
    BY <1>2, <1>4, <2>1, <2>2, OnceKept
<1>6. PlainInv'
  <2>1. \A u \in Threads : Sunk(u) => Sunk(u)'
    BY <1>2, <1>4 DEF Sunk, Doing
  <2> QED
    BY <1>2, <2>1, PlainKept DEF TracerInv
<1>7. \A u \in Threads : ~Dumping(u)'
  <2>1. ~Dumping(t)'
    BY <1>3, <1>4 DEF Dumping, Sunk, Doing
  <2>2. \A u \in Threads \ {t} : ~Dumping(u)'
    BY <1>2, <1>4, OneDumps DEF Dumping, Sunk, Doing
  <2> QED
    BY <2>1, <2>2
<1>8. HolderInv'
  <2>1. \A u \in Threads : ~(Doing(u, "sinks")' /\ call'[u].dumped)
    BY <1>7 DEF Dumping
  <2> QED
    BY <1>2, <1>7, <2>1 DEF HolderInv
<1> QED
  BY <1>2, <1>4, <1>5, <1>6, <1>8, RingKept DEF TracerInv

(* What a step keeps that is none of the backtracer's.                     *)
LEMMA TracerRests ==
  ASSUME TracerInv, UNCHANGED <<call, messages, traced, holder, plain, calls>>, now' \in Int
  PROVE  TracerInv'
<1>1. CallInv' /\ OnceInv' /\ HolderInv'
  BY DEF TracerInv, CallInv, OnceInv, HolderInv, Dumping, Sunk, Keeping, Doing
<1>2. PlainInv'
  BY PlainKept DEF TracerInv, Sunk, Doing
<1> QED
  BY <1>1, <1>2, RingKept DEF TracerInv----------------------------------------------------------------------------
(* What becomes of lines on their way to the server. *)

(* No line is cut short, but the last of a connection that is gone.        *)
Whole(conns, s) ==
  /\ conns \in Seq(Seq(Line)) /\ s \in 0 .. Len(conns)
  /\ \A i \in DOMAIN conns : \A k \in DOMAIN conns[i] :
       conns[i][k] = "whole" \/ (k = Len(conns[i]) /\ s # i)

IsOutcome(o, n) ==
  /\ o = [sent |-> o.sent, socket |-> o.socket, streams |-> o.streams, failed |-> o.failed]
  /\ o.failed \in 0 .. 1 /\ o.sent \in 0 .. n /\ (o.failed = 0 => o.sent = n)
  /\ Whole(o.streams, o.socket)

(* One more line in a connection.                                          *)
LEMMA SentIs ==
  ASSUME NEW conns \in Seq(Seq(Line)), NEW s \in 1 .. Len(conns), NEW line \in Line,
         NEW r, r = Sent(conns, s, line)
  PROVE  /\ r \in Seq(Seq(Line)) /\ Len(r) = Len(conns) /\ DOMAIN r = DOMAIN conns
         /\ \A i \in DOMAIN conns : i # s => r[i] = conns[i]
         /\ \A k \in DOMAIN r[s] : k = Len(r[s]) => r[s][k] = line
         /\ \A k \in DOMAIN r[s] : k # Len(r[s]) => k \in DOMAIN conns[s] /\ r[s][k] = conns[s][k]
<1>1. PICK n, one, two, m : /\ n = Len(conns) /\ one = conns[s] /\ two = Append(one, line)
                            /\ m = Len(one)
  OBVIOUS
<1>2. /\ n \in Nat /\ DOMAIN conns = 1 .. n /\ one \in Seq(Line) /\ m \in Nat
      /\ DOMAIN one = 1 .. m
  BY <1>1
<1>3. r = [conns EXCEPT ![s] = two]
  BY <1>1, Zenon DEF Sent
<1>4. /\ two \in Seq(Line) /\ Len(two) = m + 1 /\ DOMAIN two = 1 .. m + 1
      /\ two[m + 1] = line /\ \A k \in 1 .. m : two[k] = one[k]
  BY <1>1, <1>2
<1>5. /\ r \in Seq(Seq(Line)) /\ Len(r) = n /\ DOMAIN r = 1 .. n
      /\ r[s] = two /\ \A i \in 1 .. n : i # s => r[i] = conns[i]
  BY <1>1, <1>2, <1>3, <1>4
<1>6. \A k \in 1 .. m + 1 : k # m + 1 => k \in 1 .. m
  BY <1>2
<1>7. Len(r[s]) = m + 1 /\ r[s][m + 1] = line /\ DOMAIN r[s] = 1 .. m + 1
  BY <1>4, <1>5, Zenon
<1>8. \A k \in DOMAIN r[s] : k # Len(r[s]) => k \in DOMAIN conns[s] /\ r[s][k] = conns[s][k]
  BY <1>1, <1>2, <1>4, <1>5, <1>6, <1>7
<1>9. Len(conns[s]) = m /\ Len(conns) = n
  BY <1>1
<1>10. \A k \in DOMAIN r[s] : k = Len(r[s]) => r[s][k] = line
  BY <1>7, <1>9
<1>11. Len(r) = Len(conns) /\ DOMAIN r = DOMAIN conns
  BY <1>2, <1>5, <1>9
<1>12. \A i \in DOMAIN conns : i # s => r[i] = conns[i]
  BY <1>2, <1>5
<1> QED
  BY <1>5, <1>8, <1>10, <1>11, <1>12

(* A connection that is closed, and one that is new.                       *)
LEMMA WholeWithout ==
  ASSUME NEW conns, NEW s, Whole(conns, s)
  PROVE  Whole(conns, 0)
<1>1. PICK n : n = Len(conns)
  OBVIOUS
<1>2. n \in Nat /\ 0 \in 0 .. n /\ DOMAIN conns = 1 .. n
  BY <1>1 DEF Whole
<1>3. \A i \in 1 .. n : 0 # i
  OBVIOUS
<1> QED
  BY <1>1, <1>2, <1>3 DEF Whole

(* A new connection has no lines.                                          *)
LEMMA WholeWithNew ==
  ASSUME NEW conns, Whole(conns, 0), NEW e, e = Append(conns, <<>>)
  PROVE  Whole(e, Len(conns) + 1)
<1>1. PICK n, z : n = Len(conns) /\ z = <<>>
  OBVIOUS
<1>2. /\ n \in Nat /\ DOMAIN conns = 1 .. n /\ conns \in Seq(Seq(Line))
      /\ z \in Seq(Line) /\ DOMAIN z = {}
  BY <1>1 DEF Whole
<1>3. /\ e \in Seq(Seq(Line)) /\ Len(e) = n + 1 /\ DOMAIN e = 1 .. n + 1
      /\ e[n + 1] = z /\ \A i \in 1 .. n : e[i] = conns[i]
  BY <1>1, <1>2
<1>4. ASSUME NEW i \in DOMAIN e, NEW k \in DOMAIN e[i]
      PROVE  e[i][k] = "whole" \/ (k = Len(e[i]) /\ n + 1 # i)
  <2>1. i \in 1 .. n /\ n + 1 # i
    BY <1>2, <1>3, <1>4
  <2>2. e[i] = conns[i] /\ i \in DOMAIN conns
    BY <1>2, <1>3, <2>1
  <2>3. conns[i][k] = "whole" \/ k = Len(conns[i])
    BY <1>4, <2>2 DEF Whole
  <2> QED
    BY <2>1, <2>2, <2>3
<1>5. n + 1 \in 0 .. n + 1
  BY <1>2
<1> QED
  BY <1>1, <1>3, <1>4, <1>5 DEF Whole

(* A whole line more in the connection, or a part of one as it is closed.  *)
LEMMA WholeWithLine ==
  ASSUME NEW conns, NEW s, Whole(conns, s), s # 0, NEW line \in Line,
         NEW r, r = Sent(conns, s, line), NEW t,
         (line = "whole" /\ t = s) \/ (line = "cut" /\ t = 0)
  PROVE  Whole(r, t)
<1>1. s \in 1 .. Len(conns) /\ conns \in Seq(Seq(Line))
  BY DEF Whole
<1>2. r \in Seq(Seq(Line)) /\ Len(r) = Len(conns) /\ DOMAIN r = DOMAIN conns
  BY <1>1, SentIs
<1>3. \A i \in DOMAIN conns : i # s => r[i] = conns[i]
  BY <1>1, SentIs
<1>4. \A k \in DOMAIN r[s] : k = Len(r[s]) => r[s][k] = line
  BY <1>1, SentIs
<1>5. \A k \in DOMAIN r[s] : k # Len(r[s]) => k \in DOMAIN conns[s] /\ r[s][k] = conns[s][k]
  BY <1>1, SentIs
<1>6. t \in 0 .. Len(r) /\ \A i \in DOMAIN r : i # s => t # i
  <2>1. \A i \in DOMAIN r : 0 # i
    BY <1>1, <1>2
  <2>2. t \in 0 .. Len(conns) /\ (t = s \/ t = 0)
    BY <1>1
  <2> QED
    BY <1>2, <2>1, <2>2
<1>7. ASSUME NEW i \in DOMAIN r, NEW k \in DOMAIN r[i]
      PROVE  r[i][k] = "whole" \/ (k = Len(r[i]) /\ t # i)
  <2>1. CASE i # s
    BY <1>2, <1>3, <1>6, <1>7, <2>1 DEF Whole
  <2>2. CASE i = s /\ k # Len(r[s])
    <3>1. k \in DOMAIN conns[s] /\ r[s][k] = conns[s][k] /\ s \in DOMAIN conns
      BY <1>1, <1>2, <1>5, <1>7, <2>2
    <3>2. conns[s][k] = "whole"
      BY <3>1 DEF Whole
    <3> QED
      BY <2>2, <3>1, <3>2
  <2>3. CASE i = s /\ k = Len(r[s])
    <3>1. r[i][k] = line
      BY <1>2, <1>4, <1>7, <2>3
    <3>2. line = "cut" => t # i
      BY <1>1, <2>3
    <3> QED
      BY <2>3, <3>1, <3>2
  <2> QED
    BY <2>1, <2>2, <2>3
<1> QED
  BY <1>2, <1>6, <1>7 DEF Whole

(* The fields of an outcome.                                               *)
LEMMA OutcomeFields ==
  ASSUME NEW sent, NEW s, NEW conns, NEW failed, NEW o, o = Outcome(sent, s, conns, failed)
  PROVE  /\ o = [sent |-> o.sent, socket |-> o.socket, streams |-> o.streams, failed |-> o.failed]
         /\ o.sent = sent /\ o.socket = s /\ o.streams = conns /\ o.failed = failed
<1>1. o = [sent |-> sent, socket |-> s, streams |-> conns, failed |-> failed]
  BY DEF Outcome
<1>2. o.sent = sent /\ o.socket = s /\ o.streams = conns /\ o.failed = failed
  BY <1>1
<1> QED
  BY <1>1, <1>2, Zenon

(* The outcome of lines that were all sent.                                *)
LEMMA SentOutcome ==
  ASSUME NEW n \in Nat, NEW s, NEW conns, NEW o, Whole(conns, s), o = Outcome(n, s, conns, 0)
  PROVE  IsOutcome(o, n) /\ o.failed = 0 /\ o.socket = s
<1>1. n \in 0 .. n /\ 0 \in 0 .. 1
  OBVIOUS
<1> QED
  BY <1>1, OutcomeFields DEF IsOutcome

(* The outcome of lines of which one failed.                               *)
LEMMA FailedOutcome ==
  ASSUME NEW n \in Nat, NEW sent \in 0 .. n, NEW s, NEW conns, NEW o, Whole(conns, s),
         o = Outcome(sent, s, conns, 1)
  PROVE  IsOutcome(o, n) /\ o.failed = 1
<1>1. 1 \in 0 .. 1
  OBVIOUS
<1> QED
  BY <1>1, OutcomeFields DEF IsOutcome

(* What connect comes to.                                                  *)
LEMMA ConnectIs ==
  ASSUME NEW n \in Nat, NEW o, IsOutcome(o, n), o.failed = 0, o.socket = 0, NEW c \in Connect(o)
  PROVE  IsOutcome(c, n) /\ (c.failed = 0 => c.socket # 0)
<1>1. PICK conns : conns = o.streams
  OBVIOUS
<1>2. o.sent = n /\ Whole(conns, 0) /\ conns \in Seq(Seq(Line)) /\ n \in 0 .. n
  BY <1>1 DEF IsOutcome, Whole
<1>3. PICK e, l : e = Append(conns, <<>>) /\ l = Len(conns) + 1
  OBVIOUS
<1>4. Whole(e, l) /\ l # 0
  <2>1. Whole(e, l)
    BY <1>2, <1>3, WholeWithNew
  <2> QED
    BY <1>2, <1>3, <2>1
<1>5. c = Outcome(n, l, e, 0) \/ c = Outcome(n, 0, conns, 1)
  <2>1. \/ c = Outcome(o.sent, Len(o.streams) + 1, Append(o.streams, <<>>), 0)
        \/ c = Outcome(o.sent, 0, o.streams, 1)
    BY Zenon DEF Connect
  <2> QED
    BY <1>1, <1>2, <1>3, <2>1, Zenon
<1>6. CASE c = Outcome(n, l, e, 0)
  BY <1>4, <1>6, SentOutcome
<1>7. CASE c = Outcome(n, 0, conns, 1)
  BY <1>2, <1>7, FailedOutcome
<1> QED
  BY <1>5, <1>6, <1>7

(* What sending a line comes to, in a connection.                          *)
LEMMA SendIs ==
  ASSUME NEW n \in Nat, NEW o, IsOutcome(o, n), o.failed = 0, o.socket # 0, NEW c \in Send(o)
  PROVE  IsOutcome(c, n + 1)
<1>1. PICK conns, s : conns = o.streams /\ s = o.socket
  OBVIOUS
<1>2. o.sent = n /\ Whole(conns, s) /\ s # 0 /\ n \in 0 .. n + 1 /\ n + 1 \in 0 .. n + 1 /\ n + 1 \in Nat
  BY <1>1 DEF IsOutcome
<1>3. PICK more, part : more = Sent(conns, s, "whole") /\ part = Sent(conns, s, "cut")
  OBVIOUS
<1>4. Whole(more, s) /\ Whole(part, 0) /\ Whole(conns, 0)
  <2>1. Whole(more, s)
    <3>1. "whole" \in Line
      BY DEF Line
    <3> QED
      BY <1>1, <1>2, <1>3, <3>1, WholeWithLine
  <2>2. Whole(part, 0)
    <3>1. "cut" \in Line
      BY DEF Line
    <3> QED
      BY <1>1, <1>2, <1>3, <3>1, WholeWithLine
  <2>3. Whole(conns, 0)
    BY <1>2, WholeWithout
  <2> QED
    BY <2>1, <2>2, <2>3
<1>5. \/ c = Outcome(n + 1, s, more, 0)
      \/ c = Outcome(n, 0, conns, 1)
      \/ c = Outcome(n, 0, part, 1)
  <2>1. \/ c = Outcome(o.sent + 1, o.socket, Sent(o.streams, o.socket, "whole"), 0)
        \/ \E r \in {o.streams, Sent(o.streams, o.socket, "cut")} : c = Outcome(o.sent, 0, r, 1)
    BY Zenon DEF Send, SocketAfterFailure
  <2> QED
    BY <1>1, <1>2, <1>3, <2>1, Zenon
<1>6. CASE c = Outcome(n + 1, s, more, 0)
  BY <1>2, <1>4, <1>6, SentOutcome
<1>7. CASE c = Outcome(n, 0, conns, 1)
  BY <1>2, <1>4, <1>7, FailedOutcome
<1>8. CASE c = Outcome(n, 0, part, 1)
  BY <1>2, <1>4, <1>8, FailedOutcome
<1> QED
  BY <1>5, <1>6, <1>7, <1>8

(* One line after others that were sent.                                   *)
LEMMA SendOneIs ==
  ASSUME NEW n \in Nat, NEW o, IsOutcome(o, n), o.failed = 0, NEW c \in SendOne(o)
  PROVE  IsOutcome(c, n + 1)
<1>1. PICK d \in IF o.socket = 0 THEN Connect(o) ELSE {o} : c \in IF d.failed = 1 THEN {d} ELSE Send(d)
  BY Zenon DEF SendOne
<1>2. IsOutcome(d, n) /\ (d.failed = 0 => d.socket # 0)
  <2>1. CASE o.socket = 0
    BY <1>1, <2>1, ConnectIs
  <2>2. CASE o.socket # 0
    BY <1>1, <2>2
  <2> QED
    BY <2>1, <2>2
<1>3. CASE d.failed = 1
  <2>1. c = d /\ d.sent \in 0 .. n + 1 /\ d.failed # 0
    BY <1>1, <1>2, <1>3 DEF IsOutcome
  <2> QED
    BY <1>2, <1>3, <2>1, Zenon DEF IsOutcome
<1>4. CASE d.failed = 0
  <2>1. c \in Send(d)
    BY <1>1, <1>4
  <2> QED
    BY <1>2, <1>4, <2>1, SendIs
<1> QED
  BY <1>2, <1>3, <1>4 DEF IsOutcome

(* One line more.                                                          *)
LEMMA SendNextIs ==
  ASSUME NEW n \in Nat, NEW S, \A o \in S : IsOutcome(o, n), NEW level,
         NEW c \in SendNext(S, level)
  PROVE  IsOutcome(c, n + 1)
<1>1. PICK o \in S : c \in IF o.failed = 1 THEN {o}
                        ELSE IF SinkLogs("tcp", level) THEN SendOne(o)
                        ELSE {Outcome(o.sent + 1, o.socket, o.streams, 0)}
  BY Zenon DEF SendNext
<1>2. IsOutcome(o, n)
  BY <1>1
<1>3. CASE o.failed = 1
  <2>1. c = o /\ o.sent \in 0 .. n + 1 /\ o.failed # 0
    BY <1>1, <1>2, <1>3 DEF IsOutcome
  <2> QED
    BY <1>2, <1>3, <2>1, Zenon DEF IsOutcome
<1>4. CASE o.failed = 0 /\ SinkLogs("tcp", level)
  <2>1. c \in SendOne(o)
    BY <1>1, <1>4
  <2> QED
    BY <1>2, <1>4, <2>1, SendOneIs
<1>5. CASE o.failed = 0 /\ ~SinkLogs("tcp", level)
  <2>1. c = Outcome(o.sent + 1, o.socket, o.streams, 0)
    BY <1>1, <1>5
  <2>2. o.sent = n /\ Whole(o.streams, o.socket) /\ n + 1 \in Nat
    BY <1>2, <1>5 DEF IsOutcome
  <2> QED
    BY <2>1, <2>2, SentOutcome
<1> QED
  BY <1>2, <1>3, <1>4, <1>5 DEF IsOutcome

(* The connections have whole lines if an outcome of theirs has.           *)
LEMMA NetIsWhole == NetInv <=> Whole(streams, socket)
  BY DEF NetInv, Whole, ConnectionsCarryWholeLines

(* A repeated message is dropped.                                          *)
LEMMA SuppressStep ==
  ASSUME FilterInv, NetInv, NEW msg, Suppress(msg)
  PROVE  FilterInv' /\ NetInv'
<1>1. PICK time, text, skipped, level, last, heard :
        /\ filter = [time |-> time, text |-> text, skipped |-> skipped, level |-> level]
        /\ dropped = [count |-> skipped, level |-> last, told |-> heard]
        /\ skipped = filter.skipped /\ heard = dropped.told
  BY DEF FilterInv
<1>2. PICK new : new = msg.level
  OBVIOUS
<1>3. /\ filter' = [time |-> time, text |-> text, skipped |-> skipped + 1, level |-> new]
      /\ dropped' = [count |-> skipped + 1, level |-> new, told |-> heard]
  BY <1>1, <1>2 DEF Suppress
<1>4. /\ filter'.skipped = skipped + 1 /\ filter'.level = new
      /\ dropped'.level = new /\ dropped'.told = heard
  BY <1>3
<1>5. /\ told' = told /\ due' = due /\ faults' = faults
      /\ socket' = socket /\ streams' = streams
  BY DEF Suppress, netVars
<1>6. {told, due, skipped, heard, faults} \subseteq Nat /\ (faults = 0 => heard = 0)
  BY <1>1 DEF FilterInv
<1>7. SkippedAreAnnounced'
  BY <1>5 DEF FilterInv, SkippedAreAnnounced
<1>8. /\ filter' = [time |-> filter'.time, text |-> filter'.text, skipped |-> filter'.skipped,
                    level |-> filter'.level]
      /\ dropped' = [count |-> filter'.skipped, level |-> dropped'.level, told |-> dropped'.told]
  BY <1>3
<1>9. FilterInv'
  BY <1>4, <1>5, <1>6, <1>7, <1>8 DEF FilterInv
<1>10. NetInv'
  BY <1>5 DEF NetInv, ConnectionsCarryWholeLines
<1> QED
  BY <1>9, <1>10

(* A message goes to the sinks, behind the announcement of those dropped.  *)
LEMMA PassOnStep ==
  ASSUME FilterInv, NetInv, NEW msg, PassOn(msg)
  PROVE  FilterInv' /\ NetInv'
<1>1. PICK skipped, announced, first, one :
        /\ skipped = filter.skipped
        /\ announced = IF filter.skipped > 0 THEN 1 ELSE 0
        /\ first = IF announced = 1 THEN filter.level ELSE msg.level
        /\ one = SendNext({Outcome(0, socket, streams, 0)}, first)
  OBVIOUS
<1>2. PICK o \in IF announced = 1 THEN SendNext(one, msg.level) ELSE one :
        /\ socket' = o.socket /\ streams' = o.streams
        /\ faults' = faults + o.failed
        /\ filter' = FilterAfter(msg, o.failed)
        /\ Tell(IF o.sent >= announced /\ SinkLogs("behind", filter.level)
                THEN filter.skipped ELSE dropped.told, o.failed)
  BY <1>1, Zenon DEF PassOn
<1>3. PICK time, text, level, last, said, audible :
        /\ filter = [time |-> time, text |-> text, skipped |-> skipped, level |-> level]
        /\ dropped = [count |-> skipped, level |-> last, told |-> said]
        /\ level = filter.level /\ last = dropped.level /\ said = dropped.told
        /\ audible = SinkLogs("behind", level)
  BY <1>1 DEF FilterInv
<1>4. /\ told \in Nat /\ due \in Nat /\ skipped \in Nat /\ said \in Nat /\ faults \in Nat
      /\ skipped # 0 => last = level
      /\ faults = 0 => said = 0
      /\ told >= due /\ (faults = 0 => told = due)
  BY <1>1, <1>3 DEF FilterInv, SkippedAreAnnounced
<1>5. \A d \in one : IsOutcome(d, 1)
  <2>1. PICK d : d = Outcome(0, socket, streams, 0)
    OBVIOUS
  <2>2. IsOutcome(d, 0)
    BY <2>1, NetIsWhole, SentOutcome
  <2>3. PICK S : S = {d}
    OBVIOUS
  <2>4. ASSUME NEW c \in SendNext(S, first) PROVE IsOutcome(c, 1)
    <3>1. \A e \in S : IsOutcome(e, 0)
      BY <2>2, <2>3
    <3>2. IsOutcome(c, 0 + 1)
      BY <3>1, SendNextIs
    <3> QED
      BY <3>2
  <2> QED
    BY <1>1, <2>1, <2>3, <2>4, Zenon
<1>6. IsOutcome(o, announced + 1)
  <2>1. CASE announced = 1
    <3>1. PICK next : next = msg.level
      OBVIOUS
    <3>2. o \in SendNext(one, next)
      BY <1>2, <2>1, <3>1
    <3>3. IsOutcome(o, 1 + 1)
      BY <1>5, <3>2, SendNextIs
    <3> QED
      BY <2>1, <3>3
  <2>2. CASE announced = 0
    BY <1>2, <1>5, <2>2
  <2> QED
    BY <1>1, <2>1, <2>2
<1>7. /\ o.failed \in 0 .. 1 /\ o.sent \in Nat /\ (o.failed = 0 => o.sent = announced + 1)
      /\ Whole(o.streams, o.socket) /\ announced \in {0, 1}
  BY <1>1, <1>4, <1>6 DEF IsOutcome
<1>8. PICK heard : /\ heard = IF o.sent >= announced /\ SinkLogs("behind", filter.level)
                              THEN filter.skipped ELSE dropped.told
                   /\ heard = IF o.sent >= announced /\ audible THEN skipped ELSE said
  BY <1>1, <1>3
<1>9. heard \in Nat /\ Tell(heard, o.failed)
  BY <1>2, <1>4, <1>8
<1>10. NetInv'
  <2>1. Whole(streams', socket')
    BY <1>2, <1>7
  <2> QED
    BY <2>1 DEF NetInv, Whole, ConnectionsCarryWholeLines
<1>11. CASE o.failed = 0
  <2>1. filter' = [time |-> msg.time, text |-> msg.text, skipped |-> 0, level |-> filter.level]
    BY <1>2, <1>11 DEF FilterAfter
  <2>2. /\ told' = told + heard
        /\ due' = IF SinkLogs("behind", last) THEN due + skipped ELSE due
        /\ dropped' = [count |-> 0, level |-> Off, told |-> 0]
    <3>1. /\ told' = told + heard
          /\ due' = IF SinkLogs("behind", dropped.level) THEN due + dropped.count ELSE due
          /\ dropped' = NoneDropped
      BY <1>9, <1>11 DEF Tell
    <3>2. dropped.level = last /\ dropped.count = skipped
      BY <1>3
    <3> QED
      BY <3>1, <3>2 DEF NoneDropped
  <2>3. /\ filter'.skipped = 0 /\ dropped'.told = 0
        /\ filter' = [time |-> filter'.time, text |-> filter'.text, skipped |-> filter'.skipped,
                      level |-> filter'.level]
        /\ dropped' = [count |-> filter'.skipped, level |-> dropped'.level, told |-> dropped'.told]
    BY <2>1, <2>2
  <2>4. heard = IF audible THEN skipped ELSE said
    BY <1>7, <1>8, <1>11
  <2>5. due' = (IF audible THEN due + skipped ELSE due) \/ (skipped = 0 /\ due' = due)
    <3>1. CASE skipped = 0
      BY <1>4, <2>2, <3>1
    <3>2. CASE skipped # 0
      <4>1. SinkLogs("behind", last) <=> audible
        BY <1>3, <1>4, <3>2
      <4> QED
        BY <2>2, <4>1
    <3> QED
      BY <3>1, <3>2
  <2>6. faults' = faults
    BY <1>2, <1>4, <1>11
  <2>7. /\ told' \in Nat /\ due' \in Nat /\ told' >= due'
        /\ faults' = 0 => told' = due'
    <3>1. CASE audible
      BY <1>4, <2>2, <2>4, <2>5, <2>6, <3>1
    <3>2. CASE ~audible
      BY <1>4, <2>2, <2>4, <2>5, <2>6, <3>2
    <3> QED
      BY <3>1, <3>2
  <2>8. FilterInv'
    BY <1>4, <2>3, <2>6, <2>7 DEF FilterInv, SkippedAreAnnounced
  <2> QED
    BY <1>10, <2>8
<1>12. CASE o.failed = 1
  <2>1. filter' = filter
    BY <1>2, <1>12 DEF FilterAfter
  <2>2. /\ told' = told /\ due' = due
        /\ dropped' = [count |-> skipped, level |-> last, told |-> heard]
    <3>1. dropped' = [dropped EXCEPT !.told = heard] /\ told' = told /\ due' = due
      BY <1>9, <1>12 DEF Tell
    <3> QED
      BY <1>3, <3>1
  <2>3. /\ filter'.skipped = skipped /\ filter'.level = level
        /\ dropped'.level = last /\ dropped'.told = heard
        /\ dropped' = [count |-> filter'.skipped, level |-> dropped'.level, told |-> dropped'.told]
        /\ filter' = [time |-> filter'.time, text |-> filter'.text, skipped |-> filter'.skipped,
                      level |-> filter'.level]
    BY <1>1, <1>3, <2>1, <2>2
  <2>4. faults' = faults + 1
    BY <1>2, <1>12
  <2>5. FilterInv'
    BY <1>4, <1>9, <2>2, <2>3, <2>4 DEF FilterInv, SkippedAreAnnounced
  <2> QED
    BY <1>10, <2>5
<1> QED
  BY <1>7, <1>11, <1>12

(* What a step keeps that is none of the first sink's.                     *)
LEMMA NetRests ==
  ASSUME FilterInv, NetInv, UNCHANGED <<filterVars, netVars>>
  PROVE  FilterInv' /\ NetInv'
<1>1. /\ filter' = filter /\ dropped' = dropped /\ told' = told /\ due' = due /\ faults' = faults
      /\ socket' = socket /\ streams' = streams
  BY DEF filterVars, netVars
<1> QED
  BY <1>1 DEF FilterInv, SkippedAreAnnounced, NetInv, ConnectionsCarryWholeLines
----------------------------------------------------------------------------
(***************************************************************************)
(* The invariant holds at first.                                           *)
(***************************************************************************)
LEMMA LoggerInit == Init => LoggerInv
<1> SUFFICES ASSUME Init PROVE LoggerInv
  OBVIOUS
<1>1. PICK e, c : e = <<>> /\ c = [t \in Threads |-> Idle]
  OBVIOUS
<1>2. /\ e \in Seq(Logged) /\ e \in Seq(Nat) /\ e \in Seq(Line) /\ Len(e) = 0 /\ DOMAIN e = {}
      /\ e \in Seq(Seq(Line))
  BY <1>1
<1>3. /\ call = c /\ messages = e /\ traced = e /\ plain = e /\ holder = Nobody
      /\ calls = 0 /\ now = 1
  BY <1>1 DEF Init
<1>4. \A t \in Threads : call[t] = Idle
  BY <1>1, <1>3
<1>5. \A t \in Threads : ~Dumping(t) /\ ~Keeping(t) /\ ~Sunk(t) /\ ~Doing(t, "sinks")
  <2>1. Idle.at = "idle"
    BY DEF Idle
  <2> QED
    BY <1>4, <2>1 DEF Dumping, Keeping, Sunk, Doing
<1>6. CallInv
  BY <1>1, <1>3, <1>4 DEF CallInv
<1>7. RingInv
  BY <1>2, <1>3 DEF RingInv
<1>8. HolderInv
  BY <1>3, <1>5 DEF HolderInv
<1>9. OnceInv
  BY <1>2, <1>3, <1>5 DEF OnceInv
<1>10. PlainInv
  BY <1>2, <1>3 DEF PlainInv, DumpedOnceInOrder
<1>11. FilterInv
  <2>1. PICK time : /\ filter = [time |-> time, text |-> "", skipped |-> 0, level |-> Off]
                    /\ dropped = [count |-> 0, level |-> Off, told |-> 0]
    BY DEF Init, NoneDropped
  <2>2. filter.skipped = 0 /\ dropped.told = 0
    BY <2>1
  <2>3. /\ filter = [time |-> filter.time, text |-> filter.text, skipped |-> filter.skipped,
                     level |-> filter.level]
        /\ dropped = [count |-> filter.skipped, level |-> dropped.level, told |-> dropped.told]
    BY <2>1
  <2>4. told = 0 /\ due = 0 /\ faults = 0
    BY DEF Init
  <2> QED
    BY <2>2, <2>3, <2>4 DEF FilterInv, SkippedAreAnnounced
<1>12. NetInv
  <2>1. CASE socket = 0 /\ streams = e
    BY <1>2, <2>1 DEF NetInv, ConnectionsCarryWholeLines
  <2>2. CASE socket = 1 /\ streams = <<e>>
    <3>1. PICK one : one = <<e>>
      OBVIOUS
    <3>2. one \in Seq(Seq(Line)) /\ Len(one) = 1 /\ DOMAIN one = {1} /\ one[1] = e
      BY <1>2, <3>1
    <3>3. 1 \in 0 .. 1
      OBVIOUS
    <3> QED
      BY <1>2, <2>2, <3>1, <3>2, <3>3 DEF NetInv, ConnectionsCarryWholeLines
  <2> QED
    BY <1>1, <2>1, <2>2 DEF Init
<1> QED
  BY <1>6, <1>7, <1>8, <1>9, <1>10, <1>11, <1>12 DEF LoggerInv, TracerInv

(***************************************************************************)
(* Every step keeps the invariant.                                         *)
(***************************************************************************)
LEMMA LoggerStep == LoggerInv /\ [Next]_vars => LoggerInv'
<1> SUFFICES ASSUME LoggerInv, [Next]_vars PROVE LoggerInv'
  OBVIOUS
<1> TracerInv /\ FilterInv /\ NetInv
  BY DEF LoggerInv
<1>1. CASE UNCHANGED vars
  <2>1. /\ UNCHANGED <<call, messages, traced, holder, plain, calls>> /\ now' = now
        /\ UNCHANGED <<filterVars, netVars>>
    BY <1>1 DEF vars, tracerVars
  <2>2. now' \in Int
    BY <2>1 DEF TracerInv, OnceInv
  <2> QED
    BY <2>1, <2>2, TracerRests, NetRests DEF LoggerInv
<1>2. CASE Tick
  <2>1. /\ UNCHANGED <<call, messages, traced, holder, plain, calls>> /\ now' = now + 1
        /\ UNCHANGED <<filterVars, netVars>>
    BY <1>2 DEF Tick, tracerVars
  <2>2. now' \in Int
    BY <2>1 DEF TracerInv, OnceInv
  <2> QED
    BY <2>1, <2>2, TracerRests, NetRests DEF LoggerInv
<1>3. ASSUME NEW t \in Threads, ThreadStep(t) PROVE LoggerInv'
  <2>1. CASE FirstSink(t)
    <3>1. TracerInv'
      BY <2>1, FirstSinkTracerStep
    <3>2. \/ Suppress(call[t].msg) \/ PassOn(call[t].msg)
          \/ UNCHANGED <<filterVars, netVars>>
      BY <2>1 DEF FirstSink, DupFilter
    <3>3. FilterInv' /\ NetInv'
      BY <3>2, SuppressStep, PassOnStep, NetRests
    <3> QED
      BY <3>1, <3>3 DEF LoggerInv
  <2>2. CASE ~FirstSink(t)
    <3>1. UNCHANGED <<filterVars, netVars>> /\ TracerInv'
      <4>1. CASE LogAny(t)
        BY <4>1, LogTracerStep DEF LogAny, Log
      <4>2. CASE SecondSink(t)
        BY <4>2, SecondSinkTracerStep DEF SecondSink
      <4>3. CASE Push(t)
        BY <4>3, PushTracerStep DEF Push
      <4>4. CASE EnableBacktrace(t)
        BY <4>4, EnableTracerStep DEF EnableBacktrace
      <4>5. CASE DisableBacktrace(t)
        BY <4>5, DisableTracerStep DEF DisableBacktrace
      <4>6. CASE DumpBacktrace(t)
        BY <4>6, DumpTracerStep DEF DumpBacktrace
      <4>7. CASE Lock(t)
        BY <4>7, LockTracerStep DEF Lock
      <4>8. CASE SinkFront(t)
        BY <4>8, SinkFrontTracerStep DEF SinkFront
      <4>9. CASE PopFront(t)
        BY <4>9, PopFrontTracerStep DEF PopFront
      <4>10. CASE EndDump(t)
        BY <4>10, EndDumpTracerStep DEF EndDump
      <4> QED
        BY <1>3, <2>2, <4>1, <4>2, <4>3, <4>4, <4>5, <4>6, <4>7, <4>8, <4>9, <4>10 DEF ThreadStep
    <3> QED
      BY <3>1, NetRests DEF LoggerInv
  <2> QED
    BY <2>1, <2>2
<1> QED
  BY <1>1, <1>2, <1>3 DEF Next

(***************************************************************************)
(* The logger keeps its inductive invariant, whatever its threads do at    *)
(* the same time and whatever fails.                                       *)
(***************************************************************************)
THEOREM LoggerInvariance == Spec => []LoggerInv
  BY LoggerInit, LoggerStep, PTL DEF Spec

(***************************************************************************)
(* However many threads log, dump and turn the backtrace on and off: what  *)
(* is dumped is dumped once, in the order in which it was kept             *)
(* (backtracer-inl.h:54-61).                                               *)
(***************************************************************************)
THEOREM DumpedAlwaysOnceInOrder == Spec => []DumpedOnceInOrder
<1>1. LoggerInv => DumpedOnceInOrder
  BY DEF LoggerInv, TracerInv, PlainInv
<1> QED
  BY <1>1, LoggerInvariance, PTL

(***************************************************************************)
(* However often the server fails, and whatever the levels of the sinks:   *)
(* the sink behind the tcp_sink is told of all repeated messages that were *)
(* dropped, but for those whose last has a level that it does not log, and *)
(* of no others if nothing fails (dup_filter_sink.h:53-78).                *)
(***************************************************************************)
THEOREM SkippedAlwaysAnnounced == Spec => []SkippedAreAnnounced
<1>1. LoggerInv => SkippedAreAnnounced
  BY DEF LoggerInv, FilterInv
<1> QED
  BY <1>1, LoggerInvariance, PTL

(***************************************************************************)
(* However often the server fails: a line that was cut short is the last   *)
(* of its connection (tcp_sink.h:57-64).                                   *)
(***************************************************************************)
THEOREM ConnectionsAlwaysCarryWholeLines == Spec => []ConnectionsCarryWholeLines
<1>1. LoggerInv => ConnectionsCarryWholeLines
  BY DEF LoggerInv, NetInv
<1> QED
  BY <1>1, LoggerInvariance, PTL
=============================================================================

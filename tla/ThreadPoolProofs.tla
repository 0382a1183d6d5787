-------------------------- MODULE ThreadPoolProofs --------------------------
(***************************************************************************)
(* Proofs about asynchronous logging, for every number of producers,       *)
(* workers, sinks and messages and every size of the queue: nothing that   *)
(* was accepted is lost or written twice, one worker keeps the order, and  *)
(* the destructor of the pool leaves nothing behind.                       *)
(***************************************************************************)
EXTENDS ThreadPool, FiniteSetTheorems, TLAPS

(* How many messages have left the ring, at its front.                     *)
Left == Len(accepted) - Size

(* circular_q: where the indices are, and what is between them.            *)
RingInv ==
  /\ slots \in [Slot -> Nat] /\ head \in Slot /\ tail \in Slot
  /\ accepted \in Seq(Types) /\ Left \in Nat
  /\ \A i \in 0 .. Size - 1 : At(i) = Left + i + 1

----------------------------------------------------------------------------
CallerPcs == {"idle", "push", "pop_cv", "notify", "release", "terminate", "join"}
WorkerPcs == {"pop", "push_cv", "popped", "handle", "ended"}

(* Each message that left the ring was overrun or taken by one worker.     *)
TakenInv ==
  /\ workers \in Pools /\ incoming \in [Workers -> Nat]
  /\ \A w \in Workers :
       /\ pc[w] \in WorkerPcs /\ (w \notin workers => pc[w] = "pop")
       /\ pc[w] \in {"popped", "handle"} <=> incoming[w] # 0
       /\ incoming[w] \in 0 .. Left /\ incoming[w] \notin dropped
  /\ \A v, w \in Workers : incoming[v] = incoming[w] /\ incoming[v] # 0 => v = w
  /\ dropped \subseteq 1 .. Left /\ overruns = Cardinality(dropped)

(* The messages that workers are done with.                                *)
Done == {id \in 1 .. Left : id \notin dropped /\ \A w \in Workers : incoming[w] # id}

(* Those of the logger were offered once to each sink.                     *)
SinkInv ==
  /\ failed \subseteq Sinks \X Done /\ DOMAIN written = Sinks /\ DOMAIN flushed = Sinks
  /\ \A s \in Sinks :
       /\ written[s] \in Seq(Done) /\ flushed[s] \in 0 .. Len(written[s])
       /\ Cardinality(Range(written[s])) = Len(written[s])
       /\ Range(written[s]) \cup {id \in Done : <<s, id>> \in failed}
            = {id \in Done : accepted[id] \in Logs}

(* One worker takes the messages in order, and has flushed what it has     *)
(* written when it is done with a message that asks for it.                *)
OrderInv ==
  Cardinality(workers) = 1 =>
    /\ \A w \in workers : incoming[w] # 0 => \A id \in Done : id < incoming[w]
    /\ \A s \in Sinks : \A i \in DOMAIN written[s] :
         /\ \A j \in i + 1 .. Len(written[s]) : written[s][i] < written[s][j]
         /\ \A id \in Done :
              accepted[id] \in {"flush", "urgent"} /\ written[s][i] <= id => i <= flushed[s]

----------------------------------------------------------------------------
(* The thread is in the destructor of the pool.                            *)
Destroys(t) ==
  \/ pc[t] \in {"terminate", "join"}
  \/ pc[t] \in {"push", "pop_cv", "notify"} /\ posting[t] = "terminate"

Terminators == {id \in 1 .. Len(accepted) : accepted[id] = "terminate"}

Ended == {w \in workers : pc[w] = "ended"}

(* A thread that posts has a reference; one destructor runs when there are *)
(* none left.                                                              *)
RefsInv ==
  /\ posting \in [Callers -> Types] /\ refs \subseteq Callers /\ gone \in BOOLEAN
  /\ \A t \in Callers :
       /\ pc[t] \in CallerPcs
       /\ pc[t] = "release" => posting[t] # "terminate"
       /\ t \in refs /\ t # Main <=>
            pc[t] \in {"push", "pop_cv", "notify", "release"} /\ posting[t] # "terminate"
       /\ Destroys(t) => refs = {} /\ ~gone
  /\ pc[Main] = "idle" \/ Destroys(Main)
  /\ \A t, u \in Callers : Destroys(t) /\ Destroys(u) => t = u
  /\ gone \/ Terminators # {} \/ terminates > 0 => refs = {}

(* It posts one terminate message for each worker, last of all, and each   *)
(* ends one.                                                               *)
EndInv ==
  /\ terminates \in 0 .. Cardinality(workers)
  /\ Cardinality(Terminators) <= terminates
  /\ \A t \in Callers : Destroys(t) /\ pc[t] \in {"push", "pop_cv"} =>
       Cardinality(Terminators) < terminates
  /\ dropped \cap Terminators = {}
  /\ \A i, j \in 1 .. Len(accepted) : i \in Terminators /\ i < j => j \in Terminators
  /\ Cardinality(Ended) = Cardinality(Terminators \cap Done)
  /\ gone => IsEmpty /\ Ended = workers

(***************************************************************************)
(* The inductive invariant of ThreadPool.                                  *)
(***************************************************************************)
PoolInv ==
  /\ pc \in [Threads -> CallerPcs \cup WorkerPcs]
  /\ policy \in [Producers -> AllPolicies] /\ discarded \in Nat /\ posts \in Nat
  /\ RingInv /\ TakenInv /\ SinkInv /\ OrderInv /\ RefsInv /\ EndInv
----------------------------------------------------------------------------
(* `%` takes one round of the ring off an index less than two of them.     *)
LEMMA Around ==
  ASSUME NEW n \in Nat \ {0}, NEW a \in Nat, a < n + n
  PROVE  a % n = IF a < n THEN a ELSE a - n
OBVIOUS

(* The slot of the i-th item, from the head at h. *)
Spot(h, i) == (h + i) % Ring

(* The slot is the sum of both, less one round when that is too many.      *)
LEMMA SpotIs ==
  ASSUME NEW h \in Slot, NEW i \in Slot
  PROVE  /\ Spot(h, i) = IF h + i <= MaxItems THEN h + i ELSE h + i - MaxItems - 1
         /\ Spot(h, i) \in Slot
<1> DEFINE a == h + i
<1>1. /\ a \in Nat /\ a < Ring + Ring /\ Ring \in Nat \ {0} /\ Ring = MaxItems + 1
      /\ MaxItems \in Nat /\ h \in 0 .. MaxItems /\ i \in 0 .. MaxItems
  BY CircularQAssumption DEF Slot, Ring
<1>2. a % Ring = IF a < Ring THEN a ELSE a - Ring
  <2> HIDE DEF a
  <2> QED
    BY <1>1, Around
<1>3. Spot(h, i) = IF a < Ring THEN a ELSE a - Ring
  BY <1>2 DEF Spot
<1> QED
  BY <1>1, <1>3 DEF Slot

(* The index after another is one more, or the first.                      *)
LEMMA AfterIs ==
  ASSUME NEW i \in Slot
  PROVE  /\ After(i) = IF i = MaxItems THEN 0 ELSE i + 1
         /\ After(i) \in Slot
<1>1. 1 \in Slot /\ 1 \in Nat /\ MaxItems \in Nat /\ i \in 0 .. MaxItems
  BY CircularQAssumption DEF Slot
<1>2. After(i) = Spot(i, 1)
  BY DEF After, Spot
<1>3. Spot(i, 1) = IF i + 1 <= MaxItems THEN i + 1 ELSE i + 1 - MaxItems - 1
  BY <1>1, SpotIs
<1> QED
  BY <1>1, <1>2, <1>3 DEF Slot

(* How many items are between a head and a tail. *)
Between(h, t) == IF t >= h THEN t - h ELSE Ring - (h - t)

(* What happens to the number of items when an index moves on.             *)
LEMMA RoundTheRing ==
  ASSUME NEW h \in Slot, NEW t \in Slot
  PROVE  /\ Between(h, t) \in 0 .. MaxItems /\ MaxItems \in Nat \ {0}
         /\ Between(h, t) = 0 <=> t = h
         /\ Between(h, t) = MaxItems <=> After(t) = h
         /\ After(t) \in Slot /\ After(h) \in Slot
         /\ t # h => Between(After(h), t) = Between(h, t) - 1
         /\ IF After(t) = h THEN Between(After(h), After(t)) = Between(h, t)
            ELSE Between(h, After(t)) = Between(h, t) + 1
<1>1. /\ MaxItems \in Nat \ {0} /\ h \in 0 .. MaxItems /\ t \in 0 .. MaxItems
      /\ Slot = 0 .. MaxItems /\ Ring = MaxItems + 1
  BY CircularQAssumption DEF Slot, Ring
<1>2. /\ After(h) = IF h = MaxItems THEN 0 ELSE h + 1
      /\ After(t) = IF t = MaxItems THEN 0 ELSE t + 1
      /\ After(h) \in Slot /\ After(t) \in Slot
  BY AfterIs
<1> QED
  BY <1>1, <1>2 DEF Between

(* The tail is the slot after the last item, and slots follow each other.  *)
LEMMA SpotsOfRing ==
  ASSUME NEW h \in Slot, NEW t \in Slot, NEW i \in Slot
  PROVE  /\ Spot(h, i) = t <=> i = Between(h, t)
         /\ i + 1 \in Slot => Spot(After(h), i) = Spot(h, i + 1)
<1>1. /\ MaxItems \in Nat \ {0} /\ h \in 0 .. MaxItems /\ t \in 0 .. MaxItems
      /\ i \in 0 .. MaxItems /\ Slot = 0 .. MaxItems /\ Ring = MaxItems + 1
  BY CircularQAssumption DEF Slot, Ring
<1>2. Spot(h, i) = IF h + i <= MaxItems THEN h + i ELSE h + i - MaxItems - 1
  BY SpotIs
<1>3. ASSUME i + 1 \in Slot PROVE Spot(After(h), i) = Spot(h, i + 1)
  <2>2. After(h) = IF h = MaxItems THEN 0 ELSE h + 1
    BY AfterIs
  <2>3. After(h) \in Slot
    BY AfterIs
  <2>4. Spot(h, i + 1) = IF h + (i + 1) <= MaxItems THEN h + (i + 1) ELSE h + (i + 1) - MaxItems - 1
    BY <1>3, SpotIs
  <2>5. Spot(After(h), i) = IF After(h) + i <= MaxItems THEN After(h) + i
                            ELSE After(h) + i - MaxItems - 1
    BY <2>3, SpotIs
  <2> QED
    BY <1>1, <2>2, <2>4, <2>5
<1> QED
  BY <1>1, <1>2, <1>3 DEF Between

(* The ring is empty, or full, by the number of its items.                 *)
LEMMA RingSize ==
  ASSUME head \in Slot, tail \in Slot
  PROVE  /\ Size = Between(head, tail) /\ Size \in 0 .. MaxItems
         /\ IsEmpty <=> Size = 0
         /\ IsFull <=> Size = MaxItems
<1>1. PICK h \in Slot, t \in Slot : head = h /\ tail = t
  OBVIOUS
<1>2. Size = Between(h, t)
  BY <1>1 DEF Size, Between
<1> QED
  BY <1>1, <1>2, RoundTheRing DEF IsEmpty, IsFull

(* The ring is empty when nothing is in it. *)
LEMMA EmptyIsNone == RingInv => (IsEmpty <=> Size = 0)
BY RingSize DEF RingInv

(* The front of the ring is the next message to leave it. *)
LEMMA FrontIsNext ==
  ASSUME RingInv, ~IsEmpty
  PROVE  Front = Left + 1 /\ Front \in 1 .. Len(accepted)
<1>1. Size \in Nat \ {0} /\ Left \in Nat /\ Len(accepted) \in Nat /\ Left = Len(accepted) - Size
  BY RingSize, CircularQAssumption DEF RingInv, Left
<1>2. 0 \in 0 .. Size - 1
  BY <1>1
<1>3. At(0) = Left + 0 + 1
  BY <1>2 DEF RingInv
<1> QED
  BY <1>1, <1>3 DEF Front

(* push_back, with the overrun of the oldest message when the ring is full. *)
LEMMA PushBackStep ==
  ASSUME RingInv, NEW type \in Types, PushBack(Len(accepted) + 1),
         accepted' = Append(accepted, type)
  PROVE  /\ RingInv'
         /\ Left' = IF IsFull THEN Left + 1 ELSE Left
         /\ overruns' = IF IsFull THEN overruns + 1 ELSE overruns
         /\ Size' = IF IsFull THEN Size ELSE Size + 1
<1>1. PICK h \in Slot, t \in Slot : head = h /\ tail = t
  BY DEF RingInv
<1>2. PICK n \in Nat : n = Len(accepted)
  BY DEF RingInv
<1>3. PICK k \in Nat : k = Left
  BY DEF RingInv
<1>4. PICK g \in Slot : g = IF After(t) = h THEN After(h) ELSE h
  BY RoundTheRing
<1>5. /\ slots \in [Slot -> Nat] /\ accepted' \in Seq(Types) /\ Len(accepted') = n + 1
      /\ slots' = [slots EXCEPT ![t] = n + 1] /\ tail' = After(t) /\ head' = g
      /\ overruns' = IF IsFull THEN overruns + 1 ELSE overruns
      /\ IsFull <=> After(t) = h
  BY <1>1, <1>2, <1>4 DEF RingInv, PushBack, IsFull, HeadAfterOverrun
<1>6. slots' \in [Slot -> Nat] /\ head' \in Slot /\ tail' \in Slot
  BY <1>5, RoundTheRing
<1>7. Size = Between(h, t) /\ Size' = Between(g, After(t))
  BY <1>1, <1>5 DEF Size, Between, Ring
<1>8. Size' = IF IsFull THEN Size ELSE Size + 1
  BY <1>4, <1>5, <1>7, RoundTheRing
<1>9. PICK d \in 0 .. MaxItems : d = Between(h, t) /\ k = n - d
  BY <1>2, <1>3, <1>7, RoundTheRing DEF Left
<1>10. PICK k1 \in Nat : k1 = IF After(t) = h THEN k + 1 ELSE k
  OBVIOUS
<1>11. /\ Between(g, After(t)) = IF After(t) = h THEN d ELSE d + 1
       /\ After(t) = h <=> d = MaxItems
  <2>1. d = MaxItems <=> After(t) = h
    BY <1>9, RoundTheRing
  <2>2. After(t) = h => Between(g, After(t)) = d
    BY <1>4, <1>9, RoundTheRing
  <2>3. After(t) # h => Between(g, After(t)) = d + 1
    BY <1>4, <1>9, RoundTheRing
  <2> QED
    BY <2>1, <2>2, <2>3
<1>12. Left' = k1
  <2>1. Left' = (n + 1) - Between(g, After(t)) /\ d \in Nat
    BY <1>5, <1>7, CircularQAssumption DEF Left
  <2> QED
    BY <1>9, <1>10, <1>11, <2>1
<1>13. ASSUME NEW i \in 0 .. Between(g, After(t)) - 1 PROVE At(i)' = k1 + i + 1
  <2>1. PICK j \in 0 .. d : j = IF After(t) = h THEN i + 1 ELSE i
    BY <1>9, <1>11
  <2>2. i \in Slot /\ j \in Slot /\ j \in Nat /\ i \in Nat /\ k1 + i = k + j
    <3>1. d \in Nat /\ d <= MaxItems /\ MaxItems \in Nat /\ Slot = 0 .. MaxItems /\ i \in Nat
      BY <1>9, <1>11, CircularQAssumption DEF Slot
    <3>2. CASE After(t) = h
      BY <1>10, <1>11, <2>1, <3>1, <3>2
    <3>3. CASE After(t) # h
      BY <1>10, <1>11, <2>1, <3>1, <3>3
    <3> QED
      BY <3>2, <3>3
  <2>3. Spot(g, i) = Spot(h, j) /\ Spot(h, j) \in Slot
    <3>1. CASE After(t) = h
      <4>1. i + 1 \in Slot /\ g = After(h) /\ j = i + 1
        BY <1>4, <2>1, <2>2, <3>1
      <4> QED
        BY <2>2, <4>1, SpotsOfRing, SpotIs
    <3>2. CASE After(t) # h
      BY <1>4, <2>1, <2>2, <3>2, SpotIs
    <3> QED
      BY <3>1, <3>2
  <2>4. At(i)' = slots'[Spot(g, i)] /\ At(j) = slots[Spot(h, j)]
    BY <1>1, <1>5 DEF At, Spot, Ring
  <2>5. Spot(h, j) = t <=> j = d
    BY <1>9, <2>2, SpotsOfRing
  <2>6. CASE j = d
    BY <1>5, <1>9, <2>2, <2>3, <2>4, <2>5, <2>6
  <2>7. CASE j # d
    <3>1. At(i)' = At(j)
      BY <1>5, <2>3, <2>4, <2>5, <2>7
    <3>2. j \in 0 .. Size - 1
      BY <1>7, <1>9, <2>1, <2>7
    <3>3. At(j) = k + j + 1
      BY <1>3, <3>2 DEF RingInv
    <3> QED
      BY <2>2, <3>1, <3>3
  <2> QED
    BY <2>6, <2>7
<1>14. RingInv'
  BY <1>5, <1>6, <1>7, <1>12, <1>13 DEF RingInv
<1> QED
  BY <1>3, <1>5, <1>8, <1>10, <1>12, <1>14

(* pop_front: the oldest message leaves, and the others stay.              *)
LEMMA PopFrontStep ==
  ASSUME RingInv, ~IsEmpty, PopFront, UNCHANGED accepted
  PROVE  RingInv' /\ Left' = Left + 1 /\ overruns' = overruns
<1>1. PICK h \in Slot, t \in Slot : head = h /\ tail = t
  BY DEF RingInv
<1>2. PICK n \in Nat : n = Len(accepted)
  BY DEF RingInv
<1>3. PICK k \in Nat : k = Left
  BY DEF RingInv
<1>4. /\ slots \in [Slot -> Nat] /\ accepted' \in Seq(Types) /\ Len(accepted') = n
      /\ slots' = [slots EXCEPT ![h] = 0] /\ head' = After(h) /\ tail' = t
      /\ overruns' = overruns /\ h # t
  BY <1>1, <1>2 DEF RingInv, PopFront, IsEmpty
<1>5. slots' \in [Slot -> Nat] /\ head' \in Slot /\ tail' \in Slot
  BY <1>4, RoundTheRing
<1>6. Size = Between(h, t) /\ Size' = Between(After(h), t)
  BY <1>1, <1>4 DEF Size, Between, Ring
<1>7. PICK d \in 1 .. MaxItems : d = Between(h, t) /\ k = n - d /\ d - 1 = Between(After(h), t)
  <2>1. k = n - Between(h, t)
    BY <1>2, <1>3, <1>6 DEF Left
  <2> QED
    BY <1>4, <2>1, RoundTheRing
<1>8. Left' = k + 1
  <2>1. Left' = n - (d - 1)
    BY <1>4, <1>6, <1>7 DEF Left
  <2> QED
    BY <1>7, <2>1
<1>9. ASSUME NEW i \in 0 .. d - 1 - 1 PROVE At(i)' = k + 1 + i + 1
  <2>1. PICK j \in 0 .. d - 1 : j = i + 1
    BY <1>7
  <2>2. i \in Slot /\ j \in Slot /\ i + 1 \in Slot /\ 0 \in Slot
    BY <1>7, <2>1, CircularQAssumption DEF Slot
  <2>3. Spot(After(h), i) = Spot(h, j) /\ Spot(h, j) \in Slot
    BY <2>1, <2>2, SpotsOfRing, SpotIs
  <2>4. Spot(h, j) # h
    <3>1. Between(h, h) = 0
      BY RoundTheRing
    <3> QED
      BY <2>1, <2>2, <3>1, SpotsOfRing
  <2>5. At(i)' = slots'[Spot(After(h), i)] /\ At(j) = slots[Spot(h, j)]
    BY <1>1, <1>4 DEF At, Spot, Ring
  <2>6. At(i)' = At(j)
    BY <1>4, <2>3, <2>4, <2>5
  <2>7. j \in 0 .. Size - 1
    BY <1>6, <1>7
  <2>8. At(j) = k + j + 1
    BY <1>3, <2>7 DEF RingInv
  <2> QED
    BY <2>1, <2>6, <2>8
<1>10. RingInv'
  <2>1. Left' \in Nat /\ Size' - 1 = d - 1 - 1
    BY <1>6, <1>7, <1>8
  <2>2. ASSUME NEW i \in 0 .. Size' - 1 PROVE At(i)' = Left' + i + 1
    BY <1>8, <1>9, <2>1, <2>2
  <2> QED
    BY <1>4, <1>5, <2>1, <2>2 DEF RingInv
<1> QED
  BY <1>3, <1>4, <1>8, <1>10

(* What the ring holds, as the set of its messages. *)
LEMMA QueuedAreLast ==
  ASSUME RingInv
  PROVE  RingHoldsTheLatest /\ Queued = Left + 1 .. Len(accepted)
<1>1. Size \in Nat /\ Len(accepted) \in Nat /\ Left \in Nat /\ Left = Len(accepted) - Size
  BY RingSize DEF RingInv, Left
<1>2. \A i \in 1 .. Size : At(i - 1) = Left + i
  <2> TAKE i \in 1 .. Size
  <2>1. i - 1 \in 0 .. Size - 1
    BY <1>1
  <2>2. At(i - 1) = Left + (i - 1) + 1
    BY <2>1 DEF RingInv
  <2> QED
    BY <1>1, <2>2
<1>3. Contents = [i \in 1 .. Size |-> Left + i]
  BY <1>2 DEF Contents
<1>4. Queued = {Left + i : i \in 1 .. Size}
  BY <1>3 DEF Queued, Range
<1>5. ASSUME NEW id \in Left + 1 .. Len(accepted) PROVE id \in {Left + i : i \in 1 .. Size}
  <2>1. id - Left \in 1 .. Size /\ id = Left + (id - Left)
    BY <1>1
  <2> QED
    BY <2>1
<1>6. {Left + i : i \in 1 .. Size} \subseteq Left + 1 .. Len(accepted)
  BY <1>1
<1> QED
  BY <1>1, <1>3, <1>4, <1>5, <1>6 DEF RingHoldsTheLatest
----------------------------------------------------------------------------
(* notify_one lets one thread that waits go on, and the notifier. *)
LEMMA Notified ==
  ASSUME pc \in [Threads -> CallerPcs \cup WorkerPcs], NEW t \in Threads,
         NEW cv, NEW step \in CallerPcs \cup WorkerPcs, NEW then \in CallerPcs \cup WorkerPcs,
         NotifyOne(t, cv, step, then)
  PROVE  /\ pc' \in [Threads -> CallerPcs \cup WorkerPcs] /\ pc'[t] = then
         /\ \A v \in Threads \ {t} : pc'[v] = pc[v] \/ (pc[v] = cv /\ pc'[v] = step)
<1>1. CASE WaitingFor(cv) = {}
  BY <1>1 DEF NotifyOne, Goto
<1>2. CASE WaitingFor(cv) # {}
  <2>1. PICK u \in WaitingFor(cv) : pc' = [pc EXCEPT ![u] = step, ![t] = then]
    BY <1>2 DEF NotifyOne
  <2>2. u \in Threads /\ pc[u] = cv
    BY DEF WaitingFor
  <2> QED
    BY <2>1, <2>2
<1> QED
  BY <1>1, <1>2

(* What is done with is as it was, and so are the sinks. *)
LEMMA SinksStand ==
  ASSUME SinkInv, OrderInv, UNCHANGED <<sinkVars, workers>>, Done' = Done,
         \A id \in Done : accepted'[id] = accepted[id],
         Cardinality(workers) = 1 =>
           \A w \in workers : incoming'[w] # 0 => \A id \in Done : id < incoming'[w]
  PROVE  SinkInv' /\ OrderInv'
<1>1. UNCHANGED <<written, failed, flushed, workers>>
  BY DEF sinkVars
<1>2. SinkInv'
  BY <1>1 DEF SinkInv
<1>3. OrderInv'
  BY <1>1 DEF OrderInv
<1> QED
  BY <1>2, <1>3

(* Threads move, and no message does. *)
LEMMA MessagesStay ==
  ASSUME TakenInv, SinkInv, OrderInv,
         UNCHANGED <<ringVars, workers, incoming, accepted, dropped, sinkVars>>,
         \A w \in Workers : \/ pc'[w] = pc[w]
                            \/ pc[w] = "push_cv" /\ pc'[w] = "pop"
                            \/ pc[w] = "popped" /\ pc'[w] = "handle"
  PROVE  TakenInv' /\ SinkInv' /\ OrderInv'
<1>1. /\ UNCHANGED <<slots, head, tail, overruns, incoming, accepted, dropped, workers>>
      /\ Left' = Left
  BY DEF ringVars, Left, Size
<1>2. Done' = Done
  BY <1>1 DEF Done
<1>3. TakenInv'
  BY <1>1 DEF TakenInv, WorkerPcs
<1>4. SinkInv' /\ OrderInv'
  <2>1. Cardinality(workers) = 1 =>
          \A w \in workers : incoming'[w] # 0 => \A id \in Done : id < incoming'[w]
    BY <1>1 DEF OrderInv
  <2> QED
    BY <1>1, <1>2, <2>1, SinksStand
<1> QED
  BY <1>3, <1>4

(* A message is pushed, and the oldest is overrun when the ring is full. *)
LEMMA PushStep ==
  ASSUME RingInv, TakenInv, SinkInv, OrderInv, posting \in [Callers -> Types],
         NEW t \in Callers, Push(t), UNCHANGED <<workers, incoming, sinkVars>>,
         \A w \in Workers : pc'[w] = pc[w]
  PROVE  /\ RingInv' /\ TakenInv' /\ SinkInv' /\ OrderInv'
         /\ Done' = Done /\ ~IsEmpty'
<1>1. /\ PushBack(Len(accepted) + 1) /\ accepted' = Append(accepted, posting[t])
      /\ dropped' = IF IsFull THEN dropped \cup {Front} ELSE dropped
      /\ posting[t] \in Types /\ accepted \in Seq(Types)
  BY DEF Push, RingInv
<1>2. /\ RingInv' /\ Left' = IF IsFull THEN Left + 1 ELSE Left
      /\ overruns' = IF IsFull THEN overruns + 1 ELSE overruns
      /\ Size' = IF IsFull THEN Size ELSE Size + 1
  BY <1>1, PushBackStep
<1>3. Size \in Nat /\ (IsFull => Size # 0) /\ Left \in Nat /\ (IsEmpty <=> Size = 0)
  BY RingSize, CircularQAssumption DEF RingInv
<1>4. ~IsEmpty'
  <2>1. (IsEmpty <=> Size = 0)'
    BY <1>2, EmptyIsNone, PTL
  <2> QED
    BY <1>2, <1>3, <2>1
<1>5. IsFull => Front = Left + 1
  BY <1>3, FrontIsNext
<1>6. IsFiniteSet(dropped) /\ \A id \in dropped : id \in 1 .. Left
  <2>1. IsFiniteSet(1 .. Left) /\ dropped \subseteq 1 .. Left
    BY <1>3, FS_Interval DEF TakenInv
  <2> QED
    BY <2>1, FS_Subset
<1>7. overruns' = Cardinality(dropped') /\ dropped' \subseteq 1 .. Left'
  <2>1. CASE IsFull
    <3>1. Left + 1 \notin dropped /\ dropped' = dropped \cup {Left + 1}
      BY <1>1, <1>3, <1>5, <1>6, <2>1
    <3>2. Cardinality(dropped') = Cardinality(dropped) + 1
      BY <1>6, <3>1, FS_AddElement
    <3> QED
      BY <1>2, <1>3, <1>6, <2>1, <3>1, <3>2 DEF TakenInv
  <2>2. CASE ~IsFull
    BY <1>1, <1>2, <2>2 DEF TakenInv
  <2> QED
    BY <2>1, <2>2
<1>8. TakenInv'
  <2>1. \A w \in Workers : incoming[w] \in 0 .. Left' /\ incoming[w] \notin dropped'
    BY <1>1, <1>2, <1>3, <1>5 DEF TakenInv
  <2> QED
    BY <1>7, <2>1 DEF TakenInv
<1>9. Done' = Done
  BY <1>1, <1>2, <1>3, <1>5 DEF Done
<1>10. \A id \in Done : accepted'[id] = accepted[id]
  <2>1. Left <= Len(accepted)
    BY <1>1, <1>3 DEF Left
  <2> QED
    BY <1>1, <1>3, <2>1 DEF Done
<1>11. SinkInv' /\ OrderInv'
  <2>1. Cardinality(workers) = 1 =>
          \A w \in workers : incoming'[w] # 0 => \A id \in Done : id < incoming'[w]
    BY DEF OrderInv
  <2> QED
    BY <1>9, <1>10, <2>1, SinksStand
<1> QED
  BY <1>2, <1>4, <1>8, <1>9, <1>11

(* A worker takes the oldest message. *)
LEMMA DequeueStep ==
  ASSUME RingInv, TakenInv, SinkInv, OrderInv, pc \in [Threads -> CallerPcs \cup WorkerPcs],
         NEW w \in workers, Dequeue(w)
  PROVE  RingInv' /\ TakenInv' /\ SinkInv' /\ OrderInv' /\ Done' = Done
<1>1. /\ pc[w] = "pop" /\ incoming[w] = 0 /\ w \in Workers /\ w \in Threads
      /\ workers \subseteq Workers /\ incoming \in [Workers -> Nat] /\ Workers \subseteq Threads
      /\ UNCHANGED <<workers, sinkVars, accepted, dropped>>
  BY ThreadPoolAssumption DEF Dequeue, TakenInv, Threads, poolVars
<1>2. CASE IsEmpty
  <2>1. /\ UNCHANGED <<ringVars, incoming>> /\ pc' = [pc EXCEPT ![w] = "push_cv"]
        /\ UNCHANGED <<slots, head, tail, overruns>> /\ Left' = Left
    BY <1>1, <1>2 DEF Dequeue, Goto, ringVars, Left, Size
  <2>2. RingInv' /\ Done' = Done
    BY <1>1, <2>1 DEF RingInv, Done, At, Size
  <2>3. TakenInv'
    BY <1>1, <2>1 DEF TakenInv, WorkerPcs
  <2>4. Cardinality(workers) = 1 =>
          \A v \in workers : incoming'[v] # 0 => \A id \in Done : id < incoming'[v]
    BY <2>1 DEF OrderInv
  <2> QED
    BY <1>1, <2>2, <2>3, <2>4, SinksStand
<1>3. CASE ~IsEmpty
  <2>1. /\ incoming' = [incoming EXCEPT ![w] = Front] /\ PopFront
        /\ pc' = [pc EXCEPT ![w] = "popped"]
    BY <1>3 DEF Dequeue, Goto
  <2>2. /\ RingInv' /\ Left' = Left + 1 /\ overruns' = overruns /\ Left \in Nat
        /\ Front = Left + 1
    BY <1>1, <1>3, <2>1, PopFrontStep, FrontIsNext DEF RingInv
  <2>3. TakenInv'
    BY <1>1, <2>1, <2>2 DEF TakenInv, WorkerPcs
  <2>4. Done' = Done
    BY <1>1, <2>1, <2>2 DEF Done, TakenInv
  <2>5. Cardinality(workers) = 1 =>
          \A v \in workers : incoming'[v] # 0 => \A id \in Done : id < incoming'[v]
    BY <1>1, <2>1, <2>2 DEF OrderInv, Done
  <2> QED
    BY <1>1, <2>2, <2>3, <2>4, <2>5, SinksStand
<1> QED
  BY <1>2, <1>3
(* Append adds one element to the range of a sequence. *)
LEMMA AppendedRange ==
  ASSUME NEW S, NEW q \in Seq(S), NEW x
  PROVE  Range(Append(q, x)) = Range(q) \cup {x}
<1>1. /\ Len(q) \in Nat /\ DOMAIN q = 1 .. Len(q) /\ DOMAIN Append(q, x) = 1 .. Len(q) + 1
      /\ Append(q, x)[Len(q) + 1] = x
      /\ \A i \in 1 .. Len(q) : Append(q, x)[i] = q[i]
  OBVIOUS
<1>2. 1 .. Len(q) + 1 = (1 .. Len(q)) \cup {Len(q) + 1}
  BY <1>1
<1> QED
  BY <1>1, <1>2 DEF Range

(* A worker is done with its message: each sink was offered it. *)
LEMMA HandleStep ==
  ASSUME RingInv, TakenInv, SinkInv, OrderInv, pc \in [Threads -> CallerPcs \cup WorkerPcs],
         NEW w \in workers, NEW throwing \in SUBSET Sinks, Handle(w, throwing)
  PROVE  /\ RingInv' /\ TakenInv' /\ SinkInv' /\ OrderInv'
         /\ incoming[w] \in 1 .. Left /\ incoming[w] \notin Done
         /\ Done' = Done \cup {incoming[w]}
<1> DEFINE id   == incoming[w]
           type == accepted[id]
<1>1. /\ pc[w] = "handle" /\ w \in Workers /\ w \in Threads /\ workers \subseteq Workers
      /\ incoming \in [Workers -> Nat] /\ Workers \subseteq Threads
      /\ UNCHANGED <<slots, head, tail, overruns, workers, accepted, dropped>>
      /\ incoming' = [incoming EXCEPT ![w] = 0]
      /\ pc' = [pc EXCEPT ![w] = IF type = "terminate" THEN "ended" ELSE "pop"]
  BY ThreadPoolAssumption DEF Handle, TakenInv, Threads, poolVars, ringVars, Goto
<1>2. /\ id \in 1 .. Left /\ id \notin dropped /\ id \notin Done /\ Left \in Nat
      /\ \A v \in Workers \ {w} : incoming[v] # id
  BY <1>1 DEF TakenInv, Done, RingInv
<1>3. RingInv' /\ Left' = Left
  BY <1>1 DEF RingInv, At, Size, Left
<1>4. Done' = Done \cup {id}
  BY <1>1, <1>2, <1>3 DEF Done
<1>5. TakenInv'
  BY <1>1, <1>2, <1>3 DEF TakenInv, WorkerPcs
<1>6. /\ throwing # {} => type \in Logs
      /\ written' = [s \in Sinks |-> IF type \in Logs /\ s \notin throwing
                                     THEN Append(written[s], id) ELSE written[s]]
      /\ failed' = failed \cup {<<s, id>> : s \in throwing}
      /\ flushed' = IF type \in Flushing THEN [s \in Sinks |-> Len(written'[s])] ELSE flushed
  BY DEF Handle, Missing
<1> HIDE DEF type
<1>7. ASSUME NEW s \in Sinks
      PROVE  /\ written'[s] \in Seq(Done') /\ flushed'[s] \in 0 .. Len(written'[s])
             /\ Cardinality(Range(written'[s])) = Len(written'[s])
             /\ Range(written'[s]) \cup {i \in Done' : <<s, i>> \in failed'}
                  = {i \in Done' : accepted'[i] \in Logs}
  <2>1. /\ written[s] \in Seq(Done) /\ flushed[s] \in 0 .. Len(written[s])
        /\ Cardinality(Range(written[s])) = Len(written[s])
        /\ Range(written[s]) \cup {i \in Done : <<s, i>> \in failed}
             = {i \in Done : accepted[i] \in Logs}
        /\ <<s, id>> \notin failed
    BY <1>2 DEF SinkInv
  <2>2. Range(written[s]) \subseteq Done /\ written[s] \in Seq(Done')
    BY <1>4, <2>1 DEF Range
  <2>3. {i \in Done' : <<s, i>> \in failed'} =
          {i \in Done : <<s, i>> \in failed} \cup (IF s \in throwing THEN {id} ELSE {})
    BY <1>2, <1>4, <1>6, <2>1
  <2>4. {i \in Done' : accepted'[i] \in Logs} =
          {i \in Done : accepted[i] \in Logs} \cup (IF type \in Logs THEN {id} ELSE {})
    BY <1>1, <1>2, <1>4 DEF type
  <2>5. CASE type \in Logs /\ s \notin throwing
    <3>1. written'[s] = Append(written[s], id)
      BY <1>6, <2>5
    <3>2. /\ written'[s] \in Seq(Done') /\ Len(written'[s]) = Len(written[s]) + 1
          /\ Range(written'[s]) = Range(written[s]) \cup {id}
      BY <1>4, <2>2, <3>1, AppendedRange
    <3>3. Cardinality(Range(written'[s])) = Cardinality(Range(written[s])) + 1
      <4>1. IsFiniteSet(Range(written[s]))
        <5>1. Done \subseteq 1 .. Left /\ IsFiniteSet(1 .. Left)
          BY <1>2, FS_Interval DEF Done
        <5> QED
          BY <2>2, <5>1, FS_Subset
      <4> QED
        BY <1>2, <2>2, <3>2, <4>1, FS_AddElement
    <3>4. flushed'[s] \in 0 .. Len(written'[s])
      BY <1>6, <2>1, <3>2
    <3> QED
      BY <2>1, <2>3, <2>4, <2>5, <3>2, <3>3, <3>4
  <2>6. CASE ~(type \in Logs /\ s \notin throwing)
    <3>1. written'[s] = written[s] /\ (type \in Logs <=> s \in throwing)
      BY <1>6, <2>6
    <3>2. flushed'[s] \in 0 .. Len(written'[s])
      BY <1>6, <2>1, <3>1
    <3> QED
      BY <2>1, <2>2, <2>3, <2>4, <3>1, <3>2
  <2> QED
    BY <2>5, <2>6
<1>8. SinkInv'
  <2>1. failed' \subseteq Sinks \X Done'
    BY <1>4, <1>6 DEF SinkInv
  <2>2. DOMAIN written' = Sinks /\ DOMAIN flushed' = Sinks
    BY <1>6 DEF SinkInv
  <2> QED
    BY <1>7, <2>1, <2>2 DEF SinkInv
<1>9. ASSUME Cardinality(workers) = 1 PROVE \A v \in workers : v = w
  <2>1. IsFiniteSet(workers)
    BY <1>1, ThreadPoolAssumption, FS_Subset
  <2> QED
    BY <1>9, <2>1, FS_Singleton
<1>10. ASSUME Cardinality(workers) = 1, NEW s \in Sinks, NEW i \in DOMAIN written'[s]
       PROVE  /\ \A j \in i + 1 .. Len(written'[s]) : written'[s][i] < written'[s][j]
              /\ \A d \in Done' : accepted'[d] \in {"flush", "urgent"} /\ written'[s][i] <= d
                                    => i <= flushed'[s]
  <2>1. /\ \A d \in Done : d < id /\ d \in Nat
        /\ \A k \in DOMAIN written[s] :
             /\ \A j \in k + 1 .. Len(written[s]) : written[s][k] < written[s][j]
             /\ \A d \in Done : accepted[d] \in {"flush", "urgent"} /\ written[s][k] <= d
                                  => k <= flushed[s]
    BY <1>2, <1>10 DEF OrderInv, Done
  <2>2. /\ written[s] \in Seq(Done) /\ flushed[s] \in 0 .. Len(written[s])
        /\ written'[s] \in Seq(Done') /\ flushed'[s] \in 0 .. Len(written'[s])
        /\ id \in Nat
    BY <1>2, <1>7 DEF SinkInv
  <2>3. CASE written'[s] = written[s]
    <3>1. i \in DOMAIN written[s]
      BY <2>3
    <3>2. ASSUME NEW d \in Done', accepted'[d] \in {"flush", "urgent"}, written'[s][i] <= d
          PROVE  i <= flushed'[s]
      <4>1. CASE d = id
        <5>1. flushed'[s] = Len(written'[s])
          BY <1>1, <1>6, <3>2, <4>1 DEF Flushing, type
        <5> QED
          BY <2>2, <5>1
      <4>2. CASE d # id
        <5>1. d \in Done /\ i <= flushed[s]
          BY <1>1, <1>4, <2>1, <2>3, <3>1, <3>2, <4>2
        <5>2. flushed'[s] = flushed[s] \/ flushed'[s] = Len(written'[s])
          BY <1>6
        <5> QED
          BY <2>2, <2>3, <3>1, <5>1, <5>2
      <4> QED
        BY <4>1, <4>2
    <3> QED
      BY <2>1, <2>3, <3>1, <3>2
  <2>4. CASE written'[s] = Append(written[s], id)
    <3>1. PICK n \in Nat : n = Len(written[s])
      BY <2>2
    <3>2. /\ Len(written'[s]) = n + 1 /\ i \in 1 .. n + 1 /\ written'[s][n + 1] = id
          /\ \A k \in 1 .. n : written'[s][k] = written[s][k] /\ written[s][k] \in Done
          /\ DOMAIN written[s] = 1 .. n
      BY <2>2, <2>4, <3>1
    <3>3. ASSUME NEW j \in i + 1 .. Len(written'[s]) PROVE written'[s][i] < written'[s][j]
      <4>1. i \in 1 .. n
        BY <3>1, <3>2
      <4>2. CASE j = n + 1
        BY <2>1, <3>2, <4>1, <4>2
      <4>3. CASE j # n + 1
        <5>1. j \in i + 1 .. Len(written[s]) /\ j \in 1 .. n
          BY <3>1, <3>2, <4>1, <4>3
        <5> QED
          BY <2>1, <3>2, <4>1, <5>1
      <4> QED
        BY <4>2, <4>3
    <3>4. ASSUME NEW d \in Done', accepted'[d] \in {"flush", "urgent"}, written'[s][i] <= d
          PROVE  i <= flushed'[s]
      <4>1. CASE d = id
        <5>1. flushed'[s] = Len(written'[s])
          BY <1>1, <1>6, <3>4, <4>1 DEF Flushing, type
        <5> QED
          BY <3>1, <3>2, <5>1
      <4>2. CASE d # id
        <5>1. d \in Done /\ d < id /\ d \in Nat
          BY <1>4, <2>1, <4>2
        <5>2. i \in 1 .. n
          BY <2>2, <3>1, <3>2, <3>4, <5>1
        <5>3. i <= flushed[s]
          BY <1>1, <2>1, <3>2, <3>4, <5>1, <5>2
        <5>4. flushed'[s] = flushed[s] \/ flushed'[s] = Len(written'[s])
          BY <1>6
        <5> QED
          BY <2>2, <3>1, <3>2, <5>2, <5>3, <5>4
      <4> QED
        BY <4>1, <4>2
    <3> QED
      BY <3>3, <3>4
  <2> QED
    BY <1>6, <2>3, <2>4
<1>11. OrderInv'
  <2>1. ASSUME Cardinality(workers) = 1 PROVE \A v \in workers : incoming'[v] = 0
    BY <1>1, <1>9, <2>1
  <2> QED
    BY <1>1, <1>10, <2>1 DEF OrderInv
<1> QED
  BY <1>2, <1>3, <1>4, <1>5, <1>8, <1>11
----------------------------------------------------------------------------
(* What a thread does while it posts, waits, and is woken.                 *)
Posting(t) ==
  \/ pc'[t] = pc[t]
  \/ pc[t] = "pop_cv" /\ pc'[t] = "push"
  \/ pc[t] = "push" /\ pc'[t] \in {"pop_cv", "notify"}
  \/ pc[t] = "push" /\ pc'[t] = "release" /\ posting[t] # "terminate"
  \/ pc[t] = "notify" /\ pc'[t] = IF posting[t] = "terminate" THEN "terminate" ELSE "release"

(* Callers that post keep their references, and the destructor its turn. *)
LEMMA RefsStand ==
  ASSUME RefsInv, UNCHANGED <<posting, refs, gone, terminates>>,
         \A t \in Callers : Posting(t), Terminators' # {} => refs = {}
  PROVE  RefsInv' /\ \A t \in Callers : Destroys(t)' <=> Destroys(t)
<1>1. ASSUME NEW t \in Callers
      PROVE  /\ pc'[t] \in CallerPcs /\ (pc'[t] = "release" => posting[t] # "terminate")
             /\ Destroys(t)' <=> Destroys(t)
             /\ pc'[t] \in {"push", "pop_cv", "notify", "release"} /\ posting[t] # "terminate" <=>
                  pc[t] \in {"push", "pop_cv", "notify", "release"} /\ posting[t] # "terminate"
  <2>1. pc[t] \in CallerPcs /\ Posting(t) /\ (pc[t] = "release" => posting[t] # "terminate")
    BY DEF RefsInv
  <2> QED
    BY <2>1 DEF Posting, Destroys, CallerPcs
<1>2. pc'[Main] = "idle" \/ Destroys(Main)'
  <2>1. Main \in Callers /\ Posting(Main)
    BY DEF Callers
  <2> QED
    BY <1>1, <2>1 DEF RefsInv, Posting
<1>3. RefsInv'
  BY <1>1, <1>2 DEF RefsInv
<1> QED
  BY <1>1, <1>3

(* The terminate messages that are posted stay as many as they are. *)
LEMMA EndStands ==
  ASSUME EndInv, UNCHANGED <<terminates, gone, workers, accepted, dropped>>,
         Done' = Done, Ended' = Ended, gone => IsEmpty',
         \A t \in Callers : Destroys(t)' /\ pc'[t] \in {"push", "pop_cv"} =>
                              Destroys(t) /\ pc[t] \in {"push", "pop_cv"}
  PROVE  EndInv'
<1>1. Terminators' = Terminators
  BY DEF Terminators
<1> QED
  BY <1>1 DEF EndInv

(* The terminate messages are finitely many. *)
LEMMA TerminatorsFinite ==
  ASSUME accepted \in Seq(Types)
  PROVE  /\ IsFiniteSet(Terminators) /\ Cardinality(Terminators) \in Nat
         /\ Terminators \subseteq 1 .. Len(accepted)
<1>1. IsFiniteSet(1 .. Len(accepted))
  BY FS_Interval
<1>2. Terminators \subseteq 1 .. Len(accepted)
  BY DEF Terminators
<1> QED
  BY <1>1, <1>2, FS_Subset, FS_CardinalityType

(* What each caller and worker is, where the proof needs it. *)
LEMMA CallersAndWorkers ==
  /\ Callers \subseteq Threads /\ Workers \subseteq Threads /\ Callers \cap Workers = {}
  /\ Main \in Callers /\ Producers \subseteq Callers
  /\ IsFiniteSet(Workers) /\ {} \notin Pools /\ \A P \in Pools : P \subseteq Workers
BY ThreadPoolAssumption DEF Callers, Threads

(* A message is pushed: behind the terminate messages come only others. *)
LEMMA EnqueueStep ==
  ASSUME PoolInv, NEW t \in Callers, Enqueue(t)
  PROVE  PoolInv'
<1>1. /\ pc[t] = "push" /\ t \in Threads /\ pc \in [Threads -> CallerPcs \cup WorkerPcs]
      /\ UNCHANGED <<workers, policy, terminates, gone, refs, posting, incoming, sinkVars, posts>>
      /\ posting[t] \in Types /\ accepted \in Seq(Types)
      /\ RingInv /\ TakenInv /\ SinkInv /\ OrderInv /\ RefsInv /\ EndInv
      /\ posting \in [Callers -> Types]
  BY CallersAndWorkers DEF Enqueue, poolVars, PoolInv, RefsInv, RingInv
<1>0. PolicyOf(t) \in AllPolicies
  <2>1. CASE posting[t] = "terminate"
    BY <2>1 DEF PolicyOf, AllPolicies
  <2>2. CASE posting[t] # "terminate"
    <3>1. t # Main
      BY <1>1, <2>2 DEF RefsInv, Destroys
    <3>2. t \in Producers /\ policy \in [Producers -> AllPolicies]
      BY <3>1 DEF Callers, PoolInv
    <3> QED
      BY <2>2, <3>2 DEF PolicyOf
  <2> QED
    BY <2>1, <2>2
<1>2. PICK where \in {"notify", "pop_cv", "release"} : pc' = [pc EXCEPT ![t] = where]
  <2>1. CASE ~IsFull \/ PolicyOf(t) = "overrun_oldest"
    BY <2>1 DEF Enqueue, Goto
  <2>2. CASE IsFull /\ PolicyOf(t) = "block"
    BY <2>2 DEF Enqueue, Goto
  <2>3. CASE IsFull /\ PolicyOf(t) = "discard_new"
    BY <2>3 DEF Enqueue, Goto
  <2> QED
    BY <1>0, <2>1, <2>2, <2>3 DEF AllPolicies
<1>3. /\ pc' \in [Threads -> CallerPcs \cup WorkerPcs]
      /\ \A v \in Threads \ {t} : pc'[v] = pc[v]
      /\ \A w \in Workers : pc'[w] = pc[w]
      /\ pc'[t] = where
  BY <1>1, <1>2, CallersAndWorkers DEF CallerPcs
<1>4. Ended' = Ended
  BY <1>1, <1>3, CallersAndWorkers DEF Ended, TakenInv
<1>5. CASE ~IsFull \/ PolicyOf(t) = "overrun_oldest"
  <2>1. Push(t) /\ where = "notify"
    <3>1. Push(t) /\ Goto(t, "notify")
      BY <1>5 DEF Enqueue
    <3> QED
      BY <1>1, <1>3, <3>1 DEF Goto
  <2>2. RingInv' /\ TakenInv' /\ SinkInv' /\ OrderInv' /\ Done' = Done /\ ~IsEmpty'
    BY <1>1, <1>3, <2>1, PushStep
  <2>3. PICK n \in Nat : n = Len(accepted)
    BY <1>1
  <2>4. /\ accepted' = Append(accepted, posting[t]) /\ Len(accepted') = n + 1
        /\ accepted'[n + 1] = posting[t]
        /\ \A i \in 1 .. n : accepted'[i] = accepted[i]
        /\ dropped' = IF IsFull THEN dropped \cup {Front} ELSE dropped
        /\ UNCHANGED discarded
    BY <1>1, <2>1, <2>3 DEF Push
  <2>5. Terminators' = Terminators \cup (IF posting[t] = "terminate" THEN {n + 1} ELSE {})
    <3>1. 1 .. n + 1 = (1 .. n) \cup {n + 1}
      OBVIOUS
    <3> QED
      BY <2>3, <2>4, <3>1 DEF Terminators
  <2>6. Done \subseteq 1 .. n /\ Left \in 0 .. n
    <3>1. Left \in Nat /\ Size \in Nat /\ Left = n - Size
      BY <1>1, <2>3, RingSize DEF RingInv, Left
    <3> QED
      BY <3>1 DEF Done
  <2>7. CASE posting[t] = "terminate"
    <3>1. Destroys(t) /\ refs = {} /\ ~gone /\ Cardinality(Terminators) < terminates
      BY <1>1, <2>7 DEF Destroys, RefsInv, EndInv
    <3>2. RefsInv' /\ \A u \in Callers : Destroys(u)' <=> Destroys(u)
      <4>1. \A u \in Callers : Posting(u)
        BY <1>1, <1>3, <2>1, CallersAndWorkers DEF Posting
      <4> QED
        BY <1>1, <3>1, <4>1, RefsStand
    <3>3. dropped' = dropped
      BY <1>5, <2>4, <2>7 DEF PolicyOf
    <3>4. /\ Terminators' = Terminators \cup {n + 1} /\ n + 1 \notin Terminators
          /\ Cardinality(Terminators') = Cardinality(Terminators) + 1
      <4>1. Terminators' = Terminators \cup {n + 1}
        BY <2>5, <2>7
      <4>2. n + 1 \notin Terminators /\ IsFiniteSet(Terminators)
        BY <1>1, <2>3, TerminatorsFinite
      <4> HIDE DEF Terminators
      <4>3. Cardinality(Terminators \cup {n + 1}) = Cardinality(Terminators) + 1
        BY <4>2, FS_AddElement
      <4> QED
        BY <4>1, <4>2, <4>3
    <3>5. \A u \in Callers : ~(Destroys(u)' /\ pc'[u] \in {"push", "pop_cv"})
      BY <1>1, <1>3, <2>1, <3>1, <3>2 DEF RefsInv
    <3>6. Terminators' \cap Done' = Terminators \cap Done /\ dropped' \cap Terminators' = {}
      BY <1>1, <2>2, <2>3, <2>6, <3>3, <3>4 DEF TakenInv, EndInv
    <3>7. \A i, j \in 1 .. Len(accepted') : i \in Terminators' /\ i < j => j \in Terminators'
      <4> TAKE i, j \in 1 .. Len(accepted')
      <4> HAVE i \in Terminators' /\ i < j
      <4>1. i \in 1 .. n /\ i \in Terminators
        BY <2>4, <3>4
      <4>2. j = n + 1 \/ j \in 1 .. n
        BY <2>4
      <4> QED
        BY <1>1, <2>3, <3>4, <4>1, <4>2 DEF EndInv
    <3>8. EndInv'
      <4>1. Cardinality(Terminators') <= terminates' /\ terminates' \in 0 .. Cardinality(workers')
        BY <1>1, <3>1, <3>4, TerminatorsFinite DEF EndInv
      <4> QED
        BY <1>1, <1>4, <3>1, <3>5, <3>6, <3>7, <4>1 DEF EndInv
    <3> QED
      BY <1>1, <1>3, <2>2, <2>4, <3>2, <3>8 DEF PoolInv
  <2>8. CASE posting[t] # "terminate"
    <3>1. refs # {} /\ Terminators = {} /\ ~gone /\ Terminators' = {}
      BY <1>1, <2>5, <2>8 DEF RefsInv
    <3>2. RefsInv' /\ \A u \in Callers : Destroys(u)' <=> Destroys(u)
      <4>1. \A u \in Callers : Posting(u)
        BY <1>1, <1>3, <2>1, CallersAndWorkers DEF Posting
      <4> QED
        BY <1>1, <3>1, <4>1, RefsStand
    <3>3. EndInv'
      <4>1. \A u \in Callers : ~Destroys(u)'
        BY <1>1, <3>1, <3>2 DEF RefsInv
      <4> QED
        BY <1>1, <1>4, <2>2, <3>1, <4>1 DEF EndInv
    <3> QED
      BY <1>1, <1>3, <2>2, <2>4, <3>2, <3>3 DEF PoolInv
  <2> QED
    BY <2>7, <2>8
<1>6. CASE IsFull /\ PolicyOf(t) # "overrun_oldest"
  <2>1. /\ UNCHANGED <<ringVars, accepted, dropped>> /\ where # "notify"
        /\ discarded' = discarded \/ discarded' = discarded + 1
        /\ where = "release" => posting[t] # "terminate"
    <3>1. CASE PolicyOf(t) = "block"
      <4>1. Goto(t, "pop_cv") /\ UNCHANGED <<ringVars, accepted, dropped, discarded>>
        BY <1>6, <3>1 DEF Enqueue
      <4> QED
        BY <1>1, <1>3, <4>1 DEF Goto
    <3>2. CASE PolicyOf(t) # "block"
      <4>1. PolicyOf(t) = "discard_new"
        BY <1>6, <1>0, <3>2 DEF AllPolicies
      <4>2. posting[t] # "terminate"
        BY <4>1 DEF PolicyOf
      <4>3. Goto(t, "release") /\ UNCHANGED <<ringVars, accepted, dropped>>
            /\ discarded' = discarded + 1
        BY <1>6, <4>1 DEF Enqueue
      <4> QED
        BY <1>1, <1>3, <4>2, <4>3 DEF Goto
    <3> QED
      BY <3>1, <3>2
  <2>2. UNCHANGED <<slots, head, tail, overruns>> /\ discarded' \in Nat
    BY <2>1 DEF ringVars, PoolInv
  <2>3. RingInv' /\ (IsEmpty' <=> IsEmpty) /\ Left' = Left
    BY <1>1, <2>1, <2>2 DEF RingInv, Left, Size, At, IsEmpty
  <2>4. TakenInv' /\ SinkInv' /\ OrderInv' /\ Done' = Done
    <3>1. Done' = Done
      BY <1>1, <2>1, <2>3 DEF Done
    <3> QED
      BY <1>1, <1>3, <2>1, <3>1, MessagesStay
  <2>5. RefsInv' /\ \A u \in Callers : Destroys(u)' <=> Destroys(u)
    <3>1. \A u \in Callers : Posting(u)
      BY <1>1, <1>3, <2>1, CallersAndWorkers DEF Posting
    <3>2. Terminators' # {} => refs = {}
      BY <1>1, <2>1 DEF Terminators, RefsInv
    <3> QED
      BY <1>1, <3>1, <3>2, RefsStand
  <2>6. EndInv'
    <3>1. gone => IsEmpty'
      BY <1>1, <2>3 DEF EndInv
    <3>2. \A u \in Callers : Destroys(u)' /\ pc'[u] \in {"push", "pop_cv"} =>
                               Destroys(u) /\ pc[u] \in {"push", "pop_cv"}
      BY <1>1, <1>3, <2>5, CallersAndWorkers
    <3> QED
      BY <1>1, <1>4, <2>1, <2>4, <3>1, <3>2, EndStands
  <2> QED
    BY <1>1, <1>3, <2>2, <2>3, <2>4, <2>5, <2>6 DEF PoolInv
<1> QED
  BY <1>5, <1>6
(* A caller begins, or lets go of the pool: no message moves. *)
LEMMA StandStill ==
  ASSUME PoolInv, NEW t \in Callers, NEW where \in CallerPcs, pc' = [pc EXCEPT ![t] = where],
         UNCHANGED <<ringVars, workers, policy, incoming, accepted, dropped, sinkVars, discarded>>,
         posts' \in Nat, RefsInv', UNCHANGED terminates \/ terminates' = terminates + 1,
         terminates' \in 0 .. Cardinality(workers),
         (gone' /\ ~gone) => (IsEmpty /\ Ended = workers),
         gone => gone',
         \A u \in Callers : Destroys(u)' /\ pc'[u] \in {"push", "pop_cv"} =>
             \/ Destroys(u) /\ pc[u] \in {"push", "pop_cv"}
             \/ terminates' = terminates + 1
  PROVE  PoolInv'
<1>1. /\ pc \in [Threads -> CallerPcs \cup WorkerPcs] /\ t \in Threads
      /\ UNCHANGED <<slots, head, tail, overruns, workers, policy, incoming, accepted, dropped>>
      /\ RingInv /\ TakenInv /\ SinkInv /\ OrderInv /\ RefsInv /\ EndInv
      /\ policy \in [Producers -> AllPolicies] /\ discarded' \in Nat
      /\ UNCHANGED <<ringVars, sinkVars>>
  BY CallersAndWorkers DEF PoolInv, ringVars
<1>2. /\ pc' \in [Threads -> CallerPcs \cup WorkerPcs]
      /\ \A w \in Workers : pc'[w] = pc[w]
  BY <1>1, CallersAndWorkers
<1>3. RingInv' /\ Left' = Left /\ (IsEmpty' <=> IsEmpty)
  BY <1>1 DEF RingInv, Left, Size, At, IsEmpty
<1>4. TakenInv' /\ SinkInv' /\ OrderInv'
  BY <1>1, <1>2, MessagesStay
<1>5. Done' = Done /\ Terminators' = Terminators
  BY <1>1, <1>3 DEF Done, Terminators
<1>6. Ended' = Ended
  BY <1>1, <1>2, CallersAndWorkers DEF Ended, TakenInv
<1>7. EndInv'
  <2>1. PICK c \in Nat : c = Cardinality(Terminators)
    BY <1>1, TerminatorsFinite DEF RingInv
  <2>2. terminates \in Nat /\ c <= terminates
    BY <1>1, <2>1 DEF EndInv
  <2>3. c <= terminates'
    BY <2>2
  <2>4. ASSUME NEW u \in Callers, Destroys(u)', pc'[u] \in {"push", "pop_cv"}
        PROVE  c < terminates'
    <3>1. CASE terminates' = terminates + 1
      BY <2>2, <3>1
    <3>2. CASE terminates' # terminates + 1
      BY <1>1, <2>1, <2>4, <3>2 DEF EndInv
    <3> QED
      BY <3>1, <3>2
  <2> HIDE DEF Terminators, Ended, Done, Destroys
  <2> QED
    BY <1>1, <1>3, <1>5, <1>6, <2>1, <2>3, <2>4 DEF EndInv
<1> QED
  BY <1>1, <1>2, <1>3, <1>4, <1>7 DEF PoolInv

(* A call takes a reference, while there is one to take it from. *)
LEMMA CallStep ==
  ASSUME PoolInv, NEW p \in Producers, NEW type \in Calls[p], Call(p, type)
  PROVE  PoolInv'
<1>1. /\ pc[p] = "idle" /\ p \in Callers /\ p \in Threads /\ p # Main
      /\ type \in Types /\ type # "terminate" /\ posts \in Nat /\ posts' = posts + 1
      /\ UNCHANGED <<ringVars, workers, policy, terminates, gone, incoming, sinkVars, discarded,
                     accepted, dropped>>
      /\ pc \in [Threads -> CallerPcs \cup WorkerPcs] /\ RefsInv /\ EndInv
  BY ThreadPoolAssumption, CallersAndWorkers DEF Call, PoolInv, Types, Logs
<1>2. Terminators' = Terminators
  BY <1>1 DEF Terminators
<1>3. CASE refs # {}
  <2>1. /\ refs' = refs \cup {p} /\ posting' = [posting EXCEPT ![p] = type]
        /\ pc' = [pc EXCEPT ![p] = "push"]
    BY <1>3 DEF Call, TakeReference, Goto
  <2>2. ~gone /\ terminates = 0 /\ Terminators = {} /\ \A t \in Callers : ~Destroys(t)
    BY <1>1, <1>3 DEF RefsInv, EndInv
  <2>3. /\ \A t \in Callers \ {p} : pc'[t] = pc[t] /\ posting'[t] = posting[t]
        /\ pc'[p] = "push" /\ posting'[p] = type
    BY <1>1, <2>1, CallersAndWorkers DEF RefsInv
  <2>4. \A t \in Callers : ~Destroys(t)'
    BY <1>1, <2>2, <2>3 DEF Destroys
  <2>5. RefsInv'
    <3>1. /\ posting' \in [Callers -> Types] /\ refs' \subseteq Callers /\ gone' \in BOOLEAN
      BY <1>1, <2>1 DEF RefsInv
    <3>2. ASSUME NEW t \in Callers
          PROVE  /\ pc'[t] \in CallerPcs
                 /\ pc'[t] = "release" => posting'[t] # "terminate"
                 /\ t \in refs' /\ t # Main <=>
                      pc'[t] \in {"push", "pop_cv", "notify", "release"} /\ posting'[t] # "terminate"
      BY <1>1, <2>1, <2>3 DEF RefsInv, CallerPcs
    <3>3. pc'[Main] = "idle"
      BY <1>1, <2>2, <2>3, CallersAndWorkers DEF RefsInv
    <3> QED
      BY <1>1, <1>2, <2>2, <2>4, <3>1, <3>2, <3>3 DEF RefsInv
  <2>6. /\ terminates' \in 0 .. Cardinality(workers) /\ UNCHANGED terminates
        /\ (gone' <=> gone) /\ posts' \in Nat /\ "push" \in CallerPcs
    BY <1>1 DEF EndInv, CallerPcs
  <2> QED
    BY <1>1, <2>1, <2>4, <2>5, <2>6, StandStill, Zenon
<1>4. CASE refs = {}
  <2>1. UNCHANGED <<refs, posting, pc>>
    BY <1>4 DEF Call
  <2>2. pc' = [pc EXCEPT ![p] = "idle"]
    BY <1>1, <2>1
  <2>3. RefsInv' /\ \A t \in Callers : Destroys(t)' <=> Destroys(t)
    BY <1>1, <1>4, <2>1, RefsStand DEF Posting
  <2>4. /\ terminates' \in 0 .. Cardinality(workers) /\ UNCHANGED terminates
        /\ (gone' <=> gone) /\ posts' \in Nat /\ "idle" \in CallerPcs
    BY <1>1 DEF EndInv, CallerPcs
  <2>5. \A u \in Callers : Destroys(u)' /\ pc'[u] \in {"push", "pop_cv"} =>
                             Destroys(u) /\ pc[u] \in {"push", "pop_cv"}
    BY <2>1, <2>3
  <2> QED
    BY <1>1, <2>2, <2>3, <2>4, <2>5, StandStill, Zenon
<1> QED
  BY <1>3, <1>4

(* The last thread that lets go of the pool becomes its destructor. *)
LEMMA LetGoStep ==
  ASSUME PoolInv, NEW t \in Callers, t \in refs,
         \/ pc[t] = "release" /\ posting' = [posting EXCEPT ![t] = "log"]
         \/ pc[t] = "idle" /\ t = Main /\ UNCHANGED posting,
         LetGo(t)
  PROVE  PoolInv'
<1>1. /\ refs' = refs \ {t} /\ pc \in [Threads -> CallerPcs \cup WorkerPcs] /\ t \in Threads
      /\ UNCHANGED <<ringVars, workers, policy, terminates, gone, incoming, sinkVars, discarded,
                     posts, accepted, dropped>>
      /\ RefsInv /\ EndInv /\ posts \in Nat
  BY CallersAndWorkers DEF LetGo, PoolInv
<1>2. /\ ~gone /\ terminates = 0 /\ Terminators = {} /\ \A u \in Callers : ~Destroys(u)
      /\ posting[t] \in Types
  BY <1>1 DEF RefsInv, EndInv
<1>3. PICK where \in {"terminate", "idle"} :
        pc' = [pc EXCEPT ![t] = where] /\ (where = "terminate" => refs' = {})
  BY <1>2 DEF LetGo, Goto
<1>4. /\ \A u \in Callers \ {t} : pc'[u] = pc[u] /\ posting'[u] = posting[u]
      /\ pc'[t] = where /\ posting' \in [Callers -> Types]
  BY <1>1, <1>3, CallersAndWorkers DEF RefsInv, Types, Logs
<1>5. /\ \A u \in Callers \ {t} : ~Destroys(u)'
      /\ Destroys(t)' <=> where = "terminate"
  BY <1>2, <1>4 DEF Destroys
<1>6. Terminators' = Terminators
  BY <1>1 DEF Terminators
<1>7. RefsInv'
  <2>1. ASSUME NEW u \in Callers
        PROVE  /\ pc'[u] \in CallerPcs
               /\ pc'[u] = "release" => posting'[u] # "terminate"
               /\ u \in refs' /\ u # Main <=>
                    pc'[u] \in {"push", "pop_cv", "notify", "release"} /\ posting'[u] # "terminate"
               /\ Destroys(u)' => refs' = {} /\ ~gone'
    BY <1>1, <1>2, <1>3, <1>4, <1>5 DEF RefsInv, CallerPcs
  <2>2. pc'[Main] = "idle" \/ Destroys(Main)'
    BY <1>1, <1>2, <1>4, <1>5, CallersAndWorkers DEF RefsInv
  <2>3. refs' \subseteq Callers /\ gone' \in BOOLEAN
    BY <1>1 DEF RefsInv
  <2> QED
    BY <1>1, <1>2, <1>4, <1>5, <1>6, <2>1, <2>2, <2>3 DEF RefsInv
<1>8. terminates' \in 0 .. Cardinality(workers) /\ (gone' <=> gone)
  BY <1>1 DEF EndInv
<1>9. \A u \in Callers : ~(Destroys(u)' /\ pc'[u] \in {"push", "pop_cv"})
  BY <1>4, <1>5
<1> QED
  BY <1>1, <1>3, <1>7, <1>8, <1>9, StandStill DEF CallerPcs

(* The destructor posts as many terminate messages as there are workers,   *)
(* and joins them: each has taken one, so that nothing is left.            *)
LEMMA DestructorStep ==
  ASSUME PoolInv, NEW t \in Callers, Terminate(t) \/ Join(t)
  PROVE  PoolInv'
<1>1. /\ pc[t] \in {"terminate", "join"} /\ pc \in [Threads -> CallerPcs \cup WorkerPcs]
      /\ t \in Threads
      /\ UNCHANGED <<ringVars, workers, policy, refs, incoming, sinkVars, discarded, posts,
                     accepted, dropped>>
      /\ RingInv /\ TakenInv /\ RefsInv /\ EndInv /\ posts \in Nat
  BY CallersAndWorkers DEF Terminate, Join, PoolInv
<1>2. /\ Destroys(t) /\ refs = {} /\ ~gone
      /\ \A u \in Callers \ {t} : ~Destroys(u)
  BY <1>1 DEF RefsInv, Destroys
<1>3. PICK c \in Nat : c = Cardinality(workers)
  <2>1. IsFiniteSet(workers)
    BY <1>1, CallersAndWorkers, FS_Subset DEF TakenInv
  <2> QED
    BY <2>1, FS_CardinalityType
<1>4. PICK where \in {"push", "join", "idle"} :
        /\ pc' = [pc EXCEPT ![t] = where]
        /\ where = "push" => /\ terminates < c /\ terminates' = terminates + 1
                             /\ posting' = [posting EXCEPT ![t] = "terminate"] /\ UNCHANGED gone
        /\ where = "join" => UNCHANGED <<posting, terminates, gone>>
        /\ where = "idle" => /\ gone' = TRUE /\ UNCHANGED <<posting, terminates>>
                             /\ \A w \in workers : pc[w] = "ended"
  <2>1. CASE Terminate(t) /\ terminates < c
    BY <1>3, <2>1 DEF Terminate, Goto
  <2>2. CASE Terminate(t) /\ ~(terminates < c)
    BY <1>3, <2>2 DEF Terminate, Goto
  <2>3. CASE Join(t)
    BY <2>3 DEF Join, Goto
  <2> QED
    BY <2>1, <2>2, <2>3
<1>5. /\ \A u \in Callers \ {t} : pc'[u] = pc[u] /\ posting'[u] = posting[u]
      /\ pc'[t] = where /\ posting' \in [Callers -> Types]
      /\ where = "push" => posting'[t] = "terminate"
  BY <1>1, <1>4, CallersAndWorkers DEF RefsInv, Types
<1>6. /\ \A u \in Callers \ {t} : ~Destroys(u)'
      /\ Destroys(t)' <=> where # "idle"
      /\ gone' \in BOOLEAN /\ (gone' <=> where = "idle")
  <2>1. /\ \A u \in Callers \ {t} : ~Destroys(u)'
        /\ Destroys(t)' <=> where # "idle"
    BY <1>2, <1>4, <1>5 DEF Destroys
  <2>2. where # "idle" => gone' = gone
    BY <1>4
  <2>3. gone' \in BOOLEAN /\ (gone' <=> where = "idle")
    <3>1. CASE where = "idle"
      <4>1. gone' = TRUE
        BY <1>4, <3>1
      <4> QED
        BY <3>1, <4>1
    <3>2. CASE where # "idle"
      <4>1. gone \in BOOLEAN
        BY <1>1 DEF RefsInv
      <4> QED
        BY <1>2, <2>2, <3>2, <4>1
    <3> QED
      BY <3>1, <3>2
  <2> QED
    BY <2>1, <2>3
<1>7. Terminators' = Terminators
  BY <1>1 DEF Terminators
<1>8. RefsInv'
  <2>1. ASSUME NEW u \in Callers
        PROVE  /\ pc'[u] \in CallerPcs
               /\ pc'[u] = "release" => posting'[u] # "terminate"
               /\ u \in refs' /\ u # Main <=>
                    pc'[u] \in {"push", "pop_cv", "notify", "release"} /\ posting'[u] # "terminate"
               /\ Destroys(u)' => refs' = {} /\ ~gone'
    BY <1>1, <1>2, <1>4, <1>5, <1>6 DEF RefsInv, CallerPcs
  <2>2. pc'[Main] = "idle" \/ Destroys(Main)'
    BY <1>1, <1>2, <1>5, <1>6, CallersAndWorkers DEF RefsInv
  <2> QED
    BY <1>1, <1>2, <1>5, <1>6, <2>1, <2>2 DEF RefsInv
<1>9. UNCHANGED terminates \/ terminates' = terminates + 1
  BY <1>4
<1>10. terminates' \in 0 .. Cardinality(workers)
  <2>1. terminates \in 0 .. c
    BY <1>1, <1>3 DEF EndInv
  <2> QED
    BY <1>3, <1>4, <2>1
<1>11. ASSUME gone' PROVE IsEmpty /\ Ended = workers
  <2>1. where = "idle" /\ Ended = workers
    BY <1>4, <1>6, <1>11 DEF Ended
  <2>2. Cardinality(Terminators \cap Done) = c /\ Cardinality(Terminators) <= c
    <3>1. terminates \in 0 .. c /\ Cardinality(Terminators) <= terminates
      BY <1>1, <1>3 DEF EndInv
    <3>2. Cardinality(Terminators) \in Nat
      BY <1>1, TerminatorsFinite DEF RingInv
    <3> QED
      BY <1>1, <1>3, <2>1, <3>1, <3>2 DEF EndInv
  <2>3. Terminators \subseteq Done
    <3>1. IsFiniteSet(Terminators) /\ Cardinality(Terminators) \in Nat
      BY <1>1, TerminatorsFinite DEF RingInv
    <3> DEFINE T == Terminators \cap Done
    <3>2. Cardinality(T) <= Cardinality(Terminators)
      BY <3>1, FS_Subset
    <3>3. Cardinality(T) = Cardinality(Terminators)
      BY <2>2, <3>1, <3>2
    <3>4. T = Terminators
      BY <3>1, <3>3, FS_Subset
    <3> QED
      BY <3>4
  <2>4. Terminators # {}
    <3>1. workers # {} /\ IsFiniteSet(workers)
      BY <1>1, CallersAndWorkers, FS_Subset DEF TakenInv
    <3>2. c # 0
      BY <1>3, <3>1, FS_EmptySet
    <3> QED
      BY <2>2, <3>2, FS_EmptySet
  <2>5. PICK i \in Terminators : i \in 1 .. Left
    BY <2>3, <2>4 DEF Done
  <2>6. PICK n \in Nat, k \in Nat, s \in Nat :
          n = Len(accepted) /\ k = Left /\ s = Size /\ k = n - s
    BY <1>1, RingSize DEF RingInv, Left
  <2>7. ASSUME s # 0 PROVE FALSE
    <3>1. i \in 1 .. n /\ n \in 1 .. n /\ i < n /\ ~(n \in 1 .. k)
      BY <2>5, <2>6, <2>7
    <3>2. n \in Terminators
      BY <1>1, <2>6, <3>1 DEF EndInv
    <3> QED
      BY <2>3, <2>6, <3>1, <3>2 DEF Done
  <2> QED
    BY <1>1, <2>1, <2>6, <2>7, EmptyIsNone
<1>12. \A u \in Callers : Destroys(u)' /\ pc'[u] \in {"push", "pop_cv"} =>
                            terminates' = terminates + 1
  BY <1>4, <1>5, <1>6
<1> QED
  BY <1>1, <1>2, <1>4, <1>8, <1>9, <1>10, <1>11, <1>12, StandStill DEF CallerPcs
(* A thread notifies another, and both go on: no message moves. *)
LEMMA NotifyStep ==
  ASSUME PoolInv, pc' \in [Threads -> CallerPcs \cup WorkerPcs],
         UNCHANGED <<ringVars, poolVars, posting, incoming, sinkVars, discarded, posts, accepted,
                     dropped>>,
         \A w \in Workers : \/ pc'[w] = pc[w]
                            \/ pc[w] = "push_cv" /\ pc'[w] = "pop"
                            \/ pc[w] = "popped" /\ pc'[w] = "handle",
         \A t \in Callers : \/ pc'[t] = pc[t]
                            \/ pc[t] = "pop_cv" /\ pc'[t] = "push"
                            \/ pc[t] = "notify" /\ pc'[t] = IF posting[t] = "terminate"
                                                            THEN "terminate" ELSE "release"
  PROVE  PoolInv'
<1>1. /\ UNCHANGED <<slots, head, tail, overruns, workers, policy, terminates, gone, refs>>
      /\ UNCHANGED <<ringVars, posting, incoming, sinkVars, discarded, posts, accepted, dropped>>
      /\ RingInv /\ TakenInv /\ SinkInv /\ OrderInv /\ RefsInv /\ EndInv
  BY DEF PoolInv, ringVars, poolVars
<1>2. RingInv' /\ Left' = Left /\ (IsEmpty' <=> IsEmpty)
  BY <1>1 DEF RingInv, Left, Size, At, IsEmpty
<1>3. TakenInv' /\ SinkInv' /\ OrderInv'
  BY <1>1, MessagesStay
<1>4. Done' = Done /\ Terminators' = Terminators
  BY <1>1, <1>2 DEF Done, Terminators
<1>5. Ended' = Ended
  BY <1>1, CallersAndWorkers DEF Ended, TakenInv
<1>6. RefsInv' /\ \A t \in Callers : Destroys(t)' <=> Destroys(t)
  <2>1. \A t \in Callers : Posting(t)
    BY DEF Posting
  <2>2. Terminators' # {} => refs = {}
    BY <1>1, <1>4 DEF RefsInv
  <2> QED
    BY <1>1, <2>1, <2>2, RefsStand
<1>7. EndInv'
  <2>1. gone => IsEmpty'
    BY <1>1, <1>2 DEF EndInv
  <2>2. \A t \in Callers : Destroys(t)' /\ pc'[t] \in {"push", "pop_cv"} =>
                             Destroys(t) /\ pc[t] \in {"push", "pop_cv"}
    BY <1>6
  <2> QED
    BY <1>1, <1>4, <1>5, <2>1, <2>2, EndStands
<1> QED
  BY <1>1, <1>2, <1>3, <1>6, <1>7 DEF PoolInv

(* notify_one after a push wakes a worker. *)
LEMMA NotifyPushedStep ==
  ASSUME PoolInv, NEW t \in Callers, NotifyPushed(t)
  PROVE  PoolInv'
<1> DEFINE then == IF posting[t] = "terminate" THEN "terminate" ELSE "release"
<1>1. /\ pc[t] = "notify" /\ t \in Threads /\ pc \in [Threads -> CallerPcs \cup WorkerPcs]
      /\ NotifyOne(t, "push_cv", "pop", then)
      /\ UNCHANGED <<ringVars, poolVars, posting, incoming, sinkVars, discarded, posts, accepted,
                     dropped>>
      /\ \A u \in Callers : pc[u] \in CallerPcs
  BY CallersAndWorkers DEF NotifyPushed, PoolInv, RefsInv
<1>2. then \in CallerPcs \cup WorkerPcs /\ "pop" \in CallerPcs \cup WorkerPcs
  BY DEF CallerPcs, WorkerPcs
<1> HIDE DEF then
<1>3. /\ pc' \in [Threads -> CallerPcs \cup WorkerPcs] /\ pc'[t] = then
      /\ \A v \in Threads \ {t} : pc'[v] = pc[v] \/ (pc[v] = "push_cv" /\ pc'[v] = "pop")
  BY <1>1, <1>2, Notified
<1>4. \A w \in Workers : pc'[w] = pc[w] \/ (pc[w] = "push_cv" /\ pc'[w] = "pop")
  BY <1>3, CallersAndWorkers
<1>5. \A u \in Callers : \/ pc'[u] = pc[u]
                         \/ pc[u] = "notify" /\ pc'[u] = IF posting[u] = "terminate"
                                                         THEN "terminate" ELSE "release"
  BY <1>1, <1>3, CallersAndWorkers DEF CallerPcs, then
<1> QED
  BY <1>1, <1>3, <1>4, <1>5, NotifyStep

(* notify_one after a pop wakes a caller that waits for room. *)
LEMMA NotifyPoppedStep ==
  ASSUME PoolInv, NEW w \in workers, NotifyPopped(w)
  PROVE  PoolInv'
<1>1. /\ pc[w] = "popped" /\ w \in Workers /\ w \in Threads
      /\ pc \in [Threads -> CallerPcs \cup WorkerPcs]
      /\ NotifyOne(w, "pop_cv", "push", "handle")
      /\ UNCHANGED <<ringVars, poolVars, posting, incoming, sinkVars, discarded, posts, accepted,
                     dropped>>
      /\ \A v \in Workers : pc[v] \in WorkerPcs
  BY CallersAndWorkers DEF NotifyPopped, PoolInv, TakenInv
<1>2. "handle" \in CallerPcs \cup WorkerPcs /\ "push" \in CallerPcs \cup WorkerPcs
  BY DEF CallerPcs, WorkerPcs
<1>3. /\ pc' \in [Threads -> CallerPcs \cup WorkerPcs] /\ pc'[w] = "handle"
      /\ \A v \in Threads \ {w} : pc'[v] = pc[v] \/ (pc[v] = "pop_cv" /\ pc'[v] = "push")
  BY <1>1, <1>2, Notified
<1>4. \A v \in Workers : pc'[v] = pc[v] \/ (pc[v] = "popped" /\ pc'[v] = "handle")
  BY <1>1, <1>3, CallersAndWorkers DEF WorkerPcs
<1>5. \A t \in Callers : pc'[t] = pc[t] \/ (pc[t] = "pop_cv" /\ pc'[t] = "push")
  BY <1>1, <1>3, CallersAndWorkers
<1> QED
  BY <1>1, <1>3, <1>4, <1>5, NotifyStep

(* A worker that takes a message, or is done with one, ends with the       *)
(* terminate message that it took.                                         *)
LEMMA TakeStep ==
  ASSUME PoolInv, NEW w \in workers,
         Dequeue(w) \/ \E throwing \in SUBSET Sinks : Handle(w, throwing)
  PROVE  PoolInv'
<1>1. /\ pc[w] \in {"pop", "handle"} /\ w \in Workers /\ w \in Threads /\ workers \subseteq Workers
      /\ pc \in [Threads -> CallerPcs \cup WorkerPcs]
      /\ UNCHANGED <<workers, policy, terminates, gone, refs, posting, discarded, posts, accepted,
                     dropped>>
      /\ RingInv /\ TakenInv /\ SinkInv /\ OrderInv /\ RefsInv /\ EndInv
      /\ policy \in [Producers -> AllPolicies] /\ discarded \in Nat /\ posts \in Nat
  BY CallersAndWorkers DEF Dequeue, Handle, PoolInv, TakenInv, poolVars
<1>2. PICK where \in WorkerPcs : pc' = [pc EXCEPT ![w] = where]
  <2>1. \A c \in BOOLEAN : (IF c THEN "ended" ELSE "pop") \in WorkerPcs
    BY DEF WorkerPcs
  <2>2. CASE Dequeue(w)
    BY <2>2 DEF Dequeue, Goto, WorkerPcs
  <2>3. CASE \E throwing \in SUBSET Sinks : Handle(w, throwing)
    BY <2>3 DEF Handle, Goto, WorkerPcs
  <2> QED
    BY <2>2, <2>3
<1>3. /\ pc' \in [Threads -> CallerPcs \cup WorkerPcs]
      /\ \A v \in Threads \ {w} : pc'[v] = pc[v]
      /\ \A t \in Callers : pc'[t] = pc[t]
      /\ pc'[w] = where
  BY <1>1, <1>2, CallersAndWorkers
<1>4. Terminators' = Terminators
  BY <1>1 DEF Terminators
<1>5. RefsInv' /\ \A t \in Callers : Destroys(t)' <=> Destroys(t)
  <2>1. \A t \in Callers : Posting(t)
    BY <1>3 DEF Posting
  <2>2. Terminators' # {} => refs = {}
    BY <1>1, <1>4 DEF RefsInv
  <2> QED
    BY <1>1, <2>1, <2>2, RefsStand
<1>6. ~gone /\ w \notin Ended
  BY <1>1 DEF EndInv, Ended
<1>7. \A t \in Callers : Destroys(t)' /\ pc'[t] \in {"push", "pop_cv"} =>
                           Destroys(t) /\ pc[t] \in {"push", "pop_cv"}
  BY <1>3, <1>5
<1>8. CASE Dequeue(w)
  <2>1. RingInv' /\ TakenInv' /\ SinkInv' /\ OrderInv' /\ Done' = Done
    BY <1>1, <1>8, DequeueStep
  <2>2. where # "ended"
    BY <1>1, <1>3, <1>8 DEF Dequeue, Goto
  <2>3. Ended' = Ended
    BY <1>1, <1>3, <1>6, <2>2, CallersAndWorkers DEF Ended
  <2>4. EndInv'
    BY <1>1, <1>6, <1>7, <2>1, <2>3, EndStands
  <2> QED
    BY <1>1, <1>3, <1>5, <2>1, <2>4 DEF PoolInv
<1>9. CASE \E throwing \in SUBSET Sinks : Handle(w, throwing)
  <2>1. PICK throwing \in SUBSET Sinks : Handle(w, throwing)
    BY <1>9
  <2>2. /\ RingInv' /\ TakenInv' /\ SinkInv' /\ OrderInv'
        /\ incoming[w] \in 1 .. Left /\ incoming[w] \notin Done
        /\ Done' = Done \cup {incoming[w]}
    BY <1>1, <2>1, HandleStep
  <2>3. pc' = [pc EXCEPT ![w] = IF accepted[incoming[w]] = "terminate" THEN "ended" ELSE "pop"]
    BY <2>1 DEF Handle, Goto
  <2>4. incoming[w] \in 1 .. Len(accepted)
    <3>1. PICK n \in Nat, k \in Nat, s \in Nat :
            n = Len(accepted) /\ k = Left /\ s = Size /\ k = n - s
      BY <1>1, RingSize DEF RingInv, Left
    <3> QED
      BY <2>2, <3>1
  <2>5. Cardinality(Ended') = Cardinality(Terminators' \cap Done')
    <3>1. Cardinality(Ended) = Cardinality(Terminators \cap Done)
      BY <1>1 DEF EndInv
    <3>2. CASE incoming[w] \in Terminators
      <4>1. Ended' = Ended \cup {w}
        BY <1>1, <1>3, <2>3, <3>2, CallersAndWorkers DEF Ended, Terminators
      <4>2. Terminators' \cap Done' = (Terminators \cap Done) \cup {incoming[w]}
        BY <1>4, <2>2, <3>2
      <4>3. IsFiniteSet(Ended)
        <5>1. Ended \subseteq Workers
          BY <1>1 DEF Ended
        <5> QED
          BY <5>1, CallersAndWorkers, FS_Subset
      <4>4. IsFiniteSet(Terminators \cap Done)
        <5>1. IsFiniteSet(Terminators)
          BY <1>1, TerminatorsFinite DEF RingInv
        <5> DEFINE T == Terminators \cap Done
        <5>2. T \in SUBSET Terminators
          OBVIOUS
        <5>3. IsFiniteSet(T)
          BY <5>1, <5>2, FS_Subset
        <5> QED
          BY <5>3
      <4>5. incoming[w] \notin Terminators \cap Done
        BY <2>2
      <4>6. Cardinality(Ended') = Cardinality(Ended) + 1
        BY <1>6, <4>1, <4>3, FS_AddElement
      <4> DEFINE T == Terminators \cap Done
      <4>7. IsFiniteSet(T) /\ incoming[w] \notin T /\ Terminators' \cap Done' = T \cup {incoming[w]}
        BY <4>2, <4>4, <4>5
      <4>8. Cardinality(T \cup {incoming[w]}) = Cardinality(T) + 1
        <5> HIDE DEF T
        <5> QED
          BY <4>7, FS_AddElement
      <4> QED
        BY <3>1, <4>6, <4>7, <4>8
    <3>3. CASE incoming[w] \notin Terminators
      <4>1. Ended' = Ended
        <5>1. pc'[w] = "pop"
          BY <1>1, <2>3, <2>4, <3>3 DEF Terminators
        <5> QED
          BY <1>1, <1>3, <1>6, <5>1, CallersAndWorkers DEF Ended
      <4>2. Terminators' \cap Done' = Terminators \cap Done
        BY <1>4, <2>2, <3>3
      <4> QED
        BY <3>1, <4>1, <4>2
    <3> QED
      BY <3>2, <3>3
  <2>6. EndInv'
    <3>1. ~gone'
      BY <1>1, <1>6
    <3> HIDE DEF Ended, Terminators, Done
    <3> QED
      BY <1>1, <1>4, <1>7, <2>5, <3>1 DEF EndInv
  <2> QED
    BY <1>1, <1>3, <1>5, <2>2, <2>6 DEF PoolInv
<1> QED
  BY <1>8, <1>9
----------------------------------------------------------------------------
(* The pool begins with an empty ring and the reference of the registry. *)
LEMMA InitEstablishesPoolInv == Init => PoolInv
<1> SUFFICES ASSUME Init PROVE PoolInv
  OBVIOUS
<1>1. /\ RingInit /\ Made /\ pc = [t \in Threads |-> IF t \in Callers THEN "idle" ELSE "pop"]
      /\ posting = [t \in Callers |-> "log"] /\ incoming = [w \in Workers |-> 0]
      /\ refs = {Main} /\ terminates = 0 /\ gone = FALSE /\ discarded = 0 /\ posts = 0
      /\ accepted = <<>> /\ dropped = {}
      /\ written = [s \in Sinks |-> <<>>] /\ failed = {} /\ flushed = [s \in Sinks |-> 0]
  BY DEF Init
<1>2. /\ pc \in [Threads -> CallerPcs \cup WorkerPcs]
      /\ \A t \in Callers : pc[t] = "idle"
      /\ \A w \in Workers : pc[w] = "pop"
  BY <1>1, CallersAndWorkers DEF CallerPcs, WorkerPcs
<1>3. /\ slots = [i \in Slot |-> 0] /\ head = 0 /\ tail = 0 /\ overruns = 0
      /\ 0 \in Slot /\ MaxItems \in Nat \ {0}
  BY <1>1, CircularQAssumption DEF RingInit, Slot
<1>4. Size = 0 /\ Len(accepted) = 0
  BY <1>1, <1>3 DEF Size
<1>5. Left = 0 /\ IsEmpty
  BY <1>3, <1>4 DEF Left, IsEmpty
<1>6. RingInv
  <2>1. slots \in [Slot -> Nat] /\ head \in Slot /\ tail \in Slot /\ accepted \in Seq(Types)
    BY <1>1, <1>3
  <2>2. \A i \in 0 .. Size - 1 : FALSE
    BY <1>4
  <2> QED
    BY <1>5, <2>1, <2>2 DEF RingInv
<1>7. workers \in Pools /\ workers \subseteq Workers /\ policy \in [Producers -> AllPolicies]
  BY <1>1, CallersAndWorkers DEF Made
<1>8. Done = {} /\ Terminators = {} /\ Ended = {}
  BY <1>2, <1>4, <1>5, <1>7 DEF Done, Terminators, Ended
<1>9. Cardinality({}) = 0
  BY FS_EmptySet
<1>10. TakenInv
  <2>1. incoming \in [Workers -> Nat] /\ \A w \in Workers : incoming[w] = 0 /\ pc[w] = "pop"
    BY <1>1, <1>2
  <2>2. \A w \in Workers : incoming[w] \in 0 .. Left /\ incoming[w] \notin dropped
    BY <1>1, <1>5, <2>1
  <2>3. overruns = Cardinality(dropped)
    BY <1>1, <1>3, <1>9
  <2>4. dropped \subseteq 1 .. Left
    BY <1>1
  <2> QED
    BY <1>7, <2>1, <2>2, <2>3, <2>4 DEF TakenInv, WorkerPcs
<1>11. SinkInv /\ OrderInv
  <2>1. \A s \in Sinks : written[s] = <<>> /\ flushed[s] = 0 /\ Range(written[s]) = {}
    <3>1. Range(<<>>) = {}
      BY DEF Range
    <3> QED
      BY <1>1, <3>1
  <2>2. SinkInv
    <3>1. DOMAIN written = Sinks /\ DOMAIN flushed = Sinks /\ failed \subseteq Sinks \X Done
      BY <1>1
    <3>2. ASSUME NEW s \in Sinks
          PROVE  /\ written[s] \in Seq(Done) /\ flushed[s] \in 0 .. Len(written[s])
                 /\ Cardinality(Range(written[s])) = Len(written[s])
      <4>1. <<>> \in Seq(Done) /\ Len(<<>>) = 0
        OBVIOUS
      <4>2. written[s] \in Seq(Done) /\ Len(written[s]) = 0 /\ flushed[s] = 0
        BY <2>1, <4>1
      <4>3. Cardinality(Range(written[s])) = 0
        BY <1>9, <2>1
      <4> QED
        BY <4>2, <4>3
    <3>3. ASSUME NEW s \in Sinks
          PROVE  Range(written[s]) \cup {id \in Done : <<s, id>> \in failed}
                   = {id \in Done : accepted[id] \in Logs}
      BY <1>8, <2>1
    <3> QED
      BY <3>1, <3>2, <3>3 DEF SinkInv
  <2>3. OrderInv
    BY <1>1, <1>7, <2>1 DEF OrderInv
  <2> QED
    BY <2>2, <2>3
<1>12. RefsInv
  <2>1. \A t \in Callers : pc[t] = "idle" /\ ~Destroys(t)
    BY <1>2 DEF Destroys
  <2>2. posting \in [Callers -> Types] /\ refs \subseteq Callers /\ gone \in BOOLEAN
    BY <1>1, CallersAndWorkers DEF Types, Logs
  <2>3. ~(gone \/ Terminators # {} \/ terminates > 0)
    BY <1>1, <1>8
  <2>4. pc[Main] = "idle" /\ \A t \in Callers : ~(t \in refs /\ t # Main)
    BY <1>1, <2>1, CallersAndWorkers
  <2> QED
    BY <2>1, <2>2, <2>3, <2>4 DEF RefsInv, CallerPcs
<1>13. EndInv
  <2>1. Cardinality(workers) \in Nat
    BY <1>7, CallersAndWorkers, FS_Subset, FS_CardinalityType
  <2>2. \A t \in Callers : ~(pc[t] \in {"push", "pop_cv"})
    BY <1>2
  <2>3. Terminators \cap Done = {}
    BY <1>8
  <2> QED
    BY <1>1, <1>8, <1>9, <2>1, <2>2, <2>3 DEF EndInv
<1> QED
  BY <1>1, <1>2, <1>6, <1>7, <1>10, <1>11, <1>12, <1>13 DEF PoolInv

(* No step of a caller or of a worker leaves the invariant. *)
LEMMA NextPreservesPoolInv == PoolInv /\ [Next]_vars => PoolInv'
<1> SUFFICES ASSUME PoolInv, [Next]_vars PROVE PoolInv'
  OBVIOUS
<1>1. CASE \E p \in Producers : \E type \in Calls[p] : Call(p, type)
  BY <1>1, CallStep
<1>2. CASE Shutdown
  BY <1>2, LetGoStep, CallersAndWorkers DEF Shutdown
<1>3. ASSUME NEW t \in Callers, CallInProgress(t) PROVE PoolInv'
  <2>1. CASE Release(t)
    <3>1. pc[t] = "release" /\ RefsInv
      BY <2>1 DEF Release, PoolInv
    <3>2. t # Main /\ posting[t] # "terminate"
      BY <3>1 DEF RefsInv, Destroys
    <3>3. t \in refs
      BY <3>1, <3>2 DEF RefsInv
    <3> QED
      BY <2>1, <3>1, <3>3, LetGoStep DEF Release
  <2> QED
    BY <1>3, <2>1, EnqueueStep, NotifyPushedStep, DestructorStep DEF CallInProgress
<1>4. ASSUME NEW w \in workers, Work(w) PROVE PoolInv'
  BY <1>4, TakeStep, NotifyPoppedStep DEF Work
<1>5. CASE UNCHANGED vars
  <2>1. /\ UNCHANGED <<ringVars, poolVars, posting, incoming, sinkVars, discarded, posts, accepted,
                       dropped>>
        /\ UNCHANGED pc
    BY <1>5 DEF vars, threads
  <2> QED
    BY <2>1, NotifyStep DEF PoolInv
<1> QED
  BY <1>1, <1>2, <1>3, <1>4, <1>5 DEF Next

(***************************************************************************)
(* The invariant holds in every state of the pool.                         *)
(***************************************************************************)
THEOREM PoolInvariance == Spec => []PoolInv
BY InitEstablishesPoolInv, NextPreservesPoolInv, PTL DEF Spec

(***************************************************************************)
(* The ring holds the last messages pushed, in order: wherever its indices *)
(* are, the message pushed overwrites the oldest and no other.             *)
(***************************************************************************)
THEOREM RingAlwaysLatest == Spec => []RingHoldsTheLatest
<1>1. PoolInv => RingHoldsTheLatest
  BY QueuedAreLast DEF PoolInv
<1> QED
  BY <1>1, PoolInvariance, PTL

(* No more messages left the ring than were pushed. *)
LEMMA LeftAreAccepted == RingInv => Left \in Nat /\ Len(accepted) \in Nat /\ Left <= Len(accepted)
<1> SUFFICES ASSUME RingInv PROVE Left <= Len(accepted)
  BY DEF RingInv
<1>1. Left \in Nat /\ Size \in Nat /\ Len(accepted) \in Nat /\ Left = Len(accepted) - Size
  BY RingSize, CircularQAssumption DEF RingInv, Left
<1> QED
  BY <1>1

(* What is neither queued, in hand nor overrun is what workers are done    *)
(* with.                                                                   *)
LEMMA DoneAreTheRest ==
  ASSUME RingInv, TakenInv
  PROVE  /\ Messages \ (Queued \cup InHand \cup dropped) = Done /\ Done \subseteq Messages
         /\ Queued \cap InHand = {} /\ (Queued \cup InHand) \cap dropped = {}
<1>1. PICK n \in Nat, k \in Nat : n = Len(accepted) /\ k = Left /\ k <= n
  BY LeftAreAccepted
<1>2. Queued = k + 1 .. n /\ Messages = 1 .. n
  BY <1>1, QueuedAreLast DEF Messages
<1>3. /\ InHand = {incoming[w] : w \in Workers} \ {0}
      /\ \A id \in InHand : id \in 1 .. k /\ id \notin dropped
  <2>1. workers \subseteq Workers /\ \A w \in Workers \ workers : incoming[w] = 0
    BY CallersAndWorkers DEF TakenInv
  <2>2. \A w \in Workers : incoming[w] \in 0 .. k /\ incoming[w] \notin dropped
    BY <1>1 DEF TakenInv
  <2> QED
    BY <1>1, <2>1, <2>2 DEF InHand
<1>4. dropped \subseteq 1 .. k
  BY <1>1 DEF TakenInv
<1>5. Done = {id \in 1 .. k : id \notin dropped /\ id \notin InHand}
  BY <1>1, <1>3 DEF Done
<1> QED
  BY <1>1, <1>2, <1>3, <1>4, <1>5

(***************************************************************************)
(* Every message that was accepted is queued, in the hands of one worker,  *)
(* counted as overrun, or was offered once to each sink.                   *)
(***************************************************************************)
THEOREM NothingEverLost == Spec => []NothingIsLost
<1>1. PoolInv => NothingIsLost
  <2> SUFFICES ASSUME PoolInv PROVE NothingIsLost
    OBVIOUS
  <2>1. RingInv /\ TakenInv /\ SinkInv
    BY DEF PoolInv
  <2>2. ASSUME NEW s \in Sinks
        PROVE  /\ Range(written[s]) \cup {id \in Messages : <<s, id>> \in failed}
                    = {id \in Done : accepted[id] \in Logs}
               /\ Cardinality(Range(written[s])) = Len(written[s])
    <3>1. {id \in Messages : <<s, id>> \in failed} = {id \in Done : <<s, id>> \in failed}
      BY <2>1, DoneAreTheRest DEF SinkInv
    <3> QED
      BY <2>1, <3>1 DEF SinkInv
  <2> QED
    BY <2>1, <2>2, DoneAreTheRest DEF NothingIsLost, TakenInv
<1> QED
  BY <1>1, PoolInvariance, PTL

(***************************************************************************)
(* A pool of one worker gives each sink the messages in the order in which *)
(* they were pushed, and a flush has all those before it flushed.          *)
(***************************************************************************)
THEOREM OneWorkerAlwaysInOrder == Spec => []OneWorkerKeepsOrder
<1>1. PoolInv => OneWorkerKeepsOrder
  <2> SUFFICES ASSUME PoolInv PROVE OneWorkerKeepsOrder
    OBVIOUS
  <2>1. Messages \ (Queued \cup InHand \cup dropped) = Done /\ OrderInv /\ SinkInv
    BY DoneAreTheRest DEF PoolInv
  <2> QED
    BY <2>1 DEF OneWorkerKeepsOrder, OrderInv
<1> QED
  BY <1>1, PoolInvariance, PTL

(***************************************************************************)
(* The destructor's messages are the last ones, and none of them is        *)
(* overrun; when it is done, nothing is left in the ring or in a hand.     *)
(***************************************************************************)
THEOREM PoolAlwaysEndsDrained == Spec => []PoolEndsDrained
<1>1. PoolInv => PoolEndsDrained
  <2> SUFFICES ASSUME PoolInv PROVE PoolEndsDrained
    OBVIOUS
  <2>1. TakenInv /\ EndInv /\ RingInv
    BY DEF PoolInv
  <2>2. \A id \in dropped : accepted[id] # "terminate"
    <3>1. \A id \in dropped : id \in 1 .. Len(accepted)
      BY <2>1, LeftAreAccepted DEF TakenInv
    <3> QED
      BY <2>1, <3>1 DEF EndInv, Terminators
  <2>3. \A i, j \in Messages : accepted[i] = "terminate" /\ i < j => accepted[j] = "terminate"
    BY <2>1 DEF EndInv, Terminators, Messages
  <2>4. ASSUME gone PROVE IsEmpty /\ InHand = {}
    <3>1. IsEmpty /\ \A w \in workers : pc[w] = "ended" /\ w \in Workers
      BY <2>1, <2>4, CallersAndWorkers DEF EndInv, Ended, TakenInv
    <3>2. \A w \in workers : incoming[w] = 0
      BY <2>1, <3>1 DEF TakenInv
    <3> QED
      BY <3>1, <3>2 DEF InHand
  <2> QED
    BY <2>2, <2>3, <2>4 DEF PoolEndsDrained
<1> QED
  BY <1>1, PoolInvariance, PTL

(***************************************************************************)
(* The variables of the pool have their types.                             *)
(***************************************************************************)
THEOREM PoolTypeCorrect == Spec => []PoolTypeOK
<1>1. PoolInv => PoolTypeOK
  <2> SUFFICES ASSUME PoolInv PROVE PoolTypeOK
    OBVIOUS
  <2>1. /\ RingInv /\ TakenInv /\ SinkInv /\ RefsInv /\ EndInv
        /\ pc \in [Threads -> CallerPcs \cup WorkerPcs]
        /\ policy \in [Producers -> AllPolicies] /\ discarded \in Nat /\ posts \in Nat
    BY DEF PoolInv
  <2>2. PICK n \in Nat, k \in Nat : n = Len(accepted) /\ k = Left /\ k <= n
    BY <2>1, LeftAreAccepted
  <2>3. dropped \subseteq Messages /\ incoming \in [Workers -> Messages \cup {0}]
    BY <2>1, <2>2 DEF TakenInv, Messages
  <2>4. \A s \in Sinks : Range(written[s]) \subseteq Messages /\ flushed[s] \in 0 .. Len(written[s])
    BY <2>1, DoneAreTheRest DEF SinkInv, Range
  <2>5. overruns \in Nat
    <3>1. IsFiniteSet(1 .. k) /\ dropped \in SUBSET (1 .. k)
      BY <2>1, <2>2, FS_Interval DEF TakenInv
    <3>2. IsFiniteSet(dropped)
      BY <3>1, FS_Subset
    <3> QED
      BY <2>1, <3>2, FS_CardinalityType DEF TakenInv
  <2> QED
    BY <2>1, <2>3, <2>4, <2>5 DEF PoolTypeOK, RingInv, TakenInv, RefsInv, EndInv, CallerPcs, WorkerPcs
<1> QED
  BY <1>1, PoolInvariance, PTL
=============================================================================

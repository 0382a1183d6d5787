---------------------------- MODULE ThreadPool ----------------------------
(***************************************************************************)
(* Asynchronous logging: async_logger in the threads that log, the         *)
(* mpmc_blocking_queue between them and the workers of a thread_pool, and  *)
(* the end of the pool, whose destructor runs in whichever thread lets go  *)
(* of it last: the one that resets the registry's pointer or one that is   *)
(* just done posting.                                                      *)
(*                                                                         *)
(* A step is what happens under queue_mutex_, a notify_one after it, a     *)
(* change of the pool's use count, or the handling of one message.  The    *)
(* two condition variables are the sets of threads that wait on them.      *)
(* Messages are numbered in the order in which they are pushed.            *)
(***************************************************************************)
EXTENDS CircularQ, FiniteSets, Functions

CONSTANTS
  Producers,   \* threads that log
  Workers,     \* threads of pools
  Pools,       \* the sets of workers a pool may be made with
  Sinks,       \* the sinks of the loggers
  Policies,    \* the async_overflow_policy each producer's logger may have
  Calls,       \* what each does: log below the flush level or at it, or flush
  Main,        \* the thread that resets the registry's pointer
  MaxPosts,    \* bound on the messages posted, by number of workers
  MaxFaults    \* bound on the exceptions of sinks

AllPolicies == {"block", "overrun_oldest", "discard_new"}

ASSUME ThreadPoolAssumption ==
  /\ Policies \in [Producers -> SUBSET AllPolicies]
  /\ Pools \subseteq (SUBSET Workers) \ {{}}
  /\ Calls \in [Producers -> SUBSET {"log", "urgent", "flush"}]
  /\ MaxPosts \in [1 .. Cardinality(Workers) -> Nat]
  /\ MaxFaults \in Nat
  /\ Main \notin Producers
  /\ IsFiniteSet(Workers) /\ Workers \cap (Producers \cup {Main}) = {}

VARIABLES
  workers,     \* threads_, which does not change
  policy,      \* the overflow policy of each producer's logger
  pc,          \* what each thread does next
  posting,     \* the type of the message each caller posts
  incoming,    \* the message each worker has taken
  refs,        \* who holds a strong reference to the pool
  terminates,  \* how many terminate messages the destructor has made
  gone,        \* the pool is destroyed
  discarded,   \* discard_counter_
  posts,       \* calls of log and flush
  accepted,    \* history: the types of the messages pushed
  dropped,     \* history: the messages overrun
  written,     \* history: what each sink was given and took
  failed,      \* history: what sinks threw at
  flushed      \* history: how much of `written` was there when the sink was last flushed

poolVars  == <<workers, policy, terminates, gone, refs>>
threads   == <<pc, posting, incoming>>
sinkVars  == <<written, failed, flushed>>
vars      == <<ringVars, poolVars, threads, sinkVars, discarded, posts, accepted, dropped>>

Callers == Producers \cup {Main}
Threads == Callers \cup Workers

(* "urgent" is a log message of the logger's flush level. *)
Logs  == {"log", "urgent"}
Types == Logs \cup {"flush", "terminate"}

Goto(t, where) == pc' = [pc EXCEPT ![t] = where]

WaitingFor(cv) == {t \in Threads : pc[t] = cv}

----------------------------------------------------------------------------
(* Mutations of the definitions below. *)

NotifyNobody(t, cv, step, then) == Goto(t, then)
NoReference(t)                  == UNCHANGED refs
FlushOnRequestOnly              == {"flush"}
MissingAll(throwing)            == IF throwing = {} THEN {} ELSE Sinks

----------------------------------------------------------------------------
(* post_async_msg_: terminate messages are posted to wait for room. *)
PolicyOf(t) == IF posting[t] = "terminate" THEN "block" ELSE policy[t]

(* notify_one wakes one of those that wait, if any do. *)
NotifyOne(t, cv, step, then) ==
  IF WaitingFor(cv) = {} THEN Goto(t, then)
  ELSE \E u \in WaitingFor(cv) : pc' = [pc EXCEPT ![u] = step, ![t] = then]

(* weak_ptr::lock *)
TakeReference(t) == refs' = refs \cup {t}

(* The messages after which a worker flushes. *)
Flushing == {"flush", "urgent"}

(* The sinks that miss a message when some throw: each is tried. *)
Missing(throwing) == throwing

(* The pool is made with a number of threads, by init_thread_pool or by    *)
(* the first factory that needs it, and each logger with a policy.         *)
Made ==
  /\ workers \in Pools
  /\ policy \in {f \in [Producers -> AllPolicies] : \A p \in Producers : f[p] \in Policies[p]}

Init ==
  /\ RingInit /\ Made
  /\ pc = [t \in Threads |-> IF t \in Callers THEN "idle" ELSE "pop"]
  /\ posting = [t \in Callers |-> "log"]
  /\ incoming = [w \in Workers |-> 0]
  /\ refs = {Main} /\ terminates = 0 /\ gone = FALSE
  /\ discarded = 0 /\ posts = 0
  /\ accepted = <<>> /\ dropped = {}
  /\ written = [s \in Sinks |-> <<>>] /\ failed = {}
  /\ flushed = [s \in Sinks |-> 0]

(* sink_it_ and flush_: lock the weak pointer, or report that the pool     *)
(* does not exist anymore.                                                 *)
Call(p, type) ==
  /\ pc[p] = "idle" /\ posts < MaxPosts[Cardinality(workers)]
  /\ posts' = posts + 1
  /\ IF refs # {}
     THEN /\ TakeReference(p)
          /\ posting' = [posting EXCEPT ![p] = type]
          /\ Goto(p, "push")
     ELSE UNCHANGED <<refs, posting, pc>>
  /\ UNCHANGED <<ringVars, workers, policy, terminates, gone, incoming, sinkVars, discarded,
                 accepted, dropped>>

(* The message is pushed; if that overran another, it is lost.             *)
Push(t) ==
  /\ PushBack(Len(accepted) + 1)
  /\ accepted' = Append(accepted, posting[t])
  /\ dropped' = IF IsFull THEN dropped \cup {Front} ELSE dropped
  /\ UNCHANGED discarded

(* enqueue, enqueue_nowait and enqueue_if_have_room, under the mutex. *)
Enqueue(t) ==
  /\ pc[t] = "push"
  /\ CASE ~IsFull \/ PolicyOf(t) = "overrun_oldest" -> Push(t) /\ Goto(t, "notify")
       [] IsFull /\ PolicyOf(t) = "block" ->
            Goto(t, "pop_cv") /\ UNCHANGED <<ringVars, accepted, dropped, discarded>>
       [] IsFull /\ PolicyOf(t) = "discard_new" ->
            /\ discarded' = discarded + 1
            /\ Goto(t, "release")
            /\ UNCHANGED <<ringVars, accepted, dropped>>
  /\ UNCHANGED <<poolVars, posting, incoming, sinkVars, posts>>

NotifyPushed(t) ==
  /\ pc[t] = "notify"
  /\ NotifyOne(t, "push_cv", "pop", IF posting[t] = "terminate" THEN "terminate" ELSE "release")
  /\ UNCHANGED <<ringVars, poolVars, posting, incoming, sinkVars, discarded, posts, accepted, dropped>>

(* A thread lets go of the pool; the last one destroys it. *)
LetGo(t) ==
  /\ refs' = refs \ {t}
  /\ Goto(t, IF refs' = {} /\ ~gone THEN "terminate" ELSE "idle")
  /\ UNCHANGED <<ringVars, workers, policy, terminates, gone, incoming, sinkVars, discarded,
                 posts, accepted, dropped>>

Release(t) ==
  /\ pc[t] = "release"
  /\ posting' = [posting EXCEPT ![t] = "log"]
  /\ LetGo(t)

(* registry::shutdown, or a new pool for the registry. *)
Shutdown ==
  /\ pc[Main] = "idle" /\ Main \in refs
  /\ UNCHANGED posting
  /\ LetGo(Main)

(* ~thread_pool: one terminate message for each worker, then join. *)
Terminate(t) ==
  /\ pc[t] = "terminate"
  /\ IF terminates < Cardinality(workers)
     THEN /\ terminates' = terminates + 1
          /\ posting' = [posting EXCEPT ![t] = "terminate"]
          /\ Goto(t, "push")
     ELSE Goto(t, "join") /\ UNCHANGED <<terminates, posting>>
  /\ UNCHANGED <<ringVars, workers, policy, gone, refs, incoming, sinkVars, discarded, posts,
                 accepted, dropped>>

Join(t) ==
  /\ pc[t] = "join" /\ \A w \in workers : pc[w] = "ended"
  /\ gone' = TRUE
  /\ Goto(t, "idle")
  /\ UNCHANGED <<ringVars, workers, policy, terminates, refs, posting, incoming, sinkVars,
                 discarded, posts, accepted, dropped>>

(* dequeue, under the mutex. *)
Dequeue(w) ==
  /\ pc[w] = "pop"
  /\ IF IsEmpty
     THEN Goto(w, "push_cv") /\ UNCHANGED <<ringVars, incoming>>
     ELSE /\ incoming' = [incoming EXCEPT ![w] = Front]
          /\ PopFront
          /\ Goto(w, "popped")
  /\ UNCHANGED <<poolVars, posting, sinkVars, discarded, posts, accepted, dropped>>

NotifyPopped(w) ==
  /\ pc[w] = "popped"
  /\ NotifyOne(w, "pop_cv", "push", "handle")
  /\ UNCHANGED <<ringVars, poolVars, posting, incoming, sinkVars, discarded, posts, accepted, dropped>>

(* process_next_msg_, with backend_sink_it_ and backend_flush_: a sink     *)
(* that throws is reported, and the others get the message.                *)
Handle(w, throwing) ==
  LET id   == incoming[w]
      type == accepted[id]
  IN  /\ pc[w] = "handle"
      /\ throwing # {} => type \in Logs /\ Cardinality(failed) + Cardinality(throwing) <= MaxFaults
      /\ written' = [s \in Sinks |-> IF type \in Logs /\ s \notin Missing(throwing)
                                     THEN Append(written[s], id) ELSE written[s]]
      /\ failed' = failed \cup {<<s, id>> : s \in throwing}
      /\ flushed' = IF type \in Flushing THEN [s \in Sinks |-> Len(written'[s])] ELSE flushed
      /\ incoming' = [incoming EXCEPT ![w] = 0]
      /\ Goto(w, IF type = "terminate" THEN "ended" ELSE "pop")
      /\ UNCHANGED <<ringVars, poolVars, posting, discarded, posts, accepted, dropped>>

CallInProgress(t) == Enqueue(t) \/ NotifyPushed(t) \/ Release(t) \/ Terminate(t) \/ Join(t)

Work(w) == Dequeue(w) \/ NotifyPopped(w) \/ (\E throwing \in SUBSET Sinks : Handle(w, throwing))

Next ==
  \/ \E p \in Producers : \E type \in Calls[p] : Call(p, type)
  \/ Shutdown
  \/ \E t \in Callers : CallInProgress(t)
  \/ \E w \in workers : Work(w)

Spec == Init /\ [][Next]_vars

(* The scheduler starves no thread.  A thread that waits may be left       *)
(* asleep by every notify_one but the last, and need not wake up unasked.  *)
FairSpec ==
  /\ Spec
  /\ \A t \in Callers : WF_vars(CallInProgress(t))
  /\ \A w \in Workers : WF_vars(w \in workers /\ Work(w))

----------------------------------------------------------------------------
Messages == 1 .. Len(accepted)

Queued == Range(Contents)
InHand == {incoming[w] : w \in workers} \ {0}

PoolTypeOK ==
  /\ slots \in [Slot -> Nat] /\ head \in Slot /\ tail \in Slot /\ overruns \in Nat
  /\ workers \in Pools /\ policy \in [Producers -> AllPolicies]
  /\ pc \in [Threads -> {"idle", "push", "pop_cv", "notify", "release", "terminate", "join",
                         "pop", "push_cv", "popped", "handle", "ended"}]
  /\ posting \in [Callers -> Types]
  /\ incoming \in [Workers -> Messages \cup {0}]
  /\ refs \subseteq Callers /\ terminates \in 0 .. Cardinality(workers) /\ gone \in BOOLEAN
  /\ discarded \in Nat /\ posts \in Nat
  /\ accepted \in Seq(Types) /\ dropped \subseteq Messages
  /\ \A s \in Sinks : Range(written[s]) \subseteq Messages /\ flushed[s] \in 0 .. Len(written[s])

(***************************************************************************)
(* The ring holds the last messages pushed, in order, whatever was popped  *)
(* or overrun meanwhile and wherever its indices are (circular_q.h:46-83). *)
(***************************************************************************)
RingHoldsTheLatest ==
  Contents = [i \in 1 .. Size |-> Len(accepted) - Size + i]

(***************************************************************************)
(* Every message that was accepted is in the queue, in the hands of one    *)
(* worker, counted as overrun, or was offered once to each sink, of which  *)
(* one that throws costs the others nothing                                *)
(* (mpmc_blocking_q.h:31-90, async_logger-inl.h:60-78).                    *)
(***************************************************************************)
NothingIsLost ==
  /\ overruns = Cardinality(dropped)
  /\ Queued \cap InHand = {} /\ (Queued \cup InHand) \cap dropped = {}
  /\ \A s \in Sinks :
       LET offered == Range(written[s]) \cup {id \in Messages : <<s, id>> \in failed}
       IN  /\ offered = {id \in Messages \ (Queued \cup InHand \cup dropped) : accepted[id] \in Logs}
           /\ Cardinality(Range(written[s])) = Len(written[s])

(***************************************************************************)
(* A pool of one worker gives each sink the messages in the order in which *)
(* they were pushed, and a flush has all those before it flushed that were *)
(* not overrun (async.h:46, thread_pool-inl.h:99-123).                     *)
(***************************************************************************)
OneWorkerKeepsOrder ==
  Cardinality(workers) = 1 => \A s \in Sinks : \A i \in DOMAIN written[s] :
    /\ \A j \in i + 1 .. Len(written[s]) : written[s][i] < written[s][j]
    /\ \A id \in Messages \ (Queued \cup InHand \cup dropped) :
         accepted[id] \in {"flush", "urgent"} /\ written[s][i] <= id => i <= flushed[s]

(***************************************************************************)
(* The destructor begins only when no thread that posts is left, so that   *)
(* nothing is pushed behind the terminate messages and none of them is     *)
(* overrun, whatever the policies; and when it is done the workers have    *)
(* ended and taken everything with them (thread_pool-inl.h:44-55,          *)
(* async_logger-inl.h:35-36).                                              *)
(***************************************************************************)
PoolEndsDrained ==
  /\ \A id \in dropped : accepted[id] # "terminate"
  /\ \A i, j \in Messages : accepted[i] = "terminate" /\ i < j => accepted[j] = "terminate"
  /\ gone => IsEmpty /\ InHand = {}

(***************************************************************************)
(* The calls of log, flush and shutdown return: a producer that waits for  *)
(* room, and a destructor that waits for room or for the workers, are not  *)
(* left asleep.  (There are MaxPosts calls at most, so that they are, in   *)
(* the end, all over.)                                                     *)
(***************************************************************************)
CallsReturn == []<>(\A t \in Callers : pc[t] = "idle")
=============================================================================

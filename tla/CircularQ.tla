----------------------------- MODULE CircularQ -----------------------------
(***************************************************************************)
(* spdlog's circular_q: a ring of max_items + 1 slots, of which one always *)
(* stays free to tell a full ring from an empty one.  Pushing to a full    *)
(* ring drops, and counts, the oldest item.                                *)
(***************************************************************************)
EXTENDS Integers, Sequences

CONSTANT MaxItems   \* max_items of the constructor

(* A ring of no items never has room, and a blocking enqueue never returns. *)
ASSUME CircularQAssumption == MaxItems \in Nat \ {0}

VARIABLES
  slots, head, tail,   \* v_, head_ and tail_
  overruns             \* overrun_counter_

ringVars == <<slots, head, tail, overruns>>

Ring == MaxItems + 1
Slot == 0 .. MaxItems

----------------------------------------------------------------------------
(* Mutations of the definitions below. *)

AtWithoutMarker(i) == slots[(head + i) % MaxItems]

----------------------------------------------------------------------------
After(i) == (i + 1) % Ring

IsEmpty == tail = head
IsFull  == After(tail) = head
Size    == IF tail >= head THEN tail - head ELSE Ring - (head - tail)

At(i)   == slots[(head + i) % Ring]

Front   == At(0)

Contents == [i \in 1 .. Size |-> At(i - 1)]

(* Where the head goes when an item is pushed to a full ring.              *)
HeadAfterOverrun == After(head)

RingInit ==
  /\ slots = [i \in Slot |-> 0]
  /\ head = 0 /\ tail = 0 /\ overruns = 0

PushBack(item) ==
  /\ slots' = [slots EXCEPT ![tail] = item]
  /\ tail' = After(tail)
  /\ IF tail' = head
     THEN head' = HeadAfterOverrun /\ overruns' = overruns + 1
     ELSE UNCHANGED <<head, overruns>>

(* The item is moved out of its slot. *)
PopFront ==
  /\ slots' = [slots EXCEPT ![head] = 0]
  /\ head' = After(head)
  /\ UNCHANGED <<tail, overruns>>
=============================================================================

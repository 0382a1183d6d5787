--------------------------- MODULE MessageStream ----------------------------
(***************************************************************************)
(* What the buffer promises: one writer sends a stream of messages, and a  *)
(* reader that joins the stream gets every message released since, once,   *)
(* in order and whole, for as long as less than Window bytes have been     *)
(* sent since the message it is to get next.  A reader that falls further  *)
(* behind is lost, and nothing is promised to it.                          *)
(***************************************************************************)
EXTENDS Integers, Sequences

CONSTANTS
  Readers,
  Overhead,   \* bytes a message takes besides its payload
  Window      \* how many bytes the reader may be behind

VARIABLES
  sent,      \* the messages whose sending has begun, each with the number
             \* of bytes sent before it
  released,  \* how many of them the readers may get
  next,      \* the number of the message each reader is to get next
  state,     \* of each reader: "outside", "following" or "lost"
  result     \* what each reader was last told

streamVars == <<sent, released, next, state, result>>

NoMessage == <<>>
Result(what, message) == [what |-> what, message |-> message]

(* Bytes sent in all, and from message k on. *)
Total(s) ==
  IF s = <<>> THEN 0 ELSE s[Len(s)].before + Overhead + Len(s[Len(s)].message)

Backlog(s, k) == IF k <= Len(s) THEN Total(s) - s[k].before ELSE 0

Behind(s, k) == Backlog(s, k) >= Window

Tell(r, what, message) == result' = [result EXCEPT ![r] = Result(what, message)]

----------------------------------------------------------------------------
StreamInit ==
  /\ sent = <<>> /\ released = 0
  /\ next = [r \in Readers |-> 1]
  /\ state = [r \in Readers |-> "outside"]
  /\ result = [r \in Readers |-> Result("none", NoMessage)]

(* Sending a message takes its bytes from the readers furthest behind. *)
Begin ==
  /\ released = Len(sent)
  /\ Len(sent') = Len(sent) + 1
  /\ \A k \in 1 .. Len(sent) : sent'[k] = sent[k]
  /\ sent'[Len(sent')].before = Total(sent)
  /\ state' = [r \in Readers |->
                 IF state[r] = "following" /\ Behind(sent', next[r])
                 THEN "lost" ELSE state[r]]
  /\ UNCHANGED <<released, next, result>>

Release ==
  /\ released < Len(sent)
  /\ released' = Len(sent)
  /\ UNCHANGED <<sent, next, state, result>>

(* A reader decides where to join, and later does: if a message was        *)
(* released meanwhile it may be lost from the start.                       *)
ChoosePlace(r) ==
  /\ state[r] = "outside"
  /\ next' = [next EXCEPT ![r] = released + 1]
  /\ UNCHANGED <<sent, released, state, result>>

Join(r) ==
  /\ state[r] = "outside"
  /\ \/ /\ next[r] = released + 1
        /\ ~Behind(sent, next[r])
        /\ state' = [state EXCEPT ![r] = "following"]
     \/ state' = [state EXCEPT ![r] = "lost"]
  /\ UNCHANGED <<sent, released, next, result>>

Ask(r) ==
  /\ state[r] = "following"
  /\ Tell(r, "none", NoMessage)
  /\ UNCHANGED <<sent, released, next, state>>

Deliver(r) ==
  /\ state[r] = "following"
  /\ result[r].what = "none"
  /\ next[r] <= released
  /\ Tell(r, "message", sent[next[r]].message)
  /\ next' = [next EXCEPT ![r] = @ + 1]
  /\ UNCHANGED <<sent, released, state>>

NothingYet(r) ==
  /\ state[r] = "following"
  /\ next[r] > released
  /\ Tell(r, "empty", NoMessage)
  /\ UNCHANGED <<sent, released, next, state>>

(* The message does not fit the reader's buffer: it may ask again. *)
TooSmall(r) ==
  /\ state[r] = "following"
  /\ next[r] <= released
  /\ Tell(r, "error", NoMessage)
  /\ UNCHANGED <<sent, released, next, state>>

(* A lost reader may be told anything. *)
Stray(r) ==
  /\ state[r] = "lost"
  /\ \A q \in Readers \ {r} : result'[q] = result[q] /\ next'[q] = next[q]
  /\ UNCHANGED <<sent, released, state>>

StreamNext ==
  \/ Begin \/ Release
  \/ \E r \in Readers :
       \/ ChoosePlace(r) \/ Join(r) \/ Ask(r)
       \/ Deliver(r) \/ NothingYet(r) \/ TooSmall(r)
       \/ Stray(r)

StreamSpec == StreamInit /\ [][StreamNext]_streamVars
=============================================================================

-------------------------- MODULE SessionInvariant --------------------------
(***************************************************************************)
(* The inductive invariant behind the properties of Session: whose turn it *)
(* is to write, who counts in the regions, and what of Writer's and of     *)
(* Reader's invariants survives while writers take over from each other.   *)
(***************************************************************************)
EXTENDS Session, ReaderInvariant

Active(w) == stage[w] \in {"readIdx", "writeIdx", "seqNum", "live"}

(***************************************************************************)
(* m_HoldsOwnership is true just while its writer is active, one at most   *)
(* is, and the semaphore is down while one is; it stays down without one   *)
(* only when one died.                                                     *)
(***************************************************************************)
TurnInv ==
  /\ value \in {0, 1}
  /\ \A w \in Objects : holdsOwnership[w] <=> Active(w)
  /\ \A v, w \in Objects : Active(v) /\ Active(w) => v = w
  /\ value = 1 => \A w \in Objects : ~Active(w)
  /\ value = 0 /\ faults = 0 => \E w \in Objects : Active(w)

(* What of reference counts the failures leave behind only adds to them.   *)
UsersInv ==
  \A g \in Regions :
    /\ Cardinality(Mapping(g)) <= users[g]
    /\ faults = 0 => Cardinality(Mapping(g)) = users[g]

(* Of each reader, whatever stream it reads. *)
PresenceInv ==
  \A r \in Readers :
    /\ ~Live(r) => rPc[r] = "closed"
    /\ rPc[r] = "closed" => ~attached[r]
    /\ rPc[r] \in {"closed", "attach"} => ~synced[r]
    /\ rPc[r] # "idle" => ret[r] = "none"

----------------------------------------------------------------------------
(* The process-local state of a writer before its first message. *)
FreshWriter ==
  /\ log = <<>> /\ wPc = "idle"
  /\ wLocalIndex = 0 /\ wLocalSeqNum = 0 /\ nextElement = 0

(* A writer's constructor has begun the stream again, and has yet to store *)
(* the rest of State.                                                      *)
ResetInv ==
  \A w \in Objects :
    /\ stage[w] \in {"writeIdx", "seqNum"} => FreshWriter /\ readIdx = 0
    /\ stage[w] = "seqNum" => writeIdx = 0

(***************************************************************************)
(* There is no stream to go on with: State is half reset, or the buffer    *)
(* was mapped anew under an old State.  Nobody writes, and the readers     *)
(* attached wait where the next message would be.                          *)
(***************************************************************************)
WaitsAtEnd(r) == synced[r] \/ rPc[r] = "attach" => rNext[r] > Published

Interrupted ==
  /\ \A w \in Objects : ~Live(w)
  /\ readIdx = IndexAt(Published + 1)
  /\ \A r \in Readers : attached[r] => WaitsAtEnd(r)

StreamInv ==
  /\ ResetInv
  /\ WriterInv \/ Interrupted
  /\ \A r \in Readers : attached[r] => Follows(r)

(***************************************************************************)
(* The inductive invariant of Session.                                     *)
(***************************************************************************)
SessionInv ==
  /\ SessionTypeOK /\ (\A r \in Readers : ReadShape(r))
  /\ TurnInv /\ UsersInv /\ PresenceInv /\ StreamInv
=============================================================================

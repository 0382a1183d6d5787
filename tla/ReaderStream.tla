---------------------------- MODULE ReaderStream ----------------------------
(***************************************************************************)
(* The writer and its readers implement MessageStream.  A message is sent  *)
(* when Write reserves its bytes, and released when readIdx is stored; the *)
(* window is the safe window.                                              *)
(***************************************************************************)
EXTENDS Reader

SentSoFar == [k \in 1 .. Last |-> [message |-> Payload(k), before |-> Frame(k).seq]]

(* Of each reader: whether it follows the stream, and what it was told.    *)
Place(r) ==
  IF rPc[r] \in {"closed", "attach"} THEN "outside"
  ELSE IF KeptUp(r) THEN "following" ELSE "lost"

Told(r) == [what |-> ret[r], message |-> IF ret[r] = "message" THEN rData[r] ELSE <<>>]

Places == [r \in Readers |-> Place(r)]
Tales  == [r \in Readers |-> Told(r)]

Stream == INSTANCE MessageStream WITH
  Overhead <- HeaderSize,
  Window   <- SafeWindow,
  sent     <- SentSoFar,
  released <- Published,
  next     <- rNext,
  state    <- Places,
  result   <- Tales

(***************************************************************************)
(* Every behaviour of the writer and readers is one of the message stream: *)
(* in particular a reader is lost only at the store of writeIdx that       *)
(* reserves a whole window past the message it waits for, or by attaching  *)
(* while a message is being released.                                      *)
(***************************************************************************)
ImplementsMessageStream == Stream!StreamSpec
=============================================================================

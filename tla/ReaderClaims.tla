---------------------------- MODULE ReaderClaims ----------------------------
(***************************************************************************)
(* What the README and a comment say of Write, where the code does         *)
(* something else.  TLC finds it violated.                                 *)
(***************************************************************************)
EXTENDS Reader

(***************************************************************************)
(* README.md:110 and Writer.cpp:103: a message that wraps around is stored  *)
(* in two parts, the second the rest of the message.  The code copies as   *)
(* many bytes as the rest has, from the wrong place in the message         *)
(* (Writer.cpp:104-105).                                                   *)
(***************************************************************************)
WholeMessageIsStored ==
  wPc = "read" =>
    \A j \in 0 .. FrameLen(Frame(Last).size) - 1 :
      cell[FrameCell(Frame(Last).idx, j)] = <<Last, j>>
=============================================================================

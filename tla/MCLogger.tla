------------------------------ MODULE MCLogger ------------------------------
(* for TLC. *)
EXTENDS Logger, TLC

MCKinds ==
  {[text |-> "a", level |-> 0], [text |-> "a", level |-> 1], [text |-> "a", level |-> 3],
   [text |-> "b", level |-> 3]}

MCSinkLevel == [filter |-> 1, plain |-> 2, tcp |-> 2, behind |-> 3]

MCSymmetry == Permutations(Threads)
=============================================================================

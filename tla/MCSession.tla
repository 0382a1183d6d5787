----------------------------- MODULE MCSession -----------------------------
(* Interchangeable writers and a reader, for TLC. *)
EXTENDS Session, TLC

Interchangeable == Permutations(Objects)
=============================================================================

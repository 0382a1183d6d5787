------------------------------ MODULE MCReader ------------------------------
(* The writer and its readers, for TLC. *)
EXTENDS Reader
=============================================================================

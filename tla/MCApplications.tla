--------------------------- MODULE MCApplications ---------------------------
(* The programs of bin/, for TLC. *)
EXTENDS Applications
=============================================================================

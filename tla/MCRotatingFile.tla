--------------------------- MODULE MCRotatingFile ---------------------------
(* for TLC. *)
EXTENDS RotatingFile
=============================================================================

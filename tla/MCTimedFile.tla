---------------------------- MODULE MCTimedFile ----------------------------
(* for TLC. *)
EXTENDS TimedFile
=============================================================================

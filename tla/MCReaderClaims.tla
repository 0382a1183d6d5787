--------------------------- MODULE MCReaderClaims ---------------------------
(* The documented claim, for TLC. *)
EXTENDS ReaderClaims
=============================================================================

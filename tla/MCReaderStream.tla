--------------------------- MODULE MCReaderStream ---------------------------
(* The refinement, and the liveness it does not speak of, for TLC. *)
EXTENDS ReaderStream
=============================================================================

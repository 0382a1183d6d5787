--------------------------- MODULE MCSharedMemory ---------------------------
(* Interchangeable SharedMemory objects, for TLC. *)
EXTENDS SharedMemory, TLC

Interchangeable == Permutations(Objects)
=============================================================================

------------------------------- MODULE MCHeap -------------------------------
(***************************************************************************)
(* Heap.tla on a small heap, in units of 8 bytes: a header is 3 units      *)
(* (24 bytes), alignment and minimal split are 2 units (16 bytes).         *)
(***************************************************************************)
EXTENDS Heap
=============================================================================

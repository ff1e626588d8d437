------------------------------ MODULE MCHeap ------------------------------
(***************************************************************************)
(* A small instance of Heap.                                               *)
(***************************************************************************)
EXTENDS Heap
=============================================================================

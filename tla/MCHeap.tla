------------------------------- MODULE MCHeap -------------------------------
(* Heap of eleven units: up to nine blocks, empty ones included, and        *)
(* requests that fit exactly, leave a rest too small to split off, or find  *)
(* no block although enough is free in pieces.                              *)
EXTENDS Heap
=============================================================================

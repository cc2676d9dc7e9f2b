----------------------------- MODULE MCAllocators -----------------------------
(* A small instance of Allocators for TLC. *)
EXTENDS Allocators

CONSTANTS t1, t2, d1, d2

TwoBlocks == [d \in Descs |-> 2]
Symmetric == Permutations(Threads) \cup Permutations(Descs)
=============================================================================

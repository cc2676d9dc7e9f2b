------------------------------ MODULE MCTerminal ------------------------------
(* A small instance of Terminal for TLC. *)
EXTENDS Terminal

CONSTANTS r1, r2, w1, w2

Symmetric == Permutations(Readers) \cup Permutations(Writers)
=============================================================================

------------------------------- MODULE MCFiles -------------------------------
(* A small instance of Files for TLC. *)
EXTENDS Files

CONSTANTS p1, p2, s1, o1, o2

Symmetric == Permutations({p1, p2}) \cup Permutations({o1, o2})

(* What follows a race is not looked at; no property speaks of it. *)
NotRaced == ~raced
=============================================================================

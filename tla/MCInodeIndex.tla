----------------------------- MODULE MCInodeIndex -----------------------------
(* A small instance of InodeIndex for TLC. *)
EXTENDS InodeIndex, TLC

CONSTANTS f1, f2

Symmetric == Permutations({f1, f2})
=============================================================================

----------------------------- MODULE MCProcesses -----------------------------
(* Small instances of Processes for TLC. *)
EXTENDS Processes

CONSTANTS main, daemon, p1, p2

MCProcs4 == {main, daemon, p1, p2}
Symmetric == Permutations({p1, p2})
=============================================================================

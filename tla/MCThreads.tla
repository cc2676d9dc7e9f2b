------------------------------ MODULE MCThreads ------------------------------
(* Small instances of Threads for TLC. *)
EXTENDS Threads

CONSTANTS main, idle, t1, t2, s1, l1, c1

MCThreads4 == {main, idle, t1, t2}
MCCondLock == [c \in Conds |-> CHOOSE l \in Locks : TRUE]
Symmetric == Permutations({t1, t2})
=============================================================================

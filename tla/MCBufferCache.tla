---------------------------- MODULE MCBufferCache ----------------------------
(* Small instances of BufferCache for TLC. *)
EXTENDS BufferCache, TLC

CONSTANTS c1, c2, sA, sB, sC

Symmetric == Permutations(Clients) \cup Permutations(Sectors)

(* The data of one sector matters at a time. *)
OneWritten == Cardinality({s \in Sectors : content[s] # Zero \/ disk[s] # Zero}) <= 1

(***************************************************************************)
(* States that differ only in what no step and no property reads any more  *)
(* are one: the entry a client has used last, and what the copies of a     *)
(* suspect sector hold and should hold.                                    *)
(***************************************************************************)
Live ==
  <<cache_current_size, sector, is_used, is_dirty, is_using, lock, pc, call, wbVars, allocated,
    done, suspect,
    [c \in Clients |-> IF pc[c] = "idle" THEN 1 ELSE slot[c]],
    [i \in Slots |-> IF sector[i] \in suspect THEN Zero ELSE data[i]],
    [s \in Sectors |-> IF s \in suspect THEN <<Zero, Zero>> ELSE <<disk[s], content[s]>>]>>
=============================================================================

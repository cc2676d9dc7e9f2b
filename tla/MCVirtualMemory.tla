--------------------------- MODULE MCVirtualMemory ---------------------------
(* Small instances of VirtualMemory for TLC. *)
EXTENDS VirtualMemory

CONSTANTS p1, p2, code, top, low

(* One process uses a page of its executable, the other grows its stack. *)
MCPages == {<<p1, code>>, <<p1, top>>, <<p2, top>>, <<p2, low>>}

(***************************************************************************)
(* States that differ only in what no step and no property reads any more  *)
(* are one: the bits of a page that is not mapped, the slot of a page that *)
(* is not swapped, the contents of a slot that no page needs, the history  *)
(* of a page that does not exist, what a suspect page holds and should     *)
(* hold, and the request of a process that has none.                       *)
(***************************************************************************)
Live ==
  <<pc, file_type, loaded, is_swapped, pagedir, frame_table, free, swap_table,
    lock_frame, fte, slot, frame, broken,
    [g \in Pages |-> pagedir[g] # NULL /\ accessed[g]],
    [g \in Pages |-> pagedir[g] # NULL /\ dirty[g]],
    [g \in Pages |-> IF is_swapped[g] THEN swap_num[g] ELSE 0],
    [f \in Frames |-> IF \E g \in suspect : pagedir[g] = f THEN Zero ELSE mem[f]],
    [s \in SwapSlots |-> IF \/ slot = s /\ fte.page \notin suspect
                            \/ \E g \in Pages \ suspect : is_swapped[g] /\ swap_num[g] = s
                         THEN swap_device[s] ELSE Zero],
    [g \in Pages |-> CASE file_type[g] = "none" -> "none"
                       [] g \in suspect -> "suspect"
                       [] OTHER -> content[g]],
    [p \in Procs |-> IF pc[p] \in {"evict", "fill", "again"} THEN <<want[p], caller[p]>>
                     ELSE <<NULL, "none">>]>>
=============================================================================

------------------------------ MODULE Allocators ------------------------------
(***************************************************************************)
(* The page allocator (threads/palloc.c) on its bitmaps                    *)
(* (lib/kernel/bitmap.c), and the block allocator (threads/malloc.c) on    *)
(* the page allocator.                                                     *)
(*                                                                         *)
(* Pages are numbered through both pools.  A bitmap is the set of its bits *)
(* that are set.  palloc_get_multiple() holds the lock of the pool while   *)
(* it scans and sets bits, palloc_free_multiple() takes no lock and clears *)
(* them one by one; malloc() and free() hold the lock of the descriptor.   *)
(* A block is a page, the arena, and an index in it.  Callers free what    *)
(* they have got, once.                                                    *)
(***************************************************************************)
EXTENDS Integers, Sequences, FiniteSets, SequencesExt

CONSTANTS
  Threads,
  KernelPages, UserPages,   \* the number of pages in the pools
  Descs,                    \* descriptors
  BlocksPerArena,           \* blocks_per_arena of each
  MaxHeld,                  \* bound on what a thread has allocated
  NULL

ASSUME AllocatorsAssumption ==
  /\ {KernelPages, UserPages} \subseteq Nat
  /\ BlocksPerArena \in [Descs -> Nat \ {0}]
  /\ NULL \notin Threads \cup Descs

Pools == {"kernel", "user"}
PoolStart(pool) == IF pool = "kernel" THEN 0 ELSE KernelPages
PoolSize(pool)  == IF pool = "kernel" THEN KernelPages ELSE UserPages
Pages == 0 .. KernelPages + UserPages - 1

VARIABLES
  used_map,       \* the bits that are set, of both pools
  pool_lock,      \* holder of the lock of a pool
  arena,          \* the header at the start of a page
  free_list, desc_lock,   \* of a descriptor
  held,           \* what a thread has been given: blocks, big blocks, groups of pages
  c               \* where a thread is

pageVars  == <<used_map, pool_lock>>
blockVars == <<arena, free_list, desc_lock>>
vars == <<pageVars, blockVars, held, c>>

NoArena == [desc |-> NULL, free_cnt |-> 0]
Idle == [at |-> "idle", why |-> "none", pool |-> "kernel", page |-> 0, cnt |-> 0, desc |-> NULL,
         old |-> NULL]

(* What a thread can have: a block of an arena, or pages. *)
Block(page, i)       == [kind |-> "block", page |-> page, index |-> i]
Group(kind, page, n) == [kind |-> kind, page |-> page, index |-> n]

Init ==
  /\ used_map = {}
  /\ pool_lock = [pool \in Pools |-> NULL]
  /\ arena = [page \in Pages |-> NoArena]
  /\ free_list = [d \in Descs |-> <<>>]
  /\ desc_lock = [d \in Descs |-> NULL]
  /\ held = [t \in Threads |-> {}]
  /\ c = [t \in Threads |-> Idle]

At(t, place) == c[t].at = place
Goto(t, place) == c' = [c EXCEPT ![t].at = place]

-----------------------------------------------------------------------------
(* Bitmaps: the bits from start on. *)
Bits(start, cnt) == start .. start + cnt - 1
bitmap_contains(start, cnt, value) == \E i \in Bits(start, cnt) : (i \in used_map) = value
bitmap_all(start, cnt) == ~bitmap_contains(start, cnt, FALSE)

(* Mutant of bitmap_scan: only the first bit of a group is tested. *)
bitmap_scan_first(pool, cnt) ==
  {i \in PoolStart(pool) .. PoolStart(pool) + PoolSize(pool) - cnt :
     /\ ~bitmap_contains(i, 1, TRUE)
     /\ \A j \in PoolStart(pool) .. i - 1 : bitmap_contains(j, 1, TRUE)}

(* bitmap_scan(): the first group of clear bits, if there is one. *)
bitmap_scan(pool, cnt) ==
  {i \in PoolStart(pool) .. PoolStart(pool) + PoolSize(pool) - cnt :
     /\ ~bitmap_contains(i, cnt, TRUE)
     /\ \A j \in PoolStart(pool) .. i - 1 : bitmap_contains(j, cnt, TRUE)}

page_from_pool(pool, page) == page \in Bits(PoolStart(pool), PoolSize(pool))
PoolOf(page) == CHOOSE pool \in Pools : page_from_pool(pool, page)

-----------------------------------------------------------------------------
(***************************************************************************)
(* palloc_get_multiple(), called for pages, for a big block or for an      *)
(* arena.                                                                  *)
(***************************************************************************)
PallocGet(t, pool, cnt) ==
  /\ At(t, "idle") /\ Cardinality(held[t]) < MaxHeld
  /\ c' = [c EXCEPT ![t] = [Idle EXCEPT !.at = "palloc", !.why = "pages", !.pool = pool, !.cnt = cnt]]
  /\ UNCHANGED <<pageVars, blockVars, held>>

Scan(t) ==
  /\ At(t, "palloc") /\ pool_lock[c[t].pool] = NULL
  /\ LET found == bitmap_scan(c[t].pool, c[t].cnt)
     IN  \/ \E i \in found :
              /\ pool_lock' = [pool_lock EXCEPT ![c[t].pool] = t]
              /\ c' = [c EXCEPT ![t].at = "flip", ![t].page = i]
         \/ found = {} /\ Goto(t, "none") /\ UNCHANGED pool_lock
  /\ UNCHANGED <<used_map, blockVars, held>>

Flip(t) ==
  /\ At(t, "flip")
  /\ used_map' = used_map \cup Bits(c[t].page, c[t].cnt)
  /\ pool_lock' = [pool_lock EXCEPT ![c[t].pool] = NULL]
  /\ Goto(t, "got")
  /\ UNCHANGED <<blockVars, held>>

GotPages(t) ==
  /\ At(t, "got") /\ c[t].why = "pages"
  /\ held' = [held EXCEPT ![t] = @ \cup {Group("pages", c[t].page, c[t].cnt)}]
  /\ c' = [c EXCEPT ![t] = Idle]
  /\ UNCHANGED <<pageVars, blockVars>>

(* palloc_free_multiple(): the pages are filled, then the bits cleared. *)
PallocFree(t, group) ==
  /\ At(t, "idle") /\ group \in held[t] /\ group.kind = "pages"
  /\ held' = [held EXCEPT ![t] = @ \ {group}]
  /\ c' = [c EXCEPT ![t] = [Idle EXCEPT !.at = "clear", !.pool = PoolOf(group.page),
                                             !.page = group.page, !.cnt = group.index]]
  /\ arena' = [page \in Pages |-> IF page \in Bits(group.page, group.index) THEN NoArena ELSE arena[page]]
  /\ UNCHANGED <<pageVars, free_list, desc_lock>>

(* bitmap_set_multiple(): one bit.  The last one ends the call, or goes    *)
(* back to free(), which still has the lock of the descriptor.             *)
Clear(t) ==
  /\ At(t, "clear")
  /\ used_map' = used_map \ {c[t].page}
  /\ c' = [c EXCEPT ![t] =
             IF c[t].cnt > 1 THEN [@ EXCEPT !.page = @ + 1, !.cnt = @ - 1]
             ELSE IF c[t].desc = NULL THEN Idle ELSE [@ EXCEPT !.at = "freed"]]
  /\ UNCHANGED <<pool_lock, blockVars, held>>

-----------------------------------------------------------------------------
(***************************************************************************)
(* malloc(): of a block, or of more than fits in one.  calloc() is the     *)
(* same; realloc() of `old' frees it when it has got the new block.        *)
(***************************************************************************)
MallocSmall(t, d, old) ==
  /\ At(t, "idle") /\ Cardinality(held[t]) < MaxHeld
  /\ desc_lock[d] = NULL
  /\ desc_lock' = [desc_lock EXCEPT ![d] = t]
  /\ LET call == [Idle EXCEPT !.why = "arena", !.cnt = 1, !.desc = d, !.old = old]
     IN  c' = [c EXCEPT ![t] = [call EXCEPT !.at = IF free_list[d] = <<>> THEN "palloc" ELSE "pop"]]
  /\ UNCHANGED <<pageVars, arena, free_list, held>>

MallocBig(t, cnt, old) ==
  /\ At(t, "idle") /\ Cardinality(held[t]) < MaxHeld
  /\ c' = [c EXCEPT ![t] = [Idle EXCEPT !.at = "palloc", !.why = "big", !.cnt = cnt, !.old = old]]
  /\ UNCHANGED <<pageVars, blockVars, held>>

(* No page is free: malloc() returns NULL, and realloc() keeps the old block. *)
GotNone(t) ==
  /\ At(t, "none")
  /\ desc_lock' = IF c[t].why = "arena" THEN [desc_lock EXCEPT ![c[t].desc] = NULL] ELSE desc_lock
  /\ c' = [c EXCEPT ![t] = Idle]
  /\ UNCHANGED <<pageVars, arena, free_list, held>>

(* After the call, or on to free() in realloc(). *)
Then(t) == [Idle EXCEPT !.at = IF c[t].old = NULL THEN "idle" ELSE "free", !.old = c[t].old]

GotBig(t) ==
  /\ At(t, "got") /\ c[t].why = "big"
  /\ arena' = [arena EXCEPT ![c[t].page] = [desc |-> NULL, free_cnt |-> c[t].cnt]]
  /\ held' = [held EXCEPT ![t] = @ \cup {Group("big", c[t].page, c[t].cnt)}]
  /\ c' = [c EXCEPT ![t] = Then(t)]
  /\ UNCHANGED <<pageVars, free_list, desc_lock>>

(* The new arena and its blocks. *)
GotArena(t) ==
  /\ At(t, "got") /\ c[t].why = "arena"
  /\ LET d == c[t].desc
         n == BlocksPerArena[d]
     IN  /\ arena' = [arena EXCEPT ![c[t].page] = [desc |-> d, free_cnt |-> n]]
         /\ free_list' = [free_list EXCEPT ![d] = @ \o [i \in 1 .. n |-> Block(c[t].page, i - 1)]]
  /\ Goto(t, "pop")
  /\ UNCHANGED <<pageVars, desc_lock, held>>

Pop(t) ==
  /\ At(t, "pop")
  /\ LET d == c[t].desc
         b == Head(free_list[d])
     IN  /\ free_list' = [free_list EXCEPT ![d] = Tail(@)]
         /\ arena' = [arena EXCEPT ![b.page].free_cnt = @ - 1]
         /\ desc_lock' = [desc_lock EXCEPT ![d] = NULL]
         /\ held' = [held EXCEPT ![t] = @ \cup {b}]
  /\ c' = [c EXCEPT ![t] = Then(t)]
  /\ UNCHANGED pageVars

(* free(): the arena tells what kind of block it is. *)
Free(t, b) ==
  /\ At(t, "idle") /\ b \in held[t] /\ b.kind # "pages"
  /\ c' = [c EXCEPT ![t] = [Idle EXCEPT !.at = "free", !.old = b]]
  /\ UNCHANGED <<pageVars, blockVars, held>>

FreeBig(t) ==
  /\ At(t, "free")
  /\ LET b == c[t].old
         a == arena[b.page]
     IN  /\ a.desc = NULL
         /\ held' = [held EXCEPT ![t] = @ \ {b}]
         /\ arena' = [arena EXCEPT ![b.page] = NoArena]
         /\ c' = [c EXCEPT ![t] = [Idle EXCEPT !.at = "clear", !.page = b.page, !.cnt = a.free_cnt]]
  /\ UNCHANGED <<pageVars, free_list, desc_lock>>

(* Mutant of FreeBlock: the blocks of an arena that is freed stay on the list. *)
FreeBlockListed(t) ==
  /\ At(t, "free")
  /\ LET b == c[t].old
         d == arena[b.page].desc
         cnt == arena[b.page].free_cnt + 1
         empty == cnt >= BlocksPerArena[d]
     IN  /\ d # NULL /\ desc_lock[d] = NULL
         /\ desc_lock' = [desc_lock EXCEPT ![d] = t]
         /\ held' = [held EXCEPT ![t] = @ \ {b}]
         /\ free_list' = [free_list EXCEPT ![d] = <<b>> \o @]
         /\ arena' = [arena EXCEPT ![b.page] = IF empty THEN NoArena ELSE [@ EXCEPT !.free_cnt = cnt]]
         /\ c' = [c EXCEPT ![t] = [Idle EXCEPT !.at = IF empty THEN "clear" ELSE "freed",
                                               !.page = b.page, !.cnt = 1, !.desc = d]]
  /\ UNCHANGED pageVars

(* A block goes on the free list; an arena with no block in use is freed. *)
FreeBlock(t) ==
  /\ At(t, "free")
  /\ LET b == c[t].old
         d == arena[b.page].desc
         list == <<b>> \o free_list[d]
         cnt == arena[b.page].free_cnt + 1
         empty == cnt >= BlocksPerArena[d]
     IN  /\ d # NULL /\ desc_lock[d] = NULL
         /\ desc_lock' = [desc_lock EXCEPT ![d] = t]
         /\ held' = [held EXCEPT ![t] = @ \ {b}]
         /\ free_list' = [free_list EXCEPT ![d] =
                            IF empty THEN SelectSeq(list, LAMBDA x : x.page # b.page) ELSE list]
         /\ arena' = [arena EXCEPT ![b.page] = IF empty THEN NoArena ELSE [@ EXCEPT !.free_cnt = cnt]]
         /\ c' = [c EXCEPT ![t] = [Idle EXCEPT !.at = IF empty THEN "clear" ELSE "freed",
                                               !.page = b.page, !.cnt = 1, !.desc = d]]
  /\ UNCHANGED pageVars

Freed(t) ==
  /\ At(t, "freed")
  /\ desc_lock' = [desc_lock EXCEPT ![c[t].desc] = NULL]
  /\ c' = [c EXCEPT ![t] = Idle]
  /\ UNCHANGED <<pageVars, arena, free_list, held>>

-----------------------------------------------------------------------------
Step(t) ==
  \/ Scan(t) \/ Flip(t) \/ GotPages(t) \/ Clear(t) \/ GotNone(t) \/ GotBig(t) \/ GotArena(t)
  \/ Pop(t) \/ FreeBig(t) \/ FreeBlock(t) \/ Freed(t)

Next ==
  \E t \in Threads :
    \/ Step(t)
    \/ \E pool \in Pools, cnt \in 1 .. 2 : PallocGet(t, pool, cnt)
    \/ \E old \in {b \in held[t] : b.kind # "pages"} \cup {NULL} :
         \/ \E d \in Descs : MallocSmall(t, d, old)
         \/ MallocBig(t, 2, old)
    \/ \E b \in held[t] : PallocFree(t, b) \/ Free(t, b)

Spec == Init /\ [][Next]_vars

-----------------------------------------------------------------------------
(* The pages of a thread: given to it, or on their way to or from it. *)
GroupPages(t) == UNION {Bits(g.page, g.index) : g \in {h \in held[t] : h.kind # "block"}}
PassingPages(t) == IF c[t].at \in {"flip", "got", "clear"} THEN Bits(c[t].page, c[t].cnt) ELSE {}
ArenaPages == {p \in Pages : arena[p].desc # NULL}

Disjoint(family) == \A x, y \in family : x[1] = y[1] \/ x[2] \cap y[2] = {}

(***************************************************************************)
(* A page is in one hand: no page is given to two threads, or to a thread  *)
(* and to an arena, at any moment of the two allocators, and the bitmaps   *)
(* have exactly the pages that are in somebody's hands, so that those of a *)
(* group that is freed are all set, as palloc_free_multiple() asserts.     *)
(***************************************************************************)
PagesInv ==
  LET groups == {<<t, GroupPages(t) \cup PassingPages(t)>> : t \in Threads}
      flipping == UNION {PassingPages(t) : t \in {u \in Threads : At(u, "flip")}}
      all == ArenaPages \cup UNION {g[2] : g \in groups}
  IN  /\ Disjoint(groups \cup {<<NULL, ArenaPages>>})
      /\ used_map = all \ flipping
      /\ \A t \in Threads : At(t, "clear") => bitmap_all(c[t].page, c[t].cnt)
      /\ \A t \in Threads, g, h \in UNION {held[u] : u \in Threads} :
           g \in held[t] /\ h \in held[t] /\ g # h /\ "block" \notin {g.kind, h.kind} =>
             Bits(g.page, g.index) \cap Bits(h.page, h.index) = {}

(***************************************************************************)
(* A block of an arena is on the free list or with one thread, free_cnt    *)
(* says how many are on the list, and an arena none of whose blocks is in  *)
(* use does not stay.                                                      *)
(***************************************************************************)
BlocksInv ==
  /\ \A d \in Descs :
       /\ IsInjective(free_list[d])
       /\ \A b \in Range(free_list[d]) : arena[b.page].desc = d
  /\ \A p \in ArenaPages :
       LET d == arena[p].desc
           free == {b \in Range(free_list[d]) : b.page = p}
           out(t) == {b \in held[t] : b.kind = "block" /\ b.page = p}
       IN  /\ arena[p].free_cnt = Cardinality(free)
           /\ free \cup UNION {out(t) : t \in Threads} = {Block(p, i) : i \in 0 .. BlocksPerArena[d] - 1}
           /\ \A t, u \in Threads : t # u => out(t) \cap out(u) = {}
           /\ \A t \in Threads : out(t) \cap free = {}
           /\ desc_lock[d] = NULL => arena[p].free_cnt < BlocksPerArena[d]
=============================================================================

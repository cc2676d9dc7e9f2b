---------------------------- MODULE VirtualMemory ----------------------------
(***************************************************************************)
(* Demand paging: the frame table and its second-chance eviction           *)
(* (vm/frame.c), the supplemental page table and what brings a page in     *)
(* (vm/page.c), swap slots (vm/swap.c), and those who call them:           *)
(* page_fault(), check_page(), load_segment(), setup_stack() and           *)
(* process_exit().                                                         *)
(*                                                                         *)
(* lock_frame is held while a page is brought in.  User programs run       *)
(* meanwhile and touch their pages, the victim too, and process_exit()     *)
(* frees pages without the lock.  What the holder of the lock does without *)
(* waiting for a disk is one action.                                       *)
(*                                                                         *)
(* A page is a process and a virtual address; its data is one value.       *)
(* Memory-mapped files and failures of malloc() are left out.              *)
(***************************************************************************)
EXTENDS Integers, FiniteSetsExt, SequencesExt

CONSTANTS
  Procs,
  Pages,            \* the pages <<process, virtual page>> that processes use
  Segment,          \* virtual pages that load_segment() enters
  StackTop,         \* the page of the stack that setup_stack() maps
  NumFrames,        \* size of the user pool
  NumSlots,         \* size of the swap disk
  Data,             \* contents that programs write to a page
  FileData,         \* contents of a page of an executable
  Zero, Freed,      \* what palloc fills pages with: PAL_ZERO, and 0xcc when freed
  NULL

ASSUME VMAssumption ==
  /\ \A g \in Pages : g = <<g[1], g[2]>> /\ g[1] \in Procs
  /\ \A p \in Procs : <<p, StackTop>> \in Pages
  /\ StackTop \notin Segment
  /\ NumFrames \in Nat \ {0}
  /\ NumSlots \in Nat
  /\ NULL \notin Procs \cup Pages

Frames == 1 .. NumFrames
SwapSlots == 1 .. NumSlots
Values == Data \cup {FileData, Zero, Freed}

Owner(g) == g[1]
IsStack(g) == g[2] \notin Segment

VARIABLES
  pc,                                       \* where a process is
  file_type, loaded, is_swapped, swap_num,  \* sup_page_table_entry members
  pagedir, accessed, dirty,                 \* page table entries
  frame_table,                              \* sequence of [frame, page]
  free,                                     \* free frames of the user pool
  mem,                                      \* contents of the frames
  swap_table,                               \* swap slots in use
  swap_device,                              \* contents of the swap slots
  lock_frame,                               \* its holder
  want,                                     \* the page a process needs
  caller,                                   \* ... and who asks for it
  fte, slot, frame,                         \* the holder's variables
  broken,                                   \* the kernel panics or uses freed memory
  content,                                  \* history: what pages should hold
  suspect                                   \* history: pages whose last write was to a victim

sptVars  == <<file_type, loaded, is_swapped, swap_num>>
pteVars  == <<pagedir, accessed, dirty>>
swapVars == <<swap_table, swap_device>>
holderVars == <<want, caller, fte, slot, frame>>
vars == <<pc, sptVars, pteVars, frame_table, free, mem, swapVars, lock_frame,
          holderVars, broken, content, suspect>>

(***************************************************************************)
(* A process is "dead" (not started, or gone), about to call setup_stack() *)
(* ("load"), runs as "user", brings a page in as the holder of lock_frame  *)
(* ("evict" while the victim is written out, "fill" while the new page is  *)
(* read), is about to call grow_stack() "again" in check_page(), waits in  *)
(* process_exit() for the lock ("exit") or frees its pages ("freeing").    *)
(***************************************************************************)
Holding == {"evict", "fill"}
Places == {"dead", "load", "user", "again", "exit", "freeing"} \cup Holding

(* Those who call page_handling() or grow_stack(). *)
Callers == {"setup_stack", "page_fault", "check_page", "check_page_again"}

Entries == [frame : Frames, page : Pages]

(* A null pointer is neither a frame nor an entry of the frame table. *)
ASSUME NullAssumption == NULL \notin Frames \cup Entries

(* The variables hold what their C types and their uses allow. *)
TypeOK ==
  /\ pc \in [Procs -> Places]
  /\ file_type \in [Pages -> {"none", "file", "swap"}]
  /\ loaded \in [Pages -> BOOLEAN]
  /\ is_swapped \in [Pages -> BOOLEAN]
  /\ swap_num \in [Pages -> SwapSlots \cup {0}]
  /\ pagedir \in [Pages -> Frames \cup {NULL}]
  /\ accessed \in [Pages -> BOOLEAN]
  /\ dirty \in [Pages -> BOOLEAN]
  /\ frame_table \in Seq(Entries)
  /\ free \subseteq Frames
  /\ mem \in [Frames -> Values]
  /\ swap_table \subseteq SwapSlots
  /\ swap_device \in [SwapSlots -> Values]
  /\ lock_frame \in Procs \cup {NULL}
  /\ want \in [Procs -> Pages \cup {NULL}]
  /\ caller \in [Procs -> Callers]
  /\ fte \in Entries \cup {NULL}
  /\ slot \in SwapSlots \cup {0}
  /\ frame \in Frames \cup {NULL}
  /\ broken \in BOOLEAN
  /\ content \in [Pages -> Values]
  /\ suspect \subseteq Pages

Init ==
  /\ pc = [p \in Procs |-> "dead"]
  /\ file_type = [g \in Pages |-> "none"]
  /\ loaded = [g \in Pages |-> FALSE]
  /\ is_swapped = [g \in Pages |-> FALSE]
  /\ swap_num = [g \in Pages |-> 0]
  /\ pagedir = [g \in Pages |-> NULL]
  /\ accessed = [g \in Pages |-> FALSE]
  /\ dirty = [g \in Pages |-> FALSE]
  /\ frame_table = <<>>
  /\ free = Frames
  /\ mem = [f \in Frames |-> Freed]
  /\ swap_table = {}
  /\ swap_device = [s \in SwapSlots |-> Zero]
  /\ lock_frame = NULL
  /\ want = [p \in Procs |-> NULL]
  /\ caller = [p \in Procs |-> "page_fault"]
  /\ fte = NULL
  /\ slot = 0
  /\ frame = NULL
  /\ broken = FALSE
  /\ content = [g \in Pages |-> FileData]
  /\ suspect = {}

Goto(p, place) == pc' = [pc EXCEPT ![p] = place]

(* find_page(): the supplemental page table has an entry for the page. *)
find_page(g) == file_type[g] # "none"

(* allocate_page() and page_insert(). *)
InsertPage(g, type) == file_type' = [file_type EXCEPT ![g] = type]

pagedir_set_page(g, f) ==
  /\ pagedir' = [pagedir EXCEPT ![g] = f]
  /\ accessed' = [accessed EXCEPT ![g] = FALSE]
  /\ dirty' = [dirty EXCEPT ![g] = FALSE]

(* Accessed and dirty bit stay as they are. *)
pagedir_clear_page(g) == pagedir' = [pagedir EXCEPT ![g] = NULL]

(* free_frame(): the entry of the frame goes, and the frame is free. *)
free_frame(f) ==
  LET found(e) == e.frame = f
  IN  /\ frame_table' = RemoveFirstMatch(frame_table, found)
      /\ free' = free \cup {f}
      /\ mem' = [mem EXCEPT ![f] = Freed]

-----------------------------------------------------------------------------
(* load_segment() enters the pages of the executable, none of them loaded. *)
Start(p) ==
  /\ ~broken
  /\ pc[p] = "dead"
  /\ lock_frame = NULL
  /\ file_type' = [g \in Pages |->
                     IF Owner(g) = p /\ ~IsStack(g) THEN "file" ELSE file_type[g]]
  /\ content' = [g \in Pages |-> IF Owner(g) = p THEN FileData ELSE content[g]]
  /\ suspect' = {g \in suspect : Owner(g) # p}
  /\ Goto(p, "load")
  /\ UNCHANGED <<loaded, is_swapped, swap_num, pteVars, frame_table, free, mem,
                 swapVars, lock_frame, holderVars, broken>>

(* The program reads a page that is present. *)
Read(g) ==
  /\ ~broken
  /\ pc[Owner(g)] = "user"
  /\ pagedir[g] # NULL
  /\ accessed' = [accessed EXCEPT ![g] = TRUE]
  /\ UNCHANGED <<pc, sptVars, pagedir, dirty, frame_table, free, mem, swapVars,
                 lock_frame, holderVars, broken, content, suspect>>

(* The program writes to it; a write to the victim of an eviction is lost. *)
Write(g, v) ==
  /\ ~broken
  /\ pc[Owner(g)] = "user"
  /\ pagedir[g] # NULL
  /\ accessed' = [accessed EXCEPT ![g] = TRUE]
  /\ dirty' = [dirty EXCEPT ![g] = TRUE]
  /\ mem' = [mem EXCEPT ![pagedir[g]] = v]
  /\ content' = [content EXCEPT ![g] = v]
  /\ suspect' = IF fte # NULL /\ fte.page = g THEN suspect \cup {g} ELSE suspect \ {g}
  /\ UNCHANGED <<pc, sptVars, pagedir, frame_table, free, swapVars, lock_frame,
                 holderVars, broken>>

-----------------------------------------------------------------------------
(***************************************************************************)
(* The owner of page g takes lock_frame to bring it in: setup_stack() for  *)
(* the top of the stack; page_fault() and check_page() for a page that is  *)
(* not present and that find_page() finds or the stack may grow to (they   *)
(* differ for the stack only); and grow_stack() in check_page(), which is  *)
(* called for a page of the stack even if page_handling() has just brought *)
(* it in.                                                                  *)
(***************************************************************************)
Needs(g, who) ==
  LET p == Owner(g)
  IN  /\ ~broken
      /\ lock_frame = NULL
      /\ \/ pc[p] = "load" /\ g[2] = StackTop /\ who = "setup_stack"
         \/ /\ pc[p] = "user" /\ pagedir[g] = NULL
            /\ who = "page_fault" \/ (who = "check_page" /\ IsStack(g))
         \/ pc[p] = "again" /\ want[p] = g /\ who = "check_page_again"
      /\ find_page(g) \/ IsStack(g)
      /\ lock_frame' = p
      /\ want' = [want EXCEPT ![p] = g]
      /\ caller' = [caller EXCEPT ![p] = who]

(* palloc_get_page() and the new entry of allocate_frame(). *)
TakeFrame(g, pool, table) ==
  /\ frame' = Min(pool)
  /\ free' = pool \ {Min(pool)}
  /\ frame_table' = Append(table, [frame |-> Min(pool), page |-> g])
  /\ Goto(Owner(g), "fill")

(* allocate_frame() when there is a free frame. *)
AllocateFrame(g, who) ==
  /\ Needs(g, who)
  /\ free # {}
  /\ TakeFrame(g, free, frame_table)
  /\ UNCHANGED <<sptVars, pteVars, mem, swapVars, fte, slot, broken, content, suspect>>

(***************************************************************************)
(* evict_frame(): the first pass clears accessed bits until it finds a     *)
(* page that was not accessed; if it finds none, all bits are clear and    *)
(* the second pass takes the first entry.                                  *)
(***************************************************************************)
Unaccessed == {i \in DOMAIN frame_table : ~accessed[frame_table[i].page]}

VictimIndex == IF Unaccessed # {} THEN Min(Unaccessed) ELSE 1

AccessedAfterScan ==
  LET passed == {frame_table[i].page : i \in IF Unaccessed # {} THEN 1 .. VictimIndex
                                             ELSE DOMAIN frame_table}
  IN  [g \in Pages |-> accessed[g] /\ g \notin passed]

(* Mutant of MustSwap: a page from the swap disk counts as clean. *)
DirtyOnly(g) == dirty[g]

(* A page that a file cannot give back goes to the swap disk. *)
MustSwap(g) == dirty[g] \/ file_type[g] = "swap"

Evicts(g, who) ==
  /\ Needs(g, who)
  /\ free = {}
  /\ frame_table # <<>>
  /\ fte' = frame_table[VictimIndex]
  /\ accessed' = AccessedAfterScan
  /\ Goto(Owner(g), "evict")
  /\ UNCHANGED <<loaded, is_swapped, swap_num, pagedir, dirty, frame_table, free, mem,
                 frame, content, suspect>>

EvictClean(g, who) ==
  /\ Evicts(g, who)
  /\ ~MustSwap(frame_table[VictimIndex].page)
  /\ slot' = 0
  /\ UNCHANGED <<file_type, swapVars, broken>>

(* Mutant of SwapOut: the slot is not marked. *)
SwapOutUnmarked(g, who) ==
  /\ Evicts(g, who)
  /\ LET victim == frame_table[VictimIndex]
         unused == SwapSlots \ swap_table
     IN  /\ MustSwap(victim.page)
         /\ unused # {}
         /\ file_type' = [file_type EXCEPT ![victim.page] = "swap"]
         /\ slot' = Min(unused)
         /\ swap_table' = swap_table
         /\ swap_device' = [swap_device EXCEPT ![Min(unused)] = mem[victim.frame]]
  /\ UNCHANGED broken

(* swap_out(): the first free slot gets the page. *)
SwapOut(g, who) ==
  /\ Evicts(g, who)
  /\ LET victim == frame_table[VictimIndex]
         unused == SwapSlots \ swap_table
     IN  /\ MustSwap(victim.page)
         /\ unused # {}
         /\ file_type' = [file_type EXCEPT ![victim.page] = "swap"]
         /\ slot' = Min(unused)
         /\ swap_table' = swap_table \cup {Min(unused)}
         /\ swap_device' = [swap_device EXCEPT ![Min(unused)] = mem[victim.frame]]
  /\ UNCHANGED broken

(* get_empty_sector_num(): PANIC("bitmap full"). *)
SwapFull(g, who) ==
  /\ Evicts(g, who)
  /\ MustSwap(frame_table[VictimIndex].page)
  /\ SwapSlots \subseteq swap_table
  /\ broken' = TRUE
  /\ slot' = 0
  /\ UNCHANGED <<file_type, swapVars>>

(* Mutant of EvictDone: the victim stays mapped. *)
EvictDoneMapped(p) ==
  /\ ~broken
  /\ pc[p] = "evict"
  /\ fte \in Range(frame_table)
  /\ LET g == fte.page
     IN  /\ is_swapped' = [is_swapped EXCEPT ![g] = @ \/ slot # 0]
         /\ swap_num' = [swap_num EXCEPT ![g] = IF slot # 0 THEN slot ELSE @]
         /\ pagedir' = pagedir
         /\ loaded' = [loaded EXCEPT ![g] = FALSE]
  /\ mem' = [mem EXCEPT ![fte.frame] = Freed]
  /\ TakeFrame(want[p], free \cup {fte.frame}, RemoveFirst(frame_table, fte))
  /\ fte' = NULL
  /\ slot' = 0
  /\ UNCHANGED <<file_type, accessed, dirty, swapVars, lock_frame, want,
                 caller, broken, content, suspect>>

(* The rest of evict_frame(), and palloc_get_page() again. *)
EvictDone(p) ==
  /\ ~broken
  /\ pc[p] = "evict"
  /\ fte \in Range(frame_table)
  /\ LET g == fte.page
     IN  /\ is_swapped' = [is_swapped EXCEPT ![g] = @ \/ slot # 0]
         /\ swap_num' = [swap_num EXCEPT ![g] = IF slot # 0 THEN slot ELSE @]
         /\ pagedir_clear_page(g)
         /\ loaded' = [loaded EXCEPT ![g] = FALSE]
  /\ mem' = [mem EXCEPT ![fte.frame] = Freed]
  /\ TakeFrame(want[p], free \cup {fte.frame}, RemoveFirst(frame_table, fte))
  /\ fte' = NULL
  /\ slot' = 0
  /\ UNCHANGED <<file_type, accessed, dirty, swapVars, lock_frame, want,
                 caller, broken, content, suspect>>

(***************************************************************************)
(* process_exit() of the owner has freed the entry: its pointers now lead  *)
(* nowhere, and the holder faults with lock_frame in its hands.            *)
(***************************************************************************)
EvictFreed(p) ==
  /\ ~broken
  /\ pc[p] = "evict"
  /\ fte \notin Range(frame_table)
  /\ broken' = TRUE
  /\ UNCHANGED <<pc, sptVars, pteVars, frame_table, free, mem, swapVars, lock_frame,
                 holderVars, content, suspect>>

-----------------------------------------------------------------------------
(***************************************************************************)
(* The page is installed and the lock released; check_page() goes on to    *)
(* grow_stack() when page_handling() is done.                              *)
(***************************************************************************)
Fills(p, data) ==
  LET g == want[p]
  IN  /\ ~broken
      /\ pc[p] = "fill"
      /\ caller[p] # "check_page_again"
      /\ pagedir_set_page(g, frame)
      /\ loaded' = [loaded EXCEPT ![g] = TRUE]
      /\ mem' = [mem EXCEPT ![frame] = data]
      /\ frame' = NULL
      /\ lock_frame' = NULL
      /\ Goto(p, IF caller[p] = "check_page" /\ find_page(g) /\ IsStack(g)
                 THEN "again" ELSE "user")
      /\ UNCHANGED <<swap_num, frame_table, free, want, caller, fte, slot, swap_device,
                     broken, suspect>>

(* file_handling(). *)
FileHandling(p) ==
  /\ pc[p] = "fill"
  /\ file_type[want[p]] = "file"
  /\ Fills(p, FileData)
  /\ UNCHANGED <<file_type, is_swapped, swap_table, content>>

(* swap_in(): the frame gets the contents of the slot, and the slot is free. *)
SwappedIn(g) == swap_device[swap_num[g]]

swap_in(g) == swap_table' = swap_table \ {swap_num[g]}

(* swap_handling(). *)
SwapHandling(p) ==
  LET g == want[p]
  IN  /\ pc[p] = "fill"
      /\ file_type[g] = "swap"
      /\ Fills(p, IF is_swapped[g] THEN SwappedIn(g) ELSE mem[frame])
      /\ is_swapped' = [is_swapped EXCEPT ![g] = FALSE]
      /\ IF is_swapped[g] THEN swap_in(g) ELSE UNCHANGED swap_table
      /\ UNCHANGED <<file_type, content>>

(***************************************************************************)
(* grow_stack(): PAL_ZERO clears the page of setup_stack(); any other page *)
(* starts with what the frame happens to hold.                             *)
(***************************************************************************)
GrowStack(p) ==
  LET data == IF caller[p] = "setup_stack" THEN Zero ELSE mem[frame]
  IN  /\ pc[p] = "fill"
      /\ ~find_page(want[p])
      /\ Fills(p, data)
      /\ InsertPage(want[p], "swap")
      /\ content' = [content EXCEPT ![want[p]] = data]
      /\ UNCHANGED <<is_swapped, swap_table>>

(***************************************************************************)
(* grow_stack() for a page that exists.  If the page is present,           *)
(* install_page() fails, the frame is freed and check_page() calls exit(). *)
(* If it was evicted meanwhile, page_insert() fails, and the frame table   *)
(* keeps an entry that process_exit() will not remove: the owner and the   *)
(* page directory it names are freed, and the model stops here.            *)
(***************************************************************************)
GrowStackAgain(p) ==
  /\ ~broken
  /\ pc[p] = "fill"
  /\ caller[p] = "check_page_again"
  /\ IF pagedir[want[p]] # NULL
     THEN free_frame(frame) /\ UNCHANGED broken
     ELSE /\ broken' = TRUE
          /\ UNCHANGED <<frame_table, free, mem>>
  /\ frame' = NULL
  /\ lock_frame' = NULL
  /\ Goto(p, "exit")
  /\ UNCHANGED <<sptVars, pteVars, swapVars, want, caller, fte, slot, content,
                 suspect>>

-----------------------------------------------------------------------------
(* exit() and kill() lead to process_exit() ... *)
Exit(p) ==
  /\ ~broken
  /\ pc[p] = "user"
  /\ Goto(p, "exit")
  /\ UNCHANGED <<sptVars, pteVars, frame_table, free, mem, swapVars, lock_frame,
                 holderVars, broken, content, suspect>>

(* ... which takes lock_frame once, for memory-mapped files, ... *)
StartFreeing(p) ==
  /\ ~broken
  /\ pc[p] = "exit"
  /\ lock_frame = NULL
  /\ Goto(p, "freeing")
  /\ UNCHANGED <<sptVars, pteVars, frame_table, free, mem, swapVars, lock_frame,
                 holderVars, broken, content, suspect>>

(***************************************************************************)
(* ... and calls free_page() for each page without it.  The swap slot of a *)
(* page stays in use.                                                      *)
(***************************************************************************)
FreePage(g) ==
  /\ ~broken
  /\ pc[Owner(g)] = "freeing"
  /\ find_page(g)
  /\ IF loaded[g]
     THEN free_frame(pagedir[g]) /\ pagedir_clear_page(g)
     ELSE UNCHANGED <<frame_table, free, mem, pagedir>>
  /\ file_type' = [file_type EXCEPT ![g] = "none"]
  /\ loaded' = [loaded EXCEPT ![g] = FALSE]
  /\ is_swapped' = [is_swapped EXCEPT ![g] = FALSE]
  /\ swap_num' = [swap_num EXCEPT ![g] = 0]
  /\ UNCHANGED <<pc, accessed, dirty, swapVars, lock_frame, holderVars, broken,
                 content, suspect>>

Die(p) ==
  /\ ~broken
  /\ pc[p] = "freeing"
  /\ \A g \in Pages : Owner(g) = p => ~find_page(g)
  /\ accessed' = [g \in Pages |-> Owner(g) # p /\ accessed[g]]
  /\ dirty' = [g \in Pages |-> Owner(g) # p /\ dirty[g]]
  /\ want' = [want EXCEPT ![p] = NULL]
  /\ caller' = [caller EXCEPT ![p] = "page_fault"]
  /\ Goto(p, "dead")
  /\ UNCHANGED <<sptVars, pagedir, frame_table, free, mem, swapVars, lock_frame, fte,
                 slot, frame, broken, content, suspect>>

-----------------------------------------------------------------------------
PageStep(g) ==
  \/ Read(g)
  \/ \E v \in Data : Write(g, v)
  \/ \E who \in Callers : AllocateFrame(g, who) \/ EvictClean(g, who)
                           \/ SwapOut(g, who) \/ SwapFull(g, who)
  \/ FreePage(g)

ProcessStep(p) ==
  \/ Start(p)
  \/ EvictDone(p) \/ EvictFreed(p)
  \/ FileHandling(p) \/ SwapHandling(p) \/ GrowStack(p) \/ GrowStackAgain(p)
  \/ Exit(p) \/ StartFreeing(p) \/ Die(p)

Next == (\E g \in Pages : PageStep(g)) \/ (\E p \in Procs : ProcessStep(p))

Spec == Init /\ [][Next]_vars

-----------------------------------------------------------------------------
(***************************************************************************)
(* Frames, frame table and page tables agree, whoever evicts from whom and *)
(* whoever exits meanwhile: a frame is free or has exactly one entry, and  *)
(* a page is mapped to the frame of its entry.                             *)
(***************************************************************************)
Filling(e) ==
  \E p \in Procs : pc[p] = "fill" /\ e = [frame |-> frame, page |-> want[p]]

FrameInv == TypeOK /\ (~broken =>
  /\ \A p \in Procs : pc[p] \in Holding <=> lock_frame = p
  /\ \A i, j \in DOMAIN frame_table : frame_table[i].frame = frame_table[j].frame => i = j
  /\ free = Frames \ {e.frame : e \in Range(frame_table)}
  /\ \A e \in Range(frame_table) : pagedir[e.page] = e.frame \/ Filling(e)
  /\ \A g \in Pages :
       /\ pagedir[g] # NULL => [frame |-> pagedir[g], page |-> g] \in Range(frame_table)
       /\ loaded[g] <=> pagedir[g] # NULL)

(***************************************************************************)
(* Two swapped pages never share a slot, a slot that is being written is   *)
(* nobody's, and a page that needs the swap disk is in memory or on it.    *)
(***************************************************************************)
SwapInv ==
  /\ \A g \in Pages :
       /\ is_swapped[g] => ~loaded[g] /\ swap_num[g] \in swap_table \ {slot}
       /\ file_type[g] = "swap" => loaded[g] \/ is_swapped[g]
  /\ \A g, h \in Pages : (is_swapped[g] /\ is_swapped[h] /\ swap_num[g] = swap_num[h])
                            => g = h
  /\ slot # 0 => slot \in swap_table

(***************************************************************************)
(* A page holds what its program wrote last, in its frame, in its swap     *)
(* slot or, if it was never written, in the executable.  The exception is  *)
(* a page that its program wrote last while it was being evicted.          *)
(***************************************************************************)
Contents ==
  \A g \in Pages \ suspect : file_type[g] # "none" =>
    /\ loaded[g] => mem[pagedir[g]] = content[g]
    /\ is_swapped[g] => swap_device[swap_num[g]] = content[g]
    /\ (file_type[g] = "file" /\ ~(loaded[g] /\ dirty[g])) => content[g] = FileData
=============================================================================

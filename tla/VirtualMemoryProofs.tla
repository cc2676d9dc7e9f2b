------------------------- MODULE VirtualMemoryProofs -------------------------
(***************************************************************************)
(* Proofs about VirtualMemory, for any number of processes, pages, frames  *)
(* and swap slots: frames and page tables agree (FrameInv), swap slots are *)
(* not shared (SwapInv) and pages keep what was written to them            *)
(* (Contents).                                                             *)
(*                                                                         *)
(* None of the three is inductive.  IInv adds what the holder of           *)
(* lock_frame knows while it waits for a disk (HolderInv, VictimInv), and  *)
(* which pages have an entry in the supplemental page table (EntryInv).    *)
(***************************************************************************)
EXTENDS VirtualMemory, ListLemmas

(* The frames of the entries of a frame table are different. *)
Unique(table) ==
  \A i, j \in DOMAIN table : table[i].frame = table[j].frame => i = j

LockInv == \A p \in Procs : pc[p] \in Holding <=> lock_frame = p

(* Frame table, free frames and page tables agree: the rest of FrameInv. *)
TableInv ==
  /\ Unique(frame_table)
  /\ free = Frames \ {e.frame : e \in Range(frame_table)}
  /\ \A e \in Range(frame_table) : pagedir[e.page] = e.frame \/ Filling(e)
  /\ \A g \in Pages :
       /\ pagedir[g] # NULL => [frame |-> pagedir[g], page |-> g] \in Range(frame_table)
       /\ loaded[g] <=> pagedir[g] # NULL

(***************************************************************************)
(* The holder of lock_frame wants a page of its own, which is not present  *)
(* (but for the second grow_stack() of check_page()); while it fills a     *)
(* frame, that frame is in the table and mapped by nobody.                 *)
(***************************************************************************)
HolderInv ==
  /\ \A p \in Procs :
       /\ pc[p] \in Holding =>
            /\ want[p] \in Pages /\ Owner(want[p]) = p
            /\ caller[p] # "check_page_again" => pagedir[want[p]] = NULL
       /\ pc[p] = "fill" =>
            /\ frame \in Frames
            /\ [frame |-> frame, page |-> want[p]] \in Range(frame_table)
            /\ \A g \in Pages : pagedir[g] # frame
       /\ pc[p] = "evict" => fte # NULL
  /\ fte # NULL \/ slot # 0 => \E p \in Procs : pc[p] = "evict"

(***************************************************************************)
(* The victim of an eviction, unless its owner has freed it: its slot, if  *)
(* it needs one, has its contents, or the executable has.                  *)
(***************************************************************************)
VictimInv ==
  fte # NULL /\ fte \in Range(frame_table) =>
    /\ file_type[fte.page] = IF slot = 0 THEN "file" ELSE "swap"
    /\ fte.page \notin suspect =>
         content[fte.page] = IF slot = 0 THEN FileData ELSE swap_device[slot]

(***************************************************************************)
(* Only a page with an entry in the supplemental page table is loaded or   *)
(* swapped; a process that is not started has no page, and one that has    *)
(* not called setup_stack() has none on the stack.                         *)
(***************************************************************************)
EntryInv ==
  \A g \in Pages :
    /\ is_swapped[g] => file_type[g] = "swap"
    /\ loaded[g] => file_type[g] # "none"
    /\ pc[Owner(g)] = "dead" => file_type[g] = "none"
    /\ pc[Owner(g)] = "load" /\ IsStack(g) => file_type[g] = "none"

IInv ==
  /\ TypeOK
  /\ SwapInv
  /\ Contents
  /\ ~broken => LockInv /\ TableInv /\ HolderInv /\ VictimInv /\ EntryInv

-----------------------------------------------------------------------------
(* The frame table. *)

LEMMA MinIn ==
  ASSUME NEW S, S \subseteq Nat, S # {}
  PROVE  Min(S) \in S
PROOF
<1>1. \E x \in S : \A y \in S : x <= y
  BY LeastNat
<1> QED
  BY <1>1 DEF Min

LEMMA UniqueIff ==
  ASSUME NEW table \in Seq(Entries)
  PROVE  Unique(table) <=>
           /\ IsInjective(table)
           /\ \A d, e \in Range(table) : d.frame = e.frame => d = e
PROOF
  BY DEF Unique, IsInjective, Range

LEMMA TableAppend ==
  ASSUME NEW table \in Seq(Entries), NEW e \in Entries, Unique(table),
         \A d \in Range(table) : d.frame # e.frame
  PROVE  /\ Append(table, e) \in Seq(Entries)
         /\ Unique(Append(table, e))
         /\ Range(Append(table, e)) = Range(table) \cup {e}
PROOF
<1>1. IsInjective(table) /\ \A c, d \in Range(table) : c.frame = d.frame => c = d
  BY UniqueIff
<1>2. /\ Append(table, e) \in Seq(Entries)
      /\ Range(Append(table, e)) = Range(table) \cup {e}
      /\ IsInjective(Append(table, e))
  BY <1>1, AppendRange
<1>3. \A c, d \in Range(Append(table, e)) : c.frame = d.frame => c = d
  BY <1>1, <1>2
<1> QED
  BY <1>2, <1>3, UniqueIff

LEMMA TableRemove ==
  ASSUME NEW table \in Seq(Entries), NEW e \in Range(table), Unique(table)
  PROVE  /\ RemoveFirst(table, e) \in Seq(Entries)
         /\ Unique(RemoveFirst(table, e))
         /\ Range(RemoveFirst(table, e)) = Range(table) \ {e}
PROOF
<1>1. IsInjective(table) /\ \A c, d \in Range(table) : c.frame = d.frame => c = d
  BY UniqueIff
<1>2. /\ RemoveFirst(table, e) \in Seq(Entries)
      /\ Range(RemoveFirst(table, e)) = Range(table) \ {e}
      /\ IsInjective(RemoveFirst(table, e))
  BY <1>1, RemoveFirstRange
<1>3. \A c, d \in Range(RemoveFirst(table, e)) : c.frame = d.frame => c = d
  BY <1>1, <1>2
<1> QED
  BY <1>2, <1>3, UniqueIff

LEMMA FreeFrame ==
  ASSUME NEW f, free_frame(f), frame_table \in Seq(Entries), Unique(frame_table)
  PROVE  /\ frame_table' \in Seq(Entries)
         /\ Unique(frame_table')
         /\ Range(frame_table') = {e \in Range(frame_table) : e.frame # f}
         /\ free' = free \cup {f}
         /\ mem' = [mem EXCEPT ![f] = Freed]
PROOF
<1> DEFINE I == {i \in 1 .. Len(frame_table) : frame_table[i].frame = f}
<1>1. /\ IsInjective(frame_table)
      /\ \A c, d \in Range(frame_table) : c.frame = d.frame => c = d
  BY UniqueIff
<1>2. free' = free \cup {f} /\ mem' = [mem EXCEPT ![f] = Freed]
  BY DEF free_frame
<1>3. CASE I = {}
  <2>1. frame_table' = frame_table
    BY <1>3 DEF free_frame, RemoveFirstMatch
  <2>2. \A e \in Range(frame_table) : e.frame # f
    BY <1>3 DEF Range
  <2>3. Unique(frame_table')
    BY <2>1 DEF Unique
  <2> HIDE DEF I
  <2> QED
    BY <1>2, <2>1, <2>2, <2>3
<1>4. CASE I # {}
  <2>1. Min(I) \in I
    <3>1. I \subseteq Nat
      OBVIOUS
    <3> HIDE DEF I
    <3> QED
      BY <1>4, <3>1, MinIn
  <2>2. frame_table' = RemoveAt(frame_table, Min(I))
    BY <1>4 DEF free_frame, RemoveFirstMatch, SelectInSeq
  <2>3. PICK i \in 1 .. Len(frame_table) :
          frame_table[i].frame = f /\ frame_table' = RemoveAt(frame_table, i)
    BY <2>1, <2>2
  <2> HIDE DEF I
  <2>4. /\ frame_table' \in Seq(Entries)
        /\ Range(frame_table') = Range(frame_table) \ {frame_table[i]}
        /\ IsInjective(frame_table')
    BY <1>1, <2>3, RemoveAtRange
  <2>5. frame_table[i] \in Range(frame_table)
    BY DEF Range
  <2>6. Range(frame_table') = {e \in Range(frame_table) : e.frame # f}
    BY <1>1, <2>3, <2>4, <2>5
  <2>7. \A c, d \in Range(frame_table') : c.frame = d.frame => c = d
    BY <1>1, <2>6
  <2>8. Unique(frame_table')
    BY <2>4, <2>7, UniqueIff
  <2> QED
    BY <1>2, <2>4, <2>6, <2>8
<1> QED
  BY <1>3, <1>4

(***************************************************************************)
(* What IInv says of entries, pages and frames while the kernel works: an  *)
(* entry belongs to one frame, and a frame to one page.                    *)
(***************************************************************************)
LEMMA Frames1 ==
  ASSUME IInv, ~broken
  PROVE  /\ Range(frame_table) \subseteq Entries
         /\ \A d, e \in Range(frame_table) : d.frame = e.frame => d = e
         /\ \A g, h \in Pages : pagedir[g] # NULL /\ pagedir[g] = pagedir[h] => g = h
         /\ \A e \in Range(frame_table) : e.frame \notin free
         /\ \A f \in Frames : f \notin free => \E e \in Range(frame_table) : e.frame = f
PROOF
<1>1. Range(frame_table) \subseteq Entries
  BY DEF IInv, TypeOK, Range
<1>2. \A d, e \in Range(frame_table) : d.frame = e.frame => d = e
  BY UniqueIff DEF IInv, TypeOK, TableInv
<1>3. ASSUME NEW g \in Pages, NEW h \in Pages, pagedir[g] # NULL, pagedir[g] = pagedir[h]
      PROVE  g = h
  <2>1. /\ [frame |-> pagedir[g], page |-> g] \in Range(frame_table)
        /\ [frame |-> pagedir[h], page |-> h] \in Range(frame_table)
    BY <1>3 DEF IInv, TableInv
  <2>2. [frame |-> pagedir[g], page |-> g] = [frame |-> pagedir[h], page |-> h]
    BY <1>2, <1>3, <2>1
  <2> QED
    BY <2>2
<1>4. free = Frames \ {e.frame : e \in Range(frame_table)}
  BY DEF IInv, TableInv
<1> QED
  BY <1>1, <1>2, <1>3, <1>4

LEMMA NoOtherHolder ==
  ASSUME LockInv, NEW p \in Procs, pc[p] \in Holding
  PROVE  lock_frame = p /\ \A q \in Procs \ {p} : pc[q] \notin Holding
PROOF
  BY DEF LockInv

LEMMA NoHolder ==
  ASSUME LockInv, VMAssumption, lock_frame = NULL
  PROVE  \A q \in Procs : pc[q] \notin Holding
PROOF
  BY DEF LockInv, VMAssumption

LEMMA InitIInv ==
  ASSUME Init
  PROVE  IInv
PROOF
<1>1. TypeOK
  <2>1. pc \in [Procs -> Places] /\ caller \in [Procs -> Callers]
    BY DEF Init, Places, Callers
  <2>2. mem \in [Frames -> Values] /\ swap_device \in [SwapSlots -> Values]
    BY DEF Init, Values
  <2>3. content \in [Pages -> Values]
    BY DEF Init, Values
  <2>4. frame_table \in Seq(Entries)
    BY DEF Init
  <2> QED
    BY <2>1, <2>2, <2>3, <2>4 DEF Init, TypeOK
<1>2. SwapInv
  BY DEF Init, SwapInv
<1>3. Contents
  BY DEF Init, Contents
<1>4. LockInv
  BY VMAssumption DEF Init, LockInv, Holding
<1>5. TableInv
  BY DEF Init, TableInv, Unique, Range
<1>6. HolderInv
  BY DEF Init, HolderInv, Holding
<1>7. VictimInv
  BY DEF Init, VictimInv
<1>8. EntryInv
  BY DEF Init, EntryInv
<1> QED
  BY <1>1, <1>2, <1>3, <1>4, <1>5, <1>6, <1>7, <1>8 DEF IInv

-----------------------------------------------------------------------------
(* Programs run. *)

LEMMA ReadStep ==
  ASSUME IInv, NEW g \in Pages, Read(g)
  PROVE  IInv'
PROOF
<1> USE DEF Read, sptVars, swapVars, holderVars
<1>1. TypeOK'
  BY DEF IInv, TypeOK
<1>2. SwapInv'
  BY DEF IInv, SwapInv
<1>3. Contents'
  BY DEF IInv, Contents
<1>4. LockInv'
  BY DEF IInv, LockInv
<1>5. TableInv'
  BY DEF IInv, TableInv, Filling, Unique
<1>6. HolderInv'
  BY DEF IInv, HolderInv
<1>7. VictimInv'
  BY DEF IInv, VictimInv
<1>8. EntryInv'
  BY DEF IInv, EntryInv
<1> QED
  BY <1>1, <1>2, <1>3, <1>4, <1>5, <1>6, <1>7, <1>8 DEF IInv

(* A write to the victim makes it suspect; no other page has its frame. *)
LEMMA WriteStep ==
  ASSUME IInv, NEW g \in Pages, NEW v \in Data, Write(g, v)
  PROVE  IInv'
PROOF
<1> USE DEF Write, sptVars, swapVars, holderVars
<1>a. pagedir[g] \in Frames /\ pagedir[g] # NULL /\ loaded[g] /\ v \in Values
  BY DEF IInv, TypeOK, TableInv, Values
<1>1. TypeOK'
  <2>1. mem' \in [Frames -> Values]
    BY <1>a DEF IInv, TypeOK
  <2>2. content' \in [Pages -> Values]
    BY <1>a DEF IInv, TypeOK
  <2> QED
    BY <2>1, <2>2 DEF IInv, TypeOK
<1>2. SwapInv'
  BY DEF IInv, SwapInv
<1>b. content'[g] = v /\ \A h \in Pages \ {g} : content'[h] = content[h]
  BY DEF IInv, TypeOK
<1>c. mem'[pagedir[g]] = v /\ \A f \in Frames \ {pagedir[g]} : mem'[f] = mem[f]
  BY <1>a DEF IInv, TypeOK
<1>d. dirty'[g] = TRUE /\ \A h \in Pages \ {g} : dirty'[h] = dirty[h]
  BY DEF IInv, TypeOK
<1>e. suspect' \ {g} = suspect \ {g}
  OBVIOUS
<1>3. Contents'
  <2>1. SUFFICES ASSUME NEW h \in Pages \ suspect', file_type[h] # "none"
                 PROVE  /\ loaded[h] => mem'[pagedir[h]] = content'[h]
                        /\ is_swapped[h] => swap_device[swap_num[h]] = content'[h]
                        /\ (file_type[h] = "file" /\ ~(loaded[h] /\ dirty'[h]))
                              => content'[h] = FileData
    BY DEF Contents
  <2>2. CASE h = g
    <3>1. ~is_swapped[h]
      BY <1>a, <2>2 DEF IInv, SwapInv
    <3> QED
      BY <1>a, <1>b, <1>c, <1>d, <2>2, <3>1
  <2>3. CASE h # g
    <3>1. h \in Pages \ suspect
      BY <1>e, <2>3
    <3>2. loaded[h] => pagedir[h] \in Frames /\ pagedir[h] # pagedir[g]
      BY <1>a, <2>3, Frames1, ZenonT(40) DEF IInv, TypeOK, TableInv
    <3>3. /\ loaded[h] => mem[pagedir[h]] = content[h]
          /\ is_swapped[h] => swap_device[swap_num[h]] = content[h]
          /\ (file_type[h] = "file" /\ ~(loaded[h] /\ dirty[h])) => content[h] = FileData
      BY <2>1, <3>1 DEF IInv, Contents
    <3> QED
      BY <1>b, <1>c, <1>d, <2>3, <3>2, <3>3
  <2> QED
    BY <2>2, <2>3
<1>4. LockInv'
  BY DEF IInv, LockInv
<1>5. TableInv'
  BY DEF IInv, TableInv, Filling, Unique
<1>6. HolderInv'
  BY DEF IInv, HolderInv
<1>7. VictimInv'
  <2>1. SUFFICES ASSUME fte # NULL, fte \in Range(frame_table), fte.page \notin suspect'
                 PROVE  content'[fte.page] = IF slot = 0 THEN FileData ELSE swap_device[slot]
    BY DEF IInv, VictimInv
  <2>2. fte.page # g /\ fte.page \in Pages
    BY <2>1, Frames1 DEF Entries
  <2>3. fte.page \notin suspect
    BY <2>1, <2>2, <1>e
  <2> QED
    BY <1>b, <2>1, <2>2, <2>3 DEF IInv, VictimInv
<1>8. EntryInv'
  BY DEF IInv, EntryInv
<1> QED
  BY <1>1, <1>2, <1>3, <1>4, <1>5, <1>6, <1>7, <1>8 DEF IInv

(* A process starts when nobody evicts, so it has no pages yet. *)
LEMMA StartStep ==
  ASSUME IInv, NEW p \in Procs, Start(p)
  PROVE  IInv'
PROOF
<1> USE DEF Start, Goto, pteVars, swapVars, holderVars
<1>1. TypeOK'
  BY DEF IInv, TypeOK, Places, Values
<1>a. pc'[p] = "load" /\ \A q \in Procs \ {p} : pc'[q] = pc[q]
  BY DEF IInv, TypeOK
<1>b. \A q \in Procs : pc[q] \notin Holding /\ pc'[q] \notin Holding
  BY <1>a, NoHolder, VMAssumption DEF IInv, Holding
<1>c. \A g \in Pages : Owner(g) = p => file_type[g] = "none" /\ ~loaded[g] /\ ~is_swapped[g]
  BY DEF IInv, EntryInv
<1>d. \A g \in Pages : file_type'[g] = IF Owner(g) = p /\ ~IsStack(g) THEN "file"
                                       ELSE file_type[g]
  OBVIOUS
<1>e. \A g \in Pages : content'[g] = IF Owner(g) = p THEN FileData ELSE content[g]
  OBVIOUS
<1>f. \A g \in Pages : Owner(g) # p => (g \in suspect' <=> g \in suspect)
  OBVIOUS
<1>2. SwapInv'
  BY <1>c, <1>d DEF IInv, SwapInv
<1>3. Contents'
  <2>1. ASSUME NEW g \in Pages \ suspect', Owner(g) = p
        PROVE  ~loaded[g] /\ ~is_swapped[g] /\ content'[g] = FileData
    BY <1>c, <1>e, <2>1
  <2>2. ASSUME NEW g \in Pages \ suspect', Owner(g) # p
        PROVE  g \notin suspect /\ content'[g] = content[g] /\ file_type'[g] = file_type[g]
    BY <1>d, <1>e, <1>f, <2>2
  <2> QED
    BY <2>1, <2>2 DEF IInv, Contents
<1>4. LockInv'
  BY <1>b DEF IInv, LockInv
<1>5. TableInv'
  <2>1. \A e : ~Filling(e)
    BY <1>b DEF Filling, Holding
  <2> QED
    BY <2>1 DEF IInv, TableInv, Unique
<1>6. HolderInv'
  BY <1>b DEF IInv, HolderInv, Holding
<1>7. VictimInv'
  <2>1. fte = NULL
    BY <1>b DEF IInv, HolderInv, Holding
  <2> QED
    BY <2>1 DEF VictimInv
<1>8. EntryInv'
  <2>1. \A g \in Pages : Owner(g) \in Procs
    BY VMAssumption DEF Owner
  <2> QED
    BY <1>a, <1>c, <1>d, <2>1 DEF IInv, EntryInv
<1> QED
  BY <1>1, <1>2, <1>3, <1>4, <1>5, <1>6, <1>7, <1>8 DEF IInv

(* Steps that only move a process from one place without the lock to another. *)
LEMMA LeaveStep ==
  ASSUME IInv, NEW p \in Procs, Exit(p) \/ StartFreeing(p)
  PROVE  IInv'
PROOF
<1>a. /\ ~broken
      /\ pc' = [pc EXCEPT ![p] = "exit"] \/ pc' = [pc EXCEPT ![p] = "freeing"]
      /\ pc[p] = "user" \/ pc[p] = "exit"
      /\ UNCHANGED <<sptVars, pteVars, frame_table, free, mem, swapVars, lock_frame,
                     holderVars, broken, content, suspect>>
  BY DEF Exit, StartFreeing, Goto
<1> USE DEF sptVars, pteVars, swapVars, holderVars
<1>b. /\ pc'[p] = "exit" \/ pc'[p] = "freeing"
      /\ \A q \in Procs \ {p} : pc'[q] = pc[q]
      /\ pc' \in [Procs -> Places]
  BY <1>a DEF IInv, TypeOK, Places
<1>c. \A q \in Procs : /\ pc'[q] \in Holding <=> pc[q] \in Holding
                       /\ pc'[q] = "fill" <=> pc[q] = "fill"
                       /\ pc'[q] = "evict" <=> pc[q] = "evict"
                       /\ pc'[q] = "dead" <=> pc[q] = "dead"
                       /\ pc'[q] = "load" <=> pc[q] = "load"
  BY <1>a, <1>b DEF Holding
<1>1. TypeOK'
  BY <1>a, <1>b DEF IInv, TypeOK
<1>2. SwapInv'
  BY <1>a DEF IInv, SwapInv
<1>3. Contents'
  BY <1>a DEF IInv, Contents
<1>4. LockInv'
  BY <1>a, <1>c DEF IInv, LockInv
<1>5. TableInv'
  BY <1>a, <1>c DEF IInv, TableInv, Filling, Unique
<1>6. HolderInv'
  BY <1>a, <1>c DEF IInv, HolderInv
<1>7. VictimInv'
  BY <1>a DEF IInv, VictimInv
<1>8. EntryInv'
  <2>1. \A g \in Pages : Owner(g) \in Procs
    BY VMAssumption DEF Owner
  <2> QED
    BY <1>a, <1>c, <2>1 DEF IInv, EntryInv
<1> QED
  BY <1>1, <1>2, <1>3, <1>4, <1>5, <1>6, <1>7, <1>8 DEF IInv

(* The last step of a process: it has no page left. *)
LEMMA DieStep ==
  ASSUME IInv, NEW p \in Procs, Die(p)
  PROVE  IInv'
PROOF
<1> USE DEF Die, Goto, sptVars, swapVars
<1>a. \A g \in Pages : Owner(g) = p => file_type[g] = "none"
  BY DEF find_page
<1>b. /\ pc'[p] = "dead"
      /\ \A q \in Procs \ {p} : pc'[q] = pc[q]
      /\ pc' \in [Procs -> Places]
  BY DEF IInv, TypeOK, Places
<1>c. \A q \in Procs : /\ pc'[q] \in Holding <=> pc[q] \in Holding
                       /\ pc'[q] = "fill" <=> pc[q] = "fill"
                       /\ pc'[q] = "evict" <=> pc[q] = "evict"
                       /\ pc'[q] = "load" <=> pc[q] = "load"
                       /\ pc[q] \in Holding => want'[q] = want[q] /\ caller'[q] = caller[q]
  BY <1>b DEF Holding, IInv, TypeOK
<1>1. TypeOK'
  <2>1. accessed' \in [Pages -> BOOLEAN] /\ dirty' \in [Pages -> BOOLEAN]
    OBVIOUS
  <2>2. want' \in [Procs -> Pages \cup {NULL}] /\ caller' \in [Procs -> Callers]
    BY DEF IInv, TypeOK, Callers
  <2> QED
    BY <1>b, <2>1, <2>2 DEF IInv, TypeOK
<1>2. SwapInv'
  BY DEF IInv, SwapInv
<1>3. Contents'
  <2>1. \A g \in Pages : file_type[g] # "none" => dirty'[g] = dirty[g]
    BY <1>a DEF IInv, TypeOK
  <2> QED
    BY <2>1 DEF IInv, Contents
<1>4. LockInv'
  BY <1>c DEF IInv, LockInv
<1>5. TableInv'
  <2>1. \A e : Filling(e)' <=> Filling(e)
    BY <1>c DEF Filling, Holding
  <2> QED
    BY <2>1 DEF IInv, TableInv, Unique
<1>6. HolderInv'
  BY <1>c DEF IInv, HolderInv, Holding
<1>7. VictimInv'
  BY DEF IInv, VictimInv
<1>8. EntryInv'
  <2>1. \A g \in Pages : Owner(g) \in Procs
    BY VMAssumption DEF Owner
  <2> QED
    BY <1>a, <1>b, <1>c, <2>1 DEF IInv, EntryInv
<1> QED
  BY <1>1, <1>2, <1>3, <1>4, <1>5, <1>6, <1>7, <1>8 DEF IInv

(* The holder stumbles over an entry that was freed. *)
LEMMA EvictFreedStep ==
  ASSUME IInv, NEW p \in Procs, EvictFreed(p)
  PROVE  IInv'
PROOF
<1> USE DEF EvictFreed, sptVars, pteVars, swapVars, holderVars
<1>1. TypeOK'
  BY DEF IInv, TypeOK
<1>2. SwapInv'
  BY DEF IInv, SwapInv
<1>3. Contents'
  BY DEF IInv, Contents
<1> QED
  BY <1>1, <1>2, <1>3 DEF IInv

-----------------------------------------------------------------------------
(* process_exit() frees a page, perhaps the victim of somebody else. *)

LEMMA FreePageStep ==
  ASSUME IInv, NEW g \in Pages, FreePage(g)
  PROVE  IInv'
PROOF
<1> USE DEF FreePage, swapVars, holderVars
<1> DEFINE T == Range(frame_table)
           T1 == Range(frame_table')
<1>a. ~broken /\ ~broken' /\ pc[Owner(g)] = "freeing" /\ Owner(g) \in Procs
  BY VMAssumption DEF Owner
<1>b. /\ file_type'[g] = "none" /\ loaded'[g] = FALSE
      /\ is_swapped'[g] = FALSE /\ swap_num'[g] = 0
      /\ \A h \in Pages \ {g} : /\ file_type'[h] = file_type[h]
                                /\ loaded'[h] = loaded[h]
                                /\ is_swapped'[h] = is_swapped[h]
                                /\ swap_num'[h] = swap_num[h]
  BY DEF IInv, TypeOK
<1>c. loaded[g] <=> pagedir[g] # NULL
  BY <1>a DEF IInv, TableInv
<1>d. /\ Unique(frame_table') /\ frame_table' \in Seq(Entries)
      /\ T1 = {e \in T : e.frame # pagedir[g]}
  <2>1. CASE loaded[g]
    BY <1>a, <2>1, FreeFrame DEF IInv, TypeOK, TableInv
  <2>2. CASE ~loaded[g]
    <3>1. frame_table' = frame_table /\ pagedir[g] = NULL
      BY <1>c, <2>2
    <3>2. \A e \in T : e.frame # NULL
      BY <1>a, Frames1, NullAssumption DEF Entries
    <3>3. Unique(frame_table)
      BY <1>a DEF IInv, TableInv
    <3> QED
      BY <3>1, <3>2, <3>3 DEF IInv, TypeOK, Unique
  <2> QED
    BY <2>1, <2>2
<1>e. pagedir'[g] = NULL /\ \A h \in Pages \ {g} : pagedir'[h] = pagedir[h]
  BY <1>c DEF IInv, TypeOK, pagedir_clear_page
<1>f. free' = IF loaded[g] THEN free \cup {pagedir[g]} ELSE free
  BY DEF free_frame
<1>g. mem' = IF loaded[g] THEN [mem EXCEPT ![pagedir[g]] = Freed] ELSE mem
  BY DEF free_frame
<1>h. loaded[g] => pagedir[g] \in Frames
  BY <1>c DEF IInv, TypeOK
<1>i. \A f \in Frames : f # pagedir[g] => mem'[f] = mem[f]
  BY <1>g, <1>h DEF IInv, TypeOK
<1>j. \A h \in Pages \ {g} : pagedir[h] # NULL => pagedir[h] # pagedir[g]
  BY <1>a, Frames1
<1>k. T \subseteq Entries
  BY <1>a, Frames1
<1>l. loaded[g] => [frame |-> pagedir[g], page |-> g] \in T
  BY <1>a, <1>c DEF IInv, TableInv
<1> HIDE DEF T, T1
<1>1. TypeOK'
  <2>1. mem' \in [Frames -> Values] /\ free' \subseteq Frames
    BY <1>f, <1>g, <1>h DEF IInv, TypeOK, Values
  <2>2. pagedir' \in [Pages -> Frames \cup {NULL}]
    BY DEF IInv, TypeOK, pagedir_clear_page
  <2> QED
    BY <1>d, <2>1, <2>2 DEF IInv, TypeOK
<1>2. SwapInv'
  BY <1>b DEF IInv, SwapInv
<1>3. Contents'
  <2>1. SUFFICES ASSUME NEW h \in Pages \ suspect, h # g, file_type[h] # "none"
                 PROVE  /\ loaded[h] => mem'[pagedir'[h]] = content[h]
                        /\ is_swapped[h] => swap_device[swap_num[h]] = content[h]
                        /\ (file_type[h] = "file" /\ ~(loaded[h] /\ dirty[h]))
                              => content[h] = FileData
    BY <1>b DEF Contents
  <2>2. loaded[h] => pagedir[h] \in Frames /\ pagedir[h] # NULL
    BY <1>a DEF IInv, TypeOK, TableInv
  <2>3. loaded[h] => mem'[pagedir'[h]] = mem[pagedir[h]]
    BY <1>e, <1>i, <1>j, <2>1, <2>2
  <2> QED
    BY <2>1, <2>3 DEF IInv, Contents
<1>4. LockInv'
  BY <1>a DEF IInv, LockInv
<1>5. TableInv'
  <2>1. free' = Frames \ {e.frame : e \in T1}
    <3>1. free = Frames \ {e.frame : e \in T}
      BY <1>a DEF IInv, TableInv, T
    <3>2. CASE loaded[g]
      <4>1. \A f \in Frames : f \in free' <=> f \in free \/ f = pagedir[g]
        BY <1>f, <3>2
      <4>2. \A f \in Frames : f \in free' <=> \A e \in T1 : e.frame # f
        BY <1>d, <3>1, <4>1
      <4>3. free' \subseteq Frames
        BY <1>1 DEF TypeOK
      <4> QED
        BY <4>2, <4>3
    <3>3. CASE ~loaded[g]
      <4>1. T1 = T
        BY <1>c, <1>d, <1>k, <3>3, NullAssumption DEF Entries
      <4> QED
        BY <1>f, <3>1, <3>3, <4>1
    <3> QED
      BY <3>2, <3>3
  <2>2. ASSUME NEW e \in T1
        PROVE  pagedir'[e.page] = e.frame \/ Filling(e)'
    <3>1. e \in T /\ e.frame # pagedir[g] /\ e.page \in Pages
      BY <1>d, <1>k DEF Entries
    <3>2. pagedir[e.page] = e.frame \/ Filling(e)
      BY <1>a, <3>1 DEF IInv, TableInv, T
    <3>3. Filling(e) => Filling(e)'
      BY DEF Filling
    <3> QED
      BY <1>e, <3>1, <3>2, <3>3
  <2>3. ASSUME NEW h \in Pages, pagedir'[h] # NULL
        PROVE  [frame |-> pagedir'[h], page |-> h] \in T1
    <3>1. h # g /\ pagedir'[h] = pagedir[h]
      BY <1>e, <2>3
    <3>2. [frame |-> pagedir[h], page |-> h] \in T
      BY <1>a, <2>3, <3>1 DEF IInv, TableInv, T
    <3> QED
      BY <1>d, <1>j, <2>3, <3>1, <3>2
  <2>4. \A h \in Pages : loaded'[h] <=> pagedir'[h] # NULL
    BY <1>a, <1>b, <1>e DEF IInv, TableInv
  <2> QED
    BY <1>d, <2>1, <2>2, <2>3, <2>4 DEF TableInv, T1
<1>6. HolderInv'
  <2>1. ASSUME NEW p \in Procs, pc[p] \in Holding
        PROVE  want[p] # g
    BY <1>a, <2>1 DEF IInv, HolderInv, Holding
  <2>2. ASSUME NEW p \in Procs, pc[p] = "fill"
        PROVE  /\ [frame |-> frame, page |-> want[p]] \in T1
               /\ \A h \in Pages : pagedir'[h] # frame
    <3>1. /\ [frame |-> frame, page |-> want[p]] \in T
          /\ \A h \in Pages : pagedir[h] # frame
          /\ frame \in Frames
      BY <1>a, <2>2 DEF IInv, HolderInv, T
    <3> QED
      BY <1>d, <1>e, <3>1, NullAssumption
  <2>3. \A p \in Procs : pc[p] \in Holding =>
           /\ want[p] \in Pages /\ Owner(want[p]) = p
           /\ caller[p] # "check_page_again" => pagedir[want[p]] = NULL
    BY <1>a DEF IInv, HolderInv
  <2>4. \A p \in Procs : pc[p] \in Holding => pagedir'[want[p]] = pagedir[want[p]]
    BY <1>e, <2>1, <2>3
  <2> QED
    BY <1>a, <2>2, <2>3, <2>4 DEF IInv, HolderInv, T1
<1>7. VictimInv'
  <2>1. SUFFICES ASSUME fte # NULL, fte \in T1
                 PROVE  /\ fte \in T /\ fte.page \in Pages \ {g}
    BY <1>a, <1>b DEF IInv, VictimInv, T, T1
  <2>2. fte \in T /\ fte.page \in Pages /\ fte.frame # pagedir[g]
    BY <1>d, <1>k, <2>1 DEF Entries
  <2>3. pagedir[fte.page] = fte.frame \/ Filling(fte)
    BY <1>a, <2>2 DEF IInv, TableInv, T
  <2>4. ~Filling(fte)
    <3>1. PICK p \in Procs : pc[p] = "evict"
      BY <1>a, <2>1 DEF IInv, HolderInv
    <3> QED
      BY <1>a, <3>1, NoOtherHolder DEF IInv, Filling, Holding
  <2> QED
    BY <2>2, <2>3, <2>4
<1>8. EntryInv'
  BY <1>a, <1>b DEF IInv, EntryInv
<1> QED
  BY <1>1, <1>2, <1>3, <1>4, <1>5, <1>6, <1>7, <1>8 DEF IInv

-----------------------------------------------------------------------------
(* A process takes lock_frame. *)

LEMMA NeedsFacts ==
  ASSUME IInv, NEW g \in Pages, NEW who \in Callers, Needs(g, who)
  PROVE  /\ ~broken /\ Owner(g) \in Procs
         /\ lock_frame' = Owner(g)
         /\ pc[Owner(g)] \notin Holding /\ pc[Owner(g)] # "dead"
         /\ \A q \in Procs : pc[q] \notin Holding
         /\ \A e : ~Filling(e)
         /\ want' \in [Procs -> Pages \cup {NULL}] /\ caller' \in [Procs -> Callers]
         /\ want'[Owner(g)] = g /\ caller'[Owner(g)] = who
         /\ who # "check_page_again" => pagedir[g] = NULL
         /\ fte = NULL /\ slot = 0
PROOF
<1>1. /\ ~broken /\ Owner(g) \in Procs
      /\ lock_frame' = Owner(g) /\ lock_frame = NULL
  BY VMAssumption DEF Needs, Owner
<1>2. \A q \in Procs : pc[q] \notin Holding
  BY <1>1, NoHolder, VMAssumption DEF IInv
<1>3. \A e : ~Filling(e)
  BY <1>2 DEF Filling, Holding
<1>4. fte = NULL /\ slot = 0
  BY <1>1, <1>2 DEF IInv, HolderInv, Holding
<1>5. who # "check_page_again" => pagedir[g] = NULL
  <2>1. SUFFICES ASSUME who = "setup_stack", pc[Owner(g)] = "load", g[2] = StackTop
                 PROVE  pagedir[g] = NULL
    BY DEF Needs
  <2>2. IsStack(g)
    BY <2>1, VMAssumption DEF IsStack
  <2>3. file_type[g] = "none"
    BY <1>1, <2>1, <2>2 DEF IInv, EntryInv
  <2>4. ~loaded[g]
    BY <1>1, <2>3 DEF IInv, EntryInv
  <2> QED
    BY <1>1, <2>4 DEF IInv, TableInv
<1>6. /\ want' \in [Procs -> Pages \cup {NULL}] /\ caller' \in [Procs -> Callers]
      /\ want'[Owner(g)] = g /\ caller'[Owner(g)] = who
  BY <1>1 DEF Needs, IInv, TypeOK
<1>7. pc[Owner(g)] # "dead"
  BY DEF Needs
<1> QED
  BY <1>1, <1>2, <1>3, <1>4, <1>5, <1>6, <1>7

LEMMA Taken ==
  ASSUME NEW g \in Pages, NEW pool, NEW table \in Seq(Entries), Unique(table),
         pool = Frames \ {e.frame : e \in Range(table)}, pool # {},
         TakeFrame(g, pool, table)
  PROVE  /\ frame' \in Frames /\ frame' \in pool
         /\ frame_table' \in Seq(Entries)
         /\ Unique(frame_table')
         /\ Range(frame_table') = Range(table) \cup {[frame |-> frame', page |-> g]}
         /\ free' = Frames \ {e.frame : e \in Range(frame_table')}
PROOF
<1> DEFINE e == [frame |-> frame', page |-> g]
<1>1. frame' \in pool /\ frame' \in Frames /\ pool \subseteq Frames
  <2>1. pool \subseteq Frames
    OBVIOUS
  <2>2. pool \subseteq Nat
    BY <2>1, VMAssumption DEF Frames
  <2> QED
    BY <2>1, <2>2, MinIn DEF TakeFrame
<1>2. e \in Entries /\ \A d \in Range(table) : d.frame # e.frame
  BY <1>1 DEF Entries
<1>3. frame_table' = Append(table, e)
  BY DEF TakeFrame
<1> HIDE DEF e
<1>4. /\ frame_table' \in Seq(Entries)
      /\ Unique(frame_table')
      /\ Range(frame_table') = Range(table) \cup {e}
  BY <1>2, <1>3, TableAppend
<1>5. free' = pool \ {e.frame}
  BY DEF TakeFrame, e
<1>6. free' = Frames \ {d.frame : d \in Range(frame_table')}
  BY <1>4, <1>5
<1> QED
  BY <1>1, <1>4, <1>6 DEF e

LEMMA AllocateFrameStep ==
  ASSUME IInv, NEW g \in Pages, NEW who \in Callers, AllocateFrame(g, who)
  PROVE  IInv'
PROOF
<1> USE DEF AllocateFrame, sptVars, pteVars, swapVars
<1> DEFINE p == Owner(g)
           T == Range(frame_table)
           T1 == Range(frame_table')
<1>a. /\ ~broken /\ p \in Procs
      /\ lock_frame' = p
      /\ pc[p] \notin Holding /\ pc[p] # "dead"
      /\ \A q \in Procs : pc[q] \notin Holding
      /\ \A e : ~Filling(e)
      /\ want' \in [Procs -> Pages \cup {NULL}] /\ caller' \in [Procs -> Callers]
      /\ want'[p] = g /\ caller'[p] = who
      /\ who # "check_page_again" => pagedir[g] = NULL
      /\ fte = NULL /\ slot = 0
  BY NeedsFacts
<1>b. /\ frame' \in Frames /\ frame' \in free
      /\ frame_table' \in Seq(Entries)
      /\ Unique(frame_table')
      /\ T1 = T \cup {[frame |-> frame', page |-> g]}
      /\ free' = Frames \ {e.frame : e \in T1}
  <2>1. frame_table \in Seq(Entries) /\ Unique(frame_table)
    BY <1>a DEF IInv, TypeOK, TableInv
  <2>2. free = Frames \ {e.frame : e \in T}
    BY <1>a DEF IInv, TableInv
  <2>3. free # {} /\ TakeFrame(g, free, frame_table)
    OBVIOUS
  <2> QED
    BY <2>1, <2>2, <2>3, Taken
<1>c. pc' \in [Procs -> Places] /\ pc'[p] = "fill" /\ \A q \in Procs \ {p} : pc'[q] = pc[q]
  BY <1>a DEF TakeFrame, Goto, IInv, TypeOK, Places, Holding
<1>d. \A h \in Pages : pagedir[h] # frame'
  <2>1. ASSUME NEW h \in Pages, pagedir[h] = frame'
        PROVE  FALSE
    <3>1. [frame |-> frame', page |-> h] \in T
      BY <1>a, <1>b, <2>1, NullAssumption DEF IInv, TableInv
    <3> QED
      BY <1>a, <1>b, <3>1, Frames1
  <2> QED
    BY <2>1
<1> HIDE DEF T, T1, p
<1>1. TypeOK'
  BY <1>a, <1>b, <1>c DEF IInv, TypeOK
<1>2. SwapInv'
  BY DEF IInv, SwapInv
<1>3. Contents'
  BY DEF IInv, Contents
<1>4. LockInv'
  BY <1>a, <1>c DEF LockInv, Holding
<1>5. TableInv'
  <2>1. ASSUME NEW e, e = [frame |-> frame', page |-> g]
        PROVE  Filling(e)'
    BY <1>a, <1>c, <2>1 DEF Filling
  <2>2. \A e \in T : pagedir[e.page] = e.frame
    BY <1>a DEF IInv, TableInv, T
  <2>3. \A h \in Pages :
          /\ pagedir[h] # NULL => [frame |-> pagedir[h], page |-> h] \in T
          /\ loaded[h] <=> pagedir[h] # NULL
    BY <1>a DEF IInv, TableInv, T
  <2>4. \A e \in T1 : pagedir'[e.page] = e.frame \/ Filling(e)'
    BY <1>b, <2>1, <2>2
  <2> QED
    BY <1>b, <2>3, <2>4 DEF TableInv, T1
<1>6. HolderInv'
  <2>1. \A q \in Procs : pc'[q] \in Holding => q = p
    BY <1>a, <1>c
  <2> QED
    BY <1>a, <1>b, <1>c, <1>d, <2>1 DEF HolderInv, Holding, p, T1
<1>7. VictimInv'
  BY <1>a DEF VictimInv
<1>8. EntryInv'
  <2>1. \A h \in Pages : Owner(h) \in Procs
    BY VMAssumption DEF Owner
  <2> QED
    BY <1>a, <1>c, <2>1 DEF IInv, EntryInv
<1> QED
  BY <1>1, <1>2, <1>3, <1>4, <1>5, <1>6, <1>7, <1>8 DEF IInv

(* evict_frame() finds an entry, and its page is loaded. *)
LEMMA VictimFacts ==
  ASSUME IInv, NEW g \in Pages, NEW who \in Callers, Evicts(g, who)
  PROVE  LET v == frame_table[VictimIndex]
         IN  /\ v \in Range(frame_table) /\ v \in Entries
             /\ pagedir[v.page] = v.frame
             /\ loaded[v.page] /\ ~is_swapped[v.page]
             /\ file_type[v.page] # "none"
PROOF
<1>a. Needs(g, who) /\ frame_table # <<>>
  BY DEF Evicts
<1>b. ~broken /\ \A e : ~Filling(e)
  BY <1>a, NeedsFacts
<1>1. VictimIndex \in DOMAIN frame_table
  <2>1. DOMAIN frame_table = 1 .. Len(frame_table) /\ Len(frame_table) \in Nat \ {0}
    BY <1>a DEF IInv, TypeOK
  <2>2. Unaccessed \subseteq DOMAIN frame_table /\ Unaccessed \subseteq Nat
    BY <2>1 DEF Unaccessed
  <2>3. Unaccessed # {} => Min(Unaccessed) \in Unaccessed
    BY <2>2, MinIn
  <2> QED
    BY <2>1, <2>2, <2>3 DEF VictimIndex
<1> DEFINE v == frame_table[VictimIndex]
<1>2. v \in Range(frame_table)
  BY <1>1 DEF Range
<1> HIDE DEF v
<1>3. v \in Entries /\ v.page \in Pages /\ v.frame \in Frames
  BY <1>b, <1>2, Frames1 DEF Entries
<1>4. pagedir[v.page] = v.frame
  BY <1>b, <1>2 DEF IInv, TableInv
<1>5. loaded[v.page]
  BY <1>b, <1>3, <1>4, NullAssumption DEF IInv, TableInv
<1>6. file_type[v.page] # "none" /\ ~is_swapped[v.page]
  BY <1>b, <1>3, <1>5 DEF IInv, EntryInv, SwapInv
<1> QED
  BY <1>2, <1>3, <1>4, <1>5, <1>6 DEF v

(* What the three ways to begin an eviction have in common. *)
LEMMA EvictsStep ==
  ASSUME IInv, NEW g \in Pages, NEW who \in Callers, Evicts(g, who)
  PROVE  /\ LockInv' /\ TableInv' /\ HolderInv'
         /\ pc' \in [Procs -> Places] /\ pc'[Owner(g)] = "evict"
         /\ \A q \in Procs \ {Owner(g)} : pc'[q] = pc[q]
         /\ accessed' \in [Pages -> BOOLEAN]
         /\ want' \in [Procs -> Pages \cup {NULL}] /\ caller' \in [Procs -> Callers]
         /\ lock_frame' \in Procs
         /\ fte' = frame_table[VictimIndex]
         /\ ~broken /\ slot = 0
         /\ UNCHANGED <<loaded, is_swapped, swap_num, pagedir, dirty, frame_table, free,
                        mem, frame, content, suspect>>
PROOF
<1> DEFINE p == Owner(g)
<1>a. /\ ~broken /\ p \in Procs
      /\ lock_frame' = p
      /\ pc[p] \notin Holding /\ pc[p] # "dead"
      /\ \A q \in Procs : pc[q] \notin Holding
      /\ \A e : ~Filling(e)
      /\ want' \in [Procs -> Pages \cup {NULL}] /\ caller' \in [Procs -> Callers]
      /\ want'[p] = g /\ caller'[p] = who
      /\ who # "check_page_again" => pagedir[g] = NULL
      /\ fte = NULL /\ slot = 0
  BY NeedsFacts DEF Evicts
<1>b. pc' \in [Procs -> Places] /\ pc'[p] = "evict" /\ \A q \in Procs \ {p} : pc'[q] = pc[q]
  BY <1>a DEF Evicts, Goto, IInv, TypeOK, Places, Holding
<1>c. /\ fte' = frame_table[VictimIndex]
      /\ UNCHANGED <<loaded, is_swapped, swap_num, pagedir, dirty, frame_table, free,
                     mem, frame, content, suspect>>
  BY DEF Evicts
<1>d. fte' # NULL
  BY <1>c, VictimFacts, NullAssumption
<1>e. accessed' \in [Pages -> BOOLEAN]
  BY DEF Evicts, AccessedAfterScan
<1> HIDE DEF p
<1>f. \A q \in Procs : pc'[q] \in Holding => q = p
  BY <1>a, <1>b
<1>1. LockInv'
  BY <1>a, <1>b, <1>f DEF LockInv, Holding
<1>2. TableInv'
  BY <1>a, <1>c DEF IInv, TableInv, Unique
<1>3. HolderInv'
  BY <1>a, <1>b, <1>c, <1>d, <1>f DEF HolderInv, Holding, p
<1> QED
  BY <1>1, <1>2, <1>3, <1>a, <1>b, <1>c, <1>e DEF p

LEMMA EvictEntryInv ==
  ASSUME IInv, NEW g \in Pages, NEW who \in Callers, Evicts(g, who),
         \A h \in Pages : file_type'[h] = file_type[h] \/
                            (file_type'[h] = "swap" /\ file_type[h] # "none")
  PROVE  EntryInv'
PROOF
<1>a. /\ ~broken /\ pc'[Owner(g)] = "evict"
      /\ \A q \in Procs \ {Owner(g)} : pc'[q] = pc[q]
      /\ UNCHANGED <<loaded, is_swapped>>
  BY EvictsStep
<1>b. \A h \in Pages : Owner(h) \in Procs
  BY VMAssumption DEF Owner
<1>1. ASSUME NEW h \in Pages
      PROVE  /\ is_swapped'[h] => file_type'[h] = "swap"
             /\ loaded'[h] => file_type'[h] # "none"
             /\ pc'[Owner(h)] = "dead" => file_type'[h] = "none"
             /\ pc'[Owner(h)] = "load" /\ IsStack(h) => file_type'[h] = "none"
  <2>1. pc'[Owner(h)] = "evict" \/ pc'[Owner(h)] = pc[Owner(h)]
    BY <1>a, <1>b
  <2>2. file_type'[h] = file_type[h] \/ (file_type'[h] = "swap" /\ file_type[h] # "none")
    OBVIOUS
  <2>3. /\ is_swapped[h] => file_type[h] = "swap"
        /\ loaded[h] => file_type[h] # "none"
        /\ pc[Owner(h)] = "dead" => file_type[h] = "none"
        /\ pc[Owner(h)] = "load" /\ IsStack(h) => file_type[h] = "none"
    BY <1>a DEF IInv, EntryInv
  <2> QED
    BY <1>a, <2>1, <2>2, <2>3
<1> QED
  BY <1>1 DEF EntryInv

LEMMA EvictCleanStep ==
  ASSUME IInv, NEW g \in Pages, NEW who \in Callers, EvictClean(g, who)
  PROVE  IInv'
PROOF
<1> DEFINE v == frame_table[VictimIndex]
<1>a. /\ Evicts(g, who) /\ ~MustSwap(v.page)
      /\ slot' = 0 /\ UNCHANGED <<file_type, swap_table, swap_device, broken>>
  BY DEF EvictClean, swapVars
<1>b. /\ v \in Range(frame_table) /\ v \in Entries
      /\ loaded[v.page] /\ file_type[v.page] # "none"
  BY <1>a, VictimFacts
<1>c. /\ LockInv' /\ TableInv' /\ HolderInv'
      /\ pc' \in [Procs -> Places]
      /\ accessed' \in [Pages -> BOOLEAN]
      /\ want' \in [Procs -> Pages \cup {NULL}] /\ caller' \in [Procs -> Callers]
      /\ lock_frame' \in Procs
      /\ fte' = v
      /\ ~broken /\ slot = 0
      /\ UNCHANGED <<loaded, is_swapped, swap_num, pagedir, dirty, frame_table, free,
                     mem, frame, content, suspect>>
  BY <1>a, EvictsStep
<1> HIDE DEF v
<1>1. TypeOK'
  BY <1>a, <1>b, <1>c DEF IInv, TypeOK
<1>2. SwapInv'
  BY <1>a, <1>c DEF IInv, SwapInv
<1>3. Contents'
  BY <1>a, <1>c DEF IInv, Contents
<1>4. VictimInv'
  <2>1. v.page \in Pages /\ file_type[v.page] = "file" /\ ~dirty[v.page]
    BY <1>a, <1>b DEF MustSwap, Entries, IInv, TypeOK
  <2>2. v.page \notin suspect => content[v.page] = FileData
    BY <2>1 DEF IInv, Contents
  <2> QED
    BY <1>a, <1>c, <2>1, <2>2 DEF VictimInv
<1>5. EntryInv'
  BY <1>a, EvictEntryInv
<1> QED
  BY <1>1, <1>2, <1>3, <1>4, <1>5, <1>c DEF IInv

(* The slot is nobody's, so no other page loses what it swapped. *)
LEMMA SwapOutStep ==
  ASSUME IInv, NEW g \in Pages, NEW who \in Callers, SwapOut(g, who)
  PROVE  IInv'
PROOF
<1> DEFINE v == frame_table[VictimIndex]
           s == Min(SwapSlots \ swap_table)
<1>a. /\ Evicts(g, who)
      /\ SwapSlots \ swap_table # {}
      /\ file_type' = [file_type EXCEPT ![v.page] = "swap"]
      /\ slot' = s
      /\ swap_table' = swap_table \cup {s}
      /\ swap_device' = [swap_device EXCEPT ![s] = mem[v.frame]]
      /\ UNCHANGED broken
  BY DEF SwapOut
<1>b. /\ v \in Range(frame_table) /\ v \in Entries
      /\ pagedir[v.page] = v.frame
      /\ loaded[v.page] /\ ~is_swapped[v.page]
      /\ file_type[v.page] # "none"
  BY <1>a, VictimFacts
<1>c. /\ LockInv' /\ TableInv' /\ HolderInv'
      /\ pc' \in [Procs -> Places]
      /\ accessed' \in [Pages -> BOOLEAN]
      /\ want' \in [Procs -> Pages \cup {NULL}] /\ caller' \in [Procs -> Callers]
      /\ lock_frame' \in Procs
      /\ fte' = v
      /\ ~broken /\ slot = 0
      /\ UNCHANGED <<loaded, is_swapped, swap_num, pagedir, dirty, frame_table, free,
                     mem, frame, content, suspect>>
  BY <1>a, EvictsStep
<1>d. s \in SwapSlots \ swap_table /\ s # 0
  <2>1. SwapSlots \ swap_table \subseteq Nat
    BY VMAssumption DEF SwapSlots
  <2>2. s \in SwapSlots \ swap_table
    BY <1>a, <2>1, MinIn
  <2> QED
    BY <2>2, VMAssumption DEF SwapSlots
<1> HIDE DEF v, s
<1>e. v.page \in Pages /\ v.frame \in Frames
  BY <1>b DEF Entries
<1>f. file_type'[v.page] = "swap" /\ \A h \in Pages \ {v.page} : file_type'[h] = file_type[h]
  BY <1>a, <1>e DEF IInv, TypeOK
<1>g. /\ swap_device'[s] = mem[v.frame]
      /\ \A t \in SwapSlots \ {s} : swap_device'[t] = swap_device[t]
  BY <1>a, <1>d DEF IInv, TypeOK
<1>1. TypeOK'
  <2>1. file_type' \in [Pages -> {"none", "file", "swap"}]
    BY <1>a DEF IInv, TypeOK
  <2>2. swap_device' \in [SwapSlots -> Values] /\ swap_table' \subseteq SwapSlots
    BY <1>a, <1>d, <1>e DEF IInv, TypeOK
  <2> QED
    BY <1>a, <1>b, <1>c, <1>d, <2>1, <2>2 DEF IInv, TypeOK
<1>2. SwapInv'
  <2>1. ASSUME NEW h \in Pages, is_swapped[h]
        PROVE  ~loaded[h] /\ swap_num[h] \in swap_table
    BY <2>1 DEF IInv, SwapInv
  <2>2. ASSUME NEW h \in Pages, file_type'[h] = "swap"
        PROVE  loaded[h] \/ is_swapped[h]
    BY <1>b, <1>f, <2>2 DEF IInv, SwapInv
  <2> QED
    BY <1>a, <1>c, <1>d, <2>1, <2>2 DEF IInv, SwapInv
<1>3. Contents'
  <2>1. SUFFICES ASSUME NEW h \in Pages \ suspect, file_type'[h] # "none"
                 PROVE  /\ loaded[h] => mem[pagedir[h]] = content[h]
                        /\ is_swapped[h] => swap_device'[swap_num[h]] = content[h]
                        /\ (file_type'[h] = "file" /\ ~(loaded[h] /\ dirty[h]))
                              => content[h] = FileData
    BY <1>c DEF Contents
  <2>2. file_type[h] # "none" /\ (file_type'[h] = "file" => file_type[h] = "file")
    BY <1>b, <1>f, <2>1
  <2>3. is_swapped[h] => swap_device'[swap_num[h]] = swap_device[swap_num[h]]
    BY <1>d, <1>g DEF IInv, SwapInv, TypeOK
  <2> QED
    BY <2>2, <2>3 DEF IInv, Contents
<1>4. VictimInv'
  <2>1. v.page \notin suspect => content[v.page] = mem[v.frame]
    BY <1>b, <1>e DEF IInv, Contents
  <2> QED
    BY <1>a, <1>c, <1>d, <1>f, <1>g, <2>1 DEF VictimInv
<1>5. EntryInv'
  BY <1>a, <1>b, <1>f, EvictEntryInv
<1> QED
  BY <1>1, <1>2, <1>3, <1>4, <1>5, <1>c DEF IInv

LEMMA SwapFullStep ==
  ASSUME IInv, NEW g \in Pages, NEW who \in Callers, SwapFull(g, who)
  PROVE  IInv'
PROOF
<1>a. /\ Evicts(g, who) /\ broken' = TRUE
      /\ slot' = 0 /\ UNCHANGED <<file_type, swap_table, swap_device>>
  BY DEF SwapFull, swapVars
<1>b. frame_table[VictimIndex] \in Entries
  BY <1>a, VictimFacts
<1>c. /\ pc' \in [Procs -> Places]
      /\ accessed' \in [Pages -> BOOLEAN]
      /\ want' \in [Procs -> Pages \cup {NULL}] /\ caller' \in [Procs -> Callers]
      /\ lock_frame' \in Procs
      /\ fte' = frame_table[VictimIndex]
      /\ slot = 0
      /\ UNCHANGED <<loaded, is_swapped, swap_num, pagedir, dirty, frame_table, free,
                     mem, frame, content, suspect>>
  BY <1>a, EvictsStep
<1>1. TypeOK'
  BY <1>a, <1>b, <1>c DEF IInv, TypeOK
<1>2. SwapInv'
  BY <1>a, <1>c DEF IInv, SwapInv
<1>3. Contents'
  BY <1>a, <1>c DEF IInv, Contents
<1> QED
  BY <1>a, <1>1, <1>2, <1>3 DEF IInv

-----------------------------------------------------------------------------
(* The victim is unmapped, and its frame or another goes to the holder. *)

LEMMA EvictDoneStep ==
  ASSUME IInv, NEW p \in Procs, EvictDone(p)
  PROVE  IInv'
PROOF
<1> DEFINE v == fte.page
           w == want[p]
           T == Range(frame_table)
           T1 == Range(frame_table')
           rest == RemoveFirst(frame_table, fte)
           pool == free \cup {fte.frame}
<1>a. /\ ~broken /\ ~broken' /\ pc[p] = "evict" /\ fte \in T
      /\ is_swapped' = [is_swapped EXCEPT ![v] = @ \/ slot # 0]
      /\ swap_num' = [swap_num EXCEPT ![v] = IF slot # 0 THEN slot ELSE @]
      /\ pagedir' = [pagedir EXCEPT ![v] = NULL]
      /\ loaded' = [loaded EXCEPT ![v] = FALSE]
      /\ mem' = [mem EXCEPT ![fte.frame] = Freed]
      /\ TakeFrame(w, pool, rest)
      /\ fte' = NULL /\ slot' = 0
      /\ UNCHANGED <<file_type, accessed, dirty, swap_table, swap_device, lock_frame, want,
                     caller, broken, content, suspect>>
  BY DEF EvictDone, pagedir_clear_page, swapVars
<1>b. /\ w \in Pages /\ Owner(w) = p
      /\ caller[p] # "check_page_again" => pagedir[w] = NULL
      /\ fte # NULL /\ lock_frame = p
      /\ \A q \in Procs \ {p} : pc[q] \notin Holding
  BY <1>a, NoOtherHolder DEF IInv, HolderInv, Holding
<1>c. fte \in Entries /\ v \in Pages /\ fte.frame \in Frames /\ T \subseteq Entries
  BY <1>a, Frames1 DEF Entries
<1>d. \A e : ~Filling(e)
  BY <1>a, <1>b DEF Filling, Holding
<1>e. /\ pagedir[v] = fte.frame /\ loaded[v] /\ ~is_swapped[v]
  <2>1. pagedir[v] = fte.frame
    BY <1>a, <1>d DEF IInv, TableInv
  <2>2. loaded[v]
    BY <1>a, <1>c, <2>1, NullAssumption DEF IInv, TableInv
  <2> QED
    BY <1>c, <2>1, <2>2 DEF IInv, SwapInv
<1>f. /\ rest \in Seq(Entries) /\ Unique(rest) /\ Range(rest) = T \ {fte}
  BY <1>a, TableRemove DEF IInv, TypeOK, TableInv
<1>g. pool = Frames \ {e.frame : e \in Range(rest)}
  <2>1. free = Frames \ {e.frame : e \in T}
    BY <1>a DEF IInv, TableInv
  <2>2. \A d, e \in T : d.frame = e.frame => d = e
    BY <1>a, Frames1
  <2>3. \A x \in Frames : x \in pool <=> x \notin {e.frame : e \in T \ {fte}}
    BY <1>a, <2>1, <2>2
  <2>4. pool \subseteq Frames
    BY <1>c, <2>1
  <2> QED
    BY <1>f, <2>3, <2>4
<1>h. /\ frame' \in Frames /\ frame' \in pool
      /\ frame_table' \in Seq(Entries)
      /\ Unique(frame_table')
      /\ T1 = Range(rest) \cup {[frame |-> frame', page |-> w]}
      /\ free' = Frames \ {e.frame : e \in T1}
  <2>1. pool # {}
    OBVIOUS
  <2> HIDE DEF pool, rest, w
  <2> QED
    BY <1>a, <1>b, <1>f, <1>g, <2>1, Taken
<1>i. pc' \in [Procs -> Places] /\ pc'[p] = "fill" /\ \A q \in Procs \ {p} : pc'[q] = pc[q]
  BY <1>a, <1>b DEF TakeFrame, Goto, IInv, TypeOK, Places, Holding
<1>j. pagedir'[v] = NULL /\ \A h \in Pages \ {v} : pagedir'[h] = pagedir[h]
  BY <1>a, <1>c DEF IInv, TypeOK
<1>k. loaded'[v] = FALSE /\ \A h \in Pages \ {v} : loaded'[h] = loaded[h]
  BY <1>a, <1>c DEF IInv, TypeOK
<1>l. /\ is_swapped'[v] <=> slot # 0
      /\ slot # 0 => swap_num'[v] = slot
      /\ \A h \in Pages \ {v} : is_swapped'[h] = is_swapped[h] /\ swap_num'[h] = swap_num[h]
  BY <1>a, <1>c, <1>e DEF IInv, TypeOK
<1>m. \A h \in Pages \ {v} : pagedir[h] # NULL =>
        pagedir[h] # fte.frame /\ [frame |-> pagedir[h], page |-> h] \in Range(rest)
  <2>1. ASSUME NEW h \in Pages \ {v}, pagedir[h] # NULL
        PROVE  pagedir[h] # fte.frame /\ [frame |-> pagedir[h], page |-> h] \in Range(rest)
    <3>1. pagedir[h] # pagedir[v]
      BY <1>a, <1>c, <2>1, Frames1
    <3>2. [frame |-> pagedir[h], page |-> h] \in T
      BY <1>a, <2>1 DEF IInv, TableInv
    <3> QED
      BY <1>e, <1>f, <3>1, <3>2
  <2> QED
    BY <2>1
<1>n. \A h \in Pages : pagedir'[h] # frame'
  <2>1. ASSUME NEW h \in Pages, pagedir'[h] = frame'
        PROVE  FALSE
    <3>1. h # v /\ pagedir'[h] # NULL
      BY <1>h, <1>j, <2>1, NullAssumption
    <3>2. [frame |-> frame', page |-> h] \in Range(rest)
      BY <1>j, <1>m, <2>1, <3>1
    <3> QED
      BY <1>g, <1>h, <3>2
  <2> QED
    BY <2>1
<1>o. /\ file_type[v] = IF slot = 0 THEN "file" ELSE "swap"
      /\ v \notin suspect => content[v] = IF slot = 0 THEN FileData ELSE swap_device[slot]
  BY <1>a, <1>b DEF IInv, VictimInv
<1> HIDE DEF v, w, T, T1, rest, pool
<1>1. TypeOK'
  <2>1. is_swapped' \in [Pages -> BOOLEAN] /\ loaded' \in [Pages -> BOOLEAN]
    BY <1>a DEF IInv, TypeOK
  <2>2. swap_num' \in [Pages -> SwapSlots \cup {0}]
    BY <1>a DEF IInv, TypeOK
  <2>3. pagedir' \in [Pages -> Frames \cup {NULL}]
    BY <1>a DEF IInv, TypeOK
  <2>4. mem' \in [Frames -> Values]
    BY <1>a DEF IInv, TypeOK, Values
  <2>5. free' \subseteq Frames
    BY <1>h
  <2> QED
    BY <1>a, <1>h, <1>i, <2>1, <2>2, <2>3, <2>4, <2>5 DEF IInv, TypeOK
<1>2. SwapInv'
  <2>1. /\ \A h \in Pages :
             /\ is_swapped[h] => ~loaded[h] /\ swap_num[h] \in swap_table \ {slot}
             /\ file_type[h] = "swap" => loaded[h] \/ is_swapped[h]
        /\ \A h, k \in Pages : (is_swapped[h] /\ is_swapped[k] /\ swap_num[h] = swap_num[k])
                                  => h = k
        /\ slot # 0 => slot \in swap_table
        /\ swap_table \subseteq SwapSlots
    BY DEF IInv, SwapInv, TypeOK
  <2>2. 0 \notin swap_table
    BY <2>1, VMAssumption DEF SwapSlots
  <2>3. ASSUME NEW h \in Pages
        PROVE  /\ is_swapped'[h] => ~loaded'[h] /\ swap_num'[h] \in swap_table \ {0}
               /\ file_type[h] = "swap" => loaded'[h] \/ is_swapped'[h]
    <3>1. CASE h = v
      BY <1>k, <1>l, <1>o, <2>1, <2>2, <3>1
    <3>2. CASE h # v
      BY <1>k, <1>l, <2>1, <2>2, <3>2
    <3> QED
      BY <3>1, <3>2
  <2>4. ASSUME NEW h \in Pages, NEW k \in Pages,
               is_swapped'[h], is_swapped'[k], swap_num'[h] = swap_num'[k]
        PROVE  h = k
    BY <1>l, <2>1, <2>4
  <2> QED
    BY <1>a, <2>3, <2>4 DEF SwapInv
<1>3. Contents'
  <2>1. SUFFICES ASSUME NEW h \in Pages \ suspect, file_type[h] # "none"
                 PROVE  /\ loaded'[h] => mem'[pagedir'[h]] = content[h]
                        /\ is_swapped'[h] => swap_device[swap_num'[h]] = content[h]
                        /\ (file_type[h] = "file" /\ ~(loaded'[h] /\ dirty[h]))
                              => content[h] = FileData
    BY <1>a DEF Contents
  <2>2. CASE h = v
    BY <1>k, <1>l, <1>o, <2>2
  <2>3. CASE h # v
    <3>1. /\ loaded[h] => mem[pagedir[h]] = content[h]
          /\ is_swapped[h] => swap_device[swap_num[h]] = content[h]
          /\ (file_type[h] = "file" /\ ~(loaded[h] /\ dirty[h])) => content[h] = FileData
      BY <2>1 DEF IInv, Contents
    <3>2. loaded[h] => pagedir[h] # NULL /\ pagedir[h] \in Frames
      BY <1>a DEF IInv, TypeOK, TableInv
    <3>3. loaded[h] => mem'[pagedir[h]] = mem[pagedir[h]]
      BY <1>a, <1>m, <2>3, <3>2 DEF IInv, TypeOK
    <3> QED
      BY <1>j, <1>k, <1>l, <2>3, <3>1, <3>3
  <2> QED
    BY <2>2, <2>3
<1>j1. \A q \in Procs : pc'[q] \in Holding => q = p
  BY <1>b, <1>i
<1>4. LockInv'
  BY <1>a, <1>b, <1>i, <1>j1 DEF LockInv, Holding
<1>5. TableInv'
  <2>1. ASSUME NEW e, e = [frame |-> frame', page |-> w]
        PROVE  Filling(e)'
    BY <1>a, <1>i, <2>1 DEF Filling, w
  <2>2. ASSUME NEW e \in Range(rest)
        PROVE  pagedir'[e.page] = e.frame
    <3>1. e \in T /\ e # fte /\ e.page \in Pages
      BY <1>c, <1>f DEF Entries
    <3>2. pagedir[e.page] = e.frame
      BY <1>a, <1>d, <3>1 DEF IInv, TableInv, T
    <3>3. e.frame # fte.frame
      BY <1>a, <3>1, Frames1 DEF T
    <3> QED
      BY <1>e, <1>j, <3>1, <3>2, <3>3
  <2>3. \A e \in T1 : pagedir'[e.page] = e.frame \/ Filling(e)'
    BY <1>h, <2>1, <2>2
  <2>4. \A h \in Pages :
          /\ pagedir'[h] # NULL => [frame |-> pagedir'[h], page |-> h] \in T1
          /\ loaded'[h] <=> pagedir'[h] # NULL
    <3>1. \A h \in Pages : loaded[h] <=> pagedir[h] # NULL
      BY <1>a DEF IInv, TableInv
    <3> QED
      BY <1>h, <1>j, <1>k, <1>m, <3>1
  <2> QED
    BY <1>h, <2>3, <2>4 DEF TableInv, T1
<1>6. HolderInv'
  <2>1. w = v => pagedir'[w] = NULL
    BY <1>j
  <2>2. caller[p] # "check_page_again" => pagedir'[w] = NULL
    BY <1>b, <1>j, <2>1
  <2> QED
    BY <1>a, <1>b, <1>h, <1>i, <1>j1, <1>n, <2>2 DEF HolderInv, Holding, w, T1
<1>7. VictimInv'
  BY <1>a DEF VictimInv
<1>8. EntryInv'
  <2>1. \A h \in Pages : Owner(h) \in Procs
    BY VMAssumption DEF Owner
  <2>2. \A h \in Pages : pc'[Owner(h)] = "fill" \/ pc'[Owner(h)] = pc[Owner(h)]
    BY <1>i, <2>1
  <2>3. \A h \in Pages : is_swapped'[h] => file_type[h] = "swap"
    BY <1>a, <1>l, <1>o DEF IInv, EntryInv
  <2>4. \A h \in Pages : loaded'[h] => loaded[h]
    BY <1>k
  <2> QED
    BY <1>a, <2>2, <2>3, <2>4 DEF IInv, EntryInv
<1> QED
  BY <1>1, <1>2, <1>3, <1>4, <1>5, <1>6, <1>7, <1>8 DEF IInv

-----------------------------------------------------------------------------
(* The page is installed: what its three sources have in common. *)

LEMMA FillsFacts ==
  ASSUME IInv, NEW p \in Procs, NEW data \in Values, Fills(p, data)
  PROVE  /\ ~broken /\ ~broken' /\ pc[p] = "fill" /\ frame \in Frames
         /\ want[p] \in Pages /\ Owner(want[p]) = p
         /\ ~loaded[want[p]]
         /\ loaded'[want[p]] /\ dirty'[want[p]] = FALSE
         /\ \A h \in Pages \ {want[p]} : /\ pagedir'[h] = pagedir[h]
                                         /\ loaded'[h] = loaded[h]
                                         /\ dirty'[h] = dirty[h]
         /\ pagedir'[want[p]] = frame /\ mem'[frame] = data
         /\ \A f \in Frames \ {frame} : mem'[f] = mem[f]
         /\ \A h \in Pages : pagedir[h] # frame
         /\ slot' = 0 /\ slot = 0
         /\ UNCHANGED <<swap_num, swap_device, suspect>>
         /\ LockInv' /\ TableInv' /\ HolderInv' /\ VictimInv'
         /\ pc'[p] \in {"again", "user"} /\ \A q \in Procs \ {p} : pc'[q] = pc[q]
PROOF
<1> DEFINE g == want[p]
           T == Range(frame_table)
<1>a. /\ ~broken /\ pc[p] = "fill" /\ caller[p] # "check_page_again"
      /\ pagedir_set_page(g, frame)
      /\ loaded' = [loaded EXCEPT ![g] = TRUE]
      /\ mem' = [mem EXCEPT ![frame] = data]
      /\ lock_frame' = NULL
      /\ Goto(p, "again") \/ Goto(p, "user")
      /\ UNCHANGED <<swap_num, frame_table, free, want, caller, fte, slot, swap_device,
                     broken, suspect>>
  BY DEF Fills
<1>b. /\ g \in Pages /\ Owner(g) = p /\ pagedir[g] = NULL
      /\ frame \in Frames /\ [frame |-> frame, page |-> g] \in T
      /\ \A h \in Pages : pagedir[h] # frame
  BY <1>a DEF IInv, HolderInv, Holding
<1>c. lock_frame = p /\ \A q \in Procs \ {p} : pc[q] \notin Holding
  BY <1>a, NoOtherHolder DEF IInv, Holding
<1>d. fte = NULL /\ slot = 0
  BY <1>a, <1>c DEF IInv, HolderInv, Holding
<1>e. /\ pc'[p] \in {"again", "user"} /\ \A q \in Procs \ {p} : pc'[q] = pc[q]
  BY <1>a DEF Goto, IInv, TypeOK
<1>f. \A q \in Procs : pc'[q] \notin Holding
  BY <1>c, <1>e DEF Holding
<1>g. /\ pagedir'[g] = frame /\ dirty'[g] = FALSE /\ loaded'[g] = TRUE
      /\ \A h \in Pages \ {g} : /\ pagedir'[h] = pagedir[h]
                                /\ loaded'[h] = loaded[h]
                                /\ dirty'[h] = dirty[h]
  BY <1>a, <1>b DEF pagedir_set_page, IInv, TypeOK
<1>h. mem'[frame] = data /\ \A f \in Frames \ {frame} : mem'[f] = mem[f]
  BY <1>a, <1>b DEF IInv, TypeOK
<1>i. ~loaded[g]
  BY <1>a, <1>b DEF IInv, TableInv
<1> HIDE DEF g, T
<1>1. LockInv'
  BY <1>a, <1>f, VMAssumption DEF LockInv
<1>2. TableInv'
  <2>1. ASSUME NEW e \in T
        PROVE  pagedir'[e.page] = e.frame
    <3>1. e.page \in Pages
      BY <1>a, Frames1 DEF Entries, T
    <3>2. CASE Filling(e)
      <4>1. e = [frame |-> frame, page |-> g]
        BY <1>c, <3>2 DEF Filling, Holding, g
      <4> QED
        BY <1>g, <4>1
    <3>3. CASE ~Filling(e)
      <4>1. pagedir[e.page] = e.frame
        BY <1>a, <3>3 DEF IInv, TableInv, T
      <4>2. e.page # g
        BY <1>a, <1>b, <3>1, <4>1, Frames1, NullAssumption DEF T, Entries
      <4> QED
        BY <1>g, <3>1, <4>1, <4>2
    <3> QED
      BY <3>2, <3>3
  <2>2. \A h \in Pages :
          /\ pagedir[h] # NULL => [frame |-> pagedir[h], page |-> h] \in T
          /\ loaded[h] <=> pagedir[h] # NULL
    BY <1>a DEF IInv, TableInv, T
  <2>3. ASSUME NEW h \in Pages
        PROVE  /\ pagedir'[h] # NULL => [frame |-> pagedir'[h], page |-> h] \in T
               /\ loaded'[h] <=> pagedir'[h] # NULL
    <3>1. CASE h = g
      BY <1>b, <1>g, <3>1, NullAssumption
    <3>2. CASE h # g
      BY <1>g, <2>2, <3>2
    <3> QED
      BY <3>1, <3>2
  <2>4. free = Frames \ {e.frame : e \in T} /\ Unique(frame_table)
    BY <1>a DEF IInv, TableInv, T
  <2> QED
    BY <1>a, <2>1, <2>3, <2>4 DEF TableInv, T, Unique
<1>3. HolderInv'
  BY <1>a, <1>d, <1>f DEF HolderInv, Holding
<1>4. VictimInv'
  BY <1>a, <1>d DEF VictimInv
<1> QED
  BY <1>a, <1>b, <1>d, <1>e, <1>g, <1>h, <1>i, <1>1, <1>2, <1>3, <1>4 DEF g

LEMMA FillsTypes ==
  ASSUME IInv, NEW p \in Procs, NEW data \in Values, Fills(p, data),
         file_type' \in [Pages -> {"none", "file", "swap"}],
         is_swapped' \in [Pages -> BOOLEAN],
         swap_table' \subseteq SwapSlots,
         content' \in [Pages -> Values]
  PROVE  TypeOK'
PROOF
<1>a. frame \in Frames /\ want[p] \in Pages
  BY FillsFacts
<1>1. pagedir' \in [Pages -> Frames \cup {NULL}]
  BY <1>a DEF Fills, pagedir_set_page, IInv, TypeOK
<1>2. accessed' \in [Pages -> BOOLEAN] /\ dirty' \in [Pages -> BOOLEAN]
  BY <1>a DEF Fills, pagedir_set_page, IInv, TypeOK
<1>3. loaded' \in [Pages -> BOOLEAN]
  BY <1>a DEF Fills, IInv, TypeOK
<1>4. mem' \in [Frames -> Values]
  BY <1>a DEF Fills, IInv, TypeOK
<1>5. pc' \in [Procs -> Places]
  BY DEF Fills, Goto, IInv, TypeOK, Places
<1>6. lock_frame' = NULL /\ frame' = NULL
  BY DEF Fills
<1>7. UNCHANGED <<swap_num, frame_table, free, want, caller, fte, slot, swap_device,
                  broken, suspect>>
  BY DEF Fills
<1> QED
  BY <1>1, <1>2, <1>3, <1>4, <1>5, <1>6, <1>7 DEF IInv, TypeOK

(* The page that was filled holds what it should, the others are as they were. *)
LEMMA FillsContents ==
  ASSUME IInv, NEW p \in Procs, NEW data \in Values, Fills(p, data),
         \A h \in Pages \ {want[p]} : /\ file_type'[h] = file_type[h]
                                      /\ is_swapped'[h] = is_swapped[h]
                                      /\ content'[h] = content[h],
         ~is_swapped'[want[p]],
         want[p] \notin suspect => content'[want[p]] = data,
         want[p] \notin suspect /\ file_type'[want[p]] = "file" => data = FileData
  PROVE  Contents'
PROOF
<1> DEFINE g == want[p]
<1>a. /\ ~broken /\ g \in Pages /\ frame \in Frames
      /\ loaded'[g]
      /\ \A h \in Pages \ {g} : /\ pagedir'[h] = pagedir[h]
                                /\ loaded'[h] = loaded[h]
                                /\ dirty'[h] = dirty[h]
      /\ pagedir'[g] = frame /\ mem'[frame] = data
      /\ \A f \in Frames \ {frame} : mem'[f] = mem[f]
      /\ \A h \in Pages : pagedir[h] # frame
      /\ UNCHANGED <<swap_num, swap_device, suspect>>
  BY FillsFacts
<1>b. /\ \A h \in Pages \ {g} : /\ file_type'[h] = file_type[h]
                                /\ is_swapped'[h] = is_swapped[h]
                                /\ content'[h] = content[h]
      /\ ~is_swapped'[g]
      /\ g \notin suspect => content'[g] = data
      /\ g \notin suspect /\ file_type'[g] = "file" => data = FileData
  OBVIOUS
<1> HIDE DEF g
<1>1. SUFFICES ASSUME NEW h \in Pages \ suspect, file_type'[h] # "none"
               PROVE  /\ loaded'[h] => mem'[pagedir'[h]] = content'[h]
                      /\ is_swapped'[h] => swap_device[swap_num[h]] = content'[h]
                      /\ (file_type'[h] = "file" /\ ~(loaded'[h] /\ dirty'[h]))
                            => content'[h] = FileData
  BY <1>a DEF Contents
<1>2. CASE h = g
  BY <1>a, <1>b, <1>2
<1>3. CASE h # g
  <2>1. /\ loaded[h] => mem[pagedir[h]] = content[h]
        /\ is_swapped[h] => swap_device[swap_num[h]] = content[h]
        /\ (file_type[h] = "file" /\ ~(loaded[h] /\ dirty[h])) => content[h] = FileData
    BY <1>b, <1>1, <1>3 DEF IInv, Contents
  <2>2. loaded[h] => pagedir[h] # NULL
    BY <1>a DEF IInv, TableInv
  <2>3. pagedir[h] \in Frames \cup {NULL}
    BY DEF IInv, TypeOK
  <2> QED
    BY <1>a, <1>b, <1>3, <2>1, <2>2, <2>3
<1> QED
  BY <1>2, <1>3

LEMMA FillsEntries ==
  ASSUME IInv, NEW p \in Procs, NEW data \in Values, Fills(p, data),
         \A h \in Pages \ {want[p]} : /\ file_type'[h] = file_type[h]
                                      /\ is_swapped'[h] = is_swapped[h],
         ~is_swapped'[want[p]],
         file_type'[want[p]] # "none"
  PROVE  EntryInv'
PROOF
<1> DEFINE g == want[p]
<1>a. /\ ~broken /\ g \in Pages /\ Owner(g) = p
      /\ \A h \in Pages \ {g} : loaded'[h] = loaded[h]
      /\ pc'[p] \in {"again", "user"} /\ \A q \in Procs \ {p} : pc'[q] = pc[q]
  BY FillsFacts
<1>b. \A h \in Pages : Owner(h) \in Procs
  BY VMAssumption DEF Owner
<1>1. ASSUME NEW h \in Pages
      PROVE  /\ is_swapped'[h] => file_type'[h] = "swap"
             /\ loaded'[h] => file_type'[h] # "none"
             /\ pc'[Owner(h)] = "dead" => file_type'[h] = "none"
             /\ pc'[Owner(h)] = "load" /\ IsStack(h) => file_type'[h] = "none"
  <2>1. CASE h = g
    BY <1>a, <2>1
  <2>2. CASE h # g
    <3>1. /\ is_swapped'[h] = is_swapped[h] /\ file_type'[h] = file_type[h]
          /\ loaded'[h] = loaded[h]
      BY <1>a, <2>2
    <3>2. pc'[Owner(h)] \in {"again", "user"} \/ pc'[Owner(h)] = pc[Owner(h)]
      BY <1>a, <1>b
    <3> QED
      BY <1>a, <3>1, <3>2 DEF IInv, EntryInv
  <2> QED
    BY <2>1, <2>2
<1> QED
  BY <1>1 DEF EntryInv

LEMMA FileHandlingStep ==
  ASSUME IInv, NEW p \in Procs, FileHandling(p)
  PROVE  IInv'
PROOF
<1> DEFINE g == want[p]
<1>a. /\ file_type[g] = "file" /\ Fills(p, FileData)
      /\ UNCHANGED <<file_type, is_swapped, swap_table, content>>
  BY DEF FileHandling
<1>b. FileData \in Values
  BY DEF Values
<1>c. /\ ~broken /\ ~broken' /\ g \in Pages
      /\ ~loaded[g] /\ loaded'[g]
      /\ \A h \in Pages \ {g} : loaded'[h] = loaded[h]
      /\ slot' = 0 /\ slot = 0
      /\ UNCHANGED <<swap_num, suspect>>
      /\ LockInv' /\ TableInv' /\ HolderInv' /\ VictimInv'
  BY <1>a, <1>b, FillsFacts
<1>d. ~is_swapped[g]
  BY <1>a, <1>c DEF IInv, EntryInv
<1>e. g \notin suspect => content[g] = FileData
  BY <1>a, <1>c DEF IInv, Contents
<1>1. TypeOK'
  <2>1. /\ file_type' \in [Pages -> {"none", "file", "swap"}]
        /\ is_swapped' \in [Pages -> BOOLEAN]
        /\ swap_table' \subseteq SwapSlots
        /\ content' \in [Pages -> Values]
    BY <1>a DEF IInv, TypeOK
  <2> QED
    BY <1>a, <1>b, <2>1, FillsTypes
<1>2. SwapInv'
  BY <1>a, <1>c, <1>d DEF IInv, SwapInv
<1>3. Contents'
  BY <1>a, <1>b, <1>d, <1>e, FillsContents
<1>4. EntryInv'
  BY <1>a, <1>b, <1>d, FillsEntries
<1> QED
  BY <1>1, <1>2, <1>3, <1>4, <1>c DEF IInv

(* The slot that is freed is the page's own. *)
LEMMA SwapHandlingStep ==
  ASSUME IInv, NEW p \in Procs, SwapHandling(p)
  PROVE  IInv'
PROOF
<1> DEFINE g == want[p]
           data == IF is_swapped[g] THEN SwappedIn(g) ELSE mem[frame]
<1>a. /\ file_type[g] = "swap" /\ pc[p] = "fill" /\ Fills(p, data)
      /\ is_swapped' = [is_swapped EXCEPT ![g] = FALSE]
      /\ IF is_swapped[g] THEN swap_table' = swap_table \ {swap_num[g]}
         ELSE swap_table' = swap_table
      /\ UNCHANGED <<file_type, content>>
  BY DEF SwapHandling, swap_in
<1>b. ~broken /\ g \in Pages /\ frame \in Frames /\ pagedir[g] = NULL
  BY <1>a DEF Fills, IInv, HolderInv, Holding
<1>c. is_swapped[g] /\ data = swap_device[swap_num[g]]
  BY <1>a, <1>b DEF IInv, TableInv, SwapInv, SwappedIn
<1>d. swap_num[g] \in SwapSlots /\ data \in Values
  BY <1>b, <1>c DEF IInv, SwapInv, TypeOK
<1> HIDE DEF data
<1>e. /\ ~broken' /\ ~loaded[g] /\ loaded'[g]
      /\ \A h \in Pages \ {g} : loaded'[h] = loaded[h]
      /\ slot' = 0 /\ slot = 0
      /\ UNCHANGED <<swap_num, suspect>>
      /\ LockInv' /\ TableInv' /\ HolderInv' /\ VictimInv'
  BY <1>a, <1>d, FillsFacts
<1>f. g \notin suspect => content[g] = data
  BY <1>a, <1>b, <1>c DEF IInv, Contents
<1>g. is_swapped'[g] = FALSE /\ \A h \in Pages \ {g} : is_swapped'[h] = is_swapped[h]
  BY <1>a, <1>b DEF IInv, TypeOK
<1>1. TypeOK'
  <2>1. /\ file_type' \in [Pages -> {"none", "file", "swap"}]
        /\ is_swapped' \in [Pages -> BOOLEAN]
        /\ swap_table' \subseteq SwapSlots
        /\ content' \in [Pages -> Values]
    BY <1>a DEF IInv, TypeOK
  <2> QED
    BY <1>a, <1>d, <2>1, FillsTypes
<1>2. SwapInv'
  <2>1. /\ \A h \in Pages :
             /\ is_swapped[h] => ~loaded[h] /\ swap_num[h] \in swap_table \ {0}
             /\ file_type[h] = "swap" => loaded[h] \/ is_swapped[h]
        /\ \A h, k \in Pages : (is_swapped[h] /\ is_swapped[k] /\ swap_num[h] = swap_num[k])
                                  => h = k
    BY <1>e DEF IInv, SwapInv
  <2>2. ASSUME NEW h \in Pages
        PROVE  /\ is_swapped'[h] => ~loaded'[h] /\ swap_num[h] \in swap_table' \ {0}
               /\ file_type[h] = "swap" => loaded'[h] \/ is_swapped'[h]
    <3>1. CASE h = g
      BY <1>e, <1>g, <3>1
    <3>2. CASE h # g
      BY <1>a, <1>b, <1>c, <1>e, <1>g, <2>1, <3>2
    <3> QED
      BY <3>1, <3>2
  <2>3. \A h, k \in Pages : (is_swapped'[h] /\ is_swapped'[k] /\ swap_num[h] = swap_num[k])
                               => h = k
    BY <1>g, <2>1
  <2> QED
    BY <1>a, <1>e, <2>2, <2>3 DEF SwapInv
<1>3. Contents'
  BY <1>a, <1>d, <1>f, <1>g, FillsContents
<1>4. EntryInv'
  BY <1>a, <1>d, <1>g, FillsEntries
<1> QED
  BY <1>1, <1>2, <1>3, <1>4, <1>b, <1>e DEF IInv

LEMMA GrowStackStep ==
  ASSUME IInv, NEW p \in Procs, GrowStack(p)
  PROVE  IInv'
PROOF
<1> DEFINE g == want[p]
           data == IF caller[p] = "setup_stack" THEN Zero ELSE mem[frame]
<1>a. /\ file_type[g] = "none" /\ pc[p] = "fill" /\ Fills(p, data)
      /\ file_type' = [file_type EXCEPT ![g] = "swap"]
      /\ content' = [content EXCEPT ![g] = data]
      /\ UNCHANGED <<is_swapped, swap_table>>
  BY DEF GrowStack, find_page, InsertPage
<1>b. ~broken /\ g \in Pages /\ frame \in Frames
  BY <1>a DEF Fills, IInv, HolderInv, Holding
<1>d. data \in Values
  BY <1>b DEF IInv, TypeOK, Values
<1> HIDE DEF data
<1>e. /\ ~broken' /\ ~loaded[g] /\ loaded'[g]
      /\ \A h \in Pages \ {g} : loaded'[h] = loaded[h]
      /\ slot' = 0 /\ slot = 0
      /\ UNCHANGED <<swap_num, suspect>>
      /\ LockInv' /\ TableInv' /\ HolderInv' /\ VictimInv'
  BY <1>a, <1>d, FillsFacts
<1>f. ~is_swapped[g]
  BY <1>a, <1>b DEF IInv, EntryInv
<1>g. /\ file_type'[g] = "swap" /\ content'[g] = data
      /\ \A h \in Pages \ {g} : file_type'[h] = file_type[h] /\ content'[h] = content[h]
  BY <1>a, <1>b DEF IInv, TypeOK
<1>1. TypeOK'
  <2>1. /\ file_type' \in [Pages -> {"none", "file", "swap"}]
        /\ is_swapped' \in [Pages -> BOOLEAN]
        /\ swap_table' \subseteq SwapSlots
    BY <1>a DEF IInv, TypeOK
  <2>2. content' \in [Pages -> Values]
    BY <1>a, <1>d DEF IInv, TypeOK
  <2> QED
    BY <1>a, <1>d, <2>1, <2>2, FillsTypes
<1>2. SwapInv'
  BY <1>a, <1>e, <1>f, <1>g DEF IInv, SwapInv
<1>3. Contents'
  BY <1>a, <1>d, <1>f, <1>g, FillsContents
<1>4. EntryInv'
  BY <1>a, <1>d, <1>f, <1>g, FillsEntries
<1> QED
  BY <1>1, <1>2, <1>3, <1>4, <1>b, <1>e DEF IInv

(* The second grow_stack() of check_page() gives back the frame it took. *)
LEMMA GrowStackAgainStep ==
  ASSUME IInv, NEW p \in Procs, GrowStackAgain(p)
  PROVE  IInv'
PROOF
<1> DEFINE T == Range(frame_table)
           T1 == Range(frame_table')
<1> USE DEF sptVars, pteVars, swapVars
<1>a. /\ ~broken /\ pc[p] = "fill" /\ frame' = NULL /\ lock_frame' = NULL
      /\ pc' = [pc EXCEPT ![p] = "exit"]
      /\ UNCHANGED <<sptVars, pteVars, swapVars, want, caller, fte, slot, content, suspect>>
  BY DEF GrowStackAgain, Goto
<1>b. /\ frame \in Frames /\ want[p] \in Pages /\ Owner(want[p]) = p
      /\ \A h \in Pages : pagedir[h] # frame
  BY <1>a DEF IInv, HolderInv, Holding
<1>c. lock_frame = p /\ \A q \in Procs \ {p} : pc[q] \notin Holding
  BY <1>a, NoOtherHolder DEF IInv, Holding
<1>d. fte = NULL /\ slot = 0
  BY <1>a, <1>c DEF IInv, HolderInv, Holding
<1>e. pc' \in [Procs -> Places] /\ pc'[p] = "exit" /\ \A q \in Procs \ {p} : pc'[q] = pc[q]
  BY <1>a DEF IInv, TypeOK, Places
<1>f. \A q \in Procs : pc'[q] \notin Holding
  BY <1>c, <1>e DEF Holding
<1>1. SwapInv'
  BY <1>a DEF IInv, SwapInv
<1>2. CASE pagedir[want[p]] = NULL
  <2>a. broken' = TRUE /\ UNCHANGED <<frame_table, free, mem>>
    BY <1>2 DEF GrowStackAgain
  <2>1. TypeOK'
    BY <1>a, <1>e, <2>a DEF IInv, TypeOK
  <2>2. Contents'
    BY <1>a, <2>a DEF IInv, Contents
  <2> QED
    BY <1>1, <2>a, <2>1, <2>2 DEF IInv
<1>3. CASE pagedir[want[p]] # NULL
  <2>a. free_frame(frame) /\ broken' = broken
    BY <1>3 DEF GrowStackAgain
  <2>b. /\ frame_table' \in Seq(Entries)
        /\ Unique(frame_table')
        /\ T1 = {e \in T : e.frame # frame}
        /\ free' = free \cup {frame}
        /\ mem' = [mem EXCEPT ![frame] = Freed]
    BY <1>a, <2>a, FreeFrame DEF IInv, TypeOK, TableInv
  <2> HIDE DEF T, T1
  <2>1. TypeOK'
    <3>1. mem' \in [Frames -> Values] /\ free' \subseteq Frames
      BY <1>b, <2>b DEF IInv, TypeOK, Values
    <3> QED
      BY <1>a, <1>e, <2>a, <2>b, <3>1 DEF IInv, TypeOK
  <2>2. Contents'
    <3>1. \A h \in Pages : loaded[h] => pagedir[h] \in Frames /\ pagedir[h] # frame
      BY <1>a, <1>b DEF IInv, TypeOK, TableInv
    <3>2. \A h \in Pages : loaded[h] => mem'[pagedir[h]] = mem[pagedir[h]]
      BY <2>b, <3>1 DEF IInv, TypeOK
    <3> QED
      BY <1>a, <3>2 DEF IInv, Contents
  <2>3. LockInv'
    BY <1>a, <1>f, VMAssumption DEF LockInv
  <2>4. TableInv'
    <3>1. free' = Frames \ {e.frame : e \in T1}
      <4>1. free = Frames \ {e.frame : e \in T}
        BY <1>a DEF IInv, TableInv, T
      <4>2. \A f \in Frames : f \in free' <=> \A e \in T1 : e.frame # f
        BY <2>b, <4>1
      <4>3. free' \subseteq Frames
        BY <2>1 DEF TypeOK
      <4> QED
        BY <4>2, <4>3
    <3>2. ASSUME NEW e \in T1
          PROVE  pagedir[e.page] = e.frame
      <4>1. e \in T /\ e.frame # frame
        BY <2>b
      <4>2. ~Filling(e)
        BY <4>1 DEF Filling
      <4> QED
        BY <1>a, <4>1, <4>2 DEF IInv, TableInv, T
    <3>3. ASSUME NEW h \in Pages, pagedir[h] # NULL
          PROVE  [frame |-> pagedir[h], page |-> h] \in T1
      <4>1. [frame |-> pagedir[h], page |-> h] \in T
        BY <1>a, <3>3 DEF IInv, TableInv, T
      <4> QED
        BY <1>b, <2>b, <4>1
    <3>4. \A h \in Pages : loaded[h] <=> pagedir[h] # NULL
      BY <1>a DEF IInv, TableInv
    <3> QED
      BY <1>a, <2>b, <3>1, <3>2, <3>3, <3>4 DEF TableInv, T1
  <2>5. HolderInv'
    BY <1>a, <1>d, <1>f DEF HolderInv, Holding
  <2>6. VictimInv'
    BY <1>a, <1>d DEF VictimInv
  <2>7. EntryInv'
    <3>1. \A h \in Pages : Owner(h) \in Procs
      BY VMAssumption DEF Owner
    <3>2. \A h \in Pages : pc'[Owner(h)] = "exit" \/ pc'[Owner(h)] = pc[Owner(h)]
      BY <1>e, <3>1
    <3> QED
      BY <1>a, <3>2 DEF IInv, EntryInv
  <2> QED
    BY <1>1, <2>1, <2>2, <2>3, <2>4, <2>5, <2>6, <2>7 DEF IInv
<1> QED
  BY <1>2, <1>3

-----------------------------------------------------------------------------
LEMMA StutterStep ==
  ASSUME IInv, UNCHANGED vars
  PROVE  IInv'
PROOF
<1> USE DEF vars, sptVars, pteVars, swapVars, holderVars
<1>1. TypeOK'
  BY DEF IInv, TypeOK
<1>2. SwapInv'
  BY DEF IInv, SwapInv
<1>3. Contents'
  BY DEF IInv, Contents
<1>4. ~broken' => LockInv' /\ HolderInv' /\ VictimInv' /\ EntryInv'
  BY DEF IInv, LockInv, HolderInv, VictimInv, EntryInv
<1>5. ~broken' => TableInv'
  BY DEF IInv, TableInv, Filling, Unique
<1> QED
  BY <1>1, <1>2, <1>3, <1>4, <1>5 DEF IInv

LEMMA NextStep ==
  ASSUME IInv, [Next]_vars
  PROVE  IInv'
PROOF
<1>1. CASE UNCHANGED vars
  BY <1>1, StutterStep
<1>2. ASSUME NEW g \in Pages, PageStep(g)
      PROVE  IInv'
  <2>1. CASE Read(g)
    BY <2>1, ReadStep
  <2>2. ASSUME NEW v \in Data, Write(g, v)
        PROVE  IInv'
    BY <2>2, WriteStep
  <2>3. ASSUME NEW who \in Callers, AllocateFrame(g, who)
        PROVE  IInv'
    BY <2>3, AllocateFrameStep
  <2>4. ASSUME NEW who \in Callers, EvictClean(g, who)
        PROVE  IInv'
    BY <2>4, EvictCleanStep
  <2>5. ASSUME NEW who \in Callers, SwapOut(g, who)
        PROVE  IInv'
    BY <2>5, SwapOutStep
  <2>6. ASSUME NEW who \in Callers, SwapFull(g, who)
        PROVE  IInv'
    BY <2>6, SwapFullStep
  <2>7. CASE FreePage(g)
    BY <2>7, FreePageStep
  <2> QED
    BY <1>2, <2>1, <2>2, <2>3, <2>4, <2>5, <2>6, <2>7 DEF PageStep
<1>3. ASSUME NEW p \in Procs, ProcessStep(p)
      PROVE  IInv'
  BY <1>3, StartStep, EvictDoneStep, EvictFreedStep, FileHandlingStep, SwapHandlingStep,
     GrowStackStep, GrowStackAgainStep, LeaveStep, DieStep DEF ProcessStep
<1> QED
  BY <1>1, <1>2, <1>3 DEF Next

LEMMA VMInduction == Spec => []IInv
PROOF
  BY InitIInv, NextStep, PTL DEF Spec

(***************************************************************************)
(* For any number of processes, pages and frames, whoever evicts from whom *)
(* and whoever exits meanwhile: until the kernel breaks, lock_frame is     *)
(* held by the one who brings a page in, a frame is free or has exactly    *)
(* one entry in the frame table, and a page is mapped to the frame of its  *)
(* entry.                                                                  *)
(***************************************************************************)
THEOREM FramesCorrect == Spec => []FrameInv
PROOF
<1>1. IInv => FrameInv
  BY DEF IInv, FrameInv, LockInv, TableInv, Unique
<1> QED
  BY <1>1, VMInduction, PTL

(***************************************************************************)
(* For any number of swap slots: two swapped pages never share a slot, a   *)
(* slot that is being written is nobody's, and a page that needs the swap  *)
(* disk is in memory or on it.                                             *)
(***************************************************************************)
THEOREM SwapCorrect == Spec => []SwapInv
PROOF
<1>1. IInv => SwapInv
  BY DEF IInv
<1> QED
  BY <1>1, VMInduction, PTL

(***************************************************************************)
(* For any contents: a page that was paged out and in again holds what its *)
(* program wrote last, unless it wrote it while the page was evicted.      *)
(***************************************************************************)
THEOREM ContentsCorrect == Spec => []Contents
PROOF
<1>1. IInv => Contents
  BY DEF IInv
<1> QED
  BY <1>1, VMInduction, PTL
=============================================================================

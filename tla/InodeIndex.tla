------------------------------ MODULE InodeIndex ------------------------------
(***************************************************************************)
(* The index of blocks of an inode (filesys/inode.c) and the free map it   *)
(* takes its sectors from (filesys/free-map.c).  inode_grow() adds sectors *)
(* to the direct, the indirect and the doubly indirect part of the index,  *)
(* byte_to_sector() looks one up, inode_close() gives all sectors of a     *)
(* removed file back.                                                      *)
(*                                                                         *)
(* Files grow concurrently: the lock of an inode lets one thread at a time *)
(* grow it, but nothing protects the free map, and bitmap_scan_and_flip()  *)
(* finds a sector in one step and marks it in another.  Each iteration of  *)
(* the loops of inode_grow() is a step.                                    *)
(*                                                                         *)
(* Two things leave a file with pointers that nobody has set: a full disk, *)
(* which inode_grow() reports as `return -1' from a function that returns  *)
(* bool, and a call that goes on from one block of the doubly indirect     *)
(* part to the next.  Two threads that find the same sector make two files *)
(* share it.  Such files are `broken', and the model takes no step with    *)
(* them: what the kernel does then depends on what the memory held.        *)
(***************************************************************************)
EXTENDS Integers, FiniteSetsExt

CONSTANTS
  Files,              \* files, each of which is created and removed at most once
  NumSectors,         \* disk_size(filesys_disk)
  DISK_SECTOR_SIZE,
  NUM_PTRS_DIR, NUM_PTRS_INDIR,
  PTR_PER_BLOCK,
  Lengths,            \* the lengths that files are created with and grow to
  NULL,               \* a pointer that nobody has set
  Data                \* what a sector holds that is no block of pointers

NUM_PTRS == NUM_PTRS_DIR + NUM_PTRS_INDIR + 1   \* NUM_PTRS_DOUBLE is 1

Sectors  == 0 .. NumSectors - 1
Reserved == {0, 1}    \* FREE_MAP_SECTOR, ROOT_DIR_SECTOR
Pointers == Sectors \cup {NULL}
PtrBlock == [0 .. PTR_PER_BLOCK - 1 -> Pointers]
Blank    == [j \in 0 .. PTR_PER_BLOCK - 1 |-> NULL]

(* The bytes that fit into the index. *)
Capacity ==
  DISK_SECTOR_SIZE * (NUM_PTRS_DIR + NUM_PTRS_INDIR * PTR_PER_BLOCK
                        + PTR_PER_BLOCK * PTR_PER_BLOCK)

ASSUME IndexAssumption ==
  /\ {NumSectors, DISK_SECTOR_SIZE, PTR_PER_BLOCK} \subseteq Nat \ {0}
  /\ {NUM_PTRS_DIR, NUM_PTRS_INDIR} \subseteq Nat
  /\ Reserved \subseteq Sectors
  /\ NULL \notin Sectors
  /\ Data \notin PtrBlock
  /\ Lengths \subseteq 0 .. Capacity

bytes_to_sectors(size) == (size + DISK_SECTOR_SIZE - 1) \div DISK_SECTOR_SIZE

VARIABLES
  free_map,     \* the sectors that are marked
  block,        \* what a sector holds: Data or a block of pointers
  ino,          \* the struct inode of a file; sector is NULL if there is no file
  g,            \* the call of inode_grow() under way for a file, with its locals
  gone,         \* the files that have been removed
  broken        \* history: files with pointers that must not be used

vars == <<free_map, block, ino, g, gone, broken>>

NoFile == [sector |-> NULL, length |-> 0, ptrs |-> [i \in 0 .. NUM_PTRS - 1 |-> NULL],
           ptr_idx |-> 0, indir_idx |-> 0, double_idx |-> 0]

NoGrow == [at |-> "idle", end |-> 0, idx |-> 0, sectors |-> 0, indir |-> 0, double |-> 0,
           inner |-> Blank, dinner |-> Blank, got |-> NULL]

(* The variables hold what their C types and their uses allow. *)
TypeOK ==
  /\ free_map \subseteq Sectors
  /\ block \in [Sectors -> PtrBlock \cup {Data}]
  /\ ino \in [Files -> [sector : Pointers, length : Nat,
                        ptrs : [0 .. NUM_PTRS - 1 -> Pointers], ptr_idx : 0 .. NUM_PTRS,
                        indir_idx : 0 .. PTR_PER_BLOCK - 1,
                        double_idx : 0 .. PTR_PER_BLOCK - 1]]
  /\ g \in [Files -> [at : {"idle", "sector", "top", "one", "two", "three"},
                      end : Nat, idx : 0 .. NUM_PTRS, sectors : Nat,
                      indir : 0 .. PTR_PER_BLOCK, double : 0 .. PTR_PER_BLOCK,
                      inner : PtrBlock, dinner : PtrBlock, got : Pointers]]
  /\ gone \subseteq Files
  /\ broken \subseteq Files

(* free_map_init() on a disk without files. *)
Init ==
  /\ free_map = Reserved
  /\ block = [s \in Sectors |-> Data]
  /\ ino = [f \in Files |-> NoFile]
  /\ g = [f \in Files |-> NoGrow]
  /\ gone = {}
  /\ broken = {}

Exists(f) == ino[f].sector # NULL

-----------------------------------------------------------------------------
(* byte_to_sector() for a position below the length. *)
byte_to_sector(f, pos) ==
  LET new_pos == pos - DISK_SECTOR_SIZE * NUM_PTRS_DIR
      span    == DISK_SECTOR_SIZE * PTR_PER_BLOCK     \* bytes of one block of pointers
      dbl_pos == new_pos - span * NUM_PTRS_INDIR
      Entry(b, p) == block[b][(p % span) \div DISK_SECTOR_SIZE]
  IN  IF new_pos < 0
        THEN ino[f].ptrs[pos \div DISK_SECTOR_SIZE]
      ELSE IF dbl_pos < 0
        THEN Entry(ino[f].ptrs[NUM_PTRS_DIR + new_pos \div span], new_pos)
        ELSE Entry(block[ino[f].ptrs[NUM_PTRS_DIR + NUM_PTRS_INDIR]][dbl_pos \div span],
                   dbl_pos)

-----------------------------------------------------------------------------
(* What the next step of inode_grow() is; each needs a sector of its own   *)
(* if it says so.                                                          *)
More(f)        == g[f].sectors > 0
AtDirect(f)    == g[f].at = "top" /\ More(f) /\ g[f].idx < NUM_PTRS_DIR
AtIndirect(f)  == g[f].at = "top" /\ More(f)
                    /\ g[f].idx \in NUM_PTRS_DIR .. NUM_PTRS_DIR + NUM_PTRS_INDIR - 1
AtDouble(f)    == g[f].at = "top" /\ More(f) /\ g[f].idx = NUM_PTRS_DIR + NUM_PTRS_INDIR
InOne(f)       == g[f].at = "one" /\ g[f].indir < PTR_PER_BLOCK /\ More(f)
InTwo(f)       == g[f].at = "two" /\ g[f].indir < PTR_PER_BLOCK /\ More(f)
InThree(f)     == g[f].at = "three" /\ g[f].double < PTR_PER_BLOCK /\ More(f)

NewIndirect(f) == ino[f].indir_idx = 0
NewDouble(f)   == ino[f].indir_idx = 0 /\ ino[f].double_idx = 0
NewInner(f)    == ino[f].double_idx = 0

NeedsSector(f) ==
  \/ g[f].at = "sector" \/ AtDirect(f) \/ InOne(f) \/ InThree(f)
  \/ AtIndirect(f) /\ NewIndirect(f)
  \/ AtDouble(f) /\ NewDouble(f)
  \/ InTwo(f) /\ NewInner(f)

Works(f) == f \notin broken /\ g[f].at # "idle"

(* bitmap_scan() of free_map_allocate(): the first sector that is free. *)
Scan(f) ==
  /\ Works(f) /\ NeedsSector(f) /\ g[f].got = NULL
  /\ Sectors \ free_map # {}
  /\ g' = [g EXCEPT ![f].got = Min(Sectors \ free_map)]
  /\ UNCHANGED <<free_map, block, ino, broken, gone>>

(***************************************************************************)
(* free_map_allocate() fails.  filesys_create() gives up if it has no      *)
(* sector for the inode.  inode_grow() returns, the caller takes its -1    *)
(* for true and sets the length.                                           *)
(***************************************************************************)
NoSpace(f) ==
  /\ Works(f) /\ NeedsSector(f) /\ g[f].got = NULL
  /\ Sectors \ free_map = {}
  /\ g' = [g EXCEPT ![f] = NoGrow]
  /\ IF g[f].at = "sector"
       THEN UNCHANGED <<ino, broken>>
       ELSE /\ ino' = [ino EXCEPT ![f].length = g[f].end]
            /\ broken' = broken \cup {f}
  /\ UNCHANGED <<free_map, block, gone>>

(***************************************************************************)
(* The rest of free_map_allocate(): bitmap_set_multiple() marks the sector *)
(* that the scan has found, whoever has marked it in between; then the map *)
(* is written to its file.                                                 *)
(***************************************************************************)
Allocate(f) ==
  /\ g[f].got # NULL
  /\ free_map' = free_map \cup {g[f].got}
  /\ broken' = IF g[f].got \in free_map THEN Files ELSE broken

(* A step of inode_grow() that needs a sector takes one, others do not. *)
AllocateIf(need, f) ==
  \/ need /\ Allocate(f)
  \/ ~need /\ UNCHANGED <<free_map, broken>>

-----------------------------------------------------------------------------
(* filesys_create() up to inode_create(): a sector for the inode itself. *)
Create(f, length) ==
  /\ ~Exists(f) /\ f \notin gone /\ g[f].at = "idle" /\ f \notin broken
  /\ g' = [g EXCEPT ![f] = [NoGrow EXCEPT !.at = "sector", !.end = length]]
  /\ UNCHANGED <<free_map, block, ino, broken, gone>>

InodeSector(f) ==
  /\ Works(f) /\ g[f].at = "sector" /\ Allocate(f)
  /\ ino' = [ino EXCEPT ![f] = [NoFile EXCEPT !.sector = g[f].got]]
  /\ g' = [g EXCEPT ![f].at = "top", ![f].got = NULL,
                    ![f].sectors = bytes_to_sectors(g[f].end)]
  /\ UNCHANGED <<block, gone>>

(* inode_write_at() beyond the end of the file: inode_grow() is called. *)
Extend(f, end) ==
  /\ Exists(f) /\ g[f].at = "idle" /\ f \notin broken
  /\ end > ino[f].length
  /\ g' = [g EXCEPT ![f] = [NoGrow EXCEPT !.at = "top", !.end = end,
              !.idx = ino[f].ptr_idx,
              !.sectors = bytes_to_sectors(end) - bytes_to_sectors(ino[f].length)]]
  /\ UNCHANGED <<free_map, block, ino, broken, gone>>

DirectBlock(f) ==
  /\ Works(f) /\ AtDirect(f) /\ Allocate(f)
  /\ ino' = [ino EXCEPT ![f].ptrs[g[f].idx] = g[f].got]
  /\ block' = [block EXCEPT ![g[f].got] = Data]
  /\ g' = [g EXCEPT ![f].sectors = @ - 1, ![f].idx = @ + 1, ![f].got = NULL]
  /\ UNCHANGED gone

(* Indirect level 1: make or read the block of pointers, fill, write it. *)
(* Mutant of IndirectStart: a block of pointers is never read back. *)
IndirectStartFresh(f) ==
  /\ Works(f) /\ AtIndirect(f) /\ AllocateIf(NewIndirect(f), f)
  /\ ino' = IF NewIndirect(f) THEN [ino EXCEPT ![f].ptrs[g[f].idx] = g[f].got] ELSE ino
  /\ g' = [g EXCEPT ![f].at = "one", ![f].got = NULL, ![f].indir = ino[f].indir_idx]
  /\ UNCHANGED <<block, gone>>

IndirectStart(f) ==
  /\ Works(f) /\ AtIndirect(f) /\ AllocateIf(NewIndirect(f), f)
  /\ ino' = IF NewIndirect(f) THEN [ino EXCEPT ![f].ptrs[g[f].idx] = g[f].got] ELSE ino
  /\ g' = [g EXCEPT ![f].at = "one", ![f].got = NULL, ![f].indir = ino[f].indir_idx,
             ![f].inner = IF NewIndirect(f) THEN @ ELSE block[ino[f].ptrs[g[f].idx]]]
  /\ UNCHANGED <<block, gone>>

IndirectBlock(f) ==
  /\ Works(f) /\ InOne(f) /\ Allocate(f)
  /\ block' = [block EXCEPT ![g[f].got] = Data]
  /\ g' = [g EXCEPT ![f].inner[g[f].indir] = g[f].got, ![f].indir = @ + 1,
                    ![f].sectors = @ - 1, ![f].got = NULL]
  /\ UNCHANGED <<ino, gone>>

IndirectEnd(f) ==
  /\ Works(f) /\ g[f].at = "one" /\ ~InOne(f)
  /\ block' = [block EXCEPT ![ino[f].ptrs[g[f].idx]] = g[f].inner]
  /\ ino' = [ino EXCEPT ![f].indir_idx = g[f].indir % PTR_PER_BLOCK]
  /\ g' = [g EXCEPT ![f].at = "top", ![f].idx = @ + (g[f].indir \div PTR_PER_BLOCK)]
  /\ UNCHANGED <<free_map, broken, gone>>

(* Indirect level 2: the same, twice. *)
DoubleStart(f) ==
  /\ Works(f) /\ AtDouble(f) /\ AllocateIf(NewDouble(f), f)
  /\ ino' = IF NewDouble(f) THEN [ino EXCEPT ![f].ptrs[g[f].idx] = g[f].got] ELSE ino
  /\ g' = [g EXCEPT ![f].at = "two", ![f].got = NULL, ![f].indir = ino[f].indir_idx,
             ![f].inner = IF NewDouble(f) THEN @ ELSE block[ino[f].ptrs[g[f].idx]]]
  /\ UNCHANGED <<block, gone>>

(***************************************************************************)
(* The entry that is set is inner_ptr[inode->indir_idx], the one that is   *)
(* used is inner_ptr[indir_idx]; they differ from the second block of a    *)
(* call on.                                                                *)
(***************************************************************************)
DoubleInner(f) ==
  /\ Works(f) /\ InTwo(f) /\ g[f].indir = ino[f].indir_idx
  /\ AllocateIf(NewInner(f), f)
  /\ g' = [g EXCEPT ![f].at = "three", ![f].got = NULL, ![f].double = ino[f].double_idx,
             ![f].inner[ino[f].indir_idx] = IF NewInner(f) THEN g[f].got ELSE @,
             ![f].dinner = IF NewInner(f) THEN @ ELSE block[g[f].inner[ino[f].indir_idx]]]
  /\ UNCHANGED <<block, ino, gone>>

DoubleCross(f) ==
  /\ Works(f) /\ InTwo(f) /\ g[f].indir # ino[f].indir_idx
  /\ g[f].got # NULL
  /\ free_map' = free_map \cup {g[f].got}
  /\ broken' = IF g[f].got \in free_map THEN Files ELSE broken \cup {f}
  /\ g' = [g EXCEPT ![f].inner[ino[f].indir_idx] = g[f].got, ![f].got = NULL]
  /\ UNCHANGED <<block, ino, gone>>

DoubleBlock(f) ==
  /\ Works(f) /\ InThree(f) /\ Allocate(f)
  /\ block' = [block EXCEPT ![g[f].got] = Data]
  /\ g' = [g EXCEPT ![f].dinner[g[f].double] = g[f].got, ![f].double = @ + 1,
                    ![f].sectors = @ - 1, ![f].got = NULL]
  /\ UNCHANGED <<ino, gone>>

DoubleInnerEnd(f) ==
  /\ Works(f) /\ g[f].at = "three" /\ ~InThree(f)
  /\ block' = [block EXCEPT ![g[f].inner[g[f].indir]] = g[f].dinner]
  /\ ino' = [ino EXCEPT ![f].double_idx = g[f].double % PTR_PER_BLOCK]
  /\ g' = [g EXCEPT ![f].at = "two", ![f].indir = @ + (g[f].double \div PTR_PER_BLOCK)]
  /\ UNCHANGED <<free_map, broken, gone>>

DoubleEnd(f) ==
  /\ Works(f) /\ g[f].at = "two" /\ ~InTwo(f)
  /\ block' = [block EXCEPT ![ino[f].ptrs[g[f].idx]] = g[f].inner]
  /\ ino' = [ino EXCEPT ![f].indir_idx = g[f].indir % PTR_PER_BLOCK]
  /\ g' = [g EXCEPT ![f].at = "top", ![f].idx = @ + (g[f].indir \div PTR_PER_BLOCK)]
  /\ UNCHANGED <<free_map, broken, gone>>

(* inode_grow() returns, its caller sets the length (inode_create() has    *)
(* set it before, in the copy that it writes now).                         *)
GrowEnd(f) ==
  /\ Works(f) /\ g[f].at = "top"
  /\ ~More(f) \/ g[f].idx = NUM_PTRS
  /\ ino' = [ino EXCEPT ![f].ptr_idx = g[f].idx, ![f].length = g[f].end]
  /\ g' = [g EXCEPT ![f] = NoGrow]
  /\ UNCHANGED <<free_map, block, broken, gone>>

-----------------------------------------------------------------------------
(* Mutant of Released: the sectors of pointers are kept. *)
ReleasedData(f) ==
  {ino[f].sector} \cup {byte_to_sector(f, p) : p \in 0 .. ino[f].length - 1}

(***************************************************************************)
(* inode_close() of a removed inode that nobody else has open: the sectors *)
(* that the walk over the index gives to free_map_release().  `sectors'    *)
(* counts down from the sectors of the length, and the walk ends with it.  *)
(* What a sector that is free holds is forgotten.                          *)
(***************************************************************************)
Released(f) ==
  LET n == ino[f]
      sectors == bytes_to_sectors(n.length)
      First(i) == NUM_PTRS_DIR + (i - NUM_PTRS_DIR) * PTR_PER_BLOCK   \* counted at index i
      Walked(i) == i <= n.ptr_idx /\ First(i) < sectors
      Filled(first) == {j \in 0 .. PTR_PER_BLOCK - 1 : first + j < sectors}
      last == NUM_PTRS_DIR + NUM_PTRS_INDIR
      Inner(j) == First(last) + j * PTR_PER_BLOCK
      direct == {n.ptrs[i] : i \in {k \in 0 .. NUM_PTRS_DIR - 1 : k <= n.ptr_idx /\ k < sectors}}
      indirect == {i \in NUM_PTRS_DIR .. last - 1 : Walked(i)}
      double == IF Walked(last) THEN block[n.ptrs[last]] ELSE Blank
      inners == {j \in 0 .. PTR_PER_BLOCK - 1 : Walked(last) /\ Inner(j) < sectors}
  IN  {n.sector} \cup direct
        \cup UNION {{n.ptrs[i]} \cup {block[n.ptrs[i]][j] : j \in Filled(First(i))} :
                      i \in indirect}
        \cup UNION {{double[j]} \cup {block[double[j]][k] : k \in Filled(Inner(j))} :
                      j \in inners}
        \cup IF Walked(last) THEN {n.ptrs[last]} ELSE {}

Remove(f) ==
  /\ Exists(f) /\ g[f].at = "idle" /\ f \notin broken
  /\ Released(f) \subseteq free_map         \* the assertion in free_map_release()
  /\ free_map' = free_map \ Released(f)
  /\ block' = [s \in Sectors |-> IF s \in Released(f) THEN Data ELSE block[s]]
  /\ ino' = [ino EXCEPT ![f] = NoFile]
  /\ gone' = gone \cup {f}
  /\ UNCHANGED <<g, broken>>

GrowStep(f) ==
  \/ Scan(f) \/ NoSpace(f) \/ InodeSector(f) \/ DirectBlock(f)
  \/ IndirectStart(f) \/ IndirectBlock(f) \/ IndirectEnd(f)
  \/ DoubleStart(f) \/ DoubleInner(f) \/ DoubleCross(f) \/ DoubleBlock(f)
  \/ DoubleInnerEnd(f) \/ DoubleEnd(f) \/ GrowEnd(f)

Next ==
  \E f \in Files :
    \/ GrowStep(f) \/ Remove(f)
    \/ \E length \in Lengths : Create(f, length) \/ Extend(f, length)

Spec == Init /\ [][Next]_vars

-----------------------------------------------------------------------------
(* The sectors that hold the bytes of f. *)
Bytes(f) == 0 .. ino[f].length - 1
Contents(f) == {byte_to_sector(f, p) : p \in Bytes(f)}

(* Pointer blocks that an index with n sectors of data has. *)
PtrBlocks(n) ==
  LET m == n - NUM_PTRS_DIR
      d == m - NUM_PTRS_INDIR * PTR_PER_BLOCK
      Up(k) == IF k <= 0 THEN 0 ELSE (k + PTR_PER_BLOCK - 1) \div PTR_PER_BLOCK
  IN  Up(m) + IF d > 0 THEN 1 ELSE 0

Whole(f) == Exists(f) /\ f \notin broken

(***************************************************************************)
(* byte_to_sector() of a file that is not broken, also while the file is   *)
(* growing: two bytes are in the same sector exactly if they are in the    *)
(* same block of the file, the sector holds data, is marked in the free    *)
(* map, and belongs to no other file.                                      *)
(***************************************************************************)
IndexInv == TypeOK /\
  \A f \in Files : Whole(f) =>
    /\ \A p, q \in Bytes(f) :
         byte_to_sector(f, p) = byte_to_sector(f, q)
           <=> p \div DISK_SECTOR_SIZE = q \div DISK_SECTOR_SIZE
    /\ Contents(f) \subseteq free_map \ Reserved
    /\ \A s \in Contents(f) : block[s] = Data
    /\ \A h \in Files \ {f} : Whole(h) => Contents(f) \cap Contents(h) = {}

(***************************************************************************)
(* When nobody is growing a file and none is broken, the free map marks    *)
(* what the files use and nothing else: growing has lost no sector, the    *)
(* removal of a file gives back its data, its blocks of pointers and its   *)
(* inode, and the removal of one file takes nothing from another.          *)
(***************************************************************************)
NoLeak ==
  (broken = {} /\ \A f \in Files : g[f].at = "idle") =>
    /\ free_map = Reserved \cup UNION {Released(f) : f \in {h \in Files : Exists(h)}}
    /\ \A f \in Files : Exists(f) =>
         LET n == bytes_to_sectors(ino[f].length)
         IN  /\ Contents(f) \subseteq Released(f)
             /\ Cardinality(Released(f)) = 1 + n + PtrBlocks(n)
    /\ \A f, h \in Files : (f # h /\ Exists(f) /\ Exists(h)) => Released(f) \cap Released(h) = {}

=============================================================================

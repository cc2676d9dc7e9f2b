----------------------------- MODULE AddressSpace -----------------------------
(***************************************************************************)
(* The address space of one process: load() of its executable with         *)
(* validate_segment(), load_segment() and setup_stack()                    *)
(* (userprog/process.c), memory-mapped files (mmap() and munmap() of       *)
(* userprog/syscall.c), and what process_exit() does to both.  They all    *)
(* work on the process' sup_page_table, a list (vm/page.c).                *)
(*                                                                         *)
(* Other processes can evict a page whenever lock_frame is free; how, is   *)
(* in VirtualMemory.  Addresses are numbers below ADDRS, the size of the   *)
(* address space, and sums wrap.  The data of a mapped page is one value.  *)
(* Where the kernel uses an uninitialized or freed pointer or stops at an  *)
(* assertion, the model stops, and `broken' says why.                      *)
(***************************************************************************)
EXTENDS Integers, SequencesExt

CONSTANTS
  PGSIZE, WORD,          \* bytes in a page, and in a pointer
  PHYS_BASE, ADDRS,      \* the first kernel address; the number of addresses
  FileLength,            \* of the executable
  Phdrs,                 \* program headers an executable may have
  MaxPhdrs,              \* bound on their number
  CommandLines,          \* sequences of the lengths of the arguments
  LIMIT,                 \* bytes the stack may grow to
  MapAddrs,              \* addresses that programs pass to mmap()
  MapLength,             \* length of the file that they map
  MaxMaps,               \* bound on map_id
  Data,                  \* values that programs write
  NULL

ASSUME AddressAssumption ==
  /\ {PGSIZE, WORD, FileLength, MapLength, LIMIT} \subseteq Nat \ {0}
  /\ PGSIZE % WORD = 0 /\ PHYS_BASE % PGSIZE = 0 /\ ADDRS % PGSIZE = 0
  /\ PHYS_BASE \in 2 * PGSIZE .. ADDRS - 1
  /\ \A a \in MapAddrs : a % PGSIZE = 0 /\ a # 0
  /\ {0, NULL} \cap Data = {}

VARIABLES
  pc,                \* where the process is
  args,              \* its command line
  phdrs,             \* history: the segments that load() has accepted
  sup_page_table,    \* list of entries
  dirty,             \* pages whose page table entry has the dirty bit
  main_file,         \* the executable: "none", "open", "closed" or "denied"
  stack,             \* esp and the bytes on the stack
  list_mmap,         \* addresses of the entries of mapped pages
  map_id,            \* identifier of the next mapping
  m,                 \* the page and the offset mmap() is at
  file,              \* contents of the pages of the mapped file
  broken,            \* why the kernel is
  wrote,             \* history: what the program wrote last to a mapped page
  owed,              \* history: ... and to pages that are no longer mapped
  evicted            \* history: mapped pages that were evicted when they were dirty

loadVars == <<args, phdrs, main_file, stack>>
mapVars  == <<list_mmap, map_id, m>>
fileVars == <<file, wrote, owed, evicted>>
vars == <<pc, loadVars, sup_page_table, dirty, mapVars, fileVars, broken>>

-----------------------------------------------------------------------------
MapPages == 0 .. (MapLength - 1) \div PGSIZE
UserPages == {a \in 0 .. PHYS_BASE - 1 : a % PGSIZE = 0}
FileData == 0
NoMmap == [addr |-> 0, offset |-> 0]

pg_round_down(a) == a - (a % PGSIZE)
ROUND_UP(a) == pg_round_down(a + PGSIZE - 1)
Wrap(a) == a % ADDRS
is_user_vaddr(a) == a < PHYS_BASE

(* allocate_page(): every entry of a file has TYPE_FILE, a mapped one too. *)
NewEntry(addr, of, read_bytes, ofs, id) ==
  [user_vaddr |-> addr, of |-> of, read_bytes |-> read_bytes, offset |-> ofs, map_id |-> id,
   file_type |-> IF of = "stack" THEN "swap" ELSE "file", loaded |-> of = "stack",
   freed |-> FALSE, data |-> FileData]

(***************************************************************************)
(* find_page() walks over the list up to the entry of the page; it gets    *)
(* lost at an entry that has been freed.                                   *)
(***************************************************************************)
Found(addr) == {i \in DOMAIN sup_page_table : sup_page_table[i].user_vaddr = addr /\ ~sup_page_table[i].freed}
Stale(addr) == \E i \in DOMAIN sup_page_table :
                 sup_page_table[i].freed /\ \A j \in Found(addr) : i < j

Init ==
  /\ pc = "start" /\ args = <<>> /\ phdrs = <<>>
  /\ sup_page_table = <<>> /\ dirty = {}
  /\ main_file = "none" /\ stack = NULL
  /\ list_mmap = <<>> /\ map_id = 0 /\ m = NoMmap
  /\ file = [i \in MapPages |-> FileData]
  /\ broken = "no"
  /\ wrote = [a \in UserPages |-> NULL] /\ owed = [i \in MapPages |-> NULL] /\ evicted = {}

Stops(why) == broken' = why /\ UNCHANGED pc
Goto(place) == pc' = place /\ UNCHANGED broken
At(place) == broken = "no" /\ pc = place

-----------------------------------------------------------------------------
(* load(): without a page directory, free() gets a pointer that was never set. *)
CreatePagedir ==
  /\ At("start")
  /\ Goto("open") \/ Stops("uninitialized pointer")
  /\ UNCHANGED <<loadVars, sup_page_table, dirty, mapVars, fileVars>>

(* strtok_r() has cut the command line into arguments; the first one is opened. *)
Open(line) ==
  /\ At("open")
  /\ args' = line
  /\ \/ main_file' = "open" /\ Goto("header")
     \/ UNCHANGED main_file /\ Goto("exit")
  /\ UNCHANGED <<phdrs, stack, sup_page_table, dirty, mapVars, fileVars>>

(***************************************************************************)
(* The header, which is read again when it is not good: the assertions     *)
(* fail unless what follows it in the file looks like a good one.          *)
(***************************************************************************)
ReadHeader ==
  /\ At("header")
  /\ \/ Goto("phdr") /\ UNCHANGED main_file
     \/ Goto("exit") /\ main_file' = "closed"
     \/ Stops("header") /\ UNCHANGED main_file
  /\ UNCHANGED <<args, phdrs, stack, sup_page_table, dirty, mapVars, fileVars>>

(* Mutant of validate_segment: an end that wraps around is accepted. *)
validate_segment_start(h) ==
  /\ h.p_offset % PGSIZE = h.p_vaddr % PGSIZE
  /\ h.p_offset <= FileLength
  /\ h.p_memsz >= h.p_filesz
  /\ h.p_memsz # 0
  /\ is_user_vaddr(h.p_vaddr)
  /\ is_user_vaddr(Wrap(h.p_vaddr + h.p_memsz))
  /\ h.p_vaddr >= PGSIZE

validate_segment(h) ==
  /\ h.p_offset % PGSIZE = h.p_vaddr % PGSIZE
  /\ h.p_offset <= FileLength
  /\ h.p_memsz >= h.p_filesz
  /\ h.p_memsz # 0
  /\ is_user_vaddr(h.p_vaddr)
  /\ is_user_vaddr(Wrap(h.p_vaddr + h.p_memsz))
  /\ Wrap(h.p_vaddr + h.p_memsz) >= h.p_vaddr
  /\ h.p_vaddr >= PGSIZE

(* What load() hands to load_segment(). *)
ReadBytes(h) == IF h.p_filesz > 0 THEN (h.p_vaddr % PGSIZE) + h.p_filesz ELSE 0
ZeroBytes(h) == ROUND_UP((h.p_vaddr % PGSIZE) + h.p_memsz) - ReadBytes(h)

(* load_segment(): the entry of its k-th page, counted from 0. *)
SegmentPage(h, k) ==
  LET done == Min({k * PGSIZE, ReadBytes(h)})
  IN  NewEntry(pg_round_down(h.p_vaddr) + k * PGSIZE, "exec", Min({PGSIZE, ReadBytes(h) - done}),
               pg_round_down(h.p_offset) + done, NULL)

(* The pages up to the first that page_insert() refuses are entered. *)
LoadSegment(h) ==
  LET n == (ReadBytes(h) + ZeroBytes(h)) \div PGSIZE
      taken == {k \in 0 .. n - 1 : Found(SegmentPage(h, k).user_vaddr) # {}}
      stop == Min(taken \cup {n})
      entered == [k \in 1 .. stop |-> SegmentPage(h, k - 1)]
  IN  /\ sup_page_table' = sup_page_table \o entered
      /\ IF \E k \in 1 .. stop : ~is_user_vaddr(entered[k].user_vaddr)
         THEN Stops("segment") /\ UNCHANGED <<main_file, phdrs>>
         ELSE \/ stop = n /\ Goto("phdr") /\ phdrs' = Append(phdrs, h) /\ UNCHANGED main_file
              \/ stop < n /\ Goto("exit") /\ main_file' = "closed" /\ UNCHANGED phdrs

(* A program header of type PT_LOAD. *)
ReadPhdr(h) ==
  /\ At("phdr") /\ Len(phdrs) < MaxPhdrs
  /\ \/ validate_segment(h) /\ LoadSegment(h)
     \/ /\ ~validate_segment(h)
        /\ Goto("exit") /\ main_file' = "closed"
        /\ UNCHANGED <<phdrs, sup_page_table>>
  /\ UNCHANGED <<args, stack, dirty, mapVars, fileVars>>

(* A header that cannot be read, or of a type that is refused. *)
BadPhdr ==
  /\ At("phdr")
  /\ Goto("exit") /\ main_file' = "closed"
  /\ UNCHANGED <<args, phdrs, stack, sup_page_table, dirty, mapVars, fileVars>>

-----------------------------------------------------------------------------
(* setup_stack(): a word, and an argument of len characters, on the stack. *)
PushWord(s, w) ==
  [s EXCEPT !.esp = @ - WORD,
            !.mem = [a \in s.esp - WORD .. s.esp - 1 |-> <<w, a - (s.esp - WORD)>>] @@ s.mem]

PushString(s, i) ==
  LET start == s.esp - (args[i] + 1)
  IN  [s EXCEPT !.esp = start,
                !.mem = [a \in start .. s.esp - 1 |-> <<"arg", i, a - start>>] @@ s.mem,
                !.pargv = Append(@, start)]

(* Mutant of Align: the pointer is left as it is. *)
AlignNot(s) == s

Align(s) == [s EXCEPT !.esp = @ - (@ % WORD)]

Layout ==
  LET strings == Align(FoldLeft(PushString, [esp |-> PHYS_BASE, mem |-> <<>>, pargv |-> <<>>],
                                Reverse([i \in DOMAIN args |-> i])))
      argv == FoldLeft(PushWord, PushWord(strings, 0), strings.pargv)
  IN  PushWord(PushWord(PushWord(argv, argv.esp), Len(args)), 0)

(***************************************************************************)
(* The page of the stack must be new.  Arguments that do not fit in it are *)
(* written through a fault in the kernel, whose outcome is open.           *)
(***************************************************************************)
SetupStack ==
  /\ At("phdr")
  /\ LET page == PHYS_BASE - PGSIZE
     IN  IF Found(page) # {}
         THEN Goto("exit") /\ main_file' = "closed" /\ UNCHANGED <<stack, sup_page_table>>
         ELSE /\ sup_page_table' = Append(sup_page_table, NewEntry(page, "stack", 0, 0, NULL))
              /\ IF Layout.esp < page
                 THEN Stops("arguments") /\ UNCHANGED <<stack, main_file>>
                 ELSE Goto("user") /\ stack' = Layout /\ main_file' = "denied"
  /\ UNCHANGED <<args, phdrs, dirty, mapVars, fileVars>>

-----------------------------------------------------------------------------
SetEntry(i, e) == sup_page_table' = [sup_page_table EXCEPT ![i] = e]

(* What file_handling() and swap_handling() bring in. *)
PageData(e) == IF e.of = "map" /\ e.file_type = "file" THEN file[e.offset \div PGSIZE] ELSE e.data
Short(e) == e.of = "exec" /\ e.read_bytes > 0 /\ e.offset + e.read_bytes > FileLength

(***************************************************************************)
(* A fault at a page without an entry: the stack grows if the address is   *)
(* not far below esp, wherever that is now; otherwise the process exits,   *)
(* and exit() closes the executable.                                       *)
(***************************************************************************)
GrowStack(addr) ==
  \/ /\ PHYS_BASE - addr <= LIMIT
     /\ sup_page_table' = Append(sup_page_table, NewEntry(addr, "stack", 0, 0, NULL))
     /\ UNCHANGED <<pc, main_file, broken>>
  \/ Goto("exit") /\ main_file' = "closed" /\ UNCHANGED sup_page_table

(* page_fault() at a page that is not there. *)
PageFault(addr) ==
  /\ At("user")
  /\ \/ Stale(addr) /\ Stops("freed entry") /\ UNCHANGED <<sup_page_table, dirty, main_file>>
     \/ ~Stale(addr) /\ Found(addr) = {} /\ GrowStack(addr) /\ UNCHANGED dirty
     \/ /\ ~Stale(addr) /\ UNCHANGED main_file
        /\ \E i \in Found(addr) :
             LET e == sup_page_table[i]
             IN  /\ ~e.loaded
                 /\ IF Short(e) THEN Stops("short file") /\ UNCHANGED <<sup_page_table, dirty>>
                    ELSE /\ SetEntry(i, [e EXCEPT !.loaded = TRUE, !.data = PageData(e)])
                         /\ dirty' = dirty \ {addr}
                         /\ UNCHANGED <<pc, broken>>
  /\ UNCHANGED <<args, phdrs, stack, mapVars, fileVars>>

(* The program writes to a mapped page. *)
Write(i, v) ==
  LET e == sup_page_table[i]
  IN  /\ At("user") /\ e.of = "map" /\ e.loaded /\ ~e.freed
      /\ SetEntry(i, [e EXCEPT !.data = v])
      /\ dirty' = dirty \cup {e.user_vaddr}
      /\ wrote' = [wrote EXCEPT ![e.user_vaddr] = v]
      /\ evicted' = evicted \ {e.user_vaddr}
      /\ UNCHANGED <<pc, loadVars, mapVars, file, owed, broken>>

(* evict_frame() of another process: a page that is dirty now belongs to the swap disk. *)
Evict(i) ==
  LET e == sup_page_table[i]
      swaps == e.user_vaddr \in dirty \/ e.file_type = "swap"
  IN  /\ broken = "no" /\ e.of = "map" /\ e.loaded /\ ~e.freed
      /\ SetEntry(i, [e EXCEPT !.loaded = FALSE, !.file_type = IF swaps THEN "swap" ELSE @])
      /\ evicted' = IF swaps THEN evicted \cup {e.user_vaddr} ELSE evicted
      /\ UNCHANGED <<pc, loadVars, dirty, mapVars, file, wrote, owed, broken>>

-----------------------------------------------------------------------------
(* mmap() of a file that is open and not empty. *)
Mmap(addr) ==
  /\ At("user") /\ map_id < MaxMaps
  /\ m' = [addr |-> addr, offset |-> 0]
  /\ Goto("mmap")
  /\ UNCHANGED <<loadVars, sup_page_table, dirty, list_mmap, map_id, fileVars>>

(***************************************************************************)
(* One page of it.  A page that exists gets the identifier of the new      *)
(* mapping all the same, page_insert() fails, and mmap() returns -1; the   *)
(* pages it has entered stay.                                              *)
(***************************************************************************)
MmapPage ==
  /\ At("mmap") /\ m.offset < MapLength
  /\ LET e == NewEntry(m.addr, "map", Min({PGSIZE, MapLength - m.offset}), m.offset, map_id)
     IN  \/ /\ Stale(m.addr) /\ Stops("freed entry")
            /\ UNCHANGED <<sup_page_table, list_mmap, m>>
         \/ /\ ~Stale(m.addr) /\ Found(m.addr) = {} /\ ~is_user_vaddr(m.addr)
            /\ Stops("mmap address")
            /\ UNCHANGED <<sup_page_table, list_mmap, m>>
         \/ /\ ~Stale(m.addr) /\ Found(m.addr) = {} /\ is_user_vaddr(m.addr)
            /\ sup_page_table' = Append(sup_page_table, e)
            /\ list_mmap' = Append(list_mmap, m.addr)
            /\ m' = [addr |-> m.addr + PGSIZE, offset |-> m.offset + e.read_bytes]
            /\ UNCHANGED <<pc, broken>>
         \/ /\ ~Stale(m.addr)
            /\ \E i \in Found(m.addr) : SetEntry(i, [sup_page_table[i] EXCEPT !.map_id = map_id])
            /\ Goto("user") /\ m' = NoMmap
            /\ UNCHANGED list_mmap
  /\ UNCHANGED <<loadVars, dirty, map_id, fileVars>>

MmapReturn ==
  /\ At("mmap") /\ m.offset = MapLength
  /\ map_id' = map_id + 1
  /\ Goto("user") /\ m' = NoMmap
  /\ UNCHANGED <<loadVars, sup_page_table, dirty, list_mmap, fileVars>>

(* The entries of list_mmap with identifier id, and what the dirty ones hold. *)
Mapped == {i \in DOMAIN sup_page_table : ~sup_page_table[i].freed /\ sup_page_table[i].user_vaddr \in Range(list_mmap)}
Dirty(set) == {i \in set : sup_page_table[i].user_vaddr \in dirty}
Index(i) == sup_page_table[i].offset \div PGSIZE

(* file_write_at() of pages, in the order of list_mmap: the last one counts. *)
WrittenBack(set) ==
  [x \in MapPages |->
     LET those == {i \in set : Index(i) = x} IN
       IF those = {} THEN file[x] ELSE sup_page_table[Max(those)].data]

Owed(set) ==
  [x \in MapPages |->
     LET those == {i \in set : Index(i) = x}
         last == sup_page_table[Max(those)].user_vaddr
     IN  CASE those = {} -> owed[x]
           [] last \in evicted -> NULL
           [] OTHER -> wrote[last]]

(* Mutant of MunmapPages: pages whose dirty bit is clear are written. *)
MunmapPagesClean(set) ==
  /\ file' = WrittenBack(set \ Dirty(set))
  /\ sup_page_table' = [i \in DOMAIN sup_page_table |-> [sup_page_table[i] EXCEPT !.freed = @ \/ i \in set]]

(* The pages are written and freed; their entries stay on the list. *)
MunmapPages(set) ==
  /\ file' = WrittenBack(Dirty(set))
  /\ sup_page_table' = [i \in DOMAIN sup_page_table |-> [sup_page_table[i] EXCEPT !.freed = @ \/ i \in set]]

(***************************************************************************)
(* munmap(), with lock_frame: a page that is marked as dirty and not in    *)
(* memory faults, and page_handling() asks for the lock again.             *)
(***************************************************************************)
Munmap(id) ==
  LET set == {i \in Mapped : sup_page_table[i].map_id = id}
      gone == {sup_page_table[i].user_vaddr : i \in set}
  IN  /\ At("user")
      /\ IF \E i \in Dirty(set) : ~sup_page_table[i].loaded
         THEN Stops("lock_frame") /\ UNCHANGED <<sup_page_table, list_mmap, fileVars>>
         ELSE /\ MunmapPages(set)
              /\ list_mmap' = SelectSeq(list_mmap, LAMBDA a : a \notin gone)
              /\ owed' = Owed({i \in set : wrote[sup_page_table[i].user_vaddr] # NULL})
              /\ wrote' = [a \in UserPages |-> IF a \in gone THEN NULL ELSE wrote[a]]
              /\ evicted' = evicted \ gone
              /\ UNCHANGED <<pc, broken>>
      /\ UNCHANGED <<loadVars, dirty, map_id, m>>

-----------------------------------------------------------------------------
(* exit() *)
CallExit ==
  /\ At("user") /\ Goto("exit")
  /\ main_file' = "closed"
  /\ UNCHANGED <<args, phdrs, stack, sup_page_table, dirty, mapVars, fileVars>>

(***************************************************************************)
(* process_exit() writes what is dirty, and here a page that is not in     *)
(* memory comes in, if find_page() finds its way to it.                    *)
(***************************************************************************)
ExitWrite ==
  LET set == Dirty(Mapped)
  IN  /\ At("exit")
      /\ IF \E i \in set : ~sup_page_table[i].loaded /\ Stale(sup_page_table[i].user_vaddr)
         THEN Stops("freed entry") /\ UNCHANGED <<file, owed>>
         ELSE /\ Goto("free")
              /\ file' = WrittenBack(set)
              /\ owed' = Owed({i \in Mapped : wrote[sup_page_table[i].user_vaddr] # NULL})
      /\ UNCHANGED <<loadVars, sup_page_table, dirty, mapVars, wrote, evicted>>

(* The entries of mapped pages are freed, and then all that are on the list. *)
ExitFree ==
  /\ At("free")
  /\ IF Mapped = {} /\ \A i \in DOMAIN sup_page_table : ~sup_page_table[i].freed
     THEN sup_page_table' = <<>> /\ Goto("dead")
     ELSE Stops("freed entry") /\ UNCHANGED sup_page_table
  /\ UNCHANGED <<loadVars, dirty, mapVars, fileVars>>

-----------------------------------------------------------------------------
Load ==
  \/ CreatePagedir \/ ReadHeader \/ BadPhdr \/ SetupStack
  \/ \E line \in CommandLines : Open(line)
  \/ \E h \in Phdrs : ReadPhdr(h)

Run ==
  \/ \E addr \in UserPages : PageFault(addr)
  \/ \E i \in DOMAIN sup_page_table : Evict(i) \/ \E v \in Data : Write(i, v)
  \/ \E addr \in MapAddrs : Mmap(addr)
  \/ MmapPage \/ MmapReturn
  \/ \E id \in 0 .. map_id - 1 : Munmap(id)
  \/ CallExit \/ ExitWrite \/ ExitFree

Next == Load \/ Run

Spec == Init /\ [][Next]_vars

-----------------------------------------------------------------------------
(* What a program finds at an address of its executable when it has touched the page. *)
ByteAt(addr) ==
  LET e == sup_page_table[CHOOSE i \in Found(pg_round_down(addr)) : TRUE]
  IN  IF addr % PGSIZE < e.read_bytes THEN e.offset + (addr % PGSIZE) ELSE "zero"

(***************************************************************************)
(* Whatever sizes, offsets and addresses the headers have that             *)
(* validate_segment() accepts, and whatever is mapped later: a segment is  *)
(* within user memory and above page 0, and each of its bytes is the       *)
(* file's or, from p_filesz on, zero.                                      *)
(***************************************************************************)
SegmentContents ==
  /\ broken # "segment"
  /\ \A i \in DOMAIN sup_page_table : sup_page_table[i].user_vaddr \in UserPages \ {0}
  /\ pc \in {"phdr", "user", "mmap"} =>
       \A k \in DOMAIN phdrs :
         \A b \in 0 .. phdrs[k].p_memsz - 1 :
           /\ Found(pg_round_down(phdrs[k].p_vaddr + b)) # {}
           /\ ByteAt(phdrs[k].p_vaddr + b) =
                IF b < phdrs[k].p_filesz THEN phdrs[k].p_offset + b ELSE "zero"

(***************************************************************************)
(* The first instruction finds the stack as C expects it: the word at esp  *)
(* is a return address, the next ones are argc and argv, argv[0] to        *)
(* argv[argc - 1] lead to the arguments with their terminators, and        *)
(* argv[argc] is null; nothing overlaps and every word is aligned.         *)
(***************************************************************************)
WordAt(a, w) == a % WORD = 0 /\ \A k \in 0 .. WORD - 1 : stack.mem[a + k] = <<w, k>>

MainSees ==
  stack # NULL =>
    LET argv == stack.mem[stack.esp + 2 * WORD][1]
    IN  /\ WordAt(stack.esp, 0)
        /\ WordAt(stack.esp + WORD, Len(args))
        /\ WordAt(stack.esp + 2 * WORD, argv)
        /\ WordAt(argv + Len(args) * WORD, 0)
        /\ \A i \in DOMAIN args :
             LET arg == stack.mem[argv + (i - 1) * WORD][1]
             IN  /\ WordAt(argv + (i - 1) * WORD, arg)
                 /\ \A k \in 0 .. args[i] : stack.mem[arg + k] = <<"arg", i, k>>

(***************************************************************************)
(* Mappings come and go, fail half way and overlap: list_mmap leads to     *)
(* entries that are alive and of the mapped file, and what a program wrote *)
(* to a page is in the file once the page is not mapped any more, unless   *)
(* the page was evicted after the write, which clears the dirty bit.       *)
(***************************************************************************)
MapInv ==
  /\ IsInjective(list_mmap)
  /\ \A a \in Range(list_mmap) : \E i \in Found(a) : sup_page_table[i].of = "map"
  /\ \A i \in Mapped : sup_page_table[i].map_id <= map_id
  /\ \A x \in MapPages : owed[x] # NULL => file[x] = owed[x]
=============================================================================

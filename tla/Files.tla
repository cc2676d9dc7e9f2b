--------------------------------- MODULE Files ---------------------------------
(***************************************************************************)
(* Open files: the list open_inodes and the reference counts of            *)
(* filesys/inode.c, struct file of filesys/file.c, and the descriptors of  *)
(* a process with the system calls on them (userprog/syscall.c).           *)
(*                                                                         *)
(* Files are in one directory, which is open all the time: the first       *)
(* process has it as its current directory.  dir_lookup() and dir_remove() *)
(* hold the lock of the directory while they call inode_open().  Nothing   *)
(* is locked when a file is closed.  A thread can lose the processor       *)
(* between any two steps; a step here does at most one thing that another  *)
(* thread can see.                                                         *)
(*                                                                         *)
(* A file has as its name the sector of its inode.  Lengths and positions  *)
(* count in chunks, what one iteration of the loops in inode_read_at() and *)
(* inode_write_at() copies.                                                *)
(***************************************************************************)
EXTENDS Integers, Sequences, SequencesExt

CONSTANTS
  Procs,
  Sectors,        \* sectors for the inodes of files
  Inodes,         \* addresses for struct inode
  MaxLength,      \* bound on the length of a file
  MaxOpen,        \* bound on the files that a process has open
  NULL

(* struct file, without the flag that main_file alone has set. *)
FileObjects == [inode : Inodes, pos : Nat]

ASSUME FilesAssumption ==
  /\ IsFiniteSet(Procs)
  /\ {MaxLength, MaxOpen} \subseteq Nat
  /\ NULL \notin Procs \cup Sectors \cup Inodes
  /\ NULL \notin FileObjects

VARIABLES
  free_map,       \* the sectors that are marked
  dir,            \* the files with an entry in the directory
  disk_length,    \* the length in the inode on the disk
  dir_lock,       \* holder of the lock of the directory
  open_inodes,    \* the struct inodes on the list
  inode,          \* their members
  list_file,      \* the open files of a process
  main_file,      \* its executable, or NULL
  c,              \* where a process is in a system call
  grown,          \* history: the length each file should have
  tangled,        \* history: struct inodes written in another way than by appending
  raced           \* history: a last close and an open of one file have overlapped

procVars == <<list_file, main_file, c>>
vars == <<free_map, dir, disk_length, dir_lock, open_inodes, inode, procVars,
          grown, tangled, raced>>

Unused == [sector |-> NULL, open_cnt |-> 0, removed |-> FALSE, deny_write_cnt |-> 0,
           length |-> 0, length_shown |-> 0, lock |-> NULL]

(* file_open(). *)
Opened(o) == [inode |-> o, pos |-> 0]

Idle == [at |-> "idle", why |-> "none", sector |-> NULL, inode |-> NULL, file |-> 0,
         off |-> 0, size |-> 0]

(***************************************************************************)
(* inode_open() is at "scan", then at "reopen" or at "new" and "read".     *)
(* inode_close() is at "close" and, for the last opener, "unlist" and      *)
(* "flush".  dir_remove() is at "erase" between the two, load() at "load". *)
(* inode_write_at() is at "lock", "grow", "copy" and "show",               *)
(* inode_read_at() at "readin".  A process that has exited is at "gone".   *)
(***************************************************************************)
Opening == {"scan", "reopen", "new", "read"}
Closing == {"unlist", "flush"}
Writing == {"lock", "grow", "copy", "show"}

(* A file system with one file, and processes that have loaded nothing yet. *)
Init ==
  /\ \E s \in Sectors : free_map = {s} /\ dir = {s}
  /\ disk_length = [s \in Sectors |-> 0]
  /\ dir_lock = NULL
  /\ open_inodes = {}
  /\ inode = [o \in Inodes |-> Unused]
  /\ list_file = [p \in Procs |-> <<>>]
  /\ main_file = [p \in Procs |-> NULL]
  /\ c = [p \in Procs |-> Idle]
  /\ grown = [s \in Sectors |-> 0]
  /\ tangled = {}
  /\ raced = FALSE

At(p, place) == c[p].at = place
Goto(p, place) == c' = [c EXCEPT ![p].at = place]
Return(p) == c' = [c EXCEPT ![p] = Idle]

dataVars == <<grown, tangled>>
diskVars == <<free_map, dir, disk_length>>

-----------------------------------------------------------------------------
(* filesys_create() of an empty file, up to dir_add(). *)
Create(p, s) ==
  /\ At(p, "idle") /\ dir_lock = NULL
  /\ s \notin free_map
  /\ free_map' = free_map \cup {s}
  /\ dir' = dir \cup {s}
  /\ disk_length' = [disk_length EXCEPT ![s] = 0]
  /\ grown' = [grown EXCEPT ![s] = 0]
  /\ UNCHANGED <<dir_lock, open_inodes, inode, procVars, tangled, raced>>

(***************************************************************************)
(* dir_lookup() for open() and load(), dir_remove() for remove(): the      *)
(* directory is locked and has an entry for s; inode_open() begins.        *)
(***************************************************************************)
Lookup(p, s, why) ==
  /\ At(p, "idle") /\ dir_lock = NULL
  /\ s \in dir
  /\ why = "open" => Len(list_file[p]) < MaxOpen
  /\ why = "load" => main_file[p] = NULL
  /\ dir_lock' = p
  /\ c' = [c EXCEPT ![p] = [Idle EXCEPT !.at = "scan", !.why = why, !.sector = s]]
  /\ raced' = (raced \/ \E q \in Procs : c[q].at \in Closing /\ inode[c[q].inode].sector = s)
  /\ UNCHANGED <<diskVars, open_inodes, inode, list_file, main_file, dataVars>>

(* The loop of inode_open() over open_inodes. *)
OpenScan(p) ==
  /\ At(p, "scan")
  /\ LET found == {o \in open_inodes : inode[o].sector = c[p].sector}
     IN  \/ \E o \in found : c' = [c EXCEPT ![p].at = "reopen", ![p].inode = o]
         \/ found = {} /\ Goto(p, "new")
  /\ UNCHANGED <<diskVars, dir_lock, open_inodes, inode, list_file, main_file, dataVars, raced>>

(* Where a thread goes with the inode it has opened. *)
Opened1(p, o) ==
  CASE c[p].why = "open" ->
         /\ dir_lock' = NULL
         /\ list_file' = [list_file EXCEPT ![p] = Append(@, Opened(o))]
         /\ Return(p)
    [] c[p].why = "load" ->
         /\ dir_lock' = NULL
         /\ c' = [c EXCEPT ![p].at = "load", ![p].inode = o]
         /\ UNCHANGED list_file
    [] c[p].why = "remove" ->
         /\ c' = [c EXCEPT ![p].at = "erase", ![p].inode = o]
         /\ UNCHANGED <<dir_lock, list_file>>

(* Mutant of OpenReopen: the opener is not counted. *)
OpenReopenUncounted(p) ==
  /\ At(p, "reopen")
  /\ Opened1(p, c[p].inode)
  /\ UNCHANGED <<diskVars, open_inodes, inode, main_file, dataVars, raced>>

OpenReopen(p) ==
  /\ At(p, "reopen")
  /\ inode' = [inode EXCEPT ![c[p].inode].open_cnt = @ + 1]
  /\ Opened1(p, c[p].inode)
  /\ UNCHANGED <<diskVars, open_inodes, main_file, dataVars, raced>>

(* The inode goes on the list before it has been read. *)
OpenNew(p) ==
  /\ At(p, "new")
  /\ \E o \in Inodes :
       /\ inode[o] = Unused
       /\ open_inodes' = open_inodes \cup {o}
       /\ inode' = [inode EXCEPT ![o] = [Unused EXCEPT !.sector = c[p].sector, !.open_cnt = 1]]
       /\ tangled' = tangled \ {o}
       /\ c' = [c EXCEPT ![p].at = "read", ![p].inode = o]
  /\ UNCHANGED <<diskVars, dir_lock, list_file, main_file, grown, raced>>

OpenRead(p) ==
  /\ At(p, "read")
  /\ LET length == disk_length[c[p].sector]
     IN  inode' = [inode EXCEPT ![c[p].inode].length = length,
                                ![c[p].inode].length_shown = length]
  /\ Opened1(p, c[p].inode)
  /\ UNCHANGED <<diskVars, open_inodes, main_file, dataVars, raced>>

inode_deny_write(o)  == inode' = [inode EXCEPT ![o].deny_write_cnt = @ + 1]
inode_allow_write(o) == inode' = [inode EXCEPT ![o].deny_write_cnt = @ - 1]

(* load() succeeds and calls file_deny_write(), or closes the file again. *)
Load(p) ==
  /\ At(p, "load")
  /\ main_file' = [main_file EXCEPT ![p] = Opened(c[p].inode)]
  /\ inode_deny_write(c[p].inode)
  /\ Return(p)
  /\ UNCHANGED <<diskVars, dir_lock, open_inodes, list_file, dataVars, raced>>

LoadFails(p) ==
  /\ At(p, "load")
  /\ Goto(p, "close")
  /\ UNCHANGED <<diskVars, dir_lock, open_inodes, inode, list_file, main_file, dataVars, raced>>

(* dir_remove() erases the entry and marks the inode. *)
Erase(p) ==
  /\ At(p, "erase")
  /\ dir' = dir \ {c[p].sector}
  /\ inode' = [inode EXCEPT ![c[p].inode].removed = TRUE]
  /\ Goto(p, "close")
  /\ UNCHANGED <<free_map, disk_length, dir_lock, open_inodes, list_file, main_file, dataVars, raced>>

-----------------------------------------------------------------------------
(* Descriptors are the indices of list_file: an fd is never in it twice. *)
file_find_by_fd(p, k) == list_file[p][k]

(* close(): the k-th descriptor. *)
Close(p, k) ==
  /\ At(p, "idle")
  /\ c' = [c EXCEPT ![p] = [Idle EXCEPT !.at = "close", !.why = "close",
                                        !.inode = file_find_by_fd(p, k).inode]]
  /\ list_file' = [list_file EXCEPT ![p] = RemoveAt(@, k)]
  /\ UNCHANGED <<diskVars, dir_lock, open_inodes, inode, main_file, dataVars, raced>>

(***************************************************************************)
(* exit() closes the executable: file_allow_write(), then inode_close().   *)
(* Then process_exit() closes the first of the open files and reads the    *)
(* next one from memory it has just freed: it gets no further.             *)
(***************************************************************************)
ExitMain(p) ==
  /\ At(p, "idle") /\ main_file[p] # NULL
  /\ LET o == main_file[p].inode
     IN  /\ inode_allow_write(o)
         /\ c' = [c EXCEPT ![p] = [Idle EXCEPT !.at = "close", !.why = "exit", !.inode = o]]
  /\ main_file' = [main_file EXCEPT ![p] = NULL]
  /\ UNCHANGED <<diskVars, dir_lock, open_inodes, list_file, dataVars, raced>>

ExitFiles(p) ==
  /\ At(p, "exit")
  /\ IF list_file[p] = <<>>
       THEN Goto(p, "gone") /\ UNCHANGED list_file
       ELSE /\ c' = [c EXCEPT ![p] = [Idle EXCEPT !.at = "close", !.why = "last",
                                                  !.inode = Head(list_file[p]).inode]]
            /\ list_file' = [list_file EXCEPT ![p] = Tail(@)]
  /\ UNCHANGED <<diskVars, dir_lock, open_inodes, inode, main_file, dataVars, raced>>

(* Where a thread goes when inode_close() returns. *)
Closed(p) ==
  /\ dir_lock' = IF c[p].why = "remove" THEN NULL ELSE dir_lock
  /\ CASE c[p].why = "exit" -> Goto(p, "exit")
       [] c[p].why = "last" -> Goto(p, "gone")
       [] OTHER -> Return(p)

(* --inode->open_cnt == 0. *)
CloseCount(p) ==
  /\ At(p, "close")
  /\ LET o == c[p].inode
     IN  /\ inode' = [inode EXCEPT ![o].open_cnt = @ - 1]
         /\ IF inode[o].open_cnt = 1
              THEN /\ Goto(p, "unlist")
                   /\ raced' = (raced \/ \E q \in Procs :
                                  c[q].at \in Opening /\ c[q].sector = inode[o].sector)
                   /\ UNCHANGED dir_lock
              ELSE Closed(p) /\ UNCHANGED raced
  /\ UNCHANGED <<diskVars, open_inodes, list_file, main_file, dataVars>>

CloseUnlist(p) ==
  /\ At(p, "unlist")
  /\ open_inodes' = open_inodes \ {c[p].inode}
  /\ Goto(p, "flush")
  /\ UNCHANGED <<diskVars, dir_lock, inode, list_file, main_file, dataVars, raced>>

(* Mutant of CloseFlush: the inode is written with the length readers see. *)
CloseFlushShown(p) ==
  /\ At(p, "flush")
  /\ LET o == inode[c[p].inode]
     IN  \/ /\ o.removed
            /\ free_map' = free_map \ {o.sector}
            /\ UNCHANGED disk_length
         \/ /\ ~o.removed
            /\ disk_length' = [disk_length EXCEPT ![o.sector] = o.length_shown]
            /\ UNCHANGED free_map
  /\ inode' = [inode EXCEPT ![c[p].inode] = Unused]
  /\ Closed(p)
  /\ UNCHANGED <<dir, open_inodes, list_file, main_file, dataVars, raced>>

(* The sectors of a removed file are released, another inode is written. *)
CloseFlush(p) ==
  /\ At(p, "flush")
  /\ LET o == inode[c[p].inode]
     IN  \/ /\ o.removed
            /\ free_map' = free_map \ {o.sector}
            /\ UNCHANGED disk_length
         \/ /\ ~o.removed
            /\ disk_length' = [disk_length EXCEPT ![o.sector] = o.length]
            /\ UNCHANGED free_map
  /\ inode' = [inode EXCEPT ![c[p].inode] = Unused]
  /\ Closed(p)
  /\ UNCHANGED <<dir, open_inodes, list_file, main_file, dataVars, raced>>

-----------------------------------------------------------------------------
(* write(): inode_write_at() looks at deny_write_cnt before it locks. *)
Write(p, k, size) ==
  /\ At(p, "idle")
  /\ LET f == file_find_by_fd(p, k)
     IN  /\ inode[f.inode].deny_write_cnt = 0
         /\ f.pos + size <= MaxLength
         /\ c' = [c EXCEPT ![p] = [Idle EXCEPT !.at = "lock", !.inode = f.inode, !.file = k,
                                               !.off = f.pos, !.size = size]]
  /\ UNCHANGED <<diskVars, dir_lock, open_inodes, inode, list_file, main_file, dataVars, raced>>

(* Another thread is writing to the inode. *)
Disturbed(p) ==
  \E q \in Procs \ {p} : c[q].at \in Writing \ {"lock"} /\ c[q].inode = c[p].inode

(* inode_lock_acquire() and the test; the lock is kept while the file grows. *)
WriteLock(p) ==
  /\ At(p, "lock")
  /\ LET o == c[p].inode
         n == inode[o]
         longer == c[p].off + c[p].size > n.length
     IN  /\ n.lock = NULL
         /\ inode' = [inode EXCEPT ![o].lock = IF longer THEN p ELSE NULL]
         /\ Goto(p, IF longer THEN "grow" ELSE "copy")
         /\ tangled' = IF Disturbed(p) \/ c[p].off # n.length \/ n.length_shown # n.length
                         THEN tangled \cup {o} ELSE tangled
  /\ UNCHANGED <<diskVars, dir_lock, open_inodes, list_file, main_file, grown, raced>>

(* inode_grow() has added the sectors. *)
WriteGrow(p) ==
  /\ At(p, "grow")
  /\ LET o == c[p].inode
         length == c[p].off + c[p].size
     IN  /\ inode' = [inode EXCEPT ![o].length = length, ![o].lock = NULL]
         /\ grown' = [grown EXCEPT ![inode[o].sector] = length]
  /\ Goto(p, "copy")
  /\ UNCHANGED <<diskVars, dir_lock, open_inodes, list_file, main_file, tangled, raced>>

WriteCopy(p) ==
  /\ At(p, "copy") /\ c[p].size > 0
  /\ Goto(p, "show")
  /\ UNCHANGED <<diskVars, dir_lock, open_inodes, inode, list_file, main_file, dataVars, raced>>

(* Mutant of WriteShow: the new length is shown with the first chunk. *)
WriteShowAll(p) ==
  /\ At(p, "show")
  /\ inode' = [inode EXCEPT ![c[p].inode].length_shown = inode[c[p].inode].length]
  /\ c' = [c EXCEPT ![p].at = "copy", ![p].off = @ + 1, ![p].size = @ - 1]
  /\ UNCHANGED <<diskVars, dir_lock, open_inodes, list_file, main_file, dataVars, raced>>

(***************************************************************************)
(* length_shown follows by one chunk, but not beyond the length.  Two      *)
(* writers at once could lose or repeat an update; the inode is tangled    *)
(* then.                                                                   *)
(***************************************************************************)
WriteShow(p) ==
  /\ At(p, "show")
  /\ LET o == c[p].inode
         n == inode[o]
     IN  inode' = [inode EXCEPT ![o].length_shown = IF @ + 1 > n.length THEN n.length ELSE @ + 1]
  /\ c' = [c EXCEPT ![p].at = "copy", ![p].off = @ + 1, ![p].size = @ - 1]
  /\ UNCHANGED <<diskVars, dir_lock, open_inodes, list_file, main_file, dataVars, raced>>

(* read() of a chunk or more, as far as length_shown allows. *)
Read(p, k, size) ==
  /\ At(p, "idle")
  /\ LET f == file_find_by_fd(p, k)
     IN  /\ f.pos < inode[f.inode].length_shown
         /\ c' = [c EXCEPT ![p] = [Idle EXCEPT !.at = "readin", !.inode = f.inode, !.file = k,
                                               !.off = f.pos, !.size = size]]
  /\ UNCHANGED <<diskVars, dir_lock, open_inodes, inode, list_file, main_file, dataVars, raced>>

Unread(p) == c[p].size > 0 /\ c[p].off < inode[c[p].inode].length_shown

ReadChunk(p) ==
  /\ At(p, "readin") /\ Unread(p)
  /\ c' = [c EXCEPT ![p].off = @ + 1, ![p].size = @ - 1]
  /\ UNCHANGED <<diskVars, dir_lock, open_inodes, inode, list_file, main_file, dataVars, raced>>

(* file_read() and file_write() advance the position. *)
Advance(p) ==
  /\ \/ At(p, "readin") /\ ~Unread(p)
     \/ At(p, "copy") /\ c[p].size = 0
  /\ list_file' = [list_file EXCEPT ![p][c[p].file].pos = c[p].off]
  /\ Return(p)
  /\ UNCHANGED <<diskVars, dir_lock, open_inodes, inode, main_file, dataVars, raced>>

(* seek(); what the handler does with `result' afterwards may be exit(). *)
Seek(p, k, pos) ==
  /\ At(p, "idle")
  /\ list_file' = [list_file EXCEPT ![p][k].pos = pos]
  /\ UNCHANGED <<diskVars, dir_lock, open_inodes, inode, main_file, c, dataVars, raced>>

-----------------------------------------------------------------------------
InodeStep(p) ==
  \/ OpenScan(p) \/ OpenReopen(p) \/ OpenNew(p) \/ OpenRead(p) \/ Load(p) \/ LoadFails(p)
  \/ Erase(p) \/ CloseCount(p) \/ CloseUnlist(p) \/ CloseFlush(p)
  \/ WriteLock(p) \/ WriteGrow(p) \/ WriteCopy(p) \/ WriteShow(p) \/ ReadChunk(p) \/ Advance(p)

Next ==
  \E p \in Procs :
    \/ InodeStep(p) \/ ExitMain(p) \/ ExitFiles(p)
    \/ \E s \in Sectors : Create(p, s) \/ \E why \in {"open", "load", "remove"} : Lookup(p, s, why)
    \/ \E k \in DOMAIN list_file[p] :
         \/ Close(p, k)
         \/ \E size \in 1 .. MaxLength : Write(p, k, size) \/ Read(p, k, size)
         \/ \E pos \in 0 .. MaxLength : Seek(p, k, pos)

Spec == Init /\ [][Next]_vars

-----------------------------------------------------------------------------
(* The references to a struct inode that open_cnt has to count. *)
Descriptors(o) ==
  {d \in Procs \X (1 .. MaxOpen) :
     d[2] \in DOMAIN list_file[d[1]] /\ list_file[d[1]][d[2]].inode = o}
Runs(o)  == {p \in Procs : main_file[p] # NULL /\ main_file[p].inode = o}
Calls(o) == {p \in Procs : c[p].at \in {"read", "load", "erase", "close"} /\ c[p].inode = o}

Used == {o \in Inodes : inode[o].sector # NULL}

(***************************************************************************)
(* As long as no last close has overlapped with an open of the same file:  *)
(* a file has one struct inode, on the list as long as anybody refers to   *)
(* it; open_cnt counts the references and deny_write_cnt the processes     *)
(* that run the file; and the free map marks the files that have a name or *)
(* are open, so that a removed file is there until its last close and is   *)
(* gone after it.                                                          *)
(***************************************************************************)
RefInv ==
  ~raced =>
    /\ \A o, n \in Used : inode[o].sector = inode[n].sector => o = n
    /\ \A o \in Inodes :
         /\ inode[o].open_cnt = Cardinality(Descriptors(o)) + Cardinality(Runs(o))
                                  + Cardinality(Calls(o))
         /\ inode[o].deny_write_cnt = Cardinality(Runs(o))
         /\ inode[o].open_cnt > 0 => o \in open_inodes
    /\ open_inodes \subseteq Used
    /\ free_map = dir \cup {inode[o].sector : o \in Used}
    /\ \A o \in Used : inode[o].removed <=> inode[o].sector \notin dir

(***************************************************************************)
(* No growth of a file is lost: the length a file has reached is in its    *)
(* struct inode while there is one, and on the disk otherwise.             *)
(***************************************************************************)
LengthInv ==
  ~raced =>
    \A s \in dir :
      LET of == {o \in Used : inode[o].sector = s
                   /\ ~\E p \in Procs : At(p, "read") /\ c[p].inode = o}
      IN  IF of = {} THEN disk_length[s] = grown[s]
                     ELSE \A o \in of : inode[o].length = grown[s]

(***************************************************************************)
(* While a file is only appended to, by one thread at a time, a reader     *)
(* never gets a chunk that the writer has not copied yet, and when the     *)
(* writer is done everything it wrote can be read.                         *)
(***************************************************************************)
AppendInv ==
  ~raced =>
    \A o \in open_inodes \ tangled :
      LET writers == {p \in Procs : c[p].at \in {"grow", "copy", "show"} /\ c[p].inode = o}
      IN  IF writers = {} THEN inode[o].length_shown = inode[o].length
                          ELSE \A p \in writers : inode[o].length_shown = c[p].off
=============================================================================

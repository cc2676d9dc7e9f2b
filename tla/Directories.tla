------------------------------ MODULE Directories ------------------------------
(***************************************************************************)
(* The tree of directories: path names and the calls of filesys/filesys.c, *)
(* entries and their locks of filesys/directory.c, and chdir(), mkdir(),   *)
(* open(), remove() and close() of userprog/syscall.c.                     *)
(*                                                                         *)
(* A path name is a sequence of components.  A directory is locked while   *)
(* its entries are searched or changed; between two steps of a call        *)
(* another process can run.  Module Files models how struct inodes come    *)
(* and go: here opening and closing an inode is one step that changes      *)
(* open_cnt.  An entry is a pair of a name and a sector; the order of the  *)
(* slots in a directory does not matter to any caller.                     *)
(*                                                                         *)
(* Some paths through the code drop a reference they hold.  The history    *)
(* variable `leaked' counts those.                                         *)
(***************************************************************************)
EXTENDS Integers, Sequences, FiniteSets

CONSTANTS
  Procs,
  Root,           \* ROOT_DIR_SECTOR
  Sectors,        \* sectors for the inodes of other files and directories
  Names,          \* names other than "." and ".."
  Paths,          \* the path names that are used, sequences of components
  MaxRefs,        \* bound on open_cnt
  NULL

Dot    == "."
DotDot == ".."

ASSUME DirAssumption ==
  /\ IsFiniteSet(Procs)
  /\ Root \notin Sectors
  /\ NULL \notin Sectors \cup {Root} \cup Procs
  /\ {Dot, DotDot, ""} \cap Names = {}
  /\ Paths \subseteq Seq(Names \cup {Dot, DotDot})
  /\ MaxRefs \in Nat

Inodes == Sectors \cup {Root}

VARIABLES
  free_map,       \* the inode sectors that are marked
  is_dir, parent, \* members of the inodes
  entries,        \* the entries in use of a directory
  open_cnt, removed,
  lock,           \* holder of the lock of a directory
  current_dir,    \* of a process
  fds,            \* the inode a process has open through a descriptor, or NULL
  c,              \* where a process is in a system call
  leaked,         \* history: references to an inode that nobody will close
  dangling,       \* history: a process has a current directory it does not count for
  orphaned        \* history: a directory has been removed while it had entries

treeVars == <<free_map, is_dir, parent, entries, removed>>
scope == <<dangling, orphaned>>
vars == <<treeVars, open_cnt, lock, current_dir, fds, c, leaked, dangling, orphaned>>

Idle == [at |-> "idle", op |-> "none", dir |-> NULL, path |-> <<>>, name |-> "",
         sector |-> NULL]

Init ==
  /\ free_map = {Root}
  /\ is_dir = [s \in Inodes |-> s = Root]
  /\ parent = [s \in Inodes |-> NULL]
  /\ entries = [s \in Inodes |-> {}]
  /\ removed = [s \in Inodes |-> FALSE]
  /\ open_cnt = [s \in Inodes |-> IF s = Root THEN Cardinality(Procs) ELSE 0]
  /\ lock = [s \in Inodes |-> NULL]
  /\ current_dir = [p \in Procs |-> Root]
  /\ fds = [p \in Procs |-> NULL]
  /\ c = [p \in Procs |-> Idle]
  /\ leaked = [s \in Inodes |-> 0]
  /\ dangling = FALSE
  /\ orphaned = FALSE

At(p, place) == c[p].at = place
Goto(p, place) == c' = [c EXCEPT ![p].at = place]
Return(p) == c' = [c EXCEPT ![p] = Idle]

(* lookup(): the sectors with this name in a directory. *)
lookup(d, name) == {e[2] : e \in {x \in entries[d] : x[1] = name}}

(* inode_open() and inode_reopen(); inode_close() of one that stays open. *)
Opened(s) == [open_cnt EXCEPT ![s] = @ + 1]
Moved(from, to) == [s \in Inodes |-> open_cnt[s] + (IF s = to THEN 1 ELSE 0)
                                                 - (IF s = from THEN 1 ELSE 0)]

(* free_map_release().  Nobody reads an inode from a sector that is not    *)
(* marked, so what was in it is forgotten.                                  *)
free_map_release(s) ==
  /\ free_map' = free_map \ {s}
  /\ is_dir' = [is_dir EXCEPT ![s] = FALSE]
  /\ parent' = [parent EXCEPT ![s] = NULL]

(* inode_close(): the last one frees a removed inode, and the struct inode. *)
CloseInode(s) ==
  /\ open_cnt' = [open_cnt EXCEPT ![s] = @ - 1]
  /\ removed' = [removed EXCEPT ![s] = @ /\ open_cnt[s] # 1]
  /\ IF open_cnt[s] = 1 /\ removed[s] THEN free_map_release(s)
                                      ELSE UNCHANGED <<free_map, is_dir, parent>>

-----------------------------------------------------------------------------
(***************************************************************************)
(* parse_file() is the last component, "" if there is none.  parse_dir()   *)
(* starts at the root or at the current directory.                         *)
(***************************************************************************)
parse_file(path) == IF path = <<>> THEN "" ELSE path[Len(path)]

Call(p, op, absolute, path) ==
  /\ At(p, "idle")
  /\ op = "open" => fds[p] = NULL /\ (path # <<>> \/ absolute)
  /\ LET base == IF absolute THEN Root ELSE current_dir[p]
     IN  /\ open_cnt[base] < MaxRefs
         /\ open_cnt' = Opened(base)
         /\ c' = [c EXCEPT ![p] = [at |-> "walk", op |-> op, dir |-> base, path |-> path,
                                   name |-> parse_file(path), sector |-> NULL]]
  /\ UNCHANGED <<treeVars, lock, current_dir, fds, leaked, scope>>

(* One component of parse_dir() that is not the last. *)
Walks(p) == At(p, "walk") /\ Len(c[p].path) > 1
Rest(p)  == Tail(c[p].path)

WalkDot(p) ==
  /\ Walks(p) /\ Head(c[p].path) = Dot
  /\ c' = [c EXCEPT ![p].path = Rest(p)]
  /\ UNCHANGED <<treeVars, open_cnt, lock, current_dir, fds, leaked, scope>>

(* The parent is opened, and the walk goes on in the same directory.  The  *)
(* root has no parent: sector 0 is opened, which is the free map.          *)
WalkParent(p) ==
  /\ Walks(p) /\ Head(c[p].path) = DotDot
  /\ LET up == parent[c[p].dir]
     IN  \/ up = NULL /\ UNCHANGED <<open_cnt, leaked>>
         \/ /\ up # NULL /\ open_cnt[up] < MaxRefs
            /\ open_cnt' = Opened(up)
            /\ leaked' = [leaked EXCEPT ![up] = @ + 1]
  /\ c' = [c EXCEPT ![p].path = Rest(p)]
  /\ UNCHANGED <<treeVars, lock, current_dir, fds, scope>>

(***************************************************************************)
(* dir_lookup(): into a directory; over a file, which is closed again; or  *)
(* parse_dir() gives up, without closing the directory it is in.           *)
(***************************************************************************)
WalkName(p) ==
  /\ Walks(p) /\ Head(c[p].path) \in Names
  /\ lock[c[p].dir] = NULL
  /\ LET d == c[p].dir
         found == lookup(d, Head(c[p].path))
     IN  \/ \E s \in found :
              /\ UNCHANGED leaked
              /\ IF is_dir[s]
                   THEN /\ open_cnt[s] < MaxRefs
                        /\ open_cnt' = Moved(d, s)
                        /\ c' = [c EXCEPT ![p].path = Rest(p), ![p].dir = s]
                   ELSE /\ c' = [c EXCEPT ![p].path = Rest(p)]
                        /\ UNCHANGED open_cnt
         \/ /\ found = {}
            /\ leaked' = [leaked EXCEPT ![d] = @ + 1]
            /\ Return(p)
            /\ UNCHANGED open_cnt
  /\ UNCHANGED <<treeVars, lock, current_dir, fds, scope>>

(* parse_dir() has returned; the call goes on with the last component. *)
Arrived(p, op) == At(p, "walk") /\ Len(c[p].path) <= 1 /\ c[p].op = op

-----------------------------------------------------------------------------
(* filesys_create(): a sector and an inode, then dir_add(). *)
CreateInode(p, s) ==
  /\ \E op \in {"create", "mkdir"} :
       Arrived(p, op) /\ is_dir' = [is_dir EXCEPT ![s] = (op = "mkdir")]
  /\ s \in Sectors \ free_map
  /\ free_map' = free_map \cup {s}
  /\ entries' = [entries EXCEPT ![s] = {}]
  /\ parent' = [parent EXCEPT ![s] = NULL]
  /\ c' = [c EXCEPT ![p].at = "add", ![p].sector = s]
  /\ UNCHANGED <<removed, open_cnt, lock, current_dir, fds, leaked, scope>>

(* The disk is full. *)
CreateFails(p) ==
  /\ Arrived(p, "create") \/ Arrived(p, "mkdir")
  /\ Sectors \subseteq free_map
  /\ Goto(p, "done")
  /\ UNCHANGED <<treeVars, open_cnt, lock, current_dir, fds, leaked, scope>>

(* dir_add() locks the directory, and looks for the name. *)
AddLock(p) ==
  /\ At(p, "add")
  /\ LET d == c[p].dir
     IN  /\ lock[d] = NULL
         /\ IF c[p].name # "" /\ lookup(d, c[p].name) = {}
              THEN lock' = [lock EXCEPT ![d] = p] /\ Goto(p, "write")
              ELSE Goto(p, "undo") /\ UNCHANGED lock
  /\ UNCHANGED <<treeVars, open_cnt, current_dir, fds, leaked, scope>>

AddWrite(p) ==
  /\ At(p, "write")
  /\ LET d == c[p].dir
         s == c[p].sector
     IN  /\ parent' = [parent EXCEPT ![s] = d]
         /\ entries' = [entries EXCEPT ![d] = @ \cup {<<c[p].name, s>>}]
         /\ lock' = [lock EXCEPT ![d] = NULL]
  /\ Goto(p, "done")
  /\ UNCHANGED <<free_map, is_dir, removed, open_cnt, current_dir, fds, leaked, scope>>

(* Mutant of Undo: the sector is not released. *)
UndoNothing(p) ==
  /\ At(p, "undo")
  /\ Goto(p, "done")
  /\ UNCHANGED <<treeVars, open_cnt, lock, current_dir, fds, leaked, scope>>

(* dir_add() has failed: free_map_release() of the inode. *)
Undo(p) ==
  /\ At(p, "undo")
  /\ free_map_release(c[p].sector)
  /\ Goto(p, "done")
  /\ UNCHANGED <<entries, removed, open_cnt, lock, current_dir, fds, leaked, scope>>

(* dir_close() of the directory at the end of a call. *)
Done(p) ==
  /\ At(p, "done")
  /\ CloseInode(c[p].dir)
  /\ Return(p)
  /\ UNCHANGED <<entries, lock, current_dir, fds, leaked, scope>>

-----------------------------------------------------------------------------
(***************************************************************************)
(* dir_remove() keeps the lock of the directory from the search to the     *)
(* end, the inode it removes is open meanwhile.                            *)
(***************************************************************************)
RemoveLock(p) ==
  /\ Arrived(p, "remove")
  /\ LET d == c[p].dir
         found == lookup(d, c[p].name)
     IN  /\ lock[d] = NULL
         /\ \/ \E s \in found :
                 /\ open_cnt[s] < MaxRefs
                 /\ open_cnt' = Opened(s)
                 /\ lock' = [lock EXCEPT ![d] = p]
                 /\ c' = [c EXCEPT ![p].sector = s,
                                   ![p].at = IF is_dir[s] THEN "empty" ELSE "erase"]
            \/ found = {} /\ Goto(p, "done") /\ UNCHANGED <<lock, open_cnt>>
  /\ UNCHANGED <<treeVars, current_dir, fds, leaked, scope>>

(* The entries of a directory are read without its own lock. *)
RemoveEmpty(p) ==
  /\ At(p, "empty")
  /\ Goto(p, IF entries[c[p].sector] = {} THEN "opened" ELSE "release")
  /\ UNCHANGED <<treeVars, open_cnt, lock, current_dir, fds, leaked, scope>>

(* Mutant of RemoveOpened: the counter is not looked at. *)
RemoveOpenedAnyway(p) ==
  /\ At(p, "opened")
  /\ Goto(p, "erase")
  /\ UNCHANGED <<treeVars, open_cnt, lock, current_dir, fds, leaked, scope>>

(* inode_is_opened(): by another than this thread. *)
RemoveOpened(p) ==
  /\ At(p, "opened")
  /\ Goto(p, IF open_cnt[c[p].sector] > 1 THEN "release" ELSE "erase")
  /\ UNCHANGED <<treeVars, open_cnt, lock, current_dir, fds, leaked, scope>>

(* The entry is overwritten; inode_remove(). *)
RemoveErase(p) ==
  /\ At(p, "erase")
  /\ entries' = [entries EXCEPT ![c[p].dir] = @ \ {<<c[p].name, c[p].sector>>}]
  /\ removed' = [removed EXCEPT ![c[p].sector] = TRUE]
  /\ orphaned' = (orphaned \/ entries[c[p].sector] # {})
  /\ Goto(p, "release")
  /\ UNCHANGED <<free_map, is_dir, parent, open_cnt, lock, current_dir, fds, leaked, dangling>>

RemoveRelease(p) ==
  /\ At(p, "release")
  /\ CloseInode(c[p].sector)
  /\ lock' = [lock EXCEPT ![c[p].dir] = NULL]
  /\ Goto(p, "done")
  /\ UNCHANGED <<entries, current_dir, fds, leaked, scope>>

-----------------------------------------------------------------------------
(* "." and the root itself: the name stands for the directory. *)
Itself(p) == c[p].name = Dot \/ (c[p].name = "" /\ c[p].dir = Root)

(* dir_get_parent_inode(), whose result nobody closes. *)
OpenParent(d) ==
  LET up == parent[d]
  IN  \/ up = NULL /\ UNCHANGED <<open_cnt, leaked>>
      \/ /\ up # NULL /\ open_cnt[up] < MaxRefs
         /\ open_cnt' = Opened(up)
         /\ leaked' = [leaked EXCEPT ![up] = @ + 1]

(* filesys_open(): the descriptor gets the directory, or what is in it. *)
OpenItself(p) ==
  /\ Arrived(p, "open") /\ Itself(p)
  /\ fds' = [fds EXCEPT ![p] = c[p].dir]
  /\ Return(p)
  /\ UNCHANGED <<treeVars, open_cnt, lock, current_dir, leaked, scope>>

(* open("..") fails, with the parent open. *)
OpenDotDot(p) ==
  /\ Arrived(p, "open") /\ c[p].name = DotDot
  /\ OpenParent(c[p].dir)
  /\ Goto(p, "done")
  /\ UNCHANGED <<treeVars, lock, current_dir, fds, scope>>

OpenName(p) ==
  /\ Arrived(p, "open") /\ ~Itself(p) /\ c[p].name # DotDot
  /\ lock[c[p].dir] = NULL
  /\ LET found == lookup(c[p].dir, c[p].name)
     IN  \/ \E s \in found :
              /\ open_cnt[s] < MaxRefs
              /\ open_cnt' = Opened(s)
              /\ fds' = [fds EXCEPT ![p] = s]
         \/ found = {} /\ UNCHANGED <<open_cnt, fds>>
  /\ Goto(p, "done")
  /\ UNCHANGED <<treeVars, lock, current_dir, leaked, scope>>

(* close(). *)
Close(p) ==
  /\ At(p, "idle") /\ fds[p] # NULL
  /\ CloseInode(fds[p])
  /\ fds' = [fds EXCEPT ![p] = NULL]
  /\ UNCHANGED <<entries, lock, current_dir, c, leaked, scope>>

-----------------------------------------------------------------------------
(* chdir(): the directory that a process leaves is not closed. *)
Leave(p) == leaked' = [leaked EXCEPT ![current_dir[p]] = @ + 1]

(* Mutant of ChdirItself: dir_close() as in the other branches. *)
ChdirItselfClosed(p) ==
  /\ Arrived(p, "chdir") /\ Itself(p)
  /\ current_dir' = [current_dir EXCEPT ![p] = c[p].dir]
  /\ Leave(p)
  /\ Goto(p, "done")
  /\ UNCHANGED <<treeVars, open_cnt, lock, fds, scope>>

ChdirItself(p) ==
  /\ Arrived(p, "chdir") /\ Itself(p)
  /\ current_dir' = [current_dir EXCEPT ![p] = c[p].dir]
  /\ Leave(p)
  /\ Return(p)
  /\ UNCHANGED <<treeVars, open_cnt, lock, fds, scope>>

(***************************************************************************)
(* chdir("..") opens the parent, closes the directory it is in and makes   *)
(* that one the current directory.  If it was so already, the reference it *)
(* had counts for it; if not, no reference does.                           *)
(***************************************************************************)
ChdirDotDot(p) ==
  /\ Arrived(p, "chdir") /\ c[p].name = DotDot
  /\ OpenParent(c[p].dir)
  /\ dangling' = (dangling \/ c[p].dir # current_dir[p])
  /\ current_dir' = [current_dir EXCEPT ![p] = c[p].dir]
  /\ Goto(p, "done")
  /\ UNCHANGED <<treeVars, lock, fds, orphaned>>

(***************************************************************************)
(* A directory becomes the current one; a file stays open for ever.  The   *)
(* directory it was found in is closed in either case.                     *)
(***************************************************************************)
ChdirName(p) ==
  /\ Arrived(p, "chdir") /\ ~Itself(p) /\ c[p].name # DotDot
  /\ lock[c[p].dir] = NULL
  /\ LET found == lookup(c[p].dir, c[p].name)
     IN  \/ \E s \in found :
              /\ open_cnt[s] < MaxRefs
              /\ open_cnt' = Opened(s)
              /\ IF is_dir[s]
                   THEN current_dir' = [current_dir EXCEPT ![p] = s] /\ Leave(p)
                   ELSE leaked' = [leaked EXCEPT ![s] = @ + 1] /\ UNCHANGED current_dir
         \/ found = {} /\ UNCHANGED <<open_cnt, current_dir, leaked>>
  /\ Goto(p, "done")
  /\ UNCHANGED <<treeVars, lock, fds, scope>>

(* process_exit() with no files open, and thread_create() of a child. *)
Exit(p) ==
  /\ At(p, "idle") /\ fds[p] = NULL
  /\ CloseInode(current_dir[p])
  /\ current_dir' = [current_dir EXCEPT ![p] = NULL]
  /\ Goto(p, "gone")
  /\ UNCHANGED <<entries, lock, fds, leaked, scope>>

Create(p, child) ==
  /\ At(p, "idle") /\ At(child, "gone")
  /\ open_cnt[current_dir[p]] < MaxRefs
  /\ open_cnt' = Opened(current_dir[p])
  /\ current_dir' = [current_dir EXCEPT ![child] = current_dir[p]]
  /\ Return(child)
  /\ UNCHANGED <<treeVars, lock, fds, leaked, scope>>

-----------------------------------------------------------------------------
Step(p) ==
  \/ WalkDot(p) \/ WalkParent(p) \/ WalkName(p) \/ Done(p)
  \/ CreateFails(p) \/ AddLock(p) \/ AddWrite(p) \/ Undo(p)
  \/ RemoveLock(p) \/ RemoveEmpty(p) \/ RemoveOpened(p) \/ RemoveErase(p) \/ RemoveRelease(p)
  \/ OpenItself(p) \/ OpenDotDot(p) \/ OpenName(p)
  \/ ChdirItself(p) \/ ChdirDotDot(p) \/ ChdirName(p)
  \/ \E s \in Sectors : CreateInode(p, s)

Next ==
  \E p \in Procs :
    \/ Step(p) \/ Close(p) \/ Exit(p)
    \/ \E child \in Procs : Create(p, child)
    \/ \E op \in {"create", "mkdir", "remove", "open", "chdir"}, absolute \in BOOLEAN,
          path \in Paths : Call(p, op, absolute, path)

Spec == Init /\ [][Next]_vars

-----------------------------------------------------------------------------
(* What refers to an inode. *)
Here(s)    == {p \in Procs : current_dir[p] = s}
Descs(s)   == {p \in Procs : fds[p] = s}
Visits(s)  == {p \in Procs : c[p].dir = s}
Removes(s) == {p \in Procs : c[p].at \in {"empty", "opened", "erase", "release"} /\ c[p].sector = s}
Named      == UNION {{e[2] : e \in entries[d]} : d \in Inodes}
Created    == {c[p].sector : p \in {q \in Procs : c[q].at \in {"add", "write", "undo"}}}

(* As long as neither of the two ways of leaving the tree has been taken. *)
Sound == ~dangling /\ ~orphaned

(***************************************************************************)
(* Nobody closes an inode that someone else still uses: open_cnt counts    *)
(* current directories, descriptors and calls, and what leaked.            *)
(***************************************************************************)
CountInv ==
  Sound =>
    \A s \in Inodes :
      open_cnt[s] = leaked[s] + Cardinality(Here(s)) + Cardinality(Descs(s))
                      + Cardinality(Visits(s)) + Cardinality(Removes(s))

(***************************************************************************)
(* The directories are a tree: a name occurs once in a directory, an inode *)
(* has one entry, in its parent, and nobody is in a directory, or at work  *)
(* in one, that has been removed from the tree.                            *)
(***************************************************************************)
TreeInv ==
  Sound =>
    /\ \A d \in Inodes, e, f \in UNION {entries[d] : d \in Inodes} :
         e \in entries[d] /\ f \in entries[d] /\ e[1] = f[1] => e = f
    /\ \A d \in Inodes : \A e \in entries[d] : is_dir[d] /\ parent[e[2]] = d /\ ~removed[e[2]]
    /\ \A s \in Sectors : is_dir[s] /\ removed[s] => Here(s) \cup Descs(s) \cup Visits(s) = {}

(***************************************************************************)
(* A sector is marked for an inode with an entry, for one that a call is   *)
(* about to enter, or for a removed file that is still open.               *)
(***************************************************************************)
SectorInv ==
  Sound =>
    free_map \ {Root} = Named \cup Created \cup {s \in Sectors : removed[s]}
=============================================================================

----------------------------- MODULE BufferCache -----------------------------
(***************************************************************************)
(* The buffer cache of filesys/cache.c: cache_read(), cache_write(), the   *)
(* second-chance eviction, the write-behind thread, the flush in           *)
(* filesys_done(), and inode_grow(), which zeroes a new sector on the disk *)
(* without looking at the cache.                                           *)
(*                                                                         *)
(* buffer_cache_lock is held while an entry is looked up, allocated or     *)
(* evicted, and by a pass of the write-behind thread.  The copy between    *)
(* the caller's buffer and the entry, and the flags set after it, are      *)
(* outside the lock.  What a lock holder does without waiting for the disk *)
(* is one action; a disk operation ends one.                               *)
(*                                                                         *)
(* Entries are never taken off the list, so an entry is its position.  The *)
(* data of a sector is one value.                                          *)
(***************************************************************************)
EXTENDS Integers, FiniteSetsExt

CONSTANTS
  Clients,          \* threads that read and write files
  Sectors,
  Values, Zero,     \* contents of a sector; Zero is what a new one holds
  MAX_CACHE_SIZE,
  NULL

(* The thread in cache_write_behind_loop(), as an owner of the lock. *)
WriteBehind == "write_behind"

ASSUME CacheAssumption ==
  /\ MAX_CACHE_SIZE \in Nat \ {0}
  /\ Zero \in Values
  /\ NULL \notin Clients \cup Sectors
  /\ WriteBehind \notin Clients /\ NULL # WriteBehind

Slots == 1 .. MAX_CACHE_SIZE

VARIABLES
  cache_current_size,
  sector, data, is_used, is_dirty, is_using,  \* struct buffer_cache members
  lock,             \* holder of buffer_cache_lock
  pc,               \* where a client is
  call,             \* the client's call: [write, sector, value]
  slot,             \* the client's cache_e
  wb_pc, wb_slot,   \* cache_write_behind_loop() and its cache_e
  disk,
  allocated,        \* sectors that belong to some file
  done,             \* filesys_done() has been called
  content,          \* history: what the file system should hold
  suspect           \* history: sectors that an unsynchronized step may have hurt

entryVars  == <<cache_current_size, sector, data, is_used, is_dirty, is_using>>
clientVars == <<pc, call, slot>>
wbVars     == <<wb_pc, wb_slot>>
vars == <<entryVars, lock, clientVars, wbVars, disk, allocated, done, content, suspect>>

Calls == [write : BOOLEAN, sector : Sectors \cup {NULL}, value : Values]
NoCall == [write |-> FALSE, sector |-> NULL, value |-> Zero]

(***************************************************************************)
(* A client is "idle", waits for the disk in evict_cache() ("evict", then  *)
(* "fetched"), or is outside the lock: about to "copy", to clear is_using  *)
(* ("unuse") or to set is_dirty ("dirty").                                 *)
(***************************************************************************)
Outside == {"copy", "unuse", "dirty"}

(* The variables hold what their C types and their uses allow. *)
TypeOK ==
  /\ cache_current_size \in 0 .. MAX_CACHE_SIZE
  /\ sector \in [Slots -> Sectors \cup {NULL}]
  /\ data \in [Slots -> Values]
  /\ is_used \in [Slots -> BOOLEAN]
  /\ is_dirty \in [Slots -> BOOLEAN]
  /\ is_using \in [Slots -> BOOLEAN]
  /\ lock \in Clients \cup {WriteBehind, NULL}
  /\ pc \in [Clients -> {"idle", "evict", "fetched"} \cup Outside]
  /\ call \in [Clients -> Calls]
  /\ slot \in [Clients -> Slots]
  /\ wb_pc \in {"sleep", "scan", "written", "off"}
  /\ wb_slot \in 1 .. MAX_CACHE_SIZE + 1
  /\ disk \in [Sectors -> Values]
  /\ allocated \subseteq Sectors
  /\ done \in BOOLEAN
  /\ content \in [Sectors -> Values]
  /\ suspect \subseteq Sectors

(* cache_init(): an empty cache and the write-behind thread; a blank disk. *)
Init ==
  /\ cache_current_size = 0
  /\ sector = [i \in Slots |-> NULL]
  /\ data = [i \in Slots |-> Zero]
  /\ is_used = [i \in Slots |-> FALSE]
  /\ is_dirty = [i \in Slots |-> FALSE]
  /\ is_using = [i \in Slots |-> FALSE]
  /\ lock = NULL
  /\ pc = [c \in Clients |-> "idle"]
  /\ call = [c \in Clients |-> NoCall]
  /\ slot = [c \in Clients |-> 1]
  /\ wb_pc = "sleep"
  /\ wb_slot = 1
  /\ disk = [s \in Sectors |-> Zero]
  /\ allocated = {}
  /\ done = FALSE
  /\ content = [s \in Sectors |-> Zero]
  /\ suspect = {}

InList == 1 .. cache_current_size

(* find_cache() finds an entry. *)
Cached(s) == \E i \in InList : sector[i] = s

(* Client c is outside the lock with entry i in its hands. *)
Uses(c, i) == pc[c] \in Outside /\ slot[c] = i

Writes(c, i) == Uses(c, i) /\ call[c].write

Goto(c, place) == pc' = [pc EXCEPT ![c] = place]

(* The machine runs until power_off(), which keeps the lock here. *)
On == wb_pc # "off"

(* The common part of a call that takes the lock. *)
Calls0(c, k) ==
  /\ lock = NULL
  /\ pc[c] = "idle"
  /\ k.sector \in allocated
  /\ call' = [call EXCEPT ![c] = k]

-----------------------------------------------------------------------------
(* cache_read() and cache_write() of a cached sector, up to lock_release(). *)
Hit(c, k) ==
  /\ Calls0(c, k)
  /\ \E i \in InList :
       /\ sector[i] = k.sector
       /\ is_used' = [is_used EXCEPT ![i] = TRUE]
       /\ is_using' = [is_using EXCEPT ![i] = TRUE]
       /\ slot' = [slot EXCEPT ![c] = i]
  /\ Goto(c, "copy")
  /\ UNCHANGED <<cache_current_size, sector, data, is_dirty, lock, wbVars, disk,
                 allocated, done, content, suspect>>

(* Mutant of Allocate: find_cache() is not asked. *)
AllocateAgain(c, k) ==
  /\ Calls0(c, k)
  /\ cache_current_size < MAX_CACHE_SIZE
  /\ cache_current_size' = cache_current_size + 1
  /\ LET i == cache_current_size + 1
     IN  /\ sector' = [sector EXCEPT ![i] = k.sector]
         /\ data' = [data EXCEPT ![i] = disk[k.sector]]
         /\ is_used' = [is_used EXCEPT ![i] = TRUE]
         /\ is_dirty' = [is_dirty EXCEPT ![i] = FALSE]
         /\ is_using' = [is_using EXCEPT ![i] = TRUE]
         /\ slot' = [slot EXCEPT ![c] = i]
  /\ Goto(c, "copy")
  /\ UNCHANGED <<lock, wbVars, disk, allocated, done, content, suspect>>

(* allocate_new_cache(): the lock is held while the sector is read. *)
Allocate(c, k) ==
  /\ Calls0(c, k)
  /\ ~Cached(k.sector)
  /\ cache_current_size < MAX_CACHE_SIZE
  /\ cache_current_size' = cache_current_size + 1
  /\ LET i == cache_current_size + 1
     IN  /\ sector' = [sector EXCEPT ![i] = k.sector]
         /\ data' = [data EXCEPT ![i] = disk[k.sector]]
         /\ is_used' = [is_used EXCEPT ![i] = TRUE]
         /\ is_dirty' = [is_dirty EXCEPT ![i] = FALSE]
         /\ is_using' = [is_using EXCEPT ![i] = TRUE]
         /\ slot' = [slot EXCEPT ![c] = i]
  /\ Goto(c, "copy")
  /\ UNCHANGED <<lock, wbVars, disk, allocated, done, content, suspect>>

(***************************************************************************)
(* evict_cache(): the first pass over the list clears is_used until it     *)
(* meets an entry that is neither in use nor used; if it meets none, the   *)
(* second pass takes the first entry that is not in use.                   *)
(***************************************************************************)
Candidates == {i \in Slots : ~is_using[i]}
Unused == {i \in Candidates : ~is_used[i]}

Victim == IF Unused # {} THEN Min(Unused) ELSE Min(Candidates)

UsedAfterScan ==
  [i \in Slots |-> is_used[i] /\ ~(i \in Candidates /\ (Unused = {} \/ i < Victim))]

(* Mutant of Evict: the victim is not written back. *)
EvictNoWrite(c, k) ==
  /\ Calls0(c, k)
  /\ ~Cached(k.sector)
  /\ cache_current_size = MAX_CACHE_SIZE
  /\ Candidates # {}
  /\ lock' = c
  /\ is_used' = UsedAfterScan
  /\ slot' = [slot EXCEPT ![c] = Victim]
  /\ suspect' = IF \E d \in Clients : Uses(d, Victim)
                THEN suspect \cup {sector[Victim], k.sector} ELSE suspect
  /\ Goto(c, "evict")
  /\ UNCHANGED <<cache_current_size, sector, data, is_dirty, is_using, wbVars, disk,
                 allocated, done, content>>

(***************************************************************************)
(* The victim is written back if it is dirty.  A client that still has the *)
(* victim in its hands is about to lose its copy or to spoil the entry.    *)
(***************************************************************************)
Evict(c, k) ==
  /\ Calls0(c, k)
  /\ ~Cached(k.sector)
  /\ cache_current_size = MAX_CACHE_SIZE
  /\ Candidates # {}
  /\ lock' = c
  /\ is_used' = UsedAfterScan
  /\ slot' = [slot EXCEPT ![c] = Victim]
  /\ disk' = IF is_dirty[Victim] THEN [disk EXCEPT ![sector[Victim]] = data[Victim]]
                                 ELSE disk
  /\ suspect' = IF \E d \in Clients : Uses(d, Victim)
                THEN suspect \cup {sector[Victim], k.sector} ELSE suspect
  /\ Goto(c, "evict")
  /\ UNCHANGED <<cache_current_size, sector, data, is_dirty, is_using, wbVars,
                 allocated, done, content>>

(* The entry is taken over and the new sector read ... *)
Fetch(c) ==
  /\ pc[c] = "evict"
  /\ LET i == slot[c]
         s == call[c].sector
     IN  /\ is_using' = [is_using EXCEPT ![i] = TRUE]
         /\ sector' = [sector EXCEPT ![i] = s]
         /\ data' = [data EXCEPT ![i] = disk[s]]
  /\ Goto(c, "fetched")
  /\ UNCHANGED <<cache_current_size, is_used, is_dirty, lock, call, slot, wbVars,
                 disk, allocated, done, content, suspect>>

(* ... and the lock released. *)
EvictReturn(c) ==
  /\ pc[c] = "fetched"
  /\ is_dirty' = [is_dirty EXCEPT ![slot[c]] = FALSE]
  /\ is_using' = [is_using EXCEPT ![slot[c]] = TRUE]
  /\ lock' = NULL
  /\ Goto(c, "copy")
  /\ UNCHANGED <<cache_current_size, sector, data, is_used, call, slot, wbVars, disk,
                 allocated, done, content, suspect>>

(* memcpy(), without the lock. *)
Copy(c) ==
  /\ On
  /\ pc[c] = "copy"
  /\ IF call[c].write
     THEN /\ data' = [data EXCEPT ![slot[c]] = call[c].value]
          /\ content' = [content EXCEPT ![call[c].sector] = call[c].value]
     ELSE UNCHANGED <<data, content>>
  /\ Goto(c, "unuse")
  /\ UNCHANGED <<cache_current_size, sector, is_used, is_dirty, is_using, lock, call,
                 slot, wbVars, disk, allocated, done, suspect>>

(* Mutant of ClearUsing: cache_read() returns with the entry in use. *)
ClearUsingWrite(c) ==
  /\ On
  /\ pc[c] = "unuse"
  /\ is_using' = [is_using EXCEPT ![slot[c]] = ~call[c].write]
  /\ Goto(c, IF call[c].write THEN "dirty" ELSE "idle")
  /\ call' = IF call[c].write THEN call ELSE [call EXCEPT ![c] = NoCall]
  /\ UNCHANGED <<cache_current_size, sector, data, is_used, is_dirty, lock, slot,
                 wbVars, disk, allocated, done, content, suspect>>

ClearUsing(c) ==
  /\ On
  /\ pc[c] = "unuse"
  /\ is_using' = [is_using EXCEPT ![slot[c]] = FALSE]
  /\ Goto(c, IF call[c].write THEN "dirty" ELSE "idle")
  /\ call' = IF call[c].write THEN call ELSE [call EXCEPT ![c] = NoCall]
  /\ UNCHANGED <<cache_current_size, sector, data, is_used, is_dirty, lock, slot,
                 wbVars, disk, allocated, done, content, suspect>>

SetDirty(c) ==
  /\ On
  /\ pc[c] = "dirty"
  /\ is_dirty' = [is_dirty EXCEPT ![slot[c]] = TRUE]
  /\ Goto(c, "idle")
  /\ call' = [call EXCEPT ![c] = NoCall]
  /\ UNCHANGED <<cache_current_size, sector, data, is_used, is_using, lock, slot,
                 wbVars, disk, allocated, done, content, suspect>>

-----------------------------------------------------------------------------
(* cache_write_behind_loop(), woken by the timer: one turn per entry. *)
WbStart ==
  /\ wb_pc = "sleep"
  /\ lock = NULL
  /\ lock' = WriteBehind
  /\ wb_pc' = "scan"
  /\ wb_slot' = 1
  /\ UNCHANGED <<entryVars, clientVars, disk, allocated, done, content, suspect>>

WbSkip ==
  /\ wb_pc = "scan"
  /\ wb_slot \in InList
  /\ ~is_dirty[wb_slot]
  /\ wb_slot' = wb_slot + 1
  /\ UNCHANGED <<entryVars, lock, clientVars, wb_pc, disk, allocated, done, content,
                 suspect>>

(* A dirty entry is written; a write to it in the meantime will be forgotten. *)
WbWrite ==
  /\ wb_pc = "scan"
  /\ wb_slot \in InList
  /\ is_dirty[wb_slot]
  /\ is_using' = [is_using EXCEPT ![wb_slot] = TRUE]
  /\ disk' = [disk EXCEPT ![sector[wb_slot]] = data[wb_slot]]
  /\ suspect' = IF \E c \in Clients : Writes(c, wb_slot)
                THEN suspect \cup {sector[wb_slot]} ELSE suspect
  /\ wb_pc' = "written"
  /\ UNCHANGED <<cache_current_size, sector, data, is_used, is_dirty, lock, clientVars,
                 wb_slot, allocated, done, content>>

WbClean ==
  /\ wb_pc = "written"
  /\ is_using' = [is_using EXCEPT ![wb_slot] = FALSE]
  /\ is_dirty' = [is_dirty EXCEPT ![wb_slot] = FALSE]
  /\ wb_slot' = wb_slot + 1
  /\ wb_pc' = "scan"
  /\ UNCHANGED <<cache_current_size, sector, data, is_used, lock, clientVars, disk,
                 allocated, done, content, suspect>>

WbEnd ==
  /\ wb_pc = "scan"
  /\ wb_slot \notin InList
  /\ ~done
  /\ lock' = NULL
  /\ wb_pc' = "sleep"
  /\ wb_slot' = 1
  /\ UNCHANGED <<entryVars, clientVars, disk, allocated, done, content,
                 suspect>>

(***************************************************************************)
(* filesys_done(), called by a thread that shuts the machine down while    *)
(* others may be at work, is one more pass, and then the power goes off.   *)
(***************************************************************************)
FilesysDone ==
  /\ ~done
  /\ lock = NULL
  /\ lock' = WriteBehind
  /\ wb_pc' = "scan"
  /\ wb_slot' = 1
  /\ done' = TRUE
  /\ UNCHANGED <<entryVars, clientVars, disk, allocated, content, suspect>>

PowerOff ==
  /\ wb_pc = "scan"
  /\ wb_slot \notin InList
  /\ done
  /\ wb_pc' = "off"
  /\ UNCHANGED <<entryVars, lock, clientVars, wb_slot, disk, allocated, done, content,
                 suspect>>

(***************************************************************************)
(* inode_grow() takes a sector from the free map and zeroes it on the disk *)
(* itself; an entry left from the sector's last use stays in the cache.    *)
(***************************************************************************)
Grow(s) ==
  /\ On
  /\ s \notin allocated
  /\ allocated' = allocated \cup {s}
  /\ disk' = [disk EXCEPT ![s] = Zero]
  /\ content' = [content EXCEPT ![s] = Zero]
  /\ suspect' = IF Cached(s) THEN suspect \cup {s} ELSE suspect
  /\ UNCHANGED <<entryVars, lock, clientVars, wbVars, done>>

(* inode_close() of a removed file gives its sectors back. *)
Release(s) ==
  /\ On
  /\ s \in allocated
  /\ \A c \in Clients : call[c].sector # s
  /\ allocated' = allocated \ {s}
  /\ UNCHANGED <<entryVars, lock, clientVars, wbVars, disk, done, content, suspect>>

-----------------------------------------------------------------------------
Call == [write : {TRUE}, sector : Sectors, value : Values]
          \cup [write : {FALSE}, sector : Sectors, value : {Zero}]

ClientStep(c) ==
  \/ \E k \in Call : Hit(c, k) \/ Allocate(c, k) \/ Evict(c, k)
  \/ Fetch(c)
  \/ EvictReturn(c)
  \/ Copy(c)
  \/ ClearUsing(c)
  \/ SetDirty(c)

WbStep == WbStart \/ WbSkip \/ WbWrite \/ WbClean \/ WbEnd

Next ==
  \/ \E c \in Clients : ClientStep(c)
  \/ WbStep
  \/ FilesysDone
  \/ PowerOff
  \/ \E s \in Sectors : Grow(s) \/ Release(s)

Spec == Init /\ [][Next]_vars

-----------------------------------------------------------------------------
(***************************************************************************)
(* No sector has two entries, although entries change their sector while   *)
(* other threads work on them, and an entry is marked as in use only while *)
(* somebody uses it.                                                       *)
(***************************************************************************)
OneEntryPerSector ==
  /\ \A i \in Slots : i \in InList <=> sector[i] # NULL
  /\ \A i, j \in InList : sector[i] = sector[j] => i = j

LockOwner ==
  /\ \A c \in Clients : pc[c] \in {"evict", "fetched"} <=> lock = c
  /\ wb_pc # "sleep" <=> lock = WriteBehind

InUse(i) ==
  \/ \E c \in Clients : pc[c] \in {"fetched", "copy", "unuse"} /\ slot[c] = i
  \/ wb_pc = "written" /\ wb_slot = i

UsingOK == \A i \in Slots : is_using[i] => i \in InList /\ InUse(i)

CacheInv ==
  /\ OneEntryPerSector
  /\ LockOwner
  /\ UsingOK

(***************************************************************************)
(* ASSERT(cache_e != NULL) of cache_read() and cache_write(): eviction     *)
(* always finds an entry, as long as there are no more threads than        *)
(* entries.                                                                *)
(***************************************************************************)
VictimExists ==
  (/\ lock = NULL
   /\ cache_current_size = MAX_CACHE_SIZE
   /\ \E c \in Clients : pc[c] = "idle") => Candidates # {}

(***************************************************************************)
(* The only ways to lose data are the unsynchronized steps that suspect    *)
(* records: an eviction of, or a write-behind over, an entry that a client *)
(* has outside the lock, and inode_grow() on a sector that is cached.  For *)
(* every other sector, the entry, or the disk if there is none, holds what *)
(* was written last; a clean entry agrees with the disk, also when the     *)
(* power goes off; and a client copies to and from the entry of its own    *)
(* sector.                                                                 *)
(***************************************************************************)
Settled(i) == \A c \in Clients : Writes(c, i) => pc[c] = "copy"

UncachedOK ==
  \A s \in Sectors \ suspect : ~Cached(s) => disk[s] = content[s]

CachedOK ==
  \A i \in InList : sector[i] \notin suspect =>
    /\ data[i] = content[sector[i]]
    /\ (~is_dirty[i] /\ Settled(i)) => disk[sector[i]] = data[i]

UsersOK ==
  \A c \in Clients : \A i \in Slots : Uses(c, i) =>
    /\ i \in InList
    /\ \/ sector[i] = call[c].sector
       \/ sector[i] \in suspect /\ call[c].sector \in suspect

Coherent == UncachedOK /\ CachedOK /\ UsersOK
=============================================================================

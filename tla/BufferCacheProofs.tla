-------------------------- MODULE BufferCacheProofs --------------------------
(***************************************************************************)
(* The buffer cache loses no data but through the steps that suspect       *)
(* records, for every number of clients, sectors, values and entries.      *)
(*                                                                         *)
(* Coherent is not inductive: between two disk operations the lock holder  *)
(* relies on what it has found out about the entry it works on.  EvictInv, *)
(* FetchInv and WbInv say what that is.                                    *)
(***************************************************************************)
EXTENDS BufferCache, ListLemmas, FiniteSetTheorems

(* A client inside a call has a sector. *)
CallInv ==
  \A c \in Clients : pc[c] # "idle" => call[c].sector \in Sectors

(* The victim agrees with the disk, or somebody uses it and all is suspect. *)
EvictInv ==
  \A c \in Clients : pc[c] = "evict" =>
    /\ slot[c] \in InList
    /\ ~Cached(call[c].sector)
    /\ sector[slot[c]] \notin suspect => disk[sector[slot[c]]] = data[slot[c]]
    /\ \A d \in Clients : Uses(d, slot[c]) =>
         sector[slot[c]] \in suspect /\ call[c].sector \in suspect

(* The entry is fresh from the disk, or a late user may have touched it. *)
FetchInv ==
  \A c \in Clients : pc[c] = "fetched" =>
    /\ slot[c] \in InList
    /\ sector[slot[c]] = call[c].sector
    /\ call[c].sector \notin suspect => disk[call[c].sector] = data[slot[c]]
    /\ \A d \in Clients : Uses(d, slot[c]) => call[c].sector \in suspect

(* The entry is as it was written, or a writer has it. *)
WbInv ==
  wb_pc = "written" =>
    /\ wb_slot \in InList
    /\ sector[wb_slot] \notin suspect => disk[sector[wb_slot]] = data[wb_slot]
    /\ \A c \in Clients : Writes(c, wb_slot) => sector[wb_slot] \in suspect

IInv == TypeOK /\ CacheInv /\ Coherent /\ CallInv /\ EvictInv /\ FetchInv /\ WbInv

(* What a call asks for is well formed. *)
LEMMA CallType ==
  ASSUME NEW k \in Call
  PROVE  k \in Calls /\ k.sector \in Sectors
PROOF
  BY CacheAssumption DEF Call, Calls

(* The second-chance scan ends at an entry that is not in use. *)
LEMMA VictimCandidate ==
  ASSUME Candidates # {}
  PROVE  Victim \in Candidates
PROOF
<1>1. ASSUME NEW T, T \subseteq Slots, T # {}
      PROVE  Min(T) \in T
  <2>1. T \subseteq Nat
    BY <1>1, CacheAssumption DEF Slots
  <2>2. \E x \in T : \A y \in T : x <= y
    BY <1>1, <2>1, LeastNat
  <2> QED
    BY <2>2 DEF Min
<1>2. Candidates \subseteq Slots /\ Unused \subseteq Candidates
  BY DEF Candidates, Unused
<1> QED
  BY <1>1, <1>2 DEF Victim

(* A hit. *)
LEMMA HitStep ==
  ASSUME IInv, NEW c \in Clients, NEW k \in Call, Hit(c, k)
  PROVE  IInv'
PROOF
<1> USE CacheAssumption DEF IInv, CacheInv, Coherent, Slots, entryVars, clientVars, wbVars
<1>k. k \in Calls /\ k.sector \in Sectors
  BY CallType
<1>i. PICK i \in InList : /\ sector[i] = k.sector
                          /\ is_used' = [is_used EXCEPT ![i] = TRUE]
                          /\ is_using' = [is_using EXCEPT ![i] = TRUE]
                          /\ slot' = [slot EXCEPT ![c] = i]
  BY DEF Hit
<1>1. TypeOK'
  BY <1>k, <1>i DEF Hit, Calls0, Goto, TypeOK, Outside, InList
<1>2. OneEntryPerSector'
  BY DEF Hit, Calls0, Goto, OneEntryPerSector, InList, Cached, TypeOK,
         Calls
<1>3. LockOwner'
  BY DEF Hit, Calls0, Goto, LockOwner, Outside, TypeOK, Calls
<1>4. UsingOK'
  BY <1>i, SMTT(30) DEF Hit, Calls0, Goto, UsingOK, InUse, InList, TypeOK, Outside
<1>5. UncachedOK'
  BY DEF Hit, Calls0, Goto, UncachedOK, Cached, InList, TypeOK, Calls
<1>6. CachedOK'
  <2> SUFFICES ASSUME NEW j \in InList', sector'[j] \notin suspect'
               PROVE  /\ data'[j] = content'[sector'[j]]
                      /\ (~is_dirty'[j] /\ Settled(j)') => disk'[sector'[j]] = data'[j]
    BY DEF CachedOK
  <2>1. Settled(j)' => Settled(j)
    BY DEF Hit, Calls0, Goto, Settled, Writes, Uses, InList, Outside, TypeOK, Calls
  <2> QED
    BY <2>1 DEF Hit, CachedOK, InList
<1>7. UsersOK'
  BY DEF Hit, Calls0, Goto, UsersOK, Uses, InList, Outside, Cached, TypeOK,
         Calls
<1>8. CallInv'
  BY DEF Hit, Calls0, Goto, CallInv, Outside, NoCall, Call, TypeOK, Calls
<1>9. EvictInv'
  BY DEF Hit, Calls0, Goto, EvictInv, Cached, Uses, InList, Outside,
         LockOwner, TypeOK, Calls
<1>10. FetchInv'
  BY DEF Hit, Calls0, Goto, FetchInv, Uses, InList, Outside, LockOwner,
         TypeOK, Calls
<1>11. WbInv'
  BY DEF Hit, Calls0, Goto, WbInv, Writes, Uses, InList, Outside,
         LockOwner, TypeOK, Calls
<1> QED
  BY <1>1, <1>2, <1>3, <1>4, <1>5, <1>6, <1>7, <1>8, <1>9, <1>10, <1>11

(* A miss with room in the cache. *)
LEMMA AllocateStep ==
  ASSUME IInv, NEW c \in Clients, NEW k \in Call, Allocate(c, k)
  PROVE  IInv'
PROOF
<1> USE CacheAssumption DEF IInv, CacheInv, Coherent, Slots, entryVars, clientVars, wbVars
<1>k. k \in Calls /\ k.sector \in Sectors
  BY CallType
<1>i. /\ cache_current_size + 1 \in Slots
      /\ \A d \in Clients : ~Uses(d, cache_current_size + 1)
      /\ sector[cache_current_size + 1] = NULL
  BY DEF Allocate, TypeOK, UsersOK, InList, OneEntryPerSector
<1>1. TypeOK'
  BY <1>k, <1>i DEF Allocate, Calls0, Goto, TypeOK, Outside
<1>2. OneEntryPerSector'
  BY DEF Allocate, Calls0, Goto, OneEntryPerSector, InList, Cached, TypeOK,
         Calls
<1>3. LockOwner'
  BY DEF Allocate, Calls0, Goto, LockOwner, Outside, TypeOK, Calls
<1>4. UsingOK'
  <2>1. \A j \in Slots : j = cache_current_size + 1 => InUse(j)'
    BY <1>i DEF Allocate, Calls0, Goto, InUse, TypeOK
  <2>2. \A j \in Slots : InUse(j) => InUse(j)'
    BY DEF Allocate, Calls0, Goto, InUse, TypeOK
  <2> QED
    BY <1>i, <2>1, <2>2 DEF Allocate, UsingOK, InList, TypeOK
<1>5. UncachedOK'
  BY DEF Allocate, Calls0, Goto, UncachedOK, Cached, InList, TypeOK, Calls
<1>6. CachedOK'
  <2> SUFFICES ASSUME NEW j \in InList', sector'[j] \notin suspect'
               PROVE  /\ data'[j] = content'[sector'[j]]
                      /\ (~is_dirty'[j] /\ Settled(j)') => disk'[sector'[j]] = data'[j]
    BY DEF CachedOK
  <2>1. Settled(j)' => Settled(j)
    BY DEF Allocate, Calls0, Goto, Settled, Writes, Uses, InList, Outside, TypeOK, Calls
  <2>2. CASE j = cache_current_size + 1
    BY <1>k, <2>2 DEF Allocate, Calls0, TypeOK, UncachedOK
  <2>3. CASE j # cache_current_size + 1
    <3>1. j \in InList
      BY <2>3 DEF Allocate, InList, TypeOK
    <3> QED
      BY <2>1, <2>3, <3>1 DEF Allocate, CachedOK, TypeOK
  <2> QED
    BY <2>2, <2>3
<1>7. UsersOK'
  BY DEF Allocate, Calls0, Goto, UsersOK, Uses, InList, Outside, TypeOK,
         Calls
<1>8. CallInv'
  BY DEF Allocate, Calls0, Goto, CallInv, Outside, NoCall, Call, TypeOK,
         Calls
<1>9. EvictInv'
  BY DEF Allocate, Calls0, Goto, EvictInv, Cached, Uses, InList, Outside,
         LockOwner, TypeOK, Calls
<1>10. FetchInv'
  BY DEF Allocate, Calls0, Goto, FetchInv, Uses, InList, Outside,
         LockOwner, TypeOK, Calls
<1>11. WbInv'
  BY DEF Allocate, Calls0, Goto, WbInv, Writes, Uses, InList, Outside,
         LockOwner, TypeOK, Calls
<1> QED
  BY <1>1, <1>2, <1>3, <1>4, <1>5, <1>6, <1>7, <1>8, <1>9, <1>10, <1>11

(* A miss: a victim is chosen and written back. *)
LEMMA EvictStep ==
  ASSUME IInv, NEW c \in Clients, NEW k \in Call, Evict(c, k)
  PROVE  IInv'
PROOF
<1> USE CacheAssumption DEF IInv, CacheInv, Coherent, Slots, entryVars, clientVars, wbVars
<1>k. k \in Calls /\ k.sector \in Sectors
  BY CallType
<1>f. /\ UNCHANGED <<cache_current_size, sector, data, is_dirty, is_using, wbVars>>
      /\ UNCHANGED <<allocated, done, content>>
      /\ lock = NULL /\ lock' = c
      /\ pc[c] = "idle" /\ pc' = [pc EXCEPT ![c] = "evict"]
      /\ call' = [call EXCEPT ![c] = k]
      /\ slot' = [slot EXCEPT ![c] = Victim]
      /\ ~Cached(k.sector)
      /\ is_used' = UsedAfterScan
  BY DEF Evict, Calls0, Goto
<1>v. /\ Victim \in InList /\ Victim \in Slots
      /\ sector[Victim] \in Sectors /\ sector[Victim] # k.sector
  <2>1. Victim \in Candidates
    BY VictimCandidate DEF Evict
  <2> QED
    BY <2>1, <1>f DEF Candidates, Evict, InList, OneEntryPerSector, TypeOK, Cached
<1>d. /\ disk' \in [Sectors -> Values]
      /\ is_dirty[Victim] => disk'[sector[Victim]] = data[Victim]
      /\ ~is_dirty[Victim] => disk' = disk
      /\ \A x \in Sectors : x # sector[Victim] => disk'[x] = disk[x]
  BY <1>v DEF Evict, TypeOK
<1>s. /\ suspect \subseteq suspect' /\ suspect' \subseteq Sectors
      /\ \A d \in Clients : Uses(d, Victim) =>
           sector[Victim] \in suspect' /\ k.sector \in suspect'
  BY <1>v, <1>k DEF Evict, TypeOK
<1>u. \A d \in Clients : \A j \in Slots : Uses(d, j)' => d # c /\ Uses(d, j)
  BY <1>f DEF Uses, Outside, TypeOK
<1>1. TypeOK'
  <2>1. is_used' \in [Slots -> BOOLEAN]
    BY <1>f DEF UsedAfterScan, TypeOK
  <2> QED
    BY <1>k, <1>f, <1>v, <1>d, <1>s, <2>1 DEF TypeOK
<1>2. OneEntryPerSector'
  BY <1>k, <1>f, <1>v, <1>s, <1>u DEF OneEntryPerSector, InList
<1>3. LockOwner'
  BY <1>k, <1>f, <1>v, <1>s, <1>u DEF LockOwner, TypeOK
<1>4. UsingOK'
  BY <1>k, <1>f, <1>v, <1>s, <1>u DEF UsingOK, InUse, InList, TypeOK
<1>5. UncachedOK'
  BY <1>f, <1>v, <1>d, <1>s DEF UncachedOK, Cached, InList
<1>6. CachedOK'
  <2> SUFFICES ASSUME NEW j \in InList', sector'[j] \notin suspect'
               PROVE  /\ data'[j] = content'[sector'[j]]
                      /\ (~is_dirty'[j] /\ Settled(j)') => disk'[sector'[j]] = data'[j]
    BY DEF CachedOK
  <2>1. Settled(j)' => Settled(j)
    BY <1>f DEF Settled, Writes, Uses, Outside, TypeOK
  <2>2. j \in InList /\ j \in Slots /\ sector[j] \in Sectors
    BY <1>f DEF InList, OneEntryPerSector, TypeOK
  <2>3. CASE j = Victim
    BY <1>f, <1>d, <1>s, <2>1, <2>2, <2>3 DEF CachedOK, TypeOK
  <2>4. CASE j # Victim
    <3>1. sector[j] # sector[Victim]
      BY <1>v, <2>2, <2>4 DEF OneEntryPerSector
    <3> QED
      BY <1>f, <1>d, <1>s, <2>1, <2>2, <3>1 DEF CachedOK
  <2> QED
    BY <2>3, <2>4
<1>7. UsersOK'
  BY <1>k, <1>f, <1>v, <1>s, <1>u DEF UsersOK, InList, Uses, Outside, TypeOK
<1>8. CallInv'
  BY <1>k, <1>f, <1>v, <1>s, <1>u DEF CallInv, TypeOK
<1>9. EvictInv'
  <2>1. \A e \in Clients : pc'[e] = "evict" =>
          e = c /\ slot'[e] = Victim /\ call'[e] = k
    BY <1>f DEF LockOwner, TypeOK
  <2>2. Victim \in InList' /\ ~Cached(k.sector)'
    BY <1>f, <1>v DEF InList, Cached
  <2>3. sector'[Victim] \notin suspect' => disk'[sector'[Victim]] = data'[Victim]
    <3> HAVE sector'[Victim] \notin suspect'
    <3>1. Settled(Victim) /\ sector[Victim] \notin suspect
      BY <1>f, <1>s DEF Settled, Writes
    <3> QED
      BY <1>f, <1>v, <1>d, <3>1 DEF CachedOK, TypeOK
  <2>4. \A d \in Clients : pc'[d] \in Outside /\ slot'[d] = Victim =>
          sector'[Victim] \in suspect' /\ k.sector \in suspect'
    BY <1>f, <1>s DEF Uses, Outside, TypeOK
  <2> QED
    BY <2>1, <2>2, <2>3, <2>4 DEF EvictInv, Cached, Uses
<1>10. FetchInv'
  BY <1>k, <1>f, <1>v, <1>s, <1>u DEF FetchInv, LockOwner, TypeOK
<1>11. WbInv'
  BY <1>k, <1>f, <1>v, <1>s, <1>u DEF WbInv, LockOwner, TypeOK
<1> QED
  BY <1>1, <1>2, <1>3, <1>4, <1>5, <1>6, <1>7, <1>8, <1>9, <1>10, <1>11

(* The victim is taken over. *)
LEMMA FetchStep ==
  ASSUME IInv, NEW c \in Clients, Fetch(c)
  PROVE  IInv'
PROOF
<1> USE CacheAssumption DEF IInv, CacheInv, Coherent, Slots, entryVars, clientVars, wbVars
<1>e. /\ slot[c] \in InList /\ slot[c] \in Slots
      /\ call[c].sector \in Sectors /\ ~Cached(call[c].sector)
      /\ sector[slot[c]] \in Sectors /\ lock = c
      /\ sector[slot[c]] # call[c].sector
  BY DEF Fetch, EvictInv, CallInv, InList, OneEntryPerSector, TypeOK, LockOwner, Cached
<1>l. \A e \in Clients : pc[e] \in {"evict", "fetched"} => e = c
  BY <1>e DEF LockOwner
<1>1. TypeOK'
  BY <1>e DEF Fetch, Goto, TypeOK
<1>2. OneEntryPerSector'
  BY <1>e DEF Fetch, OneEntryPerSector, InList, Cached, TypeOK
<1>3. LockOwner'
  BY DEF Fetch, Goto, LockOwner, Outside, TypeOK, Calls
<1>4. UsingOK'
  BY DEF Fetch, Goto, UsingOK, InUse, InList, Outside, EvictInv, Cached,
         Uses, TypeOK, Calls
<1>5. UncachedOK'
  BY DEF Fetch, Goto, UncachedOK, Cached, InList, EvictInv, Uses, Outside,
         CachedOK, Settled, Writes, OneEntryPerSector, TypeOK, Calls
<1>6. CachedOK'
  <2> SUFFICES ASSUME NEW j \in InList', sector'[j] \notin suspect'
               PROVE  /\ data'[j] = content'[sector'[j]]
                      /\ (~is_dirty'[j] /\ Settled(j)') => disk'[sector'[j]] = data'[j]
    BY DEF CachedOK
  <2>1. j \in InList /\ j \in Slots /\ sector[j] \in Sectors
    <3>1. j \in InList /\ j \in Slots
      BY DEF Fetch, InList, TypeOK
    <3> QED
      BY <3>1 DEF OneEntryPerSector, TypeOK
  <2>2. CASE j = slot[c]
    BY <1>e, <2>1, <2>2 DEF Fetch, UncachedOK, TypeOK
  <2>3. CASE j # slot[c]
    <3>1. Settled(j)' => Settled(j)
      BY DEF Fetch, Goto, Settled, Writes, Uses, Outside, TypeOK
    <3> QED
      BY <1>e, <2>1, <2>3, <3>1 DEF Fetch, CachedOK, TypeOK
  <2> QED
    BY <2>2, <2>3
<1>7. UsersOK'
  BY DEF Fetch, Goto, UsersOK, Uses, InList, Outside, EvictInv, Cached,
         TypeOK, Calls
<1>8. CallInv'
  BY DEF Fetch, Goto, CallInv, Outside, NoCall, Call, TypeOK, Calls
<1>9. EvictInv'
  BY DEF Fetch, Goto, EvictInv, Cached, Uses, InList, Outside, LockOwner,
         TypeOK, Calls
<1>10. FetchInv'
  BY DEF Fetch, Goto, FetchInv, Uses, InList, Outside, EvictInv, Cached,
         LockOwner, TypeOK, Calls
<1>11. WbInv'
  BY DEF Fetch, Goto, WbInv, Writes, Uses, InList, Outside, LockOwner,
         TypeOK, Calls
<1> QED
  BY <1>1, <1>2, <1>3, <1>4, <1>5, <1>6, <1>7, <1>8, <1>9, <1>10, <1>11

(* The evictor releases the lock. *)
LEMMA EvictReturnStep ==
  ASSUME IInv, NEW c \in Clients, EvictReturn(c)
  PROVE  IInv'
PROOF
<1> USE CacheAssumption DEF IInv, CacheInv, Coherent, Slots, entryVars, clientVars, wbVars
<1>e. /\ slot[c] \in InList /\ slot[c] \in Slots /\ lock = c
      /\ sector[slot[c]] = call[c].sector
  BY DEF EvictReturn, FetchInv, InList, TypeOK, LockOwner
<1>l. \A e \in Clients : pc[e] \in {"evict", "fetched"} => e = c
  BY <1>e DEF LockOwner
<1>1. TypeOK'
  BY DEF EvictReturn, Goto, TypeOK, Calls, Call, NoCall, Outside
<1>2. OneEntryPerSector'
  BY DEF EvictReturn, Goto, OneEntryPerSector, InList, Cached, TypeOK,
         Calls
<1>3. LockOwner'
  BY DEF EvictReturn, Goto, LockOwner, Outside, TypeOK, Calls
<1>4. UsingOK'
  <2>1. InUse(slot[c])'
    BY <1>e DEF EvictReturn, Goto, InUse, TypeOK
  <2>2. \A j \in Slots : j # slot[c] /\ InUse(j) => InUse(j)'
    BY DEF EvictReturn, Goto, InUse, TypeOK, wbVars
  <2> QED
    BY <1>e, <2>1, <2>2 DEF EvictReturn, UsingOK, InList, TypeOK
<1>5. UncachedOK'
  BY DEF EvictReturn, Goto, UncachedOK, Cached, InList, TypeOK, Calls
<1>6. CachedOK'
  <2> SUFFICES ASSUME NEW j \in InList', sector'[j] \notin suspect'
               PROVE  /\ data'[j] = content'[sector'[j]]
                      /\ (~is_dirty'[j] /\ Settled(j)') => disk'[sector'[j]] = data'[j]
    BY DEF CachedOK
  <2>1. CASE j = slot[c]
    BY <1>e, <2>1 DEF EvictReturn, FetchInv, CachedOK, TypeOK
  <2>2. CASE j # slot[c]
    <3>1. Settled(j)' => Settled(j)
      BY DEF EvictReturn, Goto, Settled, Writes, Uses, Outside, TypeOK
    <3> QED
      BY <2>2, <3>1 DEF EvictReturn, CachedOK, InList, TypeOK
  <2> QED
    BY <2>1, <2>2
<1>7. UsersOK'
  BY DEF EvictReturn, Goto, UsersOK, Uses, InList, Outside, FetchInv,
         TypeOK, Calls
<1>8. CallInv'
  BY DEF EvictReturn, Goto, CallInv, Outside, NoCall, Call, TypeOK, Calls
<1>9. EvictInv'
  BY DEF EvictReturn, Goto, EvictInv, Cached, Uses, InList, Outside,
         LockOwner, TypeOK, Calls
<1>10. FetchInv'
  BY DEF EvictReturn, Goto, FetchInv, Uses, InList, Outside, LockOwner,
         TypeOK, Calls
<1>11. WbInv'
  BY DEF EvictReturn, Goto, WbInv, Writes, Uses, InList, Outside,
         LockOwner, TypeOK, Calls
<1> QED
  BY <1>1, <1>2, <1>3, <1>4, <1>5, <1>6, <1>7, <1>8, <1>9, <1>10, <1>11

(* The copy, outside the lock. *)
LEMMA CopyStep ==
  ASSUME IInv, NEW c \in Clients, Copy(c)
  PROVE  IInv'
PROOF
<1> USE CacheAssumption DEF IInv, CacheInv, Coherent, Slots, entryVars, clientVars, wbVars
<1>e. /\ Uses(c, slot[c]) /\ slot[c] \in InList /\ slot[c] \in Slots
      /\ call[c].sector \in Sectors
      /\ \/ sector[slot[c]] = call[c].sector
         \/ sector[slot[c]] \in suspect /\ call[c].sector \in suspect
  BY DEF Copy, UsersOK, Uses, Outside, TypeOK, CallInv
<1>1. TypeOK'
  BY DEF Copy, Goto, TypeOK, Calls, Call, NoCall, Outside
<1>2. OneEntryPerSector'
  BY DEF Copy, Goto, OneEntryPerSector, InList, Cached, TypeOK, Calls
<1>3. LockOwner'
  BY DEF Copy, Goto, LockOwner, Outside, TypeOK, Calls
<1>4. UsingOK'
  BY DEF Copy, Goto, UsingOK, InUse, InList, Outside, TypeOK, Calls
<1>5. UncachedOK'
  BY <1>e DEF Copy, UncachedOK, Cached, InList, TypeOK, Calls
<1>6. CachedOK'
  <2> SUFFICES ASSUME NEW j \in InList', sector'[j] \notin suspect'
               PROVE  /\ data'[j] = content'[sector'[j]]
                      /\ (~is_dirty'[j] /\ Settled(j)') => disk'[sector'[j]] = data'[j]
    BY DEF CachedOK
  <2>1. Settled(j)' => Settled(j)
    BY DEF Copy, Goto, Settled, Writes, Uses, InList, Outside, TypeOK, Calls
  <2>2. j \in InList /\ j \in Slots /\ sector[j] \in Sectors
    BY DEF Copy, InList, OneEntryPerSector, TypeOK
  <2>3. CASE ~call[c].write
    BY <2>1, <2>2, <2>3 DEF Copy, CachedOK
  <2>4. CASE call[c].write /\ j = slot[c]
    <3>1. ~Settled(j)'
      BY <1>e, <2>4 DEF Copy, Goto, Settled, Writes, Uses, Outside, TypeOK
    <3> QED
      BY <1>e, <2>2, <2>4, <3>1 DEF Copy, TypeOK
  <2>5. CASE call[c].write /\ j # slot[c]
    <3>1. sector[j] # call[c].sector
      BY <1>e, <2>2, <2>5 DEF Copy, OneEntryPerSector
    <3> QED
      BY <1>e, <2>1, <2>2, <2>5, <3>1 DEF Copy, CachedOK, TypeOK
  <2> QED
    BY <2>3, <2>4, <2>5
<1>7. UsersOK'
  BY DEF Copy, Goto, UsersOK, Uses, InList, Outside, TypeOK, Calls
<1>8. CallInv'
  BY DEF Copy, Goto, CallInv, Outside, NoCall, Call, TypeOK, Calls
<1>9. EvictInv'
  BY DEF Copy, Goto, EvictInv, Cached, Uses, InList, Outside, UsersOK,
         TypeOK, Calls
<1>10. FetchInv'
  BY DEF Copy, Goto, FetchInv, Uses, InList, Outside, UsersOK, TypeOK,
         Calls
<1>11. WbInv'
  BY DEF Copy, Goto, WbInv, Writes, Uses, InList, Outside, UsersOK, TypeOK,
         Calls
<1> QED
  BY <1>1, <1>2, <1>3, <1>4, <1>5, <1>6, <1>7, <1>8, <1>9, <1>10, <1>11

(* The client lets the entry go. *)
LEMMA ClearUsingStep ==
  ASSUME IInv, NEW c \in Clients, ClearUsing(c)
  PROVE  IInv'
PROOF
<1> USE CacheAssumption DEF IInv, CacheInv, Coherent, Slots, entryVars, clientVars, wbVars
<1>1. TypeOK'
  BY DEF ClearUsing, Goto, TypeOK, Calls, Call, NoCall, Outside
<1>2. OneEntryPerSector'
  BY DEF ClearUsing, Goto, OneEntryPerSector, InList, Cached, TypeOK, Calls
<1>3. LockOwner'
  BY DEF ClearUsing, Goto, LockOwner, Outside, TypeOK, Calls
<1>4. UsingOK'
  BY DEF ClearUsing, Goto, UsingOK, InUse, InList, Outside, TypeOK, Calls
<1>5. UncachedOK'
  BY DEF ClearUsing, Goto, UncachedOK, Cached, InList, TypeOK, Calls
<1>6. CachedOK'
  BY DEF ClearUsing, Goto, CachedOK, Settled, Writes, Uses, InList,
         Outside, TypeOK, Calls
<1>7. UsersOK'
  BY DEF ClearUsing, Goto, UsersOK, Uses, InList, Outside, TypeOK, Calls
<1>8. CallInv'
  BY DEF ClearUsing, Goto, CallInv, Outside, NoCall, Call, TypeOK, Calls
<1>9. EvictInv'
  BY DEF ClearUsing, Goto, EvictInv, Cached, Uses, InList, Outside, TypeOK,
         Calls
<1>10. FetchInv'
  BY DEF ClearUsing, Goto, FetchInv, Uses, InList, Outside, TypeOK, Calls
<1>11. WbInv'
  BY DEF ClearUsing, Goto, WbInv, Writes, Uses, InList, Outside, TypeOK,
         Calls
<1> QED
  BY <1>1, <1>2, <1>3, <1>4, <1>5, <1>6, <1>7, <1>8, <1>9, <1>10, <1>11

(* The writer marks the entry. *)
LEMMA SetDirtyStep ==
  ASSUME IInv, NEW c \in Clients, SetDirty(c)
  PROVE  IInv'
PROOF
<1> USE CacheAssumption DEF IInv, CacheInv, Coherent, Slots, entryVars, clientVars, wbVars
<1>1. TypeOK'
  BY DEF SetDirty, Goto, TypeOK, Calls, Call, NoCall, Outside
<1>2. OneEntryPerSector'
  BY DEF SetDirty, Goto, OneEntryPerSector, InList, Cached, TypeOK, Calls
<1>3. LockOwner'
  BY DEF SetDirty, Goto, LockOwner, Outside, TypeOK, Calls
<1>4. UsingOK'
  BY DEF SetDirty, Goto, UsingOK, InUse, InList, Outside, TypeOK, Calls
<1>5. UncachedOK'
  BY DEF SetDirty, Goto, UncachedOK, Cached, InList, TypeOK, Calls
<1>6. CachedOK'
  <2> SUFFICES ASSUME NEW j \in InList', sector'[j] \notin suspect'
               PROVE  /\ data'[j] = content'[sector'[j]]
                      /\ (~is_dirty'[j] /\ Settled(j)') => disk'[sector'[j]] = data'[j]
    BY DEF CachedOK
  <2>1. CASE j = slot[c]
    BY <2>1 DEF SetDirty, CachedOK, InList, TypeOK
  <2>2. CASE j # slot[c]
    <3>1. Settled(j)' => Settled(j)
      BY <2>2 DEF SetDirty, Goto, Settled, Writes, Uses, Outside, TypeOK
    <3> QED
      BY <2>2, <3>1 DEF SetDirty, CachedOK, InList, TypeOK
  <2> QED
    BY <2>1, <2>2
<1>7. UsersOK'
  BY DEF SetDirty, Goto, UsersOK, Uses, InList, Outside, TypeOK, Calls
<1>8. CallInv'
  BY DEF SetDirty, Goto, CallInv, Outside, NoCall, Call, TypeOK, Calls
<1>9. EvictInv'
  BY DEF SetDirty, Goto, EvictInv, Cached, Uses, InList, Outside, TypeOK,
         Calls
<1>10. FetchInv'
  BY DEF SetDirty, Goto, FetchInv, Uses, InList, Outside, TypeOK, Calls
<1>11. WbInv'
  BY DEF SetDirty, Goto, WbInv, Writes, Uses, InList, Outside, TypeOK,
         Calls
<1> QED
  BY <1>1, <1>2, <1>3, <1>4, <1>5, <1>6, <1>7, <1>8, <1>9, <1>10, <1>11

(* The write-behind thread. *)
LEMMA WbStartStep ==
  ASSUME IInv, WbStart
  PROVE  IInv'
PROOF
<1> USE CacheAssumption DEF IInv, CacheInv, Coherent, Slots, entryVars, clientVars, wbVars
<1>1. TypeOK'
  BY DEF WbStart, TypeOK, Calls, Call, NoCall, Outside
<1>2. OneEntryPerSector'
  BY DEF WbStart, OneEntryPerSector, InList, Cached, TypeOK, Calls
<1>3. LockOwner'
  BY DEF WbStart, LockOwner, Outside, TypeOK, Calls
<1>4. UsingOK'
  BY DEF WbStart, UsingOK, InUse, InList, Outside, TypeOK, Calls
<1>5. UncachedOK'
  BY DEF WbStart, UncachedOK, Cached, InList, TypeOK, Calls
<1>6. CachedOK'
  BY DEF WbStart, CachedOK, Settled, Writes, Uses, InList, Outside, TypeOK,
         Calls
<1>7. UsersOK'
  BY DEF WbStart, UsersOK, Uses, InList, Outside, TypeOK, Calls
<1>8. CallInv'
  BY DEF WbStart, CallInv, Outside, NoCall, Call, TypeOK, Calls
<1>9. EvictInv'
  BY DEF WbStart, EvictInv, Cached, Uses, InList, Outside, TypeOK, Calls
<1>10. FetchInv'
  BY DEF WbStart, FetchInv, Uses, InList, Outside, TypeOK, Calls
<1>11. WbInv'
  BY DEF WbStart, WbInv, Writes, Uses, InList, Outside, TypeOK, Calls
<1> QED
  BY <1>1, <1>2, <1>3, <1>4, <1>5, <1>6, <1>7, <1>8, <1>9, <1>10, <1>11

LEMMA WbSkipStep ==
  ASSUME IInv, WbSkip
  PROVE  IInv'
PROOF
<1> USE CacheAssumption DEF IInv, CacheInv, Coherent, Slots, entryVars, clientVars, wbVars
<1>1. TypeOK'
  BY DEF WbSkip, TypeOK, Calls, Call, NoCall, Outside, InList
<1>2. OneEntryPerSector'
  BY DEF WbSkip, OneEntryPerSector, InList, Cached, TypeOK, Calls
<1>3. LockOwner'
  BY DEF WbSkip, LockOwner, Outside, TypeOK, Calls
<1>4. UsingOK'
  BY DEF WbSkip, UsingOK, InUse, InList, Outside, TypeOK, Calls
<1>5. UncachedOK'
  BY DEF WbSkip, UncachedOK, Cached, InList, TypeOK, Calls
<1>6. CachedOK'
  BY DEF WbSkip, CachedOK, Settled, Writes, Uses, InList, Outside, TypeOK,
         Calls
<1>7. UsersOK'
  BY DEF WbSkip, UsersOK, Uses, InList, Outside, TypeOK, Calls
<1>8. CallInv'
  BY DEF WbSkip, CallInv, Outside, NoCall, Call, TypeOK, Calls
<1>9. EvictInv'
  BY DEF WbSkip, EvictInv, Cached, Uses, InList, Outside, TypeOK, Calls
<1>10. FetchInv'
  BY DEF WbSkip, FetchInv, Uses, InList, Outside, TypeOK, Calls
<1>11. WbInv'
  BY DEF WbSkip, WbInv, Writes, Uses, InList, Outside, TypeOK, Calls
<1> QED
  BY <1>1, <1>2, <1>3, <1>4, <1>5, <1>6, <1>7, <1>8, <1>9, <1>10, <1>11

LEMMA WbWriteStep ==
  ASSUME IInv, WbWrite
  PROVE  IInv'
PROOF
<1> USE CacheAssumption DEF IInv, CacheInv, Coherent, Slots, entryVars, clientVars, wbVars
<1>w. /\ wb_slot \in InList /\ wb_slot \in Slots /\ sector[wb_slot] \in Sectors
      /\ lock = WriteBehind
      /\ \A c \in Clients : pc[c] \notin {"evict", "fetched"}
  BY DEF WbWrite, InList, OneEntryPerSector, LockOwner, TypeOK
<1>s. /\ suspect \subseteq suspect' /\ suspect' \subseteq Sectors
      /\ \A c \in Clients : Writes(c, wb_slot) => sector[wb_slot] \in suspect'
  BY <1>w DEF WbWrite, TypeOK
<1>u. /\ UNCHANGED <<cache_current_size, sector, data, is_used, is_dirty, lock, clientVars>>
      /\ UNCHANGED <<wb_slot, allocated, done, content>>
      /\ is_using' = [is_using EXCEPT ![wb_slot] = TRUE]
      /\ disk' = [disk EXCEPT ![sector[wb_slot]] = data[wb_slot]]
      /\ wb_pc' = "written" /\ wb_pc = "scan"
  BY DEF WbWrite
<1>1. TypeOK'
  BY <1>w, <1>s, <1>u DEF TypeOK
<1>2. OneEntryPerSector'
  BY <1>w, <1>s, <1>u DEF OneEntryPerSector, InList
<1>3. LockOwner'
  BY <1>w, <1>s, <1>u DEF LockOwner
<1>4. UsingOK'
  BY <1>w, <1>s, <1>u DEF UsingOK, InUse, InList, TypeOK
<1>5. UncachedOK'
  BY <1>w, <1>s, <1>u DEF UncachedOK, Cached, InList, TypeOK
<1>6. CachedOK'
  <2> SUFFICES ASSUME NEW j \in InList', sector'[j] \notin suspect'
               PROVE  /\ data'[j] = content'[sector'[j]]
                      /\ (~is_dirty'[j] /\ Settled(j)') => disk'[sector'[j]] = data'[j]
    BY DEF CachedOK
  <2>1. Settled(j)' => Settled(j)
    BY <1>u DEF Settled, Writes, Uses
  <2>2. j \in InList /\ j \in Slots /\ sector[j] \in Sectors
    BY <1>u DEF InList, OneEntryPerSector, TypeOK
  <2>3. CASE j = wb_slot
    BY <1>s, <1>u, <2>2, <2>3 DEF CachedOK, TypeOK
  <2>4. CASE j # wb_slot
    <3>1. sector[j] # sector[wb_slot]
      BY <1>w, <2>2, <2>4 DEF OneEntryPerSector
    <3> QED
      BY <1>s, <1>u, <2>1, <2>2, <3>1 DEF CachedOK, TypeOK
  <2> QED
    BY <2>3, <2>4
<1>7. UsersOK'
  BY <1>w, <1>s, <1>u DEF UsersOK, Uses, InList
<1>8. CallInv'
  BY <1>w, <1>s, <1>u DEF CallInv
<1>9. EvictInv'
  BY <1>w, <1>s, <1>u DEF EvictInv
<1>10. FetchInv'
  BY <1>w, <1>s, <1>u DEF FetchInv
<1>11. WbInv'
  BY <1>w, <1>s, <1>u DEF WbInv, Writes, Uses, InList, TypeOK
<1> QED
  BY <1>1, <1>2, <1>3, <1>4, <1>5, <1>6, <1>7, <1>8, <1>9, <1>10, <1>11

LEMMA WbCleanStep ==
  ASSUME IInv, WbClean
  PROVE  IInv'
PROOF
<1> USE CacheAssumption DEF IInv, CacheInv, Coherent, Slots, entryVars, clientVars, wbVars
<1>1. TypeOK'
  BY DEF WbClean, WbInv, InList, TypeOK
<1>2. OneEntryPerSector'
  BY DEF WbClean, OneEntryPerSector, InList, Cached, TypeOK, Calls
<1>3. LockOwner'
  BY DEF WbClean, LockOwner, Outside, TypeOK, Calls
<1>4. UsingOK'
  BY DEF WbClean, UsingOK, InUse, InList, Outside, TypeOK, Calls
<1>5. UncachedOK'
  BY DEF WbClean, UncachedOK, Cached, InList, TypeOK, Calls
<1>6. CachedOK'
  <2> SUFFICES ASSUME NEW j \in InList', sector'[j] \notin suspect'
               PROVE  /\ data'[j] = content'[sector'[j]]
                      /\ (~is_dirty'[j] /\ Settled(j)') => disk'[sector'[j]] = data'[j]
    BY DEF CachedOK
  <2>1. Settled(j)' => Settled(j)
    BY DEF WbClean, Settled, Writes, Uses
  <2>2. j \in InList /\ j \in Slots
    BY DEF WbClean, InList, TypeOK
  <2>3. CASE j = wb_slot
    BY <2>2, <2>3 DEF WbClean, WbInv, CachedOK, TypeOK
  <2>4. CASE j # wb_slot
    BY <2>1, <2>2, <2>4 DEF WbClean, CachedOK, TypeOK
  <2> QED
    BY <2>3, <2>4
<1>7. UsersOK'
  BY DEF WbClean, UsersOK, Uses, InList, Outside, TypeOK, Calls
<1>8. CallInv'
  BY DEF WbClean, CallInv, Outside, NoCall, Call, TypeOK, Calls
<1>9. EvictInv'
  BY DEF WbClean, EvictInv, Cached, Uses, InList, Outside, LockOwner,
         TypeOK, Calls
<1>10. FetchInv'
  BY DEF WbClean, FetchInv, Uses, InList, Outside, LockOwner, TypeOK, Calls
<1>11. WbInv'
  BY DEF WbClean, WbInv, Writes, Uses, InList, Outside, LockOwner, TypeOK,
         Calls
<1> QED
  BY <1>1, <1>2, <1>3, <1>4, <1>5, <1>6, <1>7, <1>8, <1>9, <1>10, <1>11

LEMMA WbEndStep ==
  ASSUME IInv, WbEnd
  PROVE  IInv'
PROOF
<1> USE CacheAssumption DEF IInv, CacheInv, Coherent, Slots, entryVars, clientVars, wbVars
<1>1. TypeOK'
  BY DEF WbEnd, TypeOK, Calls, Call, NoCall, Outside
<1>2. OneEntryPerSector'
  BY DEF WbEnd, OneEntryPerSector, InList, Cached, TypeOK, Calls
<1>3. LockOwner'
  BY DEF WbEnd, LockOwner, Outside, TypeOK, Calls
<1>4. UsingOK'
  BY DEF WbEnd, UsingOK, InUse, InList, Outside, TypeOK, Calls
<1>5. UncachedOK'
  BY DEF WbEnd, UncachedOK, Cached, InList, TypeOK, Calls
<1>6. CachedOK'
  BY DEF WbEnd, CachedOK, Settled, Writes, Uses, InList, Outside, TypeOK,
         Calls
<1>7. UsersOK'
  BY DEF WbEnd, UsersOK, Uses, InList, Outside, TypeOK, Calls
<1>8. CallInv'
  BY DEF WbEnd, CallInv, Outside, NoCall, Call, TypeOK, Calls
<1>9. EvictInv'
  BY DEF WbEnd, EvictInv, Cached, Uses, InList, Outside, TypeOK, Calls
<1>10. FetchInv'
  BY DEF WbEnd, FetchInv, Uses, InList, Outside, TypeOK, Calls
<1>11. WbInv'
  BY DEF WbEnd, WbInv, Writes, Uses, InList, Outside, TypeOK, Calls
<1> QED
  BY <1>1, <1>2, <1>3, <1>4, <1>5, <1>6, <1>7, <1>8, <1>9, <1>10, <1>11

(* The flush at shutdown. *)
LEMMA FilesysDoneStep ==
  ASSUME IInv, FilesysDone
  PROVE  IInv'
PROOF
<1> USE CacheAssumption DEF IInv, CacheInv, Coherent, Slots, entryVars, clientVars, wbVars
<1>1. TypeOK'
  BY DEF FilesysDone, TypeOK, Calls, Call, NoCall, Outside
<1>2. OneEntryPerSector'
  BY DEF FilesysDone, OneEntryPerSector, InList, Cached, TypeOK, Calls
<1>3. LockOwner'
  BY DEF FilesysDone, LockOwner, Outside, TypeOK, Calls
<1>4. UsingOK'
  BY DEF FilesysDone, UsingOK, InUse, InList, Outside, LockOwner, TypeOK,
         Calls
<1>5. UncachedOK'
  BY DEF FilesysDone, UncachedOK, Cached, InList, TypeOK, Calls
<1>6. CachedOK'
  BY DEF FilesysDone, CachedOK, Settled, Writes, Uses, InList, Outside,
         TypeOK, Calls
<1>7. UsersOK'
  BY DEF FilesysDone, UsersOK, Uses, InList, Outside, TypeOK, Calls
<1>8. CallInv'
  BY DEF FilesysDone, CallInv, Outside, NoCall, Call, TypeOK, Calls
<1>9. EvictInv'
  BY DEF FilesysDone, EvictInv, Cached, Uses, InList, Outside, TypeOK,
         Calls
<1>10. FetchInv'
  BY DEF FilesysDone, FetchInv, Uses, InList, Outside, TypeOK, Calls
<1>11. WbInv'
  BY DEF FilesysDone, WbInv, Writes, Uses, InList, Outside, LockOwner,
         TypeOK, Calls
<1> QED
  BY <1>1, <1>2, <1>3, <1>4, <1>5, <1>6, <1>7, <1>8, <1>9, <1>10, <1>11

LEMMA PowerOffStep ==
  ASSUME IInv, PowerOff
  PROVE  IInv'
PROOF
<1> USE CacheAssumption DEF IInv, CacheInv, Coherent, Slots, entryVars, clientVars, wbVars
<1>1. TypeOK'
  BY DEF PowerOff, TypeOK, Calls, Call, NoCall, Outside
<1>2. OneEntryPerSector'
  BY DEF PowerOff, OneEntryPerSector, InList, Cached, TypeOK, Calls
<1>3. LockOwner'
  BY DEF PowerOff, LockOwner, Outside, TypeOK, Calls
<1>4. UsingOK'
  BY DEF PowerOff, UsingOK, InUse, InList, Outside, TypeOK, Calls
<1>5. UncachedOK'
  BY DEF PowerOff, UncachedOK, Cached, InList, TypeOK, Calls
<1>6. CachedOK'
  BY DEF PowerOff, CachedOK, Settled, Writes, Uses, InList, Outside,
         TypeOK, Calls
<1>7. UsersOK'
  BY DEF PowerOff, UsersOK, Uses, InList, Outside, TypeOK, Calls
<1>8. CallInv'
  BY DEF PowerOff, CallInv, Outside, NoCall, Call, TypeOK, Calls
<1>9. EvictInv'
  BY DEF PowerOff, EvictInv, Cached, Uses, InList, Outside, TypeOK, Calls
<1>10. FetchInv'
  BY DEF PowerOff, FetchInv, Uses, InList, Outside, TypeOK, Calls
<1>11. WbInv'
  BY DEF PowerOff, WbInv, Writes, Uses, InList, Outside, TypeOK, Calls
<1> QED
  BY <1>1, <1>2, <1>3, <1>4, <1>5, <1>6, <1>7, <1>8, <1>9, <1>10, <1>11

(* A sector is zeroed behind the back of the cache. *)
LEMMA GrowStep ==
  ASSUME IInv, NEW s \in Sectors, Grow(s)
  PROVE  IInv'
PROOF
<1> USE CacheAssumption DEF IInv, CacheInv, Coherent, Slots, entryVars, clientVars, wbVars
<1>1. TypeOK'
  BY DEF Grow, TypeOK, Calls, Call, NoCall, Outside
<1>2. OneEntryPerSector'
  BY DEF Grow, OneEntryPerSector, InList, Cached, TypeOK, Calls
<1>3. LockOwner'
  BY DEF Grow, LockOwner, Outside, TypeOK, Calls
<1>4. UsingOK'
  BY DEF Grow, UsingOK, InUse, InList, Outside, TypeOK, Calls
<1>5. UncachedOK'
  BY DEF Grow, UncachedOK, Cached, InList, TypeOK, Calls
<1>6. CachedOK'
  <2> SUFFICES ASSUME NEW j \in InList', sector'[j] \notin suspect'
               PROVE  /\ data'[j] = content'[sector'[j]]
                      /\ (~is_dirty'[j] /\ Settled(j)') => disk'[sector'[j]] = data'[j]
    BY DEF CachedOK
  <2>1. Settled(j)' => Settled(j)
    BY DEF Grow, Settled, Writes, Uses, InList, Outside, TypeOK, Calls
  <2>2. j \in InList /\ sector[j] \in Sectors
    BY DEF Grow, InList, OneEntryPerSector, TypeOK
  <2>3. sector[j] # s /\ sector[j] \notin suspect
    BY <2>2 DEF Grow, Cached
  <2> QED
    BY <2>1, <2>2, <2>3 DEF Grow, CachedOK, TypeOK
<1>7. UsersOK'
  BY DEF Grow, UsersOK, Uses, InList, Outside, TypeOK, Calls
<1>8. CallInv'
  BY DEF Grow, CallInv, Outside, NoCall, Call, TypeOK, Calls
<1>9. EvictInv'
  BY DEF Grow, EvictInv, Cached, Uses, InList, Outside, TypeOK, Calls
<1>10. FetchInv'
  BY DEF Grow, FetchInv, Uses, InList, Outside, Cached, TypeOK, Calls
<1>11. WbInv'
  BY DEF Grow, WbInv, Writes, Uses, InList, Outside, Cached, TypeOK, Calls
<1> QED
  BY <1>1, <1>2, <1>3, <1>4, <1>5, <1>6, <1>7, <1>8, <1>9, <1>10, <1>11

LEMMA ReleaseStep ==
  ASSUME IInv, NEW s \in Sectors, Release(s)
  PROVE  IInv'
PROOF
<1> USE CacheAssumption DEF IInv, CacheInv, Coherent, Slots, entryVars, clientVars, wbVars
<1>1. TypeOK'
  BY DEF Release, TypeOK, Calls, Call, NoCall, Outside
<1>2. OneEntryPerSector'
  BY DEF Release, OneEntryPerSector, InList, Cached, TypeOK, Calls
<1>3. LockOwner'
  BY DEF Release, LockOwner, Outside, TypeOK, Calls
<1>4. UsingOK'
  BY DEF Release, UsingOK, InUse, InList, Outside, TypeOK, Calls
<1>5. UncachedOK'
  BY DEF Release, UncachedOK, Cached, InList, TypeOK, Calls
<1>6. CachedOK'
  BY DEF Release, CachedOK, Settled, Writes, Uses, InList, Outside, TypeOK,
         Calls
<1>7. UsersOK'
  BY DEF Release, UsersOK, Uses, InList, Outside, TypeOK, Calls
<1>8. CallInv'
  BY DEF Release, CallInv, Outside, NoCall, Call, TypeOK, Calls
<1>9. EvictInv'
  BY DEF Release, EvictInv, Cached, Uses, InList, Outside, TypeOK, Calls
<1>10. FetchInv'
  BY DEF Release, FetchInv, Uses, InList, Outside, TypeOK, Calls
<1>11. WbInv'
  BY DEF Release, WbInv, Writes, Uses, InList, Outside, TypeOK, Calls
<1> QED
  BY <1>1, <1>2, <1>3, <1>4, <1>5, <1>6, <1>7, <1>8, <1>9, <1>10, <1>11

-----------------------------------------------------------------------------
LEMMA CacheInit == Init => IInv
PROOF
<1> SUFFICES ASSUME Init PROVE IInv
  OBVIOUS
<1> USE CacheAssumption DEF Init, Slots, InList
<1>1. TypeOK
  <2>1. NoCall \in Calls
    BY DEF Calls, NoCall
  <2>2. 0 \in 0 .. MAX_CACHE_SIZE /\ 1 \in Slots /\ 1 \in 1 .. MAX_CACHE_SIZE + 1
    OBVIOUS
  <2> QED
    BY <2>1, <2>2 DEF TypeOK
<1>2. CacheInv
  BY DEF CacheInv, OneEntryPerSector, LockOwner, UsingOK
<1>3. Coherent
  BY DEF Coherent, UncachedOK, CachedOK, UsersOK, Uses, Outside
<1> QED
  BY <1>1, <1>2, <1>3 DEF IInv, CallInv, EvictInv, FetchInv, WbInv

LEMMA CacheStutter == IInv /\ UNCHANGED vars => IInv'
PROOF
<1> SUFFICES ASSUME IInv, UNCHANGED vars PROVE IInv'
  OBVIOUS
<1> USE DEF vars, entryVars, clientVars, wbVars, InList, Uses, Writes
<1>1. TypeOK'
  BY DEF IInv, TypeOK
<1>2. CacheInv'
  BY DEF IInv, CacheInv, OneEntryPerSector, LockOwner, UsingOK, InUse
<1>3. Coherent'
  BY DEF IInv, Coherent, UncachedOK, CachedOK, UsersOK, Cached, Settled
<1>4. CallInv' /\ EvictInv' /\ FetchInv' /\ WbInv'
  BY DEF IInv, CallInv, EvictInv, FetchInv, WbInv, Cached
<1> QED
  BY <1>1, <1>2, <1>3, <1>4 DEF IInv

LEMMA CacheStep == IInv /\ [Next]_vars => IInv'
PROOF
<1> SUFFICES ASSUME IInv, [Next]_vars PROVE IInv'
  OBVIOUS
<1>1. ASSUME NEW c \in Clients, ClientStep(c) PROVE IInv'
  BY <1>1, HitStep, AllocateStep, EvictStep, FetchStep, EvictReturnStep, CopyStep,
     ClearUsingStep, SetDirtyStep DEF ClientStep
<1>2. CASE WbStep
  BY <1>2, WbStartStep, WbSkipStep, WbWriteStep, WbCleanStep, WbEndStep
     DEF WbStep
<1>3. CASE FilesysDone \/ PowerOff
  BY <1>3, FilesysDoneStep, PowerOffStep
<1>4. ASSUME NEW s \in Sectors, Grow(s) \/ Release(s) PROVE IInv'
  BY <1>4, GrowStep, ReleaseStep
<1>5. CASE UNCHANGED vars
  BY <1>5, CacheStutter
<1> QED
  BY <1>1, <1>2, <1>3, <1>4, <1>5 DEF Next

LEMMA CacheInduction == Spec => []IInv
PROOF
  BY CacheInit, CacheStep, PTL DEF Spec

(***************************************************************************)
(* For any number of threads, sectors and entries: find_cache() never has  *)
(* two entries to choose from, buffer_cache_lock has one owner, and the    *)
(* is_using mark that evict_cache() respects is left on no entry that      *)
(* nobody uses.                                                            *)
(***************************************************************************)
THEOREM CacheCorrect == Spec => [](TypeOK /\ CacheInv)
PROOF
<1>1. IInv => TypeOK /\ CacheInv
  BY DEF IInv
<1> QED
  BY <1>1, CacheInduction, PTL

(***************************************************************************)
(* For any number of threads, sectors and entries: the three races that    *)
(* suspect records are the only ways in which cache_read(), cache_write(), *)
(* eviction and write-behind lose data.                                    *)
(***************************************************************************)
THEOREM NoOtherLoss == Spec => []Coherent
PROOF
<1>1. IInv => Coherent
  BY DEF IInv
<1> QED
  BY <1>1, CacheInduction, PTL

LEMMA EnoughEntries ==
  ASSUME IsFiniteSet(Clients), Cardinality(Clients) <= MAX_CACHE_SIZE, IInv
  PROVE  VictimExists
PROOF
<1> SUFFICES ASSUME lock = NULL, cache_current_size = MAX_CACHE_SIZE,
                    NEW c \in Clients, pc[c] = "idle", Candidates = {}
             PROVE  FALSE
  BY DEF VictimExists
<1> DEFINE Busy == {d \in Clients : pc[d] \in {"fetched", "copy", "unuse"}}
           held == [d \in Busy |-> slot[d]]
<1>1. \A i \in Slots : \E d \in Busy : slot[d] = i
  BY CacheAssumption DEF IInv, CacheInv, LockOwner, UsingOK, InUse, Candidates, TypeOK
<1>2. held \in Surjection(Busy, Slots)
  BY <1>1 DEF Surjection, IInv, TypeOK
<1>3. IsFiniteSet(Busy) /\ Cardinality(Busy) < Cardinality(Clients)
  <2>1. Busy \in SUBSET Clients /\ Clients # Busy
    OBVIOUS
  <2>2. IsFiniteSet(Busy) /\ Cardinality(Busy) <= Cardinality(Clients)
        /\ Cardinality(Clients) # Cardinality(Busy)
    BY <2>1, FS_Subset
  <2>3. Cardinality(Busy) \in Nat /\ Cardinality(Clients) \in Nat
    BY <2>2, FS_CardinalityType
  <2> QED
    BY <2>2, <2>3
<1>4. Cardinality(Slots) = MAX_CACHE_SIZE
  BY CacheAssumption, FS_Interval DEF Slots
<1>5. Cardinality(Slots) <= Cardinality(Busy)
  BY <1>2, <1>3, FS_Surjection
<1>6. Cardinality(Busy) \in Nat /\ Cardinality(Clients) \in Nat
  BY <1>3, FS_CardinalityType
<1> QED
  BY <1>3, <1>4, <1>5, <1>6, CacheAssumption

(***************************************************************************)
(* evict_cache() finds a victim whenever a thread may need one, so that    *)
(* the assertion cache_e != NULL of cache_read() and cache_write() holds,  *)
(* if there are no more threads than entries.                              *)
(***************************************************************************)
THEOREM VictimAlways ==
  ASSUME IsFiniteSet(Clients), Cardinality(Clients) <= MAX_CACHE_SIZE
  PROVE  Spec => []VictimExists
PROOF
<1>1. IInv => VictimExists
  BY EnoughEntries
<1> QED
  BY <1>1, CacheInduction, PTL
=============================================================================

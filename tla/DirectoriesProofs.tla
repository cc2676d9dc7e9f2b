-------------------------- MODULE DirectoriesProofs --------------------------
(***************************************************************************)
(* Proofs about Directories, for any number of processes, sectors, names   *)
(* and path names: reference counts (CountInv), the tree (TreeInv) and the *)
(* sectors in use (SectorInv), all as long as neither of the two ways of   *)
(* leaving the tree has been taken.                                        *)
(*                                                                         *)
(* None of them is inductive alone: a reference keeps an inode from being  *)
(* freed only as long as it is counted, a directory without entries or     *)
(* visitors stays so only as long as the lock of its parent is held.       *)
(* DirInv proves them together, with what a process knows where it is in a *)
(* call (PlaceInv, LockInv, EntryInv) and of the sector it has taken from  *)
(* the free map (CreatedInv).                                              *)
(***************************************************************************)
EXTENDS Directories, FiniteSetTheorems, TLAPS

Comps == Names \cup {Dot, DotDot}
Creating == {"add", "write", "undo"}
Removing == {"empty", "opened", "erase", "release"}
Locking  == {"write"} \cup Removing
Places == {"idle", "gone", "walk", "done"} \cup Creating \cup Removing
Ops == {"none", "create", "mkdir", "remove", "open", "chdir"}

CallRecords ==
  [at : Places, op : Ops, dir : Inodes \cup {NULL}, path : Seq(Comps),
   name : Comps \cup {""}, sector : Sectors \cup {NULL}]

(* The variables hold what their C types and their uses allow. *)
TypeInv ==
  /\ free_map \subseteq Inodes
  /\ is_dir \in [Inodes -> BOOLEAN] /\ removed \in [Inodes -> BOOLEAN]
  /\ parent \in [Inodes -> Inodes \cup {NULL}]
  /\ entries \in [Inodes -> SUBSET (Comps \X Sectors)]
  /\ open_cnt \in [Inodes -> Int] /\ leaked \in [Inodes -> Nat]
  /\ lock \in [Inodes -> Procs \cup {NULL}]
  /\ current_dir \in [Procs -> Inodes \cup {NULL}]
  /\ fds \in [Procs -> Inodes \cup {NULL}]
  /\ c \in [Procs -> CallRecords]
  /\ dangling \in BOOLEAN /\ orphaned \in BOOLEAN

(***************************************************************************)
(* What a process has where it is.  It is in directories, never in a file, *)
(* and a call that will fill its descriptor has found it empty.            *)
(***************************************************************************)
Place(p) ==
  /\ current_dir[p] = NULL <=> c[p].at = "gone"
  /\ c[p].dir = NULL <=> c[p].at \in {"idle", "gone"}
  /\ c[p].at = "gone" => fds[p] = NULL
  /\ c[p].at \in Creating \cup Removing => c[p].sector \in Sectors
  /\ c[p].at = "walk" /\ c[p].op = "open" => fds[p] = NULL
  /\ current_dir[p] \in Inodes => is_dir[current_dir[p]]
  /\ c[p].dir \in Inodes => is_dir[c[p].dir]

PlaceInv == \A p \in Procs : Place(p)

(* A directory is locked by the process that searches or changes it. *)
LockInv ==
  \A p \in Procs, d \in Inodes : lock[d] = p <=> c[p].at \in Locking /\ c[p].dir = d

(* What a process has found in the directory it has locked is still so. *)
Entry(p) ==
  /\ c[p].at \in {"empty", "opened", "erase"} =>
       <<c[p].name, c[p].sector>> \in entries[c[p].dir]
  /\ c[p].at = "write" =>
       c[p].name # "" /\ \A s \in Sectors : <<c[p].name, s>> \notin entries[c[p].dir]

EntryInv == \A p \in Procs : Entry(p)

(* Nobody else knows of an inode before it has its entry. *)
New(p) ==
  c[p].at \in Creating =>
    /\ c[p].sector \in free_map \ Named /\ ~removed[c[p].sector]
    /\ entries[c[p].sector] = {} /\ open_cnt[c[p].sector] = 0
    /\ \A q \in Procs : c[q].at \in Creating /\ c[q].sector = c[p].sector => q = p

CreatedInv == \A p \in Procs : New(p)

(* Nobody has come into a directory that is about to be removed. *)
Erase(p) ==
  c[p].at = "erase" /\ is_dir[c[p].sector] =>
    Here(c[p].sector) \cup Descs(c[p].sector) \cup Visits(c[p].sector) = {}

EraseInv == \A p \in Procs : Erase(p)

(* What is open is in the tree, or was before it was removed. *)
OpenInv ==
  \A s \in Sectors : open_cnt[s] # 0 => s \in Named \/ removed[s]

(* The entries: a name once in a directory, an inode once, in its parent. *)
NameInv ==
  \A d \in Inodes, m, n \in Comps, s, t \in Sectors :
    <<m, s>> \in entries[d] /\ <<n, t>> \in entries[d] => (m = n <=> s = t)

ParentInv ==
  \A d \in Inodes, n \in Comps, s \in Sectors :
    <<n, s>> \in entries[d] =>
      is_dir[d] /\ ~removed[d] /\ parent[s] = d /\ ~removed[s]

RemovedInv ==
  \A s \in Sectors : is_dir[s] /\ removed[s] => Here(s) \cup Descs(s) \cup Visits(s) = {}

(* The free map, and what is in an inode that is not marked there. *)
MapInv ==
  /\ Root \in free_map /\ is_dir[Root] /\ ~removed[Root] /\ parent[Root] = NULL
  /\ \A s \in Sectors : is_dir[s] => s \in free_map
  /\ \A s \in Sectors : s \in free_map <=> s \in Named \/ s \in Created \/ removed[s]

Counted ==
  \A s \in Inodes :
    open_cnt[s] = leaked[s] + Cardinality(Here(s)) + Cardinality(Descs(s))
                    + Cardinality(Visits(s)) + Cardinality(Removes(s))

DirInv ==
  /\ TypeInv /\ PlaceInv /\ LockInv /\ EntryInv /\ CreatedInv /\ EraseInv
  /\ OpenInv /\ NameInv /\ ParentInv /\ RemovedInv /\ MapInv /\ Counted

-----------------------------------------------------------------------------
(* Counting references. *)

In(x, S) == IF x \in S THEN 1 ELSE 0

(* Two sets that differ in x at most. *)
LEMMA CountStep ==
  ASSUME NEW S, NEW T, NEW x, IsFiniteSet(S), T \ {x} = S \ {x}
  PROVE  /\ IsFiniteSet(T) /\ Cardinality(S) \in Nat /\ Cardinality(T) \in Nat
         /\ Cardinality(T) = Cardinality(S) + In(x, T) - In(x, S)
PROOF
<1> DEFINE R == S \ {x}
<1>1. IsFiniteSet(R) /\ Cardinality(S) \in Nat /\ Cardinality(R) \in Nat
  BY FS_RemoveElement, FS_CardinalityType
<1>2. Cardinality(R) = Cardinality(S) - In(x, S)
  BY <1>1, FS_RemoveElement DEF In
<1>3. T = IF x \in T THEN R \cup {x} ELSE R
  OBVIOUS
<1>4. x \notin R
  OBVIOUS
<1> HIDE DEF R
<1>5. IsFiniteSet(T) /\ Cardinality(T) = Cardinality(R) + In(x, T)
  <2>1. IsFiniteSet(R \cup {x}) /\ Cardinality(R \cup {x}) = Cardinality(R) + 1
    BY <1>1, <1>4, FS_AddElement
  <2>2. CASE x \in T
    BY <1>3, <2>1, <2>2 DEF In
  <2>3. CASE x \notin T
    BY <1>1, <1>3, <2>3 DEF In
  <2> QED
    BY <2>2, <2>3
<1>6. Cardinality(T) \in Nat
  BY <1>5, FS_CardinalityType
<1> QED
  BY <1>1, <1>2, <1>5, <1>6 DEF In

LEMMA ReferencesFinite ==
  ASSUME NEW s
  PROVE  /\ IsFiniteSet(Here(s)) /\ IsFiniteSet(Descs(s)) /\ IsFiniteSet(Visits(s))
         /\ IsFiniteSet(Removes(s))
         /\ Cardinality(Here(s)) \in Nat /\ Cardinality(Descs(s)) \in Nat
         /\ Cardinality(Visits(s)) \in Nat /\ Cardinality(Removes(s)) \in Nat
PROOF
<1>1. /\ Here(s) \in SUBSET Procs /\ Descs(s) \in SUBSET Procs
      /\ Visits(s) \in SUBSET Procs /\ Removes(s) \in SUBSET Procs
  BY DEF Here, Descs, Visits, Removes
<1> QED
  BY <1>1, DirAssumption, FS_Subset, FS_CardinalityType

(* A step of process p leaves the others alone. *)
OthersSame(p) ==
  \A q \in Procs \ {p} :
    c'[q] = c[q] /\ current_dir'[q] = current_dir[q] /\ fds'[q] = fds[q]

(* The references of process p to inode s. *)
Mine(p, s) ==
  In(p, Here(s)) + In(p, Descs(s)) + In(p, Visits(s)) + In(p, Removes(s))

LEMMA ReferencesStep ==
  ASSUME NEW p \in Procs, NEW s, OthersSame(p)
  PROVE  /\ Cardinality(Here(s)') = Cardinality(Here(s)) + In(p, Here(s)') - In(p, Here(s))
         /\ Cardinality(Descs(s)') = Cardinality(Descs(s)) + In(p, Descs(s)') - In(p, Descs(s))
         /\ Cardinality(Visits(s)') = Cardinality(Visits(s)) + In(p, Visits(s)') - In(p, Visits(s))
         /\ Cardinality(Removes(s)') =
              Cardinality(Removes(s)) + In(p, Removes(s)') - In(p, Removes(s))
PROOF
<1>1. Here(s)' \ {p} = Here(s) \ {p}
  BY DEF Here, OthersSame
<1>2. Descs(s)' \ {p} = Descs(s) \ {p}
  BY DEF Descs, OthersSame
<1>3. Visits(s)' \ {p} = Visits(s) \ {p}
  BY DEF Visits, OthersSame
<1>4. Removes(s)' \ {p} = Removes(s) \ {p}
  BY DEF Removes, OthersSame
<1>5. /\ IsFiniteSet(Here(s)) /\ IsFiniteSet(Descs(s)) /\ IsFiniteSet(Visits(s))
      /\ IsFiniteSet(Removes(s))
  BY ReferencesFinite
<1>6. Cardinality(Here(s)') = Cardinality(Here(s)) + In(p, Here(s)') - In(p, Here(s))
  BY <1>1, <1>5, CountStep
<1>7. Cardinality(Descs(s)') = Cardinality(Descs(s)) + In(p, Descs(s)') - In(p, Descs(s))
  BY <1>2, <1>5, CountStep
<1>8. Cardinality(Visits(s)') = Cardinality(Visits(s)) + In(p, Visits(s)') - In(p, Visits(s))
  BY <1>3, <1>5, CountStep
<1>9. Cardinality(Removes(s)') = Cardinality(Removes(s)) + In(p, Removes(s)') - In(p, Removes(s))
  BY <1>4, <1>5, CountStep
<1> QED
  BY <1>6, <1>7, <1>8, <1>9

(* The counts stay right when open_cnt and leaked follow the references of p. *)
LEMMA CountMoved ==
  ASSUME DirInv, TypeInv', NEW p \in Procs, OthersSame(p),
         \A s \in Inodes : open_cnt'[s] + leaked[s] + Mine(p, s)
                             = open_cnt[s] + leaked'[s] + Mine(p, s)'
  PROVE  Counted'
PROOF
<1> SUFFICES ASSUME NEW s \in Inodes
             PROVE  open_cnt'[s] = leaked'[s] + Cardinality(Here(s)') + Cardinality(Descs(s)')
                                     + Cardinality(Visits(s)') + Cardinality(Removes(s)')
  BY DEF Counted
<1> DEFINE h == Cardinality(Here(s))
           d == Cardinality(Descs(s))
           v == Cardinality(Visits(s))
           r == Cardinality(Removes(s))
           o == open_cnt[s]
           k == leaked[s]
           i == In(p, Here(s))
           j == In(p, Descs(s))
           m == In(p, Visits(s))
           n == In(p, Removes(s))
<1>1. h \in Int /\ d \in Int /\ v \in Int /\ r \in Int
  BY ReferencesFinite
<1>2. o \in Int /\ k \in Int /\ o' \in Int /\ k' \in Int
  BY DEF DirInv, TypeInv
<1>3. i \in Int /\ j \in Int /\ m \in Int /\ n \in Int
  BY DEF In
<1>4. i' \in Int /\ j' \in Int /\ m' \in Int /\ n' \in Int
  BY DEF In
<1>5. h' = h + i' - i /\ d' = d + j' - j /\ v' = v + m' - m /\ r' = r + n' - n
  BY ReferencesStep
<1>6. o = k + h + d + v + r
  BY DEF DirInv, Counted
<1>7. o' + k + (i + j + m + n) = o + k' + (i' + j' + m' + n')
  BY DEF Mine
<1> HIDE DEF h, d, v, r, o, k, i, j, m, n
<1>8. o' = k' + h' + d' + v' + r'
  BY <1>1, <1>2, <1>3, <1>4, <1>5, <1>6, <1>7
<1> QED
  BY <1>8 DEF h, d, v, r, o, k

(* A reference keeps open_cnt above zero. *)
LEMMA ReferenceCounts ==
  ASSUME DirInv, NEW s \in Inodes
  PROVE  /\ open_cnt[s] \in Nat
         /\ Here(s) \cup Descs(s) \cup Visits(s) \cup Removes(s) # {} => open_cnt[s] > 0
         /\ Removes(s) # {} /\ open_cnt[s] <= 1 => Here(s) \cup Descs(s) \cup Visits(s) = {}
         /\ Descs(s) # {} /\ open_cnt[s] = 1 =>
              Here(s) \cup Visits(s) \cup Removes(s) = {} /\ \E x : Descs(s) = {x}
         /\ Removes(s) # {} /\ open_cnt[s] = 1 => \E x : Removes(s) = {x}
PROOF
<1> DEFINE h == Cardinality(Here(s))
           d == Cardinality(Descs(s))
           v == Cardinality(Visits(s))
           r == Cardinality(Removes(s))
<1>1. h \in Nat /\ d \in Nat /\ v \in Nat /\ r \in Nat
  BY ReferencesFinite
<1>2. /\ (h = 0 <=> Here(s) = {}) /\ (d = 0 <=> Descs(s) = {})
      /\ (v = 0 <=> Visits(s) = {}) /\ (r = 0 <=> Removes(s) = {})
  BY ReferencesFinite, FS_EmptySet
<1>3. (d = 1 => \E x : Descs(s) = {x}) /\ (r = 1 => \E x : Removes(s) = {x})
  BY ReferencesFinite, FS_Singleton
<1>4. open_cnt[s] = leaked[s] + h + d + v + r /\ leaked[s] \in Nat
  BY DEF DirInv, Counted, TypeInv
<1> HIDE DEF h, d, v, r
<1>5. /\ open_cnt[s] \in Nat
      /\ (h # 0 \/ d # 0 \/ v # 0 \/ r # 0 => open_cnt[s] > 0)
      /\ (r # 0 /\ open_cnt[s] <= 1 => h = 0 /\ d = 0 /\ v = 0 /\ r = 1)
      /\ (d # 0 /\ open_cnt[s] = 1 => h = 0 /\ v = 0 /\ r = 0 /\ d = 1)
  BY <1>1, <1>4
<1>6. Here(s) \cup Descs(s) \cup Visits(s) \cup Removes(s) # {} => open_cnt[s] > 0
  BY <1>2, <1>5
<1>7. Removes(s) # {} /\ open_cnt[s] <= 1 => Here(s) \cup Descs(s) \cup Visits(s) = {}
  BY <1>2, <1>5
<1>8. Descs(s) # {} /\ open_cnt[s] = 1 =>
        Here(s) \cup Visits(s) \cup Removes(s) = {} /\ \E x : Descs(s) = {x}
  BY <1>2, <1>3, <1>5
<1>9. Removes(s) # {} /\ open_cnt[s] = 1 => \E x : Removes(s) = {x}
  <2>1. SUFFICES ASSUME Removes(s) # {}, open_cnt[s] = 1
                 PROVE  \E x : Removes(s) = {x}
    OBVIOUS
  <2>2. r # 0
    BY <1>2, <2>1
  <2>3. r = 1
    BY <1>5, <2>1, <2>2
  <2> QED
    BY <1>3, <2>3
<1> QED
  BY <1>5, <1>6, <1>7, <1>8, <1>9

-----------------------------------------------------------------------------
(* The inodes with an entry, and where a process can be. *)

LEMMA NamedIntro ==
  ASSUME NEW d \in Inodes, NEW n, NEW s, <<n, s>> \in entries[d]
  PROVE  s \in Named
PROOF
<1>1. s \in {e[2] : e \in entries[d]}
  <2>1. <<n, s>>[2] = s
    OBVIOUS
  <2> QED
    BY <2>1
<1> QED
  BY <1>1 DEF Named

LEMMA NamedElim ==
  ASSUME DirInv, NEW s \in Named
  PROVE  /\ s \in Sectors /\ parent[s] \in Inodes /\ ~removed[s]
         /\ \E n \in Comps : <<n, s>> \in entries[parent[s]]
PROOF
<1>1. PICK d \in Inodes : s \in {e[2] : e \in entries[d]}
  BY DEF Named
<1>2. PICK e \in entries[d] : s = e[2]
  BY <1>1
<1>3. e \in Comps \X Sectors
  BY DEF DirInv, TypeInv
<1>4. PICK n \in Comps, t \in Sectors : e = <<n, t>>
  BY <1>3
<1>5. s \in Sectors /\ <<n, s>> \in entries[d]
  BY <1>2, <1>4
<1>6. parent[s] = d /\ ~removed[s]
  BY <1>5 DEF DirInv, ParentInv
<1> QED
  BY <1>5, <1>6

LEMMA NamedSame ==
  ASSUME entries' = entries
  PROVE  Named' = Named
PROOF
  BY DEF Named

(* The same after a step. *)
LEMMA NamedAfter ==
  ASSUME NEW d \in Inodes, NEW n, NEW s, <<n, s>> \in entries'[d]
  PROVE  s \in Named'
PROOF
<1>1. s \in {e[2] : e \in entries'[d]}
  <2>1. <<n, s>>[2] = s
    OBVIOUS
  <2> QED
    BY <2>1
<1> QED
  BY <1>1 DEF Named

LEMMA NamedBefore ==
  ASSUME TypeInv', NEW s \in Named'
  PROVE  \E d \in Inodes, n \in Comps : <<n, s>> \in entries'[d] /\ s \in Sectors
PROOF
<1>1. PICK d \in Inodes : s \in {e[2] : e \in entries'[d]}
  BY DEF Named
<1>2. PICK e \in entries'[d] : s = e[2]
  BY <1>1
<1>3. e \in Comps \X Sectors
  BY DEF TypeInv
<1>4. PICK n \in Comps, t \in Sectors : e = <<n, t>>
  BY <1>3
<1>5. s \in Sectors /\ <<n, s>> \in entries'[d]
  BY <1>2, <1>4
<1> QED
  BY <1>5

LEMMA Lookup ==
  ASSUME DirInv, NEW d \in Inodes, NEW n, NEW s \in lookup(d, n)
  PROVE  s \in Sectors /\ n \in Comps /\ <<n, s>> \in entries[d]
PROOF
<1>1. PICK e \in entries[d] : e[1] = n /\ e[2] = s
  BY DEF lookup
<1>2. e \in Comps \X Sectors
  BY DEF DirInv, TypeInv
<1> QED
  BY <1>1, <1>2

LEMMA LookupNothing ==
  ASSUME NEW d \in Inodes, NEW n, lookup(d, n) = {}
  PROVE  \A s : <<n, s>> \notin entries[d]
PROOF
<1> SUFFICES ASSUME NEW s, <<n, s>> \in entries[d] PROVE FALSE
  OBVIOUS
<1>1. <<n, s>>[1] = n /\ <<n, s>>[2] = s
  OBVIOUS
<1>2. s \in lookup(d, n)
  BY <1>1 DEF lookup
<1> QED
  BY <1>2

(* The directory a process is in is one of the tree. *)
LEMMA InTree ==
  ASSUME DirInv, NEW p \in Procs, NEW d \in Inodes, d \in {current_dir[p], c[p].dir}
  PROVE  is_dir[d] /\ ~removed[d] /\ d \in Named \cup {Root} /\ open_cnt[d] > 0
PROOF
<1>1. is_dir[d]
  BY DEF DirInv, PlaceInv, Place
<1>2. p \in Here(d) \cup Visits(d)
  BY DEF Here, Visits
<1>3. open_cnt[d] > 0
  BY <1>2, ReferenceCounts
<1>4. ~removed[d]
  BY <1>1, <1>2 DEF DirInv, RemovedInv, MapInv, Inodes
<1>5. open_cnt[d] # 0
  BY <1>3, ReferenceCounts
<1>6. d \in Named \cup {Root}
  BY <1>4, <1>5 DEF DirInv, OpenInv, Inodes
<1> QED
  BY <1>1, <1>3, <1>4, <1>6

(* So is the parent of a directory of the tree. *)
LEMMA ParentInTree ==
  ASSUME DirInv, NEW d \in Named \cup {Root}, parent[d] # NULL
  PROVE  parent[d] \in Named \cup {Root} /\ parent[d] \in Inodes
PROOF
<1>1. d \in Named
  BY DEF DirInv, MapInv
<1>2. PICK n \in Comps : <<n, d>> \in entries[parent[d]]
  BY <1>1, NamedElim
<1>3. d \in Sectors /\ parent[d] \in Inodes
  BY <1>1, NamedElim
<1>4. is_dir[parent[d]] /\ ~removed[parent[d]]
  BY <1>2, <1>3 DEF DirInv, ParentInv
<1>5. ASSUME parent[d] \in Sectors
      PROVE  parent[d] \in Named
  <2>1. parent[d] \in Named \/ parent[d] \in Created
    BY <1>4, <1>5 DEF DirInv, MapInv
  <2>2. parent[d] \notin Created
    BY <1>2 DEF Created, DirInv, CreatedInv, New, Creating
  <2> QED
    BY <2>1, <2>2
<1> QED
  BY <1>3, <1>5 DEF Inodes

-----------------------------------------------------------------------------
(***************************************************************************)
(* A step that leaves the tree and the locks alone, of a process that      *)
(* neither creates nor removes.  It can only reach what it, or another,    *)
(* refers to already, or what it finds in a directory that is not locked.  *)
(***************************************************************************)
Found(s) == \E d \in Inodes, n \in Comps : <<n, s>> \in entries[d] /\ lock[d] = NULL

Reached(s) ==
  \/ s = Root \/ Found(s)
  \/ Here(s) \cup Descs(s) \cup Visits(s) # {}

Walking(p) ==
  /\ OthersSame(p) /\ UNCHANGED <<treeVars, lock>>
  /\ c[p].at \notin Creating \cup Removing /\ c'[p].at \notin Creating \cup Removing
  /\ \A s \in Inodes : open_cnt'[s] # 0 => open_cnt[s] # 0 \/ s \in Named \cup {Root}
  /\ \A s \in Inodes : s \in {current_dir'[p], fds'[p], c'[p].dir} => Reached(s)

(* An entry is in the directory that the inode has as its parent. *)
LEMMA EntryParent ==
  ASSUME DirInv, NEW d \in Inodes, NEW n \in Comps, NEW s \in Sectors,
         <<n, s>> \in entries[d]
  PROVE  is_dir[d] /\ ~removed[d] /\ parent[s] = d /\ ~removed[s]
PROOF
<1>1. ParentInv
  BY DEF DirInv
<1> QED
  BY ONLY <1>1, d \in Inodes, n \in Comps, s \in Sectors, <<n, s>> \in entries[d]
  DEF ParentInv

(* A directory that has been removed, or is about to be, is not reached. *)
LEMMA NotReached ==
  ASSUME DirInv, NEW s \in Sectors, is_dir[s],
         removed[s] \/ \E p \in Procs : c[p].at = "erase" /\ c[p].sector = s
  PROVE  ~Reached(s)
PROOF
<1>1. s # Root /\ Here(s) \cup Descs(s) \cup Visits(s) = {}
  BY DirAssumption DEF DirInv, RemovedInv, EraseInv, Erase
<1>2. ASSUME NEW d \in Inodes, NEW n \in Comps, <<n, s>> \in entries[d], lock[d] = NULL
      PROVE  FALSE
  <2>1. parent[s] = d /\ ~removed[s]
    BY <1>2, EntryParent
  <2>2. PICK p \in Procs : c[p].at = "erase" /\ c[p].sector = s
    BY <2>1
  <2>3. c[p].dir \in Inodes
    <3>1. c[p] \in CallRecords /\ c[p].dir # NULL
      BY <2>2 DEF DirInv, TypeInv, PlaceInv, Place
    <3>2. c[p].dir \in Inodes \cup {NULL}
      BY <3>1 DEF CallRecords
    <3> QED
      BY <3>1, <3>2
  <2>4. <<c[p].name, s>> \in entries[c[p].dir]
    BY <2>2 DEF DirInv, EntryInv, Entry
  <2>5. entries[c[p].dir] \subseteq Comps \X Sectors
    BY <2>3 DEF DirInv, TypeInv
  <2>6. c[p].name \in Comps
    BY <2>4, <2>5
  <2>7. c[p].dir = d
    <3>1. parent[s] = c[p].dir
      BY <2>3, <2>4, <2>6, EntryParent
    <3> QED
      BY <2>1, <3>1
  <2>8. lock[d] = p
    BY <2>2, <2>7 DEF DirInv, LockInv, Locking, Removing
  <2> QED
    BY <1>2, <2>8, DirAssumption
<1> QED
  BY <1>1, <1>2 DEF Reached, Found

LEMMA WalkingReaches ==
  ASSUME DirInv, TypeInv', NEW p \in Procs, OthersSame(p), NEW s \in Inodes,
         s \in {current_dir'[p], fds'[p], c'[p].dir} => Reached(s),
         ~Reached(s)
  PROVE  (Here(s) \cup Descs(s) \cup Visits(s))' = {}
PROOF
<1>1. Here(s) = {} /\ Descs(s) = {} /\ Visits(s) = {}
  BY DEF Reached
<1>2. \A q \in Procs : current_dir'[q] # s /\ fds'[q] # s /\ c'[q].dir # s
  BY <1>1 DEF Here, Descs, Visits, OthersSame
<1> QED
  BY <1>2 DEF Here, Descs, Visits

LEMMA OccupiedAfter ==
  ASSUME DirInv, TypeInv', NEW p \in Procs, OthersSame(p), is_dir' = is_dir,
         \A s \in Inodes : s \in {current_dir'[p], fds'[p], c'[p].dir} => Reached(s),
         \A s \in Sectors : removed'[s] => removed[s]
                              \/ \E q \in Procs : c[q].at = "erase" /\ c[q].sector = s,
         \A q \in Procs : c'[q].at = "erase" => c[q].at = "erase" /\ c'[q].sector = c[q].sector
  PROVE  RemovedInv' /\ EraseInv'
PROOF
<1>1. ASSUME NEW s \in Sectors, is_dir[s],
             removed[s] \/ \E q \in Procs : c[q].at = "erase" /\ c[q].sector = s
      PROVE  (Here(s) \cup Descs(s) \cup Visits(s))' = {}
  <2>1. s \in Inodes
    BY DEF Inodes
  <2> QED
    BY <1>1, <2>1, NotReached, WalkingReaches
<1>2. RemovedInv'
  BY <1>1 DEF RemovedInv
<1>3. ASSUME NEW q \in Procs, c'[q].at = "erase", is_dir'[c'[q].sector]
      PROVE  (Here(c[q].sector) \cup Descs(c[q].sector) \cup Visits(c[q].sector))' = {}
  <2>1. c[q].at = "erase" /\ c'[q].sector = c[q].sector
    BY <1>3
  <2>2. c[q].sector \in Sectors
    BY <2>1 DEF DirInv, PlaceInv, Place, Removing
  <2>3. is_dir[c[q].sector]
    BY <1>3, <2>1
  <2> QED
    BY <1>1, <2>1, <2>2, <2>3
<1>4. EraseInv'
  BY <1>3 DEF EraseInv, Erase, Here, Descs, Visits
<1> QED
  BY <1>2, <1>4

LEMMA WalkStep ==
  ASSUME DirInv, TypeInv', NEW p \in Procs, Walking(p), Place(p)', Counted'
  PROVE  DirInv'
PROOF
<1>1. /\ OthersSame(p) /\ free_map' = free_map /\ is_dir' = is_dir /\ parent' = parent
      /\ entries' = entries /\ removed' = removed /\ lock' = lock
  BY DEF Walking, treeVars
<1>2. Named' = Named
  BY <1>1, NamedSame
<1>3. \A q \in Procs : c'[q].at \in Creating \cup Removing <=> c[q].at \in Creating \cup Removing
  BY <1>1 DEF Walking, OthersSame
<1>4. \A q \in Procs : c[q].at \in Creating \cup Removing => q # p /\ c'[q] = c[q]
  BY <1>1 DEF Walking, OthersSame
<1>5. PlaceInv'
  <2> SUFFICES ASSUME NEW q \in Procs \ {p} PROVE Place(q)'
    BY DEF PlaceInv
  <2>1. c'[q] = c[q] /\ current_dir'[q] = current_dir[q] /\ fds'[q] = fds[q] /\ Place(q)
    BY <1>1 DEF OthersSame, DirInv, PlaceInv
  <2> QED
    BY <1>1, <2>1 DEF Place
<1>6. LockInv'
  <2> SUFFICES ASSUME NEW q \in Procs, NEW d \in Inodes
               PROVE  lock'[d] = q <=> c'[q].at \in Locking /\ c'[q].dir = d
    BY DEF LockInv
  <2>1. lock[d] = q <=> c[q].at \in Locking /\ c[q].dir = d
    BY DEF DirInv, LockInv
  <2>2. Locking \subseteq Creating \cup Removing
    BY DEF Locking, Creating
  <2>3. CASE q = p
    BY <1>1, <2>1, <2>2, <2>3 DEF Walking
  <2>4. CASE q # p
    BY <1>1, <2>1, <2>4 DEF OthersSame
  <2> QED
    BY <2>3, <2>4
<1>7. EntryInv'
  <2> SUFFICES ASSUME NEW q \in Procs, c'[q].at \in Creating \cup Removing
               PROVE  /\ c'[q].at \in {"empty", "opened", "erase"} =>
                           <<c'[q].name, c'[q].sector>> \in entries'[c'[q].dir]
                      /\ c'[q].at = "write" =>
                           /\ c'[q].name # ""
                           /\ \A s \in Sectors : <<c'[q].name, s>> \notin entries'[c'[q].dir]
    BY DEF EntryInv, Entry, Creating, Removing
  <2>1. c'[q] = c[q]
    BY <1>3, <1>4
  <2> QED
    BY <1>1, <2>1 DEF DirInv, EntryInv, Entry
<1>8. Created' = Created
  <2>1. \A q \in Procs : c'[q].at \in Creating <=> c[q].at \in Creating
    BY <1>3, <1>4
  <2>2. \A q \in Procs : c[q].at \in Creating => c'[q].sector = c[q].sector
    BY <1>4
  <2> QED
    BY <2>1, <2>2 DEF Created, Creating
<1>9. CreatedInv'
  <2> SUFFICES ASSUME NEW q \in Procs, c'[q].at \in Creating
               PROVE  /\ c'[q].sector \in free_map' \ Named' /\ ~removed'[c'[q].sector]
                      /\ entries'[c'[q].sector] = {} /\ open_cnt'[c'[q].sector] = 0
                      /\ \A r \in Procs : c'[r].at \in Creating /\ c'[r].sector = c'[q].sector
                                            => r = q
    BY DEF CreatedInv, New
  <2>1. c'[q] = c[q] /\ \A r \in Procs : c'[r].at \in Creating => c'[r] = c[r]
    BY <1>3, <1>4
  <2> DEFINE s == c[q].sector
  <2>2. /\ s \in free_map \ Named /\ ~removed[s] /\ entries[s] = {} /\ open_cnt[s] = 0
        /\ \A r \in Procs : c[r].at \in Creating /\ c[r].sector = s => r = q
    BY <2>1 DEF DirInv, CreatedInv, New
  <2>3. s \in Inodes /\ s # Root
    BY <2>1, DirAssumption DEF DirInv, PlaceInv, Place, Inodes
  <2>4. open_cnt'[s] = 0
    BY <2>2, <2>3 DEF Walking
  <2> QED
    BY <1>1, <1>2, <2>1, <2>2, <2>4
<1>10. RemovedInv' /\ EraseInv'
  <2>1. \A q \in Procs : c'[q].at = "erase" => c[q].at = "erase" /\ c'[q].sector = c[q].sector
    BY <1>3, <1>4 DEF Removing
  <2>2. \A s \in Inodes : s \in {current_dir'[p], fds'[p], c'[p].dir} => Reached(s)
    BY DEF Walking
  <2>3. \A s \in Sectors : removed'[s] => removed[s]
                             \/ \E q \in Procs : c[q].at = "erase" /\ c[q].sector = s
    BY <1>1
  <2> QED
    BY <1>1, <2>1, <2>2, <2>3, OccupiedAfter
<1>11. OpenInv'
  BY <1>1, <1>2, DirAssumption DEF DirInv, OpenInv, Walking, Inodes
<1>12. NameInv' /\ ParentInv'
  BY <1>1 DEF DirInv, NameInv, ParentInv
<1>13. MapInv'
  BY <1>1, <1>2, <1>8 DEF DirInv, MapInv
<1> QED
  BY <1>5, <1>6, <1>7, <1>9, <1>10, <1>11, <1>12, <1>13 DEF DirInv

-----------------------------------------------------------------------------
(* What the assignments to c, open_cnt and leaked do. *)

Only(p) == \A q \in Procs \ {p} : c'[q] = c[q]

LEMMA GotoEffect ==
  ASSUME DirInv, NEW p \in Procs, NEW place \in Places, c' = [c EXCEPT ![p].at = place]
  PROVE  /\ c' \in [Procs -> CallRecords] /\ Only(p)
         /\ c'[p].at = place /\ c'[p].op = c[p].op /\ c'[p].dir = c[p].dir
         /\ c'[p].path = c[p].path /\ c'[p].name = c[p].name /\ c'[p].sector = c[p].sector
PROOF
<1>1. c \in [Procs -> CallRecords]
  BY DEF DirInv, TypeInv
<1>2. c'[p] = [c[p] EXCEPT !.at = place] /\ c[p] \in CallRecords
  BY <1>1
<1>3. \A u \in CallRecords : [u EXCEPT !.at = place] \in CallRecords
  BY DEF CallRecords
<1>4. c' \in [Procs -> CallRecords] /\ Only(p)
  BY <1>1, <1>3 DEF Only
<1> QED
  BY <1>2, <1>4 DEF CallRecords

LEMMA RestEffect ==
  ASSUME DirInv, NEW p \in Procs, Walks(p), c' = [c EXCEPT ![p].path = Rest(p)]
  PROVE  /\ c' \in [Procs -> CallRecords] /\ Only(p)
         /\ c'[p].at = c[p].at /\ c'[p].op = c[p].op /\ c'[p].dir = c[p].dir
         /\ c'[p].name = c[p].name /\ c'[p].sector = c[p].sector
PROOF
<1>1. c \in [Procs -> CallRecords]
  BY DEF DirInv, TypeInv
<1>2. c[p] \in CallRecords /\ c[p].path \in Seq(Comps) /\ Len(c[p].path) > 1
  BY <1>1 DEF CallRecords, Walks
<1>3. Rest(p) \in Seq(Comps)
  BY <1>2 DEF Rest
<1>4. \A u \in CallRecords, r \in Seq(Comps) : [u EXCEPT !.path = r] \in CallRecords
  BY DEF CallRecords
<1> HIDE DEF Rest
<1>5. c'[p] = [c[p] EXCEPT !.path = Rest(p)]
  BY <1>1
<1>6. c' \in [Procs -> CallRecords] /\ Only(p)
  BY <1>1, <1>3, <1>4 DEF Only
<1> QED
  BY <1>2, <1>5, <1>6 DEF CallRecords

LEMMA ReturnEffect ==
  ASSUME DirInv, NEW p \in Procs, Return(p)
  PROVE  /\ c' \in [Procs -> CallRecords] /\ Only(p)
         /\ c'[p].at = "idle" /\ c'[p].op = "none" /\ c'[p].dir = NULL /\ c'[p].sector = NULL
PROOF
<1>1. c \in [Procs -> CallRecords]
  BY DEF DirInv, TypeInv
<1>2. Idle \in CallRecords
  BY DEF Idle, CallRecords, Places, Ops
<1>3. c' = [c EXCEPT ![p] = Idle]
  BY DEF Return
<1>4. c'[p] = Idle /\ c' \in [Procs -> CallRecords] /\ Only(p)
  BY <1>1, <1>2, <1>3 DEF Only
<1>5. Idle.at = "idle" /\ Idle.op = "none" /\ Idle.dir = NULL /\ Idle.sector = NULL
  BY DEF Idle
<1> QED
  BY <1>4, <1>5

(* 1 for the inode itself. *)
Is(x, s) == IF x = s THEN 1 ELSE 0

LEMMA IsNumber == \A x, s : Is(x, s) \in {0, 1} /\ Is(x, s) \in Int
PROOF
  BY DEF Is

LEMMA IsNull == \A s \in Inodes : Is(NULL, s) = 0
PROOF
<1>1. NULL \notin Inodes
  BY DirAssumption DEF Inodes
<1> QED
  BY <1>1 DEF Is

(* The references of a process that does not remove. *)
Three(p, s) == Is(current_dir[p], s) + Is(fds[p], s) + Is(c[p].dir, s)

LEMMA WalkingCount ==
  ASSUME DirInv, TypeInv', NEW p \in Procs, OthersSame(p),
         c[p].at \notin Removing, c'[p].at \notin Removing,
         \A s \in Inodes : open_cnt'[s] + leaked[s] + Three(p, s)
                             = open_cnt[s] + leaked'[s] + Three(p, s)'
  PROVE  Counted'
PROOF
<1> SUFFICES ASSUME NEW s \in Inodes
             PROVE  Mine(p, s) = Three(p, s) /\ Mine(p, s)' = Three(p, s)'
  BY CountMoved
<1>1. /\ In(p, Here(s)) = Is(current_dir[p], s) /\ In(p, Descs(s)) = Is(fds[p], s)
      /\ In(p, Visits(s)) = Is(c[p].dir, s) /\ In(p, Removes(s)) = 0
  BY DEF In, Is, Here, Descs, Visits, Removes, Removing
<1>2. /\ In(p, Here(s))' = Is(current_dir[p], s)' /\ In(p, Descs(s))' = Is(fds[p], s)'
      /\ In(p, Visits(s))' = Is(c[p].dir, s)' /\ In(p, Removes(s))' = 0
  BY DEF In, Is, Here, Descs, Visits, Removes, Removing
<1>3. Is(current_dir[p], s) \in Int /\ Is(fds[p], s) \in Int /\ Is(c[p].dir, s) \in Int
  BY DEF Is
<1>4. Is(current_dir[p], s)' \in Int /\ Is(fds[p], s)' \in Int /\ Is(c[p].dir, s)' \in Int
  BY DEF Is
<1> QED
  BY <1>1, <1>2, <1>3, <1>4 DEF Mine, Three

-----------------------------------------------------------------------------
(* The steps of a call that leave the tree alone. *)

(* A process that walks is in a directory of the tree. *)
LEMMA WalkerInTree ==
  ASSUME DirInv, NEW p \in Procs, c[p].at \notin {"idle", "gone"}
  PROVE  /\ c[p].dir \in Inodes /\ c[p].dir \in Named \cup {Root} /\ Reached(c[p].dir)
         /\ is_dir[c[p].dir] /\ open_cnt[c[p].dir] > 0 /\ ~removed[c[p].dir]
         /\ current_dir[p] \in Inodes /\ Place(p)
PROOF
<1>1. c[p].dir # NULL /\ c[p].dir \in Inodes \cup {NULL} /\ Place(p)
  BY DEF DirInv, PlaceInv, Place, TypeInv, CallRecords
<1>2. current_dir[p] # NULL /\ current_dir[p] \in Inodes \cup {NULL}
  BY <1>1 DEF DirInv, TypeInv, Place
<1>3. p \in Visits(c[p].dir)
  BY DEF Visits
<1>4. Reached(c[p].dir)
  BY <1>3 DEF Reached
<1> QED
  BY <1>1, <1>2, <1>4, InTree

(* What a process refers to already is reached. *)
LEMMA HeldReached ==
  ASSUME NEW p \in Procs, NEW s, s \in {current_dir[p], fds[p], c[p].dir}
  PROVE  Reached(s)
PROOF
<1>1. p \in Here(s) \cup Descs(s) \cup Visits(s)
  BY DEF Here, Descs, Visits
<1> QED
  BY <1>1 DEF Reached

(***************************************************************************)
(* What such a step does: it opens inode up, closes inode down and leaves  *)
(* inode lost to nobody; each may be NULL.                                 *)
(***************************************************************************)
CountsMove(up, down, lost) ==
  /\ open_cnt' \in [Inodes -> Int] /\ leaked' \in [Inodes -> Nat]
  /\ \A s \in Inodes : open_cnt'[s] = open_cnt[s] + Is(up, s) - Is(down, s)
  /\ \A s \in Inodes : leaked'[s] = leaked[s] + Is(lost, s)

Walked(p, up, down, lost) ==
  /\ UNCHANGED <<treeVars, lock>> /\ dangling' \in BOOLEAN /\ orphaned' \in BOOLEAN
  /\ c' \in [Procs -> CallRecords] /\ Only(p)
  /\ current_dir' \in [Procs -> Inodes \cup {NULL}] /\ fds' \in [Procs -> Inodes \cup {NULL}]
  /\ \A q \in Procs \ {p} : current_dir'[q] = current_dir[q] /\ fds'[q] = fds[q]
  /\ c[p].at \notin Creating \cup Removing /\ c'[p].at \notin Creating \cup Removing
  /\ up \in Named \cup {Root, NULL}
  /\ down \in {current_dir[p], fds[p], c[p].dir, NULL}
  /\ CountsMove(up, down, lost)
  /\ \A s \in Inodes : s \in {current_dir'[p], fds'[p], c'[p].dir} => Reached(s)

LEMMA CountsKept ==
  ASSUME DirInv, open_cnt' = open_cnt, leaked' = leaked
  PROVE  CountsMove(NULL, NULL, NULL)
PROOF
<1>1. open_cnt \in [Inodes -> Int] /\ leaked \in [Inodes -> Nat]
  BY DEF DirInv, TypeInv
<1> QED
  BY <1>1, IsNull DEF CountsMove

LEMMA CountsOpened ==
  ASSUME DirInv, NEW s \in Inodes, open_cnt' = Opened(s), leaked' = leaked
  PROVE  CountsMove(s, NULL, NULL)
PROOF
<1>1. open_cnt \in [Inodes -> Int] /\ leaked \in [Inodes -> Nat]
  BY DEF DirInv, TypeInv
<1>2. open_cnt' \in [Inodes -> Int] /\ \A t \in Inodes : open_cnt'[t] = open_cnt[t] + Is(s, t)
  BY <1>1 DEF Opened, Is
<1> QED
  BY <1>1, <1>2, IsNull, IsNumber DEF CountsMove

LEMMA CountsLeaked ==
  ASSUME DirInv, NEW s \in Inodes, open_cnt' = open_cnt, leaked' = [leaked EXCEPT ![s] = @ + 1]
  PROVE  CountsMove(NULL, NULL, s)
PROOF
<1>1. open_cnt \in [Inodes -> Int] /\ leaked \in [Inodes -> Nat]
  BY DEF DirInv, TypeInv
<1>2. leaked' \in [Inodes -> Nat] /\ \A t \in Inodes : leaked'[t] = leaked[t] + Is(s, t)
  BY <1>1 DEF Is
<1> QED
  BY <1>1, <1>2, IsNull DEF CountsMove

LEMMA CountsOpenedLeaked ==
  ASSUME DirInv, NEW s \in Inodes, NEW l \in Inodes,
         open_cnt' = Opened(s), leaked' = [leaked EXCEPT ![l] = @ + 1]
  PROVE  CountsMove(s, NULL, l)
PROOF
<1>1. open_cnt \in [Inodes -> Int] /\ leaked \in [Inodes -> Nat]
  BY DEF DirInv, TypeInv
<1>2. leaked' \in [Inodes -> Nat] /\ \A t \in Inodes : leaked'[t] = leaked[t] + Is(l, t)
  BY <1>1 DEF Is
<1>3. open_cnt' \in [Inodes -> Int] /\ \A t \in Inodes : open_cnt'[t] = open_cnt[t] + Is(s, t)
  BY <1>1 DEF Opened, Is
<1> QED
  BY <1>1, <1>2, <1>3, IsNull, IsNumber DEF CountsMove

LEMMA CountsMoved ==
  ASSUME DirInv, NEW d \in Inodes, NEW s \in Inodes, open_cnt' = Moved(d, s), leaked' = leaked
  PROVE  CountsMove(s, d, NULL)
PROOF
<1>1. open_cnt \in [Inodes -> Int] /\ leaked \in [Inodes -> Nat]
  BY DEF DirInv, TypeInv
<1>2. open_cnt' \in [Inodes -> Int]
      /\ \A t \in Inodes : open_cnt'[t] = open_cnt[t] + Is(s, t) - Is(d, t)
  BY <1>1 DEF Moved, Is
<1> QED
  BY <1>1, <1>2, IsNull DEF CountsMove

LEMMA CountsClosed ==
  ASSUME DirInv, NEW s \in Inodes, open_cnt' = [open_cnt EXCEPT ![s] = @ - 1], leaked' = leaked
  PROVE  CountsMove(NULL, s, NULL)
PROOF
<1>1. open_cnt \in [Inodes -> Int] /\ leaked \in [Inodes -> Nat]
  BY DEF DirInv, TypeInv
<1>2. open_cnt' \in [Inodes -> Int] /\ \A t \in Inodes : open_cnt'[t] = open_cnt[t] - Is(s, t)
  BY <1>1 DEF Is
<1> QED
  BY <1>1, <1>2, IsNull, IsNumber DEF CountsMove

LEMMA Balance ==
  ASSUME NEW o \in Int, NEW k \in Int, NEW t \in Int, NEW o1 \in Int, NEW k1 \in Int, NEW t1 \in Int,
         NEW u \in Int, NEW d \in Int, NEW l \in Int,
         o1 = o + u - d, k1 = k + l, t + u = t1 + d + l
  PROVE  o1 + k + t = o + k1 + t1
PROOF
  OBVIOUS

LEMMA WalkAction ==
  ASSUME DirInv, NEW p \in Procs, NEW up, NEW down, NEW lost, Walked(p, up, down, lost),
         Place(p)',
         \A s \in Inodes : Three(p, s) + Is(up, s) = Three(p, s)' + Is(down, s) + Is(lost, s)
  PROVE  DirInv'
PROOF
<1>1. TypeInv'
  BY DEF DirInv, TypeInv, Walked, CountsMove, treeVars
<1>2. OthersSame(p)
  BY DEF Walked, OthersSame, Only
<1>3. Walking(p)
  <2>1. ASSUME NEW s \in Inodes, open_cnt'[s] # 0
        PROVE  open_cnt[s] # 0 \/ s \in Named \cup {Root}
    <3>1. CASE s = up
      BY <3>1, DirAssumption DEF Walked, Inodes
    <3>2. CASE s # up /\ s = down
      <4>1. p \in Here(s) \cup Descs(s) \cup Visits(s)
        BY <3>2, DirAssumption DEF Walked, Here, Descs, Visits, Inodes
      <4>2. open_cnt[s] > 0 /\ open_cnt[s] \in Nat
        BY <4>1, ReferenceCounts
      <4> QED
        BY <4>2
    <3>3. CASE s # up /\ s # down
      <4>1. Is(up, s) = 0 /\ Is(down, s) = 0 /\ open_cnt[s] \in Int
        BY <3>3 DEF Is, DirInv, TypeInv
      <4>2. open_cnt'[s] = open_cnt[s]
        BY <4>1 DEF Walked, CountsMove
      <4> QED
        BY <2>1, <4>2
    <3> QED
      BY <3>1, <3>2, <3>3
  <2> QED
    BY <1>2, <2>1 DEF Walking, Walked
<1>4. Counted'
  <2>1. ASSUME NEW s \in Inodes
        PROVE  open_cnt'[s] + leaked[s] + Three(p, s) = open_cnt[s] + leaked'[s] + Three(p, s)'
    <3>1. /\ open_cnt[s] \in Int /\ leaked[s] \in Int
          /\ open_cnt'[s] \in Int /\ leaked'[s] \in Int
      BY <1>1 DEF DirInv, TypeInv
    <3>2. Three(p, s) \in Int /\ Three(p, s)' \in Int
      BY DEF Is, Three
    <3>3. open_cnt'[s] = open_cnt[s] + Is(up, s) - Is(down, s) /\ leaked'[s] = leaked[s] + Is(lost, s)
      BY DEF Walked, CountsMove
    <3>4. Is(up, s) \in Int /\ Is(down, s) \in Int /\ Is(lost, s) \in Int
      BY IsNumber
    <3>5. Three(p, s) + Is(up, s) = Three(p, s)' + Is(down, s) + Is(lost, s)
      OBVIOUS
    <3> HIDE DEF Three, Is
    <3> QED
      BY <3>1, <3>2, <3>3, <3>4, <3>5, Balance
  <2>2. c[p].at \notin Removing /\ c'[p].at \notin Removing
    BY DEF Walked
  <2> QED
    BY <1>1, <1>2, <2>1, <2>2, WalkingCount
<1> QED
  BY <1>1, <1>3, <1>4, WalkStep

LEMMA CallStep ==
  ASSUME DirInv, NEW p \in Procs, NEW op \in Ops \ {"none"}, NEW absolute \in BOOLEAN,
         NEW path \in Paths, Call(p, op, absolute, path)
  PROVE  DirInv'
PROOF
<1> DEFINE base == IF absolute THEN Root ELSE current_dir[p]
           call == [at |-> "walk", op |-> op, dir |-> base, path |-> path,
                    name |-> parse_file(path), sector |-> NULL]
<1>1. /\ c[p].at = "idle" /\ (op = "open" => fds[p] = NULL)
      /\ open_cnt' = Opened(base) /\ c' = [c EXCEPT ![p] = call]
      /\ UNCHANGED <<treeVars, lock, current_dir, fds, leaked, scope>>
  BY DEF Call, At
<1>2. current_dir[p] \in Inodes /\ Place(p) /\ c[p].dir = NULL
  BY <1>1 DEF DirInv, PlaceInv, Place, TypeInv
<1>3. base \in Inodes /\ is_dir[base] /\ base \in Named \cup {Root} /\ Reached(base)
  <2>1. CASE absolute
    BY <2>1 DEF Inodes, DirInv, MapInv, Reached
  <2>2. CASE ~absolute
    BY <1>2, <2>2, InTree, HeldReached
  <2> QED
    BY <2>1, <2>2
<1>4. path \in Seq(Comps) /\ parse_file(path) \in Comps \cup {""}
  <2>1. path \in Seq(Comps)
    BY DirAssumption DEF Comps
  <2>2. CASE path = <<>>
    BY <2>1, <2>2 DEF parse_file
  <2>3. CASE path # <<>>
    <3>1. Len(path) \in 1 .. Len(path)
      BY <2>1, <2>3
    <3>2. path[Len(path)] \in Comps
      BY <2>1, <3>1
    <3> QED
      BY <2>1, <2>3, <3>2 DEF parse_file
  <2> QED
    BY <2>2, <2>3
<1> HIDE DEF base
<1>5. call \in CallRecords
  BY <1>3, <1>4 DEF CallRecords, Places
<1>6. call.at = "walk" /\ call.op = op /\ call.dir = base
  OBVIOUS
<1> HIDE DEF call
<1>7. c' \in [Procs -> CallRecords] /\ c'[p] = call /\ Only(p)
  BY <1>1, <1>5 DEF DirInv, TypeInv, Only
<1>8. CountsMove(base, NULL, NULL)
  BY <1>1, <1>3, CountsOpened
<1>9. Place(p)'
  BY <1>1, <1>2, <1>3, <1>6, <1>7, DirAssumption
     DEF Place, treeVars, Creating, Removing, Inodes
<1>10. Walked(p, base, NULL, NULL)
  <2>1. c[p].at \notin Creating \cup Removing /\ c'[p].at \notin Creating \cup Removing
    BY <1>1, <1>6, <1>7 DEF Creating, Removing
  <2>2. \A s \in Inodes : s \in {current_dir'[p], fds'[p], c'[p].dir} => Reached(s)
    BY <1>1, <1>3, <1>6, <1>7, HeldReached
  <2> QED
    BY <1>1, <1>3, <1>7, <1>8, <2>1, <2>2 DEF Walked, scope, DirInv, TypeInv
<1>11. \A s \in Inodes : Three(p, s) + Is(base, s) = Three(p, s)' + Is(NULL, s) + Is(NULL, s)
  <2> SUFFICES ASSUME NEW s \in Inodes
               PROVE  Three(p, s) + Is(base, s) = Three(p, s)' + Is(NULL, s) + Is(NULL, s)
    OBVIOUS
  <2>1. /\ Is(c[p].dir, s) = 0 /\ Is(c'[p].dir, s) = Is(base, s) /\ Is(NULL, s) = 0
        /\ Is(current_dir'[p], s) = Is(current_dir[p], s) /\ Is(fds'[p], s) = Is(fds[p], s)
    BY <1>1, <1>2, <1>6, <1>7, IsNull
  <2>2. Is(current_dir[p], s) \in Int /\ Is(fds[p], s) \in Int /\ Is(base, s) \in Int
    BY IsNumber
  <2> QED
    BY <2>1, <2>2 DEF Three
<1> QED
  BY <1>9, <1>10, <1>11, WalkAction

(* A step that only moves p on within its call. *)
LEMMA QuietStep ==
  ASSUME DirInv, NEW p \in Procs,
         UNCHANGED <<treeVars, open_cnt, lock, current_dir, fds, leaked, scope>>,
         c' \in [Procs -> CallRecords], Only(p), c'[p].dir = c[p].dir,
         c[p].at \notin Creating \cup Removing \cup {"idle", "gone"},
         c'[p].at \in {"walk", "done"}, c'[p].at = "walk" => c[p].at = "walk" /\ c'[p].op = c[p].op
  PROVE  DirInv'
PROOF
<1>1. Place(p) /\ c[p].dir # NULL /\ c[p].at # "gone" /\ current_dir[p] # NULL
  BY DEF DirInv, PlaceInv, Place
<1>2. Place(p)'
  BY <1>1 DEF Place, Creating, Removing, treeVars
<1>3. CountsMove(NULL, NULL, NULL)
  BY CountsKept
<1>4. \A s \in Inodes : s \in {current_dir'[p], fds'[p], c'[p].dir} => Reached(s)
  BY HeldReached
<1>5. Walked(p, NULL, NULL, NULL)
  BY <1>3, <1>4 DEF Walked, DirInv, TypeInv, scope, Creating, Removing
<1>6. \A s \in Inodes : Three(p, s) + Is(NULL, s) = Three(p, s)' + Is(NULL, s) + Is(NULL, s)
  BY IsNull, IsNumber DEF Three
<1> QED
  BY <1>2, <1>5, <1>6, WalkAction

LEMMA WalkDotStep ==
  ASSUME DirInv, NEW p \in Procs, WalkDot(p)
  PROVE  DirInv'
PROOF
<1>1. /\ c[p].at = "walk" /\ Walks(p) /\ c' = [c EXCEPT ![p].path = Rest(p)]
      /\ UNCHANGED <<treeVars, open_cnt, lock, current_dir, fds, leaked, scope>>
  BY DEF WalkDot, Walks, At
<1> QED
  BY <1>1, RestEffect, QuietStep DEF Creating, Removing

(* Opening the parent of the directory one is in, for nobody. *)
LEMMA ParentStep ==
  ASSUME DirInv, NEW p \in Procs, OpenParent(c[p].dir),
         UNCHANGED <<treeVars, lock, current_dir, fds>>,
         dangling' \in BOOLEAN, orphaned' \in BOOLEAN,
         c' \in [Procs -> CallRecords], Only(p), c'[p].dir = c[p].dir,
         c[p].at \notin Creating \cup Removing \cup {"idle", "gone"},
         c'[p].at \in {"walk", "done"}, c'[p].at = "walk" => c[p].at = "walk" /\ c'[p].op = c[p].op
  PROVE  DirInv'
PROOF
<1>1. Place(p) /\ c[p].dir # NULL /\ c[p].at # "gone" /\ current_dir[p] # NULL
  BY DEF DirInv, PlaceInv, Place
<1>2. Place(p)'
  BY <1>1 DEF Place, Creating, Removing, treeVars
<1>3. \A s \in Inodes : s \in {current_dir'[p], fds'[p], c'[p].dir} => Reached(s)
  BY HeldReached
<1>4. ASSUME NEW up \in Named \cup {Root, NULL}, CountsMove(up, NULL, up)
      PROVE  DirInv'
  <2>1. Walked(p, up, NULL, up)
    BY <1>3, <1>4 DEF Walked, DirInv, TypeInv, Creating, Removing
  <2>2. \A s \in Inodes : Three(p, s) + Is(up, s) = Three(p, s)' + Is(NULL, s) + Is(up, s)
    BY IsNull, IsNumber DEF Three
  <2> QED
    BY <1>2, <2>1, <2>2, WalkAction
<1> DEFINE up == parent[c[p].dir]
<1>5. \/ up = NULL /\ UNCHANGED <<open_cnt, leaked>>
      \/ up # NULL /\ open_cnt' = Opened(up) /\ leaked' = [leaked EXCEPT ![up] = @ + 1]
  BY DEF OpenParent
<1>6. CASE UNCHANGED <<open_cnt, leaked>>
  BY <1>4, <1>6, CountsKept
<1>7. CASE up # NULL /\ open_cnt' = Opened(up) /\ leaked' = [leaked EXCEPT ![up] = @ + 1]
  <2>1. up \in Named \cup {Root} /\ up \in Inodes
    BY <1>7, WalkerInTree, ParentInTree
  <2> HIDE DEF up
  <2>2. CountsMove(up, NULL, up)
    BY <1>7, <2>1, CountsOpenedLeaked
  <2> QED
    BY <1>4, <2>1, <2>2
<1> QED
  BY <1>5, <1>6, <1>7

LEMMA WalkParentStep ==
  ASSUME DirInv, NEW p \in Procs, WalkParent(p)
  PROVE  DirInv'
PROOF
<1>1. /\ c[p].at = "walk" /\ Walks(p) /\ c' = [c EXCEPT ![p].path = Rest(p)]
      /\ UNCHANGED <<treeVars, lock, current_dir, fds, scope>>
  BY DEF WalkParent, Walks, At
<1>2. OpenParent(c[p].dir)
  BY DEF WalkParent, OpenParent
<1>3. dangling' \in BOOLEAN /\ orphaned' \in BOOLEAN
  BY <1>1 DEF scope, DirInv, TypeInv
<1> QED
  BY <1>1, <1>2, <1>3, RestEffect, ParentStep DEF Creating, Removing

LEMMA CreateFailsStep ==
  ASSUME DirInv, NEW p \in Procs, CreateFails(p)
  PROVE  DirInv'
PROOF
<1>1. /\ c[p].at = "walk" /\ c' = [c EXCEPT ![p].at = "done"]
      /\ UNCHANGED <<treeVars, open_cnt, lock, current_dir, fds, leaked, scope>>
  BY DEF CreateFails, Arrived, At, Goto
<1> QED
  BY <1>1, GotoEffect, QuietStep DEF Creating, Removing, Places

LEMMA OpenDotDotStep ==
  ASSUME DirInv, NEW p \in Procs, OpenDotDot(p)
  PROVE  DirInv'
PROOF
<1>1. /\ c[p].at = "walk" /\ c' = [c EXCEPT ![p].at = "done"] /\ OpenParent(c[p].dir)
      /\ UNCHANGED <<treeVars, lock, current_dir, fds, scope>>
  BY DEF OpenDotDot, Arrived, At, Goto
<1>2. dangling' \in BOOLEAN /\ orphaned' \in BOOLEAN
  BY <1>1 DEF scope, DirInv, TypeInv
<1> QED
  BY <1>1, <1>2, GotoEffect, ParentStep DEF Creating, Removing, Places

LEMMA ChdirDotDotStep ==
  ASSUME DirInv, NEW p \in Procs, ChdirDotDot(p), ~dangling'
  PROVE  DirInv'
PROOF
<1>1. /\ c[p].at = "walk" /\ c' = [c EXCEPT ![p].at = "done"] /\ OpenParent(c[p].dir)
      /\ current_dir' = [current_dir EXCEPT ![p] = c[p].dir] /\ c[p].dir = current_dir[p]
      /\ UNCHANGED <<treeVars, lock, fds, orphaned>>
  BY DEF ChdirDotDot, Arrived, At, Goto
<1>2. current_dir' = current_dir
  BY <1>1 DEF DirInv, TypeInv
<1>3. dangling' \in BOOLEAN /\ orphaned' \in BOOLEAN
  BY <1>1 DEF ChdirDotDot, DirInv, TypeInv
<1> QED
  BY <1>1, <1>2, <1>3, GotoEffect, ParentStep DEF Creating, Removing, Places

(* What dir_lookup() has found. *)
LEMMA FoundInTree ==
  ASSUME DirInv, NEW d \in Inodes, lock[d] = NULL, NEW n, NEW s \in lookup(d, n)
  PROVE  s \in Sectors /\ s \in Inodes /\ s \in Named /\ Reached(s)
PROOF
<1>1. s \in Sectors /\ n \in Comps /\ <<n, s>> \in entries[d]
  BY Lookup
<1>2. s \in Named
  BY <1>1, NamedIntro
<1> QED
  BY <1>1, <1>2 DEF Reached, Found, Inodes

LEMMA WalkNameStep ==
  ASSUME DirInv, NEW p \in Procs, WalkName(p)
  PROVE  DirInv'
PROOF
<1> DEFINE d == c[p].dir
           n == Head(c[p].path)
<1>1. /\ c[p].at = "walk" /\ Walks(p) /\ lock[d] = NULL
      /\ UNCHANGED <<treeVars, lock, current_dir, fds, scope>>
  BY DEF WalkName, Walks, At
<1>2. /\ d \in Inodes /\ d \in Named \cup {Root} /\ Place(p)
      /\ d # NULL /\ current_dir[p] \in Inodes
  BY <1>1, WalkerInTree, DirAssumption DEF Inodes
<1>3. dangling' \in BOOLEAN /\ orphaned' \in BOOLEAN
  BY <1>1 DEF scope, DirInv, TypeInv
<1>4. \/ \E s \in lookup(d, n) : ~is_dir[s] /\ c' = [c EXCEPT ![p].path = Rest(p)]
                                  /\ UNCHANGED <<open_cnt, leaked>>
      \/ \E s \in lookup(d, n) : is_dir[s] /\ open_cnt' = Moved(d, s) /\ UNCHANGED leaked
                                  /\ c' = [c EXCEPT ![p].path = Rest(p), ![p].dir = s]
      \/ /\ leaked' = [leaked EXCEPT ![d] = @ + 1] /\ Return(p) /\ UNCHANGED open_cnt
  BY DEF WalkName
<1>5. CASE c' = [c EXCEPT ![p].path = Rest(p)] /\ UNCHANGED <<open_cnt, leaked>>
  BY <1>1, <1>5, RestEffect, QuietStep DEF Creating, Removing
<1>6. CASE \E s \in lookup(d, n) : is_dir[s] /\ open_cnt' = Moved(d, s) /\ UNCHANGED leaked
                                    /\ c' = [c EXCEPT ![p].path = Rest(p), ![p].dir = s]
  <2>1. PICK s \in lookup(d, n) : /\ is_dir[s] /\ open_cnt' = Moved(d, s) /\ UNCHANGED leaked
                                  /\ c' = [c EXCEPT ![p].path = Rest(p), ![p].dir = s]
    BY <1>6
  <2>2. s \in Inodes /\ s \in Named /\ Reached(s)
    BY <1>1, <1>2, FoundInTree
  <2>3. /\ c' \in [Procs -> CallRecords] /\ Only(p)
        /\ c'[p].at = "walk" /\ c'[p].op = c[p].op /\ c'[p].dir = s
    <3>1. c \in [Procs -> CallRecords] /\ c[p] \in CallRecords
      BY DEF DirInv, TypeInv
    <3>2. Rest(p) \in Seq(Comps)
      <4>1. c[p].path \in Seq(Comps) /\ Len(c[p].path) > 1
        BY <1>1, <3>1 DEF CallRecords, Walks
      <4> QED
        BY <4>1 DEF Rest
    <3> HIDE DEF Rest
    <3>4. c'[p] = [c[p] EXCEPT !.path = Rest(p), !.dir = s]
      BY <2>1, <3>1
    <3>5. c'[p] \in CallRecords /\ c'[p].at = c[p].at /\ c'[p].op = c[p].op /\ c'[p].dir = s
      <4> DEFINE u == c[p]
                 v == c'[p]
                 r == Rest(p)
      <4>1. u \in CallRecords /\ r \in Seq(Comps) /\ v = [u EXCEPT !.path = r, !.dir = s]
        BY <3>1, <3>2, <3>4
      <4> HIDE DEF u, v, r
      <4>2. v \in CallRecords /\ v.at = u.at /\ v.op = u.op /\ v.dir = s
        BY <2>2, <4>1 DEF CallRecords
      <4> QED
        BY <4>2 DEF u, v
    <3>6. Only(p) /\ c' \in [Procs -> CallRecords]
      BY <2>1, <3>1, <3>5 DEF Only
    <3> QED
      BY <1>1, <3>5, <3>6
  <2> HIDE DEF d
  <2>4. CountsMove(s, d, NULL)
    BY <1>2, <2>1, <2>2, CountsMoved
  <2>5. Place(p)'
    BY <1>1, <1>2, <2>1, <2>2, <2>3, DirAssumption DEF Place, Creating, Removing, treeVars, Inodes
  <2>6. \A t \in Inodes : t \in {current_dir'[p], fds'[p], c'[p].dir} => Reached(t)
    BY <1>1, <2>2, <2>3, HeldReached
  <2>7. Walked(p, s, d, NULL)
    BY <1>1, <1>3, <2>2, <2>3, <2>4, <2>6 DEF Walked, DirInv, TypeInv, Creating, Removing, d
  <2>8. \A t \in Inodes : Three(p, t) + Is(s, t) = Three(p, t)' + Is(d, t) + Is(NULL, t)
    <3> SUFFICES ASSUME NEW t \in Inodes
                 PROVE  Three(p, t) + Is(s, t) = Three(p, t)' + Is(d, t) + Is(NULL, t)
      OBVIOUS
    <3>1. /\ Is(c[p].dir, t) = Is(d, t) /\ Is(c'[p].dir, t) = Is(s, t) /\ Is(NULL, t) = 0
          /\ Is(current_dir'[p], t) = Is(current_dir[p], t) /\ Is(fds'[p], t) = Is(fds[p], t)
      BY <1>1, <2>3, IsNull DEF d
    <3>2. /\ Is(current_dir[p], t) \in Int /\ Is(fds[p], t) \in Int
          /\ Is(s, t) \in Int /\ Is(d, t) \in Int
      BY IsNumber
    <3> QED
      BY <3>1, <3>2 DEF Three
  <2> QED
    BY <2>5, <2>7, <2>8, WalkAction
<1>7. CASE leaked' = [leaked EXCEPT ![d] = @ + 1] /\ Return(p) /\ UNCHANGED open_cnt
  <2>1. /\ c' \in [Procs -> CallRecords] /\ Only(p)
        /\ c'[p].at = "idle" /\ c'[p].dir = NULL
    BY <1>7, ReturnEffect
  <2> HIDE DEF d
  <2>2. CountsMove(NULL, NULL, d)
    BY <1>2, <1>7, CountsLeaked
  <2>3. Place(p)'
    BY <1>1, <1>2, <2>1, DirAssumption DEF Place, Creating, Removing, treeVars, Inodes
  <2>4. \A t \in Inodes : t \in {current_dir'[p], fds'[p], c'[p].dir} => Reached(t)
    BY <1>1, <2>1, HeldReached, DirAssumption DEF Inodes
  <2>5. Walked(p, NULL, NULL, d)
    BY <1>1, <1>3, <2>1, <2>2, <2>4 DEF Walked, DirInv, TypeInv, Creating, Removing
  <2>6. \A t \in Inodes : Three(p, t) + Is(NULL, t) = Three(p, t)' + Is(NULL, t) + Is(d, t)
    <3> SUFFICES ASSUME NEW t \in Inodes
                 PROVE  Three(p, t) + Is(NULL, t) = Three(p, t)' + Is(NULL, t) + Is(d, t)
      OBVIOUS
    <3>1. /\ Is(c[p].dir, t) = Is(d, t) /\ Is(c'[p].dir, t) = 0 /\ Is(NULL, t) = 0
          /\ Is(current_dir'[p], t) = Is(current_dir[p], t) /\ Is(fds'[p], t) = Is(fds[p], t)
      BY <1>1, <2>1, IsNull DEF d
    <3>2. Is(current_dir[p], t) \in Int /\ Is(fds[p], t) \in Int /\ Is(d, t) \in Int
      BY IsNumber
    <3> QED
      BY <3>1, <3>2 DEF Three
  <2> QED
    BY <2>3, <2>5, <2>6, WalkAction
<1> QED
  BY <1>4, <1>5, <1>6, <1>7

LEMMA OpenItselfStep ==
  ASSUME DirInv, NEW p \in Procs, OpenItself(p)
  PROVE  DirInv'
PROOF
<1> DEFINE d == c[p].dir
<1>1. /\ c[p].at = "walk" /\ c[p].op = "open" /\ fds' = [fds EXCEPT ![p] = d] /\ Return(p)
      /\ UNCHANGED <<treeVars, open_cnt, lock, current_dir, leaked, scope>>
  BY DEF OpenItself, Arrived, At
<1>2. d \in Inodes /\ Place(p) /\ current_dir[p] \in Inodes /\ fds[p] = NULL
  BY <1>1, WalkerInTree DEF Place
<1>3. c' \in [Procs -> CallRecords] /\ Only(p) /\ c'[p].at = "idle" /\ c'[p].dir = NULL
  BY <1>1, ReturnEffect
<1> HIDE DEF d
<1>4. /\ fds' \in [Procs -> Inodes \cup {NULL}] /\ fds'[p] = d
      /\ \A q \in Procs \ {p} : fds'[q] = fds[q]
  BY <1>1, <1>2 DEF DirInv, TypeInv
<1>5. Place(p)'
  BY <1>1, <1>2, <1>3, DirAssumption DEF Place, Creating, Removing, treeVars, Inodes
<1>6. \A t \in Inodes : t \in {current_dir'[p], fds'[p], c'[p].dir} => Reached(t)
  BY <1>1, <1>3, <1>4, HeldReached, DirAssumption DEF Inodes, d
<1>7. Walked(p, NULL, NULL, NULL)
  BY <1>1, <1>3, <1>4, <1>6, CountsKept DEF Walked, DirInv, TypeInv, Creating, Removing, scope
<1>8. ASSUME NEW t \in Inodes
      PROVE  Three(p, t) + Is(NULL, t) = Three(p, t)' + Is(NULL, t) + Is(NULL, t)
  <2>1. /\ Is(c[p].dir, t) = Is(d, t) /\ Is(c'[p].dir, t) = 0 /\ Is(NULL, t) = 0
        /\ Is(current_dir'[p], t) = Is(current_dir[p], t)
        /\ Is(fds[p], t) = 0 /\ Is(fds'[p], t) = Is(d, t)
    BY <1>1, <1>2, <1>3, <1>4, IsNull DEF d
  <2>2. Is(current_dir[p], t) \in Int /\ Is(d, t) \in Int
    BY IsNumber
  <2> QED
    BY <2>1, <2>2 DEF Three
<1> QED
  BY <1>5, <1>7, <1>8, WalkAction

LEMMA OpenNameStep ==
  ASSUME DirInv, NEW p \in Procs, OpenName(p)
  PROVE  DirInv'
PROOF
<1> DEFINE d == c[p].dir
           n == c[p].name
<1>1. /\ c[p].at = "walk" /\ c[p].op = "open" /\ lock[d] = NULL
      /\ c' = [c EXCEPT ![p].at = "done"]
      /\ UNCHANGED <<treeVars, lock, current_dir, leaked, scope>>
  BY DEF OpenName, Arrived, At, Goto
<1>2. d \in Inodes /\ Place(p) /\ current_dir[p] \in Inodes /\ fds[p] = NULL
  BY <1>1, WalkerInTree DEF Place
<1>3. c' \in [Procs -> CallRecords] /\ Only(p) /\ c'[p].at = "done" /\ c'[p].dir = c[p].dir
  BY <1>1, GotoEffect DEF Places
<1>4. \/ \E s \in lookup(d, n) : open_cnt' = Opened(s) /\ fds' = [fds EXCEPT ![p] = s]
      \/ UNCHANGED <<open_cnt, fds>>
  BY DEF OpenName
<1>5. CASE UNCHANGED <<open_cnt, fds>>
  BY <1>1, <1>3, <1>5, QuietStep DEF Creating, Removing
<1>6. CASE \E s \in lookup(d, n) : open_cnt' = Opened(s) /\ fds' = [fds EXCEPT ![p] = s]
  <2>1. PICK s \in lookup(d, n) : open_cnt' = Opened(s) /\ fds' = [fds EXCEPT ![p] = s]
    BY <1>6
  <2>2. s \in Inodes /\ s \in Named /\ Reached(s)
    BY <1>1, <1>2, FoundInTree
  <2> HIDE DEF d, n
  <2>3. /\ fds' \in [Procs -> Inodes \cup {NULL}] /\ fds'[p] = s
        /\ \A q \in Procs \ {p} : fds'[q] = fds[q]
    BY <2>1, <2>2 DEF DirInv, TypeInv
  <2>4. CountsMove(s, NULL, NULL)
    BY <1>1, <2>1, <2>2, CountsOpened
  <2>5. Place(p)'
    BY <1>1, <1>2, <1>3, DirAssumption DEF Place, Creating, Removing, treeVars, Inodes
  <2>6. \A t \in Inodes : t \in {current_dir'[p], fds'[p], c'[p].dir} => Reached(t)
    BY <1>1, <1>3, <2>2, <2>3, HeldReached
  <2>7. Walked(p, s, NULL, NULL)
    BY <1>1, <1>3, <2>2, <2>3, <2>4, <2>6
       DEF Walked, DirInv, TypeInv, Creating, Removing, scope
  <2>8. ASSUME NEW t \in Inodes
        PROVE  Three(p, t) + Is(s, t) = Three(p, t)' + Is(NULL, t) + Is(NULL, t)
    <3>1. /\ Is(c'[p].dir, t) = Is(c[p].dir, t) /\ Is(NULL, t) = 0
          /\ Is(current_dir'[p], t) = Is(current_dir[p], t)
          /\ Is(fds[p], t) = 0 /\ Is(fds'[p], t) = Is(s, t)
      BY <1>1, <1>2, <1>3, <2>3, IsNull
    <3>2. Is(current_dir[p], t) \in Int /\ Is(s, t) \in Int /\ Is(c[p].dir, t) \in Int
      BY IsNumber
    <3> QED
      BY <3>1, <3>2 DEF Three
  <2> QED
    BY <2>5, <2>7, <2>8, WalkAction
<1> QED
  BY <1>4, <1>5, <1>6

LEMMA ChdirItselfStep ==
  ASSUME DirInv, NEW p \in Procs, ChdirItself(p)
  PROVE  DirInv'
PROOF
<1> DEFINE d == c[p].dir
           l == current_dir[p]
<1>1. /\ c[p].at = "walk" /\ current_dir' = [current_dir EXCEPT ![p] = d] /\ Return(p)
      /\ leaked' = [leaked EXCEPT ![l] = @ + 1]
      /\ UNCHANGED <<treeVars, open_cnt, lock, fds, scope>>
  BY DEF ChdirItself, Arrived, At, Leave
<1>2. d \in Inodes /\ Place(p) /\ l \in Inodes
  BY <1>1, WalkerInTree
<1>3. c' \in [Procs -> CallRecords] /\ Only(p) /\ c'[p].at = "idle" /\ c'[p].dir = NULL
  BY <1>1, ReturnEffect
<1>4. is_dir[d]
  BY <1>2 DEF Place
<1> HIDE DEF d, l
<1>5. /\ current_dir' \in [Procs -> Inodes \cup {NULL}] /\ current_dir'[p] = d
      /\ \A q \in Procs \ {p} : current_dir'[q] = current_dir[q]
  BY <1>1, <1>2 DEF DirInv, TypeInv
<1>6. Place(p)'
  BY <1>1, <1>2, <1>3, <1>4, <1>5, DirAssumption DEF Place, Creating, Removing, treeVars, Inodes
<1>7. \A t \in Inodes : t \in {current_dir'[p], fds'[p], c'[p].dir} => Reached(t)
  BY <1>1, <1>3, <1>5, HeldReached, DirAssumption DEF Inodes, d
<1>8. CountsMove(NULL, NULL, l)
  BY <1>1, <1>2, CountsLeaked
<1>9. Walked(p, NULL, NULL, l)
  BY <1>1, <1>3, <1>5, <1>7, <1>8 DEF Walked, DirInv, TypeInv, Creating, Removing, scope
<1>10. ASSUME NEW t \in Inodes
       PROVE  Three(p, t) + Is(NULL, t) = Three(p, t)' + Is(NULL, t) + Is(l, t)
  <2>1. /\ Is(c[p].dir, t) = Is(d, t) /\ Is(c'[p].dir, t) = 0 /\ Is(NULL, t) = 0
        /\ Is(current_dir'[p], t) = Is(d, t) /\ Is(current_dir[p], t) = Is(l, t)
        /\ Is(fds'[p], t) = Is(fds[p], t)
    BY <1>1, <1>2, <1>3, <1>5, IsNull DEF d, l
  <2>2. Is(fds[p], t) \in Int /\ Is(d, t) \in Int /\ Is(l, t) \in Int
    BY IsNumber
  <2> QED
    BY <2>1, <2>2 DEF Three
<1> QED
  BY <1>6, <1>9, <1>10, WalkAction

LEMMA ChdirNameStep ==
  ASSUME DirInv, NEW p \in Procs, ChdirName(p)
  PROVE  DirInv'
PROOF
<1> DEFINE d == c[p].dir
           n == c[p].name
           l == current_dir[p]
<1>1. /\ c[p].at = "walk" /\ lock[d] = NULL /\ c' = [c EXCEPT ![p].at = "done"]
      /\ UNCHANGED <<treeVars, lock, fds, scope>>
  BY DEF ChdirName, Arrived, At, Goto
<1>2. d \in Inodes /\ Place(p) /\ l \in Inodes
  BY <1>1, WalkerInTree
<1>3. c' \in [Procs -> CallRecords] /\ Only(p) /\ c'[p].at = "done" /\ c'[p].dir = c[p].dir
  BY <1>1, GotoEffect DEF Places
<1>4. \/ \E s \in lookup(d, n) :
           /\ is_dir[s] /\ open_cnt' = Opened(s) /\ current_dir' = [current_dir EXCEPT ![p] = s]
           /\ leaked' = [leaked EXCEPT ![l] = @ + 1]
      \/ \E s \in lookup(d, n) :
           /\ open_cnt' = Opened(s) /\ leaked' = [leaked EXCEPT ![s] = @ + 1]
           /\ UNCHANGED current_dir
      \/ UNCHANGED <<open_cnt, current_dir, leaked>>
  BY DEF ChdirName, Leave
<1>5. CASE UNCHANGED <<open_cnt, current_dir, leaked>>
  BY <1>1, <1>3, <1>5, QuietStep DEF Creating, Removing
<1>6. CASE \E s \in lookup(d, n) :
             /\ is_dir[s] /\ open_cnt' = Opened(s) /\ current_dir' = [current_dir EXCEPT ![p] = s]
             /\ leaked' = [leaked EXCEPT ![l] = @ + 1]
  <2>1. PICK s \in lookup(d, n) :
             /\ is_dir[s] /\ open_cnt' = Opened(s) /\ current_dir' = [current_dir EXCEPT ![p] = s]
             /\ leaked' = [leaked EXCEPT ![l] = @ + 1]
    BY <1>6
  <2>2. s \in Inodes /\ s \in Named /\ Reached(s)
    BY <1>1, <1>2, FoundInTree
  <2> HIDE DEF d, n, l
  <2>3. /\ current_dir' \in [Procs -> Inodes \cup {NULL}] /\ current_dir'[p] = s
        /\ \A q \in Procs \ {p} : current_dir'[q] = current_dir[q]
    BY <2>1, <2>2 DEF DirInv, TypeInv
  <2>4. CountsMove(s, NULL, l)
    BY <1>2, <2>1, <2>2, CountsOpenedLeaked
  <2>5. Place(p)'
    BY <1>1, <1>2, <1>3, <2>1, <2>2, <2>3, DirAssumption
       DEF Place, Creating, Removing, treeVars, Inodes
  <2>6. \A t \in Inodes : t \in {current_dir'[p], fds'[p], c'[p].dir} => Reached(t)
    BY <1>1, <1>3, <2>2, <2>3, HeldReached
  <2>7. Walked(p, s, NULL, l)
    BY <1>1, <1>3, <2>2, <2>3, <2>4, <2>6
       DEF Walked, DirInv, TypeInv, Creating, Removing, scope
  <2>8. ASSUME NEW t \in Inodes
        PROVE  Three(p, t) + Is(s, t) = Three(p, t)' + Is(NULL, t) + Is(l, t)
    <3>1. /\ Is(c'[p].dir, t) = Is(c[p].dir, t) /\ Is(NULL, t) = 0
          /\ Is(current_dir'[p], t) = Is(s, t) /\ Is(current_dir[p], t) = Is(l, t)
          /\ Is(fds'[p], t) = Is(fds[p], t)
      BY <1>1, <1>3, <2>3, IsNull DEF l
    <3>2. Is(fds[p], t) \in Int /\ Is(s, t) \in Int /\ Is(c[p].dir, t) \in Int /\ Is(l, t) \in Int
      BY IsNumber
    <3> QED
      BY <3>1, <3>2 DEF Three
  <2> QED
    BY <2>5, <2>7, <2>8, WalkAction
<1>7. CASE \E s \in lookup(d, n) :
             /\ open_cnt' = Opened(s) /\ leaked' = [leaked EXCEPT ![s] = @ + 1]
             /\ UNCHANGED current_dir
  <2>1. PICK s \in lookup(d, n) :
             /\ open_cnt' = Opened(s) /\ leaked' = [leaked EXCEPT ![s] = @ + 1]
             /\ UNCHANGED current_dir
    BY <1>7
  <2>2. s \in Inodes /\ s \in Named /\ Reached(s)
    BY <1>1, <1>2, FoundInTree
  <2> HIDE DEF d, n, l
  <2>3. CountsMove(s, NULL, s)
    BY <2>1, <2>2, CountsOpenedLeaked
  <2>4. Place(p)'
    BY <1>1, <1>2, <1>3, <2>1, DirAssumption DEF Place, Creating, Removing, treeVars, Inodes
  <2>5. \A t \in Inodes : t \in {current_dir'[p], fds'[p], c'[p].dir} => Reached(t)
    BY <1>1, <1>3, <2>1, HeldReached
  <2>6. Walked(p, s, NULL, s)
    BY <1>1, <1>3, <2>1, <2>2, <2>3, <2>5
       DEF Walked, DirInv, TypeInv, Creating, Removing, scope
  <2>7. ASSUME NEW t \in Inodes
        PROVE  Three(p, t) + Is(s, t) = Three(p, t)' + Is(NULL, t) + Is(s, t)
    <3>1. /\ Is(c'[p].dir, t) = Is(c[p].dir, t) /\ Is(NULL, t) = 0
          /\ Is(current_dir'[p], t) = Is(current_dir[p], t) /\ Is(fds'[p], t) = Is(fds[p], t)
      BY <1>1, <1>3, <2>1, IsNull
    <3>2. /\ Is(fds[p], t) \in Int /\ Is(s, t) \in Int /\ Is(c[p].dir, t) \in Int
          /\ Is(current_dir[p], t) \in Int
      BY IsNumber
    <3> QED
      BY <3>1, <3>2 DEF Three
  <2> QED
    BY <2>4, <2>6, <2>7, WalkAction
<1> QED
  BY <1>4, <1>5, <1>6, <1>7

(* thread_create(): the step is one of the child. *)
LEMMA CreateStep ==
  ASSUME DirInv, NEW p \in Procs, NEW child \in Procs, Create(p, child)
  PROVE  DirInv'
PROOF
<1> DEFINE d == current_dir[p]
<1>1. /\ c[p].at = "idle" /\ c[child].at = "gone" /\ open_cnt' = Opened(d)
      /\ current_dir' = [current_dir EXCEPT ![child] = d] /\ Return(child)
      /\ UNCHANGED <<treeVars, lock, fds, leaked, scope>>
  BY DEF Create, At
<1>2. /\ d \in Inodes /\ Place(child)
      /\ current_dir[child] = NULL /\ c[child].dir = NULL /\ fds[child] = NULL
  BY <1>1 DEF DirInv, PlaceInv, Place, TypeInv
<1>3. is_dir[d] /\ d \in Named \cup {Root} /\ Reached(d)
  BY <1>2, InTree, HeldReached
<1>4. c' \in [Procs -> CallRecords] /\ Only(child) /\ c'[child].at = "idle" /\ c'[child].dir = NULL
  BY <1>1, ReturnEffect
<1> HIDE DEF d
<1>5. /\ current_dir' \in [Procs -> Inodes \cup {NULL}] /\ current_dir'[child] = d
      /\ \A q \in Procs \ {child} : current_dir'[q] = current_dir[q]
  BY <1>1, <1>2 DEF DirInv, TypeInv
<1>6. Place(child)'
  BY <1>1, <1>2, <1>3, <1>4, <1>5, DirAssumption DEF Place, Creating, Removing, treeVars, Inodes
<1>7. \A t \in Inodes : t \in {current_dir'[child], fds'[child], c'[child].dir} => Reached(t)
  BY <1>1, <1>2, <1>3, <1>4, <1>5, DirAssumption DEF Inodes
<1>8. CountsMove(d, NULL, NULL)
  BY <1>1, <1>2, CountsOpened
<1>9. Walked(child, d, NULL, NULL)
  BY <1>1, <1>3, <1>4, <1>5, <1>7, <1>8 DEF Walked, DirInv, TypeInv, Creating, Removing, scope
<1>10. ASSUME NEW t \in Inodes
       PROVE  Three(child, t) + Is(d, t) = Three(child, t)' + Is(NULL, t) + Is(NULL, t)
  <2>1. /\ Is(c[child].dir, t) = 0 /\ Is(c'[child].dir, t) = 0 /\ Is(NULL, t) = 0
        /\ Is(current_dir'[child], t) = Is(d, t) /\ Is(current_dir[child], t) = 0
        /\ Is(fds'[child], t) = 0 /\ Is(fds[child], t) = 0
    BY <1>1, <1>2, <1>4, <1>5, IsNull
  <2>2. Is(d, t) \in Int
    BY IsNumber
  <2> QED
    BY <2>1, <2>2 DEF Three
<1> QED
  BY <1>6, <1>9, <1>10, WalkAction

-----------------------------------------------------------------------------
(* inode_close(): the last one of a removed inode frees it. *)

LEMMA CloseKeeps ==
  ASSUME DirInv, NEW s \in Inodes, CloseInode(s), ~(open_cnt[s] = 1 /\ removed[s])
  PROVE  /\ UNCHANGED <<free_map, is_dir, parent, removed>>
         /\ open_cnt' = [open_cnt EXCEPT ![s] = @ - 1]
PROOF
<1>1. UNCHANGED <<free_map, is_dir, parent>> /\ open_cnt' = [open_cnt EXCEPT ![s] = @ - 1]
  BY DEF CloseInode
<1>2. removed \in [Inodes -> BOOLEAN]
  BY DEF DirInv, TypeInv
<1>3. removed' = [removed EXCEPT ![s] = removed[s] /\ open_cnt[s] # 1]
  BY DEF CloseInode
<1>4. (removed[s] /\ open_cnt[s] # 1) = removed[s]
  BY <1>2
<1>5. removed' = removed
  BY <1>2, <1>3, <1>4
<1> QED
  BY <1>1, <1>5

LEMMA DoneStep ==
  ASSUME DirInv, NEW p \in Procs, Done(p)
  PROVE  DirInv'
PROOF
<1> DEFINE d == c[p].dir
<1>1. /\ c[p].at = "done" /\ CloseInode(d) /\ Return(p)
      /\ UNCHANGED <<entries, lock, current_dir, fds, leaked, scope>>
  BY DEF Done, At
<1>2. d \in Inodes /\ Place(p) /\ current_dir[p] \in Inodes /\ ~removed[d]
  BY <1>1, WalkerInTree
<1>3. c' \in [Procs -> CallRecords] /\ Only(p) /\ c'[p].at = "idle" /\ c'[p].dir = NULL
  BY <1>1, ReturnEffect
<1> HIDE DEF d
<1>4. UNCHANGED treeVars /\ open_cnt' = [open_cnt EXCEPT ![d] = @ - 1]
  BY <1>1, <1>2, CloseKeeps DEF treeVars
<1>5. Place(p)'
  BY <1>1, <1>2, <1>3, <1>4, DirAssumption DEF Place, Creating, Removing, treeVars, Inodes
<1>6. \A t \in Inodes : t \in {current_dir'[p], fds'[p], c'[p].dir} => Reached(t)
  BY <1>1, <1>3, HeldReached, DirAssumption DEF Inodes
<1>7. CountsMove(NULL, d, NULL)
  BY <1>1, <1>2, <1>4, CountsClosed
<1>8. Walked(p, NULL, d, NULL)
  BY <1>1, <1>3, <1>4, <1>6, <1>7 DEF Walked, DirInv, TypeInv, Creating, Removing, scope, d
<1>9. ASSUME NEW t \in Inodes
      PROVE  Three(p, t) + Is(NULL, t) = Three(p, t)' + Is(d, t) + Is(NULL, t)
  <2>1. /\ Is(c[p].dir, t) = Is(d, t) /\ Is(c'[p].dir, t) = 0 /\ Is(NULL, t) = 0
        /\ Is(current_dir'[p], t) = Is(current_dir[p], t) /\ Is(fds'[p], t) = Is(fds[p], t)
    BY <1>1, <1>3, IsNull DEF d
  <2>2. Is(current_dir[p], t) \in Int /\ Is(fds[p], t) \in Int /\ Is(d, t) \in Int
    BY IsNumber
  <2> QED
    BY <2>1, <2>2 DEF Three
<1> QED
  BY <1>5, <1>8, <1>9, WalkAction

LEMMA ExitStep ==
  ASSUME DirInv, NEW p \in Procs, Exit(p)
  PROVE  DirInv'
PROOF
<1> DEFINE d == current_dir[p]
<1>1. /\ c[p].at = "idle" /\ fds[p] = NULL /\ CloseInode(d)
      /\ current_dir' = [current_dir EXCEPT ![p] = NULL] /\ c' = [c EXCEPT ![p].at = "gone"]
      /\ UNCHANGED <<entries, lock, fds, leaked, scope>>
  BY DEF Exit, At, Goto
<1>2. d \in Inodes /\ Place(p) /\ c[p].dir = NULL
  BY <1>1 DEF DirInv, PlaceInv, Place, TypeInv
<1>3. ~removed[d]
  BY <1>2, InTree
<1>4. c' \in [Procs -> CallRecords] /\ Only(p) /\ c'[p].at = "gone" /\ c'[p].dir = NULL
  BY <1>1, <1>2, GotoEffect DEF Places
<1> HIDE DEF d
<1>5. UNCHANGED treeVars /\ open_cnt' = [open_cnt EXCEPT ![d] = @ - 1]
  BY <1>1, <1>2, <1>3, CloseKeeps DEF treeVars
<1>6. /\ current_dir' \in [Procs -> Inodes \cup {NULL}] /\ current_dir'[p] = NULL
      /\ \A q \in Procs \ {p} : current_dir'[q] = current_dir[q]
  BY <1>1 DEF DirInv, TypeInv
<1>7. Place(p)'
  BY <1>1, <1>2, <1>4, <1>5, <1>6, DirAssumption DEF Place, Creating, Removing, treeVars, Inodes
<1>8. \A t \in Inodes : t \in {current_dir'[p], fds'[p], c'[p].dir} => Reached(t)
  BY <1>1, <1>4, <1>6, DirAssumption DEF Inodes
<1>9. CountsMove(NULL, d, NULL)
  BY <1>1, <1>2, <1>5, CountsClosed
<1>10. Walked(p, NULL, d, NULL)
  BY <1>1, <1>4, <1>5, <1>6, <1>8, <1>9 DEF Walked, DirInv, TypeInv, Creating, Removing, scope, d
<1>11. ASSUME NEW t \in Inodes
       PROVE  Three(p, t) + Is(NULL, t) = Three(p, t)' + Is(d, t) + Is(NULL, t)
  <2>1. /\ Is(c[p].dir, t) = 0 /\ Is(c'[p].dir, t) = 0 /\ Is(NULL, t) = 0
        /\ Is(current_dir[p], t) = Is(d, t) /\ Is(current_dir'[p], t) = 0
        /\ Is(fds'[p], t) = 0 /\ Is(fds[p], t) = 0
    BY <1>1, <1>2, <1>4, <1>6, IsNull DEF d
  <2>2. Is(d, t) \in Int
    BY IsNumber
  <2> QED
    BY <2>1, <2>2 DEF Three
<1> QED
  BY <1>7, <1>10, <1>11, WalkAction

-----------------------------------------------------------------------------
(* The lock of a directory, and the other processes. *)

LEMMA PlaceKept ==
  ASSUME DirInv, NEW p \in Procs, OthersSame(p), Place(p)',
         \A d \in Inodes : (Here(d) \cup Visits(d)) \ {p} # {} /\ is_dir[d] => is_dir'[d]
  PROVE  PlaceInv'
PROOF
<1> SUFFICES ASSUME NEW q \in Procs \ {p} PROVE Place(q)'
  BY DEF PlaceInv
<1>1. c'[q] = c[q] /\ current_dir'[q] = current_dir[q] /\ fds'[q] = fds[q] /\ Place(q)
  BY DEF OthersSame, DirInv, PlaceInv
<1>2. \A d \in Inodes : d \in {current_dir[q], c[q].dir} => q \in (Here(d) \cup Visits(d)) \ {p}
  BY DEF Here, Visits
<1>3. /\ current_dir[q] \in Inodes => is_dir'[current_dir[q]]
      /\ c[q].dir \in Inodes => is_dir'[c[q].dir]
  BY <1>1, <1>2 DEF Place
<1> QED
  BY <1>1, <1>3 DEF Place

LEMMA LockKept ==
  ASSUME DirInv, NEW p \in Procs, OthersSame(p), lock' = lock,
         c'[p].at \in Locking <=> c[p].at \in Locking,
         c[p].at \in Locking => c'[p].dir = c[p].dir
  PROVE  LockInv'
PROOF
<1> SUFFICES ASSUME NEW q \in Procs, NEW d \in Inodes
             PROVE  lock'[d] = q <=> c'[q].at \in Locking /\ c'[q].dir = d
  BY DEF LockInv
<1>1. lock[d] = q <=> c[q].at \in Locking /\ c[q].dir = d
  BY DEF DirInv, LockInv
<1>2. CASE q = p
  BY <1>1, <1>2
<1>3. CASE q # p
  BY <1>1, <1>3 DEF OthersSame
<1> QED
  BY <1>2, <1>3

LEMMA LockTaken ==
  ASSUME DirInv, NEW p \in Procs, OthersSame(p), NEW e \in Inodes, lock[e] = NULL,
         lock' = [lock EXCEPT ![e] = p],
         c[p].at \notin Locking, c'[p].at \in Locking, c'[p].dir = e
  PROVE  LockInv'
PROOF
<1> SUFFICES ASSUME NEW q \in Procs, NEW d \in Inodes
             PROVE  lock'[d] = q <=> c'[q].at \in Locking /\ c'[q].dir = d
  BY DEF LockInv
<1>1. lock[d] = q <=> c[q].at \in Locking /\ c[q].dir = d
  BY DEF DirInv, LockInv
<1>2. lock'[d] = IF d = e THEN p ELSE lock[d]
  BY DEF DirInv, TypeInv
<1>3. CASE q = p
  BY <1>1, <1>2, <1>3
<1>4. CASE q # p
  <2>1. q # NULL
    BY DirAssumption
  <2> QED
    BY <1>1, <1>2, <1>4, <2>1 DEF OthersSame
<1> QED
  BY <1>3, <1>4

LEMMA LockGiven ==
  ASSUME DirInv, NEW p \in Procs, OthersSame(p), NEW e \in Inodes, e = c[p].dir,
         lock' = [lock EXCEPT ![e] = NULL], c[p].at \in Locking, c'[p].at \notin Locking
  PROVE  LockInv'
PROOF
<1> SUFFICES ASSUME NEW q \in Procs, NEW d \in Inodes
             PROVE  lock'[d] = q <=> c'[q].at \in Locking /\ c'[q].dir = d
  BY DEF LockInv
<1>1. lock[d] = q <=> c[q].at \in Locking /\ c[q].dir = d
  BY DEF DirInv, LockInv
<1>2. lock[e] = p
  BY DEF DirInv, LockInv
<1>3. lock'[d] = IF d = e THEN NULL ELSE lock[d]
  BY DEF DirInv, TypeInv
<1>4. q # NULL
  BY DirAssumption
<1>5. CASE q = p
  BY <1>1, <1>3, <1>4, <1>5
<1>6. CASE q # p
  BY <1>1, <1>2, <1>3, <1>4, <1>6 DEF OthersSame
<1> QED
  BY <1>5, <1>6

(* A step of a process that stays in the directory it is in. *)
Staying(p) ==
  /\ UNCHANGED <<current_dir, fds, leaked>>
  /\ Only(p) /\ c'[p].dir = c[p].dir

LEMMA StayingSame ==
  ASSUME NEW p \in Procs, Staying(p), NEW s
  PROVE  OthersSame(p) /\ Here(s)' = Here(s) /\ Descs(s)' = Descs(s) /\ Visits(s)' = Visits(s)
PROOF
<1>1. OthersSame(p)
  BY DEF OthersSame, Staying, Only
<1>2. \A q \in Procs : c'[q].dir = c[q].dir
  BY DEF Staying, Only
<1>3. Here(s)' = Here(s) /\ Descs(s)' = Descs(s)
  BY DEF Staying, Here, Descs
<1>4. Visits(s)' = Visits(s)
  BY <1>2 DEF Visits
<1> QED
  BY <1>1, <1>3, <1>4

LEMMA StayingCount ==
  ASSUME DirInv, TypeInv', NEW p \in Procs, Staying(p),
         \A s \in Inodes : open_cnt'[s] + In(p, Removes(s)) = open_cnt[s] + In(p, Removes(s)')
  PROVE  Counted'
PROOF
<1> SUFFICES ASSUME NEW s \in Inodes
             PROVE  open_cnt'[s] + leaked[s] + Mine(p, s) = open_cnt[s] + leaked'[s] + Mine(p, s)'
  BY StayingSame, CountMoved
<1> DEFINE k == In(p, Here(s)) + In(p, Descs(s)) + In(p, Visits(s))
           r == In(p, Removes(s))
<1>1. Mine(p, s) = k + r /\ Mine(p, s)' = k + r'
  BY StayingSame DEF Mine
<1>2. k \in Int /\ r \in Int
  BY DEF In
<1>3. r' \in Int
  BY DEF In
<1>4. open_cnt[s] \in Int /\ open_cnt'[s] \in Int /\ leaked[s] \in Int /\ leaked'[s] = leaked[s]
  BY DEF DirInv, TypeInv, Staying
<1>5. open_cnt'[s] + r = open_cnt[s] + r'
  OBVIOUS
<1> HIDE DEF k, r
<1> QED
  BY <1>1, <1>2, <1>3, <1>4, <1>5

(***************************************************************************)
(* A step that leaves the tree alone, of a process that creates or removes *)
(* and stays in its directory.                                             *)
(***************************************************************************)
LEMMA StayStep ==
  ASSUME DirInv, TypeInv', NEW p \in Procs, Staying(p), UNCHANGED treeVars,
         c'[p].at \in Creating <=> c[p].at \in Creating,
         c[p].at \in Creating => c'[p].sector = c[p].sector,
         \A s \in Inodes : open_cnt'[s] # 0 => open_cnt[s] # 0 \/ s \in Named,
         Place(p)', LockInv', Entry(p)', Erase(p)', Counted'
  PROVE  DirInv'
PROOF
<1>1. /\ free_map' = free_map /\ is_dir' = is_dir /\ parent' = parent
      /\ entries' = entries /\ removed' = removed
  BY DEF treeVars
<1>2. Named' = Named
  BY <1>1, NamedSame
<1>3. OthersSame(p)
  BY StayingSame
<1>4. PlaceInv'
  BY <1>1, <1>3, PlaceKept
<1>5. EntryInv'
  <2> SUFFICES ASSUME NEW q \in Procs \ {p} PROVE Entry(q)'
    BY DEF EntryInv
  <2>1. c'[q] = c[q] /\ Entry(q)
    BY <1>3 DEF OthersSame, DirInv, EntryInv
  <2> QED
    BY <1>1, <2>1 DEF Entry
<1>6. EraseInv'
  <2> SUFFICES ASSUME NEW q \in Procs \ {p} PROVE Erase(q)'
    BY DEF EraseInv
  <2> DEFINE s == c[q].sector
  <2>1. c'[q] = c[q] /\ Erase(q)
    BY <1>3 DEF OthersSame, DirInv, EraseInv
  <2>2. Here(s)' = Here(s) /\ Descs(s)' = Descs(s) /\ Visits(s)' = Visits(s)
    BY <1>3, <2>1 DEF Here, Descs, Visits, Staying, Only
  <2>3. c[q].at = "erase" /\ is_dir[s] => Here(s) \cup Descs(s) \cup Visits(s) = {}
    BY <2>1 DEF Erase
  <2>4. c[q].at = "erase" /\ is_dir[s] => (Here(s) \cup Descs(s) \cup Visits(s))' = {}
    BY <2>2, <2>3
  <2> QED
    BY <1>1, <2>1, <2>4 DEF Erase, Here, Descs, Visits
<1>7. RemovedInv'
  BY <1>1, StayingSame DEF DirInv, RemovedInv
<1>8. \A q \in Procs : c'[q].at \in Creating <=> c[q].at \in Creating
  BY <1>3 DEF OthersSame
<1>9. \A q \in Procs : c[q].at \in Creating => c'[q].sector = c[q].sector
  BY <1>3 DEF OthersSame
<1>10. Created' = Created
  BY <1>8, <1>9 DEF Created, Creating
<1>11. CreatedInv'
  <2> SUFFICES ASSUME NEW q \in Procs, c[q].at \in Creating
               PROVE  /\ c[q].sector \in free_map' \ Named' /\ ~removed'[c[q].sector]
                      /\ entries'[c[q].sector] = {} /\ open_cnt'[c[q].sector] = 0
                      /\ \A r \in Procs : c[r].at \in Creating /\ c[r].sector = c[q].sector
                                            => r = q
    BY <1>8, <1>9 DEF CreatedInv, New
  <2>1. New(q) /\ c[q].sector \in Inodes
    BY DEF DirInv, CreatedInv, PlaceInv, Place, Inodes
  <2> QED
    BY <1>1, <1>2, <2>1 DEF New
<1>12. OpenInv'
  BY <1>1, <1>2 DEF DirInv, OpenInv, Inodes
<1>13. NameInv' /\ ParentInv'
  BY <1>1 DEF DirInv, NameInv, ParentInv
<1>14. MapInv'
  BY <1>1, <1>2, <1>10 DEF DirInv, MapInv
<1> QED
  BY <1>4, <1>5, <1>6, <1>7, <1>11, <1>12, <1>13, <1>14 DEF DirInv

LEMMA AddLockStep ==
  ASSUME DirInv, NEW p \in Procs, AddLock(p)
  PROVE  DirInv'
PROOF
<1> DEFINE d == c[p].dir
<1>1. /\ c[p].at = "add" /\ lock[d] = NULL
      /\ UNCHANGED <<treeVars, open_cnt, current_dir, fds, leaked, scope>>
      /\ \/ /\ c[p].name # "" /\ lookup(d, c[p].name) = {}
            /\ lock' = [lock EXCEPT ![d] = p] /\ c' = [c EXCEPT ![p].at = "write"]
         \/ lock' = lock /\ c' = [c EXCEPT ![p].at = "undo"]
  BY DEF AddLock, At, Goto
<1>2. d \in Inodes /\ Place(p)
  BY <1>1, WalkerInTree
<1>3. ASSUME NEW place \in {"write", "undo"}, c' = [c EXCEPT ![p].at = place],
             lock' \in [Inodes -> Procs \cup {NULL}], Entry(p)',
             ASSUME OthersSame(p) PROVE LockInv'
      PROVE  DirInv'
  <2>1. /\ c' \in [Procs -> CallRecords] /\ Only(p) /\ c'[p].at = place
        /\ c'[p].dir = c[p].dir /\ c'[p].sector = c[p].sector /\ c'[p].op = c[p].op
    BY <1>3, GotoEffect DEF Places, Creating
  <2>2. TypeInv'
    BY <1>1, <1>3, <2>1 DEF DirInv, TypeInv, treeVars, scope
  <2>3. Staying(p)
    BY <1>1, <2>1 DEF Staying
  <2>4. OthersSame(p)
    BY <2>3, StayingSame
  <2>5. Place(p)'
    BY <1>1, <1>2, <2>1 DEF Place, Creating, Removing, treeVars
  <2>6. Erase(p)'
    BY <2>1 DEF Erase
  <2>7. \A s : p \notin Removes(s)
    BY <1>1 DEF Removes
  <2>8. \A s : p \notin Removes(s)'
    BY <2>1 DEF Removes
  <2>9. \A s \in Inodes : open_cnt'[s] + In(p, Removes(s)) = open_cnt[s] + In(p, Removes(s)')
    BY <1>1, <2>7, <2>8 DEF In
  <2>10. Counted'
    BY <2>2, <2>3, <2>9, StayingCount
  <2>11. /\ c'[p].at \in Creating <=> c[p].at \in Creating
         /\ \A s \in Inodes : open_cnt'[s] # 0 => open_cnt[s] # 0 \/ s \in Named
    BY <1>1, <2>1 DEF Creating
  <2> QED
    BY <1>1, <1>3, <2>1, <2>2, <2>3, <2>4, <2>5, <2>6, <2>10, <2>11, StayStep
<1>4. CASE /\ c[p].name # "" /\ lookup(d, c[p].name) = {}
           /\ lock' = [lock EXCEPT ![d] = p] /\ c' = [c EXCEPT ![p].at = "write"]
  <2>1. c'[p].at = "write" /\ c'[p].dir = d /\ c'[p].name = c[p].name
    BY <1>4, GotoEffect DEF Places, Creating
  <2>2. \A s : <<c[p].name, s>> \notin entries[d]
    BY <1>2, <1>4, LookupNothing
  <2> HIDE DEF d
  <2>3. Entry(p)'
    BY <1>1, <1>4, <2>1, <2>2 DEF Entry, treeVars
  <2>4. ASSUME OthersSame(p) PROVE LockInv'
    BY <1>1, <1>2, <1>4, <2>1, <2>4, LockTaken DEF Locking, Removing
  <2>5. lock' \in [Inodes -> Procs \cup {NULL}]
    BY <1>4 DEF DirInv, TypeInv
  <2> QED
    BY <1>3, <1>4, <2>3, <2>4, <2>5
<1>5. CASE lock' = lock /\ c' = [c EXCEPT ![p].at = "undo"]
  <2>1. c'[p].at = "undo" /\ c'[p].dir = d
    BY <1>5, GotoEffect DEF Places, Creating
  <2>2. Entry(p)'
    BY <2>1 DEF Entry
  <2>3. ASSUME OthersSame(p) PROVE LockInv'
    BY <1>1, <1>5, <2>1, <2>3, LockKept DEF Locking, Removing
  <2>4. lock' \in [Inodes -> Procs \cup {NULL}]
    BY <1>5 DEF DirInv, TypeInv
  <2> QED
    BY <1>3, <1>5, <2>2, <2>3, <2>4
<1> QED
  BY <1>1, <1>4, <1>5

LEMMA RemoveLockStep ==
  ASSUME DirInv, NEW p \in Procs, RemoveLock(p)
  PROVE  DirInv'
PROOF
<1> DEFINE d == c[p].dir
           n == c[p].name
<1>1. /\ c[p].at = "walk" /\ lock[d] = NULL
      /\ UNCHANGED <<treeVars, current_dir, fds, leaked, scope>>
      /\ \/ \E s \in lookup(d, n), place \in {"empty", "erase"} :
              /\ open_cnt' = Opened(s) /\ lock' = [lock EXCEPT ![d] = p]
              /\ place = "erase" => ~is_dir[s]
              /\ c' = [c EXCEPT ![p].sector = s, ![p].at = place]
         \/ c' = [c EXCEPT ![p].at = "done"] /\ UNCHANGED <<lock, open_cnt>>
  BY DEF RemoveLock, Arrived, At, Goto
<1>2. d \in Inodes /\ Place(p)
  BY <1>1, WalkerInTree
<1>3. CASE c' = [c EXCEPT ![p].at = "done"] /\ UNCHANGED <<lock, open_cnt>>
  BY <1>1, <1>3, GotoEffect, QuietStep DEF Creating, Removing, Places
<1>4. CASE \E s \in lookup(d, n), place \in {"empty", "erase"} :
             /\ open_cnt' = Opened(s) /\ lock' = [lock EXCEPT ![d] = p]
             /\ place = "erase" => ~is_dir[s]
             /\ c' = [c EXCEPT ![p].sector = s, ![p].at = place]
  <2>1. PICK s \in lookup(d, n), place \in {"empty", "erase"} :
             /\ open_cnt' = Opened(s) /\ lock' = [lock EXCEPT ![d] = p]
             /\ place = "erase" => ~is_dir[s]
             /\ c' = [c EXCEPT ![p].sector = s, ![p].at = place]
    BY <1>4
  <2>2. s \in Sectors /\ <<n, s>> \in entries[d]
    BY <1>2, Lookup
  <2>3. s \in Inodes /\ s \in Named
    BY <1>1, <1>2, FoundInTree
  <2>4. /\ c' \in [Procs -> CallRecords] /\ Only(p) /\ c'[p].at = place /\ c'[p].sector = s
        /\ c'[p].dir = c[p].dir /\ c'[p].name = c[p].name
    <3>1. c \in [Procs -> CallRecords] /\ c[p] \in CallRecords
      BY DEF DirInv, TypeInv
    <3>2. c'[p] = [c[p] EXCEPT !.sector = s, !.at = place] /\ Only(p)
      BY <2>1, <3>1 DEF Only
    <3> DEFINE u == c[p]
               v == c'[p]
    <3>3. u \in CallRecords /\ v = [u EXCEPT !.sector = s, !.at = place]
      BY <3>1, <3>2
    <3> HIDE DEF u, v
    <3>4. place \in Places
      BY DEF Places, Removing
    <3>5. v \in CallRecords /\ v.at = place /\ v.sector = s /\ v.dir = u.dir /\ v.name = u.name
      BY <2>2, <3>3, <3>4 DEF CallRecords
    <3>6. c' \in [Procs -> CallRecords]
      BY <2>1, <3>1, <3>2, <3>5 DEF v
    <3> QED
      BY <3>2, <3>5, <3>6 DEF u, v
  <2> HIDE DEF d, n
  <2>5. /\ open_cnt' \in [Inodes -> Int]
        /\ \A t \in Inodes : open_cnt'[t] = open_cnt[t] + Is(s, t) /\ open_cnt[t] \in Int
    BY <2>1, <2>3 DEF DirInv, TypeInv, Opened, Is
  <2>6. lock' \in [Inodes -> Procs \cup {NULL}]
    BY <1>2, <2>1 DEF DirInv, TypeInv
  <2>7. TypeInv'
    BY <1>1, <2>4, <2>5, <2>6 DEF DirInv, TypeInv, treeVars, scope
  <2>8. Staying(p)
    BY <1>1, <2>4 DEF Staying
  <2>9. Place(p)'
    BY <1>1, <1>2, <2>2, <2>4 DEF Place, Creating, Removing, treeVars
  <2>10. OthersSame(p)
    BY <2>8, StayingSame
  <2>11. LockInv'
    <3>1. c'[p].dir = d /\ c'[p].at \in Locking /\ c[p].at \notin Locking
      BY <1>1, <2>4 DEF d, Locking, Removing
    <3> QED
      BY <1>1, <1>2, <2>1, <2>10, <3>1, LockTaken
  <2>12. Entry(p)'
    BY <1>1, <2>2, <2>4 DEF Entry, treeVars, d, n
  <2>13. Erase(p)'
    BY <1>1, <2>1, <2>4 DEF Erase, treeVars
  <2>14. Counted'
    <3>1. ASSUME NEW t \in Inodes
          PROVE  open_cnt'[t] + In(p, Removes(t)) = open_cnt[t] + In(p, Removes(t)')
      <4>1. p \notin Removes(t)
        BY <1>1 DEF Removes
      <4>2. p \in Removes(t)' <=> s = t
        BY <2>4 DEF Removes
      <4>3. In(p, Removes(t)) = 0 /\ In(p, Removes(t)') = Is(s, t)
        BY <4>1, <4>2 DEF In, Is
      <4>4. Is(s, t) \in Int
        BY IsNumber
      <4> QED
        BY <2>5, <4>3, <4>4
    <3> QED
      BY <2>7, <2>8, <3>1, StayingCount
  <2>15. /\ c'[p].at \notin Creating /\ c[p].at \notin Creating
         /\ \A t \in Inodes : open_cnt'[t] # 0 => open_cnt[t] # 0 \/ t \in Named
    BY <1>1, <2>3, <2>4, <2>5 DEF Creating, Is
  <2>16. UNCHANGED treeVars
    BY <1>1
  <2> QED
    BY <2>7, <2>8, <2>9, <2>11, <2>12, <2>13, <2>14, <2>15, <2>16, StayStep
<1> QED
  BY <1>1, <1>3, <1>4

(* The remover goes on with its search. *)
LEMMA RemoverStep ==
  ASSUME DirInv, NEW p \in Procs, NEW place \in {"opened", "erase", "release"},
         c[p].at \in {"empty", "opened"}, c' = [c EXCEPT ![p].at = place],
         UNCHANGED <<treeVars, open_cnt, lock, current_dir, fds, leaked, scope>>,
         place = "erase" => open_cnt[c[p].sector] <= 1
  PROVE  DirInv'
PROOF
<1> DEFINE s == c[p].sector
<1>1. /\ c' \in [Procs -> CallRecords] /\ Only(p) /\ c'[p].at = place
      /\ c'[p].dir = c[p].dir /\ c'[p].sector = c[p].sector /\ c'[p].name = c[p].name
  BY GotoEffect DEF Places, Removing
<1>2. Place(p) /\ s \in Sectors /\ s \in Inodes
  BY DEF DirInv, PlaceInv, Place, Removing, Inodes
<1>3. TypeInv'
  BY <1>1 DEF DirInv, TypeInv, treeVars, scope
<1>4. Staying(p)
  BY <1>1 DEF Staying
<1>5. Place(p)'
  BY <1>1, <1>2 DEF Place, Creating, Removing, treeVars
<1>6. LockInv'
  BY <1>1, <1>4, StayingSame, LockKept DEF Locking, Removing
<1>7. Entry(p)'
  BY <1>1 DEF Entry, treeVars, DirInv, EntryInv
<1>8. Erase(p)'
  <2>1. ASSUME place = "erase"
        PROVE  Here(s) \cup Descs(s) \cup Visits(s) = {}
    <3>1. p \in Removes(s)
      BY DEF Removes
    <3> QED
      BY <1>2, <2>1, <3>1, ReferenceCounts
  <2>2. ASSUME place = "erase"
        PROVE  (Here(s) \cup Descs(s) \cup Visits(s))' = {}
    <3>1. Here(s)' = Here(s) /\ Descs(s)' = Descs(s) /\ Visits(s)' = Visits(s)
      BY <1>1, <1>4 DEF Here, Descs, Visits, Staying, Only
    <3> QED
      BY <2>1, <2>2, <3>1
  <2> QED
    BY <1>1, <2>2 DEF Erase, Here, Descs, Visits
<1>9. Counted'
  <2>1. ASSUME NEW t \in Inodes
        PROVE  open_cnt'[t] + In(p, Removes(t)) = open_cnt[t] + In(p, Removes(t)')
    <3>1. p \in Removes(t)' <=> p \in Removes(t)
      BY <1>1 DEF Removes
    <3>2. In(p, Removes(t)') = In(p, Removes(t)) /\ open_cnt'[t] = open_cnt[t]
      BY <3>1 DEF In
    <3> QED
      BY <3>2
  <2> QED
    BY <1>3, <1>4, <2>1, StayingCount
<1>10. c'[p].at \notin Creating /\ c[p].at \notin Creating
  BY <1>1 DEF Creating
<1> QED
  BY <1>3, <1>4, <1>5, <1>6, <1>7, <1>8, <1>9, <1>10, StayStep

LEMMA RemoveEmptyStep ==
  ASSUME DirInv, NEW p \in Procs, RemoveEmpty(p)
  PROVE  DirInv'
PROOF
  BY RemoverStep DEF RemoveEmpty, At, Goto

LEMMA RemoveOpenedStep ==
  ASSUME DirInv, NEW p \in Procs, RemoveOpened(p)
  PROVE  DirInv'
PROOF
<1>1. c[p].at = "opened" /\ c[p].sector \in Inodes
  BY DEF RemoveOpened, At, DirInv, PlaceInv, Place, Removing, Inodes
<1>2. open_cnt[c[p].sector] \in Int
  BY <1>1 DEF DirInv, TypeInv
<1> DEFINE place == IF open_cnt[c[p].sector] > 1 THEN "release" ELSE "erase"
<1>3. place \in {"release", "erase"} /\ (place = "erase" => open_cnt[c[p].sector] <= 1)
  BY <1>2
<1>4. /\ c' = [c EXCEPT ![p].at = place]
      /\ UNCHANGED <<treeVars, open_cnt, lock, current_dir, fds, leaked, scope>>
  BY DEF RemoveOpened, Goto
<1> HIDE DEF place
<1> QED
  BY <1>1, <1>3, <1>4, RemoverStep

-----------------------------------------------------------------------------
(***************************************************************************)
(* A step that takes a sector from the free map or gives one back: nobody  *)
(* refers to its inode, which has no entries and is in no directory.       *)
(***************************************************************************)
AloneSector(p, s) ==
  /\ OthersSame(p) /\ entries' = entries /\ s \notin Named /\ entries[s] = {}
  /\ \A t \in Inodes \ {s} :
       /\ is_dir'[t] = is_dir[t] /\ parent'[t] = parent[t] /\ removed'[t] = removed[t]
       /\ t \in free_map' <=> t \in free_map
       /\ open_cnt'[t] # 0 => open_cnt[t] # 0
  /\ (Here(s) \cup Descs(s) \cup Visits(s))' = {} /\ open_cnt'[s] = 0 /\ ~removed'[s]
  /\ \A t \in Inodes : t \in {current_dir'[p], fds'[p], c'[p].dir} =>
                         t \in {current_dir[p], fds[p], c[p].dir}
  /\ \A q \in Procs \ {p} : c[q].at \in Creating => c[q].sector # s
  /\ c[p].at \in Creating => c[p].sector = s
  /\ c'[p].at \in Creating => c'[p].sector = s
  /\ s \in free_map' <=> c'[p].at \in Creating
  /\ is_dir'[s] => s \in free_map'
  /\ c'[p].at \notin {"empty", "opened", "erase", "write"}

LEMMA SectorStep ==
  ASSUME DirInv, TypeInv', NEW p \in Procs, NEW s \in Sectors, AloneSector(p, s),
         Place(p)', LockInv', Counted'
  PROVE  DirInv'
PROOF
<1>1. s \in Inodes /\ s # Root /\ OthersSame(p) /\ entries' = entries
  BY DirAssumption DEF Inodes, AloneSector
<1>2. Named' = Named /\ s \notin Named
  BY <1>1, NamedSame DEF AloneSector
<1>3. PlaceInv'
  <2>1. ASSUME NEW d \in Inodes, (Here(d) \cup Visits(d)) \ {p} # {}, is_dir[d]
        PROVE  is_dir'[d]
    <3>1. PICK q \in Procs \ {p} : q \in Here(d) \cup Visits(d)
      BY <2>1 DEF Here, Visits
    <3>2. q \in Here(d)' \cup Visits(d)'
      BY <1>1, <3>1 DEF Here, Visits, OthersSame
    <3>3. d # s
      BY <3>2 DEF AloneSector
    <3> QED
      BY <2>1, <3>3 DEF AloneSector
  <2> QED
    BY <1>1, <2>1, PlaceKept
<1>4. EntryInv'
  <2> SUFFICES ASSUME NEW q \in Procs PROVE Entry(q)'
    BY DEF EntryInv
  <2>1. CASE q = p
    BY <2>1 DEF Entry, AloneSector
  <2>2. CASE q # p
    <3>1. c'[q] = c[q] /\ Entry(q)
      BY <1>1, <2>2 DEF OthersSame, DirInv, EntryInv
    <3>2. entries' = entries
      BY <1>1
    <3> USE DEF Entry
    <3>3. c'[q].at \in {"empty", "opened", "erase"} =>
            <<c'[q].name, c'[q].sector>> \in entries'[c'[q].dir]
      BY <3>1, <3>2
    <3>4. c'[q].at = "write" =>
            c'[q].name # "" /\ \A t \in Sectors : <<c'[q].name, t>> \notin entries'[c'[q].dir]
      BY <3>1, <3>2
    <3> QED
      BY <3>3, <3>4
  <2> QED
    BY <2>1, <2>2
<1>5. \A t \in Inodes : Here(t)' \cup Descs(t)' \cup Visits(t)' # {} =>
                          Here(t) \cup Descs(t) \cup Visits(t) # {}
  <2> SUFFICES ASSUME NEW t \in Inodes, NEW q \in Here(t)' \cup Descs(t)' \cup Visits(t)'
               PROVE  \E r : r \in Here(t) \cup Descs(t) \cup Visits(t)
    OBVIOUS
  <2>1. q \in Procs /\ t \in {current_dir'[q], fds'[q], c'[q].dir}
    BY DEF Here, Descs, Visits
  <2>2. t \in {current_dir[q], fds[q], c[q].dir}
    BY <1>1, <2>1 DEF AloneSector, OthersSame
  <2>3. q \in Here(t) \cup Descs(t) \cup Visits(t)
    BY <2>1, <2>2 DEF Here, Descs, Visits
  <2> QED
    BY <2>3
<1>6. EraseInv'
  <2> SUFFICES ASSUME NEW q \in Procs, NEW t, t = c'[q].sector, c'[q].at = "erase", is_dir'[t]
               PROVE  Here(t)' \cup Descs(t)' \cup Visits(t)' = {}
    BY DEF EraseInv, Erase, Here, Descs, Visits
  <2>1. q # p /\ c'[q] = c[q] /\ t = c[q].sector
    BY <1>1 DEF AloneSector, OthersSame
  <2>2. t \in Sectors /\ t \in Inodes /\ c[q].dir \in Inodes
    BY <2>1 DEF DirInv, PlaceInv, Place, Removing, Inodes, TypeInv, CallRecords
  <2>3. t \in Named
    BY <2>1, <2>2, NamedIntro DEF DirInv, EntryInv, Entry
  <2>4. t # s
    BY <1>2, <2>3
  <2>5. is_dir[t]
    BY <2>1, <2>2, <2>4 DEF AloneSector
  <2>6. Here(t) \cup Descs(t) \cup Visits(t) = {}
    BY <2>1, <2>5 DEF DirInv, EraseInv, Erase
  <2> QED
    BY <1>5, <2>2, <2>6
<1>7. RemovedInv'
  <2> SUFFICES ASSUME NEW t \in Sectors, is_dir'[t], removed'[t]
               PROVE  Here(t)' \cup Descs(t)' \cup Visits(t)' = {}
    BY DEF RemovedInv
  <2>1. t # s /\ t \in Inodes
    BY DEF AloneSector, Inodes
  <2>2. Here(t) \cup Descs(t) \cup Visits(t) = {}
    BY <2>1 DEF DirInv, RemovedInv, AloneSector
  <2> QED
    BY <1>5, <2>1, <2>2
<1>8. CreatedInv'
  <2> SUFFICES ASSUME NEW q \in Procs, c'[q].at \in Creating
               PROVE  /\ c'[q].sector \in free_map' \ Named' /\ ~removed'[c'[q].sector]
                      /\ entries'[c'[q].sector] = {} /\ open_cnt'[c'[q].sector] = 0
                      /\ \A r \in Procs : c'[r].at \in Creating /\ c'[r].sector = c'[q].sector
                                            => r = q
    BY DEF CreatedInv, New
  <2>1. \A r \in Procs \ {p} : c'[r] = c[r] /\ (c[r].at \in Creating => c[r].sector # s)
    BY <1>1 DEF AloneSector, OthersSame
  <2>2. CASE q = p
    <3>1. c'[q].sector = s /\ s \in free_map'
      BY <2>2 DEF AloneSector
    <3>2. \A r \in Procs : c'[r].at \in Creating /\ c'[r].sector = s => r = q
      BY <2>1, <2>2
    <3> QED
      BY <1>1, <1>2, <3>1, <3>2 DEF AloneSector
  <2>3. CASE q # p
    <3> DEFINE t == c[q].sector
    <3>1. c'[q] = c[q] /\ c[q].at \in Creating /\ t # s
      BY <2>1, <2>3
    <3>2. New(q) /\ t \in Inodes
      BY <3>1 DEF DirInv, CreatedInv, PlaceInv, Place, Inodes
    <3>3. /\ t \in free_map \ Named /\ ~removed[t] /\ entries[t] = {} /\ open_cnt[t] = 0
          /\ \A r \in Procs : c[r].at \in Creating /\ c[r].sector = t => r = q
      BY <3>1, <3>2 DEF New
    <3>4. t \in free_map' \ Named' /\ ~removed'[t] /\ entries'[t] = {} /\ open_cnt'[t] = 0
      BY <1>1, <1>2, <3>1, <3>2, <3>3 DEF AloneSector
    <3>5. ASSUME NEW r \in Procs, c'[r].at \in Creating, c'[r].sector = t
          PROVE  r = q
      <4>1. r # p
        BY <3>1, <3>5 DEF AloneSector
      <4> QED
        BY <2>1, <3>3, <3>5, <4>1
    <3> QED
      BY <3>1, <3>4, <3>5
  <2> QED
    BY <2>2, <2>3
<1>9. OpenInv'
  <2> SUFFICES ASSUME NEW t \in Sectors, open_cnt'[t] # 0 PROVE t \in Named \/ removed'[t]
    BY <1>2 DEF OpenInv
  <2>1. t # s /\ t \in Inodes
    BY DEF AloneSector, Inodes
  <2> QED
    BY <2>1 DEF AloneSector, DirInv, OpenInv
<1>10. NameInv'
  BY <1>1 DEF DirInv, NameInv
<1>11. ParentInv'
  <2> SUFFICES ASSUME NEW d \in Inodes, NEW n \in Comps, NEW t \in Sectors, <<n, t>> \in entries[d]
               PROVE  is_dir'[d] /\ ~removed'[d] /\ parent'[t] = d /\ ~removed'[t]
    BY <1>1 DEF ParentInv
  <2>1. is_dir[d] /\ ~removed[d] /\ parent[t] = d /\ ~removed[t]
    BY DEF DirInv, ParentInv
  <2>2. t \in Named
    BY NamedIntro
  <2>3. d # s /\ t # s /\ t \in Inodes
    BY <1>2, <2>2 DEF AloneSector, Inodes
  <2> QED
    BY <2>1, <2>3 DEF AloneSector
<1>12. MapInv'
  <2>1. Root \in free_map' /\ is_dir'[Root] /\ ~removed'[Root] /\ parent'[Root] = NULL
    BY <1>1 DEF AloneSector, DirInv, MapInv, Inodes
  <2>2. \A t \in Sectors \ {s} : t \in Created' <=> t \in Created
    <3>1. ASSUME NEW t \in Sectors \ {s}, t \in Created' PROVE t \in Created
      <4>1. PICK q \in Procs : c'[q].at \in Creating /\ c'[q].sector = t
        BY <3>1 DEF Created, Creating
      <4>2. q # p
        BY <4>1 DEF AloneSector
      <4> QED
        BY <1>1, <4>1, <4>2 DEF Created, Creating, OthersSame
    <3>2. ASSUME NEW t \in Sectors \ {s}, t \in Created PROVE t \in Created'
      <4>1. PICK q \in Procs : c[q].at \in Creating /\ c[q].sector = t
        BY <3>2 DEF Created, Creating
      <4>2. q # p
        BY <4>1 DEF AloneSector
      <4> QED
        BY <1>1, <4>1, <4>2 DEF Created, Creating, OthersSame
    <3> QED
      BY <3>1, <3>2
  <2>3. s \in Created' <=> c'[p].at \in Creating
    <3>1. ASSUME s \in Created' PROVE c'[p].at \in Creating
      <4>1. PICK q \in Procs : c'[q].at \in Creating /\ c'[q].sector = s
        BY <3>1 DEF Created, Creating
      <4>2. q = p
        BY <1>1, <4>1 DEF AloneSector, OthersSame
      <4> QED
        BY <4>1, <4>2
    <3>2. ASSUME c'[p].at \in Creating PROVE s \in Created'
      <4>1. c'[p].sector = s
        BY <3>2 DEF AloneSector
      <4> QED
        BY <3>2, <4>1 DEF Created, Creating
    <3> QED
      BY <3>1, <3>2
  <2>4. s \in free_map' <=> s \in Named' \/ s \in Created' \/ removed'[s]
    BY <1>2, <2>3 DEF AloneSector
  <2>5. ASSUME NEW t \in Sectors \ {s}
        PROVE  /\ is_dir'[t] => t \in free_map'
               /\ t \in free_map' <=> t \in Named' \/ t \in Created' \/ removed'[t]
    BY <1>2, <2>2 DEF DirInv, MapInv, AloneSector, Inodes
  <2>6. is_dir'[s] => s \in free_map'
    BY DEF AloneSector
  <2> QED
    BY <2>1, <2>4, <2>5, <2>6 DEF MapInv
<1> QED
  BY <1>3, <1>4, <1>6, <1>7, <1>8, <1>9, <1>10, <1>11, <1>12 DEF DirInv

(* A sector that is not marked is nobody's. *)
LEMMA FreeSector ==
  ASSUME DirInv, NEW s \in Sectors, s \notin free_map
  PROVE  /\ s \in Inodes /\ s \notin Named /\ s \notin Created /\ ~removed[s] /\ open_cnt[s] = 0
         /\ entries[s] = {} /\ Here(s) \cup Descs(s) \cup Visits(s) = {}
PROOF
<1>1. s \notin Named /\ s \notin Created /\ ~removed[s] /\ ~is_dir[s] /\ s \in Inodes
  BY DEF DirInv, MapInv, Inodes
<1>2. open_cnt[s] = 0
  BY <1>1 DEF DirInv, OpenInv
<1>3. Here(s) \cup Descs(s) \cup Visits(s) = {}
  BY <1>1, <1>2, ReferenceCounts
<1>4. entries[s] = {}
  <2> SUFFICES ASSUME NEW e \in entries[s] PROVE FALSE
    OBVIOUS
  <2>1. PICK n \in Comps, t \in Sectors : e = <<n, t>>
    BY <1>1 DEF DirInv, TypeInv
  <2> QED
    BY <1>1, <2>1 DEF DirInv, ParentInv
<1> QED
  BY <1>1, <1>2, <1>3, <1>4

LEMMA CreateInodeStep ==
  ASSUME DirInv, NEW p \in Procs, NEW s \in Sectors, CreateInode(p, s)
  PROVE  DirInv'
PROOF
<1>1. /\ c[p].at = "walk" /\ s \notin free_map /\ free_map' = free_map \cup {s}
      /\ entries' = [entries EXCEPT ![s] = {}] /\ parent' = [parent EXCEPT ![s] = NULL]
      /\ c' = [c EXCEPT ![p].at = "add", ![p].sector = s]
      /\ UNCHANGED <<removed, open_cnt, lock, current_dir, fds, leaked, scope>>
  BY DEF CreateInode, Arrived, At
<1>2. PICK b \in BOOLEAN : is_dir' = [is_dir EXCEPT ![s] = b]
  BY DEF CreateInode
<1>3. /\ s \in Inodes /\ s \notin Named /\ s \notin Created /\ ~removed[s] /\ open_cnt[s] = 0
      /\ entries[s] = {} /\ Here(s) \cup Descs(s) \cup Visits(s) = {}
  BY <1>1, FreeSector
<1>4. entries' = entries
  BY <1>1, <1>3 DEF DirInv, TypeInv
<1>5. /\ c' \in [Procs -> CallRecords] /\ Only(p) /\ c'[p].at = "add" /\ c'[p].sector = s
      /\ c'[p].dir = c[p].dir
  <2>1. c \in [Procs -> CallRecords] /\ c[p] \in CallRecords
    BY DEF DirInv, TypeInv
  <2>2. c'[p] = [c[p] EXCEPT !.at = "add", !.sector = s] /\ Only(p)
    BY <1>1, <2>1 DEF Only
  <2> DEFINE u == c[p]
             v == c'[p]
  <2>3. u \in CallRecords /\ v = [u EXCEPT !.at = "add", !.sector = s]
    BY <2>1, <2>2
  <2> HIDE DEF u, v
  <2>4. "add" \in Places
    BY DEF Places, Creating
  <2>5. v \in CallRecords /\ v.at = "add" /\ v.sector = s /\ v.dir = u.dir
    BY <2>3, <2>4 DEF CallRecords
  <2>6. c' \in [Procs -> CallRecords]
    BY <1>1, <2>1, <2>2, <2>5 DEF v
  <2> QED
    BY <2>2, <2>5, <2>6 DEF u, v
<1>6. /\ is_dir' \in [Inodes -> BOOLEAN] /\ parent' \in [Inodes -> Inodes \cup {NULL}]
      /\ \A t \in Inodes \ {s} : is_dir'[t] = is_dir[t] /\ parent'[t] = parent[t]
  BY <1>1, <1>2 DEF DirInv, TypeInv
<1>7. TypeInv'
  BY <1>1, <1>3, <1>4, <1>5, <1>6 DEF DirInv, TypeInv, scope
<1>8. Staying(p)
  BY <1>1, <1>5 DEF Staying
<1>9. OthersSame(p) /\ Here(s)' = Here(s) /\ Descs(s)' = Descs(s) /\ Visits(s)' = Visits(s)
  BY <1>8, StayingSame
<1>10. Place(p)'
  <2>1. /\ c[p].dir \in Inodes /\ is_dir[c[p].dir] /\ current_dir[p] \in Inodes /\ Place(p)
    BY <1>1, WalkerInTree
  <2>2. c[p].dir # s /\ current_dir[p] # s
    BY <1>3 DEF Here, Visits
  <2>3. is_dir'[c[p].dir] /\ is_dir'[current_dir[p]]
    BY <1>6, <2>1, <2>2 DEF Place
  <2> QED
    BY <1>1, <1>5, <2>1, <2>3, DirAssumption DEF Place, Creating, Removing, Inodes
<1>11. LockInv'
  BY <1>1, <1>5, <1>9, LockKept DEF Locking, Removing
<1>12. Counted'
  <2>1. ASSUME NEW t \in Inodes
        PROVE  open_cnt'[t] + In(p, Removes(t)) = open_cnt[t] + In(p, Removes(t)')
    <3>1. p \notin Removes(t)
      BY <1>1 DEF Removes
    <3>2. p \notin Removes(t)'
      BY <1>5 DEF Removes
    <3> QED
      BY <1>1, <3>1, <3>2 DEF In
  <2> QED
    BY <1>7, <1>8, <2>1, StayingCount
<1>13. AloneSector(p, s)
  <2>1. \A t \in Inodes \ {s} :
          /\ is_dir'[t] = is_dir[t] /\ parent'[t] = parent[t] /\ removed'[t] = removed[t]
          /\ t \in free_map' <=> t \in free_map
          /\ open_cnt'[t] # 0 => open_cnt[t] # 0
    BY <1>1, <1>6
  <2>2. (Here(s) \cup Descs(s) \cup Visits(s))' = {} /\ open_cnt'[s] = 0 /\ ~removed'[s]
    BY <1>1, <1>3, <1>9
  <2>3. \A q \in Procs : c[q].at \in Creating => c[q].sector # s
    BY <1>3 DEF Created, Creating
  <2>4. c[p].at \notin Creating /\ c'[p].at \in Creating /\ s \in free_map'
    BY <1>1, <1>5 DEF Creating
  <2>5. \A t \in Inodes : t \in {current_dir'[p], fds'[p], c'[p].dir} =>
                            t \in {current_dir[p], fds[p], c[p].dir}
    BY <1>1, <1>5
  <2> QED
    BY <1>3, <1>4, <1>5, <1>9, <2>1, <2>2, <2>3, <2>4, <2>5 DEF AloneSector
<1> QED
  BY <1>7, <1>10, <1>11, <1>12, <1>13, SectorStep

LEMMA UndoStep ==
  ASSUME DirInv, NEW p \in Procs, Undo(p)
  PROVE  DirInv'
PROOF
<1> DEFINE s == c[p].sector
<1>1. /\ c[p].at = "undo" /\ free_map' = free_map \ {s}
      /\ is_dir' = [is_dir EXCEPT ![s] = FALSE] /\ parent' = [parent EXCEPT ![s] = NULL]
      /\ c' = [c EXCEPT ![p].at = "done"]
      /\ UNCHANGED <<entries, removed, open_cnt, lock, current_dir, fds, leaked, scope>>
  BY DEF Undo, At, Goto, free_map_release
<1>2. s \in Sectors /\ s \in Inodes /\ New(p)
  BY <1>1 DEF DirInv, PlaceInv, Place, Creating, CreatedInv, Inodes
<1>3. /\ s \notin Named /\ ~removed[s] /\ open_cnt[s] = 0 /\ entries[s] = {}
      /\ \A q \in Procs : c[q].at \in Creating /\ c[q].sector = s => q = p
  BY <1>1, <1>2 DEF New, Creating
<1>4. Here(s) \cup Descs(s) \cup Visits(s) = {}
  BY <1>2, <1>3, ReferenceCounts
<1>5. /\ c' \in [Procs -> CallRecords] /\ Only(p) /\ c'[p].at = "done"
      /\ c'[p].dir = c[p].dir
  BY <1>1, GotoEffect DEF Places
<1>6. /\ c[p].dir \in Inodes /\ is_dir[c[p].dir] /\ current_dir[p] \in Inodes /\ Place(p)
  BY <1>1, WalkerInTree
<1>7. c[p].dir # s /\ current_dir[p] # s
  BY <1>4 DEF Here, Visits
<1>8. c[p].at \in Creating /\ c[p].sector = s
  BY <1>1 DEF Creating
<1> HIDE DEF s
<1>9. /\ is_dir' \in [Inodes -> BOOLEAN] /\ parent' \in [Inodes -> Inodes \cup {NULL}]
      /\ \A t \in Inodes \ {s} : is_dir'[t] = is_dir[t] /\ parent'[t] = parent[t]
      /\ ~is_dir'[s]
  BY <1>1, <1>2 DEF DirInv, TypeInv
<1>10. TypeInv'
  BY <1>1, <1>5, <1>9 DEF DirInv, TypeInv, scope
<1>11. Staying(p)
  BY <1>1, <1>5 DEF Staying
<1>12. OthersSame(p)
  BY <1>11, StayingSame
<1>13. Place(p)'
  <2>1. is_dir'[c[p].dir] /\ is_dir'[current_dir[p]]
    BY <1>6, <1>7, <1>9 DEF Place
  <2> QED
    BY <1>1, <1>5, <1>6, <2>1, DirAssumption DEF Place, Creating, Removing, Inodes
<1>14. LockInv'
  BY <1>1, <1>5, <1>12, LockKept DEF Locking, Removing
<1>15. Counted'
  <2>1. ASSUME NEW t \in Inodes
        PROVE  open_cnt'[t] + In(p, Removes(t)) = open_cnt[t] + In(p, Removes(t)')
    <3>1. p \notin Removes(t)
      BY <1>1 DEF Removes
    <3>2. p \notin Removes(t)'
      BY <1>5 DEF Removes
    <3> QED
      BY <1>1, <3>1, <3>2 DEF In
  <2> QED
    BY <1>10, <1>11, <2>1, StayingCount
<1>16. ASSUME NEW r, r = s PROVE AloneSector(p, r)
  <2>1. \A t \in Inodes \ {r} :
          /\ is_dir'[t] = is_dir[t] /\ parent'[t] = parent[t] /\ removed'[t] = removed[t]
          /\ t \in free_map' <=> t \in free_map
          /\ open_cnt'[t] # 0 => open_cnt[t] # 0
    BY <1>1, <1>9, <1>16
  <2>2. Here(r)' = Here(r) /\ Descs(r)' = Descs(r) /\ Visits(r)' = Visits(r)
    BY <1>11, StayingSame
  <2>3. Here(r) \cup Descs(r) \cup Visits(r) = {}
    BY <1>4, <1>16
  <2>4. (Here(r) \cup Descs(r) \cup Visits(r))' = {} /\ open_cnt'[r] = 0 /\ ~removed'[r]
    BY <1>1, <1>3, <1>16, <2>2, <2>3
  <2>5. \A q \in Procs \ {p} : c[q].at \in Creating => c[q].sector # r
    BY <1>3, <1>16
  <2>6. c'[p].at \notin Creating /\ r \notin free_map'
    BY <1>1, <1>5, <1>16 DEF Creating
  <2>7. \A t \in Inodes : t \in {current_dir'[p], fds'[p], c'[p].dir} =>
                            t \in {current_dir[p], fds[p], c[p].dir}
    BY <1>1, <1>5
  <2> QED
    BY <1>1, <1>3, <1>5, <1>8, <1>9, <1>12, <1>16, <2>1, <2>4, <2>5, <2>6, <2>7 DEF AloneSector
<1> QED
  BY <1>2, <1>10, <1>13, <1>14, <1>15, <1>16, SectorStep

(* The last close of a removed inode. *)
LEMMA CloseFrees ==
  ASSUME DirInv, NEW s \in Inodes, CloseInode(s), open_cnt[s] = 1, removed[s]
  PROVE  /\ s \in Sectors /\ s \notin Named /\ s \notin Created /\ entries[s] = {}
         /\ free_map' = free_map \ {s}
         /\ is_dir' \in [Inodes -> BOOLEAN] /\ removed' \in [Inodes -> BOOLEAN]
         /\ parent' \in [Inodes -> Inodes \cup {NULL}]
         /\ ~is_dir'[s] /\ ~removed'[s] /\ open_cnt'[s] = 0
         /\ \A t \in Inodes \ {s} : /\ is_dir'[t] = is_dir[t] /\ parent'[t] = parent[t]
                                    /\ removed'[t] = removed[t] /\ open_cnt'[t] = open_cnt[t]
         /\ open_cnt' = [open_cnt EXCEPT ![s] = @ - 1]
PROOF
<1>1. s \in Sectors
  BY DEF DirInv, MapInv, Inodes
<1>2. s \notin Named
  BY NamedElim
<1>3. s \notin Created
  BY DEF Created, DirInv, CreatedInv, New, Creating
<1>4. entries[s] = {}
  <2> SUFFICES ASSUME NEW e \in entries[s] PROVE FALSE
    OBVIOUS
  <2>1. PICK n \in Comps, t \in Sectors : e = <<n, t>>
    BY DEF DirInv, TypeInv
  <2> QED
    BY <2>1 DEF DirInv, ParentInv
<1>5. /\ free_map' = free_map \ {s} /\ is_dir' = [is_dir EXCEPT ![s] = FALSE]
      /\ parent' = [parent EXCEPT ![s] = NULL] /\ open_cnt' = [open_cnt EXCEPT ![s] = @ - 1]
  BY DEF CloseInode, free_map_release
<1>6. removed' = [removed EXCEPT ![s] = FALSE]
  <2>1. removed' = [removed EXCEPT ![s] = removed[s] /\ open_cnt[s] # 1]
    BY DEF CloseInode
  <2>2. (removed[s] /\ open_cnt[s] # 1) = FALSE
    OBVIOUS
  <2> QED
    BY <2>1, <2>2
<1>7. /\ is_dir \in [Inodes -> BOOLEAN] /\ removed \in [Inodes -> BOOLEAN]
      /\ parent \in [Inodes -> Inodes \cup {NULL}] /\ open_cnt \in [Inodes -> Int]
  BY DEF DirInv, TypeInv
<1>8. /\ is_dir' \in [Inodes -> BOOLEAN] /\ ~is_dir'[s]
      /\ \A t \in Inodes \ {s} : is_dir'[t] = is_dir[t]
  BY <1>5, <1>7
<1>9. /\ removed' \in [Inodes -> BOOLEAN] /\ ~removed'[s]
      /\ \A t \in Inodes \ {s} : removed'[t] = removed[t]
  BY <1>6, <1>7
<1>10. /\ parent' \in [Inodes -> Inodes \cup {NULL}]
       /\ \A t \in Inodes \ {s} : parent'[t] = parent[t]
  BY <1>5, <1>7
<1>11. open_cnt'[s] = 0 /\ \A t \in Inodes \ {s} : open_cnt'[t] = open_cnt[t]
  BY <1>5, <1>7
<1> QED
  BY <1>1, <1>2, <1>3, <1>4, <1>5, <1>8, <1>9, <1>10, <1>11

LEMMA RemoveReleaseStep ==
  ASSUME DirInv, NEW p \in Procs, RemoveRelease(p)
  PROVE  DirInv'
PROOF
<1>1. PICK s : s = c[p].sector
  OBVIOUS
<1>2. PICK d : d = c[p].dir
  OBVIOUS
<1>3. /\ c[p].at = "release" /\ CloseInode(s) /\ lock' = [lock EXCEPT ![d] = NULL]
      /\ c' = [c EXCEPT ![p].at = "done"]
      /\ UNCHANGED <<entries, current_dir, fds, leaked, scope>>
  BY <1>1, <1>2 DEF RemoveRelease, At, Goto
<1>4. /\ d \in Inodes /\ is_dir[d] /\ current_dir[p] \in Inodes /\ Place(p)
      /\ s \in Sectors /\ s \in Inodes
  <2>1. d \in Inodes /\ is_dir[d] /\ current_dir[p] \in Inodes /\ Place(p)
    BY <1>2, <1>3, WalkerInTree
  <2> QED
    BY <1>1, <1>3, <2>1 DEF Place, Removing, Inodes
<1>5. /\ c' \in [Procs -> CallRecords] /\ Only(p) /\ c'[p].at = "done"
      /\ c'[p].dir = c[p].dir
  BY <1>3, GotoEffect DEF Places
<1>6. Staying(p)
  BY <1>3, <1>5 DEF Staying
<1>7. OthersSame(p)
  BY <1>6, StayingSame
<1>8. LockInv'
  BY <1>2, <1>3, <1>4, <1>5, <1>7, LockGiven DEF Locking, Removing
<1>9. /\ lock' \in [Inodes -> Procs \cup {NULL}] /\ open_cnt' \in [Inodes -> Int]
      /\ \A t \in Inodes : open_cnt'[t] = open_cnt[t] - Is(s, t) /\ open_cnt[t] \in Int
  <2>1. open_cnt' = [open_cnt EXCEPT ![s] = @ - 1]
    BY <1>3 DEF CloseInode
  <2> QED
    BY <1>3, <1>4, <2>1 DEF DirInv, TypeInv, Is
<1>10. p \in Removes(s)
  BY <1>1, <1>3 DEF Removes
<1>11. ASSUME TypeInv' PROVE Counted'
  <2>1. ASSUME NEW t \in Inodes
        PROVE  open_cnt'[t] + In(p, Removes(t)) = open_cnt[t] + In(p, Removes(t)')
    <3>1. p \in Removes(t) <=> s = t
      BY <1>1, <1>3 DEF Removes
    <3>2. p \notin Removes(t)'
      BY <1>5 DEF Removes
    <3>3. In(p, Removes(t)) = Is(s, t) /\ In(p, Removes(t)') = 0 /\ Is(s, t) \in Int
      BY <3>1, <3>2 DEF In, Is
    <3> QED
      BY <1>9, <3>3
  <2> QED
    BY <1>6, <1>11, <2>1, StayingCount
<1>12. CASE open_cnt[s] = 1 /\ removed[s]
  <2>1. /\ s \notin Named /\ s \notin Created /\ entries[s] = {}
        /\ free_map' = free_map \ {s}
        /\ is_dir' \in [Inodes -> BOOLEAN] /\ removed' \in [Inodes -> BOOLEAN]
        /\ parent' \in [Inodes -> Inodes \cup {NULL}]
        /\ ~is_dir'[s] /\ ~removed'[s] /\ open_cnt'[s] = 0
        /\ \A t \in Inodes \ {s} : /\ is_dir'[t] = is_dir[t] /\ parent'[t] = parent[t]
                                   /\ removed'[t] = removed[t] /\ open_cnt'[t] = open_cnt[t]
    BY <1>3, <1>4, <1>12, CloseFrees
  <2>2. TypeInv'
    BY <1>3, <1>5, <1>9, <2>1 DEF DirInv, TypeInv, scope
  <2>3. Here(s) \cup Descs(s) \cup Visits(s) = {}
    BY <1>4, <1>10, <1>12, ReferenceCounts
  <2>4. Place(p)'
    <3>1. d # s /\ current_dir[p] # s
      BY <1>2, <2>3 DEF Here, Visits
    <3>2. is_dir'[c[p].dir] /\ is_dir'[current_dir[p]]
      BY <1>2, <1>4, <2>1, <3>1 DEF Place
    <3> QED
      BY <1>3, <1>4, <1>5, <3>2 DEF Place, Creating, Removing
  <2>5. AloneSector(p, s)
    <3>1. Here(s)' = Here(s) /\ Descs(s)' = Descs(s) /\ Visits(s)' = Visits(s)
      BY <1>6, StayingSame
    <3>2. (Here(s) \cup Descs(s) \cup Visits(s))' = {}
      BY <2>3, <3>1
    <3>3. \A q \in Procs : c[q].at \in Creating => c[q].sector # s
      BY <2>1 DEF Created, Creating
    <3>4. c[p].at \notin Creating /\ c'[p].at \notin Creating /\ s \notin free_map'
      BY <1>3, <1>5, <2>1 DEF Creating
    <3>5. \A t \in Inodes : t \in {current_dir'[p], fds'[p], c'[p].dir} =>
                              t \in {current_dir[p], fds[p], c[p].dir}
      BY <1>3, <1>5
    <3>6. \A t \in Inodes \ {s} : t \in free_map' <=> t \in free_map
      BY <2>1
    <3> QED
      BY <1>3, <1>5, <1>7, <2>1, <3>2, <3>3, <3>4, <3>5, <3>6 DEF AloneSector
  <2> QED
    BY <1>4, <1>8, <1>11, <2>2, <2>4, <2>5, SectorStep
<1>13. CASE ~(open_cnt[s] = 1 /\ removed[s])
  <2>1. UNCHANGED treeVars
    BY <1>3, <1>4, <1>13, CloseKeeps DEF treeVars
  <2>2. TypeInv'
    BY <1>3, <1>5, <1>9, <2>1 DEF DirInv, TypeInv, scope, treeVars
  <2>3. Place(p)'
    BY <1>3, <1>4, <1>5, <2>1 DEF Place, Creating, Removing, treeVars
  <2>4. Entry(p)' /\ Erase(p)'
    BY <1>5 DEF Entry, Erase
  <2>5. ASSUME NEW t \in Inodes, open_cnt'[t] # 0
        PROVE  open_cnt[t] # 0
    <3>1. open_cnt[s] > 0 /\ open_cnt[s] \in Nat
      BY <1>4, <1>10, ReferenceCounts
    <3> QED
      BY <1>9, <2>5, <3>1 DEF Is
  <2>6. c'[p].at \notin Creating /\ c[p].at \notin Creating
    BY <1>3, <1>5 DEF Creating
  <2> QED
    BY <1>6, <1>8, <1>11, <2>1, <2>2, <2>3, <2>4, <2>5, <2>6, StayStep
<1> QED
  BY <1>12, <1>13

LEMMA CloseStep ==
  ASSUME DirInv, NEW p \in Procs, Close(p)
  PROVE  DirInv'
PROOF
<1>1. PICK s : s = fds[p]
  OBVIOUS
<1>2. /\ c[p].at = "idle" /\ s # NULL /\ CloseInode(s) /\ fds' = [fds EXCEPT ![p] = NULL]
      /\ UNCHANGED <<entries, lock, current_dir, c, leaked, scope>>
  BY <1>1 DEF Close, At
<1>3. /\ s \in Inodes /\ Place(p) /\ c[p].dir = NULL /\ current_dir[p] \in Inodes
  BY <1>1, <1>2 DEF DirInv, PlaceInv, Place, TypeInv
<1>4. /\ fds' \in [Procs -> Inodes \cup {NULL}] /\ fds'[p] = NULL
      /\ \A q \in Procs \ {p} : fds'[q] = fds[q]
  BY <1>2 DEF DirInv, TypeInv
<1>5. OthersSame(p) /\ Only(p)
  BY <1>2, <1>4 DEF OthersSame, Only
<1>6. open_cnt' = [open_cnt EXCEPT ![s] = @ - 1]
  BY <1>2 DEF CloseInode
<1>7. CountsMove(NULL, s, NULL)
  BY <1>2, <1>3, <1>6, CountsClosed
<1>8. ASSUME NEW t \in Inodes
      PROVE  Three(p, t) + Is(NULL, t) = Three(p, t)' + Is(s, t) + Is(NULL, t)
  <2>1. /\ Is(c[p].dir, t) = 0 /\ Is(c'[p].dir, t) = 0 /\ Is(NULL, t) = 0
        /\ Is(current_dir'[p], t) = Is(current_dir[p], t)
        /\ Is(fds[p], t) = Is(s, t) /\ Is(fds'[p], t) = 0
    BY <1>1, <1>2, <1>3, <1>4, IsNull
  <2>2. Is(current_dir[p], t) \in Int /\ Is(s, t) \in Int
    BY IsNumber
  <2> QED
    BY <2>1, <2>2 DEF Three
<1>9. p \in Descs(s)
  BY <1>1 DEF Descs
<1>10. CASE ~(open_cnt[s] = 1 /\ removed[s])
  <2>1. UNCHANGED treeVars
    BY <1>2, <1>3, <1>10, CloseKeeps DEF treeVars
  <2>2. Place(p)'
    BY <1>2, <1>3, <1>4, <2>1 DEF Place, Creating, Removing, treeVars
  <2>3. \A t \in Inodes : t \in {current_dir'[p], fds'[p], c'[p].dir} => Reached(t)
    BY <1>2, <1>4, HeldReached, DirAssumption DEF Inodes
  <2>4. Walked(p, NULL, s, NULL)
    BY <1>1, <1>2, <1>4, <1>5, <1>7, <2>1, <2>3
       DEF Walked, DirInv, TypeInv, Creating, Removing, scope
  <2> QED
    BY <1>8, <2>2, <2>4, WalkAction
<1>11. CASE open_cnt[s] = 1 /\ removed[s]
  <2>1. /\ s \in Sectors /\ s \notin Named /\ s \notin Created /\ entries[s] = {}
        /\ free_map' = free_map \ {s}
        /\ is_dir' \in [Inodes -> BOOLEAN] /\ removed' \in [Inodes -> BOOLEAN]
        /\ parent' \in [Inodes -> Inodes \cup {NULL}]
        /\ ~is_dir'[s] /\ ~removed'[s] /\ open_cnt'[s] = 0
        /\ \A t \in Inodes \ {s} : /\ is_dir'[t] = is_dir[t] /\ parent'[t] = parent[t]
                                   /\ removed'[t] = removed[t] /\ open_cnt'[t] = open_cnt[t]
    BY <1>2, <1>3, <1>11, CloseFrees
  <2>2. open_cnt' \in [Inodes -> Int]
    BY <1>7 DEF CountsMove
  <2>3. TypeInv'
    BY <1>2, <1>4, <2>1, <2>2 DEF DirInv, TypeInv, scope
  <2>4. Here(s) \cup Visits(s) = {} /\ \E x : Descs(s) = {x}
    BY <1>3, <1>9, <1>11, ReferenceCounts
  <2>5. Descs(s) = {p}
    BY <1>9, <2>4
  <2>6. current_dir[p] # s
    BY <2>4 DEF Here
  <2>7. Place(p)'
    <3>1. is_dir'[current_dir[p]]
      BY <1>3, <2>1, <2>6 DEF Place
    <3>2. NULL \notin Inodes
      BY DirAssumption DEF Inodes
    <3> QED
      BY <1>2, <1>3, <1>4, <3>1, <3>2 DEF Place, Creating, Removing
  <2>8. LockInv'
    BY <1>2, <1>5, LockKept
  <2>9. Counted'
    <3>1. ASSUME NEW t \in Inodes
          PROVE  open_cnt'[t] + leaked[t] + Three(p, t) = open_cnt[t] + leaked'[t] + Three(p, t)'
      <4>1. open_cnt'[t] = open_cnt[t] + Is(NULL, t) - Is(s, t) /\ leaked'[t] = leaked[t] + Is(NULL, t)
        BY <1>7 DEF CountsMove
      <4>2. /\ open_cnt[t] \in Int /\ leaked[t] \in Int
            /\ open_cnt'[t] \in Int /\ leaked'[t] \in Int
        BY <2>3 DEF DirInv, TypeInv
      <4>3. Three(p, t) \in Int /\ Three(p, t)' \in Int
        BY DEF Is, Three
      <4>4. Is(NULL, t) \in Int /\ Is(s, t) \in Int
        BY IsNumber
      <4> QED
        BY <1>8, <4>1, <4>2, <4>3, <4>4, Balance
    <3>2. c[p].at \notin Removing /\ c'[p].at \notin Removing
      BY <1>2 DEF Removing
    <3> QED
      BY <1>5, <2>3, <3>1, <3>2, WalkingCount
  <2>10. AloneSector(p, s)
    <3>1. \A q \in Procs : current_dir'[q] # s /\ fds'[q] # s /\ c'[q].dir # s
      <4>1. \A q \in Procs : current_dir[q] # s /\ c[q].dir # s /\ (fds[q] = s => q = p)
        BY <2>4, <2>5 DEF Here, Visits, Descs
      <4> QED
        BY <1>2, <1>4, <4>1
    <3>2. (Here(s) \cup Descs(s) \cup Visits(s))' = {}
      BY <3>1 DEF Here, Descs, Visits
    <3>3. \A q \in Procs : c[q].at \in Creating => c[q].sector # s
      BY <2>1 DEF Created, Creating
    <3>4. /\ c[p].at \notin Creating /\ c'[p].at \notin Creating /\ s \notin free_map'
          /\ c'[p].at = "idle"
      BY <1>2, <2>1 DEF Creating
    <3>5. \A t \in Inodes : t \in {current_dir'[p], fds'[p], c'[p].dir} =>
                              t \in {current_dir[p], fds[p], c[p].dir}
      BY <1>2, <1>4, DirAssumption DEF Inodes
    <3>6. \A t \in Inodes \ {s} : t \in free_map' <=> t \in free_map
      BY <2>1
    <3> QED
      BY <1>2, <1>5, <2>1, <3>2, <3>3, <3>4, <3>5, <3>6 DEF AloneSector
  <2> QED
    BY <2>1, <2>3, <2>7, <2>8, <2>9, <2>10, SectorStep
<1> QED
  BY <1>10, <1>11

-----------------------------------------------------------------------------
(* dir_add() writes the entry. *)
LEMMA AddWriteStep ==
  ASSUME DirInv, NEW p \in Procs, AddWrite(p)
  PROVE  DirInv'
PROOF
<1>1. PICK s : s = c[p].sector
  OBVIOUS
<1>2. PICK d : d = c[p].dir
  OBVIOUS
<1>3. PICK n : n = c[p].name
  OBVIOUS
<1>4. /\ c[p].at = "write" /\ parent' = [parent EXCEPT ![s] = d]
      /\ entries' = [entries EXCEPT ![d] = entries[d] \cup {<<n, s>>}]
      /\ lock' = [lock EXCEPT ![d] = NULL] /\ c' = [c EXCEPT ![p].at = "done"]
      /\ UNCHANGED <<free_map, is_dir, removed, open_cnt, current_dir, fds, leaked, scope>>
  BY <1>1, <1>2, <1>3 DEF AddWrite, At, Goto
<1>5. /\ d \in Inodes /\ is_dir[d] /\ ~removed[d] /\ open_cnt[d] > 0 /\ Place(p)
  BY <1>2, <1>4, WalkerInTree
<1>6. /\ s \in Sectors /\ s \in Inodes /\ New(p) /\ Entry(p) /\ n \in Comps \cup {""}
  BY <1>1, <1>3, <1>4, <1>5
     DEF Place, Creating, DirInv, CreatedInv, EntryInv, Inodes, TypeInv, CallRecords
<1>7. /\ s \notin Named /\ ~removed[s] /\ open_cnt[s] = 0 /\ s \in free_map
      /\ \A q \in Procs : c[q].at \in Creating /\ c[q].sector = s => q = p
  BY <1>1, <1>4, <1>6 DEF New, Creating
<1>8. n \in Comps /\ \A t \in Sectors : <<n, t>> \notin entries[d]
  BY <1>2, <1>3, <1>4, <1>6 DEF Entry
<1>9. s # d
  BY <1>5, <1>7
<1>10. /\ c' \in [Procs -> CallRecords] /\ Only(p) /\ c'[p].at = "done"
       /\ c'[p].dir = c[p].dir
  BY <1>4, GotoEffect DEF Places
<1>11. Staying(p)
  BY <1>4, <1>10 DEF Staying
<1>12. OthersSame(p)
  BY <1>11, StayingSame
<1>13. /\ parent' \in [Inodes -> Inodes \cup {NULL}] /\ parent'[s] = d
       /\ \A t \in Inodes \ {s} : parent'[t] = parent[t]
  BY <1>4, <1>5, <1>6 DEF DirInv, TypeInv
<1>14. /\ entries' \in [Inodes -> SUBSET (Comps \X Sectors)]
       /\ entries'[d] = entries[d] \cup {<<n, s>>}
       /\ \A t \in Inodes \ {d} : entries'[t] = entries[t]
  <2>1. entries \in [Inodes -> SUBSET (Comps \X Sectors)]
    BY DEF DirInv, TypeInv
  <2>2. <<n, s>> \in Comps \X Sectors
    BY <1>6, <1>8
  <2> DEFINE x == entries[d] \cup {<<n, s>>}
  <2>3. x \in SUBSET (Comps \X Sectors)
    BY <1>5, <2>1, <2>2
  <2>4. entries' = [entries EXCEPT ![d] = x]
    BY <1>4
  <2> HIDE DEF x
  <2>5. /\ entries' \in [Inodes -> SUBSET (Comps \X Sectors)] /\ entries'[d] = x
        /\ \A t \in Inodes \ {d} : entries'[t] = entries[t]
    BY <1>5, <2>1, <2>3, <2>4
  <2> QED
    BY <2>5 DEF x
<1>15. lock' \in [Inodes -> Procs \cup {NULL}]
  BY <1>4 DEF DirInv, TypeInv
<1>16. TypeInv'
  BY <1>4, <1>10, <1>13, <1>14, <1>15 DEF DirInv, TypeInv, scope
<1>17. \A e \in Inodes : \A m, t : <<m, t>> \in entries'[e] <=>
                                 <<m, t>> \in entries[e] \/ (e = d /\ m = n /\ t = s)
  BY <1>14
<1>18. \A t : t \in Named' <=> t \in Named \/ t = s
  <2>1. ASSUME NEW t \in Named PROVE t \in Named'
    <3>1. parent[t] \in Inodes /\ \E m \in Comps : <<m, t>> \in entries[parent[t]]
      BY NamedElim
    <3>2. PICK e \in Inodes, m \in Comps : <<m, t>> \in entries[e]
      BY <3>1
    <3>3. <<m, t>> \in entries'[e]
      BY <1>17, <3>2
    <3> QED
      BY <3>3, NamedAfter
  <2>2. s \in Named'
    BY <1>5, <1>14, NamedAfter
  <2>3. ASSUME NEW t \in Named', t # s PROVE t \in Named
    <3>1. PICK e \in Inodes, m \in Comps : <<m, t>> \in entries'[e] /\ t \in Sectors
      BY <1>16, NamedBefore
    <3>2. <<m, t>> \in entries[e]
      BY <1>17, <2>3, <3>1
    <3> QED
      BY <3>2, NamedIntro
  <2> QED
    BY <2>1, <2>2, <2>3
<1>19. PlaceInv'
  <2>1. Place(p)'
    BY <1>4, <1>5, <1>10 DEF Place, Creating, Removing
  <2> QED
    BY <1>4, <1>12, <2>1, PlaceKept
<1>20. LockInv'
  BY <1>2, <1>4, <1>5, <1>10, <1>12, LockGiven DEF Locking, Removing
<1>21. EntryInv'
  <2> SUFFICES ASSUME NEW q \in Procs PROVE Entry(q)'
    BY DEF EntryInv
  <2>1. CASE q = p
    BY <1>10, <2>1 DEF Entry
  <2>2. CASE q # p
    <3>1. c'[q] = c[q] /\ Entry(q)
      BY <1>12, <2>2 DEF OthersSame, DirInv, EntryInv
    <3>2. c[q].at \in Locking => c[q].dir \in Inodes
      BY DEF Locking, Removing, DirInv, PlaceInv, Place, TypeInv, CallRecords
    <3>3. c[q].at \in Locking => c[q].dir # d
      <4>1. lock[d] = p
        BY <1>2, <1>4, <1>5 DEF DirInv, LockInv, Locking
      <4> QED
        BY <1>5, <2>2, <4>1 DEF DirInv, LockInv
    <3>4. c[q].at \in Locking => entries'[c[q].dir] = entries[c[q].dir]
      BY <1>14, <3>2, <3>3
    <3> USE DEF Entry
    <3>5. c'[q].at \in {"empty", "opened", "erase"} =>
            <<c'[q].name, c'[q].sector>> \in entries'[c'[q].dir]
      BY <3>1, <3>4 DEF Locking, Removing
    <3>6. c'[q].at = "write" =>
            c'[q].name # "" /\ \A t \in Sectors : <<c'[q].name, t>> \notin entries'[c'[q].dir]
      BY <3>1, <3>4 DEF Locking, Removing
    <3> QED
      BY <3>5, <3>6
  <2> QED
    BY <2>1, <2>2
<1>22. CreatedInv'
  <2> SUFFICES ASSUME NEW q \in Procs, c'[q].at \in Creating
               PROVE  /\ c'[q].sector \in free_map' \ Named' /\ ~removed'[c'[q].sector]
                      /\ entries'[c'[q].sector] = {} /\ open_cnt'[c'[q].sector] = 0
                      /\ \A r \in Procs : c'[r].at \in Creating /\ c'[r].sector = c'[q].sector
                                            => r = q
    BY DEF CreatedInv, New
  <2>1. q # p /\ c'[q] = c[q] /\ \A r \in Procs : c'[r].at \in Creating => c'[r] = c[r]
    BY <1>10, <1>12 DEF OthersSame, Creating
  <2>2. PICK t : t = c[q].sector
    OBVIOUS
  <2>3. /\ t \in free_map \ Named /\ ~removed[t] /\ entries[t] = {} /\ open_cnt[t] = 0
        /\ \A r \in Procs : c[r].at \in Creating /\ c[r].sector = t => r = q
    BY <2>1, <2>2 DEF DirInv, CreatedInv, New
  <2>4. c'[q].sector = t
    BY <2>1, <2>2
  <2>5. t # s /\ t # d /\ t \in Inodes
    BY <1>5, <1>7, <2>1, <2>2, <2>3 DEF DirInv, TypeInv
  <2>6. t \in free_map' /\ t \notin Named' /\ ~removed'[t] /\ entries'[t] = {}
    BY <1>4, <1>14, <1>18, <2>3, <2>5
  <2>7. open_cnt'[t] = 0
    BY <1>4, <2>3
  <2>8. \A r \in Procs : c'[r].at \in Creating /\ c'[r].sector = t => r = q
    BY <2>1, <2>3
  <2> QED
    BY <2>4, <2>6, <2>7, <2>8
<1>23. EraseInv' /\ RemovedInv'
  <2>1. \A t : Here(t)' = Here(t) /\ Descs(t)' = Descs(t) /\ Visits(t)' = Visits(t)
    BY <1>11, StayingSame
  <2>2. RemovedInv'
    BY <1>4, <2>1 DEF DirInv, RemovedInv
  <2>3. EraseInv'
    <3> SUFFICES ASSUME NEW q \in Procs, NEW t, t = c'[q].sector, c'[q].at = "erase", is_dir'[t]
                 PROVE  Here(t)' \cup Descs(t)' \cup Visits(t)' = {}
      BY DEF EraseInv, Erase, Here, Descs, Visits
    <3>1. c'[q] = c[q] /\ t = c[q].sector /\ is_dir[t]
      BY <1>4, <1>10, <1>12 DEF OthersSame
    <3> QED
      BY <2>1, <3>1 DEF DirInv, EraseInv, Erase
  <2> QED
    BY <2>2, <2>3
<1>24. OpenInv'
  BY <1>4, <1>18 DEF DirInv, OpenInv
<1>25. NameInv'
  <2> SUFFICES ASSUME NEW e \in Inodes, NEW m \in Comps, NEW o \in Comps,
                      NEW t \in Sectors, NEW u \in Sectors,
                      <<m, t>> \in entries'[e], <<o, u>> \in entries'[e]
               PROVE  m = o <=> t = u
    BY DEF NameInv
  <2>1. \A k \in Comps : <<k, s>> \notin entries[e]
    BY <1>7, NamedIntro
  <2> QED
    BY <1>8, <1>17, <2>1 DEF DirInv, NameInv
<1>26. ParentInv'
  <2> SUFFICES ASSUME NEW e \in Inodes, NEW m \in Comps, NEW t \in Sectors, <<m, t>> \in entries'[e]
               PROVE  is_dir[e] /\ ~removed[e] /\ parent'[t] = e /\ ~removed[t]
    BY <1>4 DEF ParentInv
  <2>1. CASE e = d /\ m = n /\ t = s
    BY <1>5, <1>7, <1>13, <2>1
  <2>2. CASE <<m, t>> \in entries[e]
    <3>1. t \in Named
      BY <2>2, NamedIntro
    <3>2. t # s /\ t \in Inodes
      BY <1>7, <3>1 DEF Inodes
    <3> QED
      BY <1>13, <2>2, <3>2 DEF DirInv, ParentInv
  <2> QED
    BY <1>17, <2>1, <2>2
<1>27. MapInv'
  <2>1. Root # s /\ Root \in Inodes
    BY <1>6, DirAssumption DEF Inodes
  <2>2. ASSUME NEW t, t # s PROVE t \in Created' <=> t \in Created
    <3>1. \A q \in Procs \ {p} : c'[q] = c[q]
      BY <1>12 DEF OthersSame
    <3>2. c'[p].at \notin Creating /\ c[p].sector = s
      BY <1>1, <1>10 DEF Creating
    <3> QED
      BY <2>2, <3>1, <3>2 DEF Created, Creating
  <2>3. Root \in free_map' /\ is_dir'[Root] /\ ~removed'[Root] /\ parent'[Root] = NULL
    BY <1>4, <1>13, <2>1 DEF DirInv, MapInv
  <2>4. ASSUME NEW t \in Sectors
        PROVE  t \in free_map' <=> t \in Named' \/ t \in Created' \/ removed'[t]
    <3>1. CASE t = s
      BY <1>4, <1>7, <1>18, <3>1
    <3>2. CASE t # s
      BY <1>4, <1>18, <2>2, <3>2 DEF DirInv, MapInv
    <3> QED
      BY <3>1, <3>2
  <2>5. \A t \in Sectors : is_dir'[t] => t \in free_map'
    BY <1>4 DEF DirInv, MapInv
  <2> QED
    BY <2>3, <2>4, <2>5 DEF MapInv
<1>28. Counted'
  <2>1. ASSUME NEW t \in Inodes
        PROVE  open_cnt'[t] + In(p, Removes(t)) = open_cnt[t] + In(p, Removes(t)')
    <3>1. p \notin Removes(t)
      BY <1>4 DEF Removes
    <3>2. p \notin Removes(t)'
      BY <1>10 DEF Removes
    <3> QED
      BY <1>4, <3>1, <3>2 DEF In
  <2> QED
    BY <1>11, <1>16, <2>1, StayingCount
<1> QED
  BY <1>16, <1>19, <1>20, <1>21, <1>22, <1>23, <1>24, <1>25, <1>26, <1>27, <1>28 DEF DirInv

(***************************************************************************)
(* The entry is erased and the inode removed: nobody is in it, if it is a  *)
(* directory, and it has no entries of its own.                            *)
(***************************************************************************)
LEMMA RemoveEraseStep ==
  ASSUME DirInv, NEW p \in Procs, RemoveErase(p), ~orphaned'
  PROVE  DirInv'
PROOF
<1>1. PICK s : s = c[p].sector
  OBVIOUS
<1>2. PICK d : d = c[p].dir
  OBVIOUS
<1>3. PICK n : n = c[p].name
  OBVIOUS
<1>4. /\ c[p].at = "erase" /\ removed' = [removed EXCEPT ![s] = TRUE]
      /\ entries' = [entries EXCEPT ![d] = entries[d] \ {<<n, s>>}]
      /\ c' = [c EXCEPT ![p].at = "release"]
      /\ UNCHANGED <<free_map, is_dir, parent, open_cnt, lock, current_dir, fds, leaked, dangling>>
  BY <1>1, <1>2, <1>3 DEF RemoveErase, At, Goto
<1>5. /\ d \in Inodes /\ is_dir[d] /\ ~removed[d] /\ open_cnt[d] > 0 /\ Place(p)
  BY <1>2, <1>4, WalkerInTree
<1>6. /\ s \in Sectors /\ s \in Inodes /\ Entry(p) /\ Erase(p)
  BY <1>1, <1>4, <1>5 DEF Place, Removing, DirInv, EraseInv, EntryInv, Inodes
<1>7. <<n, s>> \in entries[d] /\ (is_dir[s] => Here(s) \cup Descs(s) \cup Visits(s) = {})
  BY <1>1, <1>2, <1>3, <1>4, <1>6 DEF Entry, Erase
<1>8. s \in Named
  BY <1>5, <1>7, NamedIntro
<1>9. entries[s] = {} /\ orphaned' \in BOOLEAN
  BY <1>1 DEF RemoveErase, DirInv, TypeInv
<1>10. n \in Comps /\ parent[s] = d
  <2>1. <<n, s>> \in Comps \X Sectors
    BY <1>5, <1>7 DEF DirInv, TypeInv
  <2>2. n \in Comps
    BY <2>1
  <2> QED
    BY <1>5, <1>6, <1>7, <2>2 DEF DirInv, ParentInv
<1>11. /\ c' \in [Procs -> CallRecords] /\ Only(p) /\ c'[p].at = "release"
       /\ c'[p].dir = c[p].dir /\ c'[p].sector = c[p].sector
  BY <1>4, GotoEffect DEF Places, Removing
<1>12. Staying(p)
  BY <1>4, <1>11 DEF Staying
<1>13. OthersSame(p)
  BY <1>12, StayingSame
<1>14. /\ removed' \in [Inodes -> BOOLEAN] /\ removed'[s]
       /\ \A t \in Inodes \ {s} : removed'[t] = removed[t]
  BY <1>4, <1>6 DEF DirInv, TypeInv
<1>15. /\ entries' \in [Inodes -> SUBSET (Comps \X Sectors)]
       /\ entries'[d] = entries[d] \ {<<n, s>>}
       /\ \A t \in Inodes \ {d} : entries'[t] = entries[t]
  <2>1. entries \in [Inodes -> SUBSET (Comps \X Sectors)]
    BY DEF DirInv, TypeInv
  <2> DEFINE x == entries[d] \ {<<n, s>>}
  <2>2. x \in SUBSET (Comps \X Sectors)
    BY <1>5, <2>1
  <2>3. entries' = [entries EXCEPT ![d] = x]
    BY <1>4
  <2> HIDE DEF x
  <2>4. /\ entries' \in [Inodes -> SUBSET (Comps \X Sectors)] /\ entries'[d] = x
        /\ \A t \in Inodes \ {d} : entries'[t] = entries[t]
    BY <1>5, <2>1, <2>2, <2>3
  <2> QED
    BY <2>4 DEF x
<1>16. TypeInv'
  <2>1. dangling' \in BOOLEAN
    BY <1>4 DEF DirInv, TypeInv
  <2> QED
    BY <1>4, <1>9, <1>11, <1>14, <1>15, <2>1 DEF DirInv, TypeInv
<1>17. \A e \in Inodes : \A m, t : <<m, t>> \in entries'[e] <=>
                                 <<m, t>> \in entries[e] /\ ~(e = d /\ m = n /\ t = s)
  BY <1>15
<1>18. \A e \in Inodes, m \in Comps, t \in Sectors :
         <<m, t>> \in entries'[e] => <<m, t>> \in entries[e] /\ t # s /\ e # s
  <2> SUFFICES ASSUME NEW e \in Inodes, NEW m \in Comps, NEW t \in Sectors,
                      <<m, t>> \in entries'[e]
               PROVE  <<m, t>> \in entries[e] /\ t # s /\ e # s
    OBVIOUS
  <2>1. <<m, t>> \in entries[e] /\ ~(e = d /\ m = n /\ t = s)
    BY <1>17
  <2>2. t = s => e = d
    BY <1>10, <2>1 DEF DirInv, ParentInv
  <2>3. t = s /\ e = d => m = n
    BY <1>7, <1>10, <2>1 DEF DirInv, NameInv
  <2> QED
    BY <1>9, <2>1, <2>2, <2>3
<1>19. \A t : t \in Named' <=> t \in Named /\ t # s
  <2>1. ASSUME NEW t \in Named, t # s PROVE t \in Named'
    <3>1. parent[t] \in Inodes /\ \E m \in Comps : <<m, t>> \in entries[parent[t]]
      BY NamedElim
    <3>2. PICK e \in Inodes, m \in Comps : <<m, t>> \in entries[e]
      BY <3>1
    <3>3. <<m, t>> \in entries'[e]
      BY <1>17, <2>1, <3>2
    <3> QED
      BY <3>3, NamedAfter
  <2>2. ASSUME NEW t \in Named' PROVE t \in Named /\ t # s
    <3>1. PICK e \in Inodes, m \in Comps : <<m, t>> \in entries'[e] /\ t \in Sectors
      BY <1>16, NamedBefore
    <3>2. <<m, t>> \in entries[e] /\ t # s
      BY <1>18, <3>1
    <3> QED
      BY <3>2, NamedIntro
  <2> QED
    BY <2>1, <2>2
<1>20. PlaceInv'
  <2>1. Place(p)'
    BY <1>4, <1>5, <1>11 DEF Place, Creating, Removing
  <2> QED
    BY <1>4, <1>13, <2>1, PlaceKept
<1>21. LockInv'
  BY <1>4, <1>11, <1>13, LockKept DEF Locking, Removing
<1>22. EntryInv'
  <2> SUFFICES ASSUME NEW q \in Procs PROVE Entry(q)'
    BY DEF EntryInv
  <2>1. CASE q = p
    BY <1>11, <2>1 DEF Entry
  <2>2. CASE q # p
    <3>1. c'[q] = c[q] /\ Entry(q)
      BY <1>13, <2>2 DEF OthersSame, DirInv, EntryInv
    <3>2. c[q].at \in Locking => c[q].dir \in Inodes
      BY DEF Locking, Removing, DirInv, PlaceInv, Place, TypeInv, CallRecords
    <3>3. c[q].at \in Locking => c[q].dir # d
      <4>1. lock[d] = p
        BY <1>2, <1>4, <1>5 DEF DirInv, LockInv, Locking, Removing
      <4> QED
        BY <1>5, <2>2, <4>1 DEF DirInv, LockInv
    <3>4. c[q].at \in Locking => entries'[c[q].dir] = entries[c[q].dir]
      BY <1>15, <3>2, <3>3
    <3> USE DEF Entry
    <3>5. c'[q].at \in {"empty", "opened", "erase"} =>
            <<c'[q].name, c'[q].sector>> \in entries'[c'[q].dir]
      BY <3>1, <3>4 DEF Locking, Removing
    <3>6. c'[q].at = "write" =>
            c'[q].name # "" /\ \A t \in Sectors : <<c'[q].name, t>> \notin entries'[c'[q].dir]
      BY <3>1, <3>4 DEF Locking, Removing
    <3> QED
      BY <3>5, <3>6
  <2> QED
    BY <2>1, <2>2
<1>23. CreatedInv'
  <2> SUFFICES ASSUME NEW q \in Procs, c'[q].at \in Creating
               PROVE  /\ c'[q].sector \in free_map' \ Named' /\ ~removed'[c'[q].sector]
                      /\ entries'[c'[q].sector] = {} /\ open_cnt'[c'[q].sector] = 0
                      /\ \A r \in Procs : c'[r].at \in Creating /\ c'[r].sector = c'[q].sector
                                            => r = q
    BY DEF CreatedInv, New
  <2>1. q # p /\ c'[q] = c[q] /\ \A r \in Procs : c'[r].at \in Creating => c'[r] = c[r]
    BY <1>11, <1>13 DEF OthersSame, Creating
  <2>2. PICK t : t = c[q].sector
    OBVIOUS
  <2>3. /\ t \in free_map \ Named /\ ~removed[t] /\ entries[t] = {} /\ open_cnt[t] = 0
        /\ \A r \in Procs : c[r].at \in Creating /\ c[r].sector = t => r = q
    BY <2>1, <2>2 DEF DirInv, CreatedInv, New
  <2>4. c'[q].sector = t
    BY <2>1, <2>2
  <2>5. t # s /\ t # d /\ t \in Inodes
    BY <1>5, <1>8, <2>3 DEF DirInv, TypeInv
  <2>6. t \in free_map' /\ t \notin Named' /\ ~removed'[t] /\ entries'[t] = {}
    BY <1>4, <1>14, <1>15, <1>19, <2>3, <2>5
  <2>7. open_cnt'[t] = 0
    BY <1>4, <2>3
  <2>8. \A r \in Procs : c'[r].at \in Creating /\ c'[r].sector = t => r = q
    BY <2>1, <2>3
  <2> QED
    BY <2>4, <2>6, <2>7, <2>8
<1>24. EraseInv' /\ RemovedInv'
  <2>1. \A t : Here(t)' = Here(t) /\ Descs(t)' = Descs(t) /\ Visits(t)' = Visits(t)
    BY <1>12, StayingSame
  <2>2. RemovedInv'
    <3> SUFFICES ASSUME NEW t \in Sectors, is_dir[t], removed'[t]
                 PROVE  Here(t)' \cup Descs(t)' \cup Visits(t)' = {}
      BY <1>4 DEF RemovedInv
    <3>1. t \in Inodes
      BY DEF Inodes
    <3>2. t = s \/ removed[t]
      BY <1>14, <3>1
    <3> QED
      BY <1>7, <2>1, <3>2 DEF DirInv, RemovedInv
  <2>3. EraseInv'
    <3> SUFFICES ASSUME NEW q \in Procs, NEW t, t = c'[q].sector, c'[q].at = "erase", is_dir'[t]
                 PROVE  Here(t)' \cup Descs(t)' \cup Visits(t)' = {}
      BY DEF EraseInv, Erase, Here, Descs, Visits
    <3>1. c'[q] = c[q] /\ t = c[q].sector /\ is_dir[t]
      BY <1>4, <1>11, <1>13 DEF OthersSame
    <3> QED
      BY <2>1, <3>1 DEF DirInv, EraseInv, Erase
  <2> QED
    BY <2>2, <2>3
<1>25. OpenInv'
  <2> SUFFICES ASSUME NEW t \in Sectors, open_cnt[t] # 0 PROVE t \in Named' \/ removed'[t]
    BY <1>4 DEF OpenInv
  <2>1. t \in Inodes /\ (t \in Named \/ removed[t])
    BY DEF DirInv, OpenInv, Inodes
  <2> QED
    BY <1>14, <1>19, <2>1
<1>26. NameInv'
  <2> SUFFICES ASSUME NEW e \in Inodes, NEW m \in Comps, NEW o \in Comps,
                      NEW t \in Sectors, NEW u \in Sectors,
                      <<m, t>> \in entries'[e], <<o, u>> \in entries'[e]
               PROVE  m = o <=> t = u
    BY DEF NameInv
  <2> QED
    BY <1>18 DEF DirInv, NameInv
<1>27. ParentInv'
  <2> SUFFICES ASSUME NEW e \in Inodes, NEW m \in Comps, NEW t \in Sectors, <<m, t>> \in entries'[e]
               PROVE  is_dir[e] /\ ~removed'[e] /\ parent[t] = e /\ ~removed'[t]
    BY <1>4 DEF ParentInv
  <2>1. <<m, t>> \in entries[e] /\ t # s /\ e # s /\ t \in Inodes
    BY <1>18 DEF Inodes
  <2>2. is_dir[e] /\ ~removed[e] /\ parent[t] = e /\ ~removed[t]
    BY <2>1 DEF DirInv, ParentInv
  <2> QED
    BY <1>14, <2>1, <2>2
<1>28. MapInv'
  <2>1. Root # s /\ Root \in Inodes
    BY <1>6, DirAssumption DEF Inodes
  <2>2. \A t : t \in Created' <=> t \in Created
    <3>1. \A q \in Procs \ {p} : c'[q] = c[q]
      BY <1>13 DEF OthersSame
    <3>2. c'[p].at \notin Creating /\ c[p].at \notin Creating
      BY <1>4, <1>11 DEF Creating
    <3> QED
      BY <3>1, <3>2 DEF Created, Creating
  <2>3. Root \in free_map' /\ is_dir'[Root] /\ ~removed'[Root] /\ parent'[Root] = NULL
    BY <1>4, <1>14, <2>1 DEF DirInv, MapInv
  <2>4. ASSUME NEW t \in Sectors
        PROVE  t \in free_map' <=> t \in Named' \/ t \in Created' \/ removed'[t]
    <3>1. t \in free_map <=> t \in Named \/ t \in Created \/ removed[t]
      BY DEF DirInv, MapInv
    <3>2. CASE t = s
      BY <1>4, <1>8, <1>14, <3>1, <3>2
    <3>3. CASE t # s
      <4>1. t \in Inodes
        BY DEF Inodes
      <4> QED
        BY <1>4, <1>14, <1>19, <2>2, <3>1, <3>3, <4>1
    <3> QED
      BY <3>2, <3>3
  <2>5. \A t \in Sectors : is_dir'[t] => t \in free_map'
    BY <1>4 DEF DirInv, MapInv
  <2> QED
    BY <2>3, <2>4, <2>5 DEF MapInv
<1>29. Counted'
  <2>1. ASSUME NEW t \in Inodes
        PROVE  open_cnt'[t] + In(p, Removes(t)) = open_cnt[t] + In(p, Removes(t)')
    <3>1. p \in Removes(t) <=> s = t
      BY <1>1, <1>4 DEF Removes
    <3>2. p \in Removes(t)' <=> s = t
      BY <1>1, <1>11 DEF Removes
    <3> QED
      BY <1>4, <3>1, <3>2 DEF In
  <2> QED
    BY <1>12, <1>16, <2>1, StayingCount
<1> QED
  BY <1>16, <1>20, <1>21, <1>22, <1>23, <1>24, <1>25, <1>26, <1>27, <1>28, <1>29 DEF DirInv

-----------------------------------------------------------------------------
(* All steps together. *)

LEMMA DirInit == Init => DirInv
PROOF
<1> SUFFICES ASSUME Init PROVE DirInv
  OBVIOUS
<1>1. Root \in Inodes /\ Root \notin Sectors /\ NULL \notin Inodes
  BY DirAssumption DEF Inodes
<1>2. Idle \in CallRecords
  BY DEF Idle, CallRecords, Places, Ops
<1>3. Idle.at = "idle" /\ Idle.dir = NULL
  BY DEF Idle
<1>4. \A p \in Procs : c[p].at = "idle" /\ c[p].dir = NULL
  BY <1>3 DEF Init
<1>5. Cardinality(Procs) \in Nat
  BY DirAssumption, FS_CardinalityType
<1>6. TypeInv
  <2>1. dangling \in BOOLEAN /\ orphaned \in BOOLEAN
    BY DEF Init
  <2>2. is_dir \in [Inodes -> BOOLEAN] /\ removed \in [Inodes -> BOOLEAN]
    BY DEF Init
  <2>3. open_cnt \in [Inodes -> Int] /\ leaked \in [Inodes -> Nat]
    BY <1>5 DEF Init
  <2> QED
    BY <1>1, <1>2, <2>1, <2>2, <2>3 DEF Init, TypeInv
<1>7. PlaceInv
  BY <1>1, <1>4 DEF Init, PlaceInv, Place, Creating, Removing
<1>8. LockInv /\ EntryInv /\ CreatedInv /\ EraseInv
  <2>1. LockInv
    BY <1>4, DirAssumption DEF Init, LockInv, Locking, Removing
  <2>2. EntryInv
    BY <1>4 DEF EntryInv, Entry
  <2>3. CreatedInv /\ EraseInv
    BY <1>4 DEF CreatedInv, New, Creating, EraseInv, Erase
  <2> QED
    BY <2>1, <2>2, <2>3
<1>9. Named = {} /\ Created = {}
  BY <1>4 DEF Init, Named, Created
<1>10. OpenInv /\ NameInv /\ ParentInv /\ RemovedInv
  BY <1>1 DEF Init, OpenInv, NameInv, ParentInv, RemovedInv, Inodes
<1>11. MapInv
  BY <1>1, <1>9 DEF Init, MapInv, Inodes
<1>12. Counted
  <2> SUFFICES ASSUME NEW s \in Inodes
               PROVE  open_cnt[s] = leaked[s] + Cardinality(Here(s)) + Cardinality(Descs(s))
                                      + Cardinality(Visits(s)) + Cardinality(Removes(s))
    BY DEF Counted
  <2>1. Here(s) = IF s = Root THEN Procs ELSE {}
    BY DEF Init, Here
  <2>2. Descs(s) = {} /\ Visits(s) = {}
    BY <1>1, <1>4 DEF Init, Descs, Visits
  <2>3. Removes(s) = {}
    BY <1>4 DEF Removes
  <2>4. open_cnt[s] = (IF s = Root THEN Cardinality(Procs) ELSE 0) /\ leaked[s] = 0
    BY DEF Init
  <2>5. Cardinality({}) = 0
    BY FS_EmptySet
  <2>6. Cardinality(Here(s)) = open_cnt[s]
    BY <2>1, <2>4, <2>5
  <2>7. open_cnt[s] \in Nat
    BY <1>5, <2>4
  <2> QED
    BY <2>2, <2>3, <2>4, <2>5, <2>6, <2>7
<1> QED
  BY <1>6, <1>7, <1>8, <1>10, <1>11, <1>12 DEF DirInv

(* Who has left the tree does not come back. *)
LEMMA SoundStays == [Next]_vars /\ Sound' => Sound
PROOF
<1> SUFFICES ASSUME [Next]_vars, Sound' PROVE Sound
  OBVIOUS
<1>1. CASE UNCHANGED vars
  BY <1>1 DEF vars, Sound
<1>2. ASSUME NEW p \in Procs, ChdirDotDot(p) PROVE Sound
  BY <1>2 DEF ChdirDotDot, Sound
<1>3. ASSUME NEW p \in Procs, RemoveErase(p) PROVE Sound
  BY <1>3 DEF RemoveErase, Sound
<1>4. ASSUME UNCHANGED scope PROVE Sound
  BY <1>4 DEF scope, Sound
<1>5. ASSUME NEW p \in Procs, NEW s \in Sectors, CreateInode(p, s) PROVE UNCHANGED scope
  BY <1>5 DEF CreateInode
<1>6. ASSUME NEW p \in Procs, Step(p) PROVE Sound
  <2>1. CASE WalkDot(p) \/ WalkParent(p) \/ WalkName(p) \/ Done(p) \/ CreateFails(p)
    BY <1>4, <2>1 DEF WalkDot, WalkParent, WalkName, Done, CreateFails
  <2>2. CASE AddLock(p) \/ AddWrite(p) \/ Undo(p) \/ RemoveLock(p) \/ RemoveEmpty(p)
    BY <1>4, <2>2 DEF AddLock, AddWrite, Undo, RemoveLock, RemoveEmpty
  <2>3. CASE RemoveOpened(p) \/ RemoveRelease(p) \/ OpenItself(p) \/ OpenDotDot(p) \/ OpenName(p)
    BY <1>4, <2>3 DEF RemoveOpened, RemoveRelease, OpenItself, OpenDotDot, OpenName
  <2>4. CASE ChdirItself(p) \/ ChdirName(p)
    BY <1>4, <2>4 DEF ChdirItself, ChdirName
  <2> QED
    BY <1>2, <1>3, <1>4, <1>5, <1>6, <2>1, <2>2, <2>3, <2>4 DEF Step
<1>7. ASSUME NEW p \in Procs, Close(p) \/ Exit(p) PROVE Sound
  BY <1>4, <1>7 DEF Close, Exit
<1>8. ASSUME NEW p \in Procs, NEW child \in Procs, Create(p, child) PROVE Sound
  BY <1>4, <1>8 DEF Create
<1>9. ASSUME NEW p \in Procs, NEW op, NEW absolute, NEW path, Call(p, op, absolute, path)
      PROVE  Sound
  BY <1>4, <1>9 DEF Call
<1> QED
  BY <1>1, <1>6, <1>7, <1>8, <1>9 DEF Next

LEMMA DirNext == DirInv /\ [Next]_vars /\ Sound' => DirInv'
PROOF
<1> SUFFICES ASSUME DirInv, [Next]_vars, ~dangling', ~orphaned' PROVE DirInv'
  BY DEF Sound
<1>1. CASE UNCHANGED vars
  <2>1. /\ UNCHANGED <<free_map, is_dir, parent, entries, removed>>
        /\ UNCHANGED <<open_cnt, lock, current_dir, fds, c, leaked, dangling, orphaned>>
    BY <1>1 DEF vars, treeVars
  <2>2. Named' = Named /\ Created' = Created
    BY <2>1 DEF Named, Created
  <2>3. \A s : /\ Here(s)' = Here(s) /\ Descs(s)' = Descs(s) /\ Visits(s)' = Visits(s)
               /\ Removes(s)' = Removes(s)
    BY <2>1 DEF Here, Descs, Visits, Removes
  <2>4. TypeInv' /\ PlaceInv'
    BY <2>1 DEF DirInv, TypeInv, PlaceInv, Place
  <2>5. LockInv' /\ EntryInv' /\ CreatedInv'
    BY <2>1, <2>2 DEF DirInv, LockInv, EntryInv, Entry, CreatedInv, New
  <2>6. EraseInv' /\ RemovedInv'
    BY <2>1 DEF DirInv, EraseInv, Erase, RemovedInv, Here, Descs, Visits
  <2>7. OpenInv' /\ NameInv' /\ ParentInv' /\ MapInv'
    BY <2>1, <2>2 DEF DirInv, OpenInv, NameInv, ParentInv, MapInv
  <2>8. Counted'
    BY <2>1, <2>3 DEF DirInv, Counted
  <2> QED
    BY <2>4, <2>5, <2>6, <2>7, <2>8 DEF DirInv
<1>2. ASSUME NEW p \in Procs, Step(p) PROVE DirInv'
  <2>1. ASSUME NEW s \in Sectors, CreateInode(p, s) PROVE DirInv'
    BY <2>1, CreateInodeStep
  <2>2. CASE WalkDot(p) \/ WalkParent(p) \/ WalkName(p) \/ Done(p) \/ CreateFails(p)
    BY <2>2, WalkDotStep, WalkParentStep, WalkNameStep, DoneStep, CreateFailsStep
  <2>3. CASE AddLock(p) \/ AddWrite(p) \/ Undo(p)
    BY <2>3, AddLockStep, AddWriteStep, UndoStep
  <2>4. CASE RemoveLock(p) \/ RemoveEmpty(p) \/ RemoveOpened(p) \/ RemoveErase(p)
               \/ RemoveRelease(p)
    BY <2>4, RemoveLockStep, RemoveEmptyStep, RemoveOpenedStep, RemoveEraseStep,
       RemoveReleaseStep
  <2>5. CASE OpenItself(p) \/ OpenDotDot(p) \/ OpenName(p)
    BY <2>5, OpenItselfStep, OpenDotDotStep, OpenNameStep
  <2>6. CASE ChdirItself(p) \/ ChdirDotDot(p) \/ ChdirName(p)
    BY <2>6, ChdirItselfStep, ChdirDotDotStep, ChdirNameStep
  <2> QED
    BY <1>2, <2>1, <2>2, <2>3, <2>4, <2>5, <2>6 DEF Step
<1>3. ASSUME NEW p \in Procs, Close(p) \/ Exit(p) PROVE DirInv'
  BY <1>3, CloseStep, ExitStep
<1>4. ASSUME NEW p \in Procs, NEW child \in Procs, Create(p, child) PROVE DirInv'
  BY <1>4, CreateStep
<1>5. ASSUME NEW p \in Procs, NEW op \in {"create", "mkdir", "remove", "open", "chdir"},
             NEW absolute \in BOOLEAN, NEW path \in Paths, Call(p, op, absolute, path)
      PROVE  DirInv'
  <2>1. op \in Ops \ {"none"}
    BY DEF Ops
  <2> QED
    BY <1>5, <2>1, CallStep
<1> QED
  BY <1>1, <1>2, <1>3, <1>4, <1>5 DEF Next

LEMMA DirAlways == Spec => [](Sound => DirInv)
PROOF
<1> DEFINE J == Sound => DirInv
<1>1. Init => J
  BY DirInit
<1>2. J /\ [Next]_vars => J'
  BY SoundStays, DirNext
<1> QED
  BY <1>1, <1>2, PTL DEF Spec

(* The three properties are parts of the invariant. *)
LEMMA CountPart == (Sound => DirInv) => CountInv
PROOF
  BY DEF CountInv, DirInv, Counted

LEMMA TreePart == (Sound => DirInv) => TreeInv
PROOF
<1> SUFFICES ASSUME Sound, DirInv
             PROVE  /\ \A d \in Inodes, e, f \in UNION {entries[d] : d \in Inodes} :
                         e \in entries[d] /\ f \in entries[d] /\ e[1] = f[1] => e = f
                    /\ \A d \in Inodes : \A e \in entries[d] :
                         is_dir[d] /\ parent[e[2]] = d /\ ~removed[e[2]]
                    /\ \A s \in Sectors :
                         is_dir[s] /\ removed[s] => Here(s) \cup Descs(s) \cup Visits(s) = {}
  BY DEF TreeInv
<1>1. ASSUME NEW d \in Inodes, NEW e \in entries[d]
      PROVE  e[1] \in Comps /\ e[2] \in Sectors /\ e = <<e[1], e[2]>>
  <2>1. e \in Comps \X Sectors
    BY DEF DirInv, TypeInv
  <2> QED
    BY <2>1
<1>2. ASSUME NEW d \in Inodes, NEW e \in entries[d], NEW f \in entries[d], e[1] = f[1]
      PROVE  e = f
  <2>1. PICK m \in Comps, s \in Sectors : e = <<m, s>>
    BY <1>1
  <2>2. PICK n \in Comps, t \in Sectors : f = <<n, t>>
    BY <1>1
  <2>3. m = n
    BY <1>2, <2>1, <2>2
  <2>4. s = t
    BY <2>1, <2>2, <2>3 DEF DirInv, NameInv
  <2> QED
    BY <2>1, <2>2, <2>3, <2>4
<1>3. ASSUME NEW d \in Inodes, NEW e \in entries[d]
      PROVE  is_dir[d] /\ parent[e[2]] = d /\ ~removed[e[2]]
  <2>1. PICK n \in Comps, s \in Sectors : e = <<n, s>>
    BY <1>1
  <2>2. is_dir[d] /\ parent[s] = d /\ ~removed[s]
    BY <2>1 DEF DirInv, ParentInv
  <2> QED
    BY <2>1, <2>2
<1>4. \A s \in Sectors : is_dir[s] /\ removed[s] => Here(s) \cup Descs(s) \cup Visits(s) = {}
  BY DEF DirInv, RemovedInv
<1> QED
  BY <1>2, <1>3, <1>4

LEMMA SectorPart == (Sound => DirInv) => SectorInv
PROOF
<1> SUFFICES ASSUME Sound, DirInv
             PROVE  free_map \ {Root} = Named \cup Created \cup {s \in Sectors : removed[s]}
  BY DEF SectorInv
<1>1. \A s \in Named : s \in Sectors
  BY NamedElim
<1>2. \A s \in Created : s \in Sectors
  BY DEF DirInv, PlaceInv, Place, Created, Creating
<1>3. \A s \in free_map \ {Root} : s \in Sectors
  BY DEF DirInv, TypeInv, Inodes
<1>4. Root \notin Sectors
  BY DirAssumption
<1>5. \A s \in Sectors : s \in free_map <=> s \in Named \/ s \in Created \/ removed[s]
  BY DEF DirInv, MapInv
<1> QED
  BY <1>1, <1>2, <1>3, <1>4, <1>5

(***************************************************************************)
(* As long as nobody has left the tree, open_cnt of every inode is the     *)
(* number of current directories, descriptors and calls that refer to it,  *)
(* and of the references that leaked: no inode_close() takes the last      *)
(* reference from someone who still uses the inode.                        *)
(***************************************************************************)
THEOREM CountsCorrect == Spec => []CountInv
PROOF
  BY DirAlways, CountPart, PTL

(***************************************************************************)
(* The directories are a tree: dir_add() enters no name twice, an inode    *)
(* has one entry, in the directory it names as its parent, and after       *)
(* dir_remove() of a directory no process is in it or at work in it.       *)
(***************************************************************************)
THEOREM TreeCorrect == Spec => []TreeInv
PROOF
  BY DirAlways, TreePart, PTL

(***************************************************************************)
(* The free map marks exactly the root, the inodes with an entry, those a  *)
(* call is about to enter and the removed files that are still open: no    *)
(* sector is lost by a call that fails, none is in use and free.           *)
(***************************************************************************)
THEOREM SectorsCorrect == Spec => []SectorInv
PROOF
  BY DirAlways, SectorPart, PTL
=============================================================================

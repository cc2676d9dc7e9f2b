----------------------------- MODULE FilesProofs -----------------------------
(***************************************************************************)
(* Proofs about Files, for any number of processes, sectors and struct     *)
(* inodes, any length and any number of descriptors: reference counts      *)
(* (RefInv), lengths (LengthInv) and what readers see (AppendInv), all as  *)
(* long as no last close has overlapped with an open of the same file.     *)
(*                                                                         *)
(* RefInv is not inductive: it says nothing of a thread in the middle of   *)
(* inode_open() or inode_close().  StructInv adds where each thread may be *)
(* (CallInv) and what it knows of its struct inode there (OpenInv,         *)
(* CloseInv).  On top of it, GrownInv says for LengthInv where the length  *)
(* of a file is, and WriterInv and ShownInv say for AppendInv what its     *)
(* writer knows.                                                           *)
(***************************************************************************)
EXTENDS Files, ListLemmas, FiniteSetTheorems

Places == {"idle", "load", "erase", "close", "exit", "gone", "readin"}
            \cup Opening \cup Closing \cup Writing
Whys == {"none", "open", "load", "remove", "close", "exit", "last"}

InodeRecords ==
  [sector : Sectors \cup {NULL}, open_cnt : Int, removed : BOOLEAN, deny_write_cnt : Int,
   length : Nat, length_shown : Nat, lock : Procs \cup {NULL}]

CallRecords ==
  [at : Places, why : Whys, sector : Sectors \cup {NULL}, inode : Inodes \cup {NULL},
   file : Nat, off : Nat, size : Nat]

(* The variables hold what their C types and their uses allow. *)
TypeInv ==
  /\ free_map \subseteq Sectors /\ dir \subseteq Sectors
  /\ disk_length \in [Sectors -> Nat]
  /\ dir_lock \in Procs \cup {NULL}
  /\ open_inodes \subseteq Inodes
  /\ inode \in [Inodes -> InodeRecords]
  /\ list_file \in [Procs -> Seq(FileObjects)]
  /\ main_file \in [Procs -> FileObjects \cup {NULL}]
  /\ c \in [Procs -> CallRecords]
  /\ grown \in [Sectors -> Nat]
  /\ tangled \subseteq Inodes

(* Where a thread has the lock of the directory. *)
HasDir(p) ==
  \/ c[p].at \in Opening \cup {"erase"}
  \/ c[p].at \in Closing \cup {"close"} /\ c[p].why = "remove"

(* Where a thread has a struct inode in its hands. *)
Handling == {"reopen", "read", "load", "erase", "close"} \cup Closing

(***************************************************************************)
(* What a thread knows where it is: who has the directory, which calls     *)
(* lead there, that the entry is still in the directory, and that the file *)
(* it reads or writes is one of its own descriptors.                       *)
(***************************************************************************)
Call(p) ==
  /\ dir_lock = p <=> HasDir(p)
  /\ c[p].at \in Opening \cup {"erase"} => c[p].sector \in dir
  /\ c[p].at \in Opening => c[p].why \in {"open", "load", "remove"}
  /\ c[p].at = "load" => c[p].why = "load"
  /\ c[p].at = "erase" => c[p].why = "remove"
  /\ c[p].at \in Opening /\ c[p].why = "open" => Len(list_file[p]) < MaxOpen
  /\ Len(list_file[p]) <= MaxOpen
  /\ c[p].at \in Opening \cup {"load"} /\ c[p].why = "load" => main_file[p] = NULL
  /\ c[p].at \in Handling => c[p].inode \in Inodes
  /\ c[p].at \in Writing \cup {"readin"} =>
       /\ c[p].file \in DOMAIN list_file[p]
       /\ c[p].inode = list_file[p][c[p].file].inode
  /\ c[p].at \in {"lock", "grow", "show"} => c[p].size > 0

CallInv == \A p \in Procs : Call(p)

(* inode_open() has found the inode, or knows that there is none, or has made it. *)
OpenInv ==
  \A p \in Procs :
    /\ c[p].at = "reopen" => inode[c[p].inode].open_cnt > 0
    /\ c[p].at = "read" => inode[c[p].inode].open_cnt = 1
    /\ c[p].at \in {"reopen", "read", "erase"} =>
         inode[c[p].inode].sector = c[p].sector
    /\ c[p].at = "new" => \A o \in Used : inode[o].sector # c[p].sector

(* The last closer is alone with its inode, and nobody opens that file. *)
CloseInv ==
  /\ \A p \in Procs : c[p].at \in Closing =>
       /\ c[p].inode \in Used /\ inode[c[p].inode].open_cnt = 0
       /\ c[p].at = "unlist" <=> c[p].inode \in open_inodes
       /\ \A q \in Procs : c[q].at \in Closing /\ c[q].inode = c[p].inode => q = p
       /\ \A q \in Procs : c[q].at \in Opening => c[q].sector # inode[c[p].inode].sector
  /\ \A o \in Used : inode[o].open_cnt > 0
       \/ \E p \in Procs : c[p].at \in Closing /\ c[p].inode = o

(* The parts of RefInv. *)
CountInv ==
  \A o \in Inodes :
    /\ inode[o].open_cnt =
         Cardinality(Descriptors(o)) + Cardinality(Runs(o)) + Cardinality(Calls(o))
    /\ inode[o].deny_write_cnt = Cardinality(Runs(o))

ListInv ==
  /\ \A o, n \in Used : inode[o].sector = inode[n].sector => o = n
  /\ \A o \in Inodes : inode[o].open_cnt > 0 => o \in open_inodes
  /\ open_inodes \subseteq Used

MapInv ==
  /\ free_map = dir \cup {inode[o].sector : o \in Used}
  /\ \A o \in Used : inode[o].removed <=> inode[o].sector \notin dir

(* LengthInv, for one struct inode or one sector at a time. *)
Reading(o) == \E p \in Procs : c[p].at = "read" /\ c[p].inode = o
GrownInv ==
  /\ \A o \in Used : inode[o].sector \in dir /\ ~Reading(o) =>
       inode[o].length = grown[inode[o].sector]
  /\ \A s \in dir : (\A o \in Used : inode[o].sector = s => Reading(o)) =>
       disk_length[s] = grown[s]

(* A file that is only appended to has one writer, which knows its length. *)
Growing == {"grow", "copy", "show"}
WriterInv ==
  \A p \in Procs :
    c[p].at \in Growing /\ c[p].inode \notin tangled =>
      /\ inode[c[p].inode].length = IF c[p].at = "grow" THEN c[p].off ELSE c[p].off + c[p].size
      /\ inode[c[p].inode].length_shown = c[p].off
      /\ \A q \in Procs : c[q].at \in Growing /\ c[q].inode = c[p].inode => q = p

ShownInv ==
  \A o \in open_inodes \ tangled :
    (\A p \in Procs : ~(c[p].at \in Growing /\ c[p].inode = o))
      => inode[o].length_shown = inode[o].length

StructInv == TypeInv /\ CallInv /\ OpenInv /\ CloseInv /\ CountInv /\ ListInv /\ MapInv

-----------------------------------------------------------------------------
(* Counting references. *)

In(x, S) == IF x \in S THEN 1 ELSE 0

(* Two sets that differ in x at most. *)
LEMMA CountStep ==
  ASSUME NEW S, NEW T, NEW x, IsFiniteSet(S), T \ {x} = S \ {x}
  PROVE  /\ IsFiniteSet(T) /\ Cardinality(S) \in Nat /\ Cardinality(T) \in Nat
         /\ Cardinality(T) = Cardinality(S) + In(x, T) - In(x, S)
PROOF
<1> DEFINE R == S \ {x}
<1>1. IsFiniteSet(R) /\ Cardinality(S) \in Nat /\ Cardinality(R) \in Nat
  BY FS_RemoveElement, FS_CardinalityType
<1>2. Cardinality(R) = Cardinality(S) - In(x, S)
  BY <1>1, FS_RemoveElement DEF In
<1>3. T = IF x \in T THEN R \cup {x} ELSE R
  OBVIOUS
<1>4. x \notin R
  OBVIOUS
<1> HIDE DEF R
<1>5. IsFiniteSet(T) /\ Cardinality(T) = Cardinality(R) + In(x, T)
  <2>1. IsFiniteSet(R \cup {x}) /\ Cardinality(R \cup {x}) = Cardinality(R) + 1
    BY <1>1, <1>4, FS_AddElement
  <2>2. CASE x \in T
    BY <1>3, <2>1, <2>2 DEF In
  <2>3. CASE x \notin T
    BY <1>1, <1>3, <2>3 DEF In
  <2> QED
    BY <2>2, <2>3
<1>6. Cardinality(T) \in Nat
  BY <1>5, FS_CardinalityType
<1> QED
  BY <1>1, <1>2, <1>5, <1>6 DEF In

(* The descriptors of struct inode o, when the open files are lf. *)
DescriptorsOf(lf, o) ==
  {d \in Procs \X (1 .. MaxOpen) : d[2] \in DOMAIN lf[d[1]] /\ lf[d[1]][d[2]].inode = o}

LEMMA DescriptorsFinite ==
  ASSUME NEW lf, NEW o
  PROVE  IsFiniteSet(DescriptorsOf(lf, o)) /\ Cardinality(DescriptorsOf(lf, o)) \in Nat
PROOF
<1>1. IsFiniteSet(Procs) /\ MaxOpen \in Nat
  BY FilesAssumption
<1>2. IsFiniteSet(Procs \X (1 .. MaxOpen))
  <2>1. 1 \in Int /\ MaxOpen \in Int
    BY <1>1
  <2>2. IsFiniteSet(1 .. MaxOpen)
    BY <2>1, FS_Interval
  <2> QED
    BY <1>1, <2>2, FS_Product
<1>3. DescriptorsOf(lf, o) \in SUBSET (Procs \X (1 .. MaxOpen))
  BY DEF DescriptorsOf
<1> QED
  BY <1>2, <1>3, FS_Subset, FS_CardinalityType

LEMMA CallsFinite ==
  ASSUME NEW o
  PROVE  /\ IsFiniteSet(Runs(o)) /\ IsFiniteSet(Calls(o)) 
         /\ Cardinality(Runs(o)) \in Nat /\ Cardinality(Calls(o)) \in Nat
PROOF
<1>1. Runs(o) \in SUBSET Procs /\ Calls(o) \in SUBSET Procs
  BY DEF Runs, Calls
<1> QED
  BY <1>1, FilesAssumption, FS_Subset, FS_CardinalityType

LEMMA CallsStep ==
  ASSUME NEW p \in Procs, NEW o, \A q \in Procs \ {p} : c'[q] = c[q]
  PROVE  /\ Cardinality(Calls(o)) \in Nat /\ Cardinality(Calls(o)') \in Nat
         /\ Cardinality(Calls(o)') = Cardinality(Calls(o)) + In(p, Calls(o)') - In(p, Calls(o))
PROOF
<1>1. Calls(o)' \ {p} = Calls(o) \ {p}
  BY DEF Calls
<1>2. IsFiniteSet(Calls(o))
  BY CallsFinite
<1> HIDE DEF Calls
<1> QED
  BY <1>1, <1>2, CountStep

LEMMA RunsStep ==
  ASSUME NEW p \in Procs, NEW o, \A q \in Procs \ {p} : main_file'[q] = main_file[q]
  PROVE  /\ Cardinality(Runs(o)) \in Nat /\ Cardinality(Runs(o)') \in Nat
         /\ Cardinality(Runs(o)') = Cardinality(Runs(o)) + In(p, Runs(o)') - In(p, Runs(o))
PROOF
<1>1. Runs(o)' \ {p} = Runs(o) \ {p}
  BY DEF Runs
<1>2. IsFiniteSet(Runs(o))
  BY CallsFinite
<1> QED
  BY <1>1, <1>2, CountStep

(* The names of Descriptors(o) before and after a step. *)
LEMMA DescriptorsNames ==
  ASSUME NEW o
  PROVE  /\ Descriptors(o) = DescriptorsOf(list_file, o)
         /\ Descriptors(o)' = DescriptorsOf(list_file', o)
PROOF
  BY DEF Descriptors, DescriptorsOf

LEMMA DescriptorsKept ==
  ASSUME NEW o, TypeInv, TypeInv',
         \A q \in Procs : /\ DOMAIN list_file'[q] = DOMAIN list_file[q]
                          /\ \A k \in DOMAIN list_file[q] :
                               list_file'[q][k].inode = list_file[q][k].inode
  PROVE  /\ Cardinality(Descriptors(o)) \in Nat
         /\ Cardinality(Descriptors(o)') = Cardinality(Descriptors(o))
PROOF
<1>1. Descriptors(o)' = Descriptors(o)
  BY DEF Descriptors
<1> QED
  BY <1>1, DescriptorsFinite, DescriptorsNames

LEMMA DescriptorsAppend ==
  ASSUME NEW o, TypeInv, NEW p \in Procs, NEW f \in FileObjects,
         Len(list_file[p]) < MaxOpen,
         list_file' = [list_file EXCEPT ![p] = Append(@, f)]
  PROVE  /\ Cardinality(Descriptors(o)) \in Nat
         /\ Cardinality(Descriptors(o)') = 
              Cardinality(Descriptors(o)) + (IF f.inode = o THEN 1 ELSE 0)
PROOF
<1> DEFINE n == Len(list_file[p])
           d == <<p, n + 1>>
<1>1. n \in Nat /\ MaxOpen \in Nat /\ DOMAIN list_file[p] = 1 .. n /\ list_file[p] \in Seq(FileObjects)
  BY FilesAssumption DEF TypeInv
<1>2. /\ list_file'[p] = Append(list_file[p], f)
      /\ DOMAIN list_file'[p] = 1 .. (n + 1)
      /\ list_file'[p][n + 1] = f
      /\ \A k \in 1 .. n : list_file'[p][k] = list_file[p][k]
      /\ \A q \in Procs \ {p} : list_file'[q] = list_file[q]
  BY <1>1 DEF TypeInv
<1>3. \A q \in Procs, k \in 1 .. MaxOpen : <<q, k>> \in Descriptors(o) <=>
        k \in DOMAIN list_file[q] /\ list_file[q][k].inode = o
  BY DEF Descriptors
<1>4. \A q \in Procs, k \in 1 .. MaxOpen : <<q, k>> \in Descriptors(o)' <=>
        k \in DOMAIN list_file'[q] /\ list_file'[q][k].inode = o
  BY DEF Descriptors
<1>5. d \notin Descriptors(o) /\ (d \in Descriptors(o)' <=> f.inode = o)
  BY <1>1, <1>2, <1>3, <1>4
<1>6. ASSUME NEW q \in Procs, NEW k \in 1 .. MaxOpen, <<q, k>> # d
      PROVE  <<q, k>> \in Descriptors(o) <=> <<q, k>> \in Descriptors(o)'
  <2>1. CASE q # p
    BY <1>2, <1>3, <1>4, <2>1
  <2>2. CASE q = p
    <3>1. k # n + 1
      BY <1>6, <2>2
    <3>2. k \in DOMAIN list_file'[p] <=> k \in 1 .. n
      BY <1>1, <1>2, <3>1
    <3> QED
      BY <1>1, <1>2, <1>3, <1>4, <2>2, <3>2
  <2> QED
    BY <2>1, <2>2
<1>7. /\ Descriptors(o) \subseteq Procs \X (1 .. MaxOpen)
      /\ Descriptors(o)' \subseteq Procs \X (1 .. MaxOpen)
  BY DEF Descriptors
<1> HIDE DEF d
<1>8. Descriptors(o)' \ {d} = Descriptors(o) \ {d}
  BY <1>6, <1>7
<1>9. IsFiniteSet(Descriptors(o))
  BY DescriptorsFinite, DescriptorsNames
<1> QED
  BY <1>5, <1>8, <1>9, CountStep DEF In

(* The k-th descriptor of a process is closed: those behind it move up. *)
LEMMA DescriptorRemoved ==
  ASSUME NEW p \in Procs, NEW o,
         NEW n \in Nat, NEW k \in 1 .. n, n <= MaxOpen,
         DOMAIN list_file[p] = 1 .. n, DOMAIN list_file'[p] = 1 .. (n - 1),
         \A i \in 1 .. (n - 1) : list_file'[p][i] = IF i < k THEN list_file[p][i] ELSE list_file[p][i + 1],
         \A q \in Procs \ {p} : list_file'[q] = list_file[q]
  PROVE  Cardinality(DescriptorsOf(list_file', o)) =
           Cardinality(DescriptorsOf(list_file, o)) - In(<<p, k>>, DescriptorsOf(list_file, o))
PROOF
<1> DEFINE S == DescriptorsOf(list_file, o) \ {<<p, k>>}
           T == DescriptorsOf(list_file', o)
           Move(d) == IF d[1] = p /\ d[2] > k THEN <<p, d[2] - 1>> ELSE d
           f == [d \in S |-> Move(d)]
<1>0. MaxOpen \in Nat
  BY FilesAssumption
<1>1. \A q, i : <<q, i>> \in S <=>
        q \in Procs /\ i \in 1 .. MaxOpen /\ i \in DOMAIN list_file[q] /\ list_file[q][i].inode = o
          /\ ~(q = p /\ i = k)
  BY DEF DescriptorsOf
<1>2. \A q, i : <<q, i>> \in T <=>
        q \in Procs /\ i \in 1 .. MaxOpen /\ i \in DOMAIN list_file'[q] /\ list_file'[q][i].inode = o
  BY DEF DescriptorsOf
<1>3. \A d \in S : d = <<d[1], d[2]>> /\ d[1] \in Procs /\ d[2] \in Nat
  BY DEF DescriptorsOf
<1>4. \A d \in T : d = <<d[1], d[2]>> /\ d[1] \in Procs /\ d[2] \in Nat
  BY DEF DescriptorsOf
<1>5. /\ IsFiniteSet(S)
      /\ Cardinality(S) =
           Cardinality(DescriptorsOf(list_file, o)) - In(<<p, k>>, DescriptorsOf(list_file, o))
  <2>2. IsFiniteSet(DescriptorsOf(list_file, o))
    BY DescriptorsFinite
  <2>3. /\ IsFiniteSet(S)
        /\ Cardinality(S) = IF <<p, k>> \in DescriptorsOf(list_file, o)
             THEN Cardinality(DescriptorsOf(list_file, o)) - 1 ELSE Cardinality(DescriptorsOf(list_file, o))
    BY <2>2, FS_RemoveElement
  <2>4. Cardinality(DescriptorsOf(list_file, o)) \in Nat
    BY DescriptorsFinite
  <2> QED
    BY <2>3, <2>4 DEF In
<1> HIDE DEF S, T
<1>6. ASSUME NEW d \in S PROVE Move(d) \in T
  <2>1. PICK q \in Procs, i \in Nat : d = <<q, i>>
    BY <1>3
  <2>2. /\ i \in 1 .. MaxOpen /\ i \in DOMAIN list_file[q] /\ list_file[q][i].inode = o /\ ~(q = p /\ i = k)
    BY <1>1, <2>1
  <2>3. CASE q # p
    <3>1. Move(d) = <<q, i>>
      BY <2>1, <2>3
    <3>2. list_file'[q] = list_file[q]
      BY <2>3
    <3>3. <<q, i>> \in T
      BY <1>2, <2>2, <3>2
    <3> QED
      BY <3>1, <3>3
  <2>4. CASE q = p /\ i < k
    <3>1. Move(d) = <<p, i>> 
      BY <2>1, <2>4
    <3>2. i \in 1 .. (n - 1) /\ list_file'[p][i] = list_file[p][i]
      BY <2>2, <2>4
    <3> QED
      BY <1>2, <2>2, <2>4, <3>1, <3>2
  <2>5. CASE q = p /\ i > k
    <3>1. Move(d) = <<p, i - 1>> 
      BY <2>1, <2>5
    <3>2. i - 1 \in 1 .. (n - 1) /\ ~(i - 1 < k) /\ (i - 1) + 1 = i /\ i - 1 \in 1 .. MaxOpen
      BY <1>0, <2>2, <2>5
    <3>3. list_file'[p][i - 1] = list_file[p][i]
      BY <3>2
    <3> QED
      BY <1>2, <2>2, <2>5, <3>1, <3>2, <3>3, SMTT(30)
  <2> QED
    BY <2>1, <2>2, <2>3, <2>4, <2>5
<1>7. ASSUME NEW d \in S, NEW e \in S, Move(d) = Move(e) PROVE d = e
  <2>1. PICK q \in Procs, i \in Nat : d = <<q, i>>
    BY <1>3
  <2>2. PICK r \in Procs, j \in Nat : e = <<r, j>>
    BY <1>3
  <2>3. ~(q = p /\ i = k) /\ ~(r = p /\ j = k)
    BY <1>1, <2>1, <2>2
  <2>4. Move(d) = (IF q = p /\ i > k THEN <<p, i - 1>> ELSE <<q, i>>)
    BY <2>1
  <2>5. Move(e) = (IF r = p /\ j > k THEN <<p, j - 1>> ELSE <<r, j>>)
    BY <2>2
  <2>6. q = r /\ i = j
    BY <1>7, <2>3, <2>4, <2>5
  <2> QED
    BY <2>1, <2>2, <2>6
<1>8. ASSUME NEW e \in T PROVE \E d \in S : Move(d) = e
  <2>1. PICK q \in Procs, i \in Nat : e = <<q, i>>
    BY <1>4
  <2>2. i \in 1 .. MaxOpen /\ i \in DOMAIN list_file'[q] /\ list_file'[q][i].inode = o
    BY <1>2, <2>1
  <2>3. CASE q # p
    <3>1. <<q, i>> \in S
      BY <1>1, <2>2, <2>3
    <3>2. Move(<<q, i>>) = <<q, i>>
      BY <2>3
    <3> QED
      BY <2>1, <3>1, <3>2
  <2>4. CASE q = p /\ i < k
    <3>1. list_file'[p][i] = list_file[p][i] /\ i \in 1 .. n
      BY <2>2, <2>4
    <3>2. <<p, i>> \in S
      BY <1>1, <2>2, <2>4, <3>1
    <3>3. Move(<<p, i>>) = <<p, i>>
      BY <2>4
    <3> QED
      BY <2>1, <2>4, <3>2, <3>3
  <2>5. CASE q = p /\ ~(i < k)
    <3>1. list_file'[p][i] = list_file[p][i + 1] /\ i + 1 \in 1 .. n /\ i + 1 \in 1 .. MaxOpen /\ i + 1 > k
      BY <1>0, <2>2, <2>5
    <3>2. <<p, i + 1>> \in S
      BY <1>1, <2>2, <2>5, <3>1, SMTT(30)
    <3>3. Move(<<p, i + 1>>) = <<p, i>>
      BY <3>1
    <3> QED
      BY <2>1, <2>5, <3>2, <3>3
  <2> QED
    BY <2>3, <2>4, <2>5
<1>9. f \in Bijection(S, T)
  <2>1. f \in [S -> T]
    BY <1>6
  <2>2. \A a, b \in S : f[a] = f[b] => a = b
    BY <1>7
  <2>3. \A t \in T : \E s \in S : f[s] = t
    BY <1>8
  <2> HIDE DEF f
  <2> QED
    BY <2>1, <2>2, <2>3 DEF Bijection, Injection, Surjection, IsInjective
<1>10. ExistsBijection(S, T)
  BY <1>9 DEF ExistsBijection
<1> QED
  BY <1>5, <1>10, FS_Bijection DEF T

LEMMA DescriptorsClose ==
  ASSUME NEW o, TypeInv, CallInv, NEW p \in Procs, NEW k \in DOMAIN list_file[p],
         \/ list_file' = [list_file EXCEPT ![p] = RemoveAt(@, k)]
         \/ k = 1 /\ list_file' = [list_file EXCEPT ![p] = Tail(@)]
  PROVE  /\ Cardinality(Descriptors(o)) \in Nat
         /\ Cardinality(Descriptors(o)') = 
              Cardinality(Descriptors(o)) - (IF list_file[p][k].inode = o THEN 1 ELSE 0)
         /\ list_file'[p] \in Seq(FileObjects) /\ Len(list_file'[p]) = Len(list_file[p]) - 1
PROOF
<1> DEFINE n == Len(list_file[p])
           s == list_file[p]
<1>1. /\ n \in Nat /\ MaxOpen \in Nat /\ DOMAIN s = 1 .. n /\ s \in Seq(FileObjects)
      /\ k \in 1 .. n /\ n <= MaxOpen
  BY FilesAssumption DEF TypeInv, CallInv, Call
<1>2. \A q \in Procs \ {p} : list_file'[q] = list_file[q]
  BY DEF TypeInv
<1>3. /\ list_file'[p] \in Seq(FileObjects) /\ Len(list_file'[p]) = n - 1
      /\ \A i \in 1 .. (n - 1) : list_file'[p][i] = IF i < k THEN s[i] ELSE s[i + 1]
  <2>1. CASE list_file' = [list_file EXCEPT ![p] = RemoveAt(@, k)]
    <3>1. list_file'[p] = RemoveAt(s, k)
      BY <2>1 DEF TypeInv
    <3> QED
      BY <1>1, <3>1, RemoveAtElements
  <2>2. CASE k = 1 /\ list_file' = [list_file EXCEPT ![p] = Tail(@)]
    <3>1. list_file'[p] = Tail(s) /\ s # <<>>
      BY <1>1, <2>2 DEF TypeInv
    <3>2. /\ Tail(s) \in Seq(FileObjects) /\ Len(Tail(s)) = n - 1
          /\ \A i \in 1 .. (n - 1) : Tail(s)[i] = s[i + 1]
      BY <1>1, <3>1, HeadTailProperties
    <3>3. \A i \in 1 .. (n - 1) : ~(i < k)
      BY <1>1, <2>2
    <3> QED
      BY <3>1, <3>2, <3>3
  <2> QED
    BY <2>1, <2>2
<1>4. DOMAIN list_file'[p] = 1 .. (n - 1)
  BY <1>3
<1>5. Cardinality(DescriptorsOf(list_file', o)) =
        Cardinality(DescriptorsOf(list_file, o)) - In(<<p, k>>, DescriptorsOf(list_file, o))
  <2>1. \A i \in 1 .. (n - 1) :
          list_file'[p][i] = IF i < k THEN list_file[p][i] ELSE list_file[p][i + 1]
    BY <1>3
  <2>2. DOMAIN list_file[p] = 1 .. n
    BY <1>1
  <2>3. n \in Nat /\ k \in 1 .. n /\ n <= MaxOpen
    BY <1>1
  <2> HIDE DEF n
  <2> QED
    BY <1>2, <1>4, <2>1, <2>2, <2>3, DescriptorRemoved
<1>6. <<p, k>> \in Descriptors(o) <=> list_file[p][k].inode = o
  BY <1>1 DEF Descriptors
<1>7. Cardinality(Descriptors(o)) \in Nat
  BY DescriptorsNames, DescriptorsFinite
<1>8. Cardinality(Descriptors(o)') = Cardinality(Descriptors(o)) - In(<<p, k>>, Descriptors(o))
  BY <1>5, DescriptorsNames
<1> QED
  BY <1>3, <1>6, <1>7, <1>8 DEF In

-----------------------------------------------------------------------------
(* What the counts say of a struct inode. *)

LEMMA HeldInode ==
  ASSUME StructInv, NEW o \in Inodes, inode[o].open_cnt > 0
  PROVE  o \in open_inodes /\ o \in Used /\ inode[o].sector \in Sectors
PROOF
  BY DEF StructInv, ListInv, TypeInv, Used, InodeRecords

(* A reference keeps open_cnt above zero. *)
LEMMA ReferenceCounts ==
  ASSUME StructInv, NEW o \in Inodes
  PROVE  /\ \A p \in Procs : c[p].at \in {"read", "load", "erase", "close"} /\ c[p].inode = o
                               => inode[o].open_cnt > 0
         /\ \A p \in Procs : main_file[p] # NULL /\ main_file[p].inode = o
                               => inode[o].open_cnt > 0
         /\ \A p \in Procs : \A k \in DOMAIN list_file[p] : list_file[p][k].inode = o
                               => inode[o].open_cnt > 0
PROOF
<1>1. /\ IsFiniteSet(Runs(o)) /\ IsFiniteSet(Calls(o)) /\ IsFiniteSet(Descriptors(o))
      /\ Cardinality(Runs(o)) \in Nat /\ Cardinality(Calls(o)) \in Nat
      /\ Cardinality(Descriptors(o)) \in Nat
  BY CallsFinite, DescriptorsFinite, DescriptorsNames
<1>2. inode[o].open_cnt =
        Cardinality(Descriptors(o)) + Cardinality(Runs(o)) + Cardinality(Calls(o))
  BY DEF StructInv, CountInv
<1>3. (Descriptors(o) # {} => Cardinality(Descriptors(o)) # 0)
      /\ (Runs(o) # {} => Cardinality(Runs(o)) # 0)
      /\ (Calls(o) # {} => Cardinality(Calls(o)) # 0)
  BY <1>1, FS_EmptySet
<1>4. Descriptors(o) # {} \/ Runs(o) # {} \/ Calls(o) # {} => inode[o].open_cnt > 0
  <2> HIDE DEF Descriptors, Runs, Calls
  <2> QED
    BY <1>1, <1>2, <1>3
<1>5. ASSUME NEW p \in Procs, c[p].at \in {"read", "load", "erase", "close"}, c[p].inode = o
      PROVE  p \in Calls(o)
  BY <1>5 DEF Calls
<1>6. ASSUME NEW p \in Procs, main_file[p] # NULL, main_file[p].inode = o
      PROVE  p \in Runs(o)
  BY <1>6 DEF Runs
<1>7. ASSUME NEW p \in Procs, NEW k \in DOMAIN list_file[p], list_file[p][k].inode = o
      PROVE  <<p, k>> \in Descriptors(o)
  <2>1. list_file[p] \in Seq(FileObjects) /\ Len(list_file[p]) <= MaxOpen /\ MaxOpen \in Nat
    BY FilesAssumption DEF StructInv, TypeInv, CallInv, Call
  <2>2. k \in 1 .. MaxOpen
    BY <2>1
  <2> QED
    BY <1>7, <2>2 DEF Descriptors
<1> QED
  BY <1>4, <1>5, <1>6, <1>7

(* With one reference or none, a thread that is in Calls(o) is the only one. *)
LEMMA OnlyReference ==
  ASSUME StructInv, NEW p \in Procs, NEW o \in Inodes, inode[o].open_cnt = 1,
         c[p].at \in {"read", "load", "erase", "close"}, c[p].inode = o
  PROVE  /\ \A q \in Procs : c[q].at \in {"read", "load", "erase", "close"} /\ c[q].inode = o
                               => q = p
         /\ \A q \in Procs : ~(main_file[q] # NULL /\ main_file[q].inode = o)
         /\ \A q \in Procs : \A k \in DOMAIN list_file[q] : list_file[q][k].inode # o
PROOF
<1>1. /\ IsFiniteSet(Runs(o)) /\ IsFiniteSet(Calls(o)) /\ IsFiniteSet(Descriptors(o))
      /\ Cardinality(Runs(o)) \in Nat /\ Cardinality(Calls(o)) \in Nat
      /\ Cardinality(Descriptors(o)) \in Nat
  BY CallsFinite, DescriptorsFinite, DescriptorsNames
<1>2. 1 = Cardinality(Descriptors(o)) + Cardinality(Runs(o)) + Cardinality(Calls(o))
  BY DEF StructInv, CountInv
<1>3. p \in Calls(o)
  BY DEF Calls
<1>4. Cardinality(Calls(o)) # 0
  BY <1>1, <1>3, FS_EmptySet
<1>5. Cardinality(Descriptors(o)) = 0 /\ Cardinality(Runs(o)) = 0 /\ Cardinality(Calls(o)) = 1
  BY <1>1, <1>2, <1>4
<1>6. Descriptors(o) = {} /\ Runs(o) = {}
  BY <1>1, <1>5, FS_EmptySet
<1>7. \E x : Calls(o) = {x}
  BY <1>1, <1>5, FS_Singleton
<1>8. ASSUME NEW q \in Procs, NEW k \in DOMAIN list_file[q], list_file[q][k].inode = o
      PROVE  FALSE
  <2>1. list_file[q] \in Seq(FileObjects) /\ Len(list_file[q]) <= MaxOpen /\ MaxOpen \in Nat
    BY FilesAssumption DEF StructInv, TypeInv, CallInv, Call
  <2>2. k \in 1 .. MaxOpen
    BY <2>1
  <2>3. <<q, k>> \in Descriptors(o)
    BY <1>8, <2>2 DEF Descriptors
  <2> QED
    BY <1>6, <2>3
<1>9. \A q \in Procs : ~(main_file[q] # NULL /\ main_file[q].inode = o)
  BY <1>6 DEF Runs
<1>10. \A q \in Procs : c[q].at \in {"read", "load", "erase", "close"} /\ c[q].inode = o
                               => q = p
  BY <1>3, <1>7 DEF Calls
<1> QED
  BY <1>8, <1>9, <1>10

-----------------------------------------------------------------------------
(* A step of thread p leaves the others alone. *)
OthersSame(p) ==
  \A q \in Procs \ {p} :
    c'[q] = c[q] /\ list_file'[q] = list_file[q] /\ main_file'[q] = main_file[q]

DirPassed(p) ==
  \/ dir_lock' = dir_lock
  \/ dir_lock = p /\ dir_lock' = NULL
  \/ dir_lock = NULL /\ dir_lock' = p

LEMMA CallStep ==
  ASSUME CallInv, NEW p \in Procs, OthersSame(p), DirPassed(p), Call(p)',
         \A q \in Procs \ {p} : c[q].at \in Opening \cup {"erase"} =>
           (c[q].sector \in dir => c[q].sector \in dir')
  PROVE  CallInv'
PROOF
<1> SUFFICES ASSUME NEW q \in Procs, q # p PROVE Call(q)'
  BY DEF CallInv
<1>1. c'[q] = c[q] /\ list_file'[q] = list_file[q] /\ main_file'[q] = main_file[q]
  BY DEF OthersSame
<1>2. dir_lock' = q <=> dir_lock = q
  BY FilesAssumption DEF DirPassed
<1>3. Call(q)
  BY DEF CallInv
<1> QED
  BY <1>1, <1>2, <1>3 DEF Call, HasDir

(* A step outside inode_open() and the end of inode_close(), that opens and closes nothing. *)
Midway == Opening \cup Closing \cup {"erase"}
SameInodes ==
  /\ open_inodes' = open_inodes
  /\ \A o \in Inodes : inode'[o].sector = inode[o].sector /\ inode'[o].open_cnt = inode[o].open_cnt

LEMMA QuietStep ==
  ASSUME StructInv, NEW p \in Procs, OthersSame(p), SameInodes,
         c[p].at \notin Midway, c'[p].at \notin Midway
  PROVE  OpenInv' /\ CloseInv' /\ ListInv'
PROOF
<1>1. Used' = Used
  BY DEF Used, SameInodes
<1>2. \A q \in Procs : c'[q].at \in Midway => c'[q] = c[q] /\ c[q].at \in Midway
  BY DEF OthersSame
<1>3. \A q \in Procs : c[q].at \in Midway => c'[q] = c[q]
  BY DEF OthersSame
<1>4. \A q \in Procs : c[q].at \in Handling => c[q].inode \in Inodes
  BY DEF StructInv, CallInv, Call
<1>5. Used \subseteq Inodes
  BY DEF Used
<1>6. OpenInv'
  <2> SUFFICES ASSUME NEW q \in Procs, c'[q].at \in Midway
               PROVE  /\ c'[q].at = "reopen" => inode'[c'[q].inode].open_cnt > 0
                      /\ c'[q].at = "read" => inode'[c'[q].inode].open_cnt = 1
                      /\ c'[q].at \in {"reopen", "read", "erase"} =>
                           inode'[c'[q].inode].sector = c'[q].sector
                      /\ c'[q].at = "new" => \A o \in Used' : inode'[o].sector # c'[q].sector
    BY DEF OpenInv, Midway, Opening
  <2> QED
    BY <1>1, <1>2, <1>4, <1>5 DEF OpenInv, StructInv, SameInodes, Handling
<1>7. CloseInv'
  <2>1. ASSUME NEW q \in Procs, c'[q].at \in Closing
        PROVE  /\ c'[q].inode \in Used' /\ inode'[c'[q].inode].open_cnt = 0
               /\ c'[q].at = "unlist" <=> c'[q].inode \in open_inodes'
               /\ \A r \in Procs : c'[r].at \in Closing /\ c'[r].inode = c'[q].inode => r = q
               /\ \A r \in Procs : c'[r].at \in Opening => c'[r].sector # inode'[c'[q].inode].sector
    <3>1. c'[q] = c[q] /\ c[q].inode \in Inodes /\ c[q].at \in Closing
      BY <1>2, <1>4, <2>1 DEF Midway, Handling
    <3> QED
      BY <1>1, <1>2, <2>1, <3>1 DEF CloseInv, StructInv, SameInodes, Midway
  <2>2. ASSUME NEW o \in Used'
        PROVE  inode'[o].open_cnt > 0 \/ \E q \in Procs : c'[q].at \in Closing /\ c'[q].inode = o
    BY <1>1, <1>3, <1>5, <2>2 DEF CloseInv, StructInv, SameInodes, Midway
  <2> QED
    BY <2>1, <2>2 DEF CloseInv
<1>8. ListInv'
  BY <1>1, <1>5 DEF ListInv, StructInv, SameInodes
<1> QED
  BY <1>6, <1>7, <1>8

LEMMA MapKept ==
  ASSUME StructInv, free_map' = free_map, dir' = dir,
         \A o \in Inodes : inode'[o].sector = inode[o].sector /\ inode'[o].removed = inode[o].removed
  PROVE  MapInv'
PROOF
<1>1. Used' = Used /\ Used \subseteq Inodes
  BY DEF Used
<1>2. {inode'[o].sector : o \in Used'} = {inode[o].sector : o \in Used}
  BY <1>1
<1>3. \A o \in Used' : inode'[o].removed <=> inode'[o].sector \notin dir'
  BY <1>1 DEF MapInv, StructInv
<1> QED
  BY <1>2, <1>3 DEF MapInv, StructInv

(* The counts, when no reference comes or goes. *)
LEMMA CountKept ==
  ASSUME StructInv, TypeInv', NEW p \in Procs, OthersSame(p),
         \A q \in Procs : /\ DOMAIN list_file'[q] = DOMAIN list_file[q]
                          /\ \A k \in DOMAIN list_file[q] :
                               list_file'[q][k].inode = list_file[q][k].inode,
         main_file' = main_file,
         \A o : p \in Calls(o)' <=> p \in Calls(o),
         \A o \in Inodes : /\ inode'[o].open_cnt = inode[o].open_cnt
                           /\ inode'[o].deny_write_cnt = inode[o].deny_write_cnt
  PROVE  CountInv'
PROOF
<1> SUFFICES ASSUME NEW o \in Inodes
             PROVE  /\ inode'[o].open_cnt = Cardinality(Descriptors(o)')
                                             + Cardinality(Runs(o)') + Cardinality(Calls(o)')
                    /\ inode'[o].deny_write_cnt = Cardinality(Runs(o)')
  BY DEF CountInv
<1>1. Runs(o)' = Runs(o)
  BY DEF Runs
<1>2. Cardinality(Descriptors(o)') = Cardinality(Descriptors(o))
  BY DescriptorsKept DEF StructInv
<1>3. Cardinality(Calls(o)') = Cardinality(Calls(o)) + In(p, Calls(o)') - In(p, Calls(o))
      /\ Cardinality(Calls(o)) \in Nat
  BY CallsStep DEF OthersSame
<1>4. In(p, Calls(o)') = In(p, Calls(o)) /\ In(p, Calls(o)) \in {0, 1}
  BY DEF In
<1>5. Cardinality(Calls(o)') = Cardinality(Calls(o))
  BY <1>3, <1>4
<1> QED
  BY <1>1, <1>2, <1>5 DEF CountInv, StructInv

(***************************************************************************)
(* A step in which no reference comes or goes: it writes positions and     *)
(* lengths, and p stays out of inode_open() and inode_close().             *)
(***************************************************************************)
Plain(p) ==
  /\ OthersSame(p)
  /\ UNCHANGED <<free_map, dir, dir_lock, open_inodes, main_file>>
  /\ \A o \in Inodes :
       /\ inode'[o].sector = inode[o].sector
       /\ inode'[o].open_cnt = inode[o].open_cnt
       /\ inode'[o].removed = inode[o].removed
       /\ inode'[o].deny_write_cnt = inode[o].deny_write_cnt
  /\ DOMAIN list_file'[p] = DOMAIN list_file[p]
  /\ \A k \in DOMAIN list_file[p] : list_file'[p][k].inode = list_file[p][k].inode
  /\ c[p].at \notin Midway /\ c'[p].at \notin Midway
  /\ \A o : p \in Calls(o)' <=> p \in Calls(o)

LEMMA PlainStep ==
  ASSUME StructInv, TypeInv', NEW p \in Procs, Plain(p), Call(p)'
  PROVE  StructInv'
PROOF
<1>1. CallInv'
  BY CallStep DEF Plain, DirPassed, StructInv
<1>2. OpenInv' /\ CloseInv' /\ ListInv'
  BY QuietStep DEF Plain, SameInodes
<1>3. MapInv'
  BY MapKept DEF Plain
<1>4. \A q \in Procs : /\ DOMAIN list_file'[q] = DOMAIN list_file[q]
                       /\ \A k \in DOMAIN list_file[q] :
                            list_file'[q][k].inode = list_file[q][k].inode
  BY DEF Plain, OthersSame
<1>5. CountInv'
  BY <1>4, CountKept DEF Plain
<1> QED
  BY <1>1, <1>2, <1>3, <1>5 DEF StructInv

LEMMA DescriptorFile ==
  ASSUME StructInv, NEW p \in Procs, NEW k \in DOMAIN list_file[p]
  PROVE  /\ list_file[p][k] \in FileObjects
         /\ list_file[p][k].inode \in Inodes /\ list_file[p][k].pos \in Nat
         /\ list_file[p] \in Seq(FileObjects) /\ k \in 1 .. Len(list_file[p]) /\ k \in Nat
PROOF
<1>1. list_file[p] \in Seq(FileObjects)
  BY DEF StructInv, TypeInv
<1>2. k \in 1 .. Len(list_file[p]) /\ k \in Nat
  BY <1>1
<1>3. list_file[p][k] \in FileObjects
  BY <1>1, <1>2
<1> QED
  BY <1>1, <1>2, <1>3 DEF FileObjects

LEMMA LoadFailsStep ==
  ASSUME StructInv, NEW p \in Procs, LoadFails(p)
  PROVE  StructInv'
PROOF
<1>1. c'[p] = [c[p] EXCEPT !.at = "close"] /\ c[p].at = "load" /\ c[p] \in CallRecords
  BY DEF LoadFails, Goto, At, StructInv, TypeInv
<1>2. TypeInv'
  <2>1. c' \in [Procs -> CallRecords]
    BY ZenonT(40) DEF LoadFails, Goto, StructInv, TypeInv, CallRecords, Places
  <2> QED
    BY <2>1 DEF LoadFails, StructInv, TypeInv, diskVars, dataVars
<1>3. OthersSame(p)
  BY DEF OthersSame, LoadFails, Goto, StructInv, TypeInv
<1>4. \A o : p \in Calls(o)' <=> p \in Calls(o)
  BY <1>1 DEF Calls, CallRecords
<1>5. Plain(p)
  BY <1>1, <1>3, <1>4 DEF Plain, LoadFails, diskVars, Midway, Opening, Closing, CallRecords
<1>6. Call(p)'
  <2>1. Call(p)
    BY DEF StructInv, CallInv
  <2> QED
    BY <1>1, <2>1 DEF Call, HasDir, LoadFails, diskVars, Handling, Writing, Opening, Closing, CallRecords
<1> QED
  BY <1>2, <1>5, <1>6, PlainStep

(* write() and read() begin. *)
LEMMA WriteStep ==
  ASSUME StructInv, NEW p \in Procs, NEW k \in DOMAIN list_file[p], NEW size \in 1 .. MaxLength,
         Write(p, k, size) \/ Read(p, k, size)
  PROVE  StructInv'
PROOF
<1> DEFINE f == list_file[p][k]
<1>1. /\ f \in FileObjects /\ f.inode \in Inodes /\ f.pos \in Nat /\ size \in Nat /\ size > 0
      /\ k \in Nat
  BY DescriptorFile, FilesAssumption
<1>2. \E place \in {"lock", "readin"} :
        c' = [c EXCEPT ![p] = [Idle EXCEPT !.at = place, !.inode = f.inode, !.file = k,
                                           !.off = f.pos, !.size = size]]
  BY DEF Write, Read, file_find_by_fd
<1>3. PICK place \in {"lock", "readin"} :
        c' = [c EXCEPT ![p] = [Idle EXCEPT !.at = place, !.inode = f.inode, !.file = k,
                                           !.off = f.pos, !.size = size]]
  BY <1>2
<1> HIDE DEF f
<1>4. /\ c[p].at = "idle"
      /\ UNCHANGED <<diskVars, dir_lock, open_inodes, inode, list_file, main_file, dataVars>>
  BY DEF Write, Read, At
<1>5. /\ c'[p] \in CallRecords
      /\ c'[p].at = place /\ c'[p].why = "none" /\ c'[p].inode = f.inode
      /\ c'[p].file = k /\ c'[p].size = size
  BY <1>1, <1>3 DEF StructInv, TypeInv, CallRecords, Idle, Places, Whys, Writing
<1>6. c' \in [Procs -> CallRecords]
  BY <1>3, <1>5 DEF StructInv, TypeInv
<1>7. TypeInv'
  BY <1>4, <1>6 DEF StructInv, TypeInv, diskVars, dataVars
<1>8. OthersSame(p)
  BY <1>3, <1>4 DEF OthersSame, StructInv, TypeInv
<1>9. \A o : p \in Calls(o)' <=> p \in Calls(o)
  BY <1>4, <1>5 DEF Calls
<1>10. Plain(p)
  BY <1>4, <1>5, <1>8, <1>9 DEF Plain, diskVars, Midway, Opening, Closing
<1>11. Call(p)'
  <2>1. Call(p)
    BY DEF StructInv, CallInv
  <2>2. f.inode = list_file'[p][k].inode
    BY <1>4 DEF f
  <2> QED
    BY <1>1, <1>4, <1>5, <2>1, <2>2 DEF Call, HasDir, diskVars, Handling, Writing, Opening, Closing
<1> QED
  BY <1>7, <1>10, <1>11, PlainStep

(* The steps of inode_write_at() and inode_read_at(). *)
LEMMA CopyStep ==
  ASSUME StructInv, NEW p \in Procs,
         WriteLock(p) \/ WriteGrow(p) \/ WriteCopy(p) \/ WriteShow(p) \/ ReadChunk(p)
  PROVE  StructInv'
PROOF
<1> DEFINE o == c[p].inode
<1>1. Call(p) /\ c[p] \in CallRecords /\ c[p].off \in Nat /\ c[p].size \in Nat /\ c[p].at \in Writing \cup {"readin"}
  BY DEF StructInv, CallInv, TypeInv, CallRecords, WriteLock, WriteGrow, WriteCopy, WriteShow, ReadChunk,
         At, Writing
<1>2. o \in Inodes /\ inode[o] \in InodeRecords
  BY <1>1, DescriptorFile DEF Call, StructInv, TypeInv
<1> HIDE DEF o
<1>3. UNCHANGED <<diskVars, dir_lock, open_inodes, list_file, main_file>>
  BY DEF WriteLock, WriteGrow, WriteCopy, WriteShow, ReadChunk
<1>4. /\ c' = [c EXCEPT ![p] = c'[p]]
      /\ c'[p] \in CallRecords /\ c'[p].at \in Growing \cup {"readin"}
      /\ c'[p].inode = c[p].inode /\ c'[p].file = c[p].file
      /\ c'[p].at \in {"grow", "show"} => c'[p].size > 0
  <2>0. c \in [Procs -> CallRecords]
    BY DEF StructInv, TypeInv
  <2>1. CASE WriteLock(p)
    <3> DEFINE place == IF c[p].off + c[p].size > inode[o].length THEN "grow" ELSE "copy"
    <3>1. c' = [c EXCEPT ![p].at = place]
      BY <2>1 DEF WriteLock, Goto, o
    <3>2. c[p].size > 0
      BY <1>1, <2>1 DEF Call, WriteLock, At
    <3>3. place \in {"grow", "copy"}
      OBVIOUS
    <3> HIDE DEF place
    <3> QED
      BY <1>1, <2>0, <3>1, <3>2, <3>3 DEF CallRecords, Places, Writing, Growing
  <2>2. CASE WriteGrow(p)
    <3>1. c' = [c EXCEPT ![p].at = "copy"]
      BY <2>2 DEF WriteGrow, Goto
    <3> QED
      BY <1>1, <2>0, <3>1 DEF CallRecords, Places, Writing, Growing
  <2>3. CASE WriteCopy(p)
    <3>1. c' = [c EXCEPT ![p].at = "show"] /\ c[p].size > 0
      BY <2>3 DEF WriteCopy, Goto
    <3> QED
      BY <1>1, <2>0, <3>1 DEF CallRecords, Places, Writing, Growing
  <2>4. CASE WriteShow(p)
    <3>1. c' = [c EXCEPT ![p].at = "copy", ![p].off = c[p].off + 1, ![p].size = c[p].size - 1]
      BY <2>4 DEF WriteShow
    <3>2. c[p].off + 1 \in Nat /\ c[p].size - 1 \in Nat
      BY <1>1, <2>4 DEF Call, WriteShow, At
    <3> QED
      BY <2>0, <3>1, <3>2 DEF CallRecords, Places, Writing, Growing
  <2>5. CASE ReadChunk(p)
    <3>1. c' = [c EXCEPT ![p].off = c[p].off + 1, ![p].size = c[p].size - 1] /\ c[p].at = "readin"
      BY <2>5 DEF ReadChunk, At
    <3>2. c[p].off + 1 \in Nat /\ c[p].size - 1 \in Nat
      BY <1>1, <2>5 DEF ReadChunk, Unread
    <3> QED
      BY <2>0, <3>1, <3>2 DEF CallRecords
  <2> QED
    BY <2>1, <2>2, <2>3, <2>4, <2>5
<1>5. c' \in [Procs -> CallRecords]
  BY <1>4 DEF StructInv, TypeInv
<1>6. /\ inode' \in [Inodes -> InodeRecords]
      /\ \A n \in Inodes :
           /\ inode'[n].sector = inode[n].sector
           /\ inode'[n].open_cnt = inode[n].open_cnt
           /\ inode'[n].removed = inode[n].removed
           /\ inode'[n].deny_write_cnt = inode[n].deny_write_cnt
  <2>0. inode \in [Inodes -> InodeRecords]
    BY DEF StructInv, TypeInv
  <2>1. CASE inode' = inode
    BY <2>0, <2>1
  <2>2. CASE WriteLock(p)
    <3>1. PICK l \in Procs \cup {NULL} : inode' = [inode EXCEPT ![o].lock = l]
      BY <2>2 DEF WriteLock, o
    <3> QED
      BY <1>2, <2>0, <3>1 DEF InodeRecords
  <2>3. CASE WriteGrow(p)
    <3> DEFINE n == c[p].off + c[p].size
    <3>1. inode' = [inode EXCEPT ![o].length = n, ![o].lock = NULL]
      BY <2>3 DEF WriteGrow, o
    <3>2. n \in Nat
      BY <1>1
    <3> HIDE DEF n
    <3> QED
      BY <1>2, <2>0, <3>1, <3>2 DEF InodeRecords
  <2>4. CASE WriteShow(p)
    <3> DEFINE n == IF inode[o].length_shown + 1 > inode[o].length THEN inode[o].length
                                                                    ELSE inode[o].length_shown + 1
    <3>1. inode' = [inode EXCEPT ![o].length_shown = n]
      BY <2>4 DEF WriteShow, o
    <3>2. n \in Nat
      BY <1>2 DEF InodeRecords
    <3> HIDE DEF n
    <3> QED
      BY <1>2, <2>0, <3>1, <3>2 DEF InodeRecords
  <2> QED
    BY <2>1, <2>2, <2>3, <2>4 DEF WriteCopy, ReadChunk
<1>7. grown' \in [Sectors -> Nat] /\ tangled' \subseteq Inodes
  <2>1. grown \in [Sectors -> Nat] /\ tangled \subseteq Inodes /\ c[p].off + c[p].size \in Nat
    BY <1>1, SMTT(30) DEF StructInv, TypeInv
  <2>2. \/ grown' = grown /\ (tangled' = tangled \/ tangled' = tangled \cup {o})
        \/ tangled' = tangled /\ \E s : grown' = [grown EXCEPT ![s] = c[p].off + c[p].size]
    BY DEF WriteLock, WriteGrow, WriteCopy, WriteShow, ReadChunk, dataVars, o
  <2> QED
    BY <1>2, <2>1, <2>2
<1>8. TypeInv'
  BY <1>3, <1>5, <1>6, <1>7 DEF StructInv, TypeInv, diskVars
<1>9. OthersSame(p)
  BY <1>3, <1>4 DEF OthersSame, StructInv, TypeInv
<1>10. \A n : p \in Calls(n)' <=> p \in Calls(n)
  BY <1>1, <1>4 DEF Calls, Writing, Growing
<1>11. Plain(p)
  BY <1>1, <1>3, <1>4, <1>6, <1>9, <1>10
     DEF Plain, diskVars, Midway, Opening, Closing, Writing, Growing
<1>12. Call(p)'
  BY <1>1, <1>3, <1>4 DEF Call, HasDir, diskVars, Handling, Writing, Opening, Closing, Growing
<1> QED
  BY <1>8, <1>11, <1>12, PlainStep

(* The position of a file changes and nothing else does. *)
LEMMA PositionSet ==
  ASSUME StructInv, NEW p \in Procs, NEW k \in DOMAIN list_file[p], NEW pos \in Nat,
         list_file' = [list_file EXCEPT ![p][k].pos = pos]
  PROVE  /\ list_file' \in [Procs -> Seq(FileObjects)]
         /\ \A q \in Procs \ {p} : list_file'[q] = list_file[q]
         /\ DOMAIN list_file'[p] = DOMAIN list_file[p]
         /\ \A i \in DOMAIN list_file[p] : list_file'[p][i].inode = list_file[p][i].inode
         /\ Len(list_file'[p]) = Len(list_file[p])
PROOF
<1> DEFINE s == list_file[p]
           t == [s EXCEPT ![k] = [s[k] EXCEPT !.pos = pos]]
<1>1. s \in Seq(FileObjects) /\ k \in 1 .. Len(s) /\ s[k] \in FileObjects
  BY DescriptorFile
<1>2. [s[k] EXCEPT !.pos = pos] \in FileObjects /\ [s[k] EXCEPT !.pos = pos].inode = s[k].inode
  BY <1>1 DEF FileObjects
<1>3. t \in Seq(FileObjects) /\ Len(t) = Len(s)
  BY <1>1, <1>2, ExceptSeq
<1>4. DOMAIN t = DOMAIN s /\ \A i \in DOMAIN s : t[i].inode = s[i].inode
  BY <1>1, <1>2
<1>5. list_file \in [Procs -> Seq(FileObjects)]
  BY DEF StructInv, TypeInv
<1>6. list_file' = [list_file EXCEPT ![p] = t]
  OBVIOUS
<1> HIDE DEF t
<1>7. list_file'[p] = t
  BY <1>5, <1>6
<1> QED
  BY <1>3, <1>4, <1>5, <1>6, <1>7

LEMMA AdvanceStep ==
  ASSUME StructInv, NEW p \in Procs, Advance(p)
  PROVE  StructInv'
PROOF
<1>1. c[p] \in CallRecords /\ c[p].off \in Nat /\ Call(p) /\ c[p].at \in {"readin", "copy"}
  BY DEF Advance, At, StructInv, TypeInv, CallInv, CallRecords
<1>2. c[p].file \in DOMAIN list_file[p]
  BY <1>1 DEF Call, Writing
<1>3. /\ list_file' \in [Procs -> Seq(FileObjects)]
      /\ \A q \in Procs \ {p} : list_file'[q] = list_file[q]
      /\ DOMAIN list_file'[p] = DOMAIN list_file[p]
      /\ \A i \in DOMAIN list_file[p] : list_file'[p][i].inode = list_file[p][i].inode
      /\ Len(list_file'[p]) = Len(list_file[p])
  BY <1>1, <1>2, PositionSet DEF Advance
<1>4. /\ UNCHANGED <<diskVars, dir_lock, open_inodes, inode, main_file, dataVars>>
      /\ c' = [c EXCEPT ![p] = Idle]
  BY DEF Advance, Return
<1>5. Idle \in CallRecords
  BY DEF Idle, CallRecords, Places, Whys
<1>6. c'[p] = Idle /\ c' \in [Procs -> CallRecords] /\ \A q \in Procs \ {p} : c'[q] = c[q]
  BY <1>4, <1>5 DEF StructInv, TypeInv
<1>7. TypeInv'
  BY <1>3, <1>4, <1>6 DEF StructInv, TypeInv, diskVars, dataVars
<1>8. OthersSame(p)
  BY <1>3, <1>4, <1>6 DEF OthersSame
<1>9. \A o : p \in Calls(o)' <=> p \in Calls(o)
  BY <1>1, <1>6 DEF Calls, Idle
<1>10. Plain(p)
  BY <1>1, <1>3, <1>4, <1>6, <1>8, <1>9 DEF Plain, diskVars, Midway, Opening, Closing, Idle
<1>11. Call(p)'
  BY <1>1, <1>3, <1>4, <1>6 DEF Call, HasDir, diskVars, Handling, Writing, Opening, Closing, Idle
<1> QED
  BY <1>7, <1>10, <1>11, PlainStep

LEMMA SeekStep ==
  ASSUME StructInv, NEW p \in Procs, NEW k \in DOMAIN list_file[p], NEW pos \in 0 .. MaxLength,
         Seek(p, k, pos)
  PROVE  StructInv'
PROOF
<1>1. Call(p) /\ c[p].at = "idle" /\ pos \in Nat
  BY FilesAssumption DEF Seek, At, StructInv, CallInv
<1>2. /\ list_file' \in [Procs -> Seq(FileObjects)]
      /\ \A q \in Procs \ {p} : list_file'[q] = list_file[q]
      /\ DOMAIN list_file'[p] = DOMAIN list_file[p]
      /\ \A i \in DOMAIN list_file[p] : list_file'[p][i].inode = list_file[p][i].inode
      /\ Len(list_file'[p]) = Len(list_file[p])
  BY <1>1, PositionSet DEF Seek
<1>3. UNCHANGED <<diskVars, dir_lock, open_inodes, inode, main_file, c, dataVars>>
  BY DEF Seek
<1>4. TypeInv'
  BY <1>2, <1>3 DEF StructInv, TypeInv, diskVars, dataVars
<1>5. OthersSame(p)
  BY <1>2, <1>3 DEF OthersSame
<1>6. Plain(p)
  BY <1>1, <1>2, <1>3, <1>5 DEF Plain, diskVars, Midway, Opening, Closing, Calls
<1>7. Call(p)'
  BY <1>1, <1>2, <1>3 DEF Call, HasDir, diskVars, Handling, Writing, Opening, Closing
<1> QED
  BY <1>4, <1>6, <1>7, PlainStep

-----------------------------------------------------------------------------
(* A reference changes hands, or one comes or goes. *)

(* The counts after a step of p, from what the step does to the references of p. *)
LEMMA CountMoved ==
  ASSUME StructInv, NEW p \in Procs, OthersSame(p),
         ASSUME NEW o \in Inodes
         PROVE  /\ inode'[o].open_cnt - inode[o].open_cnt =
                     (Cardinality(Descriptors(o)') - Cardinality(Descriptors(o)))
                     + (In(p, Runs(o)') - In(p, Runs(o))) + (In(p, Calls(o)') - In(p, Calls(o)))
                /\ inode'[o].deny_write_cnt - inode[o].deny_write_cnt =
                     In(p, Runs(o)') - In(p, Runs(o))
                /\ inode'[o].open_cnt \in Int /\ inode'[o].deny_write_cnt \in Int
                /\ Cardinality(Descriptors(o)') \in Int
  PROVE  CountInv'
PROOF
<1> SUFFICES ASSUME NEW o \in Inodes
             PROVE  /\ inode'[o].open_cnt = Cardinality(Descriptors(o)')
                                             + Cardinality(Runs(o)') + Cardinality(Calls(o)')
                    /\ inode'[o].deny_write_cnt = Cardinality(Runs(o)')
  BY DEF CountInv
<1>1. /\ inode'[o].open_cnt - inode[o].open_cnt =
           (Cardinality(Descriptors(o)') - Cardinality(Descriptors(o)))
           + (In(p, Runs(o)') - In(p, Runs(o))) + (In(p, Calls(o)') - In(p, Calls(o)))
      /\ inode'[o].deny_write_cnt - inode[o].deny_write_cnt =
           In(p, Runs(o)') - In(p, Runs(o))
      /\ inode'[o].open_cnt \in Int /\ inode'[o].deny_write_cnt \in Int
      /\ Cardinality(Descriptors(o)') \in Int
  OBVIOUS
<1>2. /\ Cardinality(Calls(o)) \in Nat /\ Cardinality(Calls(o)') \in Nat
      /\ Cardinality(Calls(o)') = Cardinality(Calls(o)) + In(p, Calls(o)') - In(p, Calls(o))
  BY CallsStep DEF OthersSame
<1>3. /\ Cardinality(Runs(o)) \in Nat /\ Cardinality(Runs(o)') \in Nat
      /\ Cardinality(Runs(o)') = Cardinality(Runs(o)) + In(p, Runs(o)') - In(p, Runs(o))
  BY RunsStep DEF OthersSame
<1>4. Cardinality(Descriptors(o)) \in Nat
  BY DescriptorsFinite, DescriptorsNames
<1>5. /\ inode[o].open_cnt = Cardinality(Descriptors(o)) + Cardinality(Runs(o)) + Cardinality(Calls(o))
      /\ inode[o].deny_write_cnt = Cardinality(Runs(o))
  BY DEF StructInv, CountInv
<1>6. /\ In(p, Calls(o)) \in Int /\ In(p, Calls(o)') \in Int
      /\ In(p, Runs(o)) \in Int /\ In(p, Runs(o)') \in Int
  BY DEF In
<1>7. inode[o].open_cnt \in Int /\ inode[o].deny_write_cnt \in Int
  BY <1>2, <1>3, <1>4, <1>5
<1>8. inode'[o].deny_write_cnt = Cardinality(Runs(o)')
  BY <1>1, <1>3, <1>5, <1>6, <1>7
<1>9. inode'[o].open_cnt = Cardinality(Descriptors(o)') + Cardinality(Runs(o)') + Cardinality(Calls(o)')
  <2> DEFINE x == inode[o].open_cnt
             y == inode'[o].open_cnt
             d == Cardinality(Descriptors(o))
             e == Cardinality(Descriptors(o)')
             r == Cardinality(Runs(o))
             t == Cardinality(Runs(o)')
             a == Cardinality(Calls(o))
             b == Cardinality(Calls(o)')
  <2>1. /\ x \in Int /\ y \in Int /\ d \in Int /\ e \in Int /\ r \in Int /\ t \in Int
        /\ a \in Int /\ b \in Int
    BY <1>1, <1>2, <1>3, <1>4, <1>7
  <2>2. t - r = In(p, Runs(o)') - In(p, Runs(o)) /\ b - a = In(p, Calls(o)') - In(p, Calls(o))
    BY <1>2, <1>3, <1>6
  <2>3. y - x = (e - d) + (t - r) + (b - a)
    BY <1>1, <2>2
  <2>4. x = d + r + a
    BY <1>5
  <2> HIDE DEF x, y, d, e, r, t, a, b
  <2>5. y = e + t + b
    BY <2>1, <2>3, <2>4
  <2> QED
    BY <2>5 DEF y, e, t, b
<1> QED
  BY <1>8, <1>9

LEMMA IdleRecord == Idle \in CallRecords
PROOF
  BY DEF Idle, CallRecords, Places, Whys

LEMMA DenySet ==
  ASSUME inode \in [Inodes -> InodeRecords], NEW o \in Inodes, NEW x \in Int,
         inode' = [inode EXCEPT ![o].deny_write_cnt = x]
  PROVE  /\ inode' \in [Inodes -> InodeRecords]
         /\ \A n \in Inodes :
              /\ inode'[n].sector = inode[n].sector
              /\ inode'[n].open_cnt = inode[n].open_cnt
              /\ inode'[n].removed = inode[n].removed
              /\ inode'[n].deny_write_cnt = IF n = o THEN x ELSE inode[n].deny_write_cnt
              /\ inode'[n].length = inode[n].length /\ inode'[n].length_shown = inode[n].length_shown
              /\ inode[n].open_cnt \in Int /\ inode[n].deny_write_cnt \in Int
PROOF
<1>1. \A n \in Inodes : inode[n] \in InodeRecords
  OBVIOUS
<1>2. inode'[o] = [inode[o] EXCEPT !.deny_write_cnt = x] /\ \A n \in Inodes \ {o} : inode'[n] = inode[n]
  OBVIOUS
<1>3. inode' \in [Inodes -> InodeRecords]
  BY <1>1 DEF InodeRecords
<1> QED
  BY <1>1, <1>2, <1>3 DEF InodeRecords

LEMMA LoadStep ==
  ASSUME StructInv, NEW p \in Procs, Load(p)
  PROVE  StructInv'
PROOF
<1> DEFINE o == c[p].inode
<1>1. c[p].at = "load" /\ Call(p) /\ c[p] \in CallRecords
  BY DEF Load, At, StructInv, CallInv, TypeInv
<1>2. o \in Inodes /\ main_file[p] = NULL
  BY <1>1 DEF Call, Handling
<1>3. Opened(o) \in FileObjects /\ Opened(o).inode = o /\ Opened(o) # NULL
  BY <1>2, FilesAssumption DEF Opened, FileObjects
<1>4. /\ UNCHANGED <<diskVars, dir_lock, open_inodes, list_file, dataVars>>
      /\ c' = [c EXCEPT ![p] = Idle]
      /\ main_file' = [main_file EXCEPT ![p] = Opened(o)]
      /\ inode' = [inode EXCEPT ![o].deny_write_cnt = @ + 1]
  BY DEF Load, Return, inode_deny_write
<1> HIDE DEF o
<1>5. c'[p] = Idle /\ c' \in [Procs -> CallRecords] /\ \A q \in Procs \ {p} : c'[q] = c[q]
  BY <1>4, IdleRecord DEF StructInv, TypeInv
<1>6. /\ main_file' \in [Procs -> FileObjects \cup {NULL}] /\ main_file'[p] = Opened(o)
      /\ \A q \in Procs \ {p} : main_file'[q] = main_file[q]
  BY <1>3, <1>4 DEF StructInv, TypeInv
<1>7. /\ inode' \in [Inodes -> InodeRecords]
      /\ \A n \in Inodes :
           /\ inode'[n].sector = inode[n].sector
           /\ inode'[n].open_cnt = inode[n].open_cnt
           /\ inode'[n].removed = inode[n].removed
           /\ inode'[n].deny_write_cnt = inode[n].deny_write_cnt + (IF n = o THEN 1 ELSE 0)
           /\ inode[n].open_cnt \in Int /\ inode[n].deny_write_cnt \in Int
  <2>1. inode \in [Inodes -> InodeRecords] /\ inode[o].deny_write_cnt + 1 \in Int
    BY <1>2 DEF StructInv, TypeInv, InodeRecords
  <2> DEFINE x == inode[o].deny_write_cnt + 1
  <2>2. x \in Int /\ inode' = [inode EXCEPT ![o].deny_write_cnt = x]
    BY <1>4, <2>1
  <2>3. x = inode[o].deny_write_cnt + 1
    OBVIOUS
  <2> HIDE DEF x
  <2>4. /\ inode' \in [Inodes -> InodeRecords]
        /\ \A n \in Inodes :
             /\ inode'[n].sector = inode[n].sector
             /\ inode'[n].open_cnt = inode[n].open_cnt
             /\ inode'[n].removed = inode[n].removed
             /\ inode'[n].deny_write_cnt = IF n = o THEN x ELSE inode[n].deny_write_cnt
             /\ inode[n].open_cnt \in Int /\ inode[n].deny_write_cnt \in Int
    BY <1>2, <2>1, <2>2, DenySet, ZenonT(40)
  <2> QED
    BY <2>3, <2>4
<1>8. TypeInv'
  BY <1>4, <1>5, <1>6, <1>7 DEF StructInv, TypeInv, diskVars, dataVars
<1>9. OthersSame(p)
  BY <1>4, <1>5, <1>6 DEF OthersSame
<1>10. Call(p)'
  BY <1>1, <1>4, <1>5 DEF Call, HasDir, diskVars, Handling, Writing, Opening, Closing, Idle
<1>11. CallInv'
  BY <1>4, <1>9, <1>10, CallStep DEF DirPassed, StructInv, diskVars
<1>12. OpenInv' /\ CloseInv' /\ ListInv'
  <2>1. c[p].at \notin Midway /\ c'[p].at \notin Midway
    BY <1>1, <1>5 DEF Midway, Opening, Closing, Idle
  <2>2. SameInodes
    BY <1>4, <1>7 DEF SameInodes
  <2> QED
    BY <1>9, <2>1, <2>2, QuietStep
<1>13. MapInv'
  BY <1>4, <1>7, MapKept DEF diskVars
<1>14. CountInv'
  <2>1. ASSUME NEW n \in Inodes
        PROVE  /\ In(p, Runs(n)') = (IF n = o THEN 1 ELSE 0) /\ In(p, Runs(n)) = 0
               /\ In(p, Calls(n)') = 0 /\ In(p, Calls(n)) = (IF n = o THEN 1 ELSE 0)
    BY <1>1, <1>2, <1>3, <1>5, <1>6 DEF In, Runs, Calls, Idle, o
  <2>2. ASSUME NEW n \in Inodes
        PROVE  Cardinality(Descriptors(n)') = Cardinality(Descriptors(n))
               /\ Cardinality(Descriptors(n)) \in Nat
    BY <1>4, <1>8, DescriptorsKept DEF StructInv
  <2>3. ASSUME NEW n \in Inodes
        PROVE  /\ inode'[n].open_cnt - inode[n].open_cnt =
                    (Cardinality(Descriptors(n)') - Cardinality(Descriptors(n)))
                    + (In(p, Runs(n)') - In(p, Runs(n))) + (In(p, Calls(n)') - In(p, Calls(n)))
               /\ inode'[n].deny_write_cnt - inode[n].deny_write_cnt =
                    In(p, Runs(n)') - In(p, Runs(n))
               /\ inode'[n].open_cnt \in Int /\ inode'[n].deny_write_cnt \in Int
               /\ Cardinality(Descriptors(n)') \in Int
    BY <1>7, <2>1, <2>2
  <2> QED
    BY <1>9, <2>3, CountMoved
<1> QED
  BY <1>8, <1>11, <1>12, <1>13, <1>14 DEF StructInv

LEMMA ExitMainStep ==
  ASSUME StructInv, NEW p \in Procs, ExitMain(p)
  PROVE  StructInv'
PROOF
<1> DEFINE o == main_file[p].inode
           r == [Idle EXCEPT !.at = "close", !.why = "exit", !.inode = o]
<1>1. c[p].at = "idle" /\ Call(p) /\ main_file[p] # NULL
  BY DEF ExitMain, At, StructInv, CallInv
<1>2. o \in Inodes
  BY <1>1 DEF StructInv, TypeInv, FileObjects
<1>3. /\ UNCHANGED <<diskVars, dir_lock, open_inodes, list_file, dataVars>>
      /\ c' = [c EXCEPT ![p] = r]
      /\ main_file' = [main_file EXCEPT ![p] = NULL]
      /\ inode' = [inode EXCEPT ![o].deny_write_cnt = @ - 1]
  BY DEF ExitMain, inode_allow_write
<1>4. r \in CallRecords /\ r.at = "close" /\ r.why = "exit" /\ r.inode = o
  BY <1>2 DEF Idle, CallRecords, Places, Whys
<1> HIDE DEF o, r
<1>5. c'[p] = r /\ c' \in [Procs -> CallRecords] /\ \A q \in Procs \ {p} : c'[q] = c[q]
  BY <1>3, <1>4 DEF StructInv, TypeInv
<1>6. /\ main_file' \in [Procs -> FileObjects \cup {NULL}] /\ main_file'[p] = NULL
      /\ \A q \in Procs \ {p} : main_file'[q] = main_file[q]
  BY <1>3 DEF StructInv, TypeInv
<1>7. /\ inode' \in [Inodes -> InodeRecords]
      /\ \A n \in Inodes :
           /\ inode'[n].sector = inode[n].sector
           /\ inode'[n].open_cnt = inode[n].open_cnt
           /\ inode'[n].removed = inode[n].removed
           /\ inode'[n].deny_write_cnt = inode[n].deny_write_cnt - (IF n = o THEN 1 ELSE 0)
           /\ inode[n].open_cnt \in Int /\ inode[n].deny_write_cnt \in Int
  <2>1. inode \in [Inodes -> InodeRecords] /\ inode[o].deny_write_cnt - 1 \in Int
    BY <1>2 DEF StructInv, TypeInv, InodeRecords
  <2> DEFINE x == inode[o].deny_write_cnt - 1
  <2>2. x \in Int /\ inode' = [inode EXCEPT ![o].deny_write_cnt = x]
    BY <1>3, <2>1
  <2>3. x = inode[o].deny_write_cnt - 1
    OBVIOUS
  <2> HIDE DEF x
  <2>4. /\ inode' \in [Inodes -> InodeRecords]
        /\ \A n \in Inodes :
             /\ inode'[n].sector = inode[n].sector
             /\ inode'[n].open_cnt = inode[n].open_cnt
             /\ inode'[n].removed = inode[n].removed
             /\ inode'[n].deny_write_cnt = IF n = o THEN x ELSE inode[n].deny_write_cnt
             /\ inode[n].open_cnt \in Int /\ inode[n].deny_write_cnt \in Int
    BY <1>2, <2>1, <2>2, DenySet, ZenonT(40)
  <2> QED
    BY <2>3, <2>4
<1>8. TypeInv'
  BY <1>3, <1>5, <1>6, <1>7 DEF StructInv, TypeInv, diskVars, dataVars
<1>9. OthersSame(p)
  BY <1>3, <1>5, <1>6 DEF OthersSame
<1>10. Call(p)'
  BY <1>1, <1>2, <1>3, <1>4, <1>5 DEF Call, HasDir, diskVars, Handling, Writing, Opening, Closing
<1>11. CallInv'
  BY <1>3, <1>9, <1>10, CallStep DEF DirPassed, StructInv, diskVars
<1>12. OpenInv' /\ CloseInv' /\ ListInv'
  <2>1. c[p].at \notin Midway /\ c'[p].at \notin Midway
    BY <1>1, <1>4, <1>5 DEF Midway, Opening, Closing
  <2>2. SameInodes
    BY <1>3, <1>7 DEF SameInodes
  <2> QED
    BY <1>9, <2>1, <2>2, QuietStep
<1>13. MapInv'
  BY <1>3, <1>7, MapKept DEF diskVars
<1>14. CountInv'
  <2>1. ASSUME NEW n \in Inodes
        PROVE  /\ In(p, Runs(n)') = 0 /\ In(p, Runs(n)) = (IF n = o THEN 1 ELSE 0)
               /\ In(p, Calls(n)') = (IF n = o THEN 1 ELSE 0) /\ In(p, Calls(n)) = 0
    BY <1>1, <1>2, <1>4, <1>5, <1>6 DEF In, Runs, Calls, o
  <2>2. ASSUME NEW n \in Inodes
        PROVE  Cardinality(Descriptors(n)') = Cardinality(Descriptors(n))
               /\ Cardinality(Descriptors(n)) \in Nat
    BY <1>3, <1>8, DescriptorsKept DEF StructInv
  <2>3. ASSUME NEW n \in Inodes
        PROVE  /\ inode'[n].open_cnt - inode[n].open_cnt =
                    (Cardinality(Descriptors(n)') - Cardinality(Descriptors(n)))
                    + (In(p, Runs(n)') - In(p, Runs(n))) + (In(p, Calls(n)') - In(p, Calls(n)))
               /\ inode'[n].deny_write_cnt - inode[n].deny_write_cnt =
                    In(p, Runs(n)') - In(p, Runs(n))
               /\ inode'[n].open_cnt \in Int /\ inode'[n].deny_write_cnt \in Int
               /\ Cardinality(Descriptors(n)') \in Int
    BY <1>7, <2>1, <2>2
  <2> QED
    BY <1>9, <2>3, CountMoved
<1> QED
  BY <1>8, <1>11, <1>12, <1>13, <1>14 DEF StructInv

(* A descriptor is taken out of the list for inode_close(). *)
LEMMA DropStep ==
  ASSUME StructInv, NEW p \in Procs, NEW k \in DOMAIN list_file[p], NEW why \in {"close", "last"},
         \/ list_file' = [list_file EXCEPT ![p] = RemoveAt(@, k)]
         \/ k = 1 /\ list_file' = [list_file EXCEPT ![p] = Tail(@)],
         c[p].at \in {"idle", "exit"},
         c' = [c EXCEPT ![p] = [Idle EXCEPT !.at = "close", !.why = why,
                                            !.inode = list_file[p][k].inode]],
         UNCHANGED <<diskVars, dir_lock, open_inodes, inode, main_file, dataVars>>
  PROVE  StructInv'
PROOF
<1> DEFINE o == list_file[p][k].inode
           r == [Idle EXCEPT !.at = "close", !.why = why, !.inode = o]
<1>1. Call(p) /\ o \in Inodes
  BY DescriptorFile DEF StructInv, CallInv
<1>2. r \in CallRecords /\ r.at = "close" /\ r.why = why /\ r.inode = o
  BY <1>1 DEF Idle, CallRecords, Places, Whys
<1> HIDE DEF o, r
<1>3. c'[p] = r /\ c' \in [Procs -> CallRecords] /\ \A q \in Procs \ {p} : c'[q] = c[q]
  BY <1>2 DEF StructInv, TypeInv, r, o
<1>4. ASSUME NEW n \in Inodes
      PROVE  /\ Cardinality(Descriptors(n)) \in Nat
             /\ Cardinality(Descriptors(n)') = Cardinality(Descriptors(n)) - (IF o = n THEN 1 ELSE 0)
  BY DescriptorsClose DEF StructInv, o
<1>5. list_file'[p] \in Seq(FileObjects) /\ Len(list_file'[p]) = Len(list_file[p]) - 1
  BY DescriptorsClose DEF StructInv
<1>6. /\ list_file' \in [Procs -> Seq(FileObjects)]
      /\ \A q \in Procs \ {p} : list_file'[q] = list_file[q]
  BY <1>5 DEF StructInv, TypeInv
<1>7. TypeInv'
  BY <1>3, <1>6 DEF StructInv, TypeInv, diskVars, dataVars
<1>8. OthersSame(p)
  BY <1>3, <1>6 DEF OthersSame
<1>9. Call(p)'
  <2>1. Len(list_file'[p]) <= MaxOpen
    BY <1>1, <1>5, FilesAssumption DEF Call, StructInv, TypeInv
  <2> QED
    BY <1>1, <1>2, <1>3, <2>1 DEF Call, HasDir, diskVars, Handling, Writing, Opening, Closing
<1>10. CallInv'
  BY <1>8, <1>9, CallStep DEF DirPassed, StructInv, diskVars
<1>11. OpenInv' /\ CloseInv' /\ ListInv'
  <2>1. c[p].at \notin Midway /\ c'[p].at \notin Midway
    BY <1>2, <1>3 DEF Midway, Opening, Closing
  <2> QED
    BY <1>8, <2>1, QuietStep DEF SameInodes
<1>12. MapInv'
  BY MapKept DEF diskVars
<1>13. CountInv'
  <2>1. ASSUME NEW n \in Inodes
        PROVE  /\ In(p, Runs(n)') = In(p, Runs(n)) /\ In(p, Runs(n)) \in Int
               /\ In(p, Calls(n)') = (IF o = n THEN 1 ELSE 0) /\ In(p, Calls(n)) = 0
    <3>1. p \in Runs(n)' <=> p \in Runs(n)
      BY DEF Runs
    <3>2. (p \in Calls(n)' <=> n = o) /\ p \notin Calls(n)
      BY <1>2, <1>3 DEF Calls
    <3> QED
      BY <3>1, <3>2 DEF In
  <2>2. ASSUME NEW n \in Inodes
        PROVE  inode'[n] = inode[n] /\ inode[n].open_cnt \in Int /\ inode[n].deny_write_cnt \in Int
    BY DEF StructInv, TypeInv, InodeRecords
  <2>3. ASSUME NEW n \in Inodes
        PROVE  /\ inode'[n].open_cnt - inode[n].open_cnt =
                    (Cardinality(Descriptors(n)') - Cardinality(Descriptors(n)))
                    + (In(p, Runs(n)') - In(p, Runs(n))) + (In(p, Calls(n)') - In(p, Calls(n)))
               /\ inode'[n].deny_write_cnt - inode[n].deny_write_cnt =
                    In(p, Runs(n)') - In(p, Runs(n))
               /\ inode'[n].open_cnt \in Int /\ inode'[n].deny_write_cnt \in Int
               /\ Cardinality(Descriptors(n)') \in Int
    BY <1>4, <2>1, <2>2
  <2> QED
    BY <1>8, <2>3, CountMoved
<1> QED
  BY <1>7, <1>10, <1>11, <1>12, <1>13 DEF StructInv

LEMMA CloseStep ==
  ASSUME StructInv, NEW p \in Procs, NEW k \in DOMAIN list_file[p], Close(p, k)
  PROVE  StructInv'
PROOF
  BY DropStep DEF Close, At, file_find_by_fd

LEMMA ExitFilesStep ==
  ASSUME StructInv, NEW p \in Procs, ExitFiles(p)
  PROVE  StructInv'
PROOF
<1>1. c[p].at = "exit" /\ UNCHANGED <<diskVars, dir_lock, open_inodes, inode, main_file, dataVars>>
  BY DEF ExitFiles, At
<1>2. CASE list_file[p] # <<>>
  <2>1. list_file[p] \in Seq(FileObjects)
    BY DEF StructInv, TypeInv
  <2>2. 1 \in DOMAIN list_file[p] /\ Head(list_file[p]) = list_file[p][1]
    BY <1>2, <2>1
  <2>3. /\ c' = [c EXCEPT ![p] = [Idle EXCEPT !.at = "close", !.why = "last",
                                              !.inode = list_file[p][1].inode]]
        /\ list_file' = [list_file EXCEPT ![p] = Tail(@)]
    BY <1>2, <2>2 DEF ExitFiles
  <2> QED
    BY <1>1, <2>2, <2>3, DropStep
<1>3. CASE list_file[p] = <<>>
  <2>1. c' = [c EXCEPT ![p].at = "gone"] /\ list_file' = list_file
    BY <1>3 DEF ExitFiles, Goto
  <2>2. Call(p) /\ c[p] \in CallRecords
    BY DEF StructInv, CallInv, TypeInv
  <2>3. /\ c'[p] = [c[p] EXCEPT !.at = "gone"] /\ c' \in [Procs -> CallRecords]
        /\ c'[p].at = "gone"
        /\ \A q \in Procs \ {p} : c'[q] = c[q]
    BY <2>1, ZenonT(40) DEF StructInv, TypeInv, CallRecords, Places
  <2>4. TypeInv'
    BY <1>1, <2>1, <2>3 DEF StructInv, TypeInv, diskVars, dataVars
  <2>5. \A o : p \in Calls(o)' <=> p \in Calls(o)
    BY <1>1, <2>3 DEF Calls
  <2>6. Plain(p)
    BY <1>1, <2>1, <2>3, <2>5 DEF Plain, OthersSame, diskVars, Midway, Opening, Closing
  <2>7. Call(p)'
    BY <1>1, <2>1, <2>2, <2>3 DEF Call, HasDir, diskVars, Handling, Writing, Opening, Closing
  <2> QED
    BY <2>4, <2>6, <2>7, PlainStep
<1> QED
  BY <1>2, <1>3

(* A new file has no struct inode yet. *)
LEMMA CreateStep ==
  ASSUME StructInv, NEW p \in Procs, NEW s \in Sectors, Create(p, s)
  PROVE  StructInv'
PROOF
<1>1. UNCHANGED <<dir_lock, open_inodes, inode, procVars, tangled>>
  BY DEF Create
<1>2. /\ c[p].at = "idle" /\ s \notin free_map /\ free_map' = free_map \cup {s} /\ dir' = dir \cup {s}
  BY DEF Create, At
<1>3. TypeInv'
  <2>1. disk_length' \in [Sectors -> Nat] /\ grown' \in [Sectors -> Nat]
    BY DEF Create, StructInv, TypeInv
  <2> QED
    BY <1>1, <1>2, <2>1 DEF StructInv, TypeInv, procVars
<1>4. CallInv'
  BY <1>1, <1>2 DEF StructInv, CallInv, Call, HasDir, procVars
<1>5. OpenInv' /\ CloseInv' /\ ListInv'
  <2>1. c[p].at \notin Midway /\ c'[p].at \notin Midway
    BY <1>1, <1>2 DEF Midway, Opening, Closing, procVars
  <2>2. OthersSame(p)
    BY <1>1 DEF OthersSame, procVars
  <2> QED
    BY <1>1, <2>1, <2>2, QuietStep DEF SameInodes
<1>6. MapInv'
  <2>1. Used' = Used
    BY <1>1 DEF Used
  <2>2. \A o \in Used : inode[o].sector \in free_map
    BY DEF StructInv, MapInv
  <2> QED
    BY <1>1, <1>2, <2>1, <2>2 DEF StructInv, MapInv
<1>7. CountInv'
  BY <1>1 DEF StructInv, CountInv, Descriptors, Runs, Calls, procVars
<1> QED
  BY <1>3, <1>4, <1>5, <1>6, <1>7 DEF StructInv

-----------------------------------------------------------------------------
(* inode_open(): the lock of the directory is held. *)

LEMMA DirAlone ==
  ASSUME StructInv, NEW p \in Procs, HasDir(p), NEW q \in Procs, q # p
  PROVE  ~HasDir(q) /\ c[q].at \notin Opening \cup {"erase"}
PROOF
  BY DEF StructInv, CallInv, Call, HasDir

LEMMA LookupStep ==
  ASSUME StructInv, NEW p \in Procs, NEW s \in Sectors, NEW why \in {"open", "load", "remove"},
         Lookup(p, s, why), ~raced'
  PROVE  StructInv'
PROOF
<1> DEFINE r == [Idle EXCEPT !.at = "scan", !.why = why, !.sector = s]
<1>1. /\ c[p].at = "idle" /\ dir_lock = NULL /\ dir_lock' = p /\ s \in dir
      /\ why = "open" => Len(list_file[p]) < MaxOpen
      /\ why = "load" => main_file[p] = NULL
      /\ c' = [c EXCEPT ![p] = r]
      /\ UNCHANGED <<diskVars, open_inodes, inode, list_file, main_file, dataVars>>
  BY DEF Lookup, At
<1>2. \A q \in Procs : c[q].at \in Closing => inode[c[q].inode].sector # s
  BY DEF Lookup
<1>3. r \in CallRecords /\ r.at = "scan" /\ r.why = why /\ r.sector = s
  BY DEF Idle, CallRecords, Places, Whys, Opening
<1> HIDE DEF r
<1>4. c'[p] = r /\ c' \in [Procs -> CallRecords] /\ \A q \in Procs \ {p} : c'[q] = c[q]
  BY <1>1, <1>3 DEF StructInv, TypeInv
<1>5. TypeInv'
  BY <1>1, <1>4 DEF StructInv, TypeInv, diskVars, dataVars
<1>6. OthersSame(p)
  BY <1>1, <1>4 DEF OthersSame
<1>7. Call(p)'
  <2>1. Call(p)
    BY DEF StructInv, CallInv
  <2> QED
    BY <1>1, <1>3, <1>4, <2>1 DEF Call, HasDir, diskVars, Handling, Writing, Opening, Closing
<1>8. CallInv'
  BY <1>1, <1>6, <1>7, CallStep DEF DirPassed, StructInv, diskVars
<1>9. Used' = Used
  BY <1>1 DEF Used
<1>10. OpenInv'
  BY <1>1, <1>3, <1>4, <1>9 DEF StructInv, OpenInv
<1>11. CloseInv'
  BY <1>1, <1>2, <1>3, <1>4, <1>9 DEF StructInv, CloseInv, Closing
<1>12. ListInv' /\ MapInv'
  BY <1>1, <1>9 DEF StructInv, ListInv, MapInv, diskVars
<1>13. CountInv'
  <2>1. \A o : p \in Calls(o)' <=> p \in Calls(o)
    BY <1>1, <1>3, <1>4 DEF Calls
  <2> QED
    BY <1>1, <1>5, <1>6, <2>1, CountKept
<1> QED
  BY <1>5, <1>8, <1>10, <1>11, <1>12, <1>13 DEF StructInv

LEMMA OpenScanStep ==
  ASSUME StructInv, NEW p \in Procs, OpenScan(p)
  PROVE  StructInv'
PROOF
<1>1. /\ c[p].at = "scan" /\ Call(p) /\ c[p] \in CallRecords
      /\ UNCHANGED <<diskVars, dir_lock, open_inodes, inode, list_file, main_file, dataVars>>
  BY DEF OpenScan, At, StructInv, CallInv, TypeInv
<1>2. \A o \in Used : inode[o].sector = c[p].sector => inode[o].open_cnt > 0 /\ o \in open_inodes
  BY <1>1 DEF StructInv, CloseInv, ListInv, Opening, Used
<1>3. open_inodes \subseteq Used /\ open_inodes \subseteq Inodes
  BY DEF StructInv, ListInv, TypeInv
<1>4. \/ /\ c' = [c EXCEPT ![p].at = "new"]
         /\ \A o \in open_inodes : inode[o].sector # c[p].sector
      \/ \E o \in open_inodes :
           /\ c' = [c EXCEPT ![p].at = "reopen", ![p].inode = o]
           /\ inode[o].sector = c[p].sector
  BY DEF OpenScan, Goto
<1>5. /\ c' \in [Procs -> CallRecords] /\ \A q \in Procs \ {p} : c'[q] = c[q]
      /\ c'[p].at \in {"new", "reopen"} /\ c'[p].why = c[p].why /\ c'[p].sector = c[p].sector
      /\ c'[p].at = "reopen" =>
           /\ c'[p].inode \in open_inodes /\ inode[c'[p].inode].sector = c[p].sector
      /\ c'[p].at = "new" => \A o \in open_inodes : inode[o].sector # c[p].sector
  <2>1. c \in [Procs -> CallRecords]
    BY DEF StructInv, TypeInv
  <2>2. CASE /\ c' = [c EXCEPT ![p].at = "new"]
             /\ \A o \in open_inodes : inode[o].sector # c[p].sector
    BY <2>1, <2>2 DEF CallRecords, Places, Opening
  <2>3. ASSUME NEW o \in open_inodes,
               c' = [c EXCEPT ![p].at = "reopen", ![p].inode = o],
               inode[o].sector = c[p].sector
        PROVE  c' \in [Procs -> CallRecords]
    BY <1>3, <2>1, <2>3, ZenonT(40) DEF CallRecords, Places, Opening
  <2>4. ASSUME NEW o \in open_inodes,
               c' = [c EXCEPT ![p].at = "reopen", ![p].inode = o],
               inode[o].sector = c[p].sector
        PROVE  /\ \A q \in Procs \ {p} : c'[q] = c[q]
               /\ c'[p].at = "reopen" /\ c'[p].why = c[p].why /\ c'[p].sector = c[p].sector
               /\ c'[p].inode \in open_inodes /\ inode[c'[p].inode].sector = c[p].sector
    BY <1>3, <2>1, <2>4 DEF CallRecords
  <2> QED
    BY <1>4, <2>2, <2>3, <2>4
<1>6. TypeInv'
  BY <1>1, <1>5 DEF StructInv, TypeInv, diskVars, dataVars
<1>7. OthersSame(p)
  BY <1>1, <1>5 DEF OthersSame
<1>8. Call(p)'
  BY <1>1, <1>3, <1>5 DEF Call, HasDir, diskVars, Handling, Writing, Opening, Closing
<1>9. CallInv'
  BY <1>1, <1>7, <1>8, CallStep DEF DirPassed, StructInv, diskVars
<1>10. Used' = Used
  BY <1>1 DEF Used
<1>11. OpenInv'
  <2>1. /\ c'[p].at = "reopen" => inode[c'[p].inode].open_cnt > 0
        /\ c'[p].at = "new" => \A o \in Used : inode[o].sector # c'[p].sector
    BY <1>2, <1>3, <1>5
  <2> QED
    BY <1>1, <1>5, <1>10, <2>1 DEF StructInv, OpenInv
<1>12. CloseInv'
  BY <1>1, <1>5, <1>10 DEF StructInv, CloseInv, Closing, Opening
<1>13. ListInv' /\ MapInv'
  BY <1>1, <1>10 DEF StructInv, ListInv, MapInv, diskVars
<1>14. CountInv'
  <2>1. \A o : p \in Calls(o)' <=> p \in Calls(o)
    BY <1>1, <1>5 DEF Calls
  <2> QED
    BY <1>1, <1>6, <1>7, <2>1, CountKept
<1> QED
  BY <1>6, <1>9, <1>11, <1>12, <1>13, <1>14 DEF StructInv

LEMMA UnusedInode ==
  /\ Unused \in InodeRecords
  /\ Unused.sector = NULL /\ Unused.open_cnt = 0 /\ Unused.deny_write_cnt = 0
  /\ Unused.removed = FALSE
  /\ Unused.length = 0 /\ Unused.length_shown = 0
PROOF
<1>1. Unused \in InodeRecords
  BY DEF Unused, InodeRecords
<1>2. Unused.removed = FALSE
  BY DEF Unused
<1> QED
  BY <1>1, <1>2 DEF Unused

LEMMA FreshInode ==
  ASSUME NEW u \in InodeRecords, NEW s \in Sectors
  PROVE  /\ [u EXCEPT !.sector = s, !.open_cnt = 1] \in InodeRecords
         /\ [u EXCEPT !.sector = s, !.open_cnt = 1].sector = s
         /\ [u EXCEPT !.sector = s, !.open_cnt = 1].open_cnt = 1
         /\ [u EXCEPT !.sector = s, !.open_cnt = 1].removed = u.removed
         /\ [u EXCEPT !.sector = s, !.open_cnt = 1].deny_write_cnt = u.deny_write_cnt
         /\ [u EXCEPT !.sector = s, !.open_cnt = 1].length = u.length
         /\ [u EXCEPT !.sector = s, !.open_cnt = 1].length_shown = u.length_shown
PROOF
<1> DEFINE r == [u EXCEPT !.sector = s, !.open_cnt = 1]
<1>1. r \in InodeRecords
  <2> DEFINE v == [u EXCEPT !.sector = s]
  <2>1. v \in InodeRecords
    BY DEF InodeRecords
  <2>2. r = [v EXCEPT !.open_cnt = 1]
    OBVIOUS
  <2> HIDE DEF v, r
  <2> QED
    BY <2>1, <2>2 DEF InodeRecords
<1>2. r.sector = s
  BY DEF InodeRecords
<1>3. r.open_cnt = 1
  BY DEF InodeRecords
<1>4. r.removed = u.removed
  BY DEF InodeRecords
<1>5. r.deny_write_cnt = u.deny_write_cnt
  BY DEF InodeRecords
<1>6. r.length = u.length
  BY DEF InodeRecords
<1>7. r.length_shown = u.length_shown
  BY DEF InodeRecords
<1> QED
  BY <1>1, <1>2, <1>3, <1>4, <1>5, <1>6, <1>7

LEMMA OpenNewStep ==
  ASSUME StructInv, NEW p \in Procs, OpenNew(p)
  PROVE  StructInv'
PROOF
<1>1. /\ c[p].at = "new" /\ Call(p) /\ c[p] \in CallRecords /\ HasDir(p)
      /\ UNCHANGED <<diskVars, dir_lock, list_file, main_file, grown>>
  BY DEF OpenNew, At, StructInv, CallInv, TypeInv, HasDir, Opening
<1>2. PICK o \in Inodes :
        /\ inode[o] = Unused
        /\ open_inodes' = open_inodes \cup {o}
        /\ inode' = [inode EXCEPT ![o] = [Unused EXCEPT !.sector = c[p].sector, !.open_cnt = 1]]
        /\ tangled' = tangled \ {o}
        /\ c' = [c EXCEPT ![p].at = "read", ![p].inode = o]
  BY DEF OpenNew
<1>3. c[p].sector \in dir /\ c[p].sector \in Sectors /\ c[p].sector # NULL
  BY <1>1, FilesAssumption DEF Call, Opening, StructInv, TypeInv
<1>4. /\ c' \in [Procs -> CallRecords] /\ \A q \in Procs \ {p} : c'[q] = c[q]
      /\ c'[p].at = "read" /\ c'[p].why = c[p].why /\ c'[p].sector = c[p].sector /\ c'[p].inode = o
  BY <1>2, ZenonT(40) DEF StructInv, TypeInv, CallRecords, Places, Opening
<1>5. /\ inode' \in [Inodes -> InodeRecords]
      /\ \A n \in Inodes \ {o} : inode'[n] = inode[n]
      /\ inode'[o].sector = c[p].sector /\ inode'[o].open_cnt = 1
      /\ inode'[o].removed = FALSE /\ inode'[o].deny_write_cnt = 0
      /\ inode[o].sector = NULL /\ inode[o].open_cnt = 0 /\ inode[o].deny_write_cnt = 0
  <2> DEFINE r == [Unused EXCEPT !.sector = c[p].sector, !.open_cnt = 1]
  <2>1. /\ r \in InodeRecords /\ r.sector = c[p].sector /\ r.open_cnt = 1
        /\ r.removed = FALSE /\ r.deny_write_cnt = 0
    BY <1>3, UnusedInode, FreshInode
  <2>2. Unused.sector = NULL /\ Unused.open_cnt = 0 /\ Unused.deny_write_cnt = 0
    BY UnusedInode
  <2>3. inode' = [inode EXCEPT ![o] = r] /\ inode \in [Inodes -> InodeRecords] /\ inode[o] = Unused
    BY <1>2 DEF StructInv, TypeInv
  <2> HIDE DEF r
  <2> QED
    BY <2>1, <2>2, <2>3
<1>6. TypeInv'
  BY <1>1, <1>2, <1>4, <1>5 DEF StructInv, TypeInv, diskVars
<1>7. OthersSame(p)
  BY <1>1, <1>4 DEF OthersSame
<1>8. Call(p)'
  BY <1>1, <1>4 DEF Call, HasDir, diskVars, Handling, Writing, Opening, Closing
<1>9. CallInv'
  BY <1>1, <1>7, <1>8, CallStep DEF DirPassed, StructInv, diskVars
<1>10. Used' = Used \cup {o} /\ o \notin Used
  BY <1>3, <1>5 DEF Used
<1>11. \A q \in Procs \ {p} : c'[q].at \notin Opening \cup {"erase"}
  BY <1>1, <1>4, DirAlone
<1>12. OpenInv'
  BY <1>4, <1>5, <1>11 DEF OpenInv, Opening
<1>13. \A n \in Used : inode[n].sector # c[p].sector
  BY <1>1 DEF StructInv, OpenInv
<1>14. CloseInv'
  <2>1. ASSUME NEW q \in Procs, c'[q].at \in Closing
        PROVE  /\ c'[q].inode \in Used' /\ inode'[c'[q].inode].open_cnt = 0
               /\ c'[q].at = "unlist" <=> c'[q].inode \in open_inodes'
               /\ \A r \in Procs : c'[r].at \in Closing /\ c'[r].inode = c'[q].inode => r = q
               /\ \A r \in Procs : c'[r].at \in Opening => c'[r].sector # inode'[c'[q].inode].sector
    <3>1. q # p /\ c'[q] = c[q] /\ c[q].inode \in Used /\ c[q].inode # o /\ c[q].inode \in Inodes
      BY <1>4, <1>10, <2>1 DEF StructInv, CloseInv, Closing, Used
    <3>2. inode'[c[q].inode] = inode[c[q].inode]
      BY <1>5, <3>1
    <3>3. \A r \in Procs : c'[r].at \in Opening => r = p
      BY <1>11
    <3>4. \A r \in Procs : c'[r].at \in Closing => c'[r] = c[r]
      BY <1>4 DEF Closing
    <3>5. CloseInv
      BY DEF StructInv
    <3> QED
      BY <1>2, <1>4, <1>10, <1>13, <2>1, <3>1, <3>2, <3>3, <3>4, <3>5 DEF CloseInv
  <2>2. ASSUME NEW n \in Used'
        PROVE  inode'[n].open_cnt > 0 \/ \E q \in Procs : c'[q].at \in Closing /\ c'[q].inode = n
    <3>1. CASE n = o
      BY <1>5, <3>1
    <3>2. CASE n # o
      <4>1. n \in Used /\ inode'[n] = inode[n]
        BY <1>5, <1>10, <3>2 DEF Used
      <4>2. \A q \in Procs : c[q].at \in Closing => c'[q] = c[q]
        BY <1>1, <1>4 DEF Closing
      <4> QED
        BY <4>1, <4>2 DEF StructInv, CloseInv
    <3> QED
      BY <3>1, <3>2
  <2> QED
    BY <2>1, <2>2 DEF CloseInv
<1>15. ListInv'
  <2>1. \A n \in Used' : n = o \/ (n \in Used /\ n # o /\ inode'[n] = inode[n])
    BY <1>5, <1>10 DEF Used
  <2>2. \A n \in Inodes : n = o \/ inode'[n] = inode[n]
    BY <1>5
  <2> QED
    BY <1>2, <1>5, <1>10, <1>13, <2>1, <2>2 DEF StructInv, ListInv
<1>16. MapInv'
  <2>1. \A n \in Used' : n = o \/ (n \in Used /\ n # o /\ inode'[n] = inode[n])
    BY <1>5, <1>10 DEF Used
  <2>2. {inode'[n].sector : n \in Used'} = {inode[n].sector : n \in Used} \cup {c[p].sector}
    <3>1. \A n \in Used : n \in Used' /\ inode'[n] = inode[n]
      BY <1>10, <2>1
    <3> QED
      BY <1>5, <1>10, <2>1, <3>1
  <2>3. \A n \in Used' : inode'[n].removed <=> inode'[n].sector \notin dir'
    BY <1>1, <1>3, <1>5, <2>1 DEF StructInv, MapInv, diskVars
  <2> QED
    BY <1>1, <1>3, <2>2, <2>3 DEF StructInv, MapInv, diskVars
<1>17. CountInv'
  <2>1. ASSUME NEW n \in Inodes
        PROVE  /\ In(p, Runs(n)') = In(p, Runs(n)) /\ In(p, Runs(n)) \in Int
               /\ In(p, Calls(n)') = (IF n = o THEN 1 ELSE 0) /\ In(p, Calls(n)) = 0
    <3>1. p \in Runs(n)' <=> p \in Runs(n)
      BY <1>1 DEF Runs
    <3>2. (p \in Calls(n)' <=> n = o) /\ p \notin Calls(n)
      BY <1>1, <1>4 DEF Calls
    <3> QED
      BY <3>1, <3>2 DEF In
  <2>2. ASSUME NEW n \in Inodes
        PROVE  Cardinality(Descriptors(n)') = Cardinality(Descriptors(n))
               /\ Cardinality(Descriptors(n)) \in Nat
    BY <1>1, <1>6, DescriptorsKept DEF StructInv
  <2>3. ASSUME NEW n \in Inodes
        PROVE  /\ inode'[n].open_cnt = inode[n].open_cnt + (IF n = o THEN 1 ELSE 0)
               /\ inode'[n].deny_write_cnt = inode[n].deny_write_cnt
               /\ inode[n].open_cnt \in Int /\ inode[n].deny_write_cnt \in Int
    BY <1>5, SMTT(30) DEF StructInv, TypeInv, InodeRecords
  <2>4. ASSUME NEW n \in Inodes
        PROVE  /\ inode'[n].open_cnt - inode[n].open_cnt =
                    (Cardinality(Descriptors(n)') - Cardinality(Descriptors(n)))
                    + (In(p, Runs(n)') - In(p, Runs(n))) + (In(p, Calls(n)') - In(p, Calls(n)))
               /\ inode'[n].deny_write_cnt - inode[n].deny_write_cnt =
                    In(p, Runs(n)') - In(p, Runs(n))
               /\ inode'[n].open_cnt \in Int /\ inode'[n].deny_write_cnt \in Int
               /\ Cardinality(Descriptors(n)') \in Int
    BY <2>1, <2>2, <2>3
  <2> QED
    BY <1>7, <2>4, CountMoved
<1> QED
  BY <1>6, <1>9, <1>12, <1>14, <1>15, <1>16, <1>17 DEF StructInv

(***************************************************************************)
(* inode_open() returns o: the reference goes to a descriptor, to load()   *)
(* or to dir_remove().                                                     *)
(***************************************************************************)
LEMMA OpenedStep ==
  ASSUME StructInv, NEW p \in Procs, c[p].at \in {"reopen", "read"}, Opened1(p, c[p].inode),
         UNCHANGED <<diskVars, main_file>>
  PROVE  /\ c' \in [Procs -> CallRecords] /\ list_file' \in [Procs -> Seq(FileObjects)]
         /\ dir_lock' \in Procs \cup {NULL}
         /\ OthersSame(p) /\ CallInv'
         /\ c'[p].at \in {"idle", "load", "erase"}
         /\ c'[p].at = "erase" => c'[p].inode = c[p].inode /\ c'[p].sector = c[p].sector
         /\ \A n \in Inodes :
              /\ Cardinality(Descriptors(n)) \in Nat /\ Cardinality(Descriptors(n)') \in Nat
              /\ In(p, Calls(n)') \in Int
              /\ (Cardinality(Descriptors(n)') - Cardinality(Descriptors(n))) + In(p, Calls(n)')
                   = IF n = c[p].inode THEN 1 ELSE 0
PROOF
<1> DEFINE o == c[p].inode
<1>1. Call(p) /\ c[p] \in CallRecords /\ o \in Inodes /\ c[p].at \in Opening
  BY DEF StructInv, CallInv, Call, TypeInv, Handling, Opening
<1>2. c[p].why \in {"open", "load", "remove"} /\ dir_lock = p
  BY <1>1 DEF Call, HasDir
<1>3. CASE c[p].why = "open"
  <2>1. /\ dir_lock' = NULL
        /\ list_file' = [list_file EXCEPT ![p] = Append(@, Opened(o))]
        /\ c' = [c EXCEPT ![p] = Idle]
    BY <1>3 DEF Opened1, Return
  <2>2. Opened(o) \in FileObjects /\ Opened(o).inode = o /\ Len(list_file[p]) < MaxOpen
    BY <1>1, <1>3 DEF Opened, FileObjects, Call
  <2>3. c'[p] = Idle /\ c' \in [Procs -> CallRecords] /\ \A q \in Procs \ {p} : c'[q] = c[q]
    BY <2>1, IdleRecord DEF StructInv, TypeInv
  <2>4. list_file[p] \in Seq(FileObjects) /\ MaxOpen \in Nat
    BY FilesAssumption DEF StructInv, TypeInv
  <2>5. /\ list_file' \in [Procs -> Seq(FileObjects)] /\ Len(list_file'[p]) = Len(list_file[p]) + 1
        /\ \A q \in Procs \ {p} : list_file'[q] = list_file[q]
    BY <2>1, <2>2, <2>4 DEF StructInv, TypeInv
  <2>6. OthersSame(p)
    BY <2>3, <2>5 DEF OthersSame
  <2>7. Call(p)'
    <3>1. Len(list_file'[p]) <= MaxOpen
      BY <2>2, <2>4, <2>5
    <3> QED
      BY <2>1, <2>3, <3>1, FilesAssumption
         DEF Call, HasDir, Idle, Handling, Writing, Opening, Closing
  <2>8. CallInv'
    BY <1>2, <2>1, <2>6, <2>7, CallStep DEF DirPassed, StructInv, diskVars
  <2>9. ASSUME NEW n \in Inodes
        PROVE  /\ Cardinality(Descriptors(n)) \in Nat
               /\ Cardinality(Descriptors(n)') = Cardinality(Descriptors(n)) + (IF o = n THEN 1 ELSE 0)
               /\ In(p, Calls(n)') = 0
    <3>1. In(p, Calls(n)') = 0
      BY <2>3 DEF In, Calls, Idle
    <3> QED
      BY <2>1, <2>2, <3>1, DescriptorsAppend DEF StructInv
  <2> QED
    BY <2>1, <2>3, <2>5, <2>6, <2>8, <2>9 DEF Idle
<1>4. CASE c[p].why \in {"load", "remove"}
  <2> DEFINE place == IF c[p].why = "load" THEN "load" ELSE "erase"
  <2>1. /\ dir_lock' = IF c[p].why = "load" THEN NULL ELSE dir_lock
        /\ list_file' = list_file
        /\ c' = [c EXCEPT ![p].at = place, ![p].inode = o]
    BY <1>4 DEF Opened1
  <2>2. place \in {"load", "erase"} /\ (place = "load" <=> c[p].why = "load")
    BY <1>4
  <2> HIDE DEF place, o
  <2>3. /\ c' \in [Procs -> CallRecords] /\ \A q \in Procs \ {p} : c'[q] = c[q]
        /\ c'[p].at = place /\ c'[p].inode = o /\ c'[p].why = c[p].why /\ c'[p].sector = c[p].sector
    BY <1>1, <2>1, <2>2 DEF StructInv, TypeInv, CallRecords, Places
  <2>4. OthersSame(p)
    BY <2>1, <2>3 DEF OthersSame
  <2>5. Call(p)'
    BY <1>1, <1>2, <1>4, <2>1, <2>2, <2>3, FilesAssumption
       DEF Call, HasDir, Handling, Writing, Opening, Closing, diskVars
  <2>6. CallInv'
    BY <1>2, <2>1, <2>4, <2>5, CallStep DEF DirPassed, StructInv, diskVars
  <2>7. ASSUME NEW n \in Inodes
        PROVE  /\ Cardinality(Descriptors(n)) \in Nat
               /\ Cardinality(Descriptors(n)') = Cardinality(Descriptors(n))
               /\ In(p, Calls(n)') = (IF o = n THEN 1 ELSE 0)
    <3>1. In(p, Calls(n)') = (IF o = n THEN 1 ELSE 0)
      BY <2>2, <2>3 DEF In, Calls
    <3>2. Descriptors(n)' = Descriptors(n)
      BY <2>1 DEF Descriptors
    <3>3. Cardinality(Descriptors(n)) \in Nat
      BY DescriptorsFinite, DescriptorsNames
    <3> QED
      BY <3>1, <3>2, <3>3
  <2> QED
    BY <1>2, <2>1, <2>2, <2>3, <2>4, <2>6, <2>7, TypeInv DEF StructInv, TypeInv, o
<1> QED
  BY <1>2, <1>3, <1>4

LEMMA OpenCntSet ==
  ASSUME inode \in [Inodes -> InodeRecords], NEW o \in Inodes, NEW x \in Int,
         inode' = [inode EXCEPT ![o].open_cnt = x]
  PROVE  /\ inode' \in [Inodes -> InodeRecords]
         /\ \A n \in Inodes :
              /\ inode'[n].sector = inode[n].sector
              /\ inode'[n].deny_write_cnt = inode[n].deny_write_cnt
              /\ inode'[n].removed = inode[n].removed
              /\ inode'[n].open_cnt = IF n = o THEN x ELSE inode[n].open_cnt
              /\ inode'[n].length = inode[n].length /\ inode'[n].length_shown = inode[n].length_shown
              /\ inode[n].open_cnt \in Int /\ inode[n].deny_write_cnt \in Int
PROOF
<1>1. \A n \in Inodes : inode[n] \in InodeRecords
  OBVIOUS
<1>2. inode'[o] = [inode[o] EXCEPT !.open_cnt = x] /\ \A n \in Inodes \ {o} : inode'[n] = inode[n]
  OBVIOUS
<1>3. inode' \in [Inodes -> InodeRecords]
  BY <1>1 DEF InodeRecords
<1> QED
  BY <1>1, <1>2, <1>3 DEF InodeRecords

LEMMA OpenReturnsStep ==
  ASSUME StructInv, NEW p \in Procs, OpenReopen(p) \/ OpenRead(p)
  PROVE  StructInv'
PROOF
<1> DEFINE o == c[p].inode
           d == IF c[p].at = "reopen" THEN 1 ELSE 0
<1>1. /\ c[p].at \in {"reopen", "read"} /\ Call(p) /\ o \in Inodes /\ inode[o].open_cnt > 0
      /\ inode[o].sector = c[p].sector
      /\ UNCHANGED <<diskVars, open_inodes, main_file, dataVars>>
  <2>1. /\ c[p].at \in {"reopen", "read"} /\ Call(p)
        /\ UNCHANGED <<diskVars, open_inodes, main_file, dataVars>>
    BY DEF OpenReopen, OpenRead, At, StructInv, CallInv
  <2>2. o \in Inodes /\ inode[o].sector = c[p].sector
        /\ (inode[o].open_cnt > 0 \/ inode[o].open_cnt = 1)
    BY <2>1 DEF Call, Handling, StructInv, OpenInv
  <2> QED
    BY <2>1, <2>2
<1>2. /\ c' \in [Procs -> CallRecords] /\ list_file' \in [Procs -> Seq(FileObjects)]
      /\ dir_lock' \in Procs \cup {NULL}
      /\ OthersSame(p) /\ CallInv'
      /\ c'[p].at \in {"idle", "load", "erase"}
      /\ c'[p].at = "erase" => c'[p].inode = o /\ c'[p].sector = c[p].sector
      /\ \A n \in Inodes :
           /\ Cardinality(Descriptors(n)) \in Nat /\ Cardinality(Descriptors(n)') \in Nat
           /\ In(p, Calls(n)') \in Int
           /\ (Cardinality(Descriptors(n)') - Cardinality(Descriptors(n))) + In(p, Calls(n)')
                = IF n = o THEN 1 ELSE 0
  BY <1>1, OpenedStep DEF OpenReopen, OpenRead
<1>3. /\ inode' \in [Inodes -> InodeRecords]
      /\ \A n \in Inodes :
           /\ inode'[n].sector = inode[n].sector
           /\ inode'[n].removed = inode[n].removed
           /\ inode'[n].deny_write_cnt = inode[n].deny_write_cnt
           /\ inode'[n].open_cnt = inode[n].open_cnt + (IF n = o THEN d ELSE 0)
           /\ inode[n].open_cnt \in Int /\ inode[n].deny_write_cnt \in Int
  <2>0. inode \in [Inodes -> InodeRecords]
    BY DEF StructInv, TypeInv
  <2>1. CASE OpenReopen(p)
    <3> DEFINE x == inode[o].open_cnt + 1
    <3>1. x \in Int /\ inode' = [inode EXCEPT ![o].open_cnt = x] /\ d = 1
      BY <1>1, <2>0, <2>1 DEF OpenReopen, InodeRecords, At
    <3>2. x = inode[o].open_cnt + 1
      OBVIOUS
    <3> HIDE DEF x, d, o
    <3>3. /\ inode' \in [Inodes -> InodeRecords]
          /\ \A n \in Inodes :
               /\ inode'[n].sector = inode[n].sector
               /\ inode'[n].deny_write_cnt = inode[n].deny_write_cnt
               /\ inode'[n].removed = inode[n].removed
               /\ inode'[n].open_cnt = IF n = o THEN x ELSE inode[n].open_cnt
               /\ inode[n].open_cnt \in Int /\ inode[n].deny_write_cnt \in Int
      BY <1>1, <2>0, <3>1, OpenCntSet, ZenonT(40)
    <3> QED
      BY <3>1, <3>2, <3>3
  <2>2. CASE OpenRead(p)
    <3> DEFINE l == disk_length[c[p].sector]
    <3>1. inode' = [inode EXCEPT ![o].length = l, ![o].length_shown = l] /\ d = 0
      BY <2>2 DEF OpenRead, At
    <3>2. l \in Nat
      BY <1>1 DEF Call, Opening, StructInv, TypeInv
    <3> HIDE DEF l, d, o
    <3>3. /\ inode'[o] = [inode[o] EXCEPT !.length = l, !.length_shown = l]
          /\ \A n \in Inodes \ {o} : inode'[n] = inode[n]
          /\ DOMAIN inode' = Inodes /\ inode' = [n \in Inodes |-> inode'[n]]
      BY <1>1, <2>0, <3>1
    <3>4. \A n \in Inodes : inode[n] \in InodeRecords
      BY <2>0
    <3>5. /\ inode'[o] \in InodeRecords
          /\ inode'[o].sector = inode[o].sector
          /\ inode'[o].removed = inode[o].removed
          /\ inode'[o].deny_write_cnt = inode[o].deny_write_cnt
          /\ inode'[o].open_cnt = inode[o].open_cnt
      BY <1>1, <3>2, <3>3, <3>4 DEF InodeRecords
    <3>6. inode' \in [Inodes -> InodeRecords]
      BY <3>3, <3>4, <3>5
    <3>7. \A n \in Inodes : inode[n].open_cnt \in Int /\ inode[n].deny_write_cnt \in Int
      BY <3>4 DEF InodeRecords
    <3>8. \A n \in Inodes :
            /\ inode'[n].sector = inode[n].sector
            /\ inode'[n].removed = inode[n].removed
            /\ inode'[n].deny_write_cnt = inode[n].deny_write_cnt
            /\ inode'[n].open_cnt = inode[n].open_cnt
      BY <3>3, <3>5
    <3> QED
      BY <3>1, <3>6, <3>7, <3>8
  <2> QED
    BY <2>1, <2>2
<1>4. TypeInv'
  BY <1>1, <1>2, <1>3 DEF StructInv, TypeInv, diskVars, dataVars
<1>5. \A q \in Procs \ {p} : c'[q] = c[q] /\ c[q].at \notin Opening \cup {"erase"}
  <2>1. HasDir(p)
    BY <1>1 DEF HasDir, Opening
  <2> QED
    BY <1>2, <2>1, DirAlone DEF OthersSame
<1>6. Used' = Used /\ Used \subseteq Inodes
  BY <1>3 DEF Used
<1>7. OpenInv'
  <2>1. \A q \in Procs : c'[q].at \notin Opening
    BY <1>2, <1>5 DEF Opening
  <2>2. \A q \in Procs : c'[q].at = "erase" => q = p
    BY <1>5
  <2> QED
    BY <1>1, <1>2, <1>3, <2>1, <2>2 DEF OpenInv, Opening
<1>8. CloseInv'
  <2>1. \A q \in Procs : c'[q].at \in Closing => q # p /\ c'[q] = c[q]
    BY <1>2, <1>5 DEF Closing
  <2>2. \A q \in Procs : c[q].at \in Closing => c'[q] = c[q]
    BY <1>1, <1>5 DEF Closing
  <2>3. \A q \in Procs : c'[q].at \notin Opening
    BY <1>2, <1>5 DEF Opening
  <2>4. CloseInv
    BY DEF StructInv
  <2>5. \A n \in Inodes : /\ inode[n].open_cnt = 0 => inode'[n].open_cnt = 0
                          /\ inode[n].open_cnt > 0 => inode'[n].open_cnt > 0
    BY <1>1, <1>3
  <2>6. ASSUME NEW q \in Procs, c'[q].at \in Closing
        PROVE  /\ c'[q].inode \in Used' /\ inode'[c'[q].inode].open_cnt = 0
               /\ c'[q].at = "unlist" <=> c'[q].inode \in open_inodes'
               /\ \A r \in Procs : c'[r].at \in Closing /\ c'[r].inode = c'[q].inode => r = q
               /\ \A r \in Procs : c'[r].at \in Opening => c'[r].sector # inode'[c'[q].inode].sector
    BY <1>1, <1>6, <2>1, <2>3, <2>4, <2>5, <2>6 DEF CloseInv
  <2>7. \A n \in Used' :
          inode'[n].open_cnt > 0 \/ \E q \in Procs : c'[q].at \in Closing /\ c'[q].inode = n
    BY <1>6, <2>2, <2>4, <2>5 DEF CloseInv
  <2> QED
    BY <2>6, <2>7 DEF CloseInv
<1>9. ListInv'
  <2>1. o \in open_inodes
    BY <1>1 DEF StructInv, ListInv
  <2>2. \A n \in Inodes : n # o => inode'[n].open_cnt = inode[n].open_cnt
    BY <1>3
  <2>3. \A n \in Inodes : inode'[n].open_cnt > 0 => n \in open_inodes'
    BY <1>1, <2>1, <2>2 DEF StructInv, ListInv
  <2> QED
    BY <1>1, <1>3, <1>6, <2>3 DEF StructInv, ListInv
<1>10. MapInv'
  BY <1>1, <1>3, MapKept DEF diskVars
<1>11. CountInv'
  <2>1. ASSUME NEW n \in Inodes
        PROVE  /\ In(p, Runs(n)') = In(p, Runs(n)) /\ In(p, Runs(n)) \in Int
               /\ In(p, Calls(n)) = IF n = o THEN 1 - d ELSE 0
    <3>1. p \in Runs(n)' <=> p \in Runs(n)
      BY <1>1 DEF Runs
    <3>2. p \in Calls(n) <=> n = o /\ c[p].at = "read"
      BY <1>1 DEF Calls
    <3> QED
      BY <1>1, <3>1, <3>2 DEF In
  <2>2. ASSUME NEW n \in Inodes
        PROVE  /\ inode'[n].open_cnt - inode[n].open_cnt =
                    (Cardinality(Descriptors(n)') - Cardinality(Descriptors(n)))
                    + (In(p, Runs(n)') - In(p, Runs(n))) + (In(p, Calls(n)') - In(p, Calls(n)))
               /\ inode'[n].deny_write_cnt - inode[n].deny_write_cnt =
                    In(p, Runs(n)') - In(p, Runs(n))
               /\ inode'[n].open_cnt \in Int /\ inode'[n].deny_write_cnt \in Int
               /\ Cardinality(Descriptors(n)') \in Int
    <3>1. d \in {0, 1}
      OBVIOUS
    <3>2. /\ Cardinality(Descriptors(n)) \in Nat /\ Cardinality(Descriptors(n)') \in Nat
          /\ In(p, Calls(n)') \in Int
          /\ (Cardinality(Descriptors(n)') - Cardinality(Descriptors(n))) + In(p, Calls(n)')
               = IF n = o THEN 1 ELSE 0
      BY <1>2
    <3> HIDE DEF d, o
    <3>3. CASE n = o
      BY <1>3, <2>1, <3>1, <3>2, <3>3
    <3>4. CASE n # o
      BY <1>3, <2>1, <3>1, <3>2, <3>4
    <3> QED
      BY <3>3, <3>4
  <2> QED
    BY <1>2, <2>2, CountMoved
<1> QED
  BY <1>2, <1>4, <1>7, <1>8, <1>9, <1>10, <1>11 DEF StructInv

(* dir_remove() erases the entry while the struct inode is open. *)
LEMMA EraseStep ==
  ASSUME StructInv, NEW p \in Procs, Erase(p)
  PROVE  StructInv'
PROOF
<1> DEFINE o == c[p].inode
           s == c[p].sector
<1>1. /\ c[p].at = "erase" /\ Call(p) /\ c[p] \in CallRecords /\ HasDir(p)
      /\ UNCHANGED <<free_map, disk_length, dir_lock, open_inodes, list_file, main_file, dataVars>>
      /\ dir' = dir \ {s} /\ c' = [c EXCEPT ![p].at = "close"]
      /\ inode' = [inode EXCEPT ![o].removed = TRUE]
  BY DEF Erase, Goto, At, StructInv, CallInv, TypeInv, HasDir
<1>2. o \in Inodes /\ s \in dir /\ inode[o].sector = s
  BY <1>1 DEF Call, Handling, StructInv, OpenInv
<1>3. inode[o].open_cnt > 0
  BY <1>1, <1>2, ReferenceCounts
<1>4. o \in Used
  BY <1>2, <1>3, HeldInode
<1> HIDE DEF o, s
<1>5. /\ c' \in [Procs -> CallRecords] /\ \A q \in Procs \ {p} : c'[q] = c[q]
      /\ c'[p].at = "close" /\ c'[p].why = c[p].why /\ c'[p].inode = c[p].inode
  BY <1>1 DEF StructInv, TypeInv, CallRecords, Places
<1>6. /\ inode' \in [Inodes -> InodeRecords]
      /\ \A n \in Inodes :
           /\ inode'[n].sector = inode[n].sector
           /\ inode'[n].open_cnt = inode[n].open_cnt
           /\ inode'[n].deny_write_cnt = inode[n].deny_write_cnt
      /\ \A n \in Inodes \ {o} : inode'[n] = inode[n]
  <2>1. inode \in [Inodes -> InodeRecords]
    BY DEF StructInv, TypeInv
  <2> QED
    BY <1>1, <1>2, <2>1 DEF InodeRecords
<1>7. inode'[o].removed = TRUE
  <2>1. inode \in [Inodes -> InodeRecords]
    BY DEF StructInv, TypeInv
  <2> QED
    BY <1>1, <1>2, <2>1 DEF InodeRecords
<1>8. TypeInv'
  BY <1>1, <1>5, <1>6 DEF StructInv, TypeInv, dataVars
<1>9. OthersSame(p)
  BY <1>1, <1>5 DEF OthersSame
<1>10. \A q \in Procs \ {p} : c[q].at \notin Opening \cup {"erase"}
  BY <1>1, DirAlone
<1>11. Call(p)'
  BY <1>1, <1>5 DEF Call, HasDir, Handling, Writing, Opening, Closing
<1>12. CallInv'
  BY <1>1, <1>9, <1>10, <1>11, CallStep DEF DirPassed, StructInv
<1>13. \A q \in Procs : c'[q].at \notin Opening \cup {"erase"}
  BY <1>5, <1>10 DEF Opening
<1>14. OpenInv'
  BY <1>13 DEF OpenInv, Opening
<1>15. Used' = Used /\ Used \subseteq Inodes
  BY <1>6 DEF Used
<1>16. CloseInv'
  <2>1. \A q \in Procs : c'[q].at \in Closing <=> c[q].at \in Closing
    BY <1>1, <1>5 DEF Closing
  <2>2. \A q \in Procs : c[q].at \in Closing => c'[q] = c[q]
    BY <1>1, <1>5 DEF Closing
  <2>3. CloseInv
    BY DEF StructInv
  <2>4. ASSUME NEW q \in Procs, c'[q].at \in Closing
        PROVE  /\ c'[q].inode \in Used' /\ inode'[c'[q].inode].open_cnt = 0
               /\ c'[q].at = "unlist" <=> c'[q].inode \in open_inodes'
               /\ \A r \in Procs : c'[r].at \in Closing /\ c'[r].inode = c'[q].inode => r = q
               /\ \A r \in Procs : c'[r].at \in Opening => c'[r].sector # inode'[c'[q].inode].sector
    BY <1>1, <1>6, <1>13, <1>15, <2>1, <2>2, <2>3, <2>4 DEF CloseInv
  <2>5. \A n \in Used' :
          inode'[n].open_cnt > 0 \/ \E q \in Procs : c'[q].at \in Closing /\ c'[q].inode = n
    BY <1>6, <1>15, <2>1, <2>2, <2>3 DEF CloseInv
  <2> QED
    BY <2>4, <2>5 DEF CloseInv
<1>17. ListInv'
  BY <1>1, <1>6, <1>15 DEF StructInv, ListInv
<1>18. MapInv'
  <2>1. {inode'[n].sector : n \in Used'} = {inode[n].sector : n \in Used}
    BY <1>6, <1>15
  <2>2. s \in {inode[n].sector : n \in Used}
    BY <1>2, <1>4
  <2>3. free_map' = dir' \cup {inode'[n].sector : n \in Used'}
    BY <1>1, <1>2, <2>1, <2>2 DEF StructInv, MapInv
  <2>4. ASSUME NEW n \in Used' PROVE inode'[n].removed <=> inode'[n].sector \notin dir'
    <3>1. CASE n = o
      BY <1>1, <1>2, <1>6, <1>7, <3>1
    <3>2. CASE n # o
      <4>1. n \in Used /\ inode'[n] = inode[n] /\ inode[n].sector # s
        BY <1>2, <1>4, <1>6, <1>15, <3>2 DEF StructInv, ListInv
      <4>2. inode[n].removed <=> inode[n].sector \notin dir
        BY <4>1 DEF StructInv, MapInv
      <4>3. inode[n].sector \notin dir <=> inode[n].sector \notin dir'
        BY <1>1, <4>1
      <4> QED
        BY <4>1, <4>2, <4>3
    <3> QED
      BY <3>1, <3>2
  <2> QED
    BY <2>3, <2>4 DEF MapInv
<1>19. CountInv'
  <2>1. \A n : p \in Calls(n)' <=> p \in Calls(n)
    BY <1>1, <1>5 DEF Calls
  <2> QED
    BY <1>1, <1>6, <1>8, <1>9, <2>1, CountKept
<1> QED
  BY <1>8, <1>12, <1>14, <1>16, <1>17, <1>18, <1>19 DEF StructInv

-----------------------------------------------------------------------------
(* inode_close(). *)

(* It returns, and a thread that removes a file lets go of the directory. *)
LEMMA ClosedStep ==
  ASSUME StructInv, NEW p \in Procs, c[p].at \in {"close", "flush"}, Closed(p),
         UNCHANGED <<dir, list_file, main_file>>
  PROVE  /\ c' \in [Procs -> CallRecords] /\ dir_lock' \in Procs \cup {NULL}
         /\ OthersSame(p) /\ CallInv'
         /\ c'[p].at \in {"idle", "exit", "gone"}
PROOF
<1>1. Call(p) /\ c[p] \in CallRecords /\ c \in [Procs -> CallRecords]
  BY DEF StructInv, CallInv, TypeInv
<1>2. /\ c' \in [Procs -> CallRecords] /\ \A q \in Procs \ {p} : c'[q] = c[q]
      /\ c'[p].at \in {"idle", "exit", "gone"}
  <2>1. \/ c' = [c EXCEPT ![p].at = "exit"]
        \/ c' = [c EXCEPT ![p].at = "gone"]
        \/ c' = [c EXCEPT ![p] = Idle]
    BY DEF Closed, Goto, Return
  <2>2. CASE c' = [c EXCEPT ![p] = Idle]
    BY <1>1, <2>2, IdleRecord DEF Idle
  <2>3. CASE c' = [c EXCEPT ![p].at = "exit"] \/ c' = [c EXCEPT ![p].at = "gone"]
    BY <1>1, <2>3 DEF CallRecords, Places
  <2> QED
    BY <2>1, <2>2, <2>3
<1>3. OthersSame(p)
  BY <1>2 DEF OthersSame
<1>4. /\ dir_lock' = IF c[p].why = "remove" THEN NULL ELSE dir_lock
      /\ dir_lock = p <=> c[p].why = "remove"
  BY <1>1 DEF Closed, Call, HasDir, Closing, Opening
<1>5. DirPassed(p) /\ dir_lock' # p
  BY <1>4, FilesAssumption DEF DirPassed
<1>6. dir_lock' \in Procs \cup {NULL}
  BY <1>4 DEF StructInv, TypeInv
<1>7. Call(p)'
  BY <1>1, <1>2, <1>5 DEF Call, HasDir, Handling, Writing, Opening, Closing
<1>8. CallInv'
  BY <1>3, <1>5, <1>7, CallStep DEF StructInv
<1> QED
  BY <1>2, <1>3, <1>6, <1>8

LEMMA CloseCountStep ==
  ASSUME StructInv, NEW p \in Procs, CloseCount(p), ~raced'
  PROVE  StructInv'
PROOF
<1> DEFINE o == c[p].inode
<1>1. /\ c[p].at = "close" /\ Call(p) /\ c[p] \in CallRecords /\ o \in Inodes
      /\ UNCHANGED <<diskVars, open_inodes, list_file, main_file, dataVars>>
  BY DEF CloseCount, At, StructInv, CallInv, Call, TypeInv, Handling
<1>2. inode[o].open_cnt > 0
  BY <1>1, ReferenceCounts
<1>3. o \in open_inodes /\ o \in Used
  BY <1>1, <1>2, HeldInode
<1>4. /\ inode' \in [Inodes -> InodeRecords]
      /\ \A n \in Inodes :
           /\ inode'[n].sector = inode[n].sector
           /\ inode'[n].removed = inode[n].removed
           /\ inode'[n].deny_write_cnt = inode[n].deny_write_cnt
           /\ inode'[n].open_cnt = inode[n].open_cnt - (IF n = o THEN 1 ELSE 0)
           /\ inode[n].open_cnt \in Int /\ inode[n].deny_write_cnt \in Int
  <2>0. inode \in [Inodes -> InodeRecords]
    BY DEF StructInv, TypeInv
  <2> DEFINE x == inode[o].open_cnt - 1
  <2>1. x \in Int /\ inode' = [inode EXCEPT ![o].open_cnt = x]
    BY <1>1, <2>0 DEF CloseCount, InodeRecords
  <2>2. x = inode[o].open_cnt - 1
    OBVIOUS
  <2> HIDE DEF x, o
  <2>3. /\ inode' \in [Inodes -> InodeRecords]
        /\ \A n \in Inodes :
             /\ inode'[n].sector = inode[n].sector
             /\ inode'[n].deny_write_cnt = inode[n].deny_write_cnt
             /\ inode'[n].removed = inode[n].removed
             /\ inode'[n].open_cnt = IF n = o THEN x ELSE inode[n].open_cnt
             /\ inode[n].open_cnt \in Int /\ inode[n].deny_write_cnt \in Int
    BY <1>1, <2>0, <2>1, OpenCntSet, ZenonT(40)
  <2> QED
    BY <2>2, <2>3
<1>5. /\ c' \in [Procs -> CallRecords] /\ dir_lock' \in Procs \cup {NULL}
      /\ OthersSame(p) /\ CallInv'
      /\ IF inode[o].open_cnt = 1
           THEN c'[p].at = "unlist" /\ c'[p].inode = o
           ELSE c'[p].at \in {"idle", "exit", "gone"}
  <2>1. CASE inode[o].open_cnt = 1
    <3>1. c' = [c EXCEPT ![p].at = "unlist"] /\ dir_lock' = dir_lock
      BY <2>1 DEF CloseCount, Goto
    <3>2. /\ c' \in [Procs -> CallRecords] /\ \A q \in Procs \ {p} : c'[q] = c[q]
          /\ c'[p].at = "unlist" /\ c'[p].inode = o /\ c'[p].why = c[p].why
      BY <3>1, ZenonT(40) DEF StructInv, TypeInv, CallRecords, Places, Closing
    <3>3. OthersSame(p)
      BY <1>1, <3>2 DEF OthersSame
    <3>4. Call(p)'
      BY <1>1, <3>1, <3>2 DEF Call, HasDir, Handling, Writing, Opening, Closing
    <3>5. CallInv'
      BY <1>1, <3>1, <3>3, <3>4, CallStep DEF DirPassed, StructInv, diskVars
    <3> QED
      BY <2>1, <3>1, <3>2, <3>3, <3>5 DEF StructInv, TypeInv
  <2>2. CASE inode[o].open_cnt # 1
    <3>1. Closed(p)
      BY <2>2 DEF CloseCount
    <3> QED
      BY <1>1, <2>2, <3>1, ClosedStep DEF diskVars
  <2> QED
    BY <2>1, <2>2
<1>6. TypeInv'
  BY <1>1, <1>4, <1>5 DEF StructInv, TypeInv, diskVars, dataVars
<1>7. Used' = Used /\ Used \subseteq Inodes
  BY <1>4 DEF Used
<1>8. \A q \in Procs \ {p} : c'[q] = c[q]
  BY <1>5 DEF OthersSame
<1>9. inode[o].open_cnt = 1 =>
        \A q \in Procs : c[q].at \in Opening => c[q].sector # inode[o].sector
  BY DEF CloseCount
<1>10. c'[p].at \notin Opening \cup {"erase", "flush"} /\ c[p].at \notin Closing
  BY <1>1, <1>5 DEF Opening, Closing
<1>11. OpenInv'
  <2> SUFFICES ASSUME NEW q \in Procs, q # p, c[q].at \in Opening \cup {"erase"}
               PROVE  /\ c[q].at = "reopen" => inode'[c[q].inode].open_cnt > 0
                      /\ c[q].at = "read" => inode'[c[q].inode].open_cnt = 1
                      /\ c[q].at \in {"reopen", "read", "erase"} =>
                           inode'[c[q].inode].sector = c[q].sector
                      /\ c[q].at = "new" => \A n \in Used : inode'[n].sector # c[q].sector
    BY <1>7, <1>8, <1>10 DEF OpenInv, Opening
  <2>1. OpenInv /\ (c[q].at \in Handling => c[q].inode \in Inodes)
    BY DEF StructInv, CallInv, Call
  <2>2. c[q].at = "reopen" => inode'[c[q].inode].open_cnt > 0
    <3>1. CASE c[q].at = "reopen" /\ c[q].inode = o
      <4>1. inode[o].sector = c[q].sector /\ inode[o].open_cnt # 1
        BY <1>9, <2>1, <3>1 DEF OpenInv, Opening
      <4>2. inode[o].open_cnt - 1 > 0
        BY <1>1, <1>2, <1>4, <4>1
      <4> QED
        BY <1>1, <1>4, <3>1, <4>2
    <3>2. CASE c[q].at = "reopen" /\ c[q].inode # o
      <4>1. inode[c[q].inode].open_cnt > 0 /\ c[q].inode \in Inodes
        BY <2>1, <3>2 DEF OpenInv, Handling
      <4> QED
        BY <1>4, <3>2, <4>1
    <3> QED
      BY <3>1, <3>2
  <2>3. c[q].at = "read" => inode'[c[q].inode].open_cnt = 1
    <3> SUFFICES ASSUME c[q].at = "read" PROVE inode'[c[q].inode].open_cnt = 1
      OBVIOUS
    <3>1. inode[c[q].inode].open_cnt = 1 /\ c[q].inode \in Inodes
      BY <2>1 DEF OpenInv, Handling
    <3>2. c[q].inode # o
      BY <1>1, <3>1, OnlyReference
    <3> QED
      BY <1>4, <3>1, <3>2
  <2>4. c[q].at \in {"reopen", "read", "erase"} => inode'[c[q].inode].sector = c[q].sector
    BY <1>4, <2>1 DEF OpenInv, Handling
  <2>5. c[q].at = "new" => \A n \in Used : inode'[n].sector # c[q].sector
    BY <1>4, <1>7, <2>1 DEF OpenInv
  <2> QED
    BY <2>2, <2>3, <2>4, <2>5
<1>12. CloseInv'
  <2>0. CloseInv
    BY DEF StructInv
  <2>1. ASSUME NEW q \in Procs, q # p, c'[q].at \in Closing
        PROVE  c'[q] = c[q] /\ c[q].inode \in Used /\ c[q].inode # o /\ inode'[c[q].inode].open_cnt = 0
    <3>1. c'[q] = c[q] /\ c[q].inode \in Used /\ inode[c[q].inode].open_cnt = 0
      BY <1>8, <2>0, <2>1 DEF CloseInv
    <3> QED
      BY <1>2, <1>4, <1>7, <3>1
  <2>2. c'[p].at \in Closing => c'[p].at = "unlist" /\ c'[p].inode = o /\ inode[o].open_cnt = 1
    BY <1>5 DEF Closing
  <2>3. \A q \in Procs : c'[q].at \in Opening => q # p /\ c'[q] = c[q]
    BY <1>8, <1>10
  <2>4. ASSUME NEW q \in Procs, c'[q].at \in Closing
        PROVE  /\ c'[q].inode \in Used' /\ inode'[c'[q].inode].open_cnt = 0
               /\ c'[q].at = "unlist" <=> c'[q].inode \in open_inodes'
               /\ \A r \in Procs : c'[r].at \in Closing /\ c'[r].inode = c'[q].inode => r = q
               /\ \A r \in Procs : c'[r].at \in Opening => c'[r].sector # inode'[c'[q].inode].sector
    <3>1. CASE q = p
      <4>1. c'[p].at = "unlist" /\ c'[p].inode = o /\ inode[o].open_cnt = 1
        BY <2>2, <2>4, <3>1
      <4>2. inode'[o].open_cnt = 0
        BY <1>1, <1>4, <4>1
      <4>3. \A r \in Procs : c'[r].at \in Closing /\ c'[r].inode = o => r = p
        BY <2>1
      <4>4. \A r \in Procs : c'[r].at \in Opening => c'[r].sector # inode'[o].sector
        BY <1>1, <1>4, <1>9, <2>3, <4>1
      <4> QED
        BY <1>1, <1>3, <1>7, <3>1, <4>1, <4>2, <4>3, <4>4
    <3>2. CASE q # p
      <4>1. c'[q] = c[q] /\ c[q].inode \in Used /\ c[q].inode # o /\ inode'[c[q].inode].open_cnt = 0
        BY <2>1, <2>4, <3>2
      <4>2. \A r \in Procs : c'[r].at \in Closing /\ c'[r].inode = c'[q].inode => r = q
        BY <1>8, <2>0, <2>2, <2>4, <4>1 DEF CloseInv
      <4>3. \A r \in Procs : c'[r].at \in Opening => c'[r].sector # inode'[c'[q].inode].sector
        BY <1>4, <1>7, <2>0, <2>3, <2>4, <4>1 DEF CloseInv
      <4> QED
        BY <1>1, <1>7, <2>0, <2>4, <4>1, <4>2, <4>3 DEF CloseInv
    <3> QED
      BY <3>1, <3>2
  <2>5. ASSUME NEW n \in Used'
        PROVE  inode'[n].open_cnt > 0 \/ \E q \in Procs : c'[q].at \in Closing /\ c'[q].inode = n
    <3>1. CASE n = o
      <4>1. CASE inode[o].open_cnt = 1
        BY <1>5, <3>1, <4>1 DEF Closing
      <4>2. CASE inode[o].open_cnt # 1
        <5>1. inode[o].open_cnt - 1 > 0
          BY <1>1, <1>2, <1>4, <4>2
        <5> QED
          BY <1>1, <1>4, <3>1, <5>1
      <4> QED
        BY <4>1, <4>2
    <3>2. CASE n # o
      <4>1. n \in Used /\ n \in Inodes /\ inode'[n].open_cnt = inode[n].open_cnt
        BY <1>4, <1>7, <3>2
      <4>2. \A q \in Procs : c[q].at \in Closing => c'[q] = c[q]
        BY <1>8, <1>10
      <4> QED
        BY <2>0, <4>1, <4>2 DEF CloseInv
    <3> QED
      BY <3>1, <3>2
  <2> QED
    BY <2>4, <2>5 DEF CloseInv
<1>13. ListInv'
  <2>1. \A n \in Inodes : inode'[n].open_cnt > 0 => inode[n].open_cnt > 0
    BY <1>4
  <2> QED
    BY <1>1, <1>4, <1>7, <2>1 DEF StructInv, ListInv
<1>14. MapInv'
  BY <1>1, <1>4, MapKept DEF diskVars
<1>15. CountInv'
  <2>1. ASSUME NEW n \in Inodes
        PROVE  /\ In(p, Runs(n)') = In(p, Runs(n)) /\ In(p, Runs(n)) \in Int
               /\ In(p, Calls(n)') = 0 /\ In(p, Calls(n)) = (IF n = o THEN 1 ELSE 0)
    <3>1. p \in Runs(n)' <=> p \in Runs(n)
      BY <1>1 DEF Runs
    <3>2. p \notin Calls(n)' /\ (p \in Calls(n) <=> n = o)
      BY <1>1, <1>5 DEF Calls
    <3> QED
      BY <3>1, <3>2 DEF In
  <2>2. ASSUME NEW n \in Inodes
        PROVE  Cardinality(Descriptors(n)') = Cardinality(Descriptors(n))
               /\ Cardinality(Descriptors(n)) \in Nat
    BY <1>1, <1>6, DescriptorsKept DEF StructInv
  <2>3. ASSUME NEW n \in Inodes
        PROVE  /\ inode'[n].open_cnt - inode[n].open_cnt =
                    (Cardinality(Descriptors(n)') - Cardinality(Descriptors(n)))
                    + (In(p, Runs(n)') - In(p, Runs(n))) + (In(p, Calls(n)') - In(p, Calls(n)))
               /\ inode'[n].deny_write_cnt - inode[n].deny_write_cnt =
                    In(p, Runs(n)') - In(p, Runs(n))
               /\ inode'[n].open_cnt \in Int /\ inode'[n].deny_write_cnt \in Int
               /\ Cardinality(Descriptors(n)') \in Int
    BY <1>4, <2>1, <2>2
  <2> QED
    BY <1>5, <2>3, CountMoved
<1> QED
  BY <1>5, <1>6, <1>11, <1>12, <1>13, <1>14, <1>15 DEF StructInv

LEMMA CloseUnlistStep ==
  ASSUME StructInv, NEW p \in Procs, CloseUnlist(p)
  PROVE  StructInv'
PROOF
<1> DEFINE o == c[p].inode
<1>1. /\ c[p].at = "unlist" /\ Call(p) /\ c[p] \in CallRecords
      /\ UNCHANGED <<diskVars, dir_lock, inode, list_file, main_file, dataVars>>
      /\ open_inodes' = open_inodes \ {o} /\ c' = [c EXCEPT ![p].at = "flush"]
  BY DEF CloseUnlist, Goto, At, StructInv, CallInv, TypeInv
<1>2. /\ o \in Used /\ inode[o].open_cnt = 0
      /\ \A q \in Procs : c[q].at \in Closing /\ c[q].inode = o => q = p
  BY <1>1 DEF StructInv, CloseInv, Closing
<1>3. /\ c' \in [Procs -> CallRecords] /\ \A q \in Procs \ {p} : c'[q] = c[q]
      /\ c'[p].at = "flush" /\ c'[p].why = c[p].why /\ c'[p].inode = o
  BY <1>1 DEF StructInv, TypeInv, CallRecords, Places, Closing
<1>4. TypeInv'
  BY <1>1, <1>3 DEF StructInv, TypeInv, diskVars, dataVars
<1>5. OthersSame(p)
  BY <1>1, <1>3 DEF OthersSame
<1>6. Call(p)'
  BY <1>1, <1>3 DEF Call, HasDir, Handling, Writing, Opening, Closing
<1>7. CallInv'
  BY <1>1, <1>5, <1>6, CallStep DEF DirPassed, StructInv, diskVars
<1>8. Used' = Used /\ Used \subseteq Inodes
  BY <1>1 DEF Used
<1>9. OpenInv'
  BY <1>1, <1>3, <1>8 DEF StructInv, OpenInv
<1>10. CloseInv'
  <2>0. CloseInv
    BY DEF StructInv
  <2>1. \A q \in Procs : c'[q].at \in Closing <=> c[q].at \in Closing
    BY <1>1, <1>3 DEF Closing
  <2>2. \A q \in Procs : c'[q].inode = c[q].inode
    BY <1>3
  <2>3. \A q \in Procs : c'[q].at \in Opening => c'[q] = c[q]
    BY <1>3 DEF Opening
  <2>4. ASSUME NEW q \in Procs, c'[q].at \in Closing
        PROVE  c'[q].at = "unlist" <=> c'[q].inode \in open_inodes'
    <3>1. CASE q = p
      BY <1>1, <1>3, <3>1
    <3>2. CASE q # p
      BY <1>1, <1>2, <1>3, <2>0, <2>1, <2>4, <3>2 DEF CloseInv
    <3> QED
      BY <3>1, <3>2
  <2>5. ASSUME NEW q \in Procs, c'[q].at \in Closing
        PROVE  /\ c'[q].inode \in Used' /\ inode'[c'[q].inode].open_cnt = 0
               /\ \A r \in Procs : c'[r].at \in Closing /\ c'[r].inode = c'[q].inode => r = q
               /\ \A r \in Procs : c'[r].at \in Opening => c'[r].sector # inode'[c'[q].inode].sector
    <3>1. c[q].at \in Closing /\ c'[q].inode = c[q].inode /\ inode' = inode
      BY <1>1, <2>1, <2>2, <2>5
    <3>2. /\ c[q].inode \in Used /\ inode[c[q].inode].open_cnt = 0
          /\ \A r \in Procs : c[r].at \in Closing /\ c[r].inode = c[q].inode => r = q
          /\ \A r \in Procs : c[r].at \in Opening => c[r].sector # inode[c[q].inode].sector
      BY <2>0, <3>1 DEF CloseInv
    <3>3. \A r \in Procs : c'[r].at \in Closing /\ c'[r].inode = c'[q].inode => r = q
      BY <2>1, <2>2, <3>1, <3>2
    <3> QED
      BY <1>8, <2>3, <3>1, <3>2, <3>3
  <2>6. \A n \in Used' :
          inode'[n].open_cnt > 0 \/ \E q \in Procs : c'[q].at \in Closing /\ c'[q].inode = n
    BY <1>1, <1>8, <2>0, <2>1, <2>2 DEF CloseInv
  <2> QED
    BY <2>4, <2>5, <2>6 DEF CloseInv
<1>11. ListInv'
  <2>1. ASSUME NEW n \in Inodes, inode'[n].open_cnt > 0 PROVE n \in open_inodes'
    <3>1. n # o
      BY <1>1, <1>2, <2>1
    <3> QED
      BY <1>1, <2>1, <3>1 DEF StructInv, ListInv
  <2> QED
    BY <1>1, <1>8, <2>1 DEF StructInv, ListInv
<1>12. MapInv'
  BY <1>1, MapKept DEF diskVars
<1>13. CountInv'
  <2>1. \A n : p \in Calls(n)' <=> p \in Calls(n)
    BY <1>1, <1>3 DEF Calls
  <2> QED
    BY <1>1, <1>4, <1>5, <2>1, CountKept
<1> QED
  BY <1>4, <1>7, <1>9, <1>10, <1>11, <1>12, <1>13 DEF StructInv

LEMMA CloseFlushStep ==
  ASSUME StructInv, NEW p \in Procs, CloseFlush(p)
  PROVE  StructInv'
PROOF
<1> DEFINE o == c[p].inode
           s == inode[o].sector
<1>1. /\ c[p].at = "flush" /\ Closed(p)
      /\ UNCHANGED <<dir, open_inodes, list_file, main_file, dataVars>>
      /\ inode' = [inode EXCEPT ![o] = Unused]
      /\ IF inode[o].removed THEN free_map' = free_map \ {s} ELSE free_map' = free_map
  BY DEF CloseFlush, At
<1>2. /\ o \in Used /\ o \in Inodes /\ inode[o].open_cnt = 0 /\ o \notin open_inodes
      /\ s \in Sectors /\ s # NULL
      /\ \A q \in Procs : c[q].at \in Closing /\ c[q].inode = o => q = p
  <2>1. /\ o \in Used /\ inode[o].open_cnt = 0 /\ o \notin open_inodes
        /\ \A q \in Procs : c[q].at \in Closing /\ c[q].inode = o => q = p
    BY <1>1 DEF StructInv, CloseInv, Closing
  <2>2. o \in Inodes /\ s # NULL
    BY <2>1 DEF Used
  <2>3. s \in Sectors
    BY <2>2 DEF StructInv, TypeInv, InodeRecords
  <2> QED
    BY <2>1, <2>2, <2>3
<1>3. /\ c' \in [Procs -> CallRecords] /\ dir_lock' \in Procs \cup {NULL}
      /\ OthersSame(p) /\ CallInv' /\ c'[p].at \in {"idle", "exit", "gone"}
  BY <1>1, ClosedStep
<1>4. /\ inode' \in [Inodes -> InodeRecords] /\ inode'[o] = Unused
      /\ \A n \in Inodes \ {o} : inode'[n] = inode[n]
  BY <1>1, <1>2, UnusedInode DEF StructInv, TypeInv
<1>5. TypeInv'
  <2>1. free_map' \subseteq Sectors
    BY <1>1 DEF StructInv, TypeInv
  <2>2. disk_length' \in [Sectors -> Nat]
    <3>1. disk_length' = disk_length \/ disk_length' = [disk_length EXCEPT ![s] = inode[o].length]
      BY DEF CloseFlush
    <3>2. inode[o].length \in Nat /\ disk_length \in [Sectors -> Nat]
      BY <1>2 DEF StructInv, TypeInv, InodeRecords
    <3> QED
      BY <1>2, <3>1, <3>2
  <2> QED
    BY <1>1, <1>3, <1>4, <2>1, <2>2 DEF StructInv, TypeInv, dataVars
<1>6. /\ Used' = Used \ {o} /\ Used \subseteq Inodes
      /\ \A n \in Used' : n \in Used /\ n # o /\ n \in Inodes /\ inode'[n] = inode[n]
      /\ \A n \in Used \ {o} : n \in Used' /\ inode'[n] = inode[n]
  BY <1>4, UnusedInode DEF Used
<1>7. /\ \A q \in Procs : c'[q].at \in Closing => c'[q] = c[q] /\ q # p
      /\ \A q \in Procs : c'[q].at \in Opening \cup {"erase"} => c'[q] = c[q] /\ q # p
      /\ \A q \in Procs \ {p} : c'[q] = c[q]
  BY <1>3 DEF OthersSame, Closing, Opening
<1>8. OpenInv'
  <2> SUFFICES ASSUME NEW q \in Procs, c'[q].at \in Opening \cup {"erase"}
               PROVE  /\ c'[q].at = "reopen" => inode'[c'[q].inode].open_cnt > 0
                      /\ c'[q].at = "read" => inode'[c'[q].inode].open_cnt = 1
                      /\ c'[q].at \in {"reopen", "read", "erase"} =>
                           inode'[c'[q].inode].sector = c'[q].sector
                      /\ c'[q].at = "new" => \A n \in Used' : inode'[n].sector # c'[q].sector
    BY DEF OpenInv, Opening
  <2>1. c'[q] = c[q] /\ q # p
    BY <1>7
  <2>2. c[q].at \in {"reopen", "read", "erase"} =>
          c[q].inode \in Inodes /\ inode[c[q].inode].open_cnt > 0
    <3>1. c[q].at \in {"reopen", "read", "erase"} => c[q].inode \in Inodes
      BY DEF StructInv, CallInv, Call, Handling
    <3>2. c[q].at = "reopen" => inode[c[q].inode].open_cnt > 0
      BY DEF StructInv, OpenInv
    <3> QED
      BY <3>1, <3>2, ReferenceCounts
  <2>3. c[q].at \in {"reopen", "read", "erase"} => inode'[c[q].inode] = inode[c[q].inode]
    BY <1>2, <1>4, <2>2
  <2> QED
    BY <1>6, <2>1, <2>3 DEF StructInv, OpenInv
<1>9. CloseInv'
  <2>0. CloseInv
    BY DEF StructInv
  <2>1. ASSUME NEW q \in Procs, c'[q].at \in Closing
        PROVE  /\ c'[q].inode \in Used' /\ inode'[c'[q].inode].open_cnt = 0
               /\ c'[q].at = "unlist" <=> c'[q].inode \in open_inodes'
               /\ \A r \in Procs : c'[r].at \in Closing /\ c'[r].inode = c'[q].inode => r = q
               /\ \A r \in Procs : c'[r].at \in Opening => c'[r].sector # inode'[c'[q].inode].sector
    <3>1. c'[q] = c[q] /\ q # p
      BY <1>7, <2>1
    <3>2. c[q].inode # o /\ c[q].inode \in Used
      BY <1>2, <2>0, <2>1, <3>1 DEF CloseInv
    <3>3. c[q].inode \in Used' /\ inode'[c[q].inode] = inode[c[q].inode]
      BY <1>6, <3>2
    <3> QED
      BY <1>1, <1>7, <2>0, <2>1, <3>1, <3>3 DEF CloseInv
  <2>2. ASSUME NEW n \in Used'
        PROVE  inode'[n].open_cnt > 0 \/ \E q \in Procs : c'[q].at \in Closing /\ c'[q].inode = n
    <3>1. n \in Used /\ n # o /\ inode'[n] = inode[n]
      BY <1>6
    <3>2. \A q \in Procs : c[q].at \in Closing /\ c[q].inode = n => c'[q] = c[q]
      BY <1>7, <3>1
    <3> QED
      BY <2>0, <3>1, <3>2 DEF CloseInv
  <2> QED
    BY <2>1, <2>2 DEF CloseInv
<1>10. ListInv'
  <2>1. ASSUME NEW n \in Inodes, inode'[n].open_cnt > 0 PROVE n \in open_inodes'
    <3>1. n # o
      BY <1>4, <2>1, UnusedInode
    <3> QED
      BY <1>1, <1>4, <2>1, <3>1 DEF StructInv, ListInv
  <2>2. open_inodes' \subseteq Used'
    BY <1>1, <1>2, <1>6 DEF StructInv, ListInv
  <2>3. \A m, n \in Used' : inode'[m].sector = inode'[n].sector => m = n
    BY <1>6 DEF StructInv, ListInv
  <2> QED
    BY <2>1, <2>2, <2>3 DEF ListInv
<1>11. MapInv'
  <2>1. \A n \in Used' : inode[n].sector # s
    BY <1>2, <1>6 DEF StructInv, ListInv
  <2>2. {inode'[n].sector : n \in Used'} = {inode[n].sector : n \in Used} \ {s}
    <3>1. ASSUME NEW n \in Used, inode[n].sector # s
          PROVE  n \in Used' /\ inode'[n].sector = inode[n].sector
      BY <1>6, <3>1
    <3> QED
      BY <1>6, <2>1, <3>1
  <2>3. s \in {inode[n].sector : n \in Used}
    BY <1>2
  <2>4. inode[o].removed <=> s \notin dir
    BY <1>2 DEF StructInv, MapInv
  <2>5. free_map = dir \cup {inode[n].sector : n \in Used}
    BY DEF StructInv, MapInv
  <2>6. free_map' = dir' \cup {inode'[n].sector : n \in Used'}
    <3>1. CASE s \notin dir
      <4>1. free_map' = free_map \ {s}
        BY <1>1, <2>4, <3>1
      <4> QED
        BY <1>1, <2>2, <2>5, <3>1, <4>1
    <3>2. CASE s \in dir
      <4>1. free_map' = free_map
        BY <1>1, <2>4, <3>2
      <4> QED
        BY <1>1, <2>2, <2>5, <3>2, <4>1
    <3> QED
      BY <3>1, <3>2
  <2>7. \A n \in Used' : inode'[n].removed <=> inode'[n].sector \notin dir'
    BY <1>1, <1>6 DEF StructInv, MapInv
  <2> QED
    BY <2>6, <2>7 DEF MapInv
<1>12. CountInv'
  <2>0. inode[o].deny_write_cnt = 0
    <3>1. Cardinality(Runs(o)) \in Nat /\ Cardinality(Calls(o)) \in Nat
      BY CallsFinite
    <3>2. Cardinality(Descriptors(o)) \in Nat
      BY DescriptorsFinite, DescriptorsNames
    <3>3. /\ inode[o].open_cnt =
               Cardinality(Descriptors(o)) + Cardinality(Runs(o)) + Cardinality(Calls(o))
          /\ inode[o].deny_write_cnt = Cardinality(Runs(o))
      BY <1>2 DEF StructInv, CountInv
    <3> HIDE DEF o
    <3> QED
      BY <1>2, <3>1, <3>2, <3>3
  <2>1. \A n \in Inodes : /\ inode'[n].open_cnt = inode[n].open_cnt
                          /\ inode'[n].deny_write_cnt = inode[n].deny_write_cnt
    BY <1>2, <1>4, <2>0, UnusedInode
  <2>2. \A n : p \in Calls(n)' <=> p \in Calls(n)
    BY <1>1, <1>3 DEF Calls
  <2> QED
    BY <1>1, <1>3, <1>5, <2>1, <2>2, CountKept
<1> QED
  BY <1>3, <1>5, <1>8, <1>9, <1>10, <1>11, <1>12 DEF StructInv

-----------------------------------------------------------------------------
(* RefInv. *)

LEMMA StructInit ==
  ASSUME Init
  PROVE  StructInv
PROOF
<1>1. TypeInv
  <2>1. PICK s \in Sectors : free_map = {s} /\ dir = {s}
    BY DEF Init
  <2>2. list_file \in [Procs -> Seq(FileObjects)]
    BY DEF Init
  <2>3. inode \in [Inodes -> InodeRecords]
    BY UnusedInode DEF Init
  <2>4. c \in [Procs -> CallRecords]
    BY IdleRecord DEF Init
  <2>5. /\ disk_length \in [Sectors -> Nat] /\ grown \in [Sectors -> Nat]
        /\ main_file \in [Procs -> FileObjects \cup {NULL}]
    BY DEF Init
  <2> QED
    BY <2>1, <2>2, <2>3, <2>4, <2>5 DEF Init, TypeInv
<1>2. /\ \A p \in Procs : c[p].at = "idle" /\ list_file[p] = <<>> /\ main_file[p] = NULL
      /\ \A o \in Inodes : inode[o].sector = NULL /\ inode[o].open_cnt = 0 /\ inode[o].deny_write_cnt = 0
      /\ open_inodes = {} /\ dir_lock = NULL /\ free_map = dir
  BY UnusedInode DEF Init, Idle
<1>3. Used = {}
  BY <1>2 DEF Used
<1>4. CallInv
  BY <1>2, FilesAssumption DEF CallInv, Call, HasDir, Opening, Closing, Handling, Writing
<1>5. OpenInv /\ CloseInv /\ ListInv /\ MapInv
  BY <1>2, <1>3 DEF OpenInv, CloseInv, ListInv, MapInv, Closing
<1>6. CountInv
  <2>1. ASSUME NEW o \in Inodes PROVE Descriptors(o) = {} /\ Runs(o) = {} /\ Calls(o) = {}
    BY <1>2 DEF Descriptors, Runs, Calls
  <2>2. Cardinality({}) = 0
    BY FS_EmptySet
  <2>3. ASSUME NEW o \in Inodes
        PROVE  /\ inode[o].open_cnt =
                    Cardinality(Descriptors(o)) + Cardinality(Runs(o)) + Cardinality(Calls(o))
               /\ inode[o].deny_write_cnt = Cardinality(Runs(o))
    <3>1. Cardinality(Descriptors(o)) = 0
      BY <2>1, <2>2, <2>3, Zenon
    <3>2. Cardinality(Runs(o)) = 0
      BY <2>1, <2>2, <2>3, Zenon
    <3>3. Cardinality(Calls(o)) = 0
      BY <2>1, <2>2, <2>3, Zenon
    <3>4. inode[o].open_cnt = 0 /\ inode[o].deny_write_cnt = 0
      BY <1>2, <2>3
    <3> QED
      BY <3>1, <3>2, <3>3, <3>4
  <2> QED
    BY <2>3 DEF CountInv
<1> QED
  BY <1>1, <1>4, <1>5, <1>6 DEF StructInv

(* A race, once it has happened, is not forgotten. *)
LEMMA RacedStays ==
  ASSUME [Next]_vars, ~raced'
  PROVE  ~raced
PROOF
<1>1. CASE UNCHANGED vars
  BY <1>1 DEF vars
<1>2. ASSUME NEW p \in Procs, InodeStep(p) PROVE ~raced
  <2>1. CASE CloseCount(p)
    <3>1. raced' = raced \/ raced' = (raced \/ \E q \in Procs :
                         c[q].at \in Opening /\ c[q].sector = inode[c[p].inode].sector)
      BY <2>1, Zenon DEF CloseCount
    <3> QED
      BY <3>1, Zenon
  <2>2. CASE ~CloseCount(p)
    <3>1. raced' = raced
      BY <1>2, <2>2, Zenon
         DEF InodeStep, OpenScan, OpenReopen, OpenNew, OpenRead, Load, LoadFails, Erase,
             CloseUnlist, CloseFlush, WriteLock, WriteGrow, WriteCopy, WriteShow, ReadChunk, Advance
    <3> QED
      BY <3>1, Zenon
  <2> QED
    BY <2>1, <2>2
<1>3. ASSUME NEW p \in Procs, NEW s \in Sectors, NEW why, Lookup(p, s, why) PROVE ~raced
  BY <1>3, Zenon DEF Lookup
<1>4. ASSUME NEW p \in Procs, NEW s \in Sectors, Create(p, s) PROVE ~raced
  BY <1>4, Zenon DEF Create
<1>5. ASSUME NEW p \in Procs, ExitMain(p) \/ ExitFiles(p) PROVE ~raced
  BY <1>5, Zenon DEF ExitMain, ExitFiles
<1>6. ASSUME NEW p \in Procs, NEW k, NEW n,
             Close(p, k) \/ Write(p, k, n) \/ Read(p, k, n) \/ Seek(p, k, n)
      PROVE  ~raced
  BY <1>6, Zenon DEF Close, Write, Read, Seek
<1> QED
  BY <1>1, <1>2, <1>3, <1>4, <1>5, <1>6, Zenon DEF Next

LEMMA StructNext ==
  ASSUME StructInv, [Next]_vars, ~raced'
  PROVE  StructInv'
PROOF
<1>1. CASE UNCHANGED vars
  <2>1. TypeInv' /\ CallInv'
    BY <1>1 DEF vars, procVars, StructInv, TypeInv, CallInv, Call, HasDir
  <2>2. Used' = Used /\ \A o \in Inodes : /\ Descriptors(o)' = Descriptors(o)
                                        /\ Runs(o)' = Runs(o) /\ Calls(o)' = Calls(o)
    BY <1>1 DEF vars, procVars, Used, Descriptors, Runs, Calls
  <2>3. OpenInv' /\ CloseInv'
    BY <1>1, <2>2 DEF vars, procVars, StructInv, OpenInv, CloseInv
  <2>4. CountInv'
    BY <1>1, <2>2 DEF vars, procVars, StructInv, CountInv
  <2>5. ListInv' /\ MapInv'
    BY <1>1, <2>2 DEF vars, procVars, StructInv, ListInv, MapInv
  <2> QED
    BY <2>1, <2>3, <2>4, <2>5 DEF StructInv
<1>2. ASSUME NEW p \in Procs, InodeStep(p) PROVE StructInv'
  BY <1>2, OpenScanStep, OpenReturnsStep, OpenNewStep, LoadStep, LoadFailsStep, EraseStep,
     CloseCountStep, CloseUnlistStep, CloseFlushStep, CopyStep, AdvanceStep DEF InodeStep
<1>3. ASSUME NEW p \in Procs, ExitMain(p) \/ ExitFiles(p) PROVE StructInv'
  BY <1>3, ExitMainStep, ExitFilesStep
<1>4. ASSUME NEW p \in Procs, NEW s \in Sectors,
             Create(p, s) \/ \E why \in {"open", "load", "remove"} : Lookup(p, s, why)
      PROVE  StructInv'
  BY <1>4, CreateStep, LookupStep
<1>5. ASSUME NEW p \in Procs, NEW k \in DOMAIN list_file[p],
             \/ Close(p, k)
             \/ \E size \in 1 .. MaxLength : Write(p, k, size) \/ Read(p, k, size)
             \/ \E pos \in 0 .. MaxLength : Seek(p, k, pos)
      PROVE  StructInv'
  BY <1>5, CloseStep, WriteStep, SeekStep
<1> QED
  BY <1>1, <1>2, <1>3, <1>4, <1>5 DEF Next

LEMMA StructAlways == Spec => [](~raced => StructInv)
PROOF
<1>1. Init => (~raced => StructInv)
  BY StructInit
<1>2. (~raced => StructInv) /\ [Next]_vars => (~raced => StructInv)'
  BY StructNext, RacedStays
<1> QED
  BY <1>1, <1>2, PTL DEF Spec

(* The reference counts of inode_open(), inode_close() and file_deny_write() are exact. *)
THEOREM ReferencesCorrect == Spec => []RefInv
PROOF
<1>1. (~raced => StructInv) => RefInv
  BY DEF RefInv, StructInv, CountInv, ListInv, MapInv
<1> QED
  BY <1>1, StructAlways, PTL

-----------------------------------------------------------------------------
(* LengthInv and AppendInv. *)

(* Who reads or writes has the file open, and it has been read from the disk. *)
LEMMA WriterHolds ==
  ASSUME StructInv, NEW p \in Procs, c[p].at \in Writing
  PROVE  /\ c[p].inode \in Inodes /\ c[p].inode \in open_inodes /\ c[p].inode \in Used
         /\ inode[c[p].inode].open_cnt > 0 /\ inode[c[p].inode].sector \in Sectors
         /\ ~Reading(c[p].inode)
PROOF
<1> DEFINE o == c[p].inode
           k == c[p].file
<1>1. k \in DOMAIN list_file[p] /\ list_file[p][k].inode = o
  BY DEF StructInv, CallInv, Call
<1>2. o \in Inodes
  BY <1>1, DescriptorFile
<1>3. inode[o].open_cnt > 0
  BY <1>1, <1>2, ReferenceCounts
<1>4. ASSUME NEW q \in Procs, c[q].at = "read", c[q].inode = o PROVE FALSE
  <2>1. inode[o].open_cnt = 1
    BY <1>4 DEF StructInv, OpenInv
  <2> QED
    BY <1>1, <1>2, <1>4, <2>1, OnlyReference
<1> QED
  BY <1>2, <1>3, <1>4, HeldInode DEF Reading

(* A step that leaves the lengths alone, and the readers of inodes. *)
SameLengths(p) ==
  /\ \A q \in Procs \ {p} : c'[q] = c[q]
  /\ c[p].at # "read" /\ c'[p].at # "read"
  /\ \A o \in Inodes : inode'[o].sector = inode[o].sector /\ inode'[o].length = inode[o].length
  /\ dir' \subseteq dir /\ disk_length' = disk_length /\ grown' = grown

LEMMA GrownKept ==
  ASSUME GrownInv, NEW p \in Procs, SameLengths(p)
  PROVE  GrownInv'
PROOF
<1>1. Used' = Used /\ Used \subseteq Inodes
  BY DEF SameLengths, Used
<1>2. \A o \in Inodes : Reading(o)' <=> Reading(o)
  BY DEF SameLengths, Reading
<1>3. \A o \in Used' : inode'[o].sector \in dir' /\ ~Reading(o)' =>
        inode'[o].length = grown'[inode'[o].sector]
  BY <1>1, <1>2 DEF SameLengths, GrownInv
<1>4. ASSUME NEW s \in dir', \A o \in Used' : inode'[o].sector = s => Reading(o)'
      PROVE  disk_length'[s] = grown'[s]
  BY <1>1, <1>2, <1>4 DEF SameLengths, GrownInv
<1> QED
  BY <1>3, <1>4 DEF GrownInv

(* A step that leaves what readers see alone, and the writers. *)
SameShown(p) ==
  /\ \A q \in Procs \ {p} : c'[q] = c[q]
  /\ c[p].at \notin Growing /\ c'[p].at \notin Growing
  /\ \A o \in Inodes : /\ inode'[o].length = inode[o].length
                       /\ inode'[o].length_shown = inode[o].length_shown
  /\ open_inodes' \subseteq open_inodes /\ tangled' = tangled

LEMMA ShownKept ==
  ASSUME StructInv, WriterInv, ShownInv, NEW p \in Procs, SameShown(p)
  PROVE  WriterInv' /\ ShownInv'
PROOF
<1>1. \A q \in Procs : (c[q].at \in Growing \/ c'[q].at \in Growing) => q # p /\ c'[q] = c[q]
  BY DEF SameShown
<1>2. \A q \in Procs : c[q].at \in Growing => c[q].inode \in Inodes
  BY WriterHolds DEF Growing, Writing
<1>3. WriterInv'
  <2> SUFFICES ASSUME NEW q \in Procs, c'[q].at \in Growing, c'[q].inode \notin tangled'
               PROVE  /\ inode'[c'[q].inode].length =
                           IF c'[q].at = "grow" THEN c'[q].off ELSE c'[q].off + c'[q].size
                      /\ inode'[c'[q].inode].length_shown = c'[q].off
                      /\ \A r \in Procs : c'[r].at \in Growing /\ c'[r].inode = c'[q].inode => r = q
    BY DEF WriterInv
  <2>1. c'[q] = c[q] /\ c[q].inode \in Inodes /\ c[q].inode \notin tangled
    BY <1>1, <1>2 DEF SameShown
  <2>2. \A r \in Procs : c'[r].at \in Growing /\ c'[r].inode = c'[q].inode => r = q
    BY <1>1, <2>1 DEF WriterInv
  <2> QED
    BY <2>1, <2>2 DEF WriterInv, SameShown
<1>4. ShownInv'
  <2> SUFFICES ASSUME NEW o \in open_inodes', o \notin tangled',
                      \A q \in Procs : ~(c'[q].at \in Growing /\ c'[q].inode = o)
               PROVE  inode'[o].length_shown = inode'[o].length
    BY DEF ShownInv
  <2>1. o \in open_inodes /\ o \in Inodes /\ o \notin tangled
    BY DEF SameShown, StructInv, TypeInv
  <2>2. \A q \in Procs : ~(c[q].at \in Growing /\ c[q].inode = o)
    BY <1>1
  <2> QED
    BY <2>1, <2>2 DEF ShownInv, SameShown
<1> QED
  BY <1>3, <1>4

(* The steps that do both. *)
Aside(p) == SameLengths(p) /\ SameShown(p)

LEMMA OpenAside ==
  ASSUME StructInv, NEW p \in Procs, NEW s, NEW why,
         Lookup(p, s, why) \/ OpenScan(p) \/ OpenReopen(p)
  PROVE  Aside(p)
PROOF
<1>1. UNCHANGED <<diskVars, open_inodes, dataVars>>
  BY DEF Lookup, OpenScan, OpenReopen
<1>2. c \in [Procs -> CallRecords] /\ inode \in [Inodes -> InodeRecords]
  BY DEF StructInv, TypeInv
<1>3. CASE Lookup(p, s, why)
  <2>1. /\ c[p].at = "idle" /\ c'[p].at = "scan" /\ inode' = inode
        /\ \A q \in Procs \ {p} : c'[q] = c[q]
    BY <1>2, <1>3 DEF Lookup, At, Idle
  <2> QED
    BY <1>1, <2>1 DEF Aside, SameLengths, SameShown, Growing, diskVars, dataVars
<1>4. CASE OpenScan(p)
  <2>1. c[p].at = "scan" /\ inode' = inode
    BY <1>4 DEF OpenScan, At
  <2>2. /\ c'[p].at \in {"reopen", "new"}
        /\ \A q \in Procs \ {p} : c'[q] = c[q]
    BY <1>2, <1>4 DEF OpenScan, Goto, CallRecords
  <2> QED
    BY <1>1, <2>1, <2>2 DEF Aside, SameLengths, SameShown, Growing, diskVars, dataVars
<1>5. CASE OpenReopen(p)
  <2>1. /\ c[p].at = "reopen" /\ c'[p].at \in {"idle", "load", "erase"}
        /\ \A q \in Procs \ {p} : c'[q] = c[q]
    BY <1>5, OpenedStep DEF OpenReopen, At, OthersSame
  <2>2. c[p].inode \in Inodes
    BY <2>1 DEF StructInv, CallInv, Call, Handling
  <2>3. \A n \in Inodes : /\ inode'[n].sector = inode[n].sector
                          /\ inode'[n].length = inode[n].length
                          /\ inode'[n].length_shown = inode[n].length_shown
    <3> DEFINE x == inode[c[p].inode].open_cnt + 1
    <3>1. x \in Int /\ inode' = [inode EXCEPT ![c[p].inode].open_cnt = x]
      BY <1>2, <1>5, <2>2 DEF OpenReopen, InodeRecords
    <3> HIDE DEF x
    <3> QED
      BY <1>2, <2>2, <3>1, OpenCntSet
  <2> QED
    BY <1>1, <2>1, <2>3 DEF Aside, SameLengths, SameShown, Growing, diskVars, dataVars
<1> QED
  BY <1>3, <1>4, <1>5

LEMMA LoadAside ==
  ASSUME StructInv, NEW p \in Procs, Load(p) \/ LoadFails(p) \/ ExitMain(p)
  PROVE  Aside(p)
PROOF
<1>1. UNCHANGED <<diskVars, open_inodes, dataVars>>
  BY DEF Load, LoadFails, ExitMain
<1>2. c \in [Procs -> CallRecords] /\ inode \in [Inodes -> InodeRecords]
  BY DEF StructInv, TypeInv
<1>3. /\ c[p].at \in {"load", "idle"} /\ c'[p].at \in {"idle", "close"}
      /\ \A q \in Procs \ {p} : c'[q] = c[q]
  <2>1. CASE Load(p)
    BY <1>2, <2>1 DEF Load, At, Return, Idle
  <2>2. CASE LoadFails(p)
    BY <1>2, <2>2 DEF LoadFails, At, Goto, CallRecords
  <2>3. CASE ExitMain(p)
    BY <1>2, <2>3 DEF ExitMain, At, Idle
  <2> QED
    BY <2>1, <2>2, <2>3
<1>4. CASE inode' = inode
  BY <1>1, <1>3, <1>4 DEF Aside, SameLengths, SameShown, Growing, diskVars, dataVars
<1>5. CASE inode' # inode
  <2>1. PICK o \in Inodes, x \in Int : inode' = [inode EXCEPT ![o].deny_write_cnt = x]
    <3>1. CASE Load(p)
      <4>1. c[p].inode \in Inodes
        BY <3>1 DEF StructInv, CallInv, Call, Handling, Load, At
      <4>2. inode[c[p].inode].deny_write_cnt + 1 \in Int
        BY <1>2, <4>1 DEF InodeRecords
      <4> QED
        BY <3>1, <4>1, <4>2 DEF Load, inode_deny_write
    <3>2. CASE ExitMain(p)
      <4>1. main_file[p].inode \in Inodes
        BY <3>2 DEF ExitMain, StructInv, TypeInv, FileObjects
      <4>2. inode[main_file[p].inode].deny_write_cnt - 1 \in Int
        BY <1>2, <4>1 DEF InodeRecords
      <4> QED
        BY <3>2, <4>1, <4>2 DEF ExitMain, inode_allow_write
    <3> QED
      BY <1>5, <3>1, <3>2 DEF LoadFails
  <2>2. \A n \in Inodes : /\ inode'[n].sector = inode[n].sector
                          /\ inode'[n].length = inode[n].length
                          /\ inode'[n].length_shown = inode[n].length_shown
    BY <1>2, <2>1, DenySet
  <2> QED
    BY <1>1, <1>3, <2>2 DEF Aside, SameLengths, SameShown, Growing, diskVars, dataVars
<1> QED
  BY <1>4, <1>5

LEMMA CloseAside ==
  ASSUME StructInv, NEW p \in Procs, Erase(p) \/ CloseCount(p) \/ CloseUnlist(p)
  PROVE  Aside(p)
PROOF
<1>1. /\ dir' \subseteq dir /\ open_inodes' \subseteq open_inodes
      /\ UNCHANGED <<disk_length, list_file, main_file, dataVars>>
  BY DEF Erase, CloseCount, CloseUnlist, diskVars
<1>2. c \in [Procs -> CallRecords] /\ inode \in [Inodes -> InodeRecords]
  BY DEF StructInv, TypeInv
<1>3. c[p].at \in {"erase", "close", "unlist"} /\ c[p].inode \in Inodes
  BY DEF Erase, CloseCount, CloseUnlist, At, StructInv, CallInv, Call, Handling, Closing
<1>4. /\ c'[p].at \in {"close", "unlist", "flush", "idle", "exit", "gone"}
      /\ \A q \in Procs \ {p} : c'[q] = c[q]
  <2>1. CASE CloseCount(p) /\ Closed(p)
    BY <1>2, <2>1 DEF Closed, Goto, Return, Idle, CallRecords
  <2>2. CASE CloseCount(p) /\ ~Closed(p)
    BY <1>2, <2>2 DEF CloseCount, Goto, CallRecords
  <2>3. CASE Erase(p) \/ CloseUnlist(p)
    BY <1>2, <2>3 DEF Erase, CloseUnlist, Goto, CallRecords
  <2> QED
    BY <2>1, <2>2, <2>3
<1>5. \A n \in Inodes : /\ inode'[n].sector = inode[n].sector
                        /\ inode'[n].length = inode[n].length
                        /\ inode'[n].length_shown = inode[n].length_shown
  <2>1. CASE Erase(p)
    <3>1. inode' = [inode EXCEPT ![c[p].inode].removed = TRUE]
      BY <2>1 DEF Erase
    <3> QED
      BY <1>2, <1>3, <3>1 DEF InodeRecords
  <2>2. CASE CloseCount(p)
    <3> DEFINE x == inode[c[p].inode].open_cnt - 1
    <3>1. x \in Int /\ inode' = [inode EXCEPT ![c[p].inode].open_cnt = x]
      BY <1>2, <1>3, <2>2 DEF CloseCount, InodeRecords
    <3> HIDE DEF x
    <3> QED
      BY <1>2, <1>3, <3>1, OpenCntSet
  <2>3. CASE CloseUnlist(p)
    BY <2>3 DEF CloseUnlist
  <2> QED
    BY <2>1, <2>2, <2>3
<1> QED
  BY <1>1, <1>3, <1>4, <1>5 DEF Aside, SameLengths, SameShown, Growing, dataVars

LEMMA DescriptorAside ==
  ASSUME StructInv, NEW p \in Procs, NEW k, NEW n,
         \/ Close(p, k) \/ ExitFiles(p) \/ Write(p, k, n) \/ Read(p, k, n) \/ Seek(p, k, n)
         \/ ReadChunk(p) \/ (Advance(p) /\ c[p].at = "readin")
  PROVE  Aside(p)
PROOF
<1>1. UNCHANGED <<diskVars, open_inodes, inode, dataVars>>
  BY DEF Close, ExitFiles, Write, Read, Seek, ReadChunk, Advance
<1>2. c \in [Procs -> CallRecords]
  BY DEF StructInv, TypeInv
<1>3. c[p].at \in {"idle", "exit", "readin"}
  BY DEF Close, ExitFiles, Write, Read, Seek, ReadChunk, At
<1>4. c'[p].at \in {"idle", "close", "gone", "lock", "readin"} /\ \A q \in Procs \ {p} : c'[q] = c[q]
  <2>1. CASE ExitFiles(p) \/ Close(p, k)
    BY <1>2, <2>1 DEF ExitFiles, Close, Goto, Idle, CallRecords
  <2>2. CASE Write(p, k, n) \/ Read(p, k, n)
    BY <1>2, <2>2 DEF Write, Read, Idle
  <2>3. CASE Seek(p, k, n) \/ ReadChunk(p)
    BY <1>2, <2>3 DEF Seek, ReadChunk, At, CallRecords
  <2>4. CASE Advance(p)
    BY <1>2, <2>4 DEF Advance, Return, Idle
  <2> QED
    BY <2>1, <2>2, <2>3, <2>4
<1> QED
  BY <1>1, <1>3, <1>4 DEF Aside, SameLengths, SameShown, Growing, diskVars, dataVars

-----------------------------------------------------------------------------
(* The steps on which a length is written or read. *)

LEMMA CreateGrown ==
  ASSUME StructInv, GrownInv, NEW p \in Procs, NEW s \in Sectors, Create(p, s)
  PROVE  GrownInv'
PROOF
<1>1. /\ s \notin free_map /\ dir' = dir \cup {s}
      /\ disk_length' = [disk_length EXCEPT ![s] = 0] /\ grown' = [grown EXCEPT ![s] = 0]
      /\ inode' = inode /\ c' = c
  BY DEF Create, procVars
<1>2. /\ \A o \in Used : inode[o].sector # s
      /\ \A t \in dir : t \in Sectors /\ t # s
      /\ disk_length \in [Sectors -> Nat] /\ grown \in [Sectors -> Nat]
  BY <1>1 DEF StructInv, MapInv, TypeInv
<1>3. Used' = Used /\ \A o : Reading(o)' <=> Reading(o)
  BY <1>1 DEF Used, Reading
<1>4. /\ \A t \in dir : grown'[t] = grown[t] /\ disk_length'[t] = disk_length[t]
      /\ grown'[s] = 0 /\ disk_length'[s] = 0
  BY <1>1, <1>2
<1>5. \A o \in Used' : inode'[o].sector \in dir' /\ ~Reading(o)' =>
        inode'[o].length = grown'[inode'[o].sector]
  BY <1>1, <1>2, <1>3, <1>4 DEF GrownInv
<1>6. ASSUME NEW t \in dir', \A o \in Used' : inode'[o].sector = t => Reading(o)'
      PROVE  disk_length'[t] = grown'[t]
  BY <1>1, <1>3, <1>4, <1>6 DEF GrownInv
<1> QED
  BY <1>5, <1>6 DEF GrownInv

LEMMA OpenNewGrown ==
  ASSUME StructInv, GrownInv, NEW p \in Procs, OpenNew(p)
  PROVE  GrownInv'
PROOF
<1>1. c[p].at = "new" /\ UNCHANGED <<diskVars, grown>>
  BY DEF OpenNew, At
<1>2. PICK o \in Inodes :
        /\ inode[o] = Unused
        /\ inode' = [inode EXCEPT ![o] = [Unused EXCEPT !.sector = c[p].sector, !.open_cnt = 1]]
        /\ c' = [c EXCEPT ![p].at = "read", ![p].inode = o]
  BY DEF OpenNew
<1>3. /\ c'[p].at = "read" /\ c'[p].inode = o
      /\ \A q \in Procs \ {p} : c'[q] = c[q]
  BY <1>2 DEF StructInv, TypeInv, CallRecords
<1>4. o \notin Used /\ Used \subseteq Inodes /\ \A n \in Inodes \ {o} : inode'[n] = inode[n]
  BY <1>2, UnusedInode DEF Used, StructInv, TypeInv
<1>5. Reading(o)' /\ \A n : n # o => (Reading(n)' <=> Reading(n))
  BY <1>1, <1>3 DEF Reading
<1>6. \A n \in Used' : n # o => n \in Used /\ inode'[n] = inode[n]
  BY <1>4 DEF Used
<1>7. \A n \in Used : n # o /\ n \in Used' /\ inode'[n] = inode[n]
  BY <1>4 DEF Used
<1>8. \A n \in Used' : inode'[n].sector \in dir' /\ ~Reading(n)' =>
        inode'[n].length = grown'[inode'[n].sector]
  BY <1>1, <1>5, <1>6 DEF GrownInv, diskVars
<1>9. ASSUME NEW t \in dir', \A n \in Used' : inode'[n].sector = t => Reading(n)'
      PROVE  disk_length'[t] = grown'[t]
  <2>1. \A n \in Used : inode[n].sector = t => Reading(n)
    BY <1>5, <1>7, <1>9
  <2> QED
    BY <1>1, <2>1 DEF GrownInv, diskVars
<1> QED
  BY <1>8, <1>9 DEF GrownInv

(* What inode_open() reads from the disk. *)
LEMMA LengthRead ==
  ASSUME StructInv, NEW p \in Procs, OpenRead(p)
  PROVE  /\ c[p].inode \in Used /\ c[p].inode \in Inodes /\ c[p].sector \in dir
         /\ inode[c[p].inode].sector = c[p].sector /\ inode[c[p].inode].open_cnt = 1
         /\ \A n \in Inodes \ {c[p].inode} : inode'[n] = inode[n]
         /\ inode'[c[p].inode].sector = inode[c[p].inode].sector
         /\ inode'[c[p].inode].length = disk_length[c[p].sector]
         /\ inode'[c[p].inode].length_shown = disk_length[c[p].sector]
         /\ c'[p].at \in {"idle", "load", "erase"}
         /\ \A q \in Procs \ {p} : c'[q] = c[q] /\ c[q].at # "read"
         /\ UNCHANGED <<diskVars, open_inodes, dataVars>>
PROOF
<1> DEFINE o == c[p].inode
           l == disk_length[c[p].sector]
<1>1. /\ c[p].at = "read" /\ Opened1(p, o)
      /\ UNCHANGED <<diskVars, open_inodes, main_file, dataVars>>
      /\ inode' = [inode EXCEPT ![o].length = l, ![o].length_shown = l]
  BY DEF OpenRead, At
<1>2. o \in Inodes /\ c[p].sector \in dir
  BY <1>1 DEF StructInv, CallInv, Call, Handling, Opening
<1>3. inode[o].sector = c[p].sector /\ inode[o].open_cnt = 1
  BY <1>1 DEF StructInv, OpenInv
<1>4. o \in Used
  BY <1>2, <1>3, HeldInode
<1>5. /\ c'[p].at \in {"idle", "load", "erase"}
      /\ \A q \in Procs \ {p} : c'[q] = c[q]
  BY <1>1, OpenedStep DEF OthersSame
<1>6. \A q \in Procs \ {p} : c[q].at # "read"
  <2>1. HasDir(p)
    BY <1>1 DEF HasDir, Opening
  <2> QED
    BY <2>1, DirAlone DEF Opening
<1>7. /\ inode'[o] = [inode[o] EXCEPT !.length = l, !.length_shown = l]
      /\ \A n \in Inodes \ {o} : inode'[n] = inode[n]
  <2>1. inode \in [Inodes -> InodeRecords]
    BY DEF StructInv, TypeInv
  <2> HIDE DEF o, l
  <2> QED
    BY <1>1, <1>2, <2>1
<1>8. inode'[o].sector = inode[o].sector /\ inode'[o].length = l /\ inode'[o].length_shown = l
  <2>1. inode[o] \in InodeRecords
    BY <1>2 DEF StructInv, TypeInv
  <2> HIDE DEF o, l
  <2> QED
    BY <1>7, <2>1 DEF InodeRecords
<1> QED
  BY <1>1, <1>2, <1>3, <1>4, <1>5, <1>6, <1>7, <1>8

LEMMA OpenReadGrown ==
  ASSUME StructInv, GrownInv, NEW p \in Procs, OpenRead(p)
  PROVE  GrownInv'
PROOF
<1> DEFINE o == c[p].inode
<1>1. c[p].at = "read"
  BY DEF OpenRead, At
<1>2. /\ o \in Used /\ o \in Inodes /\ c[p].sector \in dir /\ inode[o].sector = c[p].sector
      /\ \A n \in Inodes \ {o} : inode'[n] = inode[n]
      /\ inode'[o].sector = inode[o].sector /\ inode'[o].length = disk_length[c[p].sector]
      /\ c'[p].at # "read" /\ \A q \in Procs \ {p} : c'[q] = c[q] /\ c[q].at # "read"
      /\ dir' = dir /\ disk_length' = disk_length /\ grown' = grown
  BY LengthRead DEF diskVars, dataVars
<1>3. Used' = Used /\ Used \subseteq Inodes /\ \A n \in Used : inode'[n].sector = inode[n].sector
  BY <1>2 DEF Used
<1>4. Reading(o) /\ (\A n : ~Reading(n)') /\ (\A n : n # o => ~Reading(n))
  BY <1>1, <1>2 DEF Reading
<1>5. disk_length[c[p].sector] = grown[c[p].sector]
  <2>1. \A n \in Used : inode[n].sector = c[p].sector => Reading(n)
    BY <1>2, <1>4 DEF StructInv, ListInv
  <2> QED
    BY <1>2, <2>1 DEF GrownInv
<1>6. ASSUME NEW n \in Used', inode'[n].sector \in dir'
      PROVE  inode'[n].length = grown'[inode'[n].sector]
  <2>1. CASE n = o
    BY <1>2, <1>5, <2>1
  <2>2. CASE n # o
    <3>1. n \in Used /\ n \in Inodes /\ ~Reading(n) /\ inode'[n] = inode[n] /\ inode[n].sector \in dir
      BY <1>2, <1>3, <1>4, <1>6, <2>2
    <3>2. inode[n].length = grown[inode[n].sector]
      BY <3>1 DEF GrownInv
    <3> QED
      BY <1>2, <3>1, <3>2
  <2> QED
    BY <2>1, <2>2
<1>7. ASSUME NEW t \in dir', \A n \in Used' : inode'[n].sector = t => Reading(n)'
      PROVE  disk_length'[t] = grown'[t]
  <2>1. ASSUME NEW n \in Used PROVE inode[n].sector # t
    <3>1. ~Reading(n)'
      BY <1>4
    <3>2. n \in Used' /\ inode'[n].sector = inode[n].sector
      BY <1>3, SMTT(30)
    <3> QED
      BY <1>7, <3>1, <3>2
  <2> QED
    BY <1>2, <2>1 DEF GrownInv
<1> QED
  BY <1>6, <1>7 DEF GrownInv

(* inode_grow() is the only step that changes a length. *)
LEMMA LengthGrown ==
  ASSUME StructInv, NEW p \in Procs, WriteGrow(p)
  PROVE  /\ c[p].inode \in Inodes
         /\ \A n \in Inodes : /\ inode'[n].sector = inode[n].sector
                              /\ inode'[n].length_shown = inode[n].length_shown
         /\ \A n \in Inodes \ {c[p].inode} : inode'[n].length = inode[n].length
         /\ inode'[c[p].inode].length = c[p].off + c[p].size
         /\ c[p].at = "grow" /\ c'[p].at = "copy" /\ c'[p].inode = c[p].inode
         /\ c'[p].off = c[p].off /\ c'[p].size = c[p].size
         /\ \A q \in Procs \ {p} : c'[q] = c[q]
         /\ grown' = [grown EXCEPT ![inode[c[p].inode].sector] = c[p].off + c[p].size]
         /\ UNCHANGED <<diskVars, open_inodes, tangled>>
PROOF
<1> DEFINE o == c[p].inode
           l == c[p].off + c[p].size
<1>1. /\ c[p].at = "grow" /\ c' = [c EXCEPT ![p].at = "copy"]
      /\ inode' = [inode EXCEPT ![o].length = l, ![o].lock = NULL]
      /\ grown' = [grown EXCEPT ![inode[c[p].inode].sector] = c[p].off + c[p].size]
      /\ UNCHANGED <<diskVars, open_inodes, tangled>>
  BY DEF WriteGrow, At, Goto
<1>2. o \in Inodes
  BY <1>1, WriterHolds DEF Writing
<1>3. c \in [Procs -> CallRecords] /\ inode \in [Inodes -> InodeRecords]
  BY DEF StructInv, TypeInv
<1>4. /\ c'[p].at = "copy" /\ c'[p].inode = c[p].inode
      /\ c'[p].off = c[p].off /\ c'[p].size = c[p].size
      /\ \A q \in Procs \ {p} : c'[q] = c[q]
  BY <1>1, <1>3 DEF CallRecords
<1> HIDE DEF o, l
<1>5. /\ inode'[o] = [inode[o] EXCEPT !.length = l, !.lock = NULL]
      /\ \A n \in Inodes \ {o} : inode'[n] = inode[n]
  BY <1>1, <1>2, <1>3
<1>6. /\ inode'[o].sector = inode[o].sector /\ inode'[o].length = l
      /\ inode'[o].length_shown = inode[o].length_shown
  BY <1>2, <1>3, <1>5 DEF InodeRecords
<1> QED
  BY <1>1, <1>2, <1>4, <1>5, <1>6 DEF o, l

LEMMA WriteGrowGrown ==
  ASSUME StructInv, GrownInv, NEW p \in Procs, WriteGrow(p)
  PROVE  GrownInv'
PROOF
<1> DEFINE o == c[p].inode
           s == inode[o].sector
           l == c[p].off + c[p].size
<1>1. /\ o \in Inodes
      /\ \A n \in Inodes : inode'[n].sector = inode[n].sector
      /\ \A n \in Inodes \ {o} : inode'[n].length = inode[n].length
      /\ inode'[o].length = l
      /\ c[p].at # "read" /\ c'[p].at # "read" /\ \A q \in Procs \ {p} : c'[q] = c[q]
      /\ grown' = [grown EXCEPT ![s] = l] /\ dir' = dir /\ disk_length' = disk_length
  BY LengthGrown DEF diskVars
<1>2. o \in Used /\ s \in Sectors /\ ~Reading(o)
  BY WriterHolds DEF WriteGrow, At, Writing
<1>3. Used' = Used /\ Used \subseteq Inodes /\ \A n : Reading(n)' <=> Reading(n)
  BY <1>1 DEF Used, Reading
<1>4. grown'[s] = l /\ \A t \in Sectors \ {s} : grown'[t] = grown[t]
  BY <1>1, <1>2 DEF StructInv, TypeInv
<1>5. \A n \in Used : n # o => inode[n].sector # s
  BY <1>2 DEF StructInv, ListInv
<1>6. dir \subseteq Sectors
  BY DEF StructInv, TypeInv
<1> HIDE DEF o, s, l
<1>7. ASSUME NEW n \in Used', inode'[n].sector \in dir', ~Reading(n)'
      PROVE  inode'[n].length = grown'[inode'[n].sector]
  <2>1. CASE n = o
    BY <1>1, <1>4, <2>1 DEF s
  <2>2. CASE n # o
    <3>1. inode[n].sector \in dir /\ inode[n].sector # s /\ n \in Inodes /\ n \in Used /\ ~Reading(n)
      BY <1>1, <1>3, <1>5, <1>7, <2>2
    <3>2. inode[n].length = grown[inode[n].sector]
      BY <3>1 DEF GrownInv
    <3> QED
      BY <1>1, <1>4, <1>6, <2>2, <3>1, <3>2
  <2> QED
    BY <2>1, <2>2
<1>8. ASSUME NEW t \in dir', \A n \in Used' : inode'[n].sector = t => Reading(n)'
      PROVE  disk_length'[t] = grown'[t]
  <2>1. \A n \in Used : inode[n].sector = t => Reading(n)
    BY <1>1, <1>3, <1>8
  <2>2. t # s /\ t \in dir /\ t \in Sectors
    BY <1>1, <1>2, <1>6, <1>8, <2>1 DEF s
  <2>3. disk_length[t] = grown[t]
    BY <2>1, <2>2 DEF GrownInv
  <2> QED
    BY <1>1, <1>4, <2>2, <2>3
<1> QED
  BY <1>7, <1>8 DEF GrownInv

(* The last closer gives its struct inode back. *)
LEMMA InodeFreed ==
  ASSUME StructInv, NEW p \in Procs, CloseFlush(p)
  PROVE  /\ c[p].inode \in Used /\ c[p].inode \in Inodes /\ c[p].inode \notin open_inodes
         /\ inode[c[p].inode].open_cnt = 0 /\ inode[c[p].inode].sector \in Sectors
         /\ Used' = Used \ {c[p].inode} /\ Used \subseteq Inodes
         /\ \A n \in Inodes \ {c[p].inode} : inode'[n] = inode[n]
         /\ c[p].at = "flush" /\ c'[p].at \in {"idle", "exit", "gone"}
         /\ \A q \in Procs \ {p} : c'[q] = c[q]
         /\ UNCHANGED <<dir, open_inodes, dataVars>>
PROOF
<1> DEFINE o == c[p].inode
<1>1. /\ c[p].at = "flush" /\ Closed(p) /\ inode' = [inode EXCEPT ![o] = Unused]
      /\ UNCHANGED <<dir, open_inodes, list_file, main_file, dataVars>>
  BY DEF CloseFlush, At
<1>2. o \in Used /\ inode[o].open_cnt = 0 /\ o \notin open_inodes
  BY <1>1 DEF StructInv, CloseInv, Closing
<1>3. o \in Inodes /\ inode[o].sector \in Sectors
  BY <1>2 DEF Used, StructInv, TypeInv, InodeRecords
<1>4. c'[p].at \in {"idle", "exit", "gone"} /\ \A q \in Procs \ {p} : c'[q] = c[q]
  BY <1>1, ClosedStep DEF OthersSame
<1>5. inode'[o] = Unused /\ \A n \in Inodes \ {o} : inode'[n] = inode[n]
  BY <1>1, <1>3 DEF StructInv, TypeInv
<1>6. Used' = Used \ {o} /\ Used \subseteq Inodes
  BY <1>5, UnusedInode DEF Used
<1> QED
  BY <1>1, <1>2, <1>3, <1>4, <1>5, <1>6

LEMMA CloseFlushGrown ==
  ASSUME StructInv, GrownInv, NEW p \in Procs, CloseFlush(p)
  PROVE  GrownInv'
PROOF
<1> DEFINE o == c[p].inode
           s == inode[o].sector
<1>1. /\ o \in Used /\ o \in Inodes /\ inode[o].open_cnt = 0 /\ s \in Sectors
      /\ Used' = Used \ {o} /\ Used \subseteq Inodes
      /\ \A n \in Inodes \ {o} : inode'[n] = inode[n]
      /\ c[p].at # "read" /\ c'[p].at # "read" /\ \A q \in Procs \ {p} : c'[q] = c[q]
      /\ dir' = dir /\ grown' = grown
  BY InodeFreed DEF dataVars
<1>2. ~Reading(o) /\ \A n : Reading(n)' <=> Reading(n)
  BY <1>1 DEF Reading, StructInv, OpenInv
<1>3. IF inode[o].removed THEN disk_length' = disk_length
                          ELSE disk_length' = [disk_length EXCEPT ![s] = inode[o].length]
  BY DEF CloseFlush
<1>4. inode[o].removed <=> s \notin dir
  BY <1>1 DEF StructInv, MapInv
<1>5. disk_length \in [Sectors -> Nat] /\ dir \subseteq Sectors
  BY DEF StructInv, TypeInv
<1>6. /\ s \in dir => disk_length'[s] = inode[o].length
      /\ \A t \in dir : t # s => disk_length'[t] = disk_length[t]
  BY <1>1, <1>3, <1>4, <1>5
<1>7. s \in dir => inode[o].length = grown[s]
  BY <1>1, <1>2 DEF GrownInv
<1>8. \A n \in Used' : inode'[n].sector \in dir' /\ ~Reading(n)' =>
        inode'[n].length = grown'[inode'[n].sector]
  BY <1>1, <1>2 DEF GrownInv
<1>9. ASSUME NEW t \in dir', \A n \in Used' : inode'[n].sector = t => Reading(n)'
      PROVE  disk_length'[t] = grown'[t]
  <2>1. CASE t = s
    BY <1>1, <1>6, <1>7, <1>9, <2>1
  <2>2. CASE t # s
    <3>1. \A n \in Used : inode[n].sector = t => Reading(n)
      BY <1>1, <1>2, <1>9, <2>2
    <3>2. disk_length[t] = grown[t]
      BY <1>1, <1>9, <3>1 DEF GrownInv
    <3> QED
      BY <1>1, <1>6, <1>9, <2>2, <3>2
  <2> QED
    BY <2>1, <2>2
<1> QED
  BY <1>8, <1>9 DEF GrownInv

(* What the other steps of inode_write_at() do. *)
LEMMA LockTaken ==
  ASSUME StructInv, NEW p \in Procs, WriteLock(p)
  PROVE  /\ c[p].at = "lock" /\ c[p].inode \in Inodes
         /\ \A n \in Inodes : /\ inode'[n].sector = inode[n].sector
                              /\ inode'[n].length = inode[n].length
                              /\ inode'[n].length_shown = inode[n].length_shown
         /\ c'[p].at = IF c[p].off + c[p].size > inode[c[p].inode].length THEN "grow" ELSE "copy"
         /\ c'[p].inode = c[p].inode /\ c'[p].off = c[p].off /\ c'[p].size = c[p].size
         /\ \A q \in Procs \ {p} : c'[q] = c[q]
         /\ UNCHANGED <<diskVars, open_inodes, grown>>
PROOF
<1> DEFINE o == c[p].inode
           place == IF c[p].off + c[p].size > inode[c[p].inode].length THEN "grow" ELSE "copy"
<1>1. c[p].at = "lock" /\ c' = [c EXCEPT ![p].at = place] /\ UNCHANGED <<diskVars, open_inodes, grown>>
  BY DEF WriteLock, At, Goto
<1>2. o \in Inodes
  BY <1>1, WriterHolds DEF Writing
<1>3. c \in [Procs -> CallRecords] /\ inode \in [Inodes -> InodeRecords]
  BY DEF StructInv, TypeInv
<1>4. PICK l : inode' = [inode EXCEPT ![o].lock = l]
  BY DEF WriteLock
<1>5. \A n \in Inodes : /\ inode'[n].sector = inode[n].sector
                        /\ inode'[n].length = inode[n].length
                        /\ inode'[n].length_shown = inode[n].length_shown
  BY <1>2, <1>3, <1>4 DEF InodeRecords
<1>6. /\ c'[p].at = place
      /\ c'[p].inode = c[p].inode /\ c'[p].off = c[p].off /\ c'[p].size = c[p].size
      /\ \A q \in Procs \ {p} : c'[q] = c[q]
  <2> HIDE DEF place
  <2> QED
    BY <1>1, <1>3 DEF CallRecords
<1> QED
  BY <1>1, <1>2, <1>5, <1>6

LEMMA ChunkShown ==
  ASSUME StructInv, NEW p \in Procs, WriteShow(p)
  PROVE  /\ c[p].at = "show" /\ c[p].inode \in Inodes
         /\ \A n \in Inodes : /\ inode'[n].sector = inode[n].sector
                              /\ inode'[n].length = inode[n].length
         /\ \A n \in Inodes \ {c[p].inode} : inode'[n].length_shown = inode[n].length_shown
         /\ inode'[c[p].inode].length_shown =
              IF inode[c[p].inode].length_shown + 1 > inode[c[p].inode].length
                THEN inode[c[p].inode].length ELSE inode[c[p].inode].length_shown + 1
         /\ c'[p].at = "copy" /\ c'[p].inode = c[p].inode
         /\ c'[p].off = c[p].off + 1 /\ c'[p].size = c[p].size - 1 /\ c[p].size > 0
         /\ \A q \in Procs \ {p} : c'[q] = c[q]
         /\ UNCHANGED <<diskVars, open_inodes, dataVars>>
PROOF
<1> DEFINE o == c[p].inode
           x == IF inode[o].length_shown + 1 > inode[o].length
                  THEN inode[o].length ELSE inode[o].length_shown + 1
           i == c[p].off + 1
           j == c[p].size - 1
<1>1. /\ c[p].at = "show" /\ UNCHANGED <<diskVars, open_inodes, dataVars>>
      /\ c' = [c EXCEPT ![p].at = "copy", ![p].off = i, ![p].size = j]
  BY DEF WriteShow, At
<1>2. o \in Inodes
  BY <1>1, WriterHolds DEF Writing
<1>3. c \in [Procs -> CallRecords] /\ inode \in [Inodes -> InodeRecords]
  BY DEF StructInv, TypeInv
<1>4. c[p].size > 0
  BY <1>1 DEF StructInv, CallInv, Call
<1>5. inode' = [inode EXCEPT ![o].length_shown = x]
  BY DEF WriteShow
<1>6. /\ \A n \in Inodes : inode'[n].sector = inode[n].sector /\ inode'[n].length = inode[n].length
      /\ \A n \in Inodes \ {o} : inode'[n].length_shown = inode[n].length_shown
      /\ inode'[o].length_shown = x
  <2> HIDE DEF x, o
  <2> QED
    BY <1>2, <1>3, <1>5 DEF InodeRecords
<1>7. /\ c'[p].at = "copy" /\ c'[p].inode = c[p].inode
      /\ c'[p].off = i /\ c'[p].size = j
      /\ \A q \in Procs \ {p} : c'[q] = c[q]
  <2> HIDE DEF i, j
  <2> QED
    BY <1>1, <1>3 DEF CallRecords
<1> QED
  BY <1>1, <1>2, <1>4, <1>6, <1>7

LEMMA WriteSameLengths ==
  ASSUME StructInv, NEW p \in Procs,
         WriteLock(p) \/ WriteCopy(p) \/ WriteShow(p) \/ Advance(p)
  PROVE  SameLengths(p)
PROOF
<1>1. CASE WriteLock(p)
  BY <1>1, LockTaken DEF SameLengths, diskVars
<1>2. CASE WriteShow(p)
  BY <1>2, ChunkShown DEF SameLengths, diskVars, dataVars
<1>3. CASE WriteCopy(p) \/ Advance(p)
  <2>1. c \in [Procs -> CallRecords]
    BY DEF StructInv, TypeInv
  <2>2. UNCHANGED <<diskVars, inode, dataVars>> /\ c[p].at \in {"copy", "readin"}
    BY <1>3 DEF WriteCopy, Advance, At
  <2>3. c'[p].at \in {"show", "idle"} /\ \A q \in Procs \ {p} : c'[q] = c[q]
    BY <1>3, <2>1 DEF WriteCopy, Advance, Goto, Return, Idle, CallRecords
  <2> QED
    BY <2>2, <2>3 DEF SameLengths, diskVars, dataVars
<1> QED
  BY <1>1, <1>2, <1>3

LEMMA GrownInit ==
  ASSUME Init
  PROVE  GrownInv
PROOF
<1>1. Used = {}
  BY UnusedInode DEF Init, Used
<1>2. \A s \in dir : disk_length[s] = grown[s]
  BY DEF Init
<1> QED
  BY <1>1, <1>2 DEF GrownInv

LEMMA GrownNext ==
  ASSUME StructInv, GrownInv, [Next]_vars
  PROVE  GrownInv'
PROOF
<1>1. CASE UNCHANGED vars
  <2>1. Used' = Used /\ \A o : Reading(o)' <=> Reading(o)
    BY <1>1 DEF vars, procVars, Used, Reading
  <2> QED
    BY <1>1, <2>1 DEF vars, GrownInv
<1>2. ASSUME NEW p \in Procs, InodeStep(p) PROVE GrownInv'
  <2>1. CASE OpenScan(p) \/ OpenReopen(p) \/ Load(p) \/ LoadFails(p) \/ Erase(p)
               \/ CloseCount(p) \/ CloseUnlist(p) \/ ReadChunk(p)
    <3>1. Aside(p)
      BY <2>1, OpenAside, LoadAside, CloseAside, DescriptorAside
    <3> QED
      BY <3>1, GrownKept DEF Aside
  <2>2. CASE WriteLock(p) \/ WriteCopy(p) \/ WriteShow(p) \/ Advance(p)
    BY <2>2, WriteSameLengths, GrownKept
  <2>3. CASE OpenNew(p) \/ OpenRead(p) \/ WriteGrow(p) \/ CloseFlush(p)
    BY <2>3, OpenNewGrown, OpenReadGrown, WriteGrowGrown, CloseFlushGrown
  <2> QED
    BY <1>2, <2>1, <2>2, <2>3 DEF InodeStep
<1>3. ASSUME NEW p \in Procs, ExitMain(p) \/ ExitFiles(p) PROVE GrownInv'
  <2>1. Aside(p)
    BY <1>3, LoadAside, DescriptorAside
  <2> QED
    BY <2>1, GrownKept DEF Aside
<1>4. ASSUME NEW p \in Procs, NEW s \in Sectors, NEW why, Lookup(p, s, why) PROVE GrownInv'
  <2>1. Aside(p)
    BY <1>4, OpenAside
  <2> QED
    BY <2>1, GrownKept DEF Aside
<1>5. ASSUME NEW p \in Procs, NEW s \in Sectors, Create(p, s) PROVE GrownInv'
  BY <1>5, CreateGrown
<1>6. ASSUME NEW p \in Procs, NEW k, NEW n,
             Close(p, k) \/ Write(p, k, n) \/ Read(p, k, n) \/ Seek(p, k, n)
      PROVE  GrownInv'
  <2>1. Aside(p)
    BY <1>6, DescriptorAside
  <2> QED
    BY <2>1, GrownKept DEF Aside
<1> QED
  BY <1>1, <1>2, <1>3, <1>4, <1>5, <1>6 DEF Next

(* What inode_grow() has added to a file survives its last close and its next inode_open(). *)
THEOREM LengthsCorrect == Spec => []LengthInv
PROOF
<1>1. Init => (~raced => GrownInv)
  BY GrownInit
<1>2. (~raced => StructInv) /\ (~raced => GrownInv) /\ [Next]_vars => (~raced => GrownInv)'
  BY GrownNext, RacedStays
<1>3. (~raced => StructInv) /\ (~raced => GrownInv) => LengthInv
  <2> SUFFICES ASSUME ~raced, StructInv, GrownInv, NEW s \in dir
               PROVE  LET of == {o \in Used : inode[o].sector = s
                                   /\ ~\E p \in Procs : At(p, "read") /\ c[p].inode = o}
                      IN  IF of = {} THEN disk_length[s] = grown[s]
                                     ELSE \A o \in of : inode[o].length = grown[s]
    BY DEF LengthInv
  <2> DEFINE of == {o \in Used : inode[o].sector = s
                      /\ ~\E p \in Procs : At(p, "read") /\ c[p].inode = o}
  <2>1. \A o : o \in of <=> o \in Used /\ inode[o].sector = s /\ ~Reading(o)
    BY DEF Reading, At
  <2> HIDE DEF of
  <2>2. of = {} => disk_length[s] = grown[s]
    BY <2>1 DEF GrownInv
  <2>3. \A o \in of : inode[o].length = grown[s]
    BY <2>1 DEF GrownInv
  <2> QED
    BY <2>2, <2>3 DEF of
<1> QED
  BY <1>1, <1>2, <1>3, StructAlways, PTL DEF Spec

-----------------------------------------------------------------------------
(* Writers, and what readers see. *)

LEMMA OpenNewSeen ==
  ASSUME StructInv, WriterInv, ShownInv, NEW p \in Procs, OpenNew(p)
  PROVE  WriterInv' /\ ShownInv'
PROOF
<1>1. c[p].at = "new"
  BY DEF OpenNew, At
<1>2. PICK o \in Inodes :
        /\ inode[o] = Unused
        /\ open_inodes' = open_inodes \cup {o}
        /\ inode' = [inode EXCEPT ![o] = [Unused EXCEPT !.sector = c[p].sector, !.open_cnt = 1]]
        /\ tangled' = tangled \ {o}
        /\ c' = [c EXCEPT ![p].at = "read", ![p].inode = o]
  BY DEF OpenNew
<1>3. c'[p].at = "read" /\ \A q \in Procs \ {p} : c'[q] = c[q]
  BY <1>2 DEF StructInv, TypeInv, CallRecords
<1>4. o \notin Used /\ \A n \in Inodes \ {o} : inode'[n] = inode[n]
  BY <1>2, UnusedInode DEF Used, StructInv, TypeInv
<1>5. inode'[o].length = 0 /\ inode'[o].length_shown = 0
  <2> DEFINE r == [Unused EXCEPT !.sector = c[p].sector, !.open_cnt = 1]
  <2>1. c[p].sector \in Sectors
    BY <1>1 DEF StructInv, CallInv, Call, Opening, TypeInv
  <2>2. r.length = Unused.length /\ r.length_shown = Unused.length_shown
    BY <2>1, UnusedInode, FreshInode, Zenon
  <2>4. Unused.length = 0 /\ Unused.length_shown = 0
    BY UnusedInode
  <2>3. inode' = [inode EXCEPT ![o] = r] /\ inode \in [Inodes -> InodeRecords]
    BY <1>2 DEF StructInv, TypeInv
  <2> HIDE DEF r
  <2> QED
    BY <2>2, <2>3, <2>4
<1>6. \A q \in Procs : (c[q].at \in Growing \/ c'[q].at \in Growing) =>
        /\ q # p /\ c'[q] = c[q] /\ c[q].at \in Growing
        /\ c[q].inode \in Inodes /\ c[q].inode # o
        /\ inode'[c[q].inode] = inode[c[q].inode]
        /\ c[q].inode \in tangled' <=> c[q].inode \in tangled
  <2>1. \A q \in Procs : (c[q].at \in Growing \/ c'[q].at \in Growing) =>
          q # p /\ c'[q] = c[q] /\ c[q].at \in Growing
    BY <1>1, <1>3 DEF Growing
  <2>2. \A q \in Procs : c[q].at \in Growing => c[q].inode \in Inodes /\ c[q].inode # o
    BY <1>4, WriterHolds DEF Growing, Writing
  <2> QED
    BY <1>2, <1>4, <2>1, <2>2
<1>7. WriterInv'
  <2> SUFFICES ASSUME NEW q \in Procs, c'[q].at \in Growing, c'[q].inode \notin tangled'
               PROVE  /\ inode'[c'[q].inode].length =
                           IF c'[q].at = "grow" THEN c'[q].off ELSE c'[q].off + c'[q].size
                      /\ inode'[c'[q].inode].length_shown = c'[q].off
                      /\ \A r \in Procs : c'[r].at \in Growing /\ c'[r].inode = c'[q].inode => r = q
    BY DEF WriterInv
  <2>1. c'[q] = c[q] /\ c[q].inode \notin tangled /\ inode'[c[q].inode] = inode[c[q].inode]
    BY <1>6
  <2>2. \A r \in Procs : c'[r].at \in Growing /\ c'[r].inode = c'[q].inode => r = q
    BY <1>6, <2>1 DEF WriterInv
  <2> QED
    BY <2>1, <2>2 DEF WriterInv
<1>8. ShownInv'
  <2> SUFFICES ASSUME NEW n \in open_inodes', n \notin tangled',
                      \A q \in Procs : ~(c'[q].at \in Growing /\ c'[q].inode = n)
               PROVE  inode'[n].length_shown = inode'[n].length
    BY DEF ShownInv
  <2>1. CASE n = o
    BY <1>5, <2>1
  <2>2. CASE n # o
    <3>1. n \in open_inodes \ tangled /\ n \in Inodes
      BY <1>2, <2>2 DEF StructInv, TypeInv
    <3>2. \A q \in Procs : ~(c[q].at \in Growing /\ c[q].inode = n)
      BY <1>6
    <3> QED
      BY <1>4, <2>2, <3>1, <3>2 DEF ShownInv
  <2> QED
    BY <2>1, <2>2
<1> QED
  BY <1>7, <1>8

LEMMA OpenReadSeen ==
  ASSUME StructInv, WriterInv, ShownInv, NEW p \in Procs, OpenRead(p)
  PROVE  WriterInv' /\ ShownInv'
PROOF
<1> DEFINE o == c[p].inode
<1>1. /\ c[p].at = "read" /\ o \in Inodes
      /\ \A n \in Inodes \ {o} : inode'[n] = inode[n]
      /\ inode'[o].length = inode'[o].length_shown
      /\ c'[p].at \notin Growing /\ \A q \in Procs \ {p} : c'[q] = c[q]
      /\ open_inodes' = open_inodes /\ tangled' = tangled
  BY LengthRead DEF OpenRead, At, Growing, dataVars
<1>2. \A q \in Procs : (c[q].at \in Growing \/ c'[q].at \in Growing) =>
        q # p /\ c'[q] = c[q] /\ c[q].inode \in Inodes /\ c[q].inode # o
  <2>1. Reading(o)
    BY <1>1 DEF Reading
  <2>2. \A q \in Procs : c[q].at \in Growing => c[q].inode \in Inodes /\ c[q].inode # o
    BY <2>1, WriterHolds DEF Growing, Writing
  <2>3. c[p].at \notin Growing
    BY <1>1 DEF Growing
  <2> QED
    BY <1>1, <2>2, <2>3
<1> HIDE DEF o
<1>3. WriterInv'
  <2> SUFFICES ASSUME NEW q \in Procs, c'[q].at \in Growing, c'[q].inode \notin tangled'
               PROVE  /\ inode'[c'[q].inode].length =
                           IF c'[q].at = "grow" THEN c'[q].off ELSE c'[q].off + c'[q].size
                      /\ inode'[c'[q].inode].length_shown = c'[q].off
                      /\ \A r \in Procs : c'[r].at \in Growing /\ c'[r].inode = c'[q].inode => r = q
    BY DEF WriterInv
  <2>1. c'[q] = c[q] /\ c[q].inode \notin tangled /\ inode'[c[q].inode] = inode[c[q].inode]
    BY <1>1, <1>2
  <2>2. \A r \in Procs : c'[r].at \in Growing /\ c'[r].inode = c'[q].inode => r = q
    BY <1>2, <2>1 DEF WriterInv
  <2> QED
    BY <2>1, <2>2 DEF WriterInv
<1>4. ShownInv'
  <2> SUFFICES ASSUME NEW n \in open_inodes', n \notin tangled',
                      \A q \in Procs : ~(c'[q].at \in Growing /\ c'[q].inode = n)
               PROVE  inode'[n].length_shown = inode'[n].length
    BY DEF ShownInv
  <2>1. CASE n = o
    BY <1>1, <2>1
  <2>2. CASE n # o
    <3>1. n \in open_inodes \ tangled /\ n \in Inodes
      BY <1>1 DEF StructInv, TypeInv
    <3>2. \A q \in Procs : ~(c[q].at \in Growing /\ c[q].inode = n)
      BY <1>2
    <3> QED
      BY <1>1, <2>2, <3>1, <3>2 DEF ShownInv
  <2> QED
    BY <2>1, <2>2
<1> QED
  BY <1>3, <1>4, SMTT(30)

LEMMA CloseFlushSeen ==
  ASSUME StructInv, WriterInv, ShownInv, NEW p \in Procs, CloseFlush(p)
  PROVE  WriterInv' /\ ShownInv'
PROOF
<1> DEFINE o == c[p].inode
<1>1. /\ c[p].at \notin Growing /\ c'[p].at \notin Growing /\ o \notin open_inodes
      /\ \A n \in Inodes \ {o} : inode'[n] = inode[n]
      /\ \A q \in Procs \ {p} : c'[q] = c[q]
      /\ open_inodes' = open_inodes /\ tangled' = tangled
  BY InodeFreed DEF Growing, dataVars
<1>2. \A q \in Procs : (c[q].at \in Growing \/ c'[q].at \in Growing) =>
        q # p /\ c'[q] = c[q] /\ c[q].inode \in Inodes /\ c[q].inode # o
  <2>1. \A q \in Procs : c[q].at \in Growing => c[q].inode \in Inodes /\ c[q].inode # o
    BY <1>1, WriterHolds DEF Growing, Writing
  <2> QED
    BY <1>1, <2>1
<1> HIDE DEF o
<1>3. WriterInv'
  <2> SUFFICES ASSUME NEW q \in Procs, c'[q].at \in Growing, c'[q].inode \notin tangled'
               PROVE  /\ inode'[c'[q].inode].length =
                           IF c'[q].at = "grow" THEN c'[q].off ELSE c'[q].off + c'[q].size
                      /\ inode'[c'[q].inode].length_shown = c'[q].off
                      /\ \A r \in Procs : c'[r].at \in Growing /\ c'[r].inode = c'[q].inode => r = q
    BY DEF WriterInv
  <2>1. c'[q] = c[q] /\ c[q].inode \notin tangled /\ inode'[c[q].inode] = inode[c[q].inode]
    BY <1>1, <1>2
  <2>2. \A r \in Procs : c'[r].at \in Growing /\ c'[r].inode = c'[q].inode => r = q
    BY <1>2, <2>1 DEF WriterInv
  <2> QED
    BY <2>1, <2>2 DEF WriterInv
<1>4. ShownInv'
  <2> SUFFICES ASSUME NEW n \in open_inodes', n \notin tangled',
                      \A q \in Procs : ~(c'[q].at \in Growing /\ c'[q].inode = n)
               PROVE  inode'[n].length_shown = inode'[n].length
    BY DEF ShownInv
  <2>1. n \in open_inodes \ tangled /\ n \in Inodes /\ n # o
    BY <1>1 DEF StructInv, TypeInv
  <2>2. \A q \in Procs : ~(c[q].at \in Growing /\ c[q].inode = n)
    BY <1>2
  <2> QED
    BY <1>1, <2>1, <2>2 DEF ShownInv
<1> QED
  BY <1>3, <1>4

(* A step of a writer, which is alone with the file as long as that is only appended to. *)
LEMMA WriterMoved ==
  ASSUME StructInv, WriterInv, ShownInv, NEW p \in Procs, NEW o \in Inodes,
         c[p].inode = o, \A q \in Procs \ {p} : c'[q] = c[q],
         \A n \in Inodes \ {o} : /\ inode'[n].length = inode[n].length
                                 /\ inode'[n].length_shown = inode[n].length_shown,
         c'[p].at \in Growing => c'[p].inode = o,
         open_inodes' = open_inodes, tangled \subseteq tangled', tangled' \subseteq tangled \cup {o},
         o \notin tangled' =>
           /\ \A q \in Procs \ {p} : ~(c[q].at \in Growing /\ c[q].inode = o)
           /\ c'[p].at \in Growing =>
                /\ inode'[o].length =
                     IF c'[p].at = "grow" THEN c'[p].off ELSE c'[p].off + c'[p].size
                /\ inode'[o].length_shown = c'[p].off
           /\ c'[p].at \notin Growing => inode'[o].length_shown = inode'[o].length
  PROVE  WriterInv' /\ ShownInv'
PROOF
<1>1. \A q \in Procs : c[q].at \in Growing => c[q].inode \in Inodes
  BY WriterHolds DEF Growing, Writing
<1>2. WriterInv'
  <2> SUFFICES ASSUME NEW q \in Procs, c'[q].at \in Growing, c'[q].inode \notin tangled'
               PROVE  /\ inode'[c'[q].inode].length =
                           IF c'[q].at = "grow" THEN c'[q].off ELSE c'[q].off + c'[q].size
                      /\ inode'[c'[q].inode].length_shown = c'[q].off
                      /\ \A r \in Procs : c'[r].at \in Growing /\ c'[r].inode = c'[q].inode => r = q
    BY DEF WriterInv
  <2>1. CASE q = p
    <3>1. c'[q].inode = o /\ o \notin tangled'
      BY <2>1
    <3>2. \A r \in Procs : c'[r].at \in Growing /\ c'[r].inode = c'[q].inode => r = q
      BY <2>1, <3>1
    <3> QED
      BY <2>1, <3>1, <3>2
  <2>2. CASE q # p
    <3>1. c'[q] = c[q] /\ c[q].at \in Growing /\ c[q].inode \in Inodes
      BY <1>1, <2>2
    <3>2. c[q].inode # o /\ c[q].inode \notin tangled
      BY <2>2, <3>1
    <3>3. ASSUME NEW r \in Procs, c'[r].at \in Growing, c'[r].inode = c'[q].inode PROVE r = q
      <4>1. r # p
        BY <3>1, <3>2, <3>3
      <4> QED
        BY <3>1, <3>2, <3>3, <4>1 DEF WriterInv
    <3> QED
      BY <3>1, <3>2, <3>3 DEF WriterInv
  <2> QED
    BY <2>1, <2>2
<1>3. ShownInv'
  <2> SUFFICES ASSUME NEW n \in open_inodes', n \notin tangled',
                      \A q \in Procs : ~(c'[q].at \in Growing /\ c'[q].inode = n)
               PROVE  inode'[n].length_shown = inode'[n].length
    BY DEF ShownInv
  <2>1. CASE n = o
    BY <2>1
  <2>2. CASE n # o
    <3>1. n \in open_inodes \ tangled /\ n \in Inodes
      BY DEF StructInv, TypeInv
    <3>2. \A q \in Procs : ~(c[q].at \in Growing /\ c[q].inode = n)
      BY <2>2
    <3> QED
      BY <2>2, <3>1, <3>2 DEF ShownInv
  <2> QED
    BY <2>1, <2>2
<1> QED
  BY <1>2, <1>3

(* What an appending writer knows. *)
LEMMA WriterKnows ==
  ASSUME StructInv, WriterInv, NEW p \in Procs, c[p].at \in Growing, c[p].inode \notin tangled
  PROVE  /\ inode[c[p].inode].length = IF c[p].at = "grow" THEN c[p].off ELSE c[p].off + c[p].size
         /\ inode[c[p].inode].length_shown = c[p].off
         /\ c[p].off \in Nat /\ c[p].size \in Nat
         /\ \A q \in Procs \ {p} : ~(c[q].at \in Growing /\ c[q].inode = c[p].inode)
PROOF
<1>1. c[p].off \in Nat /\ c[p].size \in Nat
  BY DEF StructInv, TypeInv, CallRecords
<1> QED
  BY <1>1 DEF WriterInv

LEMMA WriteLockSeen ==
  ASSUME StructInv, WriterInv, ShownInv, NEW p \in Procs, WriteLock(p)
  PROVE  WriterInv' /\ ShownInv'
PROOF
<1> DEFINE o == c[p].inode
<1>1. /\ c[p].at = "lock" /\ o \in Inodes
      /\ \A n \in Inodes : /\ inode'[n].length = inode[n].length
                           /\ inode'[n].length_shown = inode[n].length_shown
      /\ c'[p].at = IF c[p].off + c[p].size > inode[o].length THEN "grow" ELSE "copy"
      /\ c'[p].inode = c[p].inode /\ c'[p].off = c[p].off /\ c'[p].size = c[p].size
      /\ \A q \in Procs \ {p} : c'[q] = c[q]
      /\ open_inodes' = open_inodes
  BY LockTaken
<1>2. tangled' = IF Disturbed(p) \/ c[p].off # inode[o].length
                      \/ inode[o].length_shown # inode[o].length
                   THEN tangled \cup {o} ELSE tangled
  BY DEF WriteLock
<1>3. c[p].off \in Nat /\ c[p].size \in Nat /\ c[p].size > 0
  BY <1>1 DEF StructInv, TypeInv, CallRecords, CallInv, Call
<1>4. c'[p].at \in Growing
  BY <1>1 DEF Growing
<1>5. ASSUME o \notin tangled'
      PROVE  /\ \A q \in Procs \ {p} : ~(c[q].at \in Growing /\ c[q].inode = o)
             /\ inode'[o].length = IF c'[p].at = "grow" THEN c'[p].off ELSE c'[p].off + c'[p].size
             /\ inode'[o].length_shown = c'[p].off
  <2>1. ~Disturbed(p) /\ c[p].off = inode[o].length /\ inode[o].length_shown = inode[o].length
    BY <1>2, <1>5
  <2>2. \A q \in Procs \ {p} : ~(c[q].at \in Growing /\ c[q].inode = o)
    BY <2>1 DEF Disturbed, Growing, Writing
  <2>3. c'[p].at = "grow"
    BY <1>1, <1>3, <2>1
  <2> QED
    BY <1>1, <2>1, <2>2, <2>3
<1>6. tangled \subseteq tangled' /\ tangled' \subseteq tangled \cup {o}
  BY <1>2
<1> HIDE DEF o
<1> QED
  BY <1>1, <1>4, <1>5, <1>6, WriterMoved DEF o

LEMMA WriteGrowSeen ==
  ASSUME StructInv, WriterInv, ShownInv, NEW p \in Procs, WriteGrow(p)
  PROVE  WriterInv' /\ ShownInv'
PROOF
<1> DEFINE o == c[p].inode
<1>1. /\ o \in Inodes
      /\ \A n \in Inodes : inode'[n].length_shown = inode[n].length_shown
      /\ \A n \in Inodes \ {o} : inode'[n].length = inode[n].length
      /\ inode'[o].length = c[p].off + c[p].size
      /\ c[p].at = "grow" /\ c'[p].at = "copy" /\ c'[p].inode = c[p].inode
      /\ c'[p].off = c[p].off /\ c'[p].size = c[p].size
      /\ \A q \in Procs \ {p} : c'[q] = c[q]
      /\ open_inodes' = open_inodes /\ tangled' = tangled
  BY LengthGrown
<1>2. c[p].at \in Growing /\ c'[p].at \in Growing
  BY <1>1 DEF Growing
<1>3. ASSUME o \notin tangled'
      PROVE  /\ \A q \in Procs \ {p} : ~(c[q].at \in Growing /\ c[q].inode = o)
             /\ inode'[o].length = IF c'[p].at = "grow" THEN c'[p].off ELSE c'[p].off + c'[p].size
             /\ inode'[o].length_shown = c'[p].off
  <2>1. /\ \A q \in Procs \ {p} : ~(c[q].at \in Growing /\ c[q].inode = o)
        /\ inode[o].length_shown = c[p].off
    BY <1>1, <1>2, <1>3, WriterKnows
  <2> QED
    BY <1>1, <2>1
<1> HIDE DEF o
<1> QED
  BY <1>1, <1>2, <1>3, WriterMoved DEF o

LEMMA WriteShowSeen ==
  ASSUME StructInv, WriterInv, ShownInv, NEW p \in Procs, WriteShow(p)
  PROVE  WriterInv' /\ ShownInv'
PROOF
<1> DEFINE o == c[p].inode
<1>1. /\ c[p].at = "show" /\ o \in Inodes
      /\ \A n \in Inodes : inode'[n].length = inode[n].length
      /\ \A n \in Inodes \ {o} : inode'[n].length_shown = inode[n].length_shown
      /\ inode'[o].length_shown = IF inode[o].length_shown + 1 > inode[o].length
                                    THEN inode[o].length ELSE inode[o].length_shown + 1
      /\ c'[p].at = "copy" /\ c'[p].inode = c[p].inode
      /\ c'[p].off = c[p].off + 1 /\ c'[p].size = c[p].size - 1 /\ c[p].size > 0
      /\ \A q \in Procs \ {p} : c'[q] = c[q]
      /\ open_inodes' = open_inodes /\ tangled' = tangled
  BY ChunkShown DEF dataVars
<1>2. c[p].at \in Growing /\ c'[p].at \in Growing
  BY <1>1 DEF Growing
<1>3. ASSUME o \notin tangled'
      PROVE  /\ \A q \in Procs \ {p} : ~(c[q].at \in Growing /\ c[q].inode = o)
             /\ inode'[o].length = IF c'[p].at = "grow" THEN c'[p].off ELSE c'[p].off + c'[p].size
             /\ inode'[o].length_shown = c'[p].off
  <2>1. /\ \A q \in Procs \ {p} : ~(c[q].at \in Growing /\ c[q].inode = o)
        /\ inode[o].length = c[p].off + c[p].size /\ inode[o].length_shown = c[p].off
        /\ c[p].off \in Nat /\ c[p].size \in Nat
    BY <1>1, <1>2, <1>3, WriterKnows
  <2> HIDE DEF o
  <2> QED
    BY <1>1, <2>1
<1> HIDE DEF o
<1> QED
  BY <1>1, <1>2, <1>3, WriterMoved DEF o

LEMMA WriteCopySeen ==
  ASSUME StructInv, WriterInv, ShownInv, NEW p \in Procs,
         WriteCopy(p) \/ (Advance(p) /\ c[p].at # "readin")
  PROVE  WriterInv' /\ ShownInv'
PROOF
<1> DEFINE o == c[p].inode
<1>1. /\ c[p].at = "copy" /\ inode' = inode /\ open_inodes' = open_inodes /\ tangled' = tangled
      /\ Advance(p) => c[p].size = 0
  BY DEF WriteCopy, Advance, At, dataVars
<1>2. c[p].at \in Growing /\ o \in Inodes
  BY <1>1, WriterHolds DEF Growing, Writing
<1>3. /\ \A q \in Procs \ {p} : c'[q] = c[q]
      /\ \/ /\ c'[p].at = "show" /\ c'[p].inode = c[p].inode
            /\ c'[p].off = c[p].off /\ c'[p].size = c[p].size
         \/ c'[p].at = "idle" /\ c[p].size = 0
  <2>1. c \in [Procs -> CallRecords]
    BY DEF StructInv, TypeInv
  <2>2. CASE WriteCopy(p)
    BY <2>1, <2>2 DEF WriteCopy, Goto, CallRecords
  <2>3. CASE Advance(p)
    BY <1>1, <2>1, <2>3 DEF Advance, Return, Idle
  <2> QED
    BY <2>2, <2>3
<1>4. ASSUME o \notin tangled'
      PROVE  /\ \A q \in Procs \ {p} : ~(c[q].at \in Growing /\ c[q].inode = o)
             /\ c'[p].at \in Growing =>
                  /\ inode'[o].length =
                       IF c'[p].at = "grow" THEN c'[p].off ELSE c'[p].off + c'[p].size
                  /\ inode'[o].length_shown = c'[p].off
             /\ c'[p].at \notin Growing => inode'[o].length_shown = inode'[o].length
  <2>1. /\ \A q \in Procs \ {p} : ~(c[q].at \in Growing /\ c[q].inode = o)
        /\ inode[o].length = c[p].off + c[p].size /\ inode[o].length_shown = c[p].off
        /\ c[p].off \in Nat /\ c[p].size \in Nat
    BY <1>1, <1>2, <1>4, WriterKnows
  <2> HIDE DEF o
  <2>2. CASE c'[p].at = "show"
    BY <1>1, <1>3, <2>1, <2>2 DEF Growing
  <2>3. CASE c'[p].at = "idle"
    BY <1>1, <1>3, <2>1, <2>3 DEF Growing
  <2> QED
    BY <1>3, <2>2, <2>3
<1>5. c'[p].at \in Growing => c'[p].inode = o
  BY <1>3 DEF Growing
<1> HIDE DEF o
<1> QED
  BY <1>1, <1>2, <1>3, <1>4, <1>5, WriterMoved DEF o

LEMMA ShownNext ==
  ASSUME StructInv, WriterInv, ShownInv, [Next]_vars
  PROVE  WriterInv' /\ ShownInv'
PROOF
<1>1. CASE UNCHANGED vars
  BY <1>1 DEF vars, procVars, WriterInv, ShownInv
<1>2. ASSUME NEW p \in Procs, InodeStep(p) PROVE WriterInv' /\ ShownInv'
  <2>1. CASE \/ OpenScan(p) \/ OpenReopen(p) \/ Load(p) \/ LoadFails(p) \/ Erase(p)
             \/ CloseCount(p) \/ CloseUnlist(p) \/ ReadChunk(p) \/ (Advance(p) /\ c[p].at = "readin")
    <3>1. Aside(p)
      BY <2>1, OpenAside, LoadAside, CloseAside, DescriptorAside
    <3> QED
      BY <3>1, ShownKept DEF Aside
  <2>2. CASE OpenNew(p) \/ OpenRead(p) \/ CloseFlush(p)
    BY <2>2, OpenNewSeen, OpenReadSeen, CloseFlushSeen
  <2>3. CASE WriteLock(p) \/ WriteGrow(p) \/ WriteShow(p)
    BY <2>3, WriteLockSeen, WriteGrowSeen, WriteShowSeen
  <2>4. CASE WriteCopy(p) \/ (Advance(p) /\ c[p].at # "readin")
    BY <2>4, WriteCopySeen
  <2> QED
    BY <1>2, <2>1, <2>2, <2>3, <2>4 DEF InodeStep
<1>3. ASSUME NEW p \in Procs, NEW k, NEW n,
             \/ ExitMain(p) \/ ExitFiles(p)
             \/ Close(p, k) \/ Write(p, k, n) \/ Read(p, k, n) \/ Seek(p, k, n)
      PROVE  WriterInv' /\ ShownInv'
  <2>1. Aside(p)
    BY <1>3, LoadAside, DescriptorAside
  <2> QED
    BY <2>1, ShownKept DEF Aside
<1>4. ASSUME NEW p \in Procs, NEW s \in Sectors, NEW why, Lookup(p, s, why)
      PROVE  WriterInv' /\ ShownInv'
  <2>1. Aside(p)
    BY <1>4, OpenAside
  <2> QED
    BY <2>1, ShownKept DEF Aside
<1>5. ASSUME NEW p \in Procs, NEW s \in Sectors, Create(p, s) PROVE WriterInv' /\ ShownInv'
  BY <1>5 DEF Create, procVars, WriterInv, ShownInv
<1> QED
  BY <1>1, <1>2, <1>3, <1>4, <1>5 DEF Next

(* inode_write_at() shows a chunk to inode_read_at() after it has copied it, and all in the end. *)
THEOREM AppendsCorrect == Spec => []AppendInv
PROOF
<1>1. Init => (~raced => WriterInv /\ ShownInv)
  BY DEF Init, WriterInv, ShownInv, Growing, Idle
<1>2. (~raced => StructInv) /\ (~raced => WriterInv /\ ShownInv) /\ [Next]_vars
        => (~raced => WriterInv /\ ShownInv)'
  BY ShownNext, RacedStays
<1>3. (~raced => StructInv) /\ (~raced => WriterInv /\ ShownInv) => AppendInv
  <2> SUFFICES ASSUME WriterInv, ShownInv, NEW o \in open_inodes \ tangled
               PROVE  LET writers == {p \in Procs : c[p].at \in {"grow", "copy", "show"} /\ c[p].inode = o}
                      IN  IF writers = {} THEN inode[o].length_shown = inode[o].length
                                          ELSE \A p \in writers : inode[o].length_shown = c[p].off
    BY DEF AppendInv
  <2> DEFINE writers == {p \in Procs : c[p].at \in {"grow", "copy", "show"} /\ c[p].inode = o}
  <2>1. \A p : p \in writers <=> p \in Procs /\ c[p].at \in Growing /\ c[p].inode = o
    BY DEF Growing
  <2> HIDE DEF writers
  <2>2. writers = {} => inode[o].length_shown = inode[o].length
    BY <2>1 DEF ShownInv
  <2>3. \A p \in writers : inode[o].length_shown = c[p].off
    BY <2>1 DEF WriterInv
  <2> QED
    BY <2>2, <2>3 DEF writers
<1> QED
  BY <1>1, <1>2, <1>3, StructAlways, PTL DEF Spec
=============================================================================

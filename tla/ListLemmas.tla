----------------------------- MODULE ListLemmas ------------------------------
(***************************************************************************)
(* What the operations on the kernel's lists (lib/kernel/list.c) do to the *)
(* elements of a list: used by every proof about lists of threads, frames, *)
(* cache entries or semaphore waiters.                                     *)
(***************************************************************************)
EXTENDS Integers, SequencesExt, SequenceTheorems, WellFoundedInduction, TLAPS

(* A search through a list has a first hit if it has one at all. *)
LEMMA LeastNat ==
  ASSUME NEW T, T \subseteq Nat, T # {}
  PROVE  \E x \in T : \A y \in T : x <= y
PROOF
<1> DEFINE R == {ss \in Nat \X Nat : ss[1] < ss[2]}
<1>1. IsWellFoundedOn(R, Nat)
  BY NatLessThanWellFounded, Zenon DEF OpToRel
<1> HIDE DEF R
<1>2. PICK x \in T : \A y \in T : ~(<<y, x>> \in R)
  BY <1>1, WFMin
<1>3. ASSUME NEW y \in T PROVE x <= y
  <2>1. x \in Nat /\ y \in Nat /\ <<y, x>> \in Nat \X Nat
    OBVIOUS
  <2>2. ~(y < x)
    BY <1>2, <2>1 DEF R
  <2> QED
    BY <2>1, <2>2
<1> QED
  BY <1>3

(* The first element of a list leaves and nothing else changes. *)
LEMMA HeadTailRange ==
  ASSUME NEW S, NEW s \in Seq(S), s # <<>>
  PROVE  /\ Head(s) \in S
         /\ Head(s) \in Range(s)
         /\ Tail(s) \in Seq(S)
         /\ Range(s) = Range(Tail(s)) \cup {Head(s)}
         /\ IsInjective(s) => IsInjective(Tail(s)) /\ Head(s) \notin Range(Tail(s))
PROOF
<1>1. /\ Len(s) \in Nat /\ Len(s) >= 1 /\ DOMAIN s = 1 .. Len(s)
      /\ Head(s) = s[1]
  BY EmptySeq, LenProperties
<1>2. /\ Head(s) \in S /\ Tail(s) \in Seq(S) /\ Len(Tail(s)) = Len(s) - 1
      /\ DOMAIN Tail(s) = 1 .. (Len(s) - 1)
      /\ \A i \in 1 .. (Len(s) - 1) : Tail(s)[i] = s[i + 1]
  BY HeadTailProperties, LenProperties
<1>3. Head(s) \in Range(s)
  BY <1>1 DEF Range
<1>4. ASSUME NEW x \in Range(Tail(s)) PROVE x \in Range(s)
  <2>1. PICK i \in 1 .. (Len(s) - 1) : x = Tail(s)[i]
    BY <1>2 DEF Range
  <2>2. i + 1 \in DOMAIN s /\ x = s[i + 1]
    BY <1>1, <1>2, <2>1
  <2> QED
    BY <2>2 DEF Range
<1>5. ASSUME NEW x \in Range(s), x # Head(s) PROVE x \in Range(Tail(s))
  <2>1. PICK i \in 1 .. Len(s) : x = s[i]
    BY <1>1 DEF Range
  <2>2. i # 1
    BY <1>1, <1>5, <2>1
  <2>3. i - 1 \in DOMAIN Tail(s) /\ x = Tail(s)[i - 1]
    BY <1>1, <1>2, <2>1, <2>2
  <2> QED
    BY <2>3 DEF Range
<1>6. ASSUME IsInjective(s)
      PROVE  IsInjective(Tail(s)) /\ Head(s) \notin Range(Tail(s))
  <2>1. \A a, b \in 1 .. (Len(s) - 1) : Tail(s)[a] = Tail(s)[b] => a = b
    BY <1>1, <1>2, <1>6 DEF IsInjective
  <2>2. \A a \in 1 .. (Len(s) - 1) : Tail(s)[a] # Head(s)
    BY <1>1, <1>2, <1>6 DEF IsInjective
  <2> QED
    BY <1>2, <2>1, <2>2 DEF IsInjective, Range
<1> QED
  BY <1>2, <1>3, <1>4, <1>5, <1>6

(* list_push_back() adds one element. *)
LEMMA AppendRange ==
  ASSUME NEW S, NEW s \in Seq(S), NEW e \in S
  PROVE  /\ Append(s, e) \in Seq(S)
         /\ Range(Append(s, e)) = Range(s) \cup {e}
         /\ IsInjective(s) /\ e \notin Range(s) => IsInjective(Append(s, e))
PROOF
<1> DEFINE a == Append(s, e)
<1>1. Len(s) \in Nat /\ DOMAIN s = 1 .. Len(s)
  BY LenProperties
<1>2. /\ a \in Seq(S) /\ Len(a) = Len(s) + 1
      /\ \A i \in 1 .. Len(s) : a[i] = s[i]
      /\ a[Len(s) + 1] = e
      /\ DOMAIN a = 1 .. (Len(s) + 1)
  BY AppendProperties, LenProperties
<1> HIDE DEF a
<1>3. ASSUME NEW x \in Range(s) \cup {e} PROVE x \in Range(a)
  <2>1. CASE x = e
    BY <1>1, <1>2, <2>1 DEF Range
  <2>2. CASE x \in Range(s)
    <3>1. PICK i \in 1 .. Len(s) : x = s[i]
      BY <1>1, <2>2 DEF Range
    <3> QED
      BY <1>1, <1>2, <3>1 DEF Range
  <2> QED
    BY <2>1, <2>2
<1>4. ASSUME NEW x \in Range(a) PROVE x \in Range(s) \cup {e}
  <2>1. PICK i \in 1 .. (Len(s) + 1) : x = a[i]
    BY <1>2 DEF Range
  <2>2. i \in 1 .. Len(s) \/ i = Len(s) + 1
    BY <1>1
  <2> QED
    BY <1>1, <1>2, <2>1, <2>2 DEF Range
<1>5. ASSUME IsInjective(s), e \notin Range(s) PROVE IsInjective(a)
  <2>1. \A i \in 1 .. Len(s) : s[i] # e
    BY <1>1, <1>5 DEF Range
  <2>2. \A i, j \in 1 .. Len(s) : s[i] = s[j] => i = j
    BY <1>1, <1>5 DEF IsInjective
  <2>3. \A i, j \in 1 .. (Len(s) + 1) : a[i] = a[j] => i = j
    BY <1>1, <1>2, <2>1, <2>2
  <2> QED
    BY <1>2, <2>3 DEF IsInjective
<1> QED
  BY <1>2, <1>3, <1>4, <1>5 DEF a

(* list_insert() before position i adds one element. *)
LEMMA InsertAtElements ==
  ASSUME NEW S, NEW s \in Seq(S), NEW e \in S, NEW i \in 1 .. (Len(s) + 1)
  PROVE  /\ InsertAt(s, i, e) \in Seq(S)
         /\ Len(InsertAt(s, i, e)) = Len(s) + 1
         /\ \A j \in 1 .. (Len(s) + 1) :
              InsertAt(s, i, e)[j] = IF j < i THEN s[j]
                                     ELSE IF j = i THEN e ELSE s[j - 1]
PROOF
<1> DEFINE p == SubSeq(s, 1, i - 1)
           q == SubSeq(s, i, Len(s))
           m == p \o <<e>>
<1>1. Len(s) \in Nat /\ \A k \in 1 .. Len(s) : s[k] \in S
  BY LenProperties, ElementOfSeq
<1>2. /\ p \in Seq(S) /\ Len(p) = i - 1
      /\ \A k \in 1 .. (i - 1) : p[k] = s[k]
  <2>1. \A k \in 1 .. (i - 1) : s[k] \in S
    BY <1>1
  <2>2. /\ p \in Seq(S) /\ Len(p) = IF 1 <= i - 1 THEN i - 1 - 1 + 1 ELSE 0
        /\ \A k \in 1 .. (i - 1 - 1 + 1) : p[k] = s[1 + k - 1]
    BY <1>1, <2>1, SubSeqProperties, i - 1 \in Int
  <2> QED
    BY <1>1, <2>2
<1>3. /\ q \in Seq(S) /\ Len(q) = Len(s) - i + 1
      /\ \A k \in 1 .. (Len(s) - i + 1) : q[k] = s[i + k - 1]
  <2>1. \A k \in i .. Len(s) : s[k] \in S
    BY <1>1
  <2>2. /\ q \in Seq(S) /\ Len(q) = IF i <= Len(s) THEN Len(s) - i + 1 ELSE 0
        /\ \A k \in 1 .. (Len(s) - i + 1) : q[k] = s[i + k - 1]
    BY <1>1, <2>1, SubSeqProperties, i \in Int, Len(s) \in Int
  <2> QED
    BY <1>1, <2>2
<1>4. /\ <<e>> \in Seq(S) /\ Len(<<e>>) = 1 /\ <<e>>[1] = e
  OBVIOUS
<1> HIDE DEF p, q
<1>5. /\ m \in Seq(S) /\ Len(m) = i
      /\ \A k \in 1 .. i : m[k] = IF k <= i - 1 THEN p[k] ELSE e
  <2>1. /\ m \in Seq(S) /\ Len(m) = Len(p) + Len(<<e>>)
        /\ \A k \in 1 .. Len(p) + Len(<<e>>) :
             m[k] = IF k <= Len(p) THEN p[k] ELSE <<e>>[k - Len(p)]
    BY <1>2, <1>4, ConcatProperties
  <2>2. Len(p) + Len(<<e>>) = i
    BY <1>1, <1>2, <1>4
  <2>3. ASSUME NEW k \in 1 .. i PROVE m[k] = IF k <= i - 1 THEN p[k] ELSE e
    <3>1. CASE k <= i - 1
      BY <1>1, <1>2, <2>1, <2>2, <3>1
    <3>2. CASE k = i
      <4>1. k - Len(p) = 1
        BY <1>1, <1>2, <3>2
      <4> QED
        BY <1>1, <1>2, <1>4, <2>1, <2>2, <3>2, <4>1
    <3>3. k <= i - 1 \/ k = i
      BY <1>1
    <3> QED
      BY <3>1, <3>2, <3>3
  <2> QED
    BY <2>1, <2>2, <2>3
<1> HIDE DEF m
<1>6. /\ m \o q \in Seq(S) /\ Len(m \o q) = Len(s) + 1
      /\ \A k \in 1 .. (Len(s) + 1) :
           (m \o q)[k] = IF k <= i THEN m[k] ELSE q[k - i]
  <2>1. /\ m \o q \in Seq(S) /\ Len(m \o q) = Len(m) + Len(q)
        /\ \A k \in 1 .. Len(m) + Len(q) :
             (m \o q)[k] = IF k <= Len(m) THEN m[k] ELSE q[k - Len(m)]
    BY <1>3, <1>5, ConcatProperties
  <2>2. Len(m) + Len(q) = Len(s) + 1
    BY <1>1, <1>3, <1>5
  <2> QED
    BY <1>5, <2>1, <2>2
<1>7. InsertAt(s, i, e) = m \o q
  BY DEF InsertAt, m, p, q
<1>8. ASSUME NEW j \in 1 .. (Len(s) + 1)
      PROVE  (m \o q)[j] = IF j < i THEN s[j] ELSE IF j = i THEN e ELSE s[j - 1]
  <2>1. CASE j < i
    BY <1>1, <1>2, <1>5, <1>6, <2>1
  <2>2. CASE j = i
    BY <1>1, <1>5, <1>6, <2>2
  <2>3. CASE j > i
    <3>1. j - i \in 1 .. (Len(s) - i + 1) /\ i + (j - i) - 1 = j - 1
      BY <1>1, <2>3
    <3>2. q[j - i] = s[j - 1]
      BY <1>3, <3>1
    <3> QED
      BY <1>1, <1>6, <2>3, <3>2
  <2>4. j < i \/ j = i \/ j > i
    BY <1>1
  <2> QED
    BY <2>1, <2>2, <2>3, <2>4
<1> QED
  BY <1>6, <1>7, <1>8

LEMMA InsertAtRange ==
  ASSUME NEW S, NEW s \in Seq(S), NEW e \in S, NEW i \in 1 .. (Len(s) + 1)
  PROVE  /\ InsertAt(s, i, e) \in Seq(S)
         /\ Range(InsertAt(s, i, e)) = Range(s) \cup {e}
         /\ IsInjective(s) /\ e \notin Range(s) => IsInjective(InsertAt(s, i, e))
PROOF
<1> DEFINE a == InsertAt(s, i, e)
<1>1. Len(s) \in Nat /\ DOMAIN s = 1 .. Len(s)
  BY LenProperties
<1>2. /\ a \in Seq(S) /\ Len(a) = Len(s) + 1
      /\ \A j \in 1 .. (Len(s) + 1) :
           a[j] = IF j < i THEN s[j] ELSE IF j = i THEN e ELSE s[j - 1]
  BY InsertAtElements
<1>3. DOMAIN a = 1 .. (Len(s) + 1)
  BY <1>2, LenProperties
<1> HIDE DEF a
<1>4. ASSUME NEW x \in Range(s) \cup {e} PROVE x \in Range(a)
  <2>1. CASE x = e
    BY <1>1, <1>2, <1>3, <2>1 DEF Range
  <2>2. CASE x \in Range(s)
    <3>1. PICK k \in 1 .. Len(s) : x = s[k]
      BY <1>1, <2>2 DEF Range
    <3>2. CASE k < i
      <4>1. k \in 1 .. (Len(s) + 1) /\ a[k] = x
        BY <1>1, <1>2, <3>1, <3>2
      <4> QED
        BY <1>3, <4>1 DEF Range
    <3>3. CASE k >= i
      <4>1. k + 1 \in 1 .. (Len(s) + 1) /\ k + 1 > i /\ (k + 1) - 1 = k
        BY <1>1, <3>1, <3>3
      <4>2. a[k + 1] = x
        BY <1>1, <1>2, <3>1, <4>1
      <4> QED
        BY <1>3, <4>1, <4>2 DEF Range
    <3> QED
      BY <1>1, <3>2, <3>3
  <2> QED
    BY <2>1, <2>2
<1>5. ASSUME NEW x \in Range(a) PROVE x \in Range(s) \cup {e}
  <2>1. PICK k \in 1 .. (Len(s) + 1) : x = a[k]
    BY <1>3 DEF Range
  <2>2. CASE k < i
    <3>1. k \in DOMAIN s /\ x = s[k]
      BY <1>1, <1>2, <2>1, <2>2
    <3> QED
      BY <3>1 DEF Range
  <2>3. CASE k = i
    BY <1>1, <1>2, <2>1, <2>3
  <2>4. CASE k > i
    <3>1. k - 1 \in DOMAIN s /\ x = s[k - 1]
      BY <1>1, <1>2, <2>1, <2>4
    <3> QED
      BY <3>1 DEF Range
  <2> QED
    BY <1>1, <2>2, <2>3, <2>4
<1>6. ASSUME IsInjective(s), e \notin Range(s) PROVE IsInjective(a)
  <2>1. \A k \in 1 .. Len(s) : s[k] # e
    BY <1>1, <1>6 DEF Range
  <2>2. \A k, l \in 1 .. Len(s) : s[k] = s[l] => k = l
    BY <1>1, <1>6 DEF IsInjective
  <2>3. \A k, l \in 1 .. (Len(s) + 1) : a[k] = a[l] => k = l
    BY <1>1, <1>2, <2>1, <2>2, SMTT(30)
  <2> QED
    BY <1>3, <2>3 DEF IsInjective
<1> QED
  BY <1>2, <1>4, <1>5, <1>6 DEF a
(* list_remove() unlinks one element; the others keep their order. *)
LEMMA RemoveAtElements ==
  ASSUME NEW S, NEW s \in Seq(S), NEW i \in 1 .. Len(s)
  PROVE  /\ RemoveAt(s, i) \in Seq(S)
         /\ Len(RemoveAt(s, i)) = Len(s) - 1
         /\ \A j \in 1 .. (Len(s) - 1) :
              RemoveAt(s, i)[j] = IF j < i THEN s[j] ELSE s[j + 1]
PROOF
<1> DEFINE p == SubSeq(s, 1, i - 1)
           q == SubSeq(s, i + 1, Len(s))
<1>1. Len(s) \in Nat /\ i \in Nat /\ i <= Len(s) /\ 1 <= i
  OBVIOUS
<1>2. p \in Seq(S) /\ Len(p) = i - 1 /\ \A k \in 1 .. (i - 1) : p[k] = s[k]
  BY <1>1
<1>3. q \in Seq(S) /\ Len(q) = Len(s) - i /\ \A k \in 1 .. (Len(s) - i) : q[k] = s[k + i]
  <2>1. CASE i = Len(s)
    BY <1>1, <2>1
  <2>2. CASE i < Len(s)
    BY <1>1, <2>2
  <2> QED
    BY <1>1, <2>1, <2>2
<1> HIDE DEF p, q
<1>4. p \o q \in Seq(S) /\ Len(p \o q) = Len(s) - 1
  <2>1. p \o q \in Seq(S) /\ Len(p \o q) = Len(p) + Len(q)
    BY <1>2, <1>3, ConcatProperties
  <2> QED
    BY <1>1, <1>2, <1>3, <2>1
<1>5. ASSUME NEW j \in 1 .. (Len(s) - 1)
      PROVE  (p \o q)[j] = IF j < i THEN s[j] ELSE s[j + 1]
  <2>1. CASE j < i
    BY <1>1, <1>2, <1>3, <2>1
  <2>2. CASE ~(j < i)
    <3>1. (p \o q)[j] = q[j - (i - 1)]
      BY <1>1, <1>2, <1>3, <2>2
    <3>2. j - (i - 1) \in 1 .. (Len(s) - i) /\ (j - (i - 1)) + i = j + 1
      BY <1>1, <2>2
    <3> QED
      BY <1>3, <2>2, <3>1, <3>2
  <2> QED
    BY <2>1, <2>2
<1>6. RemoveAt(s, i) = p \o q
  BY DEF RemoveAt, p, q
<1> QED
  BY <1>4, <1>5, <1>6

LEMMA RemoveAtRange ==
  ASSUME NEW S, NEW s \in Seq(S), NEW i \in 1 .. Len(s), IsInjective(s)
  PROVE  /\ RemoveAt(s, i) \in Seq(S)
         /\ Range(RemoveAt(s, i)) = Range(s) \ {s[i]}
         /\ IsInjective(RemoveAt(s, i))
PROOF
<1> DEFINE r == RemoveAt(s, i)
<1>1. Len(s) \in Nat /\ DOMAIN s = 1 .. Len(s)
  OBVIOUS
<1>2. r \in Seq(S) /\ DOMAIN r = 1 .. (Len(s) - 1)
  BY RemoveAtElements
<1>3. \A j \in 1 .. (Len(s) - 1) : r[j] = IF j < i THEN s[j] ELSE s[j + 1]
  BY RemoveAtElements
<1> HIDE DEF r
<1>4. \A a, b \in 1 .. Len(s) : s[a] = s[b] => a = b
  BY <1>1 DEF IsInjective
<1>5. ASSUME NEW x \in Range(r) PROVE x \in Range(s) \ {s[i]}
  <2>1. PICK j \in 1 .. (Len(s) - 1) : x = r[j]
    BY <1>2 DEF Range
  <2>2. PICK k \in 1 .. Len(s) : x = s[k] /\ k # i
    BY <1>1, <1>3, <2>1
  <2> QED
    BY <1>1, <1>4, <2>2 DEF Range
<1>6. ASSUME NEW x \in Range(s) \ {s[i]} PROVE x \in Range(r)
  <2>1. PICK k \in 1 .. Len(s) : x = s[k] /\ k # i
    BY <1>1 DEF Range
  <2>2. CASE k < i
    BY <1>1, <1>2, <1>3, <2>1, <2>2 DEF Range
  <2>3. CASE k > i
    <3>1. k - 1 \in 1 .. (Len(s) - 1) /\ ~(k - 1 < i) /\ (k - 1) + 1 = k
      BY <1>1, <2>3
    <3>2. r[k - 1] = x
      BY <1>3, <2>1, <3>1
    <3> QED
      BY <1>2, <3>1, <3>2 DEF Range
  <2> QED
    BY <1>1, <2>1, <2>2, <2>3
<1>7. \A a, b \in 1 .. (Len(s) - 1) : r[a] = r[b] => a = b
  <2> SUFFICES ASSUME NEW a \in 1 .. (Len(s) - 1), NEW b \in 1 .. (Len(s) - 1), r[a] = r[b]
               PROVE  a = b
    OBVIOUS
  <2>1. r[a] = (IF a < i THEN s[a] ELSE s[a + 1]) /\ r[b] = (IF b < i THEN s[b] ELSE s[b + 1])
    BY <1>3
  <2>2. a + 1 \in 1 .. Len(s) /\ b + 1 \in 1 .. Len(s) /\ a \in 1 .. Len(s) /\ b \in 1 .. Len(s)
    BY <1>1
  <2>3. CASE a < i /\ b < i
    BY <1>4, <2>1, <2>2, <2>3
  <2>4. CASE ~(a < i) /\ ~(b < i)
    <3>1. a + 1 = b + 1
      BY <1>4, <2>1, <2>2, <2>4
    <3> QED
      BY <3>1
  <2>5. CASE a < i /\ ~(b < i)
    <3>1. a = b + 1
      BY <1>4, <2>1, <2>2, <2>5
    <3> QED
      BY <1>1, <2>5, <3>1
  <2>6. CASE ~(a < i) /\ b < i
    <3>1. a + 1 = b
      BY <1>4, <2>1, <2>2, <2>6
    <3> QED
      BY <1>1, <2>6, <3>1
  <2> QED
    BY <2>3, <2>4, <2>5, <2>6
<1> QED
  BY <1>2, <1>5, <1>6, <1>7 DEF IsInjective, r

LEMMA RemoveFirstRange ==
  ASSUME NEW S, NEW s \in Seq(S), NEW e \in Range(s), IsInjective(s)
  PROVE  /\ RemoveFirst(s, e) \in Seq(S)
         /\ Range(RemoveFirst(s, e)) = Range(s) \ {e}
         /\ IsInjective(RemoveFirst(s, e))
PROOF
<1> DEFINE I == {i \in 1 .. Len(s) : s[i] = e}
<1>1. I # {} /\ I \subseteq Nat /\ \E i \in 1 .. Len(s) : s[i] = e
  BY DEF Range
<1>2. \E x \in I : \A y \in I : x <= y
  BY <1>1, LeastNat
<1>3. Min(I) \in I
  BY <1>2 DEF Min
<1>4. RemoveFirst(s, e) = RemoveAt(s, Min(I))
  BY <1>1 DEF RemoveFirst, SelectInSeq
<1> HIDE DEF I
<1>5. PICK i \in 1 .. Len(s) : s[i] = e /\ RemoveFirst(s, e) = RemoveAt(s, i)
  BY <1>3, <1>4 DEF I
<1> QED
  BY <1>5, RemoveAtRange
=============================================================================

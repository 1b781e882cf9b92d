---------------------------- MODULE DListProofs ----------------------------
(***************************************************************************)
(* Proofs about DList, for any number of elements: both directions of the  *)
(* list reach every element once, dlist_sort sorts, iterator_reject deals  *)
(* with each element once though it deletes under its iterator, and the    *)
(* list is the sequence DListPromise has it be.                            *)
(*                                                                         *)
(* What there is to say is said of the order of the cells: the sequence    *)
(* that the links, the ends and the length all agree with.                 *)
(***************************************************************************)
EXTENDS DList, SequenceTheorems, FiniteSetTheorems, WellFoundedInduction, TLAPS

\* Naturals are well ordered, stated without an operator parameter: the way the
\* proofs below do induction is by a least counterexample.
LEMMA LeastElement ==
  \A T \in SUBSET Nat : T # {} => \E n \in T : \A m \in T : n <= m
<1> SUFFICES ASSUME NEW T \in SUBSET Nat, T # {}
             PROVE  \E n \in T : \A m \in T : n <= m
  OBVIOUS
<1> DEFINE Below == {1 .. n : n \in T}
<1>1. Below # {}
  OBVIOUS
<1>2. Below \subseteq FiniteSubsetsOf(Nat)
  <2>1. \A n \in T : 1 .. n \subseteq Nat /\ IsFiniteSet(1 .. n)
    <3> TAKE n \in T
    <3>1. 1 \in Int /\ n \in Int
      OBVIOUS
    <3> QED
      BY <3>1, FS_Interval
  <2> QED
    BY <2>1, Zenon DEF FiniteSubsetsOf
<1>3. IsWellFoundedOn(StrictSubsetOrdering(Nat), FiniteSubsetsOf(Nat))
  BY FS_StrictSubsetOrderingWellFounded
<1> HIDE DEF Below
<1>4. PICK b \in Below : \A a \in Below : <<a, b>> \notin StrictSubsetOrdering(Nat)
  BY <1>1, <1>2, <1>3, WFMin
<1>5. PICK n \in T : b = 1 .. n
  BY DEF Below
<1>6. ASSUME NEW m \in T, m < n PROVE FALSE
  <2>1. 1 .. m \in Below
    BY DEF Below
  <2>2. n \in 1 .. n /\ n \notin 1 .. m /\ 1 .. m \subseteq 1 .. n
    BY <1>6
  <2>3. <<1 .. m, 1 .. n>> \in StrictSubsetOrdering(Nat)
    BY <2>2 DEF StrictSubsetOrdering
  <2> QED
    BY <1>4, <1>5, <2>1, <2>3
<1> QED
  BY <1>6

At(o, i) == IF i \in 1 .. Len(o) THEN o[i] ELSE Null

Distinct(o) == \A i, j \in 1 .. Len(o) : o[i] = o[j] => i = j

\* The order of the cells of the list
Linked(o) ==
  /\ o \in Seq(Cells)
  /\ Distinct(o)
  /\ live = {o[i] : i \in 1 .. Len(o)}
  /\ length = Len(o)
  /\ head = At(o, 1) /\ tail = At(o, Len(o))
  /\ \A i \in 1 .. Len(o) : next[o[i]] = At(o, i + 1) /\ prev[o[i]] = At(o, i - 1)

-----------------------------------------------------------------------------
(* What Walk meets *)

\* A sequence of distinct cells is no longer than there are cells.
LEMMA DistinctIsShort ==
  ASSUME NEW o \in Seq(Cells), Distinct(o)
  PROVE  Len(o) \in 0 .. Cardinality(Cells)
<1>1. o \in [1 .. Len(o) -> Cells] /\ Len(o) \in Nat /\ DOMAIN o = 1 .. Len(o)
  BY LenProperties
<1>2. o \in Injection(1 .. Len(o), Cells)
  BY <1>1 DEF Distinct, Injection, IsInjective
<1>3. Cardinality(1 .. Len(o)) <= Cardinality(Cells)
  BY <1>2, CellsAssumption, FS_Injection
<1>4. Cardinality(1 .. Len(o)) = Len(o)
  <2>1. 1 \in Int /\ Len(o) \in Int
    BY <1>1
  <2>2. Cardinality(1 .. Len(o)) = IF 1 > Len(o) THEN 0 ELSE Len(o) - 1 + 1
    BY <2>1, FS_Interval
  <2> QED
    BY <1>1, <2>2
<1> QED
  BY <1>1, <1>3, <1>4, CellsAssumption, FS_CardinalityType

\* Following links that go along an order of cells gives that order.
LEMMA WalkMeets ==
  \A o \in Seq(Cells) : \A link, from :
    (/\ Distinct(o) /\ from = At(o, 1)
     /\ \A i \in 1 .. Len(o) : link[o[i]] = At(o, i + 1))
      => Walk(link, from) = o
<1> SUFFICES ASSUME NEW o \in Seq(Cells), NEW link, NEW from,
                    Distinct(o), from = At(o, 1),
                    \A i \in 1 .. Len(o) : link[o[i]] = At(o, i + 1)
             PROVE  Walk(link, from) = o
  OBVIOUS
<1> DEFINE N == Cardinality(Cells)
           Meets(f) == f = [i \in 1 .. N |->
                              IF i = 1 THEN from
                              ELSE IF f[i - 1] = Null THEN Null ELSE link[f[i - 1]]]
           met == [i \in 1 .. N |-> At(o, i)]
<1>1. /\ Len(o) \in 0 .. N /\ N \in Nat
      /\ o \in [1 .. Len(o) -> Cells]
  BY DistinctIsShort, LenProperties, CellsAssumption, FS_CardinalityType
<1>2. \A i \in Nat \ {0} : At(o, i) = Null <=> i > Len(o)
  BY <1>1, NullAssumption DEF At
<1>3. \A i \in 2 .. N : At(o, i) = IF At(o, i - 1) = Null THEN Null ELSE link[At(o, i - 1)]
  <2> TAKE i \in 2 .. N
  <2>1. CASE i - 1 <= Len(o)
    <3>1. i - 1 \in 1 .. Len(o) /\ i - 1 + 1 = i
      BY <1>1, <2>1
    <3>2. At(o, i - 1) = o[i - 1] /\ At(o, i - 1) # Null
      BY <1>1, <1>2, <3>1 DEF At
    <3> QED
      BY <3>1, <3>2
  <2>2. CASE i - 1 > Len(o)
    BY <1>1, <1>2, <2>2
  <2> QED
    BY <1>1, <2>1, <2>2
<1>4. Meets(met)
  <2>1. \A i \in 1 .. N : met[i] = IF i = 1 THEN from
                                   ELSE IF met[i - 1] = Null THEN Null ELSE link[met[i - 1]]
    <3> TAKE i \in 1 .. N
    <3>1. CASE i = 1
      BY <3>1
    <3>2. CASE i # 1
      <4>1. i \in 2 .. N /\ i - 1 \in 1 .. N
        BY <1>1, <3>2
      <4> QED
        BY <1>3, <3>2, <4>1
    <3> QED
      BY <3>1, <3>2
  <2> QED
    BY <2>1
<1> HIDE DEF met
<1>5. \A f : Meets(f) => f = met
  <2> SUFFICES ASSUME NEW f, Meets(f) PROVE f = met
    OBVIOUS
  <2> DEFINE differ == {i \in 1 .. N : f[i] # met[i]}
  <2>1. differ = {}
    <3> SUFFICES ASSUME differ # {} PROVE FALSE
      OBVIOUS
    <3>1. differ \in SUBSET Nat
      BY <1>1
    <3>2. PICK i \in differ : \A j \in differ : i <= j
      BY <3>1, LeastElement
    <3>3. i \in 1 .. N /\ f[i] # met[i]
      OBVIOUS
    <3>4. /\ f[i] = IF i = 1 THEN from ELSE IF f[i - 1] = Null THEN Null ELSE link[f[i - 1]]
          /\ met[i] = IF i = 1 THEN from ELSE IF met[i - 1] = Null THEN Null ELSE link[met[i - 1]]
      BY <1>4, <3>3
    <3>5. i # 1 => i - 1 \in 1 .. N /\ ~(i <= i - 1)
      BY <1>1, <3>3
    <3>6. i # 1 => f[i - 1] = met[i - 1]
      BY <3>2, <3>5
    <3> QED
      BY <3>3, <3>4, <3>6
  <2>2. f = [i \in 1 .. N |-> f[i]]
    OBVIOUS
  <2>3. met = [i \in 1 .. N |-> met[i]]
    BY DEF met
  <2>4. \A i \in 1 .. N : f[i] = met[i]
    BY <2>1
  <2> HIDE DEF Meets
  <2> QED
    BY <2>2, <2>3, <2>4
<1> DEFINE cell == CHOOSE f : Meets(f)
<1>6. cell = met
  <2> HIDE DEF Meets
  <2>1. Meets(cell)
    BY <1>4
  <2> QED
    BY <1>5, <2>1
<1> DEFINE found == {i \in 1 .. N : cell[i] # Null}
<1>7. Walk(link, from) = [i \in 1 .. Cardinality(found) |-> cell[i]]
  BY Zenon DEF Walk
<1> HIDE DEF cell
<1>8. found = 1 .. Len(o)
  BY <1>1, <1>2, <1>6 DEF met
<1> HIDE DEF found
<1>9. Cardinality(found) = Len(o)
  <2>1. 1 \in Int /\ Len(o) \in Int
    BY <1>1
  <2>2. Cardinality(1 .. Len(o)) = IF 1 > Len(o) THEN 0 ELSE Len(o) - 1 + 1
    BY <2>1, FS_Interval
  <2> QED
    BY <1>1, <1>8, <2>2
<1>10. \A i \in 1 .. Len(o) : cell[i] = o[i]
  BY <1>1, <1>6 DEF met, At
<1>11. o = [i \in 1 .. Len(o) |-> o[i]]
  BY <1>1
<1> QED
  BY <1>7, <1>9, <1>10, <1>11

\* What is in the order of a list: a cell for each index, none outside
LEMMA OrderShape ==
  ASSUME NEW o \in Seq(Cells)
  PROVE  /\ Len(o) \in Nat /\ DOMAIN o = 1 .. Len(o)
         /\ \A i \in 1 .. Len(o) : o[i] \in Cells /\ o[i] # Null /\ At(o, i) = o[i]
         /\ \A i \in Int : i < 1 \/ i > Len(o) => At(o, i) = Null
         /\ \A i \in Int : At(o, i) \in Cells \cup {Null}
         /\ o = <<>> <=> Len(o) = 0
<1>1. Len(o) \in Nat /\ DOMAIN o = 1 .. Len(o) /\ o \in [1 .. Len(o) -> Cells]
  BY LenProperties
<1>2. \A i \in 1 .. Len(o) : o[i] \in Cells /\ o[i] # Null /\ At(o, i) = o[i]
  BY <1>1, NullAssumption DEF At
<1>3. \A i \in Int : i < 1 \/ i > Len(o) => At(o, i) = Null
  BY <1>1 DEF At
<1>4. \A i \in Int : i \in 1 .. Len(o) \/ i < 1 \/ i > Len(o)
  BY <1>1
<1>5. \A i \in Int : At(o, i) \in Cells \cup {Null}
  BY <1>2, <1>3, <1>4
<1>6. o = <<>> <=> Len(o) = 0
  BY <1>1, EmptySeq
<1> QED
  BY <1>1, <1>2, <1>3, <1>5, <1>6

\* Of a linked list, forwards and backwards
LEMMA WalksOfLinked ==
  ASSUME NEW o \in Seq(Cells), Distinct(o),
         head = At(o, 1), tail = At(o, Len(o)),
         \A i \in 1 .. Len(o) : next[o[i]] = At(o, i + 1) /\ prev[o[i]] = At(o, i - 1)
  PROVE  /\ Walk(next, head) = o
         /\ Walk(prev, tail) = Reverse(o)
         /\ \A k \in 1 .. Len(o) : Walk(next, o[k]) = SubSeq(o, k, Len(o))
<1>1. /\ Len(o) \in Nat /\ DOMAIN o = 1 .. Len(o)
      /\ \A i \in 1 .. Len(o) : o[i] \in Cells /\ o[i] # Null /\ At(o, i) = o[i]
      /\ \A i \in Int : i < 1 \/ i > Len(o) => At(o, i) = Null
  BY OrderShape
<1>2. Walk(next, head) = o
  BY WalkMeets
<1>3. Walk(prev, tail) = Reverse(o)
  <2> DEFINE r == [i \in 1 .. Len(o) |-> o[Len(o) - i + 1]]
  <2>1. \A i \in 1 .. Len(o) : Len(o) - i + 1 \in 1 .. Len(o)
    BY <1>1
  <2>2. r \in [1 .. Len(o) -> Cells]
    BY <1>1, <2>1
  <2>3. r \in Seq(Cells) /\ Len(r) = Len(o)
    BY <1>1, <2>2
  <2>4. \A i \in 1 .. Len(o) : r[i] = o[Len(o) - i + 1] /\ At(r, i) = r[i]
    BY <2>3 DEF At
  <2>5. Distinct(r)
    <3> SUFFICES ASSUME NEW i \in 1 .. Len(o), NEW j \in 1 .. Len(o), r[i] = r[j] PROVE i = j
      BY <2>3 DEF Distinct
    <3> HIDE DEF r
    <3> DEFINE a == Len(o) - i + 1
               b == Len(o) - j + 1
    <3>1. a \in 1 .. Len(o) /\ b \in 1 .. Len(o)
      BY <2>1
    <3>2. o[a] = o[b]
      BY <2>4
    <3>3. a = b => i = j
      BY <1>1
    <3> HIDE DEF a, b
    <3> QED
      BY <3>1, <3>2, <3>3 DEF Distinct
  <2>6. tail = At(r, 1)
    <3>1. CASE Len(o) = 0
      BY <1>1, <2>3, <3>1 DEF At
    <3>2. CASE Len(o) # 0
      <4>1. 1 \in 1 .. Len(o) /\ Len(o) - 1 + 1 = Len(o) /\ Len(o) \in 1 .. Len(o)
        BY <1>1, <3>2
      <4> HIDE DEF r
      <4> QED
        BY <1>1, <2>4, <4>1
    <3> QED
      BY <3>1, <3>2
  <2>7. \A i \in 1 .. Len(r) : prev[r[i]] = At(r, i + 1)
    <3> SUFFICES ASSUME NEW i \in 1 .. Len(o) PROVE prev[r[i]] = At(r, i + 1)
      BY <2>3
    <3> HIDE DEF r
    <3>1. prev[r[i]] = At(o, Len(o) - i)
      <4>1. Len(o) - i + 1 - 1 = Len(o) - i
        BY <1>1
      <4> QED
        BY <2>1, <2>4, <4>1
    <3>2. CASE i = Len(o)
      BY <1>1, <2>3, <3>1, <3>2 DEF At
    <3>3. CASE i # Len(o)
      <4>1. i + 1 \in 1 .. Len(o) /\ Len(o) - (i + 1) + 1 = Len(o) - i
        <5>1. \A n \in Nat : \A j \in 1 .. n :
                j # n => j + 1 \in 1 .. n /\ n - (j + 1) + 1 = n - j
          OBVIOUS
        <5> QED
          BY <1>1, <3>3, <5>1
      <4>2. At(r, i + 1) = o[Len(o) - i] /\ Len(o) - i \in 1 .. Len(o)
        BY <2>1, <2>4, <4>1
      <4> QED
        BY <1>1, <3>1, <4>2
    <3> QED
      BY <3>2, <3>3
  <2> HIDE DEF r
  <2>8. Walk(prev, tail) = r
    BY <2>3, <2>5, <2>6, <2>7, WalkMeets
  <2> QED
    BY <2>8 DEF r, Reverse
<1>4. ASSUME NEW k \in 1 .. Len(o)
      PROVE  Walk(next, o[k]) = SubSeq(o, k, Len(o))
  <2> DEFINE s == SubSeq(o, k, Len(o))
  <2>1. /\ s \in Seq(Cells) /\ Len(s) = Len(o) - k + 1
        /\ \A i \in 1 .. Len(o) - k + 1 : s[i] = o[k + i - 1]
    <3>1. k \in Int /\ Len(o) \in Int /\ k <= Len(o) /\ \A i \in k .. Len(o) : o[i] \in Cells
      BY <1>1
    <3> QED
      BY <3>1, SubSeqProperties
  <2> HIDE DEF s
  <2>2. \A i \in 1 .. Len(s) : k + i - 1 \in 1 .. Len(o) /\ s[i] = o[k + i - 1] /\ At(s, i) = s[i]
    BY <1>1, <2>1 DEF At
  <2>3. Distinct(s)
    <3> SUFFICES ASSUME NEW i \in 1 .. Len(s), NEW j \in 1 .. Len(s), s[i] = s[j] PROVE i = j
      BY DEF Distinct
    <3> DEFINE a == k + i - 1
               b == k + j - 1
    <3>1. a \in 1 .. Len(o) /\ b \in 1 .. Len(o)
      BY <2>2
    <3>2. o[a] = o[b]
      BY <2>2
    <3>3. a = b => i = j
      BY <1>1, <2>1
    <3> HIDE DEF a, b
    <3> QED
      BY <3>1, <3>2, <3>3 DEF Distinct
  <2>4. o[k] = At(s, 1)
    <3>1. 1 \in 1 .. Len(s) /\ k + 1 - 1 = k
      BY <1>1, <2>1
    <3> QED
      BY <2>2, <3>1
  <2>5. ASSUME NEW i \in 1 .. Len(s) PROVE next[s[i]] = At(s, i + 1)
    <3>1. next[s[i]] = At(o, k + i)
      <4>1. k + i - 1 + 1 = k + i
        BY <1>1, <2>1
      <4> QED
        BY <2>2, <4>1
    <3>2. CASE i = Len(s)
      <4>1. k + i > Len(o) /\ k + i \in Int /\ ~(i + 1 \in 1 .. Len(s))
        BY <1>1, <2>1, <3>2
      <4> QED
        BY <1>1, <3>1, <4>1 DEF At
    <3>3. CASE i # Len(s)
      <4>1. i + 1 \in 1 .. Len(s) /\ k + (i + 1) - 1 = k + i
        <5>1. \A n \in Nat : \A j \in 1 .. n :
                j # n => j + 1 \in 1 .. n /\ k + (j + 1) - 1 = k + j
          BY <1>1
        <5>2. Len(s) \in Nat
          BY <1>1, <2>1
        <5> QED
          BY <3>3, <5>1, <5>2
      <4>2. At(s, i + 1) = o[k + i] /\ k + i \in 1 .. Len(o)
        BY <2>2, <4>1
      <4> QED
        BY <1>1, <3>1, <4>2
    <3> QED
      BY <3>2, <3>3
  <2>6. Walk(next, o[k]) = s
    BY <2>1, <2>3, <2>4, <2>5, WalkMeets
  <2> QED
    BY <2>6 DEF s
<1> QED
  BY <1>2, <1>3, <1>4

-----------------------------------------------------------------------------
(* The order without one of its cells *)

Without(o, k) == [i \in 1 .. Len(o) - 1 |-> IF i < k THEN o[i] ELSE o[i + 1]]

LEMMA WithoutShape ==
  ASSUME NEW o \in Seq(Cells), NEW k \in 1 .. Len(o)
  PROVE  /\ Without(o, k) \in Seq(Cells) /\ Len(Without(o, k)) = Len(o) - 1
         /\ \A i \in 1 .. Len(o) - 1 : Without(o, k)[i] = IF i < k THEN o[i] ELSE o[i + 1]
         /\ \A i \in Int : At(Without(o, k), i) = IF i < k THEN At(o, i) ELSE At(o, i + 1)
         /\ Distinct(o) =>
              /\ Distinct(Without(o, k))
              /\ {Without(o, k)[i] : i \in 1 .. Len(o) - 1} = {o[i] : i \in 1 .. Len(o)} \ {o[k]}
<1>1. /\ Len(o) \in Nat /\ \A i \in 1 .. Len(o) : o[i] \in Cells /\ At(o, i) = o[i]
      /\ \A i \in Int : i < 1 \/ i > Len(o) => At(o, i) = Null
  BY OrderShape
<1>2. PICK n \in Nat : n = Len(o)
  BY <1>1
<1>3. k \in 1 .. n
  BY <1>2
<1> DEFINE w == Without(o, k)
<1>4. w = [i \in 1 .. n - 1 |-> IF i < k THEN o[i] ELSE o[i + 1]]
  BY <1>2 DEF Without
<1>5. \A i \in 1 .. n - 1 : i \in 1 .. n /\ i + 1 \in 1 .. n
  OBVIOUS
<1> HIDE DEF w
<1>6. w \in [1 .. n - 1 -> Cells]
  BY <1>1, <1>2, <1>4, <1>5
<1>7. w \in Seq(Cells) /\ Len(w) = n - 1
  <2>1. n - 1 \in Nat
    BY <1>3
  <2> QED
    BY <1>6, <2>1
<1>8. \A i \in 1 .. n - 1 : w[i] = IF i < k THEN o[i] ELSE o[i + 1]
  BY <1>4
<1>9. \A i \in Int : At(w, i) = IF i < k THEN At(o, i) ELSE At(o, i + 1)
  <2> TAKE i \in Int
  <2>1. CASE i \in 1 .. n - 1
    <3>1. At(w, i) = w[i]
      BY <1>7, <2>1 DEF At
    <3> QED
      BY <1>1, <1>2, <1>5, <1>8, <2>1, <3>1
  <2>2. CASE ~(i \in 1 .. n - 1)
    <3>1. At(w, i) = Null
      BY <1>7, <2>2 DEF At
    <3>2. i < 1 \/ i > n - 1
      BY <2>2
    <3>3. i < 1 => i < k /\ At(o, i) = Null
      BY <1>1, <1>3
    <3>4. i > n - 1 => ~(i < k) /\ At(o, i + 1) = Null
      BY <1>1, <1>2, <1>3
    <3> QED
      BY <3>1, <3>2, <3>3, <3>4
  <2> QED
    BY <2>1, <2>2
<1>10. ASSUME Distinct(o)
       PROVE  /\ Distinct(w)
              /\ {w[i] : i \in 1 .. n - 1} = {o[i] : i \in 1 .. n} \ {o[k]}
  <2>1. \A i, j \in 1 .. n : o[i] = o[j] => i = j
    BY <1>2, <1>10 DEF Distinct
  <2>2. \A i, j \in 1 .. n - 1 : w[i] = w[j] => i = j
    BY <1>3, <1>5, <1>8, <2>1
  <2>3. \A i \in 1 .. n - 1 : w[i] \in {o[j] : j \in 1 .. n} /\ w[i] # o[k]
    BY <1>3, <1>5, <1>8, <2>1
  <2>4. \A j \in 1 .. n : o[j] # o[k] => \E i \in 1 .. n - 1 : w[i] = o[j]
    <3> SUFFICES ASSUME NEW j \in 1 .. n, j # k PROVE \E i \in 1 .. n - 1 : w[i] = o[j]
      OBVIOUS
    <3>1. CASE j < k
      <4>1. j \in 1 .. n - 1
        BY <1>3, <3>1
      <4> QED
        BY <1>8, <3>1, <4>1
    <3>2. CASE j > k
      <4>1. j - 1 \in 1 .. n - 1 /\ ~(j - 1 < k) /\ j - 1 + 1 = j
        BY <1>3, <3>2
      <4> QED
        BY <1>8, <4>1
    <3> QED
      BY <1>3, <3>1, <3>2
  <2>5. {w[i] : i \in 1 .. n - 1} = {o[i] : i \in 1 .. n} \ {o[k]}
    BY <2>3, <2>4
  <2> QED
    BY <1>7, <2>2, <2>5 DEF Distinct
<1> QED
  BY <1>2, <1>7, <1>8, <1>9, <1>10 DEF w

\* Whatever operation takes a cell out, the list is linked again when its
\* neighbours, or the ends, point past it.
LEMMA UnlinkedIsLinked ==
  ASSUME NEW o, Linked(o), NEW k \in 1 .. Len(o),
         live' = live \ {o[k]}, length' = length - 1,
         head' = IF k = 1 THEN At(o, 2) ELSE head,
         tail' = IF k = Len(o) THEN At(o, k - 1) ELSE tail,
         \A i \in 1 .. Len(o) : i # k =>
           /\ next'[o[i]] = IF i = k - 1 THEN At(o, k + 1) ELSE next[o[i]]
           /\ prev'[o[i]] = IF i = k + 1 THEN At(o, k - 1) ELSE prev[o[i]]
  PROVE  Linked(Without(o, k))'
<1>1. o \in Seq(Cells) /\ Distinct(o) /\ length = Len(o) /\ live = {o[i] : i \in 1 .. Len(o)}
  BY DEF Linked
<1>2. PICK n \in Nat : n = Len(o)
  BY <1>1, OrderShape
<1>3. k \in 1 .. n
  BY <1>2
<1>4. /\ head = At(o, 1) /\ tail = At(o, n)
      /\ \A i \in 1 .. n : next[o[i]] = At(o, i + 1) /\ prev[o[i]] = At(o, i - 1)
  BY <1>2 DEF Linked
<1>5. \A i \in 1 .. n : i # k =>
        /\ next'[o[i]] = IF i = k - 1 THEN At(o, k + 1) ELSE At(o, i + 1)
        /\ prev'[o[i]] = IF i = k + 1 THEN At(o, k - 1) ELSE At(o, i - 1)
  BY <1>2, <1>4
<1>6. PICK w : w = Without(o, k)
  OBVIOUS
<1>7. /\ w \in Seq(Cells) /\ Len(w) = n - 1 /\ Distinct(w)
      /\ {w[i] : i \in 1 .. n - 1} = {o[i] : i \in 1 .. n} \ {o[k]}
  <2>1. /\ Without(o, k) \in Seq(Cells) /\ Len(Without(o, k)) = Len(o) - 1
        /\ Distinct(Without(o, k))
        /\ {Without(o, k)[i] : i \in 1 .. Len(o) - 1} = {o[i] : i \in 1 .. Len(o)} \ {o[k]}
    BY <1>1, WithoutShape
  <2> QED
    BY <1>2, <1>6, <2>1
<1>8. \A i \in 1 .. n - 1 : w[i] = IF i < k THEN o[i] ELSE o[i + 1]
  BY <1>1, <1>2, <1>6, WithoutShape
<1>9. \A i \in Int : At(w, i) = IF i < k THEN At(o, i) ELSE At(o, i + 1)
  BY <1>1, <1>2, <1>6, WithoutShape
<1>10. live' = {w[i] : i \in 1 .. Len(w)} /\ length' = Len(w)
  BY <1>1, <1>2, <1>7
<1>11. head' = At(w, 1) /\ tail' = At(w, Len(w))
  <2>1. head' = At(w, 1)
    <3>1. At(w, 1) = IF 1 < k THEN At(o, 1) ELSE At(o, 1 + 1)
      BY <1>9
    <3>2. (1 < k <=> k # 1) /\ 1 + 1 = 2
      BY <1>3
    <3> QED
      BY <1>4, <3>1, <3>2
  <2>2. tail' = At(w, n - 1)
    <3>1. At(w, n - 1) = IF n - 1 < k THEN At(o, n - 1) ELSE At(o, n - 1 + 1)
      <4>1. n - 1 \in Int
        OBVIOUS
      <4> QED
        BY <1>9, <4>1, Zenon
    <3>2. (n - 1 < k <=> k = n) /\ n - 1 + 1 = n /\ (k = n => n - 1 = k - 1)
      BY <1>3
    <3> QED
      BY <1>2, <1>4, <3>1, <3>2
  <2> QED
    BY <1>7, <2>1, <2>2
<1>12. ASSUME NEW i \in 1 .. n - 1
       PROVE  next'[w[i]] = At(w, i + 1) /\ prev'[w[i]] = At(w, i - 1)
  <2>1. CASE i < k
    <3>1. i \in 1 .. n /\ i # k /\ i # k + 1
      BY <1>3, <2>1
    <3>2. w[i] = o[i]
      BY <1>8, <2>1
    <3>3. i - 1 \in Int /\ i - 1 < k /\ i + 1 \in Int
      BY <1>3, <2>1
    <3>4. (i + 1 < k <=> i # k - 1) /\ (i = k - 1 => i + 1 + 1 = k + 1)
      BY <1>3, <2>1
    <3>5. prev'[w[i]] = At(o, i - 1) /\ At(w, i - 1) = At(o, i - 1)
      BY <1>5, <1>9, <3>1, <3>2, <3>3
    <3>6. next'[w[i]] = IF i = k - 1 THEN At(o, k + 1) ELSE At(o, i + 1)
      BY <1>5, <3>1, <3>2
    <3>7. At(w, i + 1) = IF i = k - 1 THEN At(o, k + 1) ELSE At(o, i + 1)
      BY <1>9, <3>3, <3>4
    <3> QED
      BY <3>5, <3>6, <3>7
  <2>2. CASE ~(i < k)
    <3>1. i + 1 \in 1 .. n /\ i + 1 # k /\ i + 1 # k - 1
      BY <1>3, <2>2
    <3>2. w[i] = o[i + 1]
      BY <1>8, <2>2
    <3>3. i + 1 \in Int /\ ~(i + 1 < k) /\ i - 1 \in Int
      BY <1>3, <2>2
    <3>4. (i - 1 < k <=> i = k) /\ (i + 1 = k + 1 <=> i = k) /\ i - 1 + 1 = i /\ i + 1 - 1 = i
      <4>1. \A j \in Int : ~(j < k) => (j - 1 < k <=> j = k)
        BY <1>3
      <4> QED
        BY <1>3, <2>2, <4>1
    <3>5. next'[w[i]] = At(o, i + 1 + 1) /\ At(w, i + 1) = At(o, i + 1 + 1)
      BY <1>5, <1>9, <3>1, <3>2, <3>3
    <3>6. prev'[w[i]] = IF i = k THEN At(o, k - 1) ELSE At(o, i)
      BY <1>5, <3>1, <3>2, <3>4
    <3>7. At(w, i - 1) = IF i = k THEN At(o, k - 1) ELSE At(o, i)
      BY <1>9, <3>3, <3>4
    <3> QED
      BY <3>5, <3>6, <3>7
  <2> QED
    BY <2>1, <2>2
<1>13. Linked(w)'
  BY <1>7, <1>10, <1>11, <1>12 DEF Linked
<1> QED
  BY <1>6, <1>13

-----------------------------------------------------------------------------
(* The state, and the order each operation makes of the one before *)

ListTypeOK ==
  /\ next \in [Cells -> Cells \cup {Null}] /\ prev \in [Cells -> Cells \cup {Null}]
  /\ data \in [Cells -> Data \cup {Null}]
  /\ \A c \in live : data[c] \in Data
  /\ mode \in {"idle", "sorting", "rejecting", "crashed"}
  /\ swapped \in BOOLEAN
  /\ reject \subseteq Data
  /\ visited \in Seq(Data) /\ before \in Seq(Data)
  /\ mode # "rejecting" /\ mode # "crashed" => visited = <<>>

\* A linked list and one of its cells, whatever takes it out
LEMMA NeighboursOfLinked ==
  ASSUME NEW o, Linked(o), NEW k \in 1 .. Len(o), ListTypeOK
  PROVE  /\ o[k] \in Cells /\ o[k] # Null /\ o[k] \in live
         /\ next[o[k]] = At(o, k + 1) /\ prev[o[k]] = At(o, k - 1)
         /\ At(o, k + 1) \in Cells \cup {Null} /\ At(o, k - 1) \in Cells \cup {Null}
         /\ o[k] = head <=> k = 1
         /\ o[k] = tail <=> k = Len(o)
         /\ \A i \in 1 .. Len(o) : o[i] = o[k] => i = k
         /\ \A i \in 1 .. Len(o) : o[i] = At(o, k + 1) <=> i = k + 1
         /\ \A i \in 1 .. Len(o) : o[i] = At(o, k - 1) <=> i = k - 1
<1>1. o \in Seq(Cells) /\ Distinct(o)
  BY DEF Linked
<1>2. PICK n \in Nat : n = Len(o)
  BY <1>1, OrderShape
<1>3. k \in 1 .. n
  BY <1>2
<1>4. /\ \A i \in 1 .. n : o[i] \in Cells /\ o[i] # Null /\ At(o, i) = o[i]
      /\ \A i \in Int : i < 1 \/ i > n => At(o, i) = Null
      /\ \A i \in Int : At(o, i) \in Cells \cup {Null}
  BY <1>1, <1>2, OrderShape
<1>5. \A i, j \in 1 .. n : o[i] = o[j] => i = j
  BY <1>1, <1>2 DEF Distinct
<1>6. /\ live = {o[i] : i \in 1 .. n} /\ head = At(o, 1) /\ tail = At(o, n)
      /\ \A i \in 1 .. n : next[o[i]] = At(o, i + 1) /\ prev[o[i]] = At(o, i - 1)
  BY <1>2 DEF Linked
<1>7. \A j \in Int : \A i \in 1 .. n : o[i] = At(o, j) <=> i = j
  <2> SUFFICES ASSUME NEW j \in Int, NEW i \in 1 .. n PROVE o[i] = At(o, j) <=> i = j
    OBVIOUS
  <2>1. CASE j \in 1 .. n
    BY <1>4, <1>5, <2>1
  <2>2. CASE ~(j \in 1 .. n)
    BY <1>4, <2>2
  <2> QED
    BY <2>1, <2>2
<1>8. k + 1 \in Int /\ k - 1 \in Int /\ 1 \in Int /\ n \in Int
  BY <1>3
<1>9. /\ \A i \in 1 .. n : o[i] = At(o, k + 1) <=> i = k + 1
      /\ \A i \in 1 .. n : o[i] = At(o, k - 1) <=> i = k - 1
      /\ o[k] = At(o, 1) <=> k = 1
      /\ o[k] = At(o, n) <=> k = n
  BY <1>3, <1>7, <1>8, Zenon
<1> QED
  BY <1>2, <1>3, <1>4, <1>5, <1>6, <1>8, <1>9

LEMMA UnlinkEffect ==
  ASSUME NEW o, Linked(o), ListTypeOK, NEW k \in 1 .. Len(o), Unlink(o[k])
  PROVE  /\ Linked(Without(o, k))'
         /\ next' \in [Cells -> Cells \cup {Null}] /\ prev' \in [Cells -> Cells \cup {Null}]
         /\ At(o, k - 1) # Null => next'[At(o, k - 1)] = At(o, k + 1)
<1> DEFINE c == o[k]
           after == At(o, k + 1)
           behind == At(o, k - 1)
           next1 == Set(next, prev[c], next[c])
           prev1 == Set(prev, next[c], prev[c])
           head1 == IF c = head THEN next1[c] ELSE head
           prev2 == IF c = head THEN Set(prev1, head1, Null) ELSE prev1
           tail1 == IF c = tail THEN prev2[c] ELSE tail
           next2 == IF c = tail THEN Set(next1, tail1, Null) ELSE next1
<1>1. /\ next' = [next2 EXCEPT ![c] = Null]
      /\ prev' = [prev2 EXCEPT ![c] = Null]
      /\ head' = head1 /\ tail' = tail1
      /\ live' = live \ {c} /\ length' = length - 1
  BY Zenon DEF Unlink, Free
<1>2. PICK n \in Nat : n = Len(o)
  BY OrderShape DEF Linked
<1>3. k \in 1 .. n
  BY <1>2
<1>4. /\ c \in Cells /\ c # Null
      /\ next[c] = after /\ prev[c] = behind
      /\ after \in Cells \cup {Null} /\ behind \in Cells \cup {Null}
      /\ c = head <=> k = 1
      /\ c = tail <=> k = n
      /\ next \in [Cells -> Cells \cup {Null}] /\ prev \in [Cells -> Cells \cup {Null}]
  BY <1>2, NeighboursOfLinked DEF ListTypeOK
<1>5. /\ \A i \in 1 .. n : o[i] = c <=> i = k
      /\ \A i \in 1 .. n : o[i] = after <=> i = k + 1
      /\ \A i \in 1 .. n : o[i] = behind <=> i = k - 1
  BY <1>2, <1>3, NeighboursOfLinked
<1>6. \A i \in 1 .. n : o[i] \in Cells
  BY <1>2, OrderShape DEF Linked
<1>7. c # after /\ c # behind /\ (k = 1 => behind = Null) /\ (k = n => after = Null)
  <2>1. /\ \A i \in Int : i < 1 \/ i > n => At(o, i) = Null
    BY <1>2, OrderShape DEF Linked
  <2>2. k - 1 \in Int /\ k + 1 \in Int /\ k # k + 1 /\ k # k - 1 /\ (k = 1 => k - 1 < 1) /\ (k = n => k + 1 > n)
    BY <1>3
  <2> QED
    BY <1>3, <1>5, <2>1, <2>2
<1> HIDE DEF c, after, behind
<1>8. /\ next1 \in [Cells -> Cells \cup {Null}]
      /\ \A x \in Cells : next1[x] = IF x = behind THEN after ELSE next[x]
      /\ prev1 \in [Cells -> Cells \cup {Null}]
      /\ \A x \in Cells : prev1[x] = IF x = after THEN behind ELSE prev[x]
  <2>1. next1 = Set(next, behind, after) /\ prev1 = Set(prev, after, behind)
    BY <1>4
  <2> HIDE DEF next1, prev1
  <2>2. /\ next1 \in [Cells -> Cells \cup {Null}]
        /\ \A x \in Cells : next1[x] = IF x = behind THEN after ELSE next[x]
    BY <1>4, <2>1, NullAssumption DEF Set
  <2>3. /\ prev1 \in [Cells -> Cells \cup {Null}]
        /\ \A x \in Cells : prev1[x] = IF x = after THEN behind ELSE prev[x]
    BY <1>4, <2>1, NullAssumption DEF Set
  <2> QED
    BY <2>2, <2>3
<1> HIDE DEF next1, prev1
<1>9. head1 = IF k = 1 THEN after ELSE head
  BY <1>4, <1>7, <1>8
<1>10. /\ prev2 \in [Cells -> Cells \cup {Null}]
       /\ \A x \in Cells : prev2[x] = IF x = after THEN behind ELSE prev[x]
  <2>1. CASE k = 1
    <3>1. prev2 = Set(prev1, after, Null)
      BY <1>4, <1>9, <2>1
    <3> QED
      BY <1>4, <1>7, <1>8, <2>1, <3>1, NullAssumption DEF Set
  <2>2. CASE k # 1
    BY <1>4, <1>8, <2>2
  <2> QED
    BY <2>1, <2>2
<1> HIDE DEF head1, prev2
<1>11. tail1 = IF k = n THEN behind ELSE tail
  BY <1>4, <1>7, <1>10
<1>12. /\ next2 \in [Cells -> Cells \cup {Null}]
       /\ \A x \in Cells : next2[x] = IF x = behind THEN after ELSE next[x]
  <2>1. CASE k = n
    <3>1. next2 = Set(next1, behind, Null)
      BY <1>4, <1>11, <2>1
    <3> QED
      BY <1>4, <1>7, <1>8, <2>1, <3>1, NullAssumption DEF Set
  <2>2. CASE k # n
    BY <1>4, <1>8, <2>2
  <2> QED
    BY <2>1, <2>2
<1> HIDE DEF tail1, next2
<1>13. /\ next' \in [Cells -> Cells \cup {Null}] /\ prev' \in [Cells -> Cells \cup {Null}]
       /\ \A x \in Cells : x # c =>
            /\ next'[x] = IF x = behind THEN after ELSE next[x]
            /\ prev'[x] = IF x = after THEN behind ELSE prev[x]
  BY <1>1, <1>4, <1>10, <1>12
<1>14. \A i \in 1 .. n : i # k =>
         /\ next'[o[i]] = IF i = k - 1 THEN after ELSE next[o[i]]
         /\ prev'[o[i]] = IF i = k + 1 THEN behind ELSE prev[o[i]]
  BY <1>5, <1>6, <1>13
<1>15. Linked(Without(o, k))'
  <2>1. after = At(o, 2) \/ k # 1
    BY DEF after
  <2> QED
    BY <1>1, <1>2, <1>9, <1>11, <1>14, <2>1, UnlinkedIsLinked DEF c, after, behind
<1>16. behind # Null => next'[behind] = after
  BY <1>4, <1>7, <1>13
<1> QED
  BY <1>13, <1>15, <1>16 DEF after, behind

\* The ends, each of which dlist_remove_head or dlist_remove_tail takes out
LEMMA RemoveHeadEffect ==
  ASSUME NEW o, Linked(o), ListTypeOK, RemoveHead
  PROVE  /\ 1 \in 1 .. Len(o) /\ head = o[1]
         /\ Linked(Without(o, 1))'
         /\ next' \in [Cells -> Cells \cup {Null}] /\ prev' \in [Cells -> Cells \cup {Null}]
<1>1. PICK n \in Nat : n = Len(o)
  BY OrderShape DEF Linked
<1>2. /\ \A i \in Int : i < 1 \/ i > n => At(o, i) = Null
      /\ \A i \in 1 .. n : o[i] \in Cells /\ At(o, i) = o[i]
  BY <1>1, OrderShape DEF Linked
<1>3. 1 \in 1 .. n
  <2>1. At(o, 1) # Null
    BY DEF RemoveHead, Linked
  <2> QED
    BY <1>2, <2>1
<1>4. head = o[1]
  BY <1>2, <1>3 DEF Linked
<1> DEFINE c == o[1]
           after == At(o, 2)
<1>5. /\ c \in Cells /\ next[c] = after /\ after \in Cells \cup {Null} /\ Null \in Cells \cup {Null}
      /\ \A i \in 1 .. n : o[i] = c <=> i = 1
      /\ \A i \in 1 .. n : o[i] = after <=> i = 2
      /\ next \in [Cells -> Cells \cup {Null}] /\ prev \in [Cells -> Cells \cup {Null}]
  <2>1. 1 + 1 = 2
    OBVIOUS
  <2> QED
    BY <1>1, <1>3, <2>1, NeighboursOfLinked DEF ListTypeOK
<1> HIDE DEF c, after
<1>6. /\ head' = after /\ live' = live \ {c} /\ length' = length - 1
      /\ prev' = Set(prev, after, Null) /\ next' = [next EXCEPT ![c] = Null]
      /\ tail' = IF after = Null THEN Null ELSE tail
  BY <1>4, <1>5 DEF RemoveHead, Free, c
<1>7. /\ prev' \in [Cells -> Cells \cup {Null}] /\ next' \in [Cells -> Cells \cup {Null}]
      /\ \A x \in Cells : prev'[x] = IF x = after THEN Null ELSE prev[x]
      /\ \A x \in Cells : x # c => next'[x] = next[x]
  BY <1>5, <1>6, NullAssumption DEF Set
<1>8. after = Null <=> n = 1
  BY <1>2, <1>3, NullAssumption DEF after
<1>9. At(o, 0) = Null /\ 1 - 1 = 0 /\ 1 + 1 = 2
  BY <1>2
<1>10. \A i \in 1 .. n : i # 1 =>
         /\ next'[o[i]] = IF i = 0 THEN after ELSE next[o[i]]
         /\ prev'[o[i]] = IF i = 2 THEN Null ELSE prev[o[i]]
  BY <1>2, <1>5, <1>7
<1>11. tail' = IF 1 = n THEN Null ELSE tail
  BY <1>6, <1>8
<1>12. Linked(Without(o, 1))'
  BY <1>1, <1>3, <1>6, <1>9, <1>10, <1>11, UnlinkedIsLinked DEF c, after
<1> QED
  BY <1>1, <1>3, <1>4, <1>7, <1>12

LEMMA RemoveTailEffect ==
  ASSUME NEW o, Linked(o), ListTypeOK, RemoveTail
  PROVE  /\ Len(o) \in 1 .. Len(o) /\ tail = o[Len(o)]
         /\ Linked(Without(o, Len(o)))'
         /\ next' \in [Cells -> Cells \cup {Null}] /\ prev' \in [Cells -> Cells \cup {Null}]
<1>1. PICK n \in Nat : n = Len(o)
  BY OrderShape DEF Linked
<1>2. /\ \A i \in Int : i < 1 \/ i > n => At(o, i) = Null
      /\ \A i \in 1 .. n : o[i] \in Cells /\ At(o, i) = o[i]
  BY <1>1, OrderShape DEF Linked
<1>3. n \in 1 .. n
  <2>1. At(o, n) # Null
    BY <1>1 DEF RemoveTail, Linked
  <2> QED
    BY <1>2, <2>1
<1>4. tail = o[n]
  BY <1>1, <1>2, <1>3 DEF Linked
<1> DEFINE c == o[n]
           behind == At(o, n - 1)
<1>5. /\ c \in Cells /\ prev[c] = behind /\ behind \in Cells \cup {Null} /\ Null \in Cells \cup {Null}
      /\ \A i \in 1 .. n : o[i] = c <=> i = n
      /\ \A i \in 1 .. n : o[i] = behind <=> i = n - 1
      /\ next \in [Cells -> Cells \cup {Null}] /\ prev \in [Cells -> Cells \cup {Null}]
  BY <1>1, <1>3, NeighboursOfLinked DEF ListTypeOK
<1> HIDE DEF c, behind
<1>6. /\ tail' = behind /\ live' = live \ {c} /\ length' = length - 1
      /\ next' = Set(next, behind, Null) /\ prev' = [prev EXCEPT ![c] = Null]
      /\ head' = IF behind = Null THEN Null ELSE head
  BY <1>4, <1>5 DEF RemoveTail, Free, c
<1>7. /\ prev' \in [Cells -> Cells \cup {Null}] /\ next' \in [Cells -> Cells \cup {Null}]
      /\ \A x \in Cells : next'[x] = IF x = behind THEN Null ELSE next[x]
      /\ \A x \in Cells : x # c => prev'[x] = prev[x]
  BY <1>5, <1>6, NullAssumption DEF Set
<1>8. behind = Null <=> n = 1
  BY <1>2, <1>3, NullAssumption DEF behind
<1>9. At(o, n + 1) = Null
  BY <1>2
<1>10. \A i \in 1 .. n : i # n =>
         /\ next'[o[i]] = IF i = n - 1 THEN Null ELSE next[o[i]]
         /\ prev'[o[i]] = IF i = n + 1 THEN behind ELSE prev[o[i]]
  BY <1>2, <1>5, <1>7
<1>11. head' = IF n = 1 THEN At(o, 2) ELSE head
  BY <1>2, <1>6, <1>8
<1>12. Linked(Without(o, n))'
  BY <1>1, <1>3, <1>6, <1>9, <1>10, <1>11, UnlinkedIsLinked DEF c, behind
<1> QED
  BY <1>1, <1>3, <1>4, <1>7, <1>12

\* dlist_append puts a cell after the others.
LEMMA AppendEffect ==
  ASSUME NEW o, Linked(o), ListTypeOK, NEW c \in Cells, NEW d, DListAppend(c, d)
  PROVE  /\ Append(o, c) \in Seq(Cells) /\ Linked(Append(o, c))'
         /\ next' \in [Cells -> Cells \cup {Null}] /\ prev' \in [Cells -> Cells \cup {Null}]
<1>1. o \in Seq(Cells) /\ Distinct(o) /\ length = Len(o) /\ live = {o[i] : i \in 1 .. Len(o)}
  BY DEF Linked
<1>2. PICK n \in Nat : n = Len(o)
  BY <1>1, OrderShape
<1>3. /\ \A i \in 1 .. n : o[i] \in Cells /\ o[i] # Null /\ At(o, i) = o[i]
      /\ \A i \in Int : i < 1 \/ i > n => At(o, i) = Null
      /\ \A i \in Int : At(o, i) \in Cells \cup {Null}
  BY <1>1, <1>2, OrderShape
<1>4. /\ head = At(o, 1) /\ tail = At(o, n)
      /\ \A i \in 1 .. n : next[o[i]] = At(o, i + 1) /\ prev[o[i]] = At(o, i - 1)
  BY <1>2 DEF Linked
<1>5. PICK s : s = Append(o, c)
  OBVIOUS
<1>6. /\ s \in Seq(Cells) /\ Len(s) = n + 1
      /\ \A i \in 1 .. n : s[i] = o[i]
      /\ s[n + 1] = c
  BY <1>1, <1>2, <1>5, AppendProperties
<1>7. \A i \in 1 .. n + 1 : i \in 1 .. n \/ i = n + 1
  OBVIOUS
<1>8. \A i \in 1 .. n : o[i] # c
  BY <1>1, <1>2 DEF DListAppend
<1>9. Distinct(s)
  <2>1. \A i, j \in 1 .. n : o[i] = o[j] => i = j
    BY <1>1, <1>2 DEF Distinct
  <2>2. \A i, j \in 1 .. n + 1 : s[i] = s[j] => i = j
    BY <1>6, <1>7, <1>8, <2>1
  <2> QED
    BY <1>6, <2>2 DEF Distinct
<1>10. \A i \in Int : At(s, i) = IF i = n + 1 THEN c ELSE At(o, i)
  <2> TAKE i \in Int
  <2>1. CASE i \in 1 .. n
    <3>1. i \in 1 .. n + 1 /\ i # n + 1
      BY <2>1
    <3> QED
      BY <1>3, <1>6, <2>1, <3>1 DEF At
  <2>2. CASE i = n + 1
    <3>1. i \in 1 .. n + 1
      BY <2>2
    <3> QED
      BY <1>6, <2>2, <3>1 DEF At
  <2>3. CASE ~(i \in 1 .. n) /\ i # n + 1
    <3>1. ~(i \in 1 .. n + 1) /\ (i < 1 \/ i > n)
      BY <2>3
    <3> QED
      BY <1>3, <1>6, <2>3, <3>1 DEF At
  <2> QED
    BY <2>1, <2>2, <2>3
<1>11. /\ live' = live \cup {c} /\ length' = length + 1 /\ tail' = c
       /\ head' = (IF tail = Null THEN c ELSE head)
       /\ next' = [Set(next, tail, c) EXCEPT ![c] = Null]
       /\ prev' = [prev EXCEPT ![c] = tail]
  BY DEF DListAppend
<1>12. /\ tail \in Cells \cup {Null} /\ c \in Cells \cup {Null}
       /\ next \in [Cells -> Cells \cup {Null}] /\ prev \in [Cells -> Cells \cup {Null}]
  BY <1>3, <1>4 DEF ListTypeOK
<1>13. /\ next' \in [Cells -> Cells \cup {Null}] /\ prev' \in [Cells -> Cells \cup {Null}]
       /\ \A x \in Cells : next'[x] = IF x = c THEN Null ELSE IF x = tail THEN c ELSE next[x]
       /\ \A x \in Cells : prev'[x] = IF x = c THEN tail ELSE prev[x]
  BY <1>11, <1>12, NullAssumption DEF Set
<1>14. \A i \in 1 .. n : o[i] = tail <=> i = n
  <2>1. \A i, j \in 1 .. n : o[i] = o[j] => i = j
    BY <1>1, <1>2 DEF Distinct
  <2>2. CASE n = 0
    BY <2>2
  <2>3. CASE n # 0
    <3>1. n \in 1 .. n
      BY <2>3
    <3> QED
      BY <1>3, <1>4, <2>1, <3>1
  <2> QED
    BY <2>2, <2>3
<1>15. ASSUME NEW i \in 1 .. n + 1
       PROVE  next'[s[i]] = At(s, i + 1) /\ prev'[s[i]] = At(s, i - 1)
  <2>1. i + 1 \in Int /\ i - 1 \in Int /\ i - 1 # n + 1 /\ (i = n + 1 => i - 1 = n /\ i + 1 # n + 1 /\ i + 1 > n)
    OBVIOUS
  <2>2. CASE i \in 1 .. n
    <3>1. s[i] = o[i] /\ o[i] \in Cells /\ o[i] # c
      BY <1>3, <1>6, <1>8, <2>2
    <3>2. prev'[s[i]] = At(o, i - 1)
      BY <1>4, <1>13, <2>2, <3>1
    <3>3. next'[s[i]] = IF i = n THEN c ELSE At(o, i + 1)
      BY <1>4, <1>13, <1>14, <2>2, <3>1
    <3>4. At(s, i - 1) = At(o, i - 1)
      BY <1>10, <2>1, Zenon
    <3>5. At(s, i + 1) = IF i + 1 = n + 1 THEN c ELSE At(o, i + 1)
      BY <1>10, <2>1, Zenon
    <3>6. i + 1 = n + 1 <=> i = n
      BY <2>2
    <3> QED
      BY <3>2, <3>3, <3>4, <3>5, <3>6
  <2>3. CASE i = n + 1
    <3>1. prev'[s[i]] = tail /\ next'[s[i]] = Null
      BY <1>6, <1>13, <2>3
    <3>2. At(s, i - 1) = At(o, i - 1)
      BY <1>10, <2>1, Zenon
    <3>3. At(s, i + 1) = At(o, i + 1)
      BY <1>10, <2>1, <2>3, Zenon
    <3>4. At(o, i + 1) = Null
      BY <1>3, <2>1, <2>3
    <3> QED
      BY <1>4, <2>1, <2>3, <3>1, <3>2, <3>3, <3>4
  <2> QED
    BY <1>7, <2>2, <2>3
<1>16. head' = At(s, 1)
  <2>1. At(s, 1) = IF 1 = n + 1 THEN c ELSE At(o, 1)
    BY <1>10
  <2>2. tail = Null <=> n = 0
    BY <1>3, <1>4
  <2> QED
    BY <1>4, <1>11, <2>1, <2>2
<1>17. tail' = At(s, Len(s))
  <2>1. n + 1 \in Int
    OBVIOUS
  <2>2. At(s, n + 1) = c
    BY <1>10, <2>1, Zenon
  <2> QED
    BY <1>6, <1>11, <2>2
<1>18. live' = {s[i] : i \in 1 .. n + 1}
  <2>1. \A i \in 1 .. n : i \in 1 .. n + 1
    OBVIOUS
  <2>2. n + 1 \in 1 .. n + 1
    OBVIOUS
  <2> QED
    BY <1>1, <1>2, <1>6, <1>7, <1>11, <2>1, <2>2
<1>19. Linked(s)'
  BY <1>1, <1>2, <1>6, <1>9, <1>11, <1>15, <1>16, <1>17, <1>18 DEF Linked
<1> QED
  BY <1>5, <1>6, <1>13, <1>19

-----------------------------------------------------------------------------
(* What the cells of an order hold *)

DataOf(f, o) == [i \in DOMAIN o |-> f[o[i]]]

LEMMA DataShape ==
  \A f : \A o \in Seq(Cells) :
    (\A i \in 1 .. Len(o) : f[o[i]] \in Data) =>
      /\ DataOf(f, o) \in Seq(Data) /\ Len(DataOf(f, o)) = Len(o)
      /\ \A i \in 1 .. Len(o) : DataOf(f, o)[i] = f[o[i]]
<1> SUFFICES ASSUME NEW f, NEW o \in Seq(Cells), \A i \in 1 .. Len(o) : f[o[i]] \in Data
             PROVE  /\ DataOf(f, o) \in Seq(Data) /\ Len(DataOf(f, o)) = Len(o)
                    /\ \A i \in 1 .. Len(o) : DataOf(f, o)[i] = f[o[i]]
  OBVIOUS
<1>1. PICK n \in Nat : n = Len(o) /\ DOMAIN o = 1 .. n
  BY LenProperties
<1> DEFINE v == DataOf(f, o)
<1>2. v = [i \in 1 .. n |-> f[o[i]]]
  BY <1>1 DEF DataOf
<1> HIDE DEF v
<1>3. v \in [1 .. n -> Data]
  BY <1>1, <1>2
<1>4. v \in Seq(Data) /\ Len(v) = n
  BY <1>3
<1> QED
  BY <1>1, <1>2, <1>4 DEF v

\* The elements of part of the order are part of its elements.
LEMMA DataPart ==
  \A f : \A o \in Seq(Cells) :
    (\A i \in 1 .. Len(o) : f[o[i]] \in Data) =>
      \A a \in 1 .. Len(o) + 1, b \in 0 .. Len(o) :
        DataOf(f, SubSeq(o, a, b)) = SubSeq(DataOf(f, o), a, b)
<1> SUFFICES ASSUME NEW f, NEW o \in Seq(Cells), \A i \in 1 .. Len(o) : f[o[i]] \in Data,
                    NEW a \in 1 .. Len(o) + 1, NEW b \in 0 .. Len(o)
             PROVE  DataOf(f, SubSeq(o, a, b)) = SubSeq(DataOf(f, o), a, b)
  OBVIOUS
<1>1. PICK n \in Nat : n = Len(o) /\ DOMAIN o = 1 .. n
  BY LenProperties
<1> DEFINE v == DataOf(f, o)
<1>2. v \in Seq(Data) /\ Len(v) = n /\ \A i \in 1 .. n : v[i] = f[o[i]]
  BY <1>1, DataShape
<1> HIDE DEF v
<1>3. a \in 1 .. n + 1 /\ b \in 0 .. n
  BY <1>1
<1>4. a \in Int /\ b \in Int /\ \A i \in a .. b : o[i] \in Cells /\ v[i] \in Data
  <2>1. \A i \in a .. b : i \in 1 .. n
    BY <1>3
  <2> QED
    BY <1>1, <1>2, <1>3, <2>1, ElementOfSeq
<1>5. PICK m \in Nat : m = IF a <= b THEN b - a + 1 ELSE 0
  <2>1. CASE a <= b
    <3>1. b - a + 1 \in Nat
      BY <1>3, <2>1
    <3> QED
      BY <2>1, <3>1
  <2>2. CASE ~(a <= b)
    BY <2>2
  <2> QED
    BY <2>1, <2>2
<1> DEFINE s == SubSeq(o, a, b)
           w == SubSeq(v, a, b)
<1>6. /\ s \in Seq(Cells) /\ Len(s) = m
      /\ \A i \in 1 .. b - a + 1 : s[i] = o[a + i - 1]
  BY <1>4, <1>5, SubSeqProperties
<1>7. /\ w \in Seq(Data) /\ Len(w) = m
      /\ \A i \in 1 .. b - a + 1 : w[i] = v[a + i - 1]
  BY <1>4, <1>5, SubSeqProperties
<1> HIDE DEF s, w
<1>8. \A i \in 1 .. m : i \in 1 .. b - a + 1 /\ a + i - 1 \in 1 .. n
  BY <1>3, <1>5
<1>9. \A i \in 1 .. m : w[i] = f[s[i]] /\ f[s[i]] \in Data
  BY <1>1, <1>2, <1>6, <1>7, <1>8
<1>10. /\ DataOf(f, s) \in Seq(Data) /\ Len(DataOf(f, s)) = m
       /\ \A i \in 1 .. m : DataOf(f, s)[i] = w[i]
  BY <1>6, <1>9, DataShape
<1>11. DataOf(f, s) = w
  BY <1>7, <1>10, SeqEqual
<1> QED
  BY <1>11 DEF s, w, v

\* Elements before one and from it on
LEMMA SplitAt ==
  \A v \in Seq(Data) :
    /\ \A k \in 1 .. Len(v) + 1 :
         /\ SubSeq(v, 1, k - 1) \in Seq(Data) /\ SubSeq(v, k, Len(v)) \in Seq(Data)
         /\ SubSeq(v, 1, k - 1) \o SubSeq(v, k, Len(v)) = v
    /\ \A k \in 1 .. Len(v) :
         /\ SubSeq(v, 1, k) = Append(SubSeq(v, 1, k - 1), v[k])
         /\ SubSeq(v, k, Len(v)) = <<v[k]>> \o SubSeq(v, k + 1, Len(v))
<1> SUFFICES ASSUME NEW v \in Seq(Data)
             PROVE  /\ \A k \in 1 .. Len(v) + 1 :
                         /\ SubSeq(v, 1, k - 1) \in Seq(Data) /\ SubSeq(v, k, Len(v)) \in Seq(Data)
                         /\ SubSeq(v, 1, k - 1) \o SubSeq(v, k, Len(v)) = v
                    /\ \A k \in 1 .. Len(v) :
                         /\ SubSeq(v, 1, k) = Append(SubSeq(v, 1, k - 1), v[k])
                         /\ SubSeq(v, k, Len(v)) = <<v[k]>> \o SubSeq(v, k + 1, Len(v))
  OBVIOUS
<1>1. PICK n \in Nat : n = Len(v)
  BY LenProperties
<1>2. ASSUME NEW a \in 1 .. n + 1, NEW b \in 0 .. n
      PROVE  SubSeq(v, a, b) \in Seq(Data)
  <2>1. \A i \in a .. b : i \in 1 .. n
    OBVIOUS
  <2>2. a \in Int /\ b \in Int /\ \A i \in a .. b : v[i] \in Data
    BY <1>1, <2>1, ElementOfSeq
  <2> QED
    BY <2>2, SubSeqProperties
<1>3. ASSUME NEW k \in 1 .. n + 1
      PROVE  /\ SubSeq(v, 1, k - 1) \in Seq(Data) /\ SubSeq(v, k, n) \in Seq(Data)
             /\ SubSeq(v, 1, k - 1) \o SubSeq(v, k, n) = v
  <2>1. /\ k - 1 \in 0 .. n /\ 1 \in 1 .. n + 1 /\ n \in 0 .. n
        /\ 1 - 1 = 0 /\ n \in k - 1 .. n /\ k - 1 + 1 = k
    OBVIOUS
  <2>2. PICK j \in 0 .. n : j = k - 1
    BY <2>1
  <2>3. SubSeq(v, 1, j) \o SubSeq(v, j + 1, n) = SubSeq(v, 1, n)
    <3>1. 1 \in 1 .. Len(v) + 1 /\ j \in 1 - 1 .. Len(v) /\ n \in j .. Len(v)
      BY <1>1, <2>1, <2>2
    <3> QED
      BY <3>1, ConcatAdjacentSubSeq
  <2>4. SubSeq(v, 1, n) = v
    BY <1>1, SubSeqFull
  <2>5. SubSeq(v, 1, k - 1) \o SubSeq(v, k, n) = v
    BY <2>1, <2>2, <2>3, <2>4
  <2> QED
    BY <1>2, <2>1, <2>5
<1>4. ASSUME NEW k \in 1 .. n
      PROVE  /\ SubSeq(v, 1, k) = Append(SubSeq(v, 1, k - 1), v[k])
             /\ SubSeq(v, k, n) = <<v[k]>> \o SubSeq(v, k + 1, n)
  <2>1. k \in 1 .. Len(v) /\ n \in k .. Len(v) /\ 1 \in 1 .. Len(v) /\ k \in 1 .. n + 1
    BY <1>1
  <2>2. SubSeq(v, k, n) = <<v[k]>> \o SubSeq(v, k + 1, n)
    BY <2>1, SubSeqRecursiveFirst
  <2>3. SubSeq(v, 1, k) = SubSeq(v, 1, k - 1) \o <<v[k]>>
    BY <2>1, SubSeqRecursiveSecond
  <2>4. SubSeq(v, 1, k - 1) \in Seq(Data) /\ v[k] \in Data
    BY <1>3, <2>1, ElementOfSeq
  <2> QED
    BY <2>2, <2>3, <2>4, AppendIsConcat
<1> QED
  BY <1>1, <1>3, <1>4

\* The elements that one leaves
LEMMA WithoutElement ==
  \A v, u \in Seq(Data) : \A k \in 1 .. Len(v) :
    (/\ Len(u) = Len(v) - 1
     /\ \A i \in 1 .. Len(v) - 1 : u[i] = IF i < k THEN v[i] ELSE v[i + 1]) =>
      /\ SubSeq(u, 1, k - 1) = SubSeq(v, 1, k - 1)
      /\ SubSeq(u, k, Len(u)) = SubSeq(v, k + 1, Len(v))
      /\ u = RemoveAt(v, k)
<1> SUFFICES ASSUME NEW v \in Seq(Data), NEW u \in Seq(Data), NEW k \in 1 .. Len(v),
                    Len(u) = Len(v) - 1,
                    \A i \in 1 .. Len(v) - 1 : u[i] = IF i < k THEN v[i] ELSE v[i + 1]
             PROVE  /\ SubSeq(u, 1, k - 1) = SubSeq(v, 1, k - 1)
                    /\ SubSeq(u, k, Len(u)) = SubSeq(v, k + 1, Len(v))
                    /\ u = RemoveAt(v, k)
  OBVIOUS
<1>1. PICK n \in Nat : n = Len(v)
  BY LenProperties
<1>2. k \in 1 .. n /\ Len(u) = n - 1 /\ \A i \in 1 .. n - 1 : u[i] = IF i < k THEN v[i] ELSE v[i + 1]
  BY <1>1
<1>3. (\A i \in 1 .. n : v[i] \in Data) /\ \A i \in 1 .. n - 1 : u[i] \in Data
  BY <1>1, <1>2, ElementOfSeq
<1>4. SubSeq(u, 1, k - 1) = SubSeq(v, 1, k - 1)
  <2>1. 1 \in Int /\ k - 1 \in Int /\ \A i \in 1 .. k - 1 : i \in 1 .. n /\ i \in 1 .. n - 1 /\ i < k
    BY <1>2
  <2> DEFINE s == SubSeq(u, 1, k - 1)
             w == SubSeq(v, 1, k - 1)
             m == IF 1 <= k - 1 THEN k - 1 - 1 + 1 ELSE 0
  <2>2. /\ s \in Seq(Data) /\ Len(s) = m
        /\ \A i \in 1 .. k - 1 - 1 + 1 : s[i] = u[1 + i - 1]
    BY <1>3, <2>1, SubSeqProperties
  <2>3. /\ w \in Seq(Data) /\ Len(w) = m
        /\ \A i \in 1 .. k - 1 - 1 + 1 : w[i] = v[1 + i - 1]
    BY <1>3, <2>1, SubSeqProperties
  <2> HIDE DEF s, w
  <2>4. \A i \in 1 .. m : i \in 1 .. k - 1 - 1 + 1 /\ 1 + i - 1 = i /\ i \in 1 .. k - 1
    BY <1>2
  <2> HIDE DEF m
  <2>5. \A i \in 1 .. m : s[i] = w[i]
    BY <1>2, <2>1, <2>2, <2>3, <2>4
  <2>6. s = w
    BY <2>2, <2>3, <2>5, SeqEqual
  <2> QED
    BY <2>6 DEF s, w
<1>5. SubSeq(u, k, n - 1) = SubSeq(v, k + 1, n)
  <2>1. /\ k \in Int /\ n - 1 \in Int /\ k + 1 \in Int /\ n \in Int
        /\ \A i \in k .. n - 1 : i \in 1 .. n - 1
        /\ \A i \in k + 1 .. n : i \in 1 .. n
    BY <1>2
  <2> DEFINE s == SubSeq(u, k, n - 1)
             w == SubSeq(v, k + 1, n)
             m == n - k
  <2>2. /\ s \in Seq(Data) /\ Len(s) = IF k <= n - 1 THEN n - 1 - k + 1 ELSE 0
        /\ \A i \in 1 .. n - 1 - k + 1 : s[i] = u[k + i - 1]
    BY <1>3, <2>1, SubSeqProperties
  <2>3. /\ w \in Seq(Data) /\ Len(w) = IF k + 1 <= n THEN n - (k + 1) + 1 ELSE 0
        /\ \A i \in 1 .. n - (k + 1) + 1 : w[i] = v[k + 1 + i - 1]
    BY <1>3, <2>1, SubSeqProperties
  <2> HIDE DEF s, w
  <2>4. Len(s) = m /\ Len(w) = m
    <3>1. (IF k <= n - 1 THEN n - 1 - k + 1 ELSE 0) = n - k
      BY <1>2
    <3>2. (IF k + 1 <= n THEN n - (k + 1) + 1 ELSE 0) = n - k
      BY <1>2
    <3> QED
      BY <2>2, <2>3, <3>1, <3>2
  <2>5. \A i \in 1 .. m : /\ i \in 1 .. n - 1 - k + 1 /\ i \in 1 .. n - (k + 1) + 1
                          /\ k + i - 1 \in 1 .. n - 1 /\ ~(k + i - 1 < k)
                          /\ k + 1 + i - 1 = k + i - 1 + 1
    BY <1>2
  <2> HIDE DEF m
  <2>6. \A i \in 1 .. m : s[i] = w[i]
    <3> TAKE i \in 1 .. m
    <3>1. PICK j \in 1 .. n - 1 : j = k + i - 1 /\ ~(j < k) /\ k + 1 + i - 1 = j + 1
      BY <2>5
    <3>2. s[i] = u[j] /\ w[i] = v[j + 1]
      BY <2>2, <2>3, <2>5, <3>1
    <3> QED
      BY <1>2, <3>1, <3>2
  <2>7. s = w
    BY <2>2, <2>3, <2>4, <2>6, SeqEqual
  <2> QED
    BY <2>7 DEF s, w
<1>6. u = RemoveAt(v, k)
  <2>1. k \in 1 .. Len(u) + 1
    <3>1. n - 1 + 1 = n
      OBVIOUS
    <3> QED
      BY <1>2, <3>1
  <2>2. u = SubSeq(u, 1, k - 1) \o SubSeq(u, k, Len(u))
    BY <2>1, SplitAt
  <2> QED
    BY <1>1, <1>2, <1>4, <1>5, <2>2 DEF RemoveAt
<1> QED
  BY <1>1, <1>2, <1>4, <1>5, <1>6

-----------------------------------------------------------------------------
(* What Unselected computes, element by element *)

KeepStep(list, selected, f, n) ==
  IF n = 0 THEN <<>>
  ELSE IF list[n] \in selected THEN f[n - 1] ELSE Append(f[n - 1], list[n])

Keeps(list, selected, n, f) == f = [m \in 0 .. n |-> KeepStep(list, selected, f, m)]

LEMMA SomethingKeeps ==
  \A list, selected : \A n \in Nat : \E f : Keeps(list, selected, n, f)
<1> SUFFICES ASSUME NEW list, NEW selected
             PROVE  \A n \in Nat : \E f : Keeps(list, selected, n, f)
  OBVIOUS
<1> DEFINE T == {n \in Nat : ~ \E f : Keeps(list, selected, n, f)}
<1>1. SUFFICES ASSUME T # {} PROVE FALSE
  BY Zenon
<1>2. T \in SUBSET Nat
  OBVIOUS
<1>3. PICK n \in T : \A m \in T : n <= m
  BY <1>1, <1>2, LeastElement
<1>4. n \in Nat /\ ~ \E f : Keeps(list, selected, n, f)
  BY <1>3
<1>5. CASE n = 0
  <2>1. 0 .. 0 = {0}
    OBVIOUS
  <2> DEFINE f == [m \in 0 .. 0 |-> <<>>]
  <2>2. Keeps(list, selected, 0, f)
    BY <2>1 DEF Keeps, KeepStep
  <2> QED
    BY <1>4, <1>5, <2>2
<1>6. CASE n # 0
  <2>1. n - 1 \in Nat /\ ~(n <= n - 1)
    BY <1>4, <1>6
  <2>2. PICK f : Keeps(list, selected, n - 1, f)
    BY <1>3, <2>1
  <2> DEFINE g == [m \in 0 .. n |-> IF m = n THEN KeepStep(list, selected, f, n) ELSE f[m]]
  <2>3. \A m \in 0 .. n : m # n => m \in 0 .. n - 1
    BY <1>4
  <2>4. \A m \in 0 .. n : m # 0 => m - 1 \in 0 .. n /\ m - 1 # n
    BY <1>4
  <2>5. \A m \in 0 .. n : m # 0 => g[m - 1] = f[m - 1]
    BY <2>4
  <2>6. \A m \in 0 .. n : KeepStep(list, selected, g, m) = KeepStep(list, selected, f, m)
    BY <2>5 DEF KeepStep
  <2>7. \A m \in 0 .. n : g[m] = KeepStep(list, selected, f, m)
    BY <2>2, <2>3 DEF Keeps
  <2>8. \A m \in 0 .. n : g[m] = KeepStep(list, selected, g, m)
    BY <2>6, <2>7, Zenon
  <2>9. g = [m \in 0 .. n |-> g[m]]
    OBVIOUS
  <2> HIDE DEF g
  <2>10. Keeps(list, selected, n, g)
    BY <2>8, <2>9 DEF Keeps
  <2> QED
    BY <1>4, <2>10
<1> QED
  BY <1>5, <1>6

\* What is kept of a list depends on the list so far only.
LEMMA KeptAgree ==
  \A list, more, selected, f, g : \A n, m \in Nat :
    (/\ Keeps(list, selected, n, f) /\ Keeps(more, selected, m, g)
     /\ n <= m /\ \A i \in 1 .. n : list[i] = more[i])
      => \A i \in 0 .. n : f[i] = g[i]
<1> SUFFICES ASSUME NEW list, NEW more, NEW selected, NEW f, NEW g, NEW n \in Nat, NEW m \in Nat,
                    Keeps(list, selected, n, f), Keeps(more, selected, m, g),
                    n <= m, \A i \in 1 .. n : list[i] = more[i]
             PROVE  \A i \in 0 .. n : f[i] = g[i]
  OBVIOUS
<1> DEFINE T == {i \in 0 .. n : f[i] # g[i]}
<1>1. SUFFICES ASSUME T # {} PROVE FALSE
  OBVIOUS
<1>2. T \in SUBSET Nat
  OBVIOUS
<1>3. PICK i \in T : \A j \in T : i <= j
  BY <1>1, <1>2, LeastElement
<1>4. i \in 0 .. n /\ i \in 0 .. m /\ f[i] # g[i]
  BY <1>3
<1>5. f[i] = KeepStep(list, selected, f, i) /\ g[i] = KeepStep(more, selected, g, i)
  BY <1>4 DEF Keeps
<1>6. i # 0
  BY <1>4, <1>5 DEF KeepStep
<1>7. i - 1 \in 0 .. n /\ ~(i <= i - 1) /\ i \in 1 .. n
  BY <1>4, <1>6
<1>8. f[i - 1] = g[i - 1]
  BY <1>3, <1>7
<1> QED
  BY <1>4, <1>5, <1>7, <1>8 DEF KeepStep

LEMMA UnselectedMore ==
  \A selected :
    /\ Unselected(<<>>, selected) = <<>>
    /\ \A v \in Seq(Data) : \A d \in Data :
         Unselected(Append(v, d), selected) =
           IF d \in selected THEN Unselected(v, selected) ELSE Append(Unselected(v, selected), d)
<1> SUFFICES ASSUME NEW selected
             PROVE  /\ Unselected(<<>>, selected) = <<>>
                    /\ \A v \in Seq(Data) : \A d \in Data :
                         Unselected(Append(v, d), selected) =
                           IF d \in selected THEN Unselected(v, selected)
                           ELSE Append(Unselected(v, selected), d)
  BY Zenon
<1> DEFINE Kept(list) == CHOOSE f : Keeps(list, selected, Len(list), f)
<1>1. \A list : Unselected(list, selected) = Kept(list)[Len(list)]
  BY Zenon DEF Unselected, Keeps, KeepStep
<1>2. \A list : Len(list) \in Nat => Keeps(list, selected, Len(list), Kept(list))
  <2> SUFFICES ASSUME NEW list, Len(list) \in Nat
               PROVE  Keeps(list, selected, Len(list), Kept(list))
    OBVIOUS
  <2>1. \E f : Keeps(list, selected, Len(list), f)
    BY SomethingKeeps
  <2> QED
    BY <2>1, Zenon
<1> HIDE DEF Kept
<1>3. Unselected(<<>>, selected) = <<>>
  <2>1. Len(<<>>) = 0 /\ 0 \in 0 .. 0
    OBVIOUS
  <2>2. Keeps(<<>>, selected, 0, Kept(<<>>))
    BY <1>2, <2>1
  <2>3. Kept(<<>>)[0] = <<>>
    BY <2>1, <2>2 DEF Keeps, KeepStep
  <2> QED
    BY <1>1, <2>1, <2>3
<1>4. ASSUME NEW v \in Seq(Data), NEW d \in Data
      PROVE  Unselected(Append(v, d), selected) =
               IF d \in selected THEN Unselected(v, selected) ELSE Append(Unselected(v, selected), d)
  <2>1. PICK n \in Nat : n = Len(v)
    BY LenProperties
  <2>2. PICK w : w = Append(v, d)
    OBVIOUS
  <2>3. Len(w) = n + 1 /\ w[n + 1] = d /\ \A i \in 1 .. n : v[i] = w[i]
    BY <2>1, <2>2, AppendProperties
  <2>4. PICK f : f = Kept(v)
    OBVIOUS
  <2>5. PICK g : g = Kept(w)
    OBVIOUS
  <2>6. n + 1 \in Nat /\ n <= n + 1 /\ n \in 0 .. n /\ n + 1 \in 0 .. n + 1 /\ n + 1 - 1 = n /\ n + 1 # 0
    OBVIOUS
  <2>7. Keeps(v, selected, n, f) /\ Keeps(w, selected, n + 1, g)
    BY <1>2, <2>1, <2>3, <2>4, <2>5, <2>6
  <2>8. f[n] = g[n]
    BY <2>3, <2>6, <2>7, KeptAgree
  <2>9. g[n + 1] = KeepStep(w, selected, g, n + 1)
    BY <2>6, <2>7 DEF Keeps
  <2>10. g[n + 1] = IF d \in selected THEN f[n] ELSE Append(f[n], d)
    BY <2>3, <2>6, <2>8, <2>9 DEF KeepStep
  <2>11. Unselected(v, selected) = f[n] /\ Unselected(w, selected) = g[n + 1]
    BY <1>1, <2>1, <2>3, <2>4, <2>5
  <2> QED
    BY <2>2, <2>10, <2>11
<1> QED
  BY <1>3, <1>4

-----------------------------------------------------------------------------
(* What the operations make of the elements *)

LEMMA ElementsOfLinked ==
  ASSUME NEW o, Linked(o), ListTypeOK
  PROVE  /\ o \in Seq(Cells) /\ Len(o) \in Nat
         /\ \A i \in 1 .. Len(o) : o[i] \in Cells /\ o[i] \in live /\ data[o[i]] \in Data
         /\ DataOf(data, o) \in Seq(Data) /\ Len(DataOf(data, o)) = Len(o)
         /\ \A i \in 1 .. Len(o) : DataOf(data, o)[i] = data[o[i]]
<1>1. o \in Seq(Cells) /\ Len(o) \in Nat /\ \A i \in 1 .. Len(o) : o[i] \in Cells
  BY OrderShape DEF Linked
<1>2. \A i \in 1 .. Len(o) : o[i] \in live /\ data[o[i]] \in Data
  BY DEF Linked, ListTypeOK
<1> QED
  BY <1>1, <1>2, DataShape

\* Forward is what the order holds, before a step and after it.
LEMMA ForwardOfLinked ==
  ASSUME NEW o, Linked(o)
  PROVE  Walk(next, head) = o /\ Forward = DataOf(data, o)
<1>1. Walk(next, head) = o
  BY WalkMeets DEF Linked
<1> QED
  BY <1>1 DEF Forward, Values, DataOf

LEMMA ForwardOfLinkedNext ==
  ASSUME NEW o, Linked(o)'
  PROVE  Forward' = DataOf(data', o)
<1>1. /\ o \in Seq(Cells) /\ Distinct(o) /\ head' = At(o, 1)
      /\ \A i \in 1 .. Len(o) : next'[o[i]] = At(o, i + 1)
  BY DEF Linked
<1>2. Walk(next', head') = o
  BY <1>1, WalkMeets
<1> QED
  BY <1>2 DEF Forward, Values, DataOf

\* One cell is freed: its element leaves.
LEMMA ElementsWithout ==
  ASSUME NEW o, Linked(o), ListTypeOK, NEW k \in 1 .. Len(o),
         Linked(Without(o, k))',
         data' = [data EXCEPT ![o[k]] = Null], live' = live \ {o[k]}
  PROVE  /\ data' \in [Cells -> Data \cup {Null}]
         /\ \A c \in live' : data'[c] \in Data
         /\ Without(o, k) \in Seq(Cells) /\ Len(Without(o, k)) = Len(o) - 1
         /\ DataOf(data', Without(o, k)) \in Seq(Data)
         /\ Len(DataOf(data', Without(o, k))) = Len(o) - 1
         /\ SubSeq(DataOf(data', Without(o, k)), 1, k - 1) = SubSeq(DataOf(data, o), 1, k - 1)
         /\ SubSeq(DataOf(data', Without(o, k)), k, Len(o) - 1) = SubSeq(DataOf(data, o), k + 1, Len(o))
         /\ DataOf(data', Without(o, k)) = RemoveAt(DataOf(data, o), k)
<1>1. PICK n \in Nat : n = Len(o)
  BY ElementsOfLinked
<1>2. PICK v : v = DataOf(data, o)
  OBVIOUS
<1>3. PICK w : w = Without(o, k)
  OBVIOUS
<1>4. PICK g : g = data'
  OBVIOUS
<1>5. k \in 1 .. n
  BY <1>1
<1>6. /\ o \in Seq(Cells)
      /\ \A i \in 1 .. n : o[i] \in Cells /\ data[o[i]] \in Data
      /\ v \in Seq(Data) /\ Len(v) = n
      /\ \A i \in 1 .. n : v[i] = data[o[i]]
  BY <1>1, <1>2, ElementsOfLinked
<1>7. /\ w \in Seq(Cells) /\ Len(w) = n - 1
      /\ \A i \in 1 .. n - 1 : w[i] = IF i < k THEN o[i] ELSE o[i + 1]
  BY <1>1, <1>3, <1>6, WithoutShape
<1>8. \A i, j \in 1 .. n : o[i] = o[j] => i = j
  BY <1>1 DEF Linked, Distinct
<1>9. data \in [Cells -> Data \cup {Null}] /\ g = [data EXCEPT ![o[k]] = Null] /\ o[k] \in Cells
  BY <1>4, <1>5, <1>6 DEF ListTypeOK
<1>10. g \in [Cells -> Data \cup {Null}]
  BY <1>9
<1>11. \A c \in live' : g[c] \in Data
  <2>1. live \subseteq Cells /\ \A c \in live : data[c] \in Data
    BY <1>1, <1>6 DEF ListTypeOK, Linked
  <2> QED
    BY <1>9, <2>1
<1>12. \A i \in 1 .. n - 1 : g[w[i]] = (IF i < k THEN v[i] ELSE v[i + 1]) /\ g[w[i]] \in Data
  <2> TAKE i \in 1 .. n - 1
  <2>1. PICK j \in 1 .. n : w[i] = o[j] /\ j # k /\ j = IF i < k THEN i ELSE i + 1
    <3>1. CASE i < k
      BY <1>5, <1>7, <3>1
    <3>2. CASE ~(i < k)
      <4>1. i + 1 \in 1 .. n /\ i + 1 # k
        BY <1>5, <3>2
      <4> QED
        BY <1>7, <3>2, <4>1
    <3> QED
      BY <3>1, <3>2
  <2>2. g[o[j]] = data[o[j]]
    BY <1>5, <1>6, <1>8, <1>9, <2>1
  <2> QED
    BY <1>6, <2>1, <2>2
<1>13. PICK u : u = DataOf(g, w)
  OBVIOUS
<1>14. u \in Seq(Data) /\ Len(u) = n - 1 /\ \A i \in 1 .. n - 1 : u[i] = g[w[i]]
  <2>1. \A i \in 1 .. Len(w) : g[w[i]] \in Data
    BY <1>7, <1>12
  <2>2. u \in Seq(Data) /\ Len(u) = Len(w) /\ \A i \in 1 .. Len(w) : u[i] = g[w[i]]
    BY <1>7, <1>13, <2>1, DataShape
  <2> QED
    BY <1>7, <2>2
<1>15. \A i \in 1 .. n - 1 : u[i] = IF i < k THEN v[i] ELSE v[i + 1]
  BY <1>12, <1>14
<1>16. /\ SubSeq(u, 1, k - 1) = SubSeq(v, 1, k - 1)
       /\ SubSeq(u, k, n - 1) = SubSeq(v, k + 1, n)
       /\ u = RemoveAt(v, k)
  BY <1>5, <1>6, <1>14, <1>15, WithoutElement
<1> QED
  BY <1>1, <1>2, <1>3, <1>4, <1>7, <1>10, <1>11, <1>13, <1>14, <1>16

\* A cell comes in at the end: so does its element.
LEMMA ElementsMore ==
  ASSUME NEW o, Linked(o), ListTypeOK, NEW c \in Cells, NEW d \in Data, DListAppend(c, d)
  PROVE  /\ data' \in [Cells -> Data \cup {Null}]
         /\ \A x \in live' : data'[x] \in Data
         /\ DataOf(data', Append(o, c)) = Append(DataOf(data, o), d)
<1>1. PICK n \in Nat : n = Len(o)
  BY ElementsOfLinked
<1>2. PICK v : v = DataOf(data, o)
  OBVIOUS
<1>3. PICK s : s = Append(o, c)
  OBVIOUS
<1>4. PICK g : g = data'
  OBVIOUS
<1>5. /\ o \in Seq(Cells)
      /\ \A i \in 1 .. n : o[i] \in Cells /\ o[i] \in live /\ data[o[i]] \in Data
      /\ v \in Seq(Data) /\ Len(v) = n
      /\ \A i \in 1 .. n : v[i] = data[o[i]]
  BY <1>1, <1>2, ElementsOfLinked
<1>6. /\ s \in Seq(Cells) /\ Len(s) = n + 1
      /\ \A i \in 1 .. n : s[i] = o[i]
      /\ s[n + 1] = c
  BY <1>1, <1>3, <1>5, AppendProperties
<1>7. /\ data \in [Cells -> Data \cup {Null}] /\ g = [data EXCEPT ![c] = d]
      /\ c \notin live /\ live' = live \cup {c}
  BY <1>4 DEF ListTypeOK, DListAppend
<1>8. g \in [Cells -> Data \cup {Null}]
  BY <1>7
<1>9. \A x \in live' : g[x] \in Data
  BY <1>7, <1>8 DEF ListTypeOK, Linked
<1>10. PICK t : t = Append(v, d)
  OBVIOUS
<1>11. /\ t \in Seq(Data) /\ Len(t) = n + 1
       /\ \A i \in 1 .. n : t[i] = v[i]
       /\ t[n + 1] = d
  BY <1>5, <1>10, AppendProperties
<1>12. \A i \in 1 .. n + 1 : i \in 1 .. n \/ i = n + 1
  OBVIOUS
<1>13. \A i \in 1 .. n + 1 : g[s[i]] = t[i] /\ g[s[i]] \in Data
  BY <1>5, <1>6, <1>7, <1>11, <1>12
<1>14. /\ DataOf(g, s) \in Seq(Data) /\ Len(DataOf(g, s)) = n + 1
       /\ \A i \in 1 .. n + 1 : DataOf(g, s)[i] = t[i]
  BY <1>6, <1>13, DataShape
<1>15. DataOf(g, s) = t
  BY <1>11, <1>14, SeqEqual
<1> QED
  BY <1>2, <1>3, <1>4, <1>8, <1>9, <1>10, <1>15

-----------------------------------------------------------------------------
(* The invariant: the list has an order, in which dlist_sort and             *)
(* iterator_reject have got somewhere                                        *)

NoneGreaterBefore(o, j) ==
  \A i \in 1 .. Len(o) : i < j => Key[data[o[i]]] <= Key[data[o[j]]]

\* The pass is at p and will stop before b: those from b on are in their place,
\* the greatest so far is at p, and nothing is out of order up to there if
\* nothing has been exchanged.
SortAt(o, p, b) ==
  /\ p < b
  /\ cur = o[p] /\ bound = At(o, b)
  /\ swapped => p > 1
  /\ \A j \in 1 .. Len(o) : b <= j \/ j = p \/ (~swapped /\ j < p) => NoneGreaterBefore(o, j)

SortInv(o) ==
  mode = "sorting" => \E p \in 1 .. Len(o), b \in 2 .. Len(o) + 1 : SortAt(o, p, b)

\* The iterator is on k: the callback was called on what is before k, or was
\* there, and what is before k now is what it did not select.
RejectAt(o, k) ==
  LET elements == DataOf(data, o) IN
  /\ it = At(o, k)
  /\ visited \o SubSeq(elements, k, Len(o)) = before
  /\ SubSeq(elements, 1, k - 1) = Unselected(visited, reject)

RejectInv(o) == mode = "rejecting" => \E k \in 1 .. Len(o) + 1 : RejectAt(o, k)

OrderInv(o) == Linked(o) /\ SortInv(o) /\ RejectInv(o)

ListInv == ListTypeOK /\ \E o \in Seq(Cells) : OrderInv(o)

LEMMA SameOrder ==
  ASSUME NEW o, Linked(o), UNCHANGED <<live, next, prev, head, tail, length>>
  PROVE  Linked(o)'
BY DEF Linked

\* dlist_sort compares two neighbours.
LEMMA CompareKeeps ==
  ASSUME ListTypeOK, NEW o, Linked(o),
         NEW p \in 1 .. Len(o), NEW b \in 2 .. Len(o) + 1, SortAt(o, p, b), SortCompare
  PROVE  /\ ListTypeOK' /\ Linked(o)'
         /\ p + 1 \in 1 .. Len(o) /\ SortAt(o, p + 1, b)'
         /\ \/ DataOf(data', o) = DataOf(data, o)
            \/ LET v == DataOf(data, o) IN
               /\ Key[v[p]] > Key[v[p + 1]]
               /\ DataOf(data', o) = [v EXCEPT ![p] = v[p + 1], ![p + 1] = v[p]]
<1>1. PICK n \in Nat : n = Len(o)
  BY ElementsOfLinked
<1>2. PICK q \in Nat : q = p + 1
  <2>1. p + 1 \in Nat
    BY <1>1
  <2> QED
    BY <2>1
<1>3. PICK v : v = DataOf(data, o)
  OBVIOUS
<1>4. PICK g : g = data'
  OBVIOUS
<1>5. p \in 1 .. n /\ b \in 2 .. n + 1
  BY <1>1
<1>6. /\ o \in Seq(Cells)
      /\ \A i \in 1 .. n : o[i] \in Cells /\ o[i] \in live /\ data[o[i]] \in Data
      /\ v \in Seq(Data) /\ Len(v) = n
      /\ \A i \in 1 .. n : v[i] = data[o[i]] /\ v[i] \in Data
  BY <1>1, <1>3, ElementsOfLinked
<1>7. \A i, j \in 1 .. n : o[i] = o[j] => i = j
  BY <1>1 DEF Linked, Distinct
<1>8. /\ p < b /\ cur = o[p] /\ bound = At(o, b)
      /\ \A j \in 1 .. n : b <= j \/ j = p \/ (~swapped /\ j < p) =>
           \A i \in 1 .. n : i < j => Key[v[i]] <= Key[v[j]]
  <2>1. /\ p < b /\ cur = o[p] /\ bound = At(o, b)
        /\ \A j \in 1 .. n : b <= j \/ j = p \/ (~swapped /\ j < p) =>
             \A i \in 1 .. n : i < j => Key[data[o[i]]] <= Key[data[o[j]]]
    BY <1>1 DEF SortAt, NoneGreaterBefore
  <2> QED
    BY <1>6, <2>1
<1>9. next[cur] = At(o, q)
  BY <1>1, <1>2, <1>8 DEF Linked
<1>10. q \in 1 .. n /\ q < b /\ next[cur] = o[q] /\ q # p /\ q > 1
  <2>1. q # b
    BY <1>8, <1>9 DEF SortCompare
  <2>2. q \in 1 .. n /\ q < b /\ q # p /\ q > 1
    BY <1>2, <1>5, <1>8, <2>1
  <2> QED
    BY <1>1, <1>9, <2>2 DEF At
<1>11. p \in 1 .. n /\ q \in 1 .. n /\ b \in 2 .. n + 1 /\ p < b /\ q < b
  BY <1>5, <1>8, <1>10
<1>12. \A i, j \in 1 .. n :
         /\ Key[v[i]] > Key[v[j]] => Key[v[j]] <= Key[v[i]]
         /\ ~(Key[v[i]] > Key[v[j]]) => Key[v[i]] <= Key[v[j]]
  <2>1. \A x, y \in Int : (x > y => y <= x) /\ (~(x > y) => x <= y)
    OBVIOUS
  <2>2. \A i \in 1 .. n : Key[v[i]] \in Int
    BY <1>6, KeyAssumption
  <2> QED
    BY <2>1, <2>2, Zenon
<1>13. o[p] \in Cells /\ o[q] \in Cells /\ o[p] # o[q] /\ data \in [Cells -> Data \cup {Null}]
  BY <1>5, <1>6, <1>7, <1>10 DEF ListTypeOK
<1>14. \A i \in 1 .. n : Key[v[i]] \in Int
  BY <1>6, KeyAssumption
<1>15. Linked(o)'
  BY SameOrder DEF SortCompare
<1>16. cur' = o[q] /\ bound' = At(o, b) /\ mode = "sorting" /\ UNCHANGED mode
  BY <1>8, <1>10 DEF SortCompare
<1>17. CASE Key[v[p]] > Key[v[q]]
  <2>1. swapped' = TRUE /\ g = [data EXCEPT ![o[p]] = v[q], ![o[q]] = v[p]]
    BY <1>4, <1>5, <1>6, <1>8, <1>10, <1>17 DEF SortCompare
  <2>2. /\ g \in [Cells -> Data \cup {Null}]
        /\ \A i \in 1 .. n : g[o[i]] = IF i = p THEN v[q] ELSE IF i = q THEN v[p] ELSE v[i]
    BY <1>5, <1>6, <1>7, <1>10, <1>13, <2>1
  <2>3. \A c \in live' : g[c] \in Data
    <3>1. live' = {o[i] : i \in 1 .. n}
      BY <1>1 DEF Linked, SortCompare
    <3> QED
      BY <1>5, <1>6, <1>10, <2>2, <3>1
  <2>4. ListTypeOK'
    <3>1. data' \in [Cells -> Data \cup {Null}] /\ \A c \in live' : data'[c] \in Data
      BY <1>4, <2>2, <2>3
    <3>2. UNCHANGED <<next, prev, mode, reject, visited, before>>
      BY DEF SortCompare, iterVars
    <3> QED
      BY <2>1, <3>1, <3>2 DEF ListTypeOK
  <2>5. \A j \in 1 .. n : b <= j \/ j = q =>
          \A i \in 1 .. n : i < j => Key[g[o[i]]] <= Key[g[o[j]]]
    <3> SUFFICES ASSUME NEW j \in 1 .. n, b <= j \/ j = q, NEW i \in 1 .. n, i < j
                 PROVE  Key[g[o[i]]] <= Key[g[o[j]]]
      OBVIOUS
    <3>1. CASE b <= j
      <4>1. j # p /\ j # q /\ p < j /\ q < j
        BY <1>11, <3>1
      <4>2. /\ Key[v[i]] <= Key[v[j]] /\ Key[v[p]] <= Key[v[j]] /\ Key[v[q]] <= Key[v[j]]
        BY <1>5, <1>8, <1>10, <3>1, <4>1
      <4> QED
        BY <2>2, <4>1, <4>2
    <3>2. CASE j = q
      <4>1. g[o[j]] = v[p]
        BY <1>10, <2>2, <3>2
      <4>2. i = p \/ i < p
        BY <1>2, <1>5, <3>2
      <4>3. CASE i = p
        <5>1. g[o[i]] = v[q]
          BY <2>2, <4>3
        <5> QED
          BY <1>17, <1>11, <1>12, <4>1, <5>1
      <4>4. CASE i < p
        <5>1. g[o[i]] = v[i]
          BY <1>2, <1>5, <2>2, <4>4
        <5>2. Key[v[i]] <= Key[v[p]]
          BY <1>5, <1>8, <4>4
        <5> QED
          BY <4>1, <5>1, <5>2
      <4> QED
        BY <4>2, <4>3, <4>4
    <3> QED
      BY <3>1, <3>2
  <2>6. SortAt(o, q, b)'
    BY <1>1, <1>4, <1>10, <1>16, <2>1, <2>5 DEF SortAt, NoneGreaterBefore
  <2>7. DataOf(g, o) = [v EXCEPT ![p] = v[q], ![q] = v[p]]
    <3>1. \A i \in 1 .. n : g[o[i]] \in Data
      BY <1>5, <1>6, <1>10, <2>2
    <3> DEFINE u == [v EXCEPT ![p] = v[q], ![q] = v[p]]
    <3>2. v \in [1 .. n -> Data] /\ n \in Nat
      BY <1>6, LenProperties
    <3>3. u \in [1 .. n -> Data]
      BY <1>5, <1>10, <3>2
    <3>5. \A i \in 1 .. n : u[i] = IF i = p THEN v[q] ELSE IF i = q THEN v[p] ELSE v[i]
      BY <1>5, <1>10, <3>2
    <3> HIDE DEF u
    <3>4. u \in Seq(Data) /\ Len(u) = n
      BY <3>2, <3>3
    <3>6. /\ DataOf(g, o) \in Seq(Data) /\ Len(DataOf(g, o)) = n
          /\ \A i \in 1 .. n : DataOf(g, o)[i] = g[o[i]]
      BY <1>1, <1>6, <3>1, DataShape
    <3>7. DataOf(g, o) = u
      BY <2>2, <3>4, <3>5, <3>6, SeqEqual
    <3> QED
      BY <3>7 DEF u
  <2> QED
    BY <1>1, <1>2, <1>3, <1>4, <1>10, <1>15, <1>17, <2>4, <2>6, <2>7
<1>18. CASE ~(Key[v[p]] > Key[v[q]])
  <2>1. UNCHANGED <<data, swapped>>
    BY <1>5, <1>6, <1>8, <1>10, <1>18 DEF SortCompare
  <2>2. ListTypeOK'
    <3>1. UNCHANGED <<live, next, prev, mode, reject, visited, before>>
      BY DEF SortCompare, iterVars
    <3> QED
      BY <2>1, <3>1 DEF ListTypeOK
  <2>3. Key[v[p]] <= Key[v[q]]
    BY <1>18, <1>11, <1>12
  <2>4. \A j \in 1 .. n : b <= j \/ j = q \/ (~swapped /\ j < q) =>
          \A i \in 1 .. n : i < j => Key[v[i]] <= Key[v[j]]
    <3> SUFFICES ASSUME NEW j \in 1 .. n, b <= j \/ j = q \/ (~swapped /\ j < q),
                        NEW i \in 1 .. n, i < j
                 PROVE  Key[v[i]] <= Key[v[j]]
      OBVIOUS
    <3>1. CASE j = q
      <4>1. i = p \/ i < p
        BY <1>2, <1>5, <3>1
      <4>2. i < p => Key[v[i]] <= Key[v[p]]
        BY <1>5, <1>8
      <4>3. Key[v[i]] \in Int /\ Key[v[p]] \in Int /\ Key[v[q]] \in Int
        BY <1>5, <1>10, <1>14
      <4> QED
        BY <2>3, <3>1, <4>1, <4>2, <4>3
    <3>2. CASE j # q
      <4>1. j < q => j = p \/ j < p
        BY <1>2, <1>5
      <4> QED
        BY <1>8, <3>2, <4>1
    <3> QED
      BY <3>1, <3>2
  <2>5. SortAt(o, q, b)'
    <3>1. \A j \in 1 .. n : b <= j \/ j = q \/ (~swapped' /\ j < q) =>
            \A i \in 1 .. n : i < j => Key[data'[o[i]]] <= Key[data'[o[j]]]
      BY <1>6, <2>1, <2>4
    <3> QED
      BY <1>1, <1>10, <1>16, <3>1 DEF SortAt, NoneGreaterBefore
  <2> QED
    BY <1>1, <1>2, <1>10, <1>15, <2>1, <2>2, <2>5
<1> QED
  BY <1>17, <1>18

\* A pass ends: another starts, that stops where this one did, or the list is sorted.
LEMMA PassKeeps ==
  ASSUME ListTypeOK, NEW o, Linked(o),
         NEW p \in 1 .. Len(o), NEW b \in 2 .. Len(o) + 1, SortAt(o, p, b), SortPass
  PROVE  /\ mode' = "sorting" =>
              \E p2 \in 1 .. Len(o), b2 \in 2 .. Len(o) + 1 : SortAt(o, p2, b2)'
         /\ mode' = "idle" => \A j \in 1 .. Len(o) : NoneGreaterBefore(o, j)
<1>1. PICK n \in Nat : n = Len(o)
  BY ElementsOfLinked
<1>2. p \in 1 .. n /\ b \in 2 .. n + 1 /\ p + 1 \in Int
  BY <1>1
<1>3. /\ p < b /\ cur = o[p] /\ bound = At(o, b) /\ (swapped => p > 1)
      /\ \A j \in 1 .. n : b <= j \/ j = p \/ (~swapped /\ j < p) => NoneGreaterBefore(o, j)
  BY <1>1 DEF SortAt
<1>4. next[cur] = At(o, p + 1)
  BY <1>3 DEF Linked
<1>5. b = p + 1
  <2>1. /\ \A i \in 1 .. n : o[i] # Null /\ At(o, i) = o[i]
        /\ \A i \in Int : i < 1 \/ i > n => At(o, i) = Null
    BY <1>1, OrderShape DEF Linked
  <2>2. \A i, j \in 1 .. n : o[i] = o[j] => i = j
    BY <1>1 DEF Linked, Distinct
  <2>3. At(o, p + 1) = At(o, b)
    BY <1>3, <1>4 DEF SortPass
  <2>4. CASE b = n + 1
    <3>1. ~(p + 1 \in 1 .. n)
      <4>1. b \in Int /\ b > n
        BY <1>2, <2>4
      <4>2. At(o, b) = Null
        BY <2>1, <4>1
      <4> QED
        BY <2>1, <2>3, <4>2
    <3> QED
      BY <1>2, <2>4, <3>1
  <2>5. CASE b # n + 1
    <3>1. b \in 1 .. n /\ p + 1 \in 1 .. n
      BY <1>2, <1>3, <2>5
    <3> QED
      BY <2>1, <2>2, <2>3, <3>1
  <2> QED
    BY <2>4, <2>5
<1>6. UNCHANGED data /\ swapped' = FALSE /\ UNCHANGED head
  BY DEF SortPass, linkVars
<1>7. CASE swapped
  <2>1. cur' = head /\ bound' = o[p] /\ mode' = "sorting"
    BY <1>3, <1>7 DEF SortPass
  <2>2. 1 \in 1 .. n /\ p \in 2 .. n + 1 /\ 1 < p /\ p \in 1 .. n
    BY <1>2, <1>3, <1>7
  <2>3. head = o[1] /\ At(o, p) = o[p]
    BY <1>1, <2>2 DEF Linked, At
  <2>4. \A j \in 1 .. n : p <= j \/ j = 1 => NoneGreaterBefore(o, j)
    <3> SUFFICES ASSUME NEW j \in 1 .. n, p <= j \/ j = 1 PROVE NoneGreaterBefore(o, j)
      OBVIOUS
    <3>1. CASE j = 1
      BY <1>1, <3>1 DEF NoneGreaterBefore
    <3>2. CASE p <= j
      <4>1. j = p \/ b <= j
        BY <1>2, <1>5, <3>2
      <4> QED
        BY <1>3, <4>1
    <3> QED
      BY <3>1, <3>2
  <2>5. \A j \in 1 .. n : p <= j \/ j = 1 \/ (~swapped' /\ j < 1) => NoneGreaterBefore(o, j)'
    <3>1. \A j \in 1 .. n : NoneGreaterBefore(o, j)' <=> NoneGreaterBefore(o, j)
      BY <1>6 DEF NoneGreaterBefore
    <3>2. \A j \in 1 .. n : ~(j < 1)
      OBVIOUS
    <3> QED
      BY <2>4, <3>1, <3>2
  <2>6. SortAt(o, 1, p)'
    BY <1>1, <1>6, <2>1, <2>2, <2>3, <2>5 DEF SortAt
  <2> QED
    BY <1>1, <2>1, <2>2, <2>6
<1>8. CASE ~swapped
  <2>1. mode' = "idle"
    BY <1>8 DEF SortPass
  <2>2. \A j \in 1 .. n : b <= j \/ j = p \/ j < p
    BY <1>2, <1>5
  <2> QED
    BY <1>1, <1>3, <1>8, <2>1, <2>2
<1> QED
  BY <1>7, <1>8

LEMMA OneMore ==
  \A s, t \in Seq(Data) : \A d \in Data : Append(s, d) \o t = s \o (<<d>> \o t)
<1> SUFFICES ASSUME NEW s \in Seq(Data), NEW t \in Seq(Data), NEW d \in Data
             PROVE  Append(s, d) \o t = s \o (<<d>> \o t)
  OBVIOUS
<1>1. PICK e : e = <<d>>
  OBVIOUS
<1>2. e \in Seq(Data)
  BY <1>1
<1>3. Append(s, d) = s \o e
  BY <1>1, AppendIsConcat
<1>4. (s \o e) \o t = s \o (e \o t)
  BY <1>2, ConcatAssociative
<1> QED
  BY <1>1, <1>3, <1>4

\* iterator_reject leaves an element: the iterator moves to the next.
LEMMA KeepKeeps ==
  ASSUME ListTypeOK, NEW o, Linked(o), mode = "rejecting",
         NEW k \in 1 .. Len(o) + 1, RejectAt(o, k), RejectKeep
  PROVE  ListTypeOK' /\ Linked(o)' /\ k + 1 \in 1 .. Len(o) + 1 /\ RejectAt(o, k + 1)'
<1>1. PICK n \in Nat : n = Len(o)
  BY ElementsOfLinked
<1>2. PICK v : v = DataOf(data, o)
  OBVIOUS
<1>3. /\ \A i \in 1 .. n : data[o[i]] \in Data /\ v[i] = data[o[i]]
      /\ v \in Seq(Data) /\ Len(v) = n
  BY <1>1, <1>2, ElementsOfLinked
<1>4. /\ it = At(o, k)
      /\ visited \o SubSeq(v, k, n) = before
      /\ SubSeq(v, 1, k - 1) = Unselected(visited, reject)
  BY <1>1, <1>2 DEF RejectAt
<1>5. k \in 1 .. n /\ it = o[k]
  <2>1. it # Null
    BY DEF RejectKeep
  <2> QED
    BY <1>1, <1>4, <2>1 DEF At
<1>6. PICK d \in Data : d = data[it] /\ d = v[k]
  BY <1>3, <1>5
<1>7. /\ UNCHANGED <<live, next, prev, data, head, tail, length, mode, swapped, reject, before>>
      /\ visited' = Append(visited, d) /\ it' = next[it] /\ d \notin reject
  BY <1>6 DEF RejectKeep, linkVars, sortVars
<1>8. visited \in Seq(Data)
  BY DEF ListTypeOK
<1>9. ListTypeOK'
  <2>1. visited' \in Seq(Data)
    BY <1>7, <1>8, AppendProperties
  <2> QED
    BY <1>7, <2>1 DEF ListTypeOK
<1>10. Linked(o)'
  BY <1>7, SameOrder
<1>11. it' = At(o, k + 1)
  BY <1>1, <1>5, <1>7 DEF Linked
<1>12. /\ SubSeq(v, 1, k) = Append(SubSeq(v, 1, k - 1), d)
       /\ SubSeq(v, k, n) = <<d>> \o SubSeq(v, k + 1, n)
  BY <1>3, <1>5, <1>6, SplitAt
<1>13. visited' \o SubSeq(v, k + 1, n) = before
  <2>1. k + 1 \in 1 .. n + 1
    BY <1>5
  <2>2. SubSeq(v, k + 1, n) \in Seq(Data)
    BY <1>3, <2>1, SplitAt
  <2>3. Append(visited, d) \o SubSeq(v, k + 1, n) = visited \o (<<d>> \o SubSeq(v, k + 1, n))
    BY <1>8, <2>2, OneMore
  <2> QED
    BY <1>4, <1>7, <1>12, <2>3
<1>14. SubSeq(v, 1, k) = Unselected(visited', reject)
  <2>1. Unselected(Append(visited, d), reject) =
          IF d \in reject THEN Unselected(visited, reject) ELSE Append(Unselected(visited, reject), d)
    BY <1>8, UnselectedMore
  <2> QED
    BY <1>4, <1>7, <1>12, <2>1
<1>15. RejectAt(o, k + 1)'
  <2>1. PICK j : j = k + 1
    OBVIOUS
  <2>2. SubSeq(v, 1, j - 1) = Unselected(visited', reject')
    <3>1. j - 1 = k
      BY <1>5, <2>1
    <3> QED
      BY <1>7, <1>14, <3>1
  <2>3. it' = At(o, j) /\ visited' \o SubSeq(v, j, n) = before'
    BY <1>7, <1>11, <1>13, <2>1
  <2>4. DataOf(data', o) = v
    BY <1>2, <1>7
  <2>5. RejectAt(o, j)'
    BY <1>1, <2>2, <2>3, <2>4 DEF RejectAt
  <2> QED
    BY <2>1, <2>5
<1>16. k + 1 \in 1 .. n + 1
  BY <1>5
<1> QED
  BY <1>1, <1>9, <1>10, <1>15, <1>16

\* iterator_reject deletes one: the iterator is on the one that followed it.
LEMMA DeleteKeeps ==
  ASSUME ListTypeOK, NEW o, Linked(o), mode = "rejecting",
         NEW k \in 1 .. Len(o) + 1, RejectAt(o, k), RejectDelete
  PROVE  /\ ListTypeOK' /\ k \in 1 .. Len(o)
         /\ Without(o, k) \in Seq(Cells) /\ Linked(Without(o, k))'
         /\ k \in 1 .. Len(Without(o, k)) + 1 /\ RejectAt(Without(o, k), k)'
         /\ DataOf(data', Without(o, k)) = RemoveAt(DataOf(data, o), k)
<1>1. PICK n \in Nat : n = Len(o)
  BY ElementsOfLinked
<1>2. PICK v : v = DataOf(data, o)
  OBVIOUS
<1>3. /\ \A i \in 1 .. n : data[o[i]] \in Data /\ v[i] = data[o[i]]
      /\ v \in Seq(Data) /\ Len(v) = n
  BY <1>1, <1>2, ElementsOfLinked
<1>4. /\ it = At(o, k)
      /\ visited \o SubSeq(v, k, n) = before
      /\ SubSeq(v, 1, k - 1) = Unselected(visited, reject)
  BY <1>1, <1>2 DEF RejectAt
<1>5. k \in 1 .. n /\ it = o[k]
  <2>1. it # Null
    BY DEF RejectDelete
  <2> QED
    BY <1>1, <1>4, <2>1 DEF At
<1>6. PICK d \in Data : d = data[it] /\ d = v[k]
  BY <1>3, <1>5
<1>7. /\ UNCHANGED <<mode, swapped, reject, before>>
      /\ visited' = Append(visited, d) /\ it' = AfterDelete(it) /\ d \in reject
      /\ Unlink(o[k])
  BY <1>5, <1>6 DEF RejectDelete, sortVars
<1>8. data' = [data EXCEPT ![o[k]] = Null] /\ live' = live \ {o[k]}
  BY <1>7, Zenon DEF Unlink, Free
<1>9. /\ Linked(Without(o, k))'
      /\ next' \in [Cells -> Cells \cup {Null}] /\ prev' \in [Cells -> Cells \cup {Null}]
      /\ At(o, k - 1) # Null => next'[At(o, k - 1)] = At(o, k + 1)
  BY <1>1, <1>5, <1>7, UnlinkEffect
<1>10. PICK w : w = Without(o, k)
  OBVIOUS
<1>11. PICK u : u = DataOf(data', w)
  OBVIOUS
<1>12. /\ data' \in [Cells -> Data \cup {Null}] /\ \A c \in live' : data'[c] \in Data
       /\ w \in Seq(Cells) /\ Len(w) = n - 1
       /\ SubSeq(u, 1, k - 1) = SubSeq(v, 1, k - 1)
       /\ SubSeq(u, k, n - 1) = SubSeq(v, k + 1, n)
       /\ u = RemoveAt(v, k)
  BY <1>1, <1>2, <1>5, <1>8, <1>9, <1>10, <1>11, ElementsWithout
<1>13. visited \in Seq(Data) /\ reject \subseteq Data /\ before \in Seq(Data)
  BY DEF ListTypeOK
<1>14. ListTypeOK'
  <2>1. visited' \in Seq(Data)
    BY <1>7, <1>13, AppendProperties
  <2>2. mode' = "rejecting" /\ swapped' \in BOOLEAN /\ reject' \subseteq Data /\ before' \in Seq(Data)
    BY <1>7 DEF ListTypeOK
  <2> QED
    BY <1>9, <1>12, <2>1, <2>2 DEF ListTypeOK
<1>15. it' = At(w, k)
  <2>1. next[it] = At(o, k + 1) /\ prev[it] = At(o, k - 1)
    BY <1>1, <1>5 DEF Linked
  <2>2. it' = At(o, k + 1)
    BY <1>7, <1>9, <2>1 DEF AfterDelete
  <2>3. At(Without(o, k), k) = IF k < k THEN At(o, k) ELSE At(o, k + 1)
    <3>1. k \in Int /\ k \in 1 .. Len(o) /\ o \in Seq(Cells)
      BY <1>1, <1>5 DEF Linked
    <3> QED
      BY <3>1, WithoutShape
  <2>4. ~(k < k)
    BY <1>5
  <2> QED
    BY <1>10, <2>2, <2>3, <2>4
<1>16. /\ SubSeq(v, 1, k) = Append(SubSeq(v, 1, k - 1), d)
       /\ SubSeq(v, k, n) = <<d>> \o SubSeq(v, k + 1, n)
  BY <1>3, <1>5, <1>6, SplitAt
<1>17. visited' \o SubSeq(u, k, n - 1) = before
  <2>1. k + 1 \in 1 .. n + 1
    BY <1>5
  <2>2. SubSeq(v, k + 1, n) \in Seq(Data)
    BY <1>3, <2>1, SplitAt
  <2>3. Append(visited, d) \o SubSeq(v, k + 1, n) = visited \o (<<d>> \o SubSeq(v, k + 1, n))
    BY <1>13, <2>2, OneMore
  <2> QED
    BY <1>4, <1>7, <1>12, <1>16, <2>3
<1>18. SubSeq(u, 1, k - 1) = Unselected(visited', reject)
  BY <1>4, <1>7, <1>12, <1>13, UnselectedMore
<1>19. RejectAt(w, k)'
  BY <1>7, <1>11, <1>12, <1>15, <1>17, <1>18 DEF RejectAt
<1>20. k \in 1 .. Len(w) + 1
  <2>1. n - 1 + 1 = n
    OBVIOUS
  <2> QED
    BY <1>5, <1>12, <2>1
<1> QED
  BY <1>1, <1>2, <1>5, <1>9, <1>10, <1>11, <1>12, <1>14, <1>19, <1>20

-----------------------------------------------------------------------------
(* Every step keeps the invariant, and is one of the promise or none *)

PromiseStep ==
  Promise!Put \/ Promise!Delete \/ Promise!Empty \/ Promise!Exchange \/ UNCHANGED Forward

LEMMA IdleAgain ==
  ASSUME NEW o \in Seq(Cells), ListTypeOK', Linked(o)', mode' = "idle"
  PROVE  ListInv'
BY DEF ListInv, OrderInv, SortInv, RejectInv

\* What an operation that takes effect at once leaves alone
LEMMA CalledType ==
  ASSUME ListTypeOK, Called,
         next' \in [Cells -> Cells \cup {Null}], prev' \in [Cells -> Cells \cup {Null}],
         data' \in [Cells -> Data \cup {Null}], \A c \in live' : data'[c] \in Data
  PROVE  ListTypeOK' /\ mode' = "idle"
BY DEF ListTypeOK, Called, sortVars, iterVars

LEMMA AppendKeeps ==
  ASSUME ListInv, NEW c \in Cells, NEW d \in Data, DListAppend(c, d)
  PROVE  ListInv' /\ PromiseStep
<1>1. PICK o \in Seq(Cells) : OrderInv(o)
  BY DEF ListInv
<1>2. ListTypeOK /\ Linked(o) /\ Called
  BY <1>1 DEF ListInv, OrderInv, DListAppend
<1>3. PICK s : s = Append(o, c)
  OBVIOUS
<1>4. /\ s \in Seq(Cells) /\ Linked(s)'
      /\ next' \in [Cells -> Cells \cup {Null}] /\ prev' \in [Cells -> Cells \cup {Null}]
  BY <1>2, <1>3, AppendEffect
<1>5. /\ data' \in [Cells -> Data \cup {Null}] /\ \A x \in live' : data'[x] \in Data
      /\ DataOf(data', s) = Append(DataOf(data, o), d)
  BY <1>2, <1>3, ElementsMore
<1>6. ListInv'
  BY <1>2, <1>4, <1>5, CalledType, IdleAgain
<1>7. Promise!Put
  <2>1. Forward = DataOf(data, o) /\ Forward' = DataOf(data', s)
    BY <1>2, <1>4, ForwardOfLinked, ForwardOfLinkedNext
  <2> QED
    BY <1>5, <2>1 DEF Promise!Put
<1> QED
  BY <1>6, <1>7 DEF PromiseStep

\* Whichever operation takes the element out
LEMMA RemoveKeeps ==
  ASSUME ListTypeOK, Called, NEW o \in Seq(Cells), Linked(o), NEW k \in 1 .. Len(o),
         Linked(Without(o, k))',
         next' \in [Cells -> Cells \cup {Null}], prev' \in [Cells -> Cells \cup {Null}],
         data' = [data EXCEPT ![o[k]] = Null], live' = live \ {o[k]}
  PROVE  ListInv' /\ PromiseStep
<1>1. PICK w : w = Without(o, k)
  OBVIOUS
<1>2. /\ data' \in [Cells -> Data \cup {Null}] /\ \A c \in live' : data'[c] \in Data
      /\ w \in Seq(Cells)
      /\ DataOf(data', w) = RemoveAt(DataOf(data, o), k)
  BY <1>1, ElementsWithout
<1>3. ListInv'
  BY <1>1, <1>2, CalledType, IdleAgain
<1>4. Promise!Delete
  <2>1. Forward = DataOf(data, o) /\ Forward' = DataOf(data', w)
    BY <1>1, ForwardOfLinked, ForwardOfLinkedNext
  <2>2. k \in DOMAIN Forward
    BY <2>1, OrderShape DEF DataOf
  <2> QED
    BY <1>2, <2>1, <2>2 DEF Promise!Delete, Promise!RemoveAt, RemoveAt
<1> QED
  BY <1>3, <1>4 DEF PromiseStep

LEMMA RemovalsKeep ==
  ASSUME ListInv, RemoveHead \/ RemoveTail \/ \E c \in Cells : RemoveLink(c)
  PROVE  ListInv' /\ PromiseStep
<1>1. PICK o \in Seq(Cells) : OrderInv(o)
  BY DEF ListInv
<1>2. ListTypeOK /\ Linked(o)
  BY <1>1 DEF ListInv, OrderInv
<1>3. CASE RemoveHead
  <2>1. /\ 1 \in 1 .. Len(o) /\ head = o[1] /\ Linked(Without(o, 1))'
        /\ next' \in [Cells -> Cells \cup {Null}] /\ prev' \in [Cells -> Cells \cup {Null}]
    BY <1>2, <1>3, RemoveHeadEffect
  <2>2. Called /\ data' = [data EXCEPT ![o[1]] = Null] /\ live' = live \ {o[1]}
    BY <1>3, <2>1 DEF RemoveHead, Free
  <2> QED
    BY <1>2, <2>1, <2>2, RemoveKeeps
<1>4. CASE RemoveTail
  <2>1. PICK n : n = Len(o)
    OBVIOUS
  <2>2. /\ n \in 1 .. Len(o) /\ tail = o[n] /\ Linked(Without(o, n))'
        /\ next' \in [Cells -> Cells \cup {Null}] /\ prev' \in [Cells -> Cells \cup {Null}]
    BY <1>2, <1>4, <2>1, RemoveTailEffect
  <2>3. Called /\ data' = [data EXCEPT ![o[n]] = Null] /\ live' = live \ {o[n]}
    BY <1>4, <2>2 DEF RemoveTail, Free
  <2> QED
    BY <1>2, <2>2, <2>3, RemoveKeeps
<1>5. ASSUME NEW c \in Cells, RemoveLink(c)
      PROVE  ListInv' /\ PromiseStep
  <2>1. Called /\ c \in live /\ Unlink(c)
    BY <1>5 DEF RemoveLink
  <2>2. PICK k \in 1 .. Len(o) : c = o[k]
    BY <1>2, <2>1 DEF Linked
  <2>3. /\ Linked(Without(o, k))'
        /\ next' \in [Cells -> Cells \cup {Null}] /\ prev' \in [Cells -> Cells \cup {Null}]
    BY <1>2, <2>1, <2>2, UnlinkEffect
  <2>4. data' = [data EXCEPT ![o[k]] = Null] /\ live' = live \ {o[k]}
    BY <2>1, <2>2, Zenon DEF Unlink, Free
  <2> QED
    BY <1>2, <2>1, <2>3, <2>4, RemoveKeeps
<1> QED
  BY <1>3, <1>4, <1>5

LEMMA ClearKeeps ==
  ASSUME ListInv, Clear
  PROVE  ListInv' /\ PromiseStep
<1>1. PICK o \in Seq(Cells) : OrderInv(o)
  BY DEF ListInv
<1>2. ListTypeOK /\ Linked(o)
  BY <1>1 DEF ListInv, OrderInv
<1>3. Walk(next, head) = o
  BY <1>2, ForwardOfLinked
<1>4. Range(Walk(next, head)) = live
  <2>1. DOMAIN o = 1 .. Len(o)
    BY LenProperties
  <2> QED
    BY <1>2, <1>3, <2>1 DEF Range, Linked
<1>5. /\ Called /\ live' = {}
      /\ next' = [c \in Cells |-> IF c \in live THEN Null ELSE next[c]]
      /\ prev' = [c \in Cells |-> IF c \in live THEN Null ELSE prev[c]]
      /\ data' = [c \in Cells |-> IF c \in live THEN Null ELSE data[c]]
      /\ head' = Null /\ tail' = Null /\ length' = 0
  BY <1>4 DEF Clear
<1>6. <<>> \in Seq(Cells) /\ Len(<<>>) = 0 /\ \A i \in 1 .. 0 : FALSE
  BY EmptySeq
<1>7. Linked(<<>>)'
  BY <1>5, <1>6 DEF Linked, Distinct, At
<1>8. /\ next' \in [Cells -> Cells \cup {Null}] /\ prev' \in [Cells -> Cells \cup {Null}]
      /\ data' \in [Cells -> Data \cup {Null}]
  BY <1>2, <1>5 DEF ListTypeOK
<1>9. ListInv'
  BY <1>2, <1>5, <1>6, <1>7, <1>8, CalledType, IdleAgain
<1>10. Promise!Empty
  <2>1. Forward' = DataOf(data', <<>>)
    BY <1>7, ForwardOfLinkedNext
  <2>2. DataOf(data', <<>>) = <<>>
    <3>1. \A f : /\ DataOf(f, <<>>) \in Seq(Data) /\ Len(DataOf(f, <<>>)) = 0
      BY <1>6, DataShape
    <3> QED
      BY <3>1, EmptySeq
  <2> QED
    BY <2>1, <2>2 DEF Promise!Empty
<1> QED
  BY <1>9, <1>10 DEF PromiseStep

LEMMA SortKeeps ==
  ASSUME ListInv, SortStart \/ SortCompare \/ SortPass
  PROVE  /\ ListInv' /\ PromiseStep
         /\ mode = "sorting" /\ mode' = "idle" =>
              \A i, j \in DOMAIN Forward : i < j => Key[Forward[i]] <= Key[Forward[j]]
<1>1. PICK o \in Seq(Cells) : OrderInv(o)
  BY DEF ListInv
<1>2. ListTypeOK /\ Linked(o) /\ SortInv(o)
  BY <1>1 DEF ListInv, OrderInv
<1>3. Forward = DataOf(data, o)
  BY <1>2, ForwardOfLinked
<1>4. PICK n \in Nat : n = Len(o)
  BY <1>2, ElementsOfLinked
<1>5. CASE SortStart
  <2>1. /\ mode = "idle" /\ mode' = "sorting" /\ cur' = head /\ bound' = Null /\ swapped' = FALSE
        /\ UNCHANGED <<linkVars, iterVars>> /\ head # Null
    BY <1>5 DEF SortStart
  <2>2. UNCHANGED <<live, next, prev, data, head, tail, length, reject, visited, before>>
    BY <2>1 DEF linkVars, iterVars
  <2>3. 1 \in 1 .. n /\ head = o[1]
    BY <1>2, <1>4, <2>1 DEF Linked, At
  <2>4. Linked(o)'
    BY <1>2, <2>2, SameOrder
  <2>5. ListTypeOK'
    BY <1>2, <2>1, <2>2 DEF ListTypeOK
  <2>6. n + 1 \in 2 .. n + 1 /\ 1 < n + 1 /\ ~(n + 1 \in 1 .. n)
    BY <2>3
  <2>7. \A j \in 1 .. n : n + 1 <= j \/ j = 1 \/ (~swapped' /\ j < 1) => NoneGreaterBefore(o, j)'
    <3> SUFFICES ASSUME NEW j \in 1 .. n, n + 1 <= j \/ j = 1 \/ (~swapped' /\ j < 1)
                 PROVE  NoneGreaterBefore(o, j)'
      OBVIOUS
    <3>1. j = 1
      OBVIOUS
    <3>2. \A i \in 1 .. n : ~(i < j)
      BY <3>1
    <3> QED
      BY <1>4, <3>2 DEF NoneGreaterBefore
  <2>8. SortAt(o, 1, n + 1)'
    <3>1. bound' = At(o, n + 1)
      BY <1>4, <2>1, <2>6 DEF At
    <3> QED
      BY <1>4, <2>1, <2>3, <2>6, <2>7, <3>1 DEF SortAt
  <2>9. SortInv(o)'
    BY <1>4, <2>3, <2>6, <2>8 DEF SortInv
  <2>10. ListInv'
    BY <2>1, <2>4, <2>5, <2>9 DEF ListInv, OrderInv, RejectInv
  <2>11. UNCHANGED Forward
    BY <1>3, <2>2, <2>4, ForwardOfLinkedNext
  <2> QED
    BY <2>1, <2>10, <2>11 DEF PromiseStep
<1>6. CASE SortCompare
  <2>1. mode = "sorting" /\ mode' = "sorting"
    BY <1>6 DEF SortCompare
  <2>2. PICK p \in 1 .. Len(o), b \in 2 .. Len(o) + 1 : SortAt(o, p, b)
    BY <1>2, <2>1 DEF SortInv
  <2>3. /\ ListTypeOK' /\ Linked(o)'
        /\ p + 1 \in 1 .. Len(o) /\ SortAt(o, p + 1, b)'
        /\ \/ DataOf(data', o) = DataOf(data, o)
           \/ LET v == DataOf(data, o) IN
              /\ Key[v[p]] > Key[v[p + 1]]
              /\ DataOf(data', o) = [v EXCEPT ![p] = v[p + 1], ![p + 1] = v[p]]
    BY <1>2, <1>6, <2>2, CompareKeeps
  <2>4. SortInv(o)'
    BY <2>3 DEF SortInv
  <2>5. ListInv'
    BY <2>1, <2>3, <2>4 DEF ListInv, OrderInv, RejectInv
  <2>6. Forward' = DataOf(data', o)
    BY <2>3, ForwardOfLinkedNext
  <2>7. Promise!Exchange \/ UNCHANGED Forward
    <3>1. PICK v : v = DataOf(data, o)
      OBVIOUS
    <3>2. Forward = v /\ (\/ Forward' = v
                          \/ /\ Key[v[p]] > Key[v[p + 1]]
                             /\ Forward' = [v EXCEPT ![p] = v[p + 1], ![p + 1] = v[p]])
      BY <1>3, <2>3, <2>6, <3>1
    <3>3. p \in 1 .. Len(v) - 1
      <4>1. Len(v) = n /\ p \in 1 .. n /\ p + 1 \in 1 .. n
        BY <1>2, <1>4, <2>3, <3>1, ElementsOfLinked
      <4> QED
        BY <4>1
    <3> QED
      BY <3>2, <3>3 DEF Promise!Exchange
  <2> QED
    BY <2>1, <2>5, <2>7 DEF PromiseStep
<1>7. CASE SortPass
  <2>1. mode = "sorting" /\ mode' \in {"sorting", "idle"}
    BY <1>7 DEF SortPass
  <2>2. PICK p \in 1 .. Len(o), b \in 2 .. Len(o) + 1 : SortAt(o, p, b)
    BY <1>2, <2>1 DEF SortInv
  <2>3. /\ mode' = "sorting" =>
             \E p2 \in 1 .. Len(o), b2 \in 2 .. Len(o) + 1 : SortAt(o, p2, b2)'
        /\ mode' = "idle" => \A j \in 1 .. Len(o) : NoneGreaterBefore(o, j)
    BY <1>2, <1>7, <2>2, PassKeeps
  <2>4. UNCHANGED <<live, next, prev, data, head, tail, length, reject, visited, before>> /\ swapped' = FALSE
    BY <1>7 DEF SortPass, linkVars, iterVars
  <2>5. Linked(o)'
    BY <1>2, <2>4, SameOrder
  <2>6. ListTypeOK'
    BY <1>2, <2>1, <2>4 DEF ListTypeOK
  <2>7. SortInv(o)'
    BY <2>3 DEF SortInv
  <2>8. ListInv'
    BY <2>1, <2>5, <2>6, <2>7 DEF ListInv, OrderInv, RejectInv
  <2>9. UNCHANGED Forward
    BY <1>3, <2>4, <2>5, ForwardOfLinkedNext
  <2>10. ASSUME mode' = "idle"
         PROVE  \A i, j \in DOMAIN Forward : i < j => Key[Forward[i]] <= Key[Forward[j]]
    <3>1. PICK v : v = DataOf(data, o)
      OBVIOUS
    <3>2. v \in Seq(Data) /\ Len(v) = n /\ \A i \in 1 .. n : v[i] = data[o[i]]
      BY <1>2, <1>4, <3>1, ElementsOfLinked
    <3>3. DOMAIN v = 1 .. n
      BY <3>2, LenProperties
    <3>4. \A j \in 1 .. n : \A i \in 1 .. n : i < j => Key[v[i]] <= Key[v[j]]
      BY <1>4, <2>3, <2>10, <3>2 DEF NoneGreaterBefore
    <3> QED
      BY <1>3, <3>1, <3>3, <3>4
  <2> QED
    BY <2>8, <2>9, <2>10 DEF PromiseStep
<1> QED
  BY <1>5, <1>6, <1>7

LEMMA RejectStartKeeps ==
  ASSUME ListInv, RejectStart
  PROVE  ListInv' /\ PromiseStep
<1>1. PICK o \in Seq(Cells) : OrderInv(o)
  BY DEF ListInv
<1>2. ListTypeOK /\ Linked(o)
  BY <1>1 DEF ListInv, OrderInv
<1>3. PICK n \in Nat : n = Len(o)
  BY <1>2, ElementsOfLinked
<1>4. PICK v : v = DataOf(data, o)
  OBVIOUS
<1>5. v \in Seq(Data) /\ Len(v) = n /\ Forward = v
  BY <1>2, <1>3, <1>4, ElementsOfLinked, ForwardOfLinked
<1>6. /\ mode' = "rejecting" /\ it' = head /\ reject' \in SUBSET Data /\ before' = v
      /\ UNCHANGED <<live, next, prev, data, head, tail, length, swapped, visited>>
      /\ visited = <<>>
  BY <1>2, <1>5 DEF RejectStart, linkVars, sortVars, ListTypeOK
<1>7. ListTypeOK'
  BY <1>2, <1>5, <1>6 DEF ListTypeOK
<1>8. Linked(o)'
  BY <1>2, <1>6, SameOrder
<1>9. RejectAt(o, 1)'
  <2>1. it' = At(o, 1)
    BY <1>2, <1>6 DEF Linked
  <2>2. 1 \in 1 .. n + 1 /\ 1 - 1 = 0
    OBVIOUS
  <2>3. SubSeq(v, 1, n) = v /\ SubSeq(v, 1, 0) = <<>>
    BY <1>5, SubSeqFull
  <2>4. <<>> \o v = v
    BY <1>5, ConcatEmptySeq
  <2>5. DataOf(data', o) = v
    BY <1>4, <1>6
  <2>6. visited' \o SubSeq(v, 1, n) = before'
    BY <1>6, <2>3, <2>4
  <2>7. SubSeq(v, 1, 1 - 1) = Unselected(visited', reject')
    BY <1>6, <2>2, <2>3, UnselectedMore
  <2> QED
    BY <1>3, <2>1, <2>5, <2>6, <2>7 DEF RejectAt
<1>10. ListInv'
  <2>1. 1 \in 1 .. Len(o) + 1
    BY <1>3
  <2> QED
    BY <1>6, <1>7, <1>8, <1>9, <2>1 DEF ListInv, OrderInv, SortInv, RejectInv
<1>11. UNCHANGED Forward
  BY <1>4, <1>5, <1>6, <1>8, ForwardOfLinkedNext
<1> QED
  BY <1>10, <1>11 DEF PromiseStep

LEMMA RejectKeeps ==
  ASSUME ListInv, RejectKeep \/ RejectDelete \/ RejectCrash \/ RejectEnd
  PROVE  ListInv' /\ PromiseStep
<1>1. PICK o \in Seq(Cells) : OrderInv(o)
  BY DEF ListInv
<1>2. ListTypeOK /\ Linked(o) /\ RejectInv(o) /\ mode = "rejecting"
  BY <1>1 DEF ListInv, OrderInv, RejectKeep, RejectDelete, RejectCrash, RejectEnd
<1>3. PICK k \in 1 .. Len(o) + 1 : RejectAt(o, k)
  BY <1>2 DEF RejectInv
<1>4. Forward = DataOf(data, o)
  BY <1>2, ForwardOfLinked
<1>5. CASE RejectKeep
  <2>1. ListTypeOK' /\ Linked(o)' /\ k + 1 \in 1 .. Len(o) + 1 /\ RejectAt(o, k + 1)'
    BY <1>2, <1>3, <1>5, KeepKeeps
  <2>2. mode' = "rejecting" /\ UNCHANGED data
    BY <1>2, <1>5 DEF RejectKeep, linkVars
  <2>3. ListInv'
    BY <2>1, <2>2 DEF ListInv, OrderInv, SortInv, RejectInv
  <2>4. UNCHANGED Forward
    BY <1>4, <2>1, <2>2, ForwardOfLinkedNext
  <2> QED
    BY <2>3, <2>4 DEF PromiseStep
<1>6. CASE RejectDelete
  <2>1. PICK w : w = Without(o, k)
    OBVIOUS
  <2>2. /\ ListTypeOK' /\ k \in 1 .. Len(o)
        /\ w \in Seq(Cells) /\ Linked(w)'
        /\ k \in 1 .. Len(w) + 1 /\ RejectAt(w, k)'
        /\ DataOf(data', w) = RemoveAt(DataOf(data, o), k)
    BY <1>2, <1>3, <1>6, <2>1, DeleteKeeps
  <2>3. mode' = "rejecting"
    BY <1>2, <1>6 DEF RejectDelete
  <2>4. ListInv'
    BY <2>2, <2>3 DEF ListInv, OrderInv, SortInv, RejectInv
  <2>5. Promise!Delete
    <3>1. Forward' = DataOf(data', w)
      BY <2>2, ForwardOfLinkedNext
    <3>2. k \in DOMAIN Forward
      BY <1>4, <2>2, OrderShape DEF DataOf
    <3> QED
      BY <1>4, <2>2, <3>1, <3>2 DEF Promise!Delete, Promise!RemoveAt, RemoveAt
  <2> QED
    BY <2>4, <2>5 DEF PromiseStep
<1>7. CASE RejectCrash \/ RejectEnd
  <2>1. /\ mode' \in {"crashed", "idle"} /\ swapped' = swapped
        /\ UNCHANGED <<live, next, prev, data, head, tail, length>>
        /\ \/ UNCHANGED <<reject, visited, before>> /\ mode' = "crashed"
           \/ reject' = {} /\ visited' = <<>> /\ before' = <<>>
    BY <1>7 DEF RejectCrash, RejectEnd, linkVars, sortVars, iterVars
  <2>2. Linked(o)'
    BY <1>2, <2>1, SameOrder
  <2>3. ListTypeOK'
    <3>1. <<>> \in Seq(Data)
      BY EmptySeq
    <3> QED
      BY <1>2, <2>1, <3>1 DEF ListTypeOK
  <2>4. ListInv'
    BY <2>1, <2>2, <2>3 DEF ListInv, OrderInv, SortInv, RejectInv
  <2>5. UNCHANGED Forward
    BY <1>4, <2>1, <2>2, ForwardOfLinkedNext
  <2> QED
    BY <2>4, <2>5 DEF PromiseStep
<1> QED
  BY <1>5, <1>6, <1>7

LEMMA InitKeeps ==
  ASSUME ListInit
  PROVE  ListInv /\ Promise!PromiseInit
<1>1. <<>> \in Seq(Cells) /\ <<>> \in Seq(Data) /\ Len(<<>>) = 0
  BY EmptySeq
<1>2. \A i \in 1 .. 0 : FALSE
  OBVIOUS
<1>3. Linked(<<>>)
  BY <1>1, <1>2 DEF ListInit, Linked, Distinct, At
<1>4. ListInv
  BY <1>1, <1>3 DEF ListInit, ListInv, ListTypeOK, OrderInv, SortInv, RejectInv
<1>5. Forward = <<>>
  <2>1. Forward = DataOf(data, <<>>)
    BY <1>3, ForwardOfLinked
  <2>2. DataOf(data, <<>>) \in Seq(Data) /\ Len(DataOf(data, <<>>)) = 0
    BY <1>1, <1>2, DataShape
  <2> QED
    BY <2>1, <2>2, EmptySeq
<1> QED
  BY <1>4, <1>5 DEF Promise!PromiseInit

LEMMA StepKeeps ==
  ASSUME ListInv, [ListNext]_listVars
  PROVE  /\ ListInv' /\ PromiseStep
         /\ mode = "sorting" /\ mode' = "idle" =>
              \A i, j \in DOMAIN Forward : i < j => Key[Forward[i]] <= Key[Forward[j]]
<1>1. ASSUME NEW c \in Cells, NEW d \in Data, DListAppend(c, d)
      PROVE  ListInv' /\ PromiseStep /\ mode # "sorting"
  BY <1>1, AppendKeeps DEF DListAppend, Called
<1>2. ASSUME RemoveHead \/ RemoveTail \/ \E c \in Cells : RemoveLink(c)
      PROVE  ListInv' /\ PromiseStep /\ mode # "sorting"
  BY <1>2, RemovalsKeep DEF RemoveHead, RemoveTail, RemoveLink, Called
<1>3. ASSUME Clear
      PROVE  ListInv' /\ PromiseStep /\ mode # "sorting"
  BY <1>3, ClearKeeps DEF Clear, Called
<1>4. CASE SortStart \/ SortCompare \/ SortPass
  BY <1>4, SortKeeps
<1>5. ASSUME RejectStart
      PROVE  ListInv' /\ PromiseStep /\ mode # "sorting"
  BY <1>5, RejectStartKeeps DEF RejectStart
<1>6. ASSUME RejectKeep \/ RejectDelete \/ RejectCrash \/ RejectEnd
      PROVE  ListInv' /\ PromiseStep /\ mode # "sorting"
  BY <1>6, RejectKeeps DEF RejectKeep, RejectDelete, RejectCrash, RejectEnd
<1>7. CASE UNCHANGED listVars
  <2>1. UNCHANGED <<live, next, prev, data, head, tail, length, mode, cur, bound, swapped,
                    it, reject, visited, before>>
    BY <1>7 DEF listVars, linkVars, sortVars, iterVars
  <2>2. PICK o \in Seq(Cells) : OrderInv(o)
    BY DEF ListInv
  <2>3. ListTypeOK'
    BY <2>1 DEF ListInv, ListTypeOK
  <2>4. Linked(o)'
    BY <2>1, <2>2, SameOrder DEF OrderInv
  <2>5. SortInv(o)'
    BY <2>1, <2>2 DEF OrderInv, SortInv, SortAt, NoneGreaterBefore
  <2>6. RejectInv(o)'
    BY <2>1, <2>2 DEF OrderInv, RejectInv, RejectAt
  <2>7. UNCHANGED Forward
    BY <2>1, <2>2, <2>4, ForwardOfLinked, ForwardOfLinkedNext DEF OrderInv
  <2> QED
    BY <2>1, <2>3, <2>4, <2>5, <2>6, <2>7 DEF ListInv, OrderInv, PromiseStep
<1> QED
  BY <1>1, <1>2, <1>3, <1>4, <1>5, <1>6, <1>7, Zenon DEF ListNext, ListStep

-----------------------------------------------------------------------------
(* The theorems *)

\* There is always an order of the cells that the links, both ends and the
\* length agree with, and the loops of dlist_sort and iterator_reject are at a
\* place of it.
THEOREM ListInvariant == ListSpec => []ListInv
<1>1. ListInit => ListInv
  BY InitKeeps
<1>2. ListInv /\ [ListNext]_listVars => ListInv'
  BY StepKeeps
<1> QED
  BY <1>1, <1>2, PTL DEF ListSpec

\* Whatever was done to the list, both directions reach every element that is
\* allocated, once, one being the reverse of the other.
THEOREM ListBothDirections == ListSpec => []BothDirections
<1>1. ListInv => BothDirections
  <2> SUFFICES ASSUME ListInv PROVE BothDirections
    OBVIOUS
  <2>1. PICK o \in Seq(Cells) : Linked(o)
    BY DEF ListInv, OrderInv
  <2>2. Walk(next, head) = o /\ Walk(prev, tail) = Reverse(o)
    BY <2>1, WalksOfLinked DEF Linked
  <2>3. DOMAIN o = 1 .. Len(o)
    BY LenProperties
  <2>4. Range(o) = live /\ IsInjective(o) /\ length = Len(o)
    BY <2>1, <2>3 DEF Linked, Distinct, Range, IsInjective
  <2> QED
    BY <2>2, <2>4 DEF BothDirections
<1> QED
  BY <1>1, ListInvariant, PTL

\* iterator_reject calls its callback once on each element the list had, in
\* order, and leaves those that are not selected.
THEOREM ListRejects == ListSpec => []RejectsWhatIsSelected
<1>1. ListInv => RejectsWhatIsSelected
  <2> SUFFICES ASSUME ListInv, mode = "rejecting"
               PROVE  LET ahead == IF it = Null THEN <<>> ELSE Values(Walk(next, it)) IN
                      /\ visited \o ahead = before
                      /\ Forward = Unselected(visited, reject) \o ahead
    BY DEF RejectsWhatIsSelected
  <2>1. PICK o \in Seq(Cells) : Linked(o) /\ RejectInv(o)
    BY DEF ListInv, OrderInv
  <2>2. PICK n \in Nat : n = Len(o)
    BY <2>1, ElementsOfLinked DEF ListInv
  <2>3. PICK k \in 1 .. n + 1 : RejectAt(o, k)
    BY <2>1, <2>2 DEF RejectInv
  <2>4. PICK v : v = DataOf(data, o)
    OBVIOUS
  <2>5. /\ v \in Seq(Data) /\ Len(v) = n /\ Forward = v
        /\ \A i \in 1 .. n : data[o[i]] \in Data /\ o[i] # Null /\ At(o, i) = o[i]
        /\ \A i \in Int : i > n => At(o, i) = Null
    BY <2>1, <2>2, <2>4, ElementsOfLinked, ForwardOfLinked, OrderShape DEF ListInv
  <2>6. /\ it = At(o, k)
        /\ visited \o SubSeq(v, k, n) = before
        /\ SubSeq(v, 1, k - 1) = Unselected(visited, reject)
    BY <2>2, <2>3, <2>4 DEF RejectAt
  <2>7. v = SubSeq(v, 1, k - 1) \o SubSeq(v, k, n)
    BY <2>5, SplitAt
  <2> DEFINE ahead == IF it = Null THEN <<>> ELSE Values(Walk(next, it))
  <2>8. ahead = SubSeq(v, k, n)
    <3>1. CASE k \in 1 .. n
      <4>1. it = o[k] /\ it # Null
        BY <2>5, <2>6, <3>1
      <4>2. Walk(next, it) = SubSeq(o, k, n)
        BY <2>1, <2>2, <3>1, <4>1, WalksOfLinked DEF Linked
      <4>3. ahead = DataOf(data, SubSeq(o, k, n))
        BY <4>1, <4>2 DEF Values, DataOf
      <4>4. k \in 1 .. n + 1 /\ n \in 0 .. n
        OBVIOUS
      <4> QED
        BY <2>2, <2>4, <2>5, <4>3, <4>4, DataPart
    <3>2. CASE k = n + 1
      <4>1. n + 1 \in Int /\ n + 1 > n
        OBVIOUS
      <4>2. it = Null
        BY <2>5, <2>6, <3>2, <4>1
      <4>3. SubSeq(v, n + 1, n) = <<>>
        <5>1. n + 1 \in Int /\ n \in Int /\ \A i \in n + 1 .. n : v[i] \in Data
          OBVIOUS
        <5>2. SubSeq(v, n + 1, n) \in Seq(Data) /\ Len(SubSeq(v, n + 1, n)) = IF n + 1 <= n THEN n - (n + 1) + 1 ELSE 0
          BY <5>1, SubSeqProperties
        <5>3. ~(n + 1 <= n)
          OBVIOUS
        <5> QED
          BY <5>2, <5>3, EmptySeq
      <4> QED
        BY <3>2, <4>2, <4>3
    <3> QED
      BY <3>1, <3>2
  <2> HIDE DEF ahead
  <2>9. visited \o ahead = before /\ Forward = Unselected(visited, reject) \o ahead
    BY <2>5, <2>6, <2>7, <2>8
  <2> QED
    BY <2>9 DEF ahead
<1> QED
  BY <1>1, ListInvariant, PTL

\* When dlist_sort returns, no element is before one that is less.
THEOREM ListSorted == ListSpec => Sorted
<1>1. ListInv /\ [ListNext]_listVars =>
        [mode = "sorting" /\ mode' = "idle" =>
           \A i, j \in DOMAIN Forward : i < j => Key[Forward[i]] <= Key[Forward[j]]]_listVars
  BY StepKeeps
<1> QED
  BY <1>1, ListInvariant, PTL DEF ListSpec, Sorted

\* Seen through its forward links, the list is a sequence: an element comes in
\* at its end, one leaves, they all do, or two neighbours out of order are
\* exchanged.
THEOREM ListIsASequence == ListSpec => KeepsListPromise
<1>1. ListInit => Promise!PromiseInit
  BY InitKeeps
<1>2. ListInv /\ [ListNext]_listVars =>
        [Promise!Put \/ Promise!Delete \/ Promise!Empty \/ Promise!Exchange]_Forward
  BY StepKeeps DEF PromiseStep
<1> QED
  BY <1>1, <1>2, ListInvariant, PTL DEF ListSpec, KeepsListPromise, Promise!PromiseSpec
=============================================================================

--------------------------- MODULE HashTableProofs ---------------------------
(***************************************************************************)
(* Proofs about HashTable, for any number of keys, any hashes and any      *)
(* smallest size: every allocated node is once in the chain of its bucket  *)
(* and once in the list of all nodes, both ways, however often the table   *)
(* grows; and the table is the map that remembers its order that           *)
(* HashPromise has it be, also while it is gone through with nodes being   *)
(* deleted on the way.                                                     *)
(*                                                                         *)
(* What there is to say of the list and of a chain is the same: there is a *)
(* sequence of distinct nodes that the links go along in both directions.  *)
(***************************************************************************)
EXTENDS HashTable, SequenceTheorems, FiniteSetTheorems, WellFoundedInduction, TLAPS

\* Naturals are well ordered, stated without an operator parameter: the way the
\* proofs below do induction is by a least counterexample.
LEMMA LeastElement ==
  \A T \in SUBSET Nat : T # {} => \E n \in T : \A m \in T : n <= m
<1> SUFFICES ASSUME NEW T \in SUBSET Nat, T # {}
             PROVE  \E n \in T : \A m \in T : n <= m
  OBVIOUS
<1> DEFINE Below == {1 .. n : n \in T}
<1>1. Below # {}
  OBVIOUS
<1>2. Below \subseteq FiniteSubsetsOf(Nat)
  <2>1. \A n \in T : 1 .. n \subseteq Nat /\ IsFiniteSet(1 .. n)
    <3> TAKE n \in T
    <3>1. 1 \in Int /\ n \in Int
      OBVIOUS
    <3> QED
      BY <3>1, FS_Interval
  <2> QED
    BY <2>1, Zenon DEF FiniteSubsetsOf
<1>3. IsWellFoundedOn(StrictSubsetOrdering(Nat), FiniteSubsetsOf(Nat))
  BY FS_StrictSubsetOrderingWellFounded
<1> HIDE DEF Below
<1>4. PICK b \in Below : \A a \in Below : <<a, b>> \notin StrictSubsetOrdering(Nat)
  BY <1>1, <1>2, <1>3, WFMin
<1>5. PICK n \in T : b = 1 .. n
  BY DEF Below
<1>6. ASSUME NEW m \in T, m < n PROVE FALSE
  <2>1. 1 .. m \in Below
    BY DEF Below
  <2>2. n \in 1 .. n /\ n \notin 1 .. m /\ 1 .. m \subseteq 1 .. n
    BY <1>6
  <2>3. <<1 .. m, 1 .. n>> \in StrictSubsetOrdering(Nat)
    BY <2>2 DEF StrictSubsetOrdering
  <2> QED
    BY <1>4, <1>5, <2>1, <2>3
<1> QED
  BY <1>6

At(o, i) == IF i \in 1 .. Len(o) THEN o[i] ELSE Null

Distinct(o) == \A i, j \in 1 .. Len(o) : o[i] = o[j] => i = j

\* The links go along the sequence o of the given nodes, from its first one on.
Along(o, link, back, first, nodes) ==
  /\ o \in Seq(Keys)
  /\ Distinct(o)
  /\ nodes = {o[i] : i \in 1 .. Len(o)}
  /\ first = At(o, 1)
  /\ \A i \in 1 .. Len(o) : link[o[i]] = At(o, i + 1) /\ back[o[i]] = At(o, i - 1)

-----------------------------------------------------------------------------
(* What Walk meets *)

\* A sequence of distinct nodes is no longer than there are nodes.
LEMMA DistinctIsShort ==
  ASSUME NEW o \in Seq(Keys), Distinct(o)
  PROVE  Len(o) \in 0 .. Cardinality(Keys)
<1>1. o \in [1 .. Len(o) -> Keys] /\ Len(o) \in Nat /\ DOMAIN o = 1 .. Len(o)
  BY LenProperties
<1>2. o \in Injection(1 .. Len(o), Keys)
  BY <1>1 DEF Distinct, Injection, IsInjective
<1>3. Cardinality(1 .. Len(o)) <= Cardinality(Keys)
  BY <1>2, KeysAssumption, FS_Injection
<1>4. Cardinality(1 .. Len(o)) = Len(o)
  <2>1. 1 \in Int /\ Len(o) \in Int
    BY <1>1
  <2>2. Cardinality(1 .. Len(o)) = IF 1 > Len(o) THEN 0 ELSE Len(o) - 1 + 1
    BY <2>1, FS_Interval
  <2> QED
    BY <1>1, <2>2
<1> QED
  BY <1>1, <1>3, <1>4, KeysAssumption, FS_CardinalityType

\* Following links that go along an order of nodes gives that order.
LEMMA WalkMeets ==
  \A o \in Seq(Keys) : \A link, from :
    (/\ Distinct(o) /\ from = At(o, 1)
     /\ \A i \in 1 .. Len(o) : link[o[i]] = At(o, i + 1))
      => Walk(link, from) = o
<1> SUFFICES ASSUME NEW o \in Seq(Keys), NEW link, NEW from,
                    Distinct(o), from = At(o, 1),
                    \A i \in 1 .. Len(o) : link[o[i]] = At(o, i + 1)
             PROVE  Walk(link, from) = o
  OBVIOUS
<1> DEFINE N == Cardinality(Keys)
           Meets(f) == f = [i \in 1 .. N |->
                              IF i = 1 THEN from
                              ELSE IF f[i - 1] = Null THEN Null ELSE link[f[i - 1]]]
           met == [i \in 1 .. N |-> At(o, i)]
<1>1. /\ Len(o) \in 0 .. N /\ N \in Nat
      /\ o \in [1 .. Len(o) -> Keys]
  BY DistinctIsShort, LenProperties, KeysAssumption, FS_CardinalityType
<1>2. \A i \in Nat \ {0} : At(o, i) = Null <=> i > Len(o)
  BY <1>1, KeysAssumption DEF At
<1>3. \A i \in 2 .. N : At(o, i) = IF At(o, i - 1) = Null THEN Null ELSE link[At(o, i - 1)]
  <2> TAKE i \in 2 .. N
  <2>1. CASE i - 1 <= Len(o)
    <3>1. i - 1 \in 1 .. Len(o) /\ i - 1 + 1 = i
      BY <1>1, <2>1
    <3>2. At(o, i - 1) = o[i - 1] /\ At(o, i - 1) # Null
      BY <1>1, <1>2, <3>1 DEF At
    <3> QED
      BY <3>1, <3>2
  <2>2. CASE i - 1 > Len(o)
    BY <1>1, <1>2, <2>2
  <2> QED
    BY <1>1, <2>1, <2>2
<1>4. Meets(met)
  <2>1. \A i \in 1 .. N : met[i] = IF i = 1 THEN from
                                   ELSE IF met[i - 1] = Null THEN Null ELSE link[met[i - 1]]
    <3> TAKE i \in 1 .. N
    <3>1. CASE i = 1
      BY <3>1
    <3>2. CASE i # 1
      <4>1. i \in 2 .. N /\ i - 1 \in 1 .. N
        BY <1>1, <3>2
      <4> QED
        BY <1>3, <3>2, <4>1
    <3> QED
      BY <3>1, <3>2
  <2> QED
    BY <2>1
<1> HIDE DEF met
<1>5. \A f : Meets(f) => f = met
  <2> SUFFICES ASSUME NEW f, Meets(f) PROVE f = met
    OBVIOUS
  <2> DEFINE differ == {i \in 1 .. N : f[i] # met[i]}
  <2>1. differ = {}
    <3> SUFFICES ASSUME differ # {} PROVE FALSE
      OBVIOUS
    <3>1. differ \in SUBSET Nat
      BY <1>1
    <3>2. PICK i \in differ : \A j \in differ : i <= j
      BY <3>1, LeastElement
    <3>3. i \in 1 .. N /\ f[i] # met[i]
      OBVIOUS
    <3>4. /\ f[i] = IF i = 1 THEN from ELSE IF f[i - 1] = Null THEN Null ELSE link[f[i - 1]]
          /\ met[i] = IF i = 1 THEN from ELSE IF met[i - 1] = Null THEN Null ELSE link[met[i - 1]]
      BY <1>4, <3>3
    <3>5. i # 1 => i - 1 \in 1 .. N /\ ~(i <= i - 1)
      BY <1>1, <3>3
    <3>6. i # 1 => f[i - 1] = met[i - 1]
      BY <3>2, <3>5
    <3> QED
      BY <3>3, <3>4, <3>6
  <2>2. f = [i \in 1 .. N |-> f[i]]
    OBVIOUS
  <2>3. met = [i \in 1 .. N |-> met[i]]
    BY DEF met
  <2>4. \A i \in 1 .. N : f[i] = met[i]
    BY <2>1
  <2> HIDE DEF Meets
  <2> QED
    BY <2>2, <2>3, <2>4
<1> DEFINE node == CHOOSE f : Meets(f)
<1>6. node = met
  <2> HIDE DEF Meets
  <2>1. Meets(node)
    BY <1>4
  <2> QED
    BY <1>5, <2>1
<1> DEFINE found == {i \in 1 .. N : node[i] # Null}
<1>7. Walk(link, from) = [i \in 1 .. Cardinality(found) |-> node[i]]
  BY Zenon DEF Walk
<1> HIDE DEF node
<1>8. found = 1 .. Len(o)
  BY <1>1, <1>2, <1>6 DEF met
<1> HIDE DEF found
<1>9. Cardinality(found) = Len(o)
  <2>1. 1 \in Int /\ Len(o) \in Int
    BY <1>1
  <2>2. Cardinality(1 .. Len(o)) = IF 1 > Len(o) THEN 0 ELSE Len(o) - 1 + 1
    BY <2>1, FS_Interval
  <2> QED
    BY <1>1, <1>8, <2>2
<1>10. \A i \in 1 .. Len(o) : node[i] = o[i]
  BY <1>1, <1>6 DEF met, At
<1>11. o = [i \in 1 .. Len(o) |-> o[i]]
  BY <1>1
<1> QED
  BY <1>7, <1>9, <1>10, <1>11

\* What is in the order of a list: a node for each index, none outside
LEMMA OrderShape ==
  ASSUME NEW o \in Seq(Keys)
  PROVE  /\ Len(o) \in Nat /\ DOMAIN o = 1 .. Len(o)
         /\ \A i \in 1 .. Len(o) : o[i] \in Keys /\ o[i] # Null /\ At(o, i) = o[i]
         /\ \A i \in Int : i < 1 \/ i > Len(o) => At(o, i) = Null
         /\ \A i \in Int : At(o, i) \in Keys \cup {Null}
         /\ o = <<>> <=> Len(o) = 0
<1>1. Len(o) \in Nat /\ DOMAIN o = 1 .. Len(o) /\ o \in [1 .. Len(o) -> Keys]
  BY LenProperties
<1>2. \A i \in 1 .. Len(o) : o[i] \in Keys /\ o[i] # Null /\ At(o, i) = o[i]
  BY <1>1, KeysAssumption DEF At
<1>3. \A i \in Int : i < 1 \/ i > Len(o) => At(o, i) = Null
  BY <1>1 DEF At
<1>4. \A i \in Int : i \in 1 .. Len(o) \/ i < 1 \/ i > Len(o)
  BY <1>1
<1>5. \A i \in Int : At(o, i) \in Keys \cup {Null}
  BY <1>2, <1>3, <1>4
<1>6. o = <<>> <=> Len(o) = 0
  BY <1>1, EmptySeq
<1> QED
  BY <1>1, <1>2, <1>3, <1>5, <1>6

-----------------------------------------------------------------------------
(* The order without one of its nodes *)

Without(o, k) == [i \in 1 .. Len(o) - 1 |-> IF i < k THEN o[i] ELSE o[i + 1]]

LEMMA WithoutShape ==
  ASSUME NEW o \in Seq(Keys), NEW k \in 1 .. Len(o)
  PROVE  /\ Without(o, k) \in Seq(Keys) /\ Len(Without(o, k)) = Len(o) - 1
         /\ \A i \in 1 .. Len(o) - 1 : Without(o, k)[i] = IF i < k THEN o[i] ELSE o[i + 1]
         /\ \A i \in Int : At(Without(o, k), i) = IF i < k THEN At(o, i) ELSE At(o, i + 1)
         /\ Distinct(o) =>
              /\ Distinct(Without(o, k))
              /\ {Without(o, k)[i] : i \in 1 .. Len(o) - 1} = {o[i] : i \in 1 .. Len(o)} \ {o[k]}
<1>1. /\ Len(o) \in Nat /\ \A i \in 1 .. Len(o) : o[i] \in Keys /\ At(o, i) = o[i]
      /\ \A i \in Int : i < 1 \/ i > Len(o) => At(o, i) = Null
  BY OrderShape
<1>2. PICK n \in Nat : n = Len(o)
  BY <1>1
<1>3. k \in 1 .. n
  BY <1>2
<1> DEFINE w == Without(o, k)
<1>4. w = [i \in 1 .. n - 1 |-> IF i < k THEN o[i] ELSE o[i + 1]]
  BY <1>2 DEF Without
<1>5. \A i \in 1 .. n - 1 : i \in 1 .. n /\ i + 1 \in 1 .. n
  OBVIOUS
<1> HIDE DEF w
<1>6. w \in [1 .. n - 1 -> Keys]
  BY <1>1, <1>2, <1>4, <1>5
<1>7. w \in Seq(Keys) /\ Len(w) = n - 1
  <2>1. n - 1 \in Nat
    BY <1>3
  <2> QED
    BY <1>6, <2>1
<1>8. \A i \in 1 .. n - 1 : w[i] = IF i < k THEN o[i] ELSE o[i + 1]
  BY <1>4
<1>9. \A i \in Int : At(w, i) = IF i < k THEN At(o, i) ELSE At(o, i + 1)
  <2> TAKE i \in Int
  <2>1. CASE i \in 1 .. n - 1
    <3>1. At(w, i) = w[i]
      BY <1>7, <2>1 DEF At
    <3> QED
      BY <1>1, <1>2, <1>5, <1>8, <2>1, <3>1
  <2>2. CASE ~(i \in 1 .. n - 1)
    <3>1. At(w, i) = Null
      BY <1>7, <2>2 DEF At
    <3>2. i < 1 \/ i > n - 1
      BY <2>2
    <3>3. i < 1 => i < k /\ At(o, i) = Null
      BY <1>1, <1>3
    <3>4. i > n - 1 => ~(i < k) /\ At(o, i + 1) = Null
      BY <1>1, <1>2, <1>3
    <3> QED
      BY <3>1, <3>2, <3>3, <3>4
  <2> QED
    BY <2>1, <2>2
<1>10. ASSUME Distinct(o)
       PROVE  /\ Distinct(w)
              /\ {w[i] : i \in 1 .. n - 1} = {o[i] : i \in 1 .. n} \ {o[k]}
  <2>1. \A i, j \in 1 .. n : o[i] = o[j] => i = j
    BY <1>2, <1>10 DEF Distinct
  <2>2. \A i, j \in 1 .. n - 1 : w[i] = w[j] => i = j
    BY <1>3, <1>5, <1>8, <2>1
  <2>3. \A i \in 1 .. n - 1 : w[i] \in {o[j] : j \in 1 .. n} /\ w[i] # o[k]
    BY <1>3, <1>5, <1>8, <2>1
  <2>4. \A j \in 1 .. n : o[j] # o[k] => \E i \in 1 .. n - 1 : w[i] = o[j]
    <3> SUFFICES ASSUME NEW j \in 1 .. n, j # k PROVE \E i \in 1 .. n - 1 : w[i] = o[j]
      OBVIOUS
    <3>1. CASE j < k
      <4>1. j \in 1 .. n - 1
        BY <1>3, <3>1
      <4> QED
        BY <1>8, <3>1, <4>1
    <3>2. CASE j > k
      <4>1. j - 1 \in 1 .. n - 1 /\ ~(j - 1 < k) /\ j - 1 + 1 = j
        BY <1>3, <3>2
      <4> QED
        BY <1>8, <4>1
    <3> QED
      BY <1>3, <3>1, <3>2
  <2>5. {w[i] : i \in 1 .. n - 1} = {o[i] : i \in 1 .. n} \ {o[k]}
    BY <2>3, <2>4
  <2> QED
    BY <1>7, <2>2, <2>5 DEF Distinct
<1> QED
  BY <1>2, <1>7, <1>8, <1>9, <1>10 DEF w

\* What the links go along, walked in both directions, and from any of its nodes
LEMMA WalksAlong ==
  \A o, link, back, first, nodes :
    Along(o, link, back, first, nodes) =>
      /\ Walk(link, first) = o
      /\ Walk(back, At(o, Len(o))) = Reverse(o)
      /\ \A k \in 1 .. Len(o) : Walk(link, o[k]) = SubSeq(o, k, Len(o))
<1> SUFFICES ASSUME NEW o, NEW link, NEW back, NEW first, NEW nodes,
                    Along(o, link, back, first, nodes)
             PROVE  /\ Walk(link, first) = o
                    /\ Walk(back, At(o, Len(o))) = Reverse(o)
                    /\ \A k \in 1 .. Len(o) : Walk(link, o[k]) = SubSeq(o, k, Len(o))
  OBVIOUS
<1>0. /\ o \in Seq(Keys) /\ Distinct(o) /\ first = At(o, 1)
      /\ \A i \in 1 .. Len(o) : link[o[i]] = At(o, i + 1) /\ back[o[i]] = At(o, i - 1)
  BY DEF Along
<1>1. /\ Len(o) \in Nat /\ DOMAIN o = 1 .. Len(o)
      /\ \A i \in 1 .. Len(o) : o[i] \in Keys /\ o[i] # Null /\ At(o, i) = o[i]
      /\ \A i \in Int : i < 1 \/ i > Len(o) => At(o, i) = Null
  BY <1>0, OrderShape
<1>2. Walk(link, first) = o
  BY <1>0, WalkMeets
<1>3. Walk(back, At(o, Len(o))) = Reverse(o)
  <2> DEFINE r == [i \in 1 .. Len(o) |-> o[Len(o) - i + 1]]
             last == At(o, Len(o))
  <2>1. \A i \in 1 .. Len(o) : Len(o) - i + 1 \in 1 .. Len(o)
    BY <1>1
  <2>2. r \in [1 .. Len(o) -> Keys]
    BY <1>1, <2>1
  <2>3. r \in Seq(Keys) /\ Len(r) = Len(o)
    BY <1>1, <2>2
  <2>4. \A i \in 1 .. Len(o) : r[i] = o[Len(o) - i + 1] /\ At(r, i) = r[i]
    BY <2>3 DEF At
  <2>5. Distinct(r)
    <3> SUFFICES ASSUME NEW i \in 1 .. Len(o), NEW j \in 1 .. Len(o), r[i] = r[j] PROVE i = j
      BY <2>3 DEF Distinct
    <3> HIDE DEF r
    <3> DEFINE a == Len(o) - i + 1
               b == Len(o) - j + 1
    <3>1. a \in 1 .. Len(o) /\ b \in 1 .. Len(o)
      BY <2>1
    <3>2. o[a] = o[b]
      BY <2>4
    <3>3. a = b => i = j
      BY <1>1
    <3> HIDE DEF a, b
    <3> QED
      BY <1>0, <3>1, <3>2, <3>3 DEF Distinct
  <2>6. last = At(r, 1)
    <3>1. CASE Len(o) = 0
      BY <1>1, <2>3, <3>1 DEF At
    <3>2. CASE Len(o) # 0
      <4>1. 1 \in 1 .. Len(o) /\ Len(o) - 1 + 1 = Len(o) /\ Len(o) \in 1 .. Len(o)
        BY <1>1, <3>2
      <4> HIDE DEF r
      <4> QED
        BY <1>1, <2>4, <4>1
    <3> QED
      BY <3>1, <3>2
  <2>7. \A i \in 1 .. Len(r) : back[r[i]] = At(r, i + 1)
    <3> SUFFICES ASSUME NEW i \in 1 .. Len(o) PROVE back[r[i]] = At(r, i + 1)
      BY <2>3
    <3> HIDE DEF r
    <3>1. back[r[i]] = At(o, Len(o) - i)
      <4>1. Len(o) - i + 1 - 1 = Len(o) - i
        BY <1>1
      <4> QED
        BY <1>0, <2>1, <2>4, <4>1
    <3>2. CASE i = Len(o)
      BY <1>1, <2>3, <3>1, <3>2 DEF At
    <3>3. CASE i # Len(o)
      <4>1. i + 1 \in 1 .. Len(o) /\ Len(o) - (i + 1) + 1 = Len(o) - i
        <5>1. \A n \in Nat : \A j \in 1 .. n :
                j # n => j + 1 \in 1 .. n /\ n - (j + 1) + 1 = n - j
          OBVIOUS
        <5>2. Len(o) \in Nat
          BY <1>1
        <5> QED
          BY <3>3, <5>1, <5>2
      <4>2. At(r, i + 1) = o[Len(o) - i] /\ Len(o) - i \in 1 .. Len(o)
        BY <2>1, <2>4, <4>1
      <4> QED
        BY <1>1, <3>1, <4>2
    <3> QED
      BY <3>2, <3>3
  <2> HIDE DEF r, last
  <2>8. Walk(back, last) = r
    BY <2>3, <2>5, <2>6, <2>7, WalkMeets
  <2> QED
    BY <2>8 DEF r, last, Reverse
<1>4. ASSUME NEW k \in 1 .. Len(o)
      PROVE  Walk(link, o[k]) = SubSeq(o, k, Len(o))
  <2> DEFINE s == SubSeq(o, k, Len(o))
  <2>1. /\ s \in Seq(Keys) /\ Len(s) = Len(o) - k + 1
        /\ \A i \in 1 .. Len(o) - k + 1 : s[i] = o[k + i - 1]
    <3>1. k \in Int /\ Len(o) \in Int /\ k <= Len(o) /\ \A i \in k .. Len(o) : o[i] \in Keys
      BY <1>1
    <3> QED
      BY <3>1, SubSeqProperties
  <2> HIDE DEF s
  <2>2. \A i \in 1 .. Len(s) : k + i - 1 \in 1 .. Len(o) /\ s[i] = o[k + i - 1] /\ At(s, i) = s[i]
    BY <1>1, <2>1 DEF At
  <2>3. Distinct(s)
    <3> SUFFICES ASSUME NEW i \in 1 .. Len(s), NEW j \in 1 .. Len(s), s[i] = s[j] PROVE i = j
      BY DEF Distinct
    <3> DEFINE a == k + i - 1
               b == k + j - 1
    <3>1. a \in 1 .. Len(o) /\ b \in 1 .. Len(o)
      BY <2>2
    <3>2. o[a] = o[b]
      BY <2>2
    <3>3. a = b => i = j
      BY <1>1, <2>1
    <3> HIDE DEF a, b
    <3> QED
      BY <1>0, <3>1, <3>2, <3>3 DEF Distinct
  <2>4. o[k] = At(s, 1)
    <3>1. 1 \in 1 .. Len(s) /\ k + 1 - 1 = k
      BY <1>1, <2>1
    <3> QED
      BY <2>2, <3>1
  <2>5. ASSUME NEW i \in 1 .. Len(s) PROVE link[s[i]] = At(s, i + 1)
    <3>1. link[s[i]] = At(o, k + i)
      <4>1. k + i - 1 + 1 = k + i
        BY <1>1, <2>1
      <4> QED
        BY <1>0, <2>2, <4>1
    <3>2. CASE i = Len(s)
      <4>1. k + i > Len(o) /\ k + i \in Int /\ ~(i + 1 \in 1 .. Len(s))
        BY <1>1, <2>1, <3>2
      <4> QED
        BY <1>1, <3>1, <4>1 DEF At
    <3>3. CASE i # Len(s)
      <4>1. i + 1 \in 1 .. Len(s) /\ k + (i + 1) - 1 = k + i
        <5>1. \A n \in Nat : \A j \in 1 .. n :
                j # n => j + 1 \in 1 .. n /\ k + (j + 1) - 1 = k + j
          BY <1>1
        <5>2. Len(s) \in Nat
          BY <1>1, <2>1
        <5> QED
          BY <3>3, <5>1, <5>2
      <4>2. At(s, i + 1) = o[k + i] /\ k + i \in 1 .. Len(o)
        BY <2>2, <4>1
      <4> QED
        BY <1>1, <3>1, <4>2
    <3> QED
      BY <3>2, <3>3
  <2>6. Walk(link, o[k]) = s
    BY <2>1, <2>3, <2>4, <2>5, WalkMeets
  <2> QED
    BY <2>6 DEF s
<1> QED
  BY <1>2, <1>3, <1>4

\* A walk from nowhere meets nothing.
LEMMA WalkFromNull ==
  \A link : Walk(link, Null) = <<>>
<1> SUFFICES ASSUME NEW link PROVE Walk(link, Null) = <<>>
  OBVIOUS
<1>1. << >> \in Seq(Keys) /\ Len(<< >>) = 0
  BY EmptySeq
<1>2. \A i \in 1 .. 0 : FALSE
  OBVIOUS
<1>3. Distinct(<< >>) /\ At(<< >>, 1) = Null
  BY <1>1, <1>2 DEF Distinct, At
<1> QED
  BY <1>1, <1>2, <1>3, WalkMeets

\* What a sequence that the links go along says of its nodes and of their links
LEMMA AlongShape ==
  \A o, link, back, first, nodes :
    Along(o, link, back, first, nodes) =>
      /\ nodes \subseteq Keys /\ Null \notin nodes
      /\ first = Null <=> Len(o) = 0
      /\ first \in nodes \cup {Null} /\ At(o, Len(o)) \in nodes \cup {Null}
      /\ \A i \in Int : At(o, i) \in nodes \cup {Null}
      /\ \A j \in Int : \A i \in 1 .. Len(o) : o[i] = At(o, j) <=> i = j
<1> SUFFICES ASSUME NEW o, NEW link, NEW back, NEW first, NEW nodes,
                    Along(o, link, back, first, nodes)
             PROVE  /\ nodes \subseteq Keys /\ Null \notin nodes
                    /\ first = Null <=> Len(o) = 0
                    /\ first \in nodes \cup {Null} /\ At(o, Len(o)) \in nodes \cup {Null}
                    /\ \A i \in Int : At(o, i) \in nodes \cup {Null}
                    /\ \A j \in Int : \A i \in 1 .. Len(o) : o[i] = At(o, j) <=> i = j
  OBVIOUS
<1>1. /\ o \in Seq(Keys) /\ nodes = {o[i] : i \in 1 .. Len(o)} /\ first = At(o, 1)
      /\ \A i, j \in 1 .. Len(o) : o[i] = o[j] => i = j
  BY DEF Along, Distinct
<1>2. PICK n \in Nat : n = Len(o)
  BY <1>1, OrderShape
<1>3. /\ \A i \in 1 .. n : o[i] \in Keys /\ o[i] # Null /\ At(o, i) = o[i]
      /\ \A i \in Int : i < 1 \/ i > n => At(o, i) = Null
  BY <1>1, <1>2, OrderShape
<1>4. nodes = {o[i] : i \in 1 .. n} /\ nodes \subseteq Keys /\ Null \notin nodes
  BY <1>1, <1>2, <1>3
<1>5. \A i \in Int : At(o, i) \in nodes \cup {Null}
  <2> TAKE i \in Int
  <2>1. i \in 1 .. n \/ i < 1 \/ i > n
    OBVIOUS
  <2> QED
    BY <1>3, <1>4, <2>1
<1>6. \A j \in Int : \A i \in 1 .. n : o[i] = At(o, j) <=> i = j
  <2> SUFFICES ASSUME NEW j \in Int, NEW i \in 1 .. n PROVE o[i] = At(o, j) <=> i = j
    OBVIOUS
  <2>1. CASE j \in 1 .. n
    BY <1>1, <1>2, <1>3, <2>1
  <2>2. CASE ~(j \in 1 .. n)
    BY <1>3, <2>2
  <2> QED
    BY <2>1, <2>2
<1>7. first = Null <=> n = 0
  <2>1. CASE n = 0
    BY <1>1, <1>3, <2>1
  <2>2. CASE n # 0
    BY <1>1, <1>3, <2>2
  <2> QED
    BY <2>1, <2>2
<1>8. n \in Int /\ 1 \in Int
  OBVIOUS
<1> QED
  BY <1>1, <1>2, <1>4, <1>5, <1>6, <1>7, <1>8

\* Links that are the same at the nodes of a sequence still go along it.
LEMMA AlongElsewhere ==
  \A o, link, back, first, nodes, link2, back2 :
    (/\ Along(o, link, back, first, nodes)
     /\ \A k \in nodes : link2[k] = link[k] /\ back2[k] = back[k])
      => Along(o, link2, back2, first, nodes)
<1> SUFFICES ASSUME NEW o, NEW link, NEW back, NEW first, NEW nodes, NEW link2, NEW back2,
                    Along(o, link, back, first, nodes),
                    \A k \in nodes : link2[k] = link[k] /\ back2[k] = back[k]
             PROVE  Along(o, link2, back2, first, nodes)
  OBVIOUS
<1>1. \A i \in 1 .. Len(o) : o[i] \in nodes
  BY DEF Along
<1> QED
  BY <1>1 DEF Along

FirstWithout(o, k, first) == IF k = 1 THEN At(o, 2) ELSE first

\* Links that pass a node by go along the sequence without it.
LEMMA AlongWithout ==
  \A o, link, back, first, nodes, link2, back2 : \A k \in 1 .. Len(o) :
    (/\ Along(o, link, back, first, nodes)
     /\ \A i \in 1 .. Len(o) : i # k =>
          /\ link2[o[i]] = IF i = k - 1 THEN At(o, k + 1) ELSE link[o[i]]
          /\ back2[o[i]] = IF i = k + 1 THEN At(o, k - 1) ELSE back[o[i]])
      => Along(Without(o, k), link2, back2, FirstWithout(o, k, first), nodes \ {o[k]})
<1> SUFFICES ASSUME NEW o, NEW link, NEW back, NEW first, NEW nodes,
                    NEW link2, NEW back2, NEW k \in 1 .. Len(o),
                    Along(o, link, back, first, nodes),
                    \A i \in 1 .. Len(o) : i # k =>
                      /\ link2[o[i]] = IF i = k - 1 THEN At(o, k + 1) ELSE link[o[i]]
                      /\ back2[o[i]] = IF i = k + 1 THEN At(o, k - 1) ELSE back[o[i]]
             PROVE  Along(Without(o, k), link2, back2, FirstWithout(o, k, first), nodes \ {o[k]})
  OBVIOUS
<1>1. o \in Seq(Keys) /\ Distinct(o) /\ nodes = {o[i] : i \in 1 .. Len(o)}
  BY DEF Along
<1>2. PICK n \in Nat : n = Len(o)
  BY <1>1, OrderShape
<1>3. k \in 1 .. n
  BY <1>2
<1>4. /\ first = At(o, 1)
      /\ \A i \in 1 .. n : link[o[i]] = At(o, i + 1) /\ back[o[i]] = At(o, i - 1)
  BY <1>2 DEF Along
<1>5. \A i \in 1 .. n : i # k =>
        /\ link2[o[i]] = IF i = k - 1 THEN At(o, k + 1) ELSE At(o, i + 1)
        /\ back2[o[i]] = IF i = k + 1 THEN At(o, k - 1) ELSE At(o, i - 1)
  BY <1>2, <1>4
<1>6. PICK w : w = Without(o, k)
  OBVIOUS
<1>7. /\ w \in Seq(Keys) /\ Len(w) = n - 1 /\ Distinct(w)
      /\ {w[i] : i \in 1 .. n - 1} = {o[i] : i \in 1 .. n} \ {o[k]}
  <2>1. /\ Without(o, k) \in Seq(Keys) /\ Len(Without(o, k)) = Len(o) - 1
        /\ Distinct(Without(o, k))
        /\ {Without(o, k)[i] : i \in 1 .. Len(o) - 1} = {o[i] : i \in 1 .. Len(o)} \ {o[k]}
    BY <1>1, WithoutShape
  <2> QED
    BY <1>2, <1>6, <2>1
<1>8. \A i \in 1 .. n - 1 : w[i] = IF i < k THEN o[i] ELSE o[i + 1]
  BY <1>1, <1>2, <1>6, WithoutShape
<1>9. \A i \in Int : At(w, i) = IF i < k THEN At(o, i) ELSE At(o, i + 1)
  BY <1>1, <1>2, <1>6, WithoutShape
<1>10. nodes \ {o[k]} = {w[i] : i \in 1 .. Len(w)}
  BY <1>1, <1>2, <1>7
<1>11. FirstWithout(o, k, first) = At(w, 1)
  <2>1. At(w, 1) = IF 1 < k THEN At(o, 1) ELSE At(o, 1 + 1)
    BY <1>9
  <2>2. (1 < k <=> k # 1) /\ 1 + 1 = 2
    BY <1>3
  <2> QED
    BY <1>4, <2>1, <2>2 DEF FirstWithout
<1>12. ASSUME NEW i \in 1 .. n - 1
       PROVE  link2[w[i]] = At(w, i + 1) /\ back2[w[i]] = At(w, i - 1)
  <2>1. CASE i < k
    <3>1. i \in 1 .. n /\ i # k /\ i # k + 1
      BY <1>3, <2>1
    <3>2. w[i] = o[i]
      BY <1>8, <2>1
    <3>3. i - 1 \in Int /\ i - 1 < k /\ i + 1 \in Int
      BY <1>3, <2>1
    <3>4. (i + 1 < k <=> i # k - 1) /\ (i = k - 1 => i + 1 + 1 = k + 1)
      BY <1>3, <2>1
    <3>5. back2[w[i]] = At(o, i - 1) /\ At(w, i - 1) = At(o, i - 1)
      BY <1>5, <1>9, <3>1, <3>2, <3>3
    <3>6. link2[w[i]] = IF i = k - 1 THEN At(o, k + 1) ELSE At(o, i + 1)
      BY <1>5, <3>1, <3>2
    <3>7. At(w, i + 1) = IF i = k - 1 THEN At(o, k + 1) ELSE At(o, i + 1)
      BY <1>9, <3>3, <3>4
    <3> QED
      BY <3>5, <3>6, <3>7
  <2>2. CASE ~(i < k)
    <3>1. i + 1 \in 1 .. n /\ i + 1 # k /\ i + 1 # k - 1
      BY <1>3, <2>2
    <3>2. w[i] = o[i + 1]
      BY <1>8, <2>2
    <3>3. i + 1 \in Int /\ ~(i + 1 < k) /\ i - 1 \in Int
      BY <1>3, <2>2
    <3>4. (i - 1 < k <=> i = k) /\ (i + 1 = k + 1 <=> i = k) /\ i - 1 + 1 = i /\ i + 1 - 1 = i
      <4>1. \A j \in Int : ~(j < k) => (j - 1 < k <=> j = k)
        BY <1>3
      <4> QED
        BY <1>3, <2>2, <4>1
    <3>5. link2[w[i]] = At(o, i + 1 + 1) /\ At(w, i + 1) = At(o, i + 1 + 1)
      BY <1>5, <1>9, <3>1, <3>2, <3>3
    <3>6. back2[w[i]] = IF i = k THEN At(o, k - 1) ELSE At(o, i)
      BY <1>5, <3>1, <3>2, <3>4
    <3>7. At(w, i - 1) = IF i = k THEN At(o, k - 1) ELSE At(o, i)
      BY <1>9, <3>3, <3>4
    <3> QED
      BY <3>5, <3>6, <3>7
  <2> QED
    BY <2>1, <2>2
<1>13. Along(w, link2, back2, FirstWithout(o, k, first), nodes \ {o[k]})
  BY <1>7, <1>10, <1>11, <1>12 DEF Along
<1> QED
  BY <1>6, <1>13

-----------------------------------------------------------------------------
(* The sequence with a node more, at its end or at its beginning *)

FirstAppended(first, n) == IF first = Null THEN n ELSE first

\* A node more after the last one, which is told so
LinkedBefore(n, o, link, back, link2, back2) ==
  \A i \in 1 .. Len(o) : /\ link2[o[i]] = IF i = Len(o) THEN n ELSE link[o[i]]
                         /\ back2[o[i]] = back[o[i]]

LEMMA AlongAppended ==
  \A o, link, back, first, nodes, link2, back2, n :
    (/\ Along(o, link, back, first, nodes)
     /\ n \in Keys \ nodes
     /\ link2[n] = Null /\ back2[n] = At(o, Len(o))
     /\ LinkedBefore(n, o, link, back, link2, back2))
      => /\ Along(Append(o, n), link2, back2, FirstAppended(first, n), nodes \cup {n})
         /\ Len(Append(o, n)) = Len(o) + 1 /\ At(Append(o, n), Len(o) + 1) = n
<1> SUFFICES ASSUME NEW o, NEW link, NEW back, NEW first, NEW nodes,
                    NEW link2, NEW back2, NEW n \in Keys \ nodes,
                    Along(o, link, back, first, nodes),
                    link2[n] = Null, back2[n] = At(o, Len(o)),
                    LinkedBefore(n, o, link, back, link2, back2)
             PROVE  /\ Along(Append(o, n), link2, back2, FirstAppended(first, n), nodes \cup {n})
                    /\ Len(Append(o, n)) = Len(o) + 1 /\ At(Append(o, n), Len(o) + 1) = n
  OBVIOUS
<1>1. /\ o \in Seq(Keys) /\ Distinct(o) /\ nodes = {o[i] : i \in 1 .. Len(o)}
      /\ first = At(o, 1)
  BY DEF Along
<1>2. PICK m \in Nat : m = Len(o)
  BY <1>1, OrderShape
<1>3. PICK w : w = Append(o, n)
  OBVIOUS
<1>4. /\ w \in Seq(Keys) /\ Len(w) = m + 1
      /\ \A i \in 1 .. m : w[i] = o[i]
      /\ w[m + 1] = n
  BY <1>1, <1>2, <1>3
<1>5. /\ \A i \in 1 .. m : o[i] \in Keys /\ o[i] # Null /\ At(o, i) = o[i]
      /\ \A i \in Int : i < 1 \/ i > m => At(o, i) = Null
  BY <1>1, <1>2, OrderShape
<1>6. \A i \in 1 .. m : link[o[i]] = At(o, i + 1) /\ back[o[i]] = At(o, i - 1)
  BY <1>2 DEF Along
<1>7. \A i \in 1 .. m :
        link2[o[i]] = (IF i = m THEN n ELSE At(o, i + 1)) /\ back2[o[i]] = At(o, i - 1)
  BY <1>2, <1>6 DEF LinkedBefore
<1>8. \A i \in 1 .. m + 1 : i \in 1 .. m \/ i = m + 1
  OBVIOUS
<1>9. \A i \in Int : At(w, i) = IF i = m + 1 THEN n ELSE At(o, i)
  <2> TAKE i \in Int
  <2>1. CASE i \in 1 .. m
    BY <1>4, <1>5, <2>1 DEF At
  <2>2. CASE i = m + 1
    BY <1>4, <2>2 DEF At
  <2>3. CASE i < 1 \/ i > m + 1
    BY <1>4, <1>5, <2>3 DEF At
  <2> QED
    BY <2>1, <2>2, <2>3
<1>10. Distinct(w)
  <2>1. \A i, j \in 1 .. m : o[i] = o[j] => i = j
    BY <1>1, <1>2 DEF Distinct
  <2>2. \A i \in 1 .. m : o[i] # n
    BY <1>1, <1>2
  <2>3. \A i, j \in 1 .. m + 1 : w[i] = w[j] => i = j
    BY <1>4, <1>8, <2>1, <2>2
  <2> QED
    BY <1>4, <2>3 DEF Distinct
<1>11. nodes \cup {n} = {w[i] : i \in 1 .. Len(w)}
  <2>1. \A i \in 1 .. m + 1 : w[i] \in nodes \cup {n}
    BY <1>1, <1>2, <1>4, <1>8
  <2>2. \A x \in nodes : \E i \in 1 .. m + 1 : w[i] = x
    <3>1. \A i \in 1 .. m : i \in 1 .. m + 1
      OBVIOUS
    <3> QED
      BY <1>1, <1>2, <1>4, <3>1
  <2>3. m + 1 \in 1 .. m + 1
    OBVIOUS
  <2> QED
    BY <1>4, <2>1, <2>2, <2>3
<1>12. FirstAppended(first, n) = At(w, 1)
  <2>1. At(w, 1) = IF 1 = m + 1 THEN n ELSE At(o, 1)
    BY <1>9
  <2>2. first = Null <=> 1 = m + 1
    BY <1>1, <1>5
  <2> QED
    BY <1>1, <2>1, <2>2 DEF FirstAppended
<1>13. ASSUME NEW i \in 1 .. m + 1
       PROVE  link2[w[i]] = At(w, i + 1) /\ back2[w[i]] = At(w, i - 1)
  <2>1. CASE i = m + 1
    <3>1. At(w, i + 1) = Null
      BY <1>5, <1>9, <2>1
    <3>2. At(w, i - 1) = At(o, m)
      BY <1>9, <2>1
    <3> QED
      BY <1>2, <1>4, <2>1, <3>1, <3>2
  <2>2. CASE i # m + 1
    <3>1. i \in 1 .. m /\ w[i] = o[i]
      BY <1>4, <1>8, <2>2
    <3>2. At(w, i + 1) = IF i = m THEN n ELSE At(o, i + 1)
      BY <1>9, <3>1
    <3>3. At(w, i - 1) = At(o, i - 1)
      BY <1>9, <3>1
    <3> QED
      BY <1>7, <3>1, <3>2, <3>3
  <2> QED
    BY <2>1, <2>2
<1>14. Along(w, link2, back2, FirstAppended(first, n), nodes \cup {n})
  BY <1>4, <1>10, <1>11, <1>12, <1>13 DEF Along
<1>15. At(w, m + 1) = n
  BY <1>9
<1> QED
  BY <1>2, <1>3, <1>4, <1>14, <1>15

Prefixed(n, o) == [i \in 1 .. Len(o) + 1 |-> IF i = 1 THEN n ELSE o[i - 1]]

\* A node more before the first one, which is told so
LinkedAfter(n, o, link, back, link2, back2) ==
  \A i \in 1 .. Len(o) : /\ link2[o[i]] = link[o[i]]
                         /\ back2[o[i]] = IF i = 1 THEN n ELSE back[o[i]]

LEMMA AlongPrefixed ==
  \A o, link, back, first, nodes, link2, back2, n :
    (/\ Along(o, link, back, first, nodes)
     /\ n \in Keys \ nodes
     /\ link2[n] = first /\ back2[n] = Null
     /\ LinkedAfter(n, o, link, back, link2, back2))
      => Along(Prefixed(n, o), link2, back2, n, nodes \cup {n})
<1> SUFFICES ASSUME NEW o, NEW link, NEW back, NEW first, NEW nodes,
                    NEW link2, NEW back2, NEW n \in Keys \ nodes,
                    Along(o, link, back, first, nodes),
                    link2[n] = first, back2[n] = Null,
                    LinkedAfter(n, o, link, back, link2, back2)
             PROVE  Along(Prefixed(n, o), link2, back2, n, nodes \cup {n})
  OBVIOUS
<1>1. /\ o \in Seq(Keys) /\ Distinct(o) /\ nodes = {o[i] : i \in 1 .. Len(o)}
      /\ first = At(o, 1)
  BY DEF Along
<1>2. PICK m \in Nat : m = Len(o)
  BY <1>1, OrderShape
<1>3. PICK w : w = Prefixed(n, o)
  OBVIOUS
<1>4. w = [i \in 1 .. m + 1 |-> IF i = 1 THEN n ELSE o[i - 1]]
  BY <1>2, <1>3 DEF Prefixed
<1>5. /\ \A i \in 1 .. m : o[i] \in Keys /\ o[i] # Null /\ At(o, i) = o[i]
      /\ \A i \in Int : i < 1 \/ i > m => At(o, i) = Null
  BY <1>1, <1>2, OrderShape
<1>6. \A i \in 1 .. m + 1 : i # 1 => i - 1 \in 1 .. m
  OBVIOUS
<1>7. /\ w \in Seq(Keys) /\ Len(w) = m + 1
      /\ w[1] = n
      /\ \A i \in 1 .. m + 1 : i # 1 => w[i] = o[i - 1]
  <2>1. w \in [1 .. m + 1 -> Keys]
    BY <1>4, <1>5, <1>6
  <2>2. 1 \in 1 .. m + 1
    OBVIOUS
  <2> QED
    BY <1>4, <2>1, <2>2
<1>8. \A i \in 1 .. m : link2[o[i]] = At(o, i + 1)
                        /\ back2[o[i]] = IF i = 1 THEN n ELSE At(o, i - 1)
  BY <1>2 DEF Along, LinkedAfter
<1>9. \A i \in Int : At(w, i) = IF i = 1 THEN n ELSE At(o, i - 1)
  <2> TAKE i \in Int
  <2>1. CASE i = 1
    BY <1>7, <2>1 DEF At
  <2>2. CASE i \in 2 .. m + 1
    BY <1>5, <1>6, <1>7, <2>2 DEF At
  <2>3. CASE i < 1 \/ i > m + 1
    <3>1. i - 1 \in Int /\ (i - 1 < 1 \/ i - 1 > m) /\ i # 1 /\ ~(i \in 1 .. m + 1)
      BY <2>3
    <3>2. At(o, i - 1) = Null
      BY <1>5, <3>1
    <3> QED
      BY <1>7, <3>1, <3>2 DEF At
  <2> QED
    BY <2>1, <2>2, <2>3
<1>10. Distinct(w)
  <2>1. \A i, j \in 1 .. m : o[i] = o[j] => i = j
    BY <1>1, <1>2 DEF Distinct
  <2>2. \A i \in 1 .. m : o[i] # n
    BY <1>1, <1>2
  <2>3. ASSUME NEW i \in 1 .. m + 1, NEW j \in 1 .. m + 1, w[i] = w[j] PROVE i = j
    <3>1. i = 1 => j = 1
      BY <1>6, <1>7, <2>2, <2>3
    <3>2. j = 1 => i = 1
      BY <1>6, <1>7, <2>2, <2>3
    <3>3. ASSUME i # 1, j # 1 PROVE i - 1 = j - 1
      <4>1. PICK a \in 1 .. m : a = i - 1 /\ w[i] = o[a]
        BY <1>6, <1>7, <3>3
      <4>2. PICK b \in 1 .. m : b = j - 1 /\ w[j] = o[b]
        BY <1>6, <1>7, <3>3
      <4>3. o[a] = o[b]
        BY <2>3, <4>1, <4>2
      <4> QED
        BY <2>1, <4>1, <4>2, <4>3
    <3>4. i - 1 = j - 1 => i = j
      OBVIOUS
    <3> QED
      BY <3>1, <3>2, <3>3, <3>4
  <2> QED
    BY <1>7, <2>3 DEF Distinct
<1>11. nodes \cup {n} = {w[i] : i \in 1 .. Len(w)}
  <2>1. \A i \in 1 .. m + 1 : w[i] \in nodes \cup {n}
    BY <1>1, <1>2, <1>6, <1>7
  <2>2. \A x \in nodes : \E i \in 1 .. m + 1 : w[i] = x
    <3>1. \A i \in 1 .. m : i + 1 \in 1 .. m + 1 /\ i + 1 # 1 /\ i + 1 - 1 = i
      OBVIOUS
    <3>2. \A i \in 1 .. m : w[i + 1] = o[i]
      BY <1>7, <3>1
    <3> QED
      BY <1>1, <1>2, <3>1, <3>2
  <2>3. 1 \in 1 .. m + 1
    OBVIOUS
  <2> QED
    BY <1>7, <2>1, <2>2, <2>3
<1>12. n = At(w, 1)
  BY <1>9
<1>13. ASSUME NEW i \in 1 .. m + 1
       PROVE  link2[w[i]] = At(w, i + 1) /\ back2[w[i]] = At(w, i - 1)
  <2>1. CASE i = 1
    <3>1. At(w, i + 1) = At(o, 1) /\ At(w, i - 1) = Null
      BY <1>5, <1>9, <2>1
    <3> QED
      BY <1>1, <1>7, <2>1, <3>1
  <2>2. CASE i # 1
    <3>1. i - 1 \in 1 .. m /\ w[i] = o[i - 1]
      BY <1>6, <1>7, <2>2
    <3>2. At(w, i + 1) = At(o, i)
      BY <1>9
    <3>3. At(w, i - 1) = IF i - 1 = 1 THEN n ELSE At(o, i - 1 - 1)
      BY <1>9
    <3>4. i - 1 + 1 = i
      OBVIOUS
    <3> QED
      BY <1>8, <3>1, <3>2, <3>3, <3>4
  <2> QED
    BY <2>1, <2>2
<1>14. Along(w, link2, back2, n, nodes \cup {n})
  BY <1>7, <1>10, <1>11, <1>12, <1>13 DEF Along
<1> QED
  BY <1>3, <1>14

-----------------------------------------------------------------------------
(* The chains of the buckets *)

ChainsType(size) ==
  [nodes : [0 .. size - 1 -> Keys \cup {Null}],
   next  : [Keys -> Keys \cup {Null}],
   prev  : [Keys -> Keys \cup {Null}]]

Bucket(S, i, size) == {k \in S : Index(k, size) = i}

\* The nodes of S are in the chains of a table of the given size, each in the
\* one of its bucket.
Chained(c, size, S) ==
  /\ c \in ChainsType(size)
  /\ \A i \in 0 .. size - 1 : \E o : Along(o, c.next, c.prev, c.nodes[i], Bucket(S, i, size))

LEMMA IndexRange ==
  \A k \in Keys : \A size \in Nat \ {0} : Index(k, size) \in 0 .. size - 1
<1> TAKE k \in Keys
<1> TAKE size \in Nat \ {0}
<1>1. Hash[k] \in Nat
  BY HashAssumption
<1> QED
  BY <1>1 DEF Index

\* A table without nodes, whatever the links of the nodes were
LEMMA EmptyChained ==
  \A c, size : c.nodes = NoNodes(size) /\ c \in ChainsType(size) => Chained(c, size, {})
<1> SUFFICES ASSUME NEW c, NEW size, c.nodes = NoNodes(size), c \in ChainsType(size)
             PROVE  Chained(c, size, {})
  OBVIOUS
<1>1. << >> \in Seq(Keys) /\ Len(<< >>) = 0
  BY EmptySeq
<1>2. 1 .. 0 = {}
  OBVIOUS
<1>3. Distinct(<< >>) /\ At(<< >>, 1) = Null
  BY <1>1, <1>2 DEF Distinct, At
<1>4. \A link, back : Along(<< >>, link, back, Null, {})
  BY <1>1, <1>2, <1>3 DEF Along
<1>5. \A i \in 0 .. size - 1 : c.nodes[i] = Null
  BY DEF NoNodes
<1>6. \A i : Bucket({}, i, size) = {}
  BY DEF Bucket
<1>7. \A i \in 0 .. size - 1 : Along(<< >>, c.next, c.prev, c.nodes[i], Bucket({}, i, size))
  BY <1>4, <1>5, <1>6
<1> QED
  BY <1>7, Zenon DEF Chained

\* A new node, before those of its bucket
LEMMA PrependChained ==
  \A c : \A size \in Nat \ {0} : \A S \in SUBSET Keys : \A n \in Keys \ S :
    Chained(c, size, S) => Chained(Prepend(c, Index(n, size), n), size, S \cup {n})
<1> SUFFICES ASSUME NEW c, NEW size \in Nat \ {0}, NEW S \in SUBSET Keys, NEW n \in Keys \ S,
                    Chained(c, size, S)
             PROVE  Chained(Prepend(c, Index(n, size), n), size, S \cup {n})
  OBVIOUS
<1>1. PICK b \in 0 .. size - 1 : b = Index(n, size)
  BY IndexRange
<1>2. PICK p : p = Prepend(c, b, n)
  OBVIOUS
<1>3. PICK second : second = c.nodes[b]
  OBVIOUS
<1>4. /\ c.nodes \in [0 .. size - 1 -> Keys \cup {Null}]
      /\ c.next \in [Keys -> Keys \cup {Null}] /\ c.prev \in [Keys -> Keys \cup {Null}]
  BY DEF Chained, ChainsType
<1>5. second \in Keys \cup {Null}
  BY <1>3, <1>4
<1>6. p = [nodes |-> [c.nodes EXCEPT ![b] = n],
           next |-> [c.next EXCEPT ![n] = second],
           prev |-> [k \in Keys |-> IF k = n THEN Null
                                    ELSE IF k = second THEN n ELSE c.prev[k]]]
  BY <1>2, <1>3, Zenon DEF Prepend
<1>7. /\ p.nodes \in [0 .. size - 1 -> Keys \cup {Null}]
      /\ \A i \in 0 .. size - 1 : p.nodes[i] = IF i = b THEN n ELSE c.nodes[i]
  BY <1>4, <1>6
<1>8. /\ p.next \in [Keys -> Keys \cup {Null}]
      /\ \A k \in Keys : p.next[k] = IF k = n THEN second ELSE c.next[k]
  BY <1>4, <1>5, <1>6
<1>9. /\ p.prev \in [Keys -> Keys \cup {Null}]
      /\ \A k \in Keys : p.prev[k] = IF k = n THEN Null
                                     ELSE IF k = second THEN n ELSE c.prev[k]
  <2>1. p.prev = [k \in Keys |-> IF k = n THEN Null
                                 ELSE IF k = second THEN n ELSE c.prev[k]]
    BY <1>6
  <2>2. \A k \in Keys : (IF k = n THEN Null ELSE IF k = second THEN n ELSE c.prev[k])
                          \in Keys \cup {Null}
    BY <1>4
  <2> QED
    BY <2>1, <2>2
<1>10. p \in ChainsType(size)
  BY <1>6, <1>7, <1>8, <1>9 DEF ChainsType
<1>11. PICK q : Along(q, c.next, c.prev, c.nodes[b], Bucket(S, b, size))
  BY DEF Chained
<1>12. \A i \in 0 .. size - 1 :
         Bucket(S \cup {n}, i, size) = IF i = b THEN Bucket(S, b, size) \cup {n}
                                       ELSE Bucket(S, i, size)
  BY <1>1 DEF Bucket
<1>13. ASSUME NEW i \in 0 .. size - 1
       PROVE  \E o : Along(o, p.next, p.prev, p.nodes[i], Bucket(S \cup {n}, i, size))
  <2>1. CASE i = b
    <3>1. \A j \in 1 .. Len(q) :
            /\ q[j] \in Keys /\ q[j] # n
            /\ q[j] = second <=> j = 1
      <4>1. \A j \in 1 .. Len(q) : q[j] \in Bucket(S, b, size)
        BY <1>11 DEF Along
      <4>2. \A j \in 1 .. Len(q) : q[j] = At(q, 1) <=> j = 1
        BY <1>11, AlongShape
      <4>3. second = At(q, 1)
        BY <1>3, <1>11 DEF Along
      <4> QED
        BY <4>1, <4>2, <4>3 DEF Bucket
    <3>2. LinkedAfter(n, q, c.next, c.prev, p.next, p.prev)
      BY <1>8, <1>9, <3>1 DEF LinkedAfter
    <3>3. p.next[n] = c.nodes[b] /\ p.prev[n] = Null
      BY <1>3, <1>8, <1>9
    <3>4. n \in Keys \ Bucket(S, b, size)
      BY DEF Bucket
    <3>5. Along(Prefixed(n, q), p.next, p.prev, n, Bucket(S, b, size) \cup {n})
      BY <1>11, <3>2, <3>3, <3>4, AlongPrefixed
    <3> QED
      BY <1>7, <1>12, <2>1, <3>5
  <2>2. CASE i # b
    <3>1. PICK o : Along(o, c.next, c.prev, c.nodes[i], Bucket(S, i, size))
      BY DEF Chained
    <3>2. second \in Bucket(S, b, size) \cup {Null}
      BY <1>3, <1>11, AlongShape
    <3>3. Bucket(S, i, size) \subseteq Keys /\ Null \notin Bucket(S, i, size)
      BY <3>1, AlongShape
    <3>4. \A k \in Bucket(S, i, size) : k \in Keys /\ k # n /\ k # second
      BY <2>2, <3>2, <3>3 DEF Bucket
    <3>5. \A k \in Bucket(S, i, size) : p.next[k] = c.next[k] /\ p.prev[k] = c.prev[k]
      BY <1>8, <1>9, <3>4
    <3>6. Along(o, p.next, p.prev, c.nodes[i], Bucket(S, i, size))
      BY <3>1, <3>5, AlongElsewhere
    <3> QED
      BY <1>7, <1>12, <2>2, <3>6
  <2> QED
    BY <2>1, <2>2
<1>14. Chained(p, size, S \cup {n})
  BY <1>10, <1>13 DEF Chained
<1> QED
  BY <1>1, <1>2, <1>14

\* A key is found in its bucket when it is in the table, and only then.
LEMMA LookedUp ==
  \A c : \A size \in Nat \ {0} : \A S \in SUBSET Keys : \A k \in Keys :
    Chained(c, size, S) => (k \in ToSet(Walk(c.next, c.nodes[Index(k, size)])) <=> k \in S)
<1> SUFFICES ASSUME NEW c, NEW size \in Nat \ {0}, NEW S \in SUBSET Keys, NEW k \in Keys,
                    Chained(c, size, S)
             PROVE  k \in ToSet(Walk(c.next, c.nodes[Index(k, size)])) <=> k \in S
  OBVIOUS
<1>1. PICK b \in 0 .. size - 1 : b = Index(k, size)
  BY IndexRange
<1>2. PICK o : Along(o, c.next, c.prev, c.nodes[b], Bucket(S, b, size))
  BY DEF Chained
<1>3. Walk(c.next, c.nodes[b]) = o
  BY <1>2, WalksAlong
<1>4. ToSet(o) = Bucket(S, b, size)
  <2>1. o \in Seq(Keys) /\ Bucket(S, b, size) = {o[i] : i \in 1 .. Len(o)}
    BY <1>2 DEF Along
  <2>2. DOMAIN o = 1 .. Len(o)
    BY <2>1, OrderShape
  <2> QED
    BY <2>1, <2>2 DEF ToSet
<1> QED
  BY <1>1, <1>3, <1>4 DEF Bucket

\* Taking a node out of its chain
LEMMA UnchainEffect ==
  ASSUME NEW size \in Nat \ {0}, size = capacity, NEW S \in SUBSET Keys, NEW n \in S,
         Chained(chains, size, S), Unchain(n)
  PROVE  Chained(chains', size, S \ {n})
<1>1. PICK b \in 0 .. size - 1 : b = Index(n, size)
  BY IndexRange
<1> DEFINE c == chains
           before == c.prev[n]
           after == c.next[n]
<1>2. chains' = [nodes |-> IF before = Null THEN [c.nodes EXCEPT ![Index(n, capacity)] = after]
                           ELSE c.nodes,
                 next |-> [x \in Keys |-> CASE x = n -> Null [] x = before -> after
                                            [] OTHER -> c.next[x]],
                 prev |-> [x \in Keys |-> CASE x = n -> Null [] x = after -> before
                                            [] OTHER -> c.prev[x]]]
  BY Zenon DEF Unchain
<1>3. PICK q : Along(q, c.next, c.prev, c.nodes[b], Bucket(S, b, size))
  BY DEF Chained
<1>4. PICK k \in 1 .. Len(q) : q[k] = n
  <2>1. n \in Bucket(S, b, size)
    BY <1>1 DEF Bucket
  <2> QED
    BY <1>3, <2>1 DEF Along
<1>5. /\ c.nodes \in [0 .. size - 1 -> Keys \cup {Null}]
      /\ c.next \in [Keys -> Keys \cup {Null}] /\ c.prev \in [Keys -> Keys \cup {Null}]
  BY DEF Chained, ChainsType
<1>8. before = At(q, k - 1) /\ after = At(q, k + 1)
  BY <1>3, <1>4 DEF Along
<1>9. before \in Bucket(S, b, size) \cup {Null} /\ after \in Bucket(S, b, size) \cup {Null}
  <2>1. Len(q) \in Nat
    BY <1>3, OrderShape DEF Along
  <2>2. k - 1 \in Int /\ k + 1 \in Int
    BY <1>4, <2>1
  <2> QED
    BY <1>3, <1>8, <2>2, AlongShape
<1>10. PICK p : p = chains'
  OBVIOUS
<1>11. \A i \in 0 .. size - 1 : \E o : Along(o, c.next, c.prev, c.nodes[i], Bucket(S, i, size))
  BY DEF Chained
<1> HIDE DEF c, before, after
<1>12. /\ before \in Keys \cup {Null} /\ after \in Keys \cup {Null}
       /\ before # n /\ after # n
  <2>1. before \in Keys \cup {Null} /\ after \in Keys \cup {Null}
    BY <1>9 DEF Bucket
  <2>2. Len(q) \in Nat
    BY <1>3, OrderShape DEF Along
  <2>3. k - 1 \in Int /\ k + 1 \in Int /\ k # k - 1 /\ k # k + 1
    BY <1>4, <2>2
  <2>4. \A j \in Int : q[k] = At(q, j) <=> k = j
    BY <1>3, <1>4, AlongShape
  <2> QED
    BY <1>4, <1>8, <2>1, <2>3, <2>4
<1>13. /\ p.nodes \in [0 .. size - 1 -> Keys \cup {Null}]
       /\ \A i \in 0 .. size - 1 :
            p.nodes[i] = IF i = b /\ before = Null THEN after ELSE c.nodes[i]
  <2>1. p.nodes = IF before = Null THEN [c.nodes EXCEPT ![b] = after] ELSE c.nodes
    BY <1>1, <1>2, <1>10
  <2> QED
    BY <1>5, <1>12, <2>1
<1>14. /\ p.next \in [Keys -> Keys \cup {Null}]
       /\ \A x \in Keys : x # n => p.next[x] = IF x = before THEN after ELSE c.next[x]
  <2>1. p.next = [x \in Keys |-> CASE x = n -> Null [] x = before -> after
                                   [] OTHER -> c.next[x]]
    BY <1>2, <1>10
  <2>2. \A x \in Keys : (CASE x = n -> Null [] x = before -> after [] OTHER -> c.next[x])
                        = IF x = n THEN Null ELSE IF x = before THEN after ELSE c.next[x]
    BY <1>12
  <2>3. \A x \in Keys : p.next[x] = IF x = n THEN Null
                                    ELSE IF x = before THEN after ELSE c.next[x]
    BY <2>1, <2>2
  <2>4. \A x \in Keys : p.next[x] \in Keys \cup {Null}
    BY <1>5, <1>12, <2>3
  <2> QED
    BY <2>1, <2>3, <2>4
<1>15. /\ p.prev \in [Keys -> Keys \cup {Null}]
       /\ \A x \in Keys : x # n => p.prev[x] = IF x = after THEN before ELSE c.prev[x]
  <2>1. p.prev = [x \in Keys |-> CASE x = n -> Null [] x = after -> before
                                   [] OTHER -> c.prev[x]]
    BY <1>2, <1>10
  <2>2. \A x \in Keys : (CASE x = n -> Null [] x = after -> before [] OTHER -> c.prev[x])
                        = IF x = n THEN Null ELSE IF x = after THEN before ELSE c.prev[x]
    BY <1>12
  <2>3. \A x \in Keys : p.prev[x] = IF x = n THEN Null
                                    ELSE IF x = after THEN before ELSE c.prev[x]
    BY <2>1, <2>2
  <2>4. \A x \in Keys : p.prev[x] \in Keys \cup {Null}
    BY <1>5, <1>12, <2>3
  <2> QED
    BY <2>1, <2>3, <2>4
<1>16. p \in ChainsType(size)
  BY <1>2, <1>10, <1>13, <1>14, <1>15 DEF ChainsType
<1>17. \A i \in 0 .. size - 1 :
         Bucket(S \ {n}, i, size) = IF i = b THEN Bucket(S, b, size) \ {n}
                                    ELSE Bucket(S, i, size)
  BY <1>1 DEF Bucket
<1>18. ASSUME NEW i \in 0 .. size - 1
       PROVE  \E o : Along(o, p.next, p.prev, p.nodes[i], Bucket(S \ {n}, i, size))
  <2>1. CASE i = b
    <3>0. PICK m \in Nat : m = Len(q)
      BY <1>3, OrderShape DEF Along
    <3>1. k \in 1 .. m /\ k - 1 \in Int /\ k + 1 \in Int
      BY <1>4, <3>0
    <3>2. \A j \in 1 .. m : j # k =>
            /\ q[j] \in Keys /\ q[j] # n
            /\ q[j] = before <=> j = k - 1
            /\ q[j] = after <=> j = k + 1
      <4>1. \A j \in 1 .. m : q[j] \in Keys
        BY <1>3, <3>0, OrderShape DEF Along
      <4>2. \A x \in Int : \A j \in 1 .. m : q[j] = At(q, x) <=> j = x
        BY <1>3, <3>0, AlongShape
      <4>3. \A j \in 1 .. m : j # k => q[j] # n
        BY <1>3, <1>4, <3>0, <3>1 DEF Along, Distinct
      <4> QED
        BY <1>8, <3>1, <4>1, <4>2, <4>3
    <3>3. \A j \in 1 .. Len(q) : j # k =>
            /\ p.next[q[j]] = IF j = k - 1 THEN At(q, k + 1) ELSE c.next[q[j]]
            /\ p.prev[q[j]] = IF j = k + 1 THEN At(q, k - 1) ELSE c.prev[q[j]]
      BY <1>8, <1>14, <1>15, <3>0, <3>2
    <3>4. p.nodes[b] = FirstWithout(q, k, c.nodes[b])
      <4>1. before = Null <=> k = 1
        <5>1. \A j \in 1 .. m : At(q, j) # Null
          BY <1>3, <3>0, OrderShape DEF Along
        <5>2. At(q, 0) = Null
          BY <1>3, OrderShape DEF Along
        <5>3. k # 1 => k - 1 \in 1 .. m
          BY <3>1
        <5>4. k = 1 => k - 1 = 0
          OBVIOUS
        <5> QED
          BY <1>8, <5>1, <5>2, <5>3, <5>4
      <4>2. k = 1 => k + 1 = 2
        OBVIOUS
      <4> QED
        BY <1>8, <1>13, <4>1, <4>2 DEF FirstWithout
    <3>5. Along(Without(q, k), p.next, p.prev, FirstWithout(q, k, c.nodes[b]),
                Bucket(S, b, size) \ {q[k]})
      BY <1>3, <3>3, AlongWithout
    <3> QED
      BY <1>4, <1>17, <2>1, <3>4, <3>5
  <2>2. CASE i # b
    <3>1. PICK o : Along(o, c.next, c.prev, c.nodes[i], Bucket(S, i, size))
      BY <1>11
    <3>2. Bucket(S, i, size) \subseteq Keys /\ Null \notin Bucket(S, i, size)
      BY <3>1, AlongShape
    <3>3. \A x \in Bucket(S, i, size) : x \in Keys /\ x # n /\ x # before /\ x # after
      BY <1>1, <1>9, <2>2, <3>2 DEF Bucket
    <3>4. \A x \in Bucket(S, i, size) : p.next[x] = c.next[x] /\ p.prev[x] = c.prev[x]
      BY <1>14, <1>15, <3>3
    <3>5. Along(o, p.next, p.prev, c.nodes[i], Bucket(S, i, size))
      BY <3>1, <3>4, AlongElsewhere
    <3> QED
      BY <1>13, <1>17, <2>2, <3>5
  <2> QED
    BY <2>1, <2>2
<1>19. Chained(p, size, S \ {n})
  BY <1>16, <1>18 DEF Chained
<1> QED
  BY <1>10, <1>19

-----------------------------------------------------------------------------
(* Parts of a sequence *)

\* The nodes before one and from it on
LEMMA SplitAt ==
  \A v \in Seq(Keys) :
    /\ \A k \in 1 .. Len(v) + 1 :
         /\ SubSeq(v, 1, k - 1) \in Seq(Keys) /\ SubSeq(v, k, Len(v)) \in Seq(Keys)
         /\ SubSeq(v, 1, k - 1) \o SubSeq(v, k, Len(v)) = v
    /\ \A k \in 1 .. Len(v) :
         /\ SubSeq(v, 1, k) = Append(SubSeq(v, 1, k - 1), v[k])
         /\ SubSeq(v, k, Len(v)) = <<v[k]>> \o SubSeq(v, k + 1, Len(v))
<1> SUFFICES ASSUME NEW v \in Seq(Keys)
             PROVE  /\ \A k \in 1 .. Len(v) + 1 :
                         /\ SubSeq(v, 1, k - 1) \in Seq(Keys) /\ SubSeq(v, k, Len(v)) \in Seq(Keys)
                         /\ SubSeq(v, 1, k - 1) \o SubSeq(v, k, Len(v)) = v
                    /\ \A k \in 1 .. Len(v) :
                         /\ SubSeq(v, 1, k) = Append(SubSeq(v, 1, k - 1), v[k])
                         /\ SubSeq(v, k, Len(v)) = <<v[k]>> \o SubSeq(v, k + 1, Len(v))
  OBVIOUS
<1>1. PICK n \in Nat : n = Len(v)
  BY LenProperties
<1>2. ASSUME NEW a \in 1 .. n + 1, NEW b \in 0 .. n
      PROVE  SubSeq(v, a, b) \in Seq(Keys)
  <2>1. \A i \in a .. b : i \in 1 .. n
    OBVIOUS
  <2>2. a \in Int /\ b \in Int /\ \A i \in a .. b : v[i] \in Keys
    BY <1>1, <2>1, ElementOfSeq
  <2> QED
    BY <2>2, SubSeqProperties
<1>3. ASSUME NEW k \in 1 .. n + 1
      PROVE  /\ SubSeq(v, 1, k - 1) \in Seq(Keys) /\ SubSeq(v, k, n) \in Seq(Keys)
             /\ SubSeq(v, 1, k - 1) \o SubSeq(v, k, n) = v
  <2>1. /\ k - 1 \in 0 .. n /\ 1 \in 1 .. n + 1 /\ n \in 0 .. n
        /\ 1 - 1 = 0 /\ n \in k - 1 .. n /\ k - 1 + 1 = k
    OBVIOUS
  <2>2. PICK j \in 0 .. n : j = k - 1
    BY <2>1
  <2>3. SubSeq(v, 1, j) \o SubSeq(v, j + 1, n) = SubSeq(v, 1, n)
    <3>1. 1 \in 1 .. Len(v) + 1 /\ j \in 1 - 1 .. Len(v) /\ n \in j .. Len(v)
      BY <1>1, <2>1, <2>2
    <3> QED
      BY <3>1, ConcatAdjacentSubSeq
  <2>4. SubSeq(v, 1, n) = v
    BY <1>1, SubSeqFull
  <2>5. SubSeq(v, 1, k - 1) \o SubSeq(v, k, n) = v
    BY <2>1, <2>2, <2>3, <2>4
  <2> QED
    BY <1>2, <2>1, <2>5
<1>4. ASSUME NEW k \in 1 .. n
      PROVE  /\ SubSeq(v, 1, k) = Append(SubSeq(v, 1, k - 1), v[k])
             /\ SubSeq(v, k, n) = <<v[k]>> \o SubSeq(v, k + 1, n)
  <2>1. k \in 1 .. Len(v) /\ n \in k .. Len(v) /\ 1 \in 1 .. Len(v) /\ k \in 1 .. n + 1
    BY <1>1
  <2>2. SubSeq(v, k, n) = <<v[k]>> \o SubSeq(v, k + 1, n)
    BY <2>1, SubSeqRecursiveFirst
  <2>3. SubSeq(v, 1, k) = SubSeq(v, 1, k - 1) \o <<v[k]>>
    BY <2>1, SubSeqRecursiveSecond
  <2>4. SubSeq(v, 1, k - 1) \in Seq(Keys) /\ v[k] \in Keys
    BY <1>3, <2>1, ElementOfSeq
  <2> QED
    BY <2>2, <2>3, <2>4, AppendIsConcat
<1> QED
  BY <1>1, <1>3, <1>4

\* The nodes that one leaves
LEMMA WithoutElement ==
  \A v, u \in Seq(Keys) : \A k \in 1 .. Len(v) :
    (/\ Len(u) = Len(v) - 1
     /\ \A i \in 1 .. Len(v) - 1 : u[i] = IF i < k THEN v[i] ELSE v[i + 1]) =>
      /\ SubSeq(u, 1, k - 1) = SubSeq(v, 1, k - 1)
      /\ SubSeq(u, k, Len(u)) = SubSeq(v, k + 1, Len(v))
      /\ u = RemoveAt(v, k)
<1> SUFFICES ASSUME NEW v \in Seq(Keys), NEW u \in Seq(Keys), NEW k \in 1 .. Len(v),
                    Len(u) = Len(v) - 1,
                    \A i \in 1 .. Len(v) - 1 : u[i] = IF i < k THEN v[i] ELSE v[i + 1]
             PROVE  /\ SubSeq(u, 1, k - 1) = SubSeq(v, 1, k - 1)
                    /\ SubSeq(u, k, Len(u)) = SubSeq(v, k + 1, Len(v))
                    /\ u = RemoveAt(v, k)
  OBVIOUS
<1>1. PICK n \in Nat : n = Len(v)
  BY LenProperties
<1>2. k \in 1 .. n /\ Len(u) = n - 1 /\ \A i \in 1 .. n - 1 : u[i] = IF i < k THEN v[i] ELSE v[i + 1]
  BY <1>1
<1>3. (\A i \in 1 .. n : v[i] \in Keys) /\ \A i \in 1 .. n - 1 : u[i] \in Keys
  BY <1>1, <1>2, ElementOfSeq
<1>4. SubSeq(u, 1, k - 1) = SubSeq(v, 1, k - 1)
  <2>1. 1 \in Int /\ k - 1 \in Int /\ \A i \in 1 .. k - 1 : i \in 1 .. n /\ i \in 1 .. n - 1 /\ i < k
    BY <1>2
  <2> DEFINE s == SubSeq(u, 1, k - 1)
             w == SubSeq(v, 1, k - 1)
             m == IF 1 <= k - 1 THEN k - 1 - 1 + 1 ELSE 0
  <2>2. /\ s \in Seq(Keys) /\ Len(s) = m
        /\ \A i \in 1 .. k - 1 - 1 + 1 : s[i] = u[1 + i - 1]
    BY <1>3, <2>1, SubSeqProperties
  <2>3. /\ w \in Seq(Keys) /\ Len(w) = m
        /\ \A i \in 1 .. k - 1 - 1 + 1 : w[i] = v[1 + i - 1]
    BY <1>3, <2>1, SubSeqProperties
  <2> HIDE DEF s, w
  <2>4. \A i \in 1 .. m : i \in 1 .. k - 1 - 1 + 1 /\ 1 + i - 1 = i /\ i \in 1 .. k - 1
    BY <1>2
  <2> HIDE DEF m
  <2>5. \A i \in 1 .. m : s[i] = w[i]
    BY <1>2, <2>1, <2>2, <2>3, <2>4
  <2>6. s = w
    BY <2>2, <2>3, <2>5, SeqEqual
  <2> QED
    BY <2>6 DEF s, w
<1>5. SubSeq(u, k, n - 1) = SubSeq(v, k + 1, n)
  <2>1. /\ k \in Int /\ n - 1 \in Int /\ k + 1 \in Int /\ n \in Int
        /\ \A i \in k .. n - 1 : i \in 1 .. n - 1
        /\ \A i \in k + 1 .. n : i \in 1 .. n
    BY <1>2
  <2> DEFINE s == SubSeq(u, k, n - 1)
             w == SubSeq(v, k + 1, n)
             m == n - k
  <2>2. /\ s \in Seq(Keys) /\ Len(s) = IF k <= n - 1 THEN n - 1 - k + 1 ELSE 0
        /\ \A i \in 1 .. n - 1 - k + 1 : s[i] = u[k + i - 1]
    BY <1>3, <2>1, SubSeqProperties
  <2>3. /\ w \in Seq(Keys) /\ Len(w) = IF k + 1 <= n THEN n - (k + 1) + 1 ELSE 0
        /\ \A i \in 1 .. n - (k + 1) + 1 : w[i] = v[k + 1 + i - 1]
    BY <1>3, <2>1, SubSeqProperties
  <2> HIDE DEF s, w
  <2>4. Len(s) = m /\ Len(w) = m
    <3>1. (IF k <= n - 1 THEN n - 1 - k + 1 ELSE 0) = n - k
      BY <1>2
    <3>2. (IF k + 1 <= n THEN n - (k + 1) + 1 ELSE 0) = n - k
      BY <1>2
    <3> QED
      BY <2>2, <2>3, <3>1, <3>2
  <2>5. \A i \in 1 .. m : /\ i \in 1 .. n - 1 - k + 1 /\ i \in 1 .. n - (k + 1) + 1
                          /\ k + i - 1 \in 1 .. n - 1 /\ ~(k + i - 1 < k)
                          /\ k + 1 + i - 1 = k + i - 1 + 1
    BY <1>2
  <2> HIDE DEF m
  <2>6. \A i \in 1 .. m : s[i] = w[i]
    <3> TAKE i \in 1 .. m
    <3>1. PICK j \in 1 .. n - 1 : j = k + i - 1 /\ ~(j < k) /\ k + 1 + i - 1 = j + 1
      BY <2>5
    <3>2. s[i] = u[j] /\ w[i] = v[j + 1]
      BY <2>2, <2>3, <2>5, <3>1
    <3> QED
      BY <1>2, <3>1, <3>2
  <2>7. s = w
    BY <2>2, <2>3, <2>4, <2>6, SeqEqual
  <2> QED
    BY <2>7 DEF s, w
<1>6. u = RemoveAt(v, k)
  <2>1. k \in 1 .. Len(u) + 1
    <3>1. n - 1 + 1 = n
      OBVIOUS
    <3> QED
      BY <1>2, <3>1
  <2>2. u = SubSeq(u, 1, k - 1) \o SubSeq(u, k, Len(u))
    BY <2>1, SplitAt
  <2> QED
    BY <1>1, <1>2, <1>4, <1>5, <2>2 DEF RemoveAt
<1> QED
  BY <1>1, <1>2, <1>4, <1>5, <1>6


\* What is left to meet from a node on
LEMMA RestShape ==
  \A o \in Seq(Keys) :
    /\ SubSeq(o, Len(o) + 1, Len(o)) = <<>>
    /\ \A k \in 1 .. Len(o) :
         /\ SubSeq(o, k, Len(o)) # <<>>
         /\ Head(SubSeq(o, k, Len(o))) = o[k]
         /\ Tail(SubSeq(o, k, Len(o))) = SubSeq(o, k + 1, Len(o))
<1> TAKE o \in Seq(Keys)
<1>1. PICK n \in Nat : n = Len(o)
  BY LenProperties
<1>2. SubSeq(o, n + 1, n) = <<>>
  <2>1. n + 1 \in Int /\ n \in Int /\ \A i \in n + 1 .. n : o[i] \in Keys
    OBVIOUS
  <2>2. SubSeq(o, n + 1, n) \in Seq(Keys)
        /\ Len(SubSeq(o, n + 1, n)) = IF n + 1 <= n THEN n - (n + 1) + 1 ELSE 0
    BY <2>1, SubSeqProperties
  <2>3. ~(n + 1 <= n)
    OBVIOUS
  <2> QED
    BY <2>2, <2>3, EmptySeq
<1>3. ASSUME NEW k \in 1 .. n
      PROVE  /\ SubSeq(o, k, n) # <<>>
             /\ Head(SubSeq(o, k, n)) = o[k]
             /\ Tail(SubSeq(o, k, n)) = SubSeq(o, k + 1, n)
  <2>1. PICK s : s = SubSeq(o, k + 1, n)
    OBVIOUS
  <2>2. PICK x \in Keys : x = o[k]
    BY <1>1, ElementOfSeq
  <2>3. s \in Seq(Keys)
    <3>1. k + 1 \in 1 .. n + 1
      OBVIOUS
    <3> QED
      BY <1>1, <2>1, <3>1, SplitAt
  <2>4. SubSeq(o, k, n) = <<x>> \o s
    BY <1>1, <2>1, <2>2, SplitAt
  <2>5. <<x>> \o s # << >> /\ Head(<<x>> \o s) = x /\ Tail(<<x>> \o s) = s
    BY <2>3
  <2> QED
    BY <2>1, <2>2, <2>4, <2>5
<1> QED
  BY <1>1, <1>2, <1>3

\* From any place of a sequence that the links go along, the rest of it is met.
LEMMA WalksOn ==
  \A o, link, back, first, nodes :
    Along(o, link, back, first, nodes) =>
      \A k \in 1 .. Len(o) + 1 : Walk(link, At(o, k)) = SubSeq(o, k, Len(o))
<1> SUFFICES ASSUME NEW o, NEW link, NEW back, NEW first, NEW nodes,
                    Along(o, link, back, first, nodes), NEW k \in 1 .. Len(o) + 1
             PROVE  Walk(link, At(o, k)) = SubSeq(o, k, Len(o))
  OBVIOUS
<1>1. o \in Seq(Keys)
  BY DEF Along
<1>2. PICK n \in Nat : n = Len(o)
  BY <1>1, OrderShape
<1>3. CASE k \in 1 .. n
  <2>1. At(o, k) = o[k]
    BY <1>1, <1>2, <1>3, OrderShape
  <2>2. \A j \in 1 .. Len(o) : Walk(link, o[j]) = SubSeq(o, j, Len(o))
    BY WalksAlong
  <2> QED
    BY <1>2, <1>3, <2>1, <2>2
<1>4. CASE k = n + 1
  <2>1. At(o, k) = Null
    BY <1>2, <1>4 DEF At
  <2>2. SubSeq(o, n + 1, n) = <<>>
    BY <1>1, <1>2, RestShape
  <2> QED
    BY <1>2, <1>4, <2>1, <2>2, WalkFromNull
<1>5. k \in 1 .. n \/ k = n + 1
  BY <1>2
<1> QED
  BY <1>3, <1>4, <1>5

-----------------------------------------------------------------------------
(* What hashtable_rehash leaves *)

TableStep(c, list, size, f, i) ==
  IF i = 0 THEN [c EXCEPT !.nodes = NoNodes(size)]
  ELSE Prepend(f[i - 1], RehashIndex(list[i], size), list[i])

Tables(c, list, size, n, f) == f = [i \in 0 .. n |-> TableStep(c, list, size, f, i)]

LEMMA SomeTables ==
  \A c, list, size : \A n \in Nat : \E f : Tables(c, list, size, n, f)
<1> SUFFICES ASSUME NEW c, NEW list, NEW size
             PROVE  \A n \in Nat : \E f : Tables(c, list, size, n, f)
  OBVIOUS
<1> DEFINE T == {n \in Nat : ~ \E f : Tables(c, list, size, n, f)}
<1>1. SUFFICES ASSUME T # {} PROVE FALSE
  BY Zenon
<1>2. T \in SUBSET Nat
  OBVIOUS
<1>3. PICK n \in T : \A m \in T : n <= m
  BY <1>1, <1>2, LeastElement
<1>4. n \in Nat /\ ~ \E f : Tables(c, list, size, n, f)
  BY <1>3
<1>5. CASE n = 0
  <2>1. 0 .. 0 = {0}
    OBVIOUS
  <2> DEFINE f == [m \in 0 .. 0 |-> [c EXCEPT !.nodes = NoNodes(size)]]
  <2>2. Tables(c, list, size, 0, f)
    BY <2>1 DEF Tables, TableStep
  <2> QED
    BY <1>4, <1>5, <2>2
<1>6. CASE n # 0
  <2>1. n - 1 \in Nat /\ ~(n <= n - 1)
    BY <1>4, <1>6
  <2>2. PICK f : Tables(c, list, size, n - 1, f)
    BY <1>3, <2>1
  <2> DEFINE g == [m \in 0 .. n |-> IF m = n THEN TableStep(c, list, size, f, n) ELSE f[m]]
  <2>3. \A m \in 0 .. n : m # n => m \in 0 .. n - 1
    BY <1>4
  <2>4. \A m \in 0 .. n : m # 0 => m - 1 \in 0 .. n /\ m - 1 # n
    BY <1>4
  <2>5. \A m \in 0 .. n : m # 0 => g[m - 1] = f[m - 1]
    BY <2>4
  <2>6. \A m \in 0 .. n : g[m] = TableStep(c, list, size, f, m)
    BY <2>2, <2>3 DEF Tables
  <2>7. g = [m \in 0 .. n |-> g[m]]
    OBVIOUS
  <2> HIDE DEF g
  <2>8. \A m \in 0 .. n : TableStep(c, list, size, g, m) = TableStep(c, list, size, f, m)
    BY <2>5, Zenon DEF TableStep
  <2>9. \A m \in 0 .. n : g[m] = TableStep(c, list, size, g, m)
    BY <2>6, <2>8, Zenon
  <2>10. Tables(c, list, size, n, g)
    BY <2>7, <2>9 DEF Tables
  <2> QED
    BY <1>4, <2>10
<1> QED
  BY <1>5, <1>6

\* Every node of the list is in the chain of its bucket under the new mask.
LEMMA RehashedChained ==
  \A c, old : \A size \in Nat \ {0} : \A list \in Seq(Keys) :
    c \in ChainsType(old) /\ Distinct(list)
      => Chained(Rehashed(c, list, size), size, {list[i] : i \in 1 .. Len(list)})
<1> SUFFICES ASSUME NEW c, NEW old, NEW size \in Nat \ {0}, NEW list \in Seq(Keys),
                    c \in ChainsType(old), Distinct(list)
             PROVE  Chained(Rehashed(c, list, size), size, {list[i] : i \in 1 .. Len(list)})
  OBVIOUS
<1>1. PICK n \in Nat : n = Len(list)
  BY OrderShape
<1>2. /\ \A i \in 1 .. n : list[i] \in Keys
      /\ \A i, j \in 1 .. n : list[i] = list[j] => i = j
  BY <1>1, OrderShape DEF Distinct
<1> DEFINE table == CHOOSE f : Tables(c, list, size, n, f)
<1>3. Rehashed(c, list, size) = table[n]
  BY <1>1, Zenon DEF Rehashed, Tables, TableStep
<1>4. Tables(c, list, size, n, table)
  BY SomeTables, Zenon
<1> HIDE DEF table
<1>5. \A i \in 0 .. n : table[i] = TableStep(c, list, size, table, i)
  BY <1>4 DEF Tables
<1> DEFINE Nodes(i) == {list[j] : j \in 1 .. i}
           Wrong == {i \in 0 .. n : ~Chained(table[i], size, Nodes(i))}
<1>6. Wrong = {}
  <2> SUFFICES ASSUME Wrong # {} PROVE FALSE
    OBVIOUS
  <2>1. Wrong \in SUBSET Nat
    OBVIOUS
  <2>2. PICK i \in Wrong : \A j \in Wrong : i <= j
    BY <2>1, LeastElement
  <2>3. i \in 0 .. n /\ ~Chained(table[i], size, Nodes(i))
    OBVIOUS
  <2>4. CASE i = 0
    <3>1. PICK e : e = [c EXCEPT !.nodes = NoNodes(size)]
      OBVIOUS
    <3>2. table[i] = e
      BY <1>5, <2>3, <2>4, <3>1 DEF TableStep
    <3>3. e.nodes = NoNodes(size) /\ e \in ChainsType(size)
      <4>1. NoNodes(size) \in [0 .. size - 1 -> Keys \cup {Null}]
        BY DEF NoNodes
      <4> QED
        BY <3>1, <4>1 DEF ChainsType
    <3>4. Nodes(i) = {}
      BY <2>4
    <3> HIDE DEF Nodes
    <3> QED
      BY <2>3, <3>2, <3>3, <3>4, EmptyChained
  <2>5. CASE i # 0
    <3>1. i \in 1 .. n /\ i - 1 \in 0 .. n /\ ~(i <= i - 1)
      BY <2>3, <2>5
    <3>2. Chained(table[i - 1], size, Nodes(i - 1))
      BY <2>2, <3>1
    <3>3. table[i] = Prepend(table[i - 1], Index(list[i], size), list[i])
      BY <1>5, <2>3, <2>5 DEF TableStep, RehashIndex
    <3>4. \A j \in 1 .. i - 1 : j \in 1 .. n /\ j # i
      BY <3>1
    <3>5. Nodes(i - 1) \in SUBSET Keys /\ list[i] \in Keys \ Nodes(i - 1)
      BY <1>2, <3>1, <3>4
    <3>6. Nodes(i) = Nodes(i - 1) \cup {list[i]}
      <4>1. \A j \in 1 .. i : j \in 1 .. i - 1 \/ j = i
        BY <3>1
      <4>2. i \in 1 .. i /\ \A j \in 1 .. i - 1 : j \in 1 .. i
        BY <3>1
      <4> QED
        BY <4>1, <4>2
    <3> HIDE DEF Nodes
    <3> QED
      BY <2>3, <3>2, <3>3, <3>5, <3>6, PrependChained
  <2> QED
    BY <2>4, <2>5
<1>7. n \in 0 .. n
  OBVIOUS
<1>8. Chained(table[n], size, Nodes(n))
  BY <1>6, <1>7
<1> QED
  BY <1>1, <1>3, <1>8

-----------------------------------------------------------------------------
(* The state of the table *)

Allocated == {k \in Keys : data[k] # Null}

HashTypeOK ==
  /\ capacity \in Nat \ {0}
  /\ gNext \in [Keys -> Keys \cup {Null}] /\ gPrev \in [Keys -> Keys \cup {Null}]
  /\ data \in [Keys -> Values \cup {Null}]
  /\ traversing \in BOOLEAN

\* o is the order of the nodes in the list; a traversal is at a place of it.
ListOrder(o) ==
  /\ Along(o, gNext, gPrev, gHead, Allocated)
  /\ gTail = At(o, Len(o))
  /\ count = Len(o) /\ count < capacity
  /\ IF traversing THEN \E k \in 1 .. Len(o) + 1 : it = At(o, k) ELSE it = Null

HashInv ==
  /\ HashTypeOK
  /\ Chained(chains, capacity, Allocated)
  /\ \E o : ListOrder(o)

\* The table as HashPromise sees it
Value == [k \in Keys |-> IF HashContains(k) THEN data[k] ELSE Null]
Order == Walk(gNext, gHead)
Ahead == Walk(gNext, it)

PromiseStep == MapPromise!PromiseNext \/ UNCHANGED <<Value, Order, Ahead>>

\* What the buckets say of a key is what was stored.
LEMMA ValuesSeen ==
  \A c : \A size \in Nat \ {0} : \A d \in [Keys -> Values \cup {Null}] :
    Chained(c, size, {k \in Keys : d[k] # Null}) =>
      [k \in Keys |-> IF k \in ToSet(Walk(c.next, c.nodes[Index(k, size)])) THEN d[k] ELSE Null] = d
<1> SUFFICES ASSUME NEW c, NEW size \in Nat \ {0}, NEW d \in [Keys -> Values \cup {Null}],
                    Chained(c, size, {k \in Keys : d[k] # Null})
             PROVE  [k \in Keys |-> IF k \in ToSet(Walk(c.next, c.nodes[Index(k, size)]))
                                    THEN d[k] ELSE Null] = d
  OBVIOUS
<1>1. \A k \in Keys :
        k \in ToSet(Walk(c.next, c.nodes[Index(k, size)])) <=> k \in {x \in Keys : d[x] # Null}
  <2>1. {x \in Keys : d[x] # Null} \in SUBSET Keys
    OBVIOUS
  <2> QED
    BY <2>1, LookedUp
<1>2. \A k \in Keys : (IF k \in ToSet(Walk(c.next, c.nodes[Index(k, size)]))
                       THEN d[k] ELSE Null) = d[k]
  BY <1>1
<1>3. d = [k \in Keys |-> d[k]]
  OBVIOUS
<1> QED
  BY <1>2, <1>3

LEMMA Seen ==
  ASSUME HashTypeOK, Chained(chains, capacity, Allocated), NEW o, ListOrder(o)
  PROVE  /\ Value = data /\ Order = o
         /\ ~traversing => Ahead = <<>>
         /\ \A k \in 1 .. Len(o) + 1 : it = At(o, k) => Ahead = SubSeq(o, k, Len(o))
<1>1. Value = data
  <2>1. /\ Chained(chains, capacity, {k \in Keys : data[k] # Null})
        /\ capacity \in Nat \ {0} /\ data \in [Keys -> Values \cup {Null}]
    BY DEF HashTypeOK, Allocated
  <2>2. [k \in Keys |-> IF k \in ToSet(Walk(chains.next, chains.nodes[Index(k, capacity)]))
                        THEN data[k] ELSE Null] = data
    BY <2>1, ValuesSeen
  <2> QED
    BY <2>2, Zenon DEF Value, HashContains, Chain
<1>2. Along(o, gNext, gPrev, gHead, Allocated)
  BY DEF ListOrder
<1>3. Order = o
  BY <1>2, WalksAlong DEF Order
<1>4. ~traversing => Ahead = <<>>
  BY WalkFromNull DEF ListOrder, Ahead
<1>5. \A k \in 1 .. Len(o) + 1 : Walk(gNext, At(o, k)) = SubSeq(o, k, Len(o))
  BY <1>2, WalksOn
<1> QED
  BY <1>1, <1>3, <1>4, <1>5 DEF Ahead

LEMMA SeenNext ==
  ASSUME HashTypeOK', Chained(chains', capacity', Allocated'), NEW o, ListOrder(o)'
  PROVE  /\ Value' = data' /\ Order' = o
         /\ ~traversing' => Ahead' = <<>>
         /\ \A k \in 1 .. Len(o) + 1 : it' = At(o, k) => Ahead' = SubSeq(o, k, Len(o))
<1>1. Value' = data'
  <2>1. /\ Chained(chains', capacity', {k \in Keys : data'[k] # Null})
        /\ capacity' \in Nat \ {0} /\ data' \in [Keys -> Values \cup {Null}]
    BY DEF HashTypeOK, Allocated
  <2>2. [k \in Keys |-> IF k \in ToSet(Walk(chains'.next, chains'.nodes[Index(k, capacity')]))
                        THEN data'[k] ELSE Null] = data'
    BY <2>1, ValuesSeen
  <2> QED
    BY <2>2, Zenon DEF Value, HashContains, Chain
<1>2. Along(o, gNext', gPrev', gHead', Allocated')
  BY DEF ListOrder
<1>3. Order' = o
  BY <1>2, WalksAlong DEF Order
<1>4. ~traversing' => Ahead' = <<>>
  BY WalkFromNull DEF ListOrder, Ahead
<1>5. \A k \in 1 .. Len(o) + 1 : Walk(gNext', At(o, k)) = SubSeq(o, k, Len(o))
  BY <1>2, WalksOn
<1> QED
  BY <1>1, <1>3, <1>4, <1>5 DEF Ahead

LEMMA ContainsAllocated ==
  ASSUME HashInv, NEW k \in Keys
  PROVE  HashContains(k) <=> data[k] # Null
<1>1. /\ Chained(chains, capacity, Allocated) /\ capacity \in Nat \ {0}
      /\ Allocated \in SUBSET Keys
  BY DEF HashInv, HashTypeOK, Allocated
<1>2. k \in ToSet(Walk(chains.next, chains.nodes[Index(k, capacity)])) <=> k \in Allocated
  BY <1>1, LookedUp
<1> QED
  BY <1>2 DEF HashContains, Chain, Allocated

\* HASHTABLE_MIN_SIZE is a power of two, and so there is a bucket at first.
LEMMA MinSizePositive == MinSize \in Nat \ {0}
<1>1. PICK n \in 1 .. 16 : MinSize = 2 ^ n
  BY MinSizeAssumption
<1> DEFINE S == 1 .. n
<1>2. IsFiniteSet(S) /\ Cardinality(S) = n
  <2>1. 1 \in Int /\ n \in Int
    OBVIOUS
  <2>2. IsFiniteSet(1 .. n) /\ Cardinality(1 .. n) = IF 1 > n THEN 0 ELSE n - 1 + 1
    BY <2>1, FS_Interval
  <2> QED
    BY <2>2
<1> HIDE DEF S
<1>3. IsFiniteSet(SUBSET S) /\ Cardinality(SUBSET S) = 2 ^ n
  BY <1>2, FS_SUBSET
<1>4. SUBSET S # {}
  OBVIOUS
<1>5. Cardinality(SUBSET S) \in Nat /\ Cardinality(SUBSET S) # 0
  BY <1>3, <1>4, FS_CardinalityType, FS_EmptySet
<1> QED
  BY <1>1, <1>3, <1>5

-----------------------------------------------------------------------------
(* The steps *)

LEMMA InitKeeps ==
  ASSUME HashInit
  PROVE  HashInv /\ MapPromise!PromiseInit
<1>1. /\ capacity = MinSize /\ gHead = Null /\ gTail = Null /\ gNext = NoLinks /\ gPrev = NoLinks
      /\ count = 0 /\ data = NoLinks /\ traversing = FALSE /\ it = Null
      /\ chains = [nodes |-> NoNodes(MinSize), next |-> NoLinks, prev |-> NoLinks]
  BY DEF HashInit
<1>2. NoLinks \in [Keys -> Keys \cup {Null}] /\ \A k \in Keys : NoLinks[k] = Null
  BY DEF NoLinks
<1>3. HashTypeOK
  <2>1. data \in [Keys -> Values \cup {Null}]
    BY <1>1 DEF NoLinks
  <2> QED
    BY <1>1, <1>2, <2>1, MinSizePositive DEF HashTypeOK
<1>4. Allocated = {}
  BY <1>1, <1>2 DEF Allocated
<1>5. Chained(chains, capacity, Allocated)
  <2>1. NoNodes(capacity) \in [0 .. capacity - 1 -> Keys \cup {Null}]
    BY DEF NoNodes
  <2>2. chains.nodes = NoNodes(capacity) /\ chains \in ChainsType(capacity)
    BY <1>1, <1>2, <2>1 DEF ChainsType
  <2> QED
    BY <1>4, <2>2, EmptyChained
<1>6. ListOrder(<< >>)
  <2>1. << >> \in Seq(Keys) /\ Len(<< >>) = 0 /\ 1 .. 0 = {}
    BY EmptySeq
  <2>2. Distinct(<< >>) /\ At(<< >>, 1) = Null /\ At(<< >>, 0) = Null
    BY <2>1 DEF Distinct, At
  <2>3. Along(<< >>, gNext, gPrev, gHead, Allocated)
    BY <1>1, <1>4, <2>1, <2>2 DEF Along
  <2> QED
    BY <1>1, <2>1, <2>2, <2>3, MinSizePositive DEF ListOrder
<1>7. HashInv
  BY <1>3, <1>5, <1>6 DEF HashInv
<1>8. Value = data /\ Order = << >> /\ Ahead = << >>
  BY <1>1, <1>3, <1>5, <1>6, Seen
<1>9. MapPromise!PromiseInit
  <2>1. data = [k \in Keys |-> Null]
    BY <1>1 DEF NoLinks
  <2> QED
    BY <1>8, <2>1, Zenon DEF MapPromise!PromiseInit, Value, Order, Ahead
<1> QED
  BY <1>7, <1>9

LEMMA PutNewKeeps ==
  ASSUME HashInv, NEW k \in Keys, NEW v \in Values, PutNew(k, v)
  PROVE  HashInv' /\ PromiseStep
<1>1. /\ traversing = FALSE /\ traversing' = FALSE /\ it' = it
      /\ data' = [data EXCEPT ![k] = v]
      /\ gPrev' = [gPrev EXCEPT ![k] = gTail]
      /\ gNext' = [n \in Keys |-> IF n = k THEN Null ELSE IF n = gTail THEN k ELSE gNext[n]]
      /\ gTail' = k /\ count' = count + 1
  BY DEF PutNew, iterVars, HashInv, HashTypeOK
<1>2. gHead' = FirstAppended(gHead, k)
  BY DEF PutNew, FirstAppended
<1>3. HashTypeOK /\ Chained(chains, capacity, Allocated)
  BY DEF HashInv
<1>4. PICK o : ListOrder(o)
  BY DEF HashInv
<1>5. data[k] = Null
  BY ContainsAllocated DEF PutNew
<1>6. k \in Keys \ Allocated /\ Allocated \in SUBSET Keys /\ Allocated' = Allocated \cup {k}
  <2>1. v # Null
    BY KeysAssumption
  <2>2. \A n \in Keys : data'[n] = IF n = k THEN v ELSE data[n]
    BY <1>1, <1>3 DEF HashTypeOK
  <2> QED
    BY <1>5, <2>1, <2>2 DEF Allocated
<1>7. /\ Along(o, gNext, gPrev, gHead, Allocated)
      /\ gTail = At(o, Len(o)) /\ count = Len(o) /\ count < capacity /\ it = Null
  BY <1>1, <1>4 DEF ListOrder
<1>8. PICK m \in Nat : m = Len(o)
  BY <1>7, OrderShape DEF Along
<1>9. /\ \A i \in 1 .. m : o[i] \in Keys /\ o[i] # k
      /\ \A i \in 1 .. m : o[i] = gTail <=> i = m
      /\ gTail \in Keys \cup {Null}
  <2>1. \A i \in 1 .. m : o[i] \in Allocated
    BY <1>7, <1>8 DEF Along
  <2>2. m \in Int
    OBVIOUS
  <2>3. \A i \in 1 .. m : o[i] = At(o, m) <=> i = m
    BY <1>7, <1>8, <2>2, AlongShape
  <2>4. At(o, Len(o)) \in Allocated \cup {Null}
    BY <1>7, AlongShape
  <2> QED
    BY <1>6, <1>7, <1>8, <2>1, <2>3, <2>4
<1>10. /\ gNext' \in [Keys -> Keys \cup {Null}] /\ gPrev' \in [Keys -> Keys \cup {Null}]
       /\ data' \in [Keys -> Values \cup {Null}]
  <2>1. \A n \in Keys : (IF n = k THEN Null ELSE IF n = gTail THEN k ELSE gNext[n])
                          \in Keys \cup {Null}
    BY <1>3 DEF HashTypeOK
  <2> QED
    BY <1>1, <1>3, <1>9, <2>1 DEF HashTypeOK
<1>11. PICK w : w = Append(o, k)
  OBVIOUS
<1>12. /\ Along(w, gNext', gPrev', gHead', Allocated')
       /\ Len(w) = m + 1 /\ At(w, m + 1) = k
  <2>1. \A n \in Keys : /\ gNext'[n] = IF n = k THEN Null ELSE IF n = gTail THEN k ELSE gNext[n]
                        /\ gPrev'[n] = IF n = k THEN gTail ELSE gPrev[n]
    BY <1>1, <1>3 DEF HashTypeOK
  <2>2. gNext'[k] = Null /\ gPrev'[k] = At(o, Len(o))
    BY <1>7, <2>1
  <2>3. LinkedBefore(k, o, gNext, gPrev, gNext', gPrev')
    BY <1>8, <1>9, <2>1 DEF LinkedBefore
  <2>4. /\ Along(Append(o, k), gNext', gPrev', FirstAppended(gHead, k), Allocated \cup {k})
        /\ Len(Append(o, k)) = Len(o) + 1 /\ At(Append(o, k), Len(o) + 1) = k
    BY <1>6, <1>7, <2>2, <2>3, AlongAppended
  <2> QED
    BY <1>2, <1>6, <1>8, <1>11, <2>4
<1>13. PICK inserted : inserted = Prepend(chains, Index(k, capacity), k)
  OBVIOUS
<1>14. Chained(inserted, capacity, Allocated')
  <2>1. capacity \in Nat \ {0}
    BY <1>3 DEF HashTypeOK
  <2> QED
    BY <1>3, <1>6, <1>13, <2>1, PrependChained
<1>15. IF count' < capacity THEN capacity' = capacity /\ chains' = inserted
       ELSE capacity' = 2 * capacity /\ chains' = Rehashed(inserted, Walk(gNext', gHead'), capacity')
  BY <1>13 DEF PutNew, MaybeResize
<1>16. Chained(chains', capacity', Allocated') /\ capacity' \in Nat \ {0} /\ count' < capacity'
  <2>1. capacity \in Nat \ {0}
    BY <1>3 DEF HashTypeOK
  <2>2. CASE count' < capacity
    BY <1>14, <1>15, <2>1, <2>2
  <2>3. CASE ~(count' < capacity)
    <3>1. capacity' = 2 * capacity /\ chains' = Rehashed(inserted, Walk(gNext', gHead'), capacity')
      BY <1>15, <2>3
    <3>2. Walk(gNext', gHead') = w
      BY <1>12, WalksAlong
    <3>3. w \in Seq(Keys) /\ Distinct(w) /\ Allocated' = {w[i] : i \in 1 .. Len(w)}
      BY <1>12 DEF Along
    <3>4. inserted \in ChainsType(capacity)
      BY <1>14 DEF Chained
    <3>5. capacity' \in Nat \ {0}
      BY <2>1, <3>1
    <3>6. Chained(Rehashed(inserted, w, capacity'), capacity', {w[i] : i \in 1 .. Len(w)})
      BY <3>3, <3>4, <3>5, RehashedChained
    <3>7. count' < capacity'
      BY <1>1, <1>7, <1>8, <2>1, <3>1
    <3> QED
      BY <3>1, <3>2, <3>3, <3>5, <3>6, <3>7
  <2> QED
    BY <2>2, <2>3
<1>17. HashTypeOK'
  BY <1>1, <1>10, <1>16 DEF HashTypeOK
<1>18. ListOrder(w)'
  <2>1. gTail' = At(w, Len(w)) /\ count' = Len(w) /\ it' = Null
    BY <1>1, <1>7, <1>8, <1>12
  <2> QED
    BY <1>1, <1>12, <1>16, <2>1 DEF ListOrder
<1>19. HashInv'
  BY <1>16, <1>17, <1>18 DEF HashInv
<1>20. /\ Value = data /\ Order = o /\ Ahead = << >>
       /\ Value' = data' /\ Order' = Append(o, k) /\ Ahead' = << >>
  BY <1>1, <1>3, <1>4, <1>11, <1>16, <1>17, <1>18, Seen, SeenNext
<1>21. MapPromise!Put(k, v)
  <2>1. /\ Ahead = << >>
        /\ Value' = [Value EXCEPT ![k] = v]
        /\ Order' = IF Value[k] = Null THEN Append(Order, k) ELSE Order
        /\ Ahead' = Ahead
    BY <1>1, <1>5, <1>20
  <2> QED
    BY <2>1, Zenon DEF MapPromise!Put, Value, Order, Ahead
<1> QED
  BY <1>19, <1>21, Zenon DEF PromiseStep, MapPromise!PromiseNext

LEMMA PutExistingKeeps ==
  ASSUME HashInv, NEW k \in Keys, NEW v \in Values, PutExisting(k, v)
  PROVE  HashInv' /\ PromiseStep
<1>1. /\ ~traversing /\ ~traversing' /\ it' = it /\ traversing' = traversing
      /\ data' = [data EXCEPT ![k] = v]
      /\ UNCHANGED <<capacity, chains, gHead, gTail, gNext, gPrev, count>>
  BY DEF PutExisting, iterVars, listVars
<1>2. HashTypeOK /\ Chained(chains, capacity, Allocated)
  BY DEF HashInv
<1>3. PICK o : ListOrder(o)
  BY DEF HashInv
<1>4. data[k] # Null
  BY ContainsAllocated DEF PutExisting
<1>5. Allocated' = Allocated /\ data' \in [Keys -> Values \cup {Null}]
  <2>1. v # Null
    BY KeysAssumption
  <2>2. \A n \in Keys : data'[n] = IF n = k THEN v ELSE data[n]
    BY <1>1, <1>2 DEF HashTypeOK
  <2> QED
    BY <1>1, <1>2, <1>4, <2>1, <2>2 DEF Allocated, HashTypeOK
<1>6. HashTypeOK'
  BY <1>1, <1>2, <1>5 DEF HashTypeOK
<1>7. Chained(chains', capacity', Allocated')
  BY <1>1, <1>2, <1>5
<1>8. ListOrder(o)'
  BY <1>1, <1>3, <1>5 DEF ListOrder
<1>9. HashInv'
  BY <1>6, <1>7, <1>8 DEF HashInv
<1>10. /\ Value = data /\ Order = o /\ Ahead = << >>
       /\ Value' = data' /\ Order' = o /\ Ahead' = << >>
  BY <1>1, <1>2, <1>3, <1>6, <1>7, <1>8, Seen, SeenNext
<1>11. MapPromise!Put(k, v)
  <2>1. /\ Ahead = << >>
        /\ Value' = [Value EXCEPT ![k] = v]
        /\ Order' = IF Value[k] = Null THEN Append(Order, k) ELSE Order
        /\ Ahead' = Ahead
    BY <1>1, <1>4, <1>10
  <2> QED
    BY <2>1, Zenon DEF MapPromise!Put, Value, Order, Ahead
<1> QED
  BY <1>9, <1>11, Zenon DEF PromiseStep, MapPromise!PromiseNext

LEMMA UnlistEffect ==
  ASSUME HashTypeOK, NEW o, Along(o, gNext, gPrev, gHead, Allocated), gTail = At(o, Len(o)),
         NEW k \in 1 .. Len(o), Unlist(o[k])
  PROVE  /\ gNext' \in [Keys -> Keys \cup {Null}] /\ gPrev' \in [Keys -> Keys \cup {Null}]
         /\ Along(Without(o, k), gNext', gPrev', gHead', Allocated \ {o[k]})
         /\ Len(Without(o, k)) = Len(o) - 1
         /\ gTail' = At(Without(o, k), Len(o) - 1)
<1> DEFINE n == o[k]
           before == gPrev[n]
           after == gNext[n]
<1>1. /\ gNext' = [x \in Keys |-> CASE x = n -> Null [] x = before -> after [] OTHER -> gNext[x]]
      /\ gPrev' = [x \in Keys |-> CASE x = n -> Null [] x = after -> before [] OTHER -> gPrev[x]]
      /\ gHead' = IF before = Null THEN after ELSE gHead
      /\ gTail' = IF after = Null THEN before ELSE gTail
  BY Zenon DEF Unlist
<1>2. PICK m \in Nat : m = Len(o)
  BY OrderShape DEF Along
<1>3. k \in 1 .. m /\ k - 1 \in Int /\ k + 1 \in Int
  BY <1>2
<1>4. before = At(o, k - 1) /\ after = At(o, k + 1)
  BY DEF Along
<1>5. /\ \A x \in Int : \A j \in 1 .. m : o[j] = At(o, x) <=> j = x
      /\ \A x \in Int : At(o, x) \in Allocated \cup {Null}
      /\ Allocated \subseteq Keys
  BY <1>2, AlongShape
<1>6. before \in Keys \cup {Null} /\ after \in Keys \cup {Null}
  BY <1>3, <1>4, <1>5
<1>7. before # n /\ after # n
  <2>1. k # k - 1 /\ k # k + 1
    BY <1>3
  <2> QED
    BY <1>3, <1>4, <1>5, <2>1
<1>8. /\ \A j \in 1 .. m : o[j] \in Keys
      /\ \A j \in 1 .. m : j # k => o[j] # n
      /\ \A j \in 1 .. m : o[j] = before <=> j = k - 1
      /\ \A j \in 1 .. m : o[j] = after <=> j = k + 1
  <2>1. \A j \in 1 .. m : o[j] \in Keys
    BY <1>2, OrderShape DEF Along
  <2>2. \A j \in 1 .. m : j # k => o[j] # n
    BY <1>2, <1>3 DEF Along, Distinct
  <2> QED
    BY <1>3, <1>4, <1>5, <2>1, <2>2
<1>9. (before = Null <=> k = 1) /\ (after = Null <=> k = m)
  <2>1. /\ \A j \in 1 .. m : At(o, j) # Null
        /\ \A j \in Int : j < 1 \/ j > m => At(o, j) = Null
    BY <1>2, OrderShape DEF Along
  <2>2. ASSUME k = 1 PROVE before = Null
    <3>1. k - 1 < 1
      BY <2>2
    <3> QED
      BY <1>3, <1>4, <2>1, <2>2, <3>1
  <2>3. ASSUME k # 1 PROVE before # Null
    <3>1. k - 1 \in 1 .. m
      BY <1>3, <2>3
    <3> QED
      BY <1>4, <2>1, <2>3, <3>1
  <2>4. ASSUME k = m PROVE after = Null
    <3>1. k + 1 > m
      BY <2>4
    <3> QED
      BY <1>3, <1>4, <2>1, <2>4, <3>1
  <2>5. ASSUME k # m PROVE after # Null
    <3>1. k + 1 \in 1 .. m
      BY <1>3, <2>5
    <3> QED
      BY <1>4, <2>1, <2>5, <3>1
  <2> QED
    BY <2>2, <2>3, <2>4, <2>5
<1>10. gNext \in [Keys -> Keys \cup {Null}] /\ gPrev \in [Keys -> Keys \cup {Null}]
  BY DEF HashTypeOK
<1> HIDE DEF before, after
<1>11. /\ gNext' \in [Keys -> Keys \cup {Null}]
       /\ \A x \in Keys : x # n => gNext'[x] = IF x = before THEN after ELSE gNext[x]
  <2>1. \A x \in Keys : (CASE x = n -> Null [] x = before -> after [] OTHER -> gNext[x])
                        = IF x = n THEN Null ELSE IF x = before THEN after ELSE gNext[x]
    BY <1>7
  <2>2. \A x \in Keys : gNext'[x] = IF x = n THEN Null
                                    ELSE IF x = before THEN after ELSE gNext[x]
    BY <1>1, <2>1
  <2>3. \A x \in Keys : gNext'[x] \in Keys \cup {Null}
    BY <1>6, <1>10, <2>2
  <2> QED
    BY <1>1, <2>2, <2>3
<1>12. /\ gPrev' \in [Keys -> Keys \cup {Null}]
       /\ \A x \in Keys : x # n => gPrev'[x] = IF x = after THEN before ELSE gPrev[x]
  <2>1. \A x \in Keys : (CASE x = n -> Null [] x = after -> before [] OTHER -> gPrev[x])
                        = IF x = n THEN Null ELSE IF x = after THEN before ELSE gPrev[x]
    BY <1>7
  <2>2. \A x \in Keys : gPrev'[x] = IF x = n THEN Null
                                    ELSE IF x = after THEN before ELSE gPrev[x]
    BY <1>1, <2>1
  <2>3. \A x \in Keys : gPrev'[x] \in Keys \cup {Null}
    BY <1>6, <1>10, <2>2
  <2> QED
    BY <1>1, <2>2, <2>3
<1>13. \A j \in 1 .. Len(o) : j # k =>
         /\ gNext'[o[j]] = IF j = k - 1 THEN At(o, k + 1) ELSE gNext[o[j]]
         /\ gPrev'[o[j]] = IF j = k + 1 THEN At(o, k - 1) ELSE gPrev[o[j]]
  BY <1>2, <1>4, <1>8, <1>11, <1>12
<1>14. gHead' = FirstWithout(o, k, gHead)
  <2>1. k = 1 => k + 1 = 2
    OBVIOUS
  <2> QED
    BY <1>1, <1>4, <1>9, <2>1 DEF FirstWithout
<1>15. Along(Without(o, k), gNext', gPrev', FirstWithout(o, k, gHead), Allocated \ {o[k]})
  BY <1>13, AlongWithout
<1>16. /\ Len(Without(o, k)) = m - 1
       /\ \A i \in Int : At(Without(o, k), i) = IF i < k THEN At(o, i) ELSE At(o, i + 1)
  BY <1>2, WithoutShape DEF Along
<1>17. gTail' = At(Without(o, k), m - 1)
  <2>1. m - 1 \in Int /\ (m - 1 < k <=> k = m) /\ m - 1 + 1 = m
    BY <1>3
  <2>2. At(Without(o, k), m - 1) = IF k = m THEN At(o, m - 1) ELSE At(o, m)
    BY <1>16, <2>1
  <2> QED
    BY <1>1, <1>2, <1>4, <1>9, <2>2
<1> QED
  BY <1>2, <1>11, <1>12, <1>14, <1>15, <1>16, <1>17

\* What a node that is freed leaves, and what HashPromise says of it
LEMMA FreeEffect ==
  ASSUME HashInv, NEW o, ListOrder(o), NEW k \in 1 .. Len(o), Free(o[k]),
         UNCHANGED <<capacity, traversing>>
  PROVE  /\ HashTypeOK' /\ Chained(chains', capacity', Allocated')
         /\ Along(Without(o, k), gNext', gPrev', gHead', Allocated')
         /\ Len(Without(o, k)) = Len(o) - 1
         /\ gTail' = At(Without(o, k), Len(o) - 1) /\ count' = Len(o) - 1 /\ count' < capacity'
         /\ data' = [data EXCEPT ![o[k]] = Null]
         /\ Without(o, k) = RemoveAt(o, k)
         /\ SubSeq(Without(o, k), k, Len(o) - 1) = SubSeq(o, k + 1, Len(o))
<1>1. /\ HashTypeOK /\ Chained(chains, capacity, Allocated)
      /\ capacity \in Nat \ {0}
  BY DEF HashInv, HashTypeOK
<1>2. /\ Along(o, gNext, gPrev, gHead, Allocated)
      /\ gTail = At(o, Len(o)) /\ count = Len(o) /\ count < capacity
      /\ o \in Seq(Keys)
  BY DEF ListOrder, Along
<1>3. PICK m \in Nat : m = Len(o)
  BY <1>2, OrderShape
<1>4. /\ Unchain(o[k]) /\ Unlist(o[k]) /\ count' = count - 1
      /\ data' = [data EXCEPT ![o[k]] = Null]
      /\ capacity' = capacity /\ traversing' = traversing
  BY DEF Free
<1>5. o[k] \in Allocated /\ Allocated \in SUBSET Keys /\ o[k] \in Keys
  BY <1>2 DEF Along, Allocated
<1>6. Allocated' = Allocated \ {o[k]} /\ data' \in [Keys -> Values \cup {Null}]
  <2>1. \A n \in Keys : data'[n] = IF n = o[k] THEN Null ELSE data[n]
    BY <1>1, <1>4 DEF HashTypeOK
  <2> QED
    BY <1>1, <1>4, <1>5, <2>1 DEF Allocated, HashTypeOK
<1>7. Chained(chains', capacity, Allocated \ {o[k]})
  BY <1>1, <1>4, <1>5, UnchainEffect
<1>8. /\ gNext' \in [Keys -> Keys \cup {Null}] /\ gPrev' \in [Keys -> Keys \cup {Null}]
      /\ Along(Without(o, k), gNext', gPrev', gHead', Allocated \ {o[k]})
      /\ Len(Without(o, k)) = Len(o) - 1
      /\ gTail' = At(Without(o, k), Len(o) - 1)
  BY <1>1, <1>2, <1>4, UnlistEffect
<1>9. HashTypeOK'
  BY <1>1, <1>4, <1>6, <1>8 DEF HashTypeOK
<1>10. count' = Len(o) - 1 /\ count' < capacity'
  BY <1>1, <1>2, <1>3, <1>4
<1>11. /\ Without(o, k) = RemoveAt(o, k)
       /\ SubSeq(Without(o, k), k, Len(o) - 1) = SubSeq(o, k + 1, Len(o))
  <2>1. PICK w : w = Without(o, k)
    OBVIOUS
  <2>2. /\ w \in Seq(Keys) /\ Len(w) = Len(o) - 1
        /\ \A i \in 1 .. Len(o) - 1 : w[i] = IF i < k THEN o[i] ELSE o[i + 1]
    BY <1>2, <2>1, WithoutShape
  <2>3. SubSeq(w, k, Len(w)) = SubSeq(o, k + 1, Len(o)) /\ w = RemoveAt(o, k)
    BY <1>2, <2>2, WithoutElement
  <2> QED
    BY <2>1, <2>2, <2>3
<1> QED
  BY <1>4, <1>6, <1>7, <1>8, <1>9, <1>10, <1>11

LEMMA DeleteKeyKeeps ==
  ASSUME HashInv, NEW k \in Keys, DeleteKey(k)
  PROVE  HashInv' /\ PromiseStep
<1>1. PICK o : ListOrder(o)
  BY DEF HashInv
<1>2. /\ ~traversing /\ traversing' = traversing /\ it' = it /\ it = Null
      /\ Free(k) /\ capacity' = capacity
  BY <1>1 DEF DeleteKey, iterVars, ListOrder
<1>3. PICK j \in 1 .. Len(o) : o[j] = k
  <2>1. k \in Allocated
    BY ContainsAllocated DEF DeleteKey, Allocated
  <2> QED
    BY <1>1, <2>1 DEF ListOrder, Along
<1>4. PICK w : w = Without(o, j)
  OBVIOUS
<1>5. /\ HashTypeOK' /\ Chained(chains', capacity', Allocated')
      /\ Along(w, gNext', gPrev', gHead', Allocated')
      /\ Len(w) = Len(o) - 1
      /\ gTail' = At(w, Len(o) - 1) /\ count' = Len(o) - 1 /\ count' < capacity'
      /\ data' = [data EXCEPT ![k] = Null]
      /\ w = RemoveAt(o, j)
  BY <1>1, <1>2, <1>3, <1>4, FreeEffect
<1>6. ListOrder(w)'
  BY <1>2, <1>5 DEF ListOrder
<1>7. HashInv'
  BY <1>5, <1>6 DEF HashInv
<1>8. /\ Value = data /\ Order = o /\ Ahead = << >>
      /\ Value' = data' /\ Order' = w /\ Ahead' = << >>
  <2>1. HashTypeOK /\ Chained(chains, capacity, Allocated)
    BY DEF HashInv
  <2> QED
    BY <1>1, <1>2, <1>5, <1>6, <2>1, Seen, SeenNext
<1>9. MapPromise!Delete(k)
  <2>1. j \in DOMAIN o
    BY <1>1, <1>3, OrderShape DEF ListOrder, Along
  <2>2. /\ Ahead = << >> /\ Ahead' = Ahead
        /\ Value' = [Value EXCEPT ![k] = Null]
        /\ \E i \in DOMAIN Order : Order[i] = k /\ Order' = RemoveAt(Order, i)
    BY <1>3, <1>5, <1>8, <2>1
  <2> QED
    BY <2>2, Zenon DEF MapPromise!Delete, MapPromise!Forget, MapPromise!RemoveAt, RemoveAt,
                       Value, Order, Ahead
<1> QED
  BY <1>7, <1>9, Zenon DEF PromiseStep, MapPromise!PromiseNext

LEMMA DeleteNodeKeeps ==
  ASSUME HashInv, DeleteNode
  PROVE  HashInv' /\ PromiseStep
<1>1. PICK o : ListOrder(o)
  BY DEF HashInv
<1>2. /\ traversing /\ it # Null /\ traversing' = traversing
      /\ Free(it) /\ it' = gNext[it] /\ capacity' = capacity
  BY DEF DeleteNode
<1>3. PICK m \in Nat : m = Len(o)
  BY <1>1, OrderShape DEF ListOrder, Along
<1>4. PICK k \in 1 .. m : it = At(o, k) /\ it = o[k]
  <2>1. PICK k \in 1 .. m + 1 : it = At(o, k)
    BY <1>1, <1>2, <1>3 DEF ListOrder
  <2>2. k # m + 1
    <3>1. At(o, m + 1) = Null
      BY <1>3 DEF At
    <3> QED
      BY <1>2, <2>1, <3>1
  <2>3. k \in 1 .. m
    BY <2>2
  <2> QED
    BY <1>3, <2>1, <2>3 DEF At
<1>5. PICK w : w = Without(o, k)
  OBVIOUS
<1>6. /\ HashTypeOK' /\ Chained(chains', capacity', Allocated')
      /\ Along(w, gNext', gPrev', gHead', Allocated')
      /\ Len(w) = m - 1
      /\ gTail' = At(w, m - 1) /\ count' = m - 1 /\ count' < capacity'
      /\ data' = [data EXCEPT ![o[k]] = Null]
      /\ w = RemoveAt(o, k)
      /\ SubSeq(w, k, m - 1) = SubSeq(o, k + 1, m)
  BY <1>1, <1>2, <1>3, <1>4, <1>5, FreeEffect
<1>7. it' = At(w, k) /\ k \in 1 .. Len(w) + 1
  <2>1. it' = At(o, k + 1)
    BY <1>1, <1>2, <1>3, <1>4 DEF ListOrder, Along
  <2>2. k \in Int /\ ~(k < k)
    OBVIOUS
  <2>3. At(w, k) = At(o, k + 1)
    BY <1>1, <1>3, <1>5, <2>2, WithoutShape DEF ListOrder, Along
  <2> QED
    BY <1>6, <2>1, <2>3
<1>8. ListOrder(w)'
  <2>1. \E i \in 1 .. Len(w) + 1 : it' = At(w, i)
    BY <1>7
  <2> QED
    BY <1>2, <1>6, <2>1 DEF ListOrder
<1>9. HashInv'
  BY <1>6, <1>8 DEF HashInv
<1>10. /\ Value = data /\ Order = o /\ Ahead = SubSeq(o, k, m)
       /\ Value' = data' /\ Order' = w /\ Ahead' = SubSeq(o, k + 1, m)
  <2>1. HashTypeOK /\ Chained(chains, capacity, Allocated)
    BY DEF HashInv
  <2>2. k \in 1 .. Len(o) + 1
    BY <1>3
  <2>3. Value = data /\ Order = o /\ Ahead = SubSeq(o, k, m)
    BY <1>1, <1>3, <1>4, <2>1, <2>2, Seen
  <2>4. Value' = data' /\ Order' = w /\ Ahead' = SubSeq(w, k, m - 1)
    BY <1>6, <1>7, <1>8, SeenNext
  <2> QED
    BY <1>6, <2>3, <2>4
<1>11. MapPromise!Meet
  <2>1. k \in DOMAIN o /\ o \in Seq(Keys)
    BY <1>1, <1>3, OrderShape DEF ListOrder, Along
  <2>2. Ahead # << >> /\ Head(Ahead) = o[k] /\ Ahead' = Tail(Ahead)
    BY <1>3, <1>10, <2>1, RestShape
  <2>3. /\ Value' = [Value EXCEPT ![Head(Ahead)] = Null]
        /\ \E i \in DOMAIN Order : Order[i] = Head(Ahead) /\ Order' = RemoveAt(Order, i)
    BY <1>6, <1>10, <2>1, <2>2
  <2>4. MapPromise!Forget(Head(Ahead))
    BY <2>3, Zenon DEF MapPromise!Forget, MapPromise!RemoveAt, RemoveAt, Value, Order, Ahead
  <2> QED
    BY <2>2, <2>4, Zenon DEF MapPromise!Meet, Value, Order, Ahead
<1> QED
  BY <1>9, <1>11, Zenon DEF PromiseStep, MapPromise!PromiseNext

LEMMA ClearTableKeeps ==
  ASSUME HashInv, ClearTable
  PROVE  HashInv' /\ PromiseStep
<1>1. /\ ~traversing /\ traversing' = traversing /\ it' = it /\ capacity' = capacity
      /\ gHead' = Null /\ gTail' = Null /\ gNext' = NoLinks /\ gPrev' = NoLinks
      /\ count' = 0 /\ data' = NoLinks
      /\ chains' = [nodes |-> NoNodes(capacity), next |-> NoLinks, prev |-> NoLinks]
  BY DEF ClearTable, iterVars
<1>2. HashTypeOK /\ Chained(chains, capacity, Allocated) /\ capacity \in Nat \ {0}
  BY DEF HashInv, HashTypeOK
<1>3. PICK o : ListOrder(o)
  BY DEF HashInv
<1>4. NoLinks \in [Keys -> Keys \cup {Null}] /\ \A k \in Keys : NoLinks[k] = Null
  BY DEF NoLinks
<1>5. HashTypeOK'
  <2>1. data' \in [Keys -> Values \cup {Null}]
    BY <1>1 DEF NoLinks
  <2> QED
    BY <1>1, <1>2, <1>4, <2>1 DEF HashTypeOK
<1>6. Allocated' = {}
  BY <1>1, <1>4 DEF Allocated
<1>7. Chained(chains', capacity', Allocated')
  <2>1. NoNodes(capacity) \in [0 .. capacity - 1 -> Keys \cup {Null}]
    BY DEF NoNodes
  <2>2. chains'.nodes = NoNodes(capacity) /\ chains' \in ChainsType(capacity)
    BY <1>1, <1>4, <2>1 DEF ChainsType
  <2>3. Chained(chains', capacity, {})
    BY <2>2, EmptyChained
  <2> QED
    BY <1>1, <1>6, <2>3
<1>8. ListOrder(<< >>)'
  <2>1. << >> \in Seq(Keys) /\ Len(<< >>) = 0 /\ 1 .. 0 = {}
    BY EmptySeq
  <2>2. Distinct(<< >>) /\ At(<< >>, 1) = Null /\ At(<< >>, 0) = Null
    BY <2>1 DEF Distinct, At
  <2>3. Along(<< >>, gNext', gPrev', gHead', Allocated')
    BY <1>1, <1>6, <2>1, <2>2 DEF Along
  <2>4. it' = Null /\ ~traversing' /\ 0 < capacity'
    BY <1>1, <1>2, <1>3 DEF ListOrder
  <2> QED
    BY <1>1, <2>1, <2>2, <2>3, <2>4 DEF ListOrder
<1>9. HashInv'
  BY <1>5, <1>7, <1>8 DEF HashInv
<1>10. Ahead = << >> /\ Value' = data' /\ Order' = << >> /\ Ahead' = << >>
  BY <1>1, <1>2, <1>3, <1>5, <1>7, <1>8, Seen, SeenNext
<1>11. MapPromise!Clear
  <2>1. data' = [k \in Keys |-> Null]
    BY <1>1 DEF NoLinks
  <2>2. /\ Ahead = << >> /\ Ahead' = Ahead /\ Order' = << >>
        /\ Value' = [k \in Keys |-> Null]
    BY <1>10, <2>1
  <2> QED
    BY <2>2, Zenon DEF MapPromise!Clear, Value, Order, Ahead
<1> QED
  BY <1>9, <1>11, Zenon DEF PromiseStep, MapPromise!PromiseNext

\* A step that moves the iterator only
LEMMA OnlyIterator ==
  ASSUME HashInv, UNCHANGED <<capacity, chains, listVars, count, data>>,
         traversing' \in BOOLEAN, NEW o, ListOrder(o),
         IF traversing' THEN \E k \in 1 .. Len(o) + 1 : it' = At(o, k) ELSE it' = Null
  PROVE  /\ HashInv' /\ HashTypeOK' /\ Chained(chains', capacity', Allocated')
         /\ ListOrder(o)'
         /\ Value' = Value /\ Order' = Order /\ Order = o
<1>1. UNCHANGED <<capacity, chains, gHead, gTail, gNext, gPrev, count, data>>
  BY DEF listVars
<1>2. HashTypeOK /\ Chained(chains, capacity, Allocated)
  BY DEF HashInv
<1>3. HashTypeOK'
  BY <1>1, <1>2 DEF HashTypeOK
<1>4. Allocated' = Allocated
  BY <1>1 DEF Allocated
<1>5. Chained(chains', capacity', Allocated')
  BY <1>1, <1>2, <1>4
<1>6. ListOrder(o)'
  BY <1>1, <1>4 DEF ListOrder
<1>7. HashInv'
  BY <1>3, <1>5, <1>6 DEF HashInv
<1>8. Value' = Value /\ Order' = Order /\ Order = o
  BY <1>1, <1>2, <1>3, <1>5, <1>6, Seen, SeenNext
<1> QED
  BY <1>3, <1>5, <1>6, <1>7, <1>8

LEMMA IteratorFirstKeeps ==
  ASSUME HashInv, IteratorFirst
  PROVE  HashInv' /\ PromiseStep
<1>1. PICK o : ListOrder(o)
  BY DEF HashInv
<1>2. /\ ~traversing /\ traversing' = TRUE /\ it' = gHead
      /\ UNCHANGED <<capacity, chains, listVars, count, data>>
  BY DEF IteratorFirst
<1>3. it' = At(o, 1) /\ 1 \in 1 .. Len(o) + 1 /\ o \in Seq(Keys) /\ Len(o) \in Nat
  BY <1>1, <1>2, OrderShape DEF ListOrder, Along
<1>4. /\ HashInv' /\ HashTypeOK' /\ Chained(chains', capacity', Allocated')
      /\ ListOrder(o)'
      /\ Value' = Value /\ Order' = Order /\ Order = o
  BY <1>1, <1>2, <1>3, OnlyIterator
<1>5. Ahead = << >> /\ Ahead' = o
  <2>1. Ahead' = SubSeq(o, 1, Len(o))
    BY <1>3, <1>4, SeenNext
  <2>2. SubSeq(o, 1, Len(o)) = o
    BY <1>3, SubSeqFull
  <2>3. Ahead = << >>
    BY <1>1, <1>2, Seen DEF HashInv
  <2> QED
    BY <2>1, <2>2, <2>3
<1>6. MapPromise!Traverse
  <2>1. Ahead = << >> /\ Ahead' = Order /\ Value' = Value /\ Order' = Order
    BY <1>4, <1>5
  <2> QED
    BY <2>1, Zenon DEF MapPromise!Traverse, Value, Order, Ahead
<1> QED
  BY <1>4, <1>6, Zenon DEF PromiseStep, MapPromise!PromiseNext

LEMMA IteratorNextKeeps ==
  ASSUME HashInv, IteratorNext
  PROVE  HashInv' /\ PromiseStep
<1>1. PICK o : ListOrder(o)
  BY DEF HashInv
<1>2. /\ traversing /\ it # Null /\ traversing' = traversing /\ it' = gNext[it]
      /\ UNCHANGED <<capacity, chains, listVars, count, data>>
  BY DEF IteratorNext
<1>3. PICK m \in Nat : m = Len(o)
  BY <1>1, OrderShape DEF ListOrder, Along
<1>4. PICK k \in 1 .. m : it = At(o, k) /\ it = o[k]
  <2>1. PICK k \in 1 .. m + 1 : it = At(o, k)
    BY <1>1, <1>2, <1>3 DEF ListOrder
  <2>2. k # m + 1
    <3>1. At(o, m + 1) = Null
      BY <1>3 DEF At
    <3> QED
      BY <1>2, <2>1, <3>1
  <2>3. k \in 1 .. m
    BY <2>2
  <2> QED
    BY <1>3, <2>1, <2>3 DEF At
<1>5. it' = At(o, k + 1) /\ k + 1 \in 1 .. Len(o) + 1
  BY <1>1, <1>2, <1>3, <1>4 DEF ListOrder, Along
<1>6. /\ HashInv' /\ HashTypeOK' /\ Chained(chains', capacity', Allocated')
      /\ ListOrder(o)'
      /\ Value' = Value /\ Order' = Order /\ Order = o
  <2>1. traversing' \in BOOLEAN
    BY <1>2 DEF HashInv, HashTypeOK
  <2>2. \E i \in 1 .. Len(o) + 1 : it' = At(o, i)
    BY <1>5
  <2> QED
    BY <1>1, <1>2, <2>1, <2>2, OnlyIterator
<1>7. Ahead = SubSeq(o, k, m) /\ Ahead' = SubSeq(o, k + 1, m)
  <2>1. k \in 1 .. Len(o) + 1
    BY <1>3
  <2>2. Ahead = SubSeq(o, k, m)
    BY <1>1, <1>3, <1>4, <2>1, Seen DEF HashInv
  <2>3. Ahead' = SubSeq(o, k + 1, m)
    BY <1>3, <1>5, <1>6, SeenNext
  <2> QED
    BY <2>2, <2>3
<1>8. MapPromise!Meet
  <2>1. o \in Seq(Keys)
    BY <1>1 DEF ListOrder, Along
  <2>2. Ahead # << >> /\ Ahead' = Tail(Ahead) /\ Value' = Value /\ Order' = Order
    BY <1>3, <1>6, <1>7, <2>1, RestShape
  <2> QED
    BY <2>2, Zenon DEF MapPromise!Meet, Value, Order, Ahead
<1> QED
  BY <1>6, <1>8, Zenon DEF PromiseStep, MapPromise!PromiseNext

LEMMA IteratorCloseKeeps ==
  ASSUME HashInv, IteratorClose
  PROVE  HashInv' /\ PromiseStep
<1>1. PICK o : ListOrder(o)
  BY DEF HashInv
<1>2. /\ traversing /\ it = Null /\ traversing' = FALSE /\ it' = it
      /\ UNCHANGED <<capacity, chains, listVars, count, data>>
  BY DEF IteratorClose
<1>3. /\ HashInv' /\ HashTypeOK' /\ Chained(chains', capacity', Allocated')
      /\ ListOrder(o)'
      /\ Value' = Value /\ Order' = Order /\ Order = o
  BY <1>1, <1>2, OnlyIterator
<1>4. Ahead' = Ahead
  BY <1>2, WalkFromNull DEF Ahead
<1> QED
  BY <1>3, <1>4 DEF PromiseStep

LEMMA StutterKeeps ==
  ASSUME HashInv, UNCHANGED hashVars
  PROVE  HashInv' /\ PromiseStep
<1>1. UNCHANGED <<capacity, chains, listVars, count, data, traversing, it>>
  BY DEF hashVars, iterVars
<1>2. PICK o : ListOrder(o)
  BY DEF HashInv
<1>3. HashInv' /\ Value' = Value /\ Order' = Order
  BY <1>1, <1>2, OnlyIterator DEF ListOrder, HashInv, HashTypeOK
<1>4. Ahead' = Ahead
  BY <1>1 DEF Ahead, listVars
<1> QED
  BY <1>3, <1>4 DEF PromiseStep

LEMMA StepKeeps ==
  ASSUME HashInv, [HashNext]_hashVars
  PROVE  HashInv' /\ PromiseStep
<1>1. ASSUME NEW k \in Keys, NEW v \in Values, PutNew(k, v) \/ PutExisting(k, v)
      PROVE  HashInv' /\ PromiseStep
  BY <1>1, PutNewKeeps, PutExistingKeeps
<1>2. ASSUME NEW k \in Keys, DeleteKey(k) PROVE HashInv' /\ PromiseStep
  BY <1>2, DeleteKeyKeeps
<1>3. CASE ClearTable
  BY <1>3, ClearTableKeeps
<1>4. CASE IteratorFirst \/ IteratorNext \/ DeleteNode \/ IteratorClose
  BY <1>4, IteratorFirstKeeps, IteratorNextKeeps, DeleteNodeKeeps, IteratorCloseKeeps
<1>5. CASE UNCHANGED hashVars
  BY <1>5, StutterKeeps
<1> QED
  BY <1>1, <1>2, <1>3, <1>4, <1>5, Zenon DEF HashNext

-----------------------------------------------------------------------------
(* The theorems *)

\* There are always an order of the nodes that the list goes along, and one for
\* each bucket that its chain goes along; a traversal is at a place of the first.
THEOREM HashTableInvariant == HashSpec => []HashInv
<1>1. HashInit => HashInv
  BY InitKeeps
<1>2. HashInv /\ [HashNext]_hashVars => HashInv'
  BY StepKeeps
<1> QED
  BY <1>1, <1>2, PTL DEF HashSpec

\* However often the table has grown, each allocated node is once in the chain
\* of its bucket and once in the list, forwards and backwards, and there are
\* fewer nodes than buckets (hashtable_put_real, hashtable_rehash).
THEOREM HashTableInBothLists == HashSpec => []InBothLists
<1>1. HashInv => InBothLists
  <2> SUFFICES ASSUME HashInv PROVE InBothLists
    OBVIOUS
  <2>1. /\ Chained(chains, capacity, Allocated) /\ capacity \in Nat \ {0}
        /\ Allocated = {k \in Keys : data[k] # Null}
    BY DEF HashInv, HashTypeOK, Allocated
  <2>2. PICK o : ListOrder(o)
    BY DEF HashInv
  <2>3. /\ Along(o, gNext, gPrev, gHead, Allocated) /\ gTail = At(o, Len(o))
        /\ count = Len(o) /\ count < capacity
    BY <2>2 DEF ListOrder
  <2>4. ASSUME NEW q, NEW link, NEW back, NEW first, NEW nodes, Along(q, link, back, first, nodes)
        PROVE  /\ Walk(link, first) = q /\ Walk(back, At(q, Len(q))) = Reverse(q)
               /\ ToSet(q) = nodes /\ IsInjective(q)
               /\ q # <<>> => Last(q) = At(q, Len(q))
    <3>1. /\ q \in Seq(Keys) /\ Distinct(q) /\ nodes = {q[i] : i \in 1 .. Len(q)}
      BY <2>4 DEF Along
    <3>2. DOMAIN q = 1 .. Len(q) /\ Len(q) \in Nat /\ (q = <<>> <=> Len(q) = 0)
      BY <3>1, OrderShape
    <3>3. ToSet(q) = nodes /\ IsInjective(q)
      BY <3>1, <3>2 DEF ToSet, Distinct, IsInjective
    <3>4. q # <<>> => Last(q) = At(q, Len(q))
      BY <3>2 DEF Last, At
    <3> QED
      BY <2>4, <3>3, <3>4, WalksAlong
  <2>5. /\ ToSet(Walk(gNext, gHead)) = Allocated
        /\ DoublyLinked(Walk(gNext, gHead), Walk(gPrev, gTail))
        /\ count = Len(Walk(gNext, gHead))
    BY <2>3, <2>4 DEF DoublyLinked
  <2>6. ASSUME NEW i \in 0 .. capacity - 1
        PROVE  /\ ToSet(Chain(i)) = {k \in Allocated : Index(k, capacity) = i}
               /\ Chain(i) # <<>> => DoublyLinked(Chain(i), Walk(chains.prev, Last(Chain(i))))
    <3>1. PICK q : Along(q, chains.next, chains.prev, chains.nodes[i],
                         Bucket(Allocated, i, capacity))
      BY <2>1 DEF Chained
    <3>2. Chain(i) = q
      BY <2>4, <3>1 DEF Chain
    <3>3. /\ ToSet(q) = Bucket(Allocated, i, capacity)
          /\ q # <<>> => DoublyLinked(q, Walk(chains.prev, Last(q)))
      BY <2>4, <3>1 DEF DoublyLinked
    <3> QED
      BY <3>2, <3>3 DEF Bucket
  <2> QED
    BY <2>1, <2>3, <2>5, <2>6, Zenon DEF InBothLists
<1> QED
  BY <1>1, HashTableInvariant, PTL

\* Looked up by its buckets and gone through by its list, the table is a map
\* that remembers its order: a key comes in at the end, is given another value
\* where it is, or leaves, also while the table is gone through, and a traversal
\* meets what is left of that order (hashtable_put_real, hashtable_delete_real,
\* hashtable_delete_node, hashtable_clear_real, hashtable_iterator_next).
THEOREM HashTableIsAMap == HashSpec => KeepsMapPromise
<1>1. HashInit => MapPromise!PromiseInit
  BY InitKeeps
<1>2. HashInv /\ [HashNext]_hashVars => [MapPromise!PromiseNext]_<<Value, Order, Ahead>>
  BY StepKeeps DEF PromiseStep
<1> QED
  BY <1>1, <1>2, HashTableInvariant, PTL
     DEF HashSpec, KeepsMapPromise, MapPromise!PromiseSpec, MapPromise!promiseVars, Value, Order, Ahead
=============================================================================

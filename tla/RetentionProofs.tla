--------------------------- MODULE RetentionProofs ---------------------------
(***************************************************************************)
(* What a list of snapshots becomes, for any list and any retention: it is *)
(* sorted, the latest first, and what a retention by count leaves to be    *)
(* destroyed is all that comes after the N first.                          *)
(***************************************************************************)
EXTENDS Retention, SequenceTheorems, FiniteSetTheorems, WellFoundedInduction, TLAPS

\* A set of naturals that is not empty has a least element.
LEMMA LeastElement ==
  \A T \in SUBSET Nat : T # {} => \E n \in T : \A m \in T : n <= m
<1> SUFFICES ASSUME NEW T \in SUBSET Nat, T # {}
             PROVE  \E n \in T : \A m \in T : n <= m
  OBVIOUS
<1> DEFINE Below == {1 .. n : n \in T}
<1>1. Below # {}
  OBVIOUS
<1>2. Below \subseteq FiniteSubsetsOf(Nat)
  <2>1. \A n \in T : 1 .. n \subseteq Nat /\ IsFiniteSet(1 .. n)
    <3> TAKE n \in T
    <3>1. 1 \in Int /\ n \in Int
      OBVIOUS
    <3> QED
      BY <3>1, FS_Interval
  <2> QED
    BY <2>1, Zenon DEF FiniteSubsetsOf
<1>3. IsWellFoundedOn(StrictSubsetOrdering(Nat), FiniteSubsetsOf(Nat))
  BY FS_StrictSubsetOrderingWellFounded
<1> HIDE DEF Below
<1>4. PICK b \in Below : \A a \in Below : <<a, b>> \notin StrictSubsetOrdering(Nat)
  BY <1>1, <1>2, <1>3, WFMin
<1>5. PICK n \in T : b = 1 .. n
  BY DEF Below
<1>6. ASSUME NEW m \in T, m < n PROVE FALSE
  <2>1. 1 .. m \in Below
    BY DEF Below
  <2>2. n \in 1 .. n /\ n \notin 1 .. m /\ 1 .. m \subseteq 1 .. n
    BY <1>6
  <2>3. <<1 .. m, 1 .. n>> \in StrictSubsetOrdering(Nat)
    BY <2>2 DEF StrictSubsetOrdering
  <2> QED
    BY <1>4, <1>5, <2>1, <2>3
<1> QED
  BY <1>6

\* A strict order of a finite set gives each of its elements a rank of its own:
\* the number of those before it.
LEMMA Ranks ==
  \A S : IsFiniteSet(S) =>
    \A before \in SUBSET (S \X S) :
      (/\ \A a \in S : <<a, a>> \notin before
       /\ \A a, b, c \in S : <<a, b>> \in before /\ <<b, c>> \in before => <<a, c>> \in before
       /\ \A a, b \in S : a = b \/ <<a, b>> \in before \/ <<b, a>> \in before)
        => \E rank \in Bijection(S, 1 .. Cardinality(S)) :
             /\ \A a \in S : rank[a] = Cardinality({b \in S : <<b, a>> \in before}) + 1
             /\ \A a, b \in S : <<a, b>> \in before <=> rank[a] < rank[b]
<1> SUFFICES ASSUME NEW S, IsFiniteSet(S), NEW before \in SUBSET (S \X S),
                    \A a \in S : <<a, a>> \notin before,
                    \A a, b, c \in S :
                      <<a, b>> \in before /\ <<b, c>> \in before => <<a, c>> \in before,
                    \A a, b \in S : a = b \/ <<a, b>> \in before \/ <<b, a>> \in before
             PROVE  \E rank \in Bijection(S, 1 .. Cardinality(S)) :
                      /\ \A a \in S : rank[a] = Cardinality({b \in S : <<b, a>> \in before}) + 1
                      /\ \A a, b \in S : <<a, b>> \in before <=> rank[a] < rank[b]
  OBVIOUS
<1> DEFINE Below(a) == {b \in S : <<b, a>> \in before}
           n == Cardinality(S)
<1>1. n \in Nat
  BY FS_CardinalityType
<1>2. ASSUME NEW a \in S
      PROVE  /\ IsFiniteSet(Below(a)) /\ Cardinality(Below(a)) \in Nat
             /\ Cardinality(Below(a)) < n
  <2>1. Below(a) \in SUBSET S /\ a \notin Below(a) /\ Below(a) # S
    OBVIOUS
  <2>2. /\ IsFiniteSet(Below(a)) /\ Cardinality(Below(a)) <= n
        /\ (n = Cardinality(Below(a)) => S = Below(a))
    BY <2>1, FS_Subset
  <2>3. Cardinality(Below(a)) \in Nat
    BY <2>2, FS_CardinalityType
  <2> QED
    BY <1>1, <2>1, <2>2, <2>3
<1>3. ASSUME NEW a \in S, NEW b \in S, <<a, b>> \in before
      PROVE  Cardinality(Below(a)) < Cardinality(Below(b))
  <2>1. Below(a) \in SUBSET Below(b) /\ a \in Below(b) /\ a \notin Below(a)
    BY <1>3
  <2>2. /\ Cardinality(Below(a)) <= Cardinality(Below(b))
        /\ (Cardinality(Below(b)) = Cardinality(Below(a)) => Below(b) = Below(a))
    BY <1>2, <2>1, FS_Subset
  <2>3. Cardinality(Below(a)) \in Nat /\ Cardinality(Below(b)) \in Nat
    BY <1>2
  <2>4. Below(a) # Below(b)
    BY <2>1
  <2> HIDE DEF Below
  <2> QED
    BY <2>2, <2>3, <2>4
<1> HIDE DEF Below
<1>4. PICK rank \in [S -> 1 .. n] : \A a \in S : rank[a] = Cardinality(Below(a)) + 1
  <2> DEFINE f == [a \in S |-> Cardinality(Below(a)) + 1]
  <2>1. f \in [S -> 1 .. n]
    BY <1>1, <1>2
  <2> QED
    BY <2>1
<1>5. ASSUME NEW a \in S, NEW b \in S
      PROVE  <<a, b>> \in before <=> rank[a] < rank[b]
  <2>1. <<a, b>> \in before => rank[a] < rank[b]
    BY <1>2, <1>3, <1>4
  <2>2. <<b, a>> \in before => rank[b] < rank[a]
    BY <1>2, <1>3, <1>4
  <2>3. rank[a] \in Nat /\ rank[b] \in Nat
    BY <1>4
  <2> QED
    BY <2>1, <2>2, <2>3
<1>6. rank \in Injection(S, 1 .. n)
  <2>1. rank \in [S -> 1 .. n]
    OBVIOUS
  <2>2. ASSUME NEW a \in S, NEW b \in S, rank[a] = rank[b] PROVE a = b
    <3>1. rank[a] \in Nat /\ rank[b] \in Nat
      BY <1>4
    <3> QED
      BY <1>5, <2>2, <3>1
  <2> QED
    BY <2>1, <2>2 DEF Injection, IsInjective
<1>7. rank \in Surjection(S, 1 .. n)
  <2>1. IsFiniteSet(1 .. n) /\ Cardinality(1 .. n) = n
    <3>1. 1 \in Int /\ n \in Int
      BY <1>1
    <3>2. IsFiniteSet(1 .. n) /\ Cardinality(1 .. n) = IF 1 > n THEN 0 ELSE n - 1 + 1
      BY <3>1, FS_Interval
    <3> QED
      BY <1>1, <3>2
  <2>2. Cardinality(S) = Cardinality(1 .. n) <=> rank \in Surjection(S, 1 .. n)
    BY <1>6, <2>1, FS_Injection
  <2> QED
    BY <2>1, <2>2
<1>8. rank \in Bijection(S, 1 .. n)
  BY <1>6, <1>7 DEF Bijection
<1>9. \A a \in S : \A b \in S : <<a, b>> \in before <=> rank[a] < rank[b]
  BY <1>5, Zenon
<1> QED
  BY <1>4, <1>8, <1>9, Zenon DEF Below

\* The numbers of a finite set, in order, when the n-th is the one with n - 1
\* others before it.
LEMMA Enumeration ==
  \A R \in SUBSET Int : IsFiniteSet(R) =>
    \E s \in Bijection(1 .. Cardinality(R), R) :
      /\ \A n \in 1 .. Cardinality(R) :
           s[n] = CHOOSE r \in R : Cardinality({q \in R : q < r}) = n - 1
      /\ \A m, n \in 1 .. Cardinality(R) : m < n => s[m] < s[n]
<1> SUFFICES ASSUME NEW R \in SUBSET Int, IsFiniteSet(R)
             PROVE  \E s \in Bijection(1 .. Cardinality(R), R) :
                      /\ \A n \in 1 .. Cardinality(R) :
                           s[n] = CHOOSE r \in R : Cardinality({q \in R : q < r}) = n - 1
                      /\ \A m, n \in 1 .. Cardinality(R) : m < n => s[m] < s[n]
  BY Zenon
<1> DEFINE S == 1 .. Cardinality(R)
           before == {x \in R \X R : x[1] < x[2]}
<1>1. Cardinality(R) \in Nat
  BY FS_CardinalityType
<1>2. \A i \in R : i \in Int
  OBVIOUS
<1>3. \A i \in R : \A j \in R : <<i, j>> \in before <=> i < j
  OBVIOUS
<1>4. before \in SUBSET (R \X R)
  OBVIOUS
<1> HIDE DEF before
<1>5. /\ \A a \in R : <<a, a>> \notin before
      /\ \A a, b, c \in R : <<a, b>> \in before /\ <<b, c>> \in before => <<a, c>> \in before
      /\ \A a, b \in R : a = b \/ <<a, b>> \in before \/ <<b, a>> \in before
  BY <1>2, <1>3
<1>6. PICK rank \in Bijection(R, S) :
        /\ \A a \in R : rank[a] = Cardinality({b \in R : <<b, a>> \in before}) + 1
        /\ \A a, b \in R : <<a, b>> \in before <=> rank[a] < rank[b]
  BY <1>4, <1>5, Ranks
<1> DEFINE nth(i) == CHOOSE r \in R : Cardinality({q \in R : q < r}) = i - 1
<1>7. ASSUME NEW i \in S, NEW r \in R
      PROVE  Cardinality({q \in R : q < r}) = i - 1 <=> rank[r] = i
  <2>1. {q \in R : q < r} = {q \in R : <<q, r>> \in before}
    BY <1>3
  <2>2. PICK c : c = Cardinality({q \in R : q < r})
    OBVIOUS
  <2>3. c \in Nat
    BY <2>2, FS_Subset, FS_CardinalityType
  <2>4. rank[r] = c + 1
    BY <1>6, <2>1, <2>2
  <2>5. i \in Int /\ (c = i - 1 <=> c + 1 = i)
    BY <2>3
  <2> QED
    BY <2>2, <2>4, <2>5
<1>8. \A i \in S : nth(i) \in R /\ rank[nth(i)] = i
  <2> SUFFICES ASSUME NEW i \in S PROVE nth(i) \in R /\ rank[nth(i)] = i
    OBVIOUS
  <2>1. \E r \in R : rank[r] = i
    BY <1>6 DEF Bijection, Surjection
  <2> QED
    BY <1>7, <2>1
<1>9. \A i \in S : \A r \in R : rank[r] = i => nth(i) = r
  BY <1>6, <1>8 DEF Bijection, Injection, IsInjective
<1> DEFINE s == [i \in S |-> nth(i)]
<1>10. \A n \in S : s[n] = CHOOSE r \in R : Cardinality({q \in R : q < r}) = n - 1
  OBVIOUS
<1> HIDE DEF nth
<1>11. \A n \in S : s[n] = nth(n)
  OBVIOUS
<1>12. s = [i \in S |-> s[i]]
  OBVIOUS
<1> HIDE DEF s
<1>13. s \in Bijection(S, R)
  <2>1. s \in [S -> R]
    BY <1>8, <1>11, <1>12
  <2>2. \A i \in S : \A j \in S : s[i] = s[j] => i = j
    BY <1>8, <1>11
  <2>3. \A r \in R : \E i \in S : s[i] = r
    BY <1>6, <1>9, <1>11 DEF Bijection, Injection
  <2> QED
    BY <2>1, <2>2, <2>3 DEF Bijection, Injection, Surjection, IsInjective
<1>14. \A m \in S : \A n \in S : m < n => s[m] < s[n]
  <2> SUFFICES ASSUME NEW m \in S, NEW n \in S, m < n PROVE s[m] < s[n]
    OBVIOUS
  <2>1. /\ s[m] \in R /\ rank[s[m]] = m
        /\ s[n] \in R /\ rank[s[n]] = n
    BY <1>8, <1>11
  <2>2. <<s[m], s[n]>> \in before
    BY <1>6, <2>1
  <2> QED
    BY <1>3, <2>1, <2>2
<1> QED
  BY <1>10, <1>13, <1>14, Zenon

\* dlist_sort with the comparator of snapshots: the same snapshots, the latest
\* first, those of one time in the order they had.
LEMMA SortedDesc ==
  \A Snaps : (\A snap \in Snaps : snap.creation \in Int) =>
    \A list \in Seq(Snaps) :
      \E from \in Bijection(1 .. Len(list), 1 .. Len(list)) :
        /\ SortDesc(list) = [n \in 1 .. Len(list) |-> list[from[n]]]
        /\ \A m, n \in 1 .. Len(list) : m < n =>
             \/ list[from[m]].creation > list[from[n]].creation
             \/ list[from[m]].creation = list[from[n]].creation /\ from[m] < from[n]
<1> SUFFICES ASSUME NEW Snaps, \A snap \in Snaps : snap.creation \in Int,
                    NEW list \in Seq(Snaps)
             PROVE  \E from \in Bijection(1 .. Len(list), 1 .. Len(list)) :
                      /\ SortDesc(list) = [n \in 1 .. Len(list) |-> list[from[n]]]
                      /\ \A m, n \in 1 .. Len(list) : m < n =>
                           \/ list[from[m]].creation > list[from[n]].creation
                           \/ list[from[m]].creation = list[from[n]].creation /\ from[m] < from[n]
  BY Zenon
<1> DEFINE S == 1 .. Len(list)
           before == {x \in S \X S : Precedes(list, x[1], x[2])}
<1>1. /\ Len(list) \in Nat /\ DOMAIN list = S
      /\ \A i \in S : list[i].creation \in Int /\ i \in Int
  BY LenProperties
<1>2. IsFiniteSet(S) /\ Cardinality(S) = Len(list)
  <2>1. 1 \in Int /\ Len(list) \in Int
    BY <1>1
  <2>2. IsFiniteSet(S) /\ Cardinality(S) = IF 1 > Len(list) THEN 0 ELSE Len(list) - 1 + 1
    BY <2>1, FS_Interval
  <2> QED
    BY <1>1, <2>2
<1>3. \A i \in S : \A j \in S :
        <<i, j>> \in before <=>
          \/ list[i].creation > list[j].creation
          \/ list[i].creation = list[j].creation /\ i < j
  BY <1>1 DEF Precedes, Later
<1> HIDE DEF before
<1>4. before \in SUBSET (S \X S)
  BY DEF before
<1>5. /\ \A a \in S : <<a, a>> \notin before
      /\ \A a, b, c \in S : <<a, b>> \in before /\ <<b, c>> \in before => <<a, c>> \in before
      /\ \A a, b \in S : a = b \/ <<a, b>> \in before \/ <<b, a>> \in before
  BY <1>1, <1>3
<1>6. PICK rank \in Bijection(S, 1 .. Cardinality(S)) :
        /\ \A a \in S : rank[a] = Cardinality({b \in S : <<b, a>> \in before}) + 1
        /\ \A a, b \in S : <<a, b>> \in before <=> rank[a] < rank[b]
  BY <1>2, <1>4, <1>5, Ranks
<1>7. rank \in Bijection(S, S)
  BY <1>2, <1>6
<1> DEFINE from == [n \in S |-> CHOOSE j \in S : rank[j] = n]
<1>8. \A n \in S : from[n] \in S /\ rank[from[n]] = n
  BY <1>7 DEF Bijection, Surjection
<1>9. \A n \in S : \A j \in S : rank[j] = n => from[n] = j
  BY <1>7, <1>8 DEF Bijection, Injection, IsInjective
<1> HIDE DEF from
<1>10. from \in Bijection(S, S)
  <2>1. from \in [S -> S]
    BY <1>8 DEF from
  <2>2. \A m \in S : \A n \in S : from[m] = from[n] => m = n
    BY <1>8
  <2>3. \A j \in S : \E n \in S : from[n] = j
    BY <1>7, <1>9 DEF Bijection, Injection
  <2> QED
    BY <2>1, <2>2, <2>3 DEF Bijection, Injection, Surjection, IsInjective
<1>11. SortDesc(list) = [n \in S |-> list[from[n]]]
  <2> DEFINE nth(n) == CHOOSE j \in DOMAIN list :
                         Cardinality({i \in DOMAIN list : Precedes(list, i, j)}) = n - 1
  <2>1. ASSUME NEW n \in S, NEW j \in S
        PROVE  Cardinality({i \in S : Precedes(list, i, j)}) = n - 1 <=> rank[j] = n
    <3>1. {i \in S : Precedes(list, i, j)} = {i \in S : <<i, j>> \in before}
      BY DEF before
    <3>2. rank[j] \in S /\ rank[j] = Cardinality({i \in S : <<i, j>> \in before}) + 1
      BY <1>6, <1>7 DEF Bijection, Injection
    <3>3. IsFiniteSet({i \in S : <<i, j>> \in before})
      BY <1>2, FS_Subset
    <3>4. Cardinality({i \in S : <<i, j>> \in before}) \in Nat
      BY <3>3, FS_CardinalityType
    <3> DEFINE c == Cardinality({i \in S : <<i, j>> \in before})
    <3> HIDE DEF c
    <3>5. c \in Nat /\ rank[j] = c + 1 /\ n \in Int => (c = n - 1 <=> rank[j] = n)
      OBVIOUS
    <3> QED
      BY <1>1, <3>1, <3>2, <3>4, <3>5 DEF c
  <2>2. ASSUME NEW n \in S PROVE nth(n) = from[n]
    <3>1. \A j \in S : Cardinality({i \in S : Precedes(list, i, j)}) = n - 1 <=> j = from[n]
      BY <1>8, <1>9, <2>1
    <3> QED
      BY <1>1, <1>8, <3>1
  <2>3. SortDesc(list) = [n \in DOMAIN list |-> list[nth(n)]]
    BY DEF SortDesc
  <2> HIDE DEF nth
  <2> QED
    BY <1>1, <2>2, <2>3
<1>12. ASSUME NEW m \in S, NEW n \in S, m < n
       PROVE  \/ list[from[m]].creation > list[from[n]].creation
              \/ list[from[m]].creation = list[from[n]].creation /\ from[m] < from[n]
  <2>1. from[m] \in S /\ from[n] \in S /\ rank[from[m]] < rank[from[n]]
    BY <1>8, <1>12
  <2>2. <<from[m], from[n]>> \in before
    BY <1>6, <2>1
  <2> QED
    BY <1>3, <2>1, <2>2
<1> QED
  BY <1>10, <1>11, <1>12

\* What is left of a list without its N first
From(list, N) == [i \in 1 .. (IF Len(list) > N THEN Len(list) - N ELSE 0) |-> list[N + i]]

\* When the retention keeps the k first, whatever its state becomes, all of the
\* others are left to be destroyed.
LEMMA SuffixRejects ==
  \A Snaps : \A list \in Seq(Snaps) : \A k \in Nat : \A r : \A st :
    (/\ st[0] = 0
     /\ \A n \in 1 .. Len(list) :
          /\ Keep(r, list[n].creation, st[n - 1]) <=> n <= k
          /\ st[n] = NextState(r, list[n].creation, st[n - 1]))
      => RejectKept(r, list) = From(list, k)
<1> SUFFICES ASSUME NEW Snaps, NEW list \in Seq(Snaps), NEW k \in Nat, NEW r, NEW st,
                    st[0] = 0,
                    \A n \in 1 .. Len(list) :
                      /\ Keep(r, list[n].creation, st[n - 1]) <=> n <= k
                      /\ st[n] = NextState(r, list[n].creation, st[n - 1])
             PROVE  RejectKept(r, list) = From(list, k)
  BY Zenon
<1> DEFINE Step(f, n) ==
             IF n = 0 THEN [state |-> 0, doomed |-> <<>>]
             ELSE [state |-> NextState(r, list[n].creation, f[n - 1].state),
                   doomed |-> IF Keep(r, list[n].creation, f[n - 1].state)
                              THEN f[n - 1].doomed ELSE Append(f[n - 1].doomed, list[n])]
           Rejects(f) == f = [n \in 0 .. Len(list) |-> Step(f, n)]
           Left(n) == [i \in 1 .. (IF n > k THEN n - k ELSE 0) |-> list[k + i]]
           g == [n \in 0 .. Len(list) |-> [state |-> st[n], doomed |-> Left(n)]]
<1>1. Len(list) \in Nat /\ \A i \in 1 .. Len(list) : list[i] \in Snaps
  BY LenProperties
<1>3. Left(0) = <<>>
  OBVIOUS
<1>4. ASSUME NEW n \in 1 .. Len(list), n <= k PROVE Left(n) = Left(n - 1)
  BY <1>1, <1>4
<1>5. ASSUME NEW n \in 1 .. Len(list), n > k PROVE Left(n) = Append(Left(n - 1), list[n])
  <2>1. PICK m \in Nat : m = n - 1 - k
    BY <1>1, <1>5
  <2> DEFINE before == [i \in 1 .. m |-> list[k + i]]
  <2>2. \A i \in 1 .. m + 1 : k + i \in 1 .. Len(list)
    BY <1>1, <2>1
  <2>3. before \in [1 .. m -> Snaps]
    <3>1. \A i \in 1 .. m : i \in 1 .. m + 1
      BY <2>1
    <3>2. \A i \in 1 .. m : list[k + i] \in Snaps
      BY <1>1, <2>2, <3>1, Zenon
    <3> QED
      BY <3>2
  <2>4. before \in Seq(Snaps) /\ Len(before) = m
    <3> HIDE DEF before
    <3> QED
      BY <2>1, <2>3
  <2>5. Left(n - 1) = before /\ Left(n) = [i \in 1 .. m + 1 |-> list[k + i]]
    <3>1. (IF n - 1 > k THEN n - 1 - k ELSE 0) = m /\ (IF n > k THEN n - k ELSE 0) = m + 1
      BY <1>1, <1>5, <2>1
    <3> QED
      BY <3>1, Zenon
  <2>6. k + (m + 1) = n /\ list[n] \in Snaps
    BY <1>1, <2>1
  <2> DEFINE after == Append(before, list[n])
  <2>7. /\ DOMAIN after = 1 .. m + 1
        /\ \A i \in 1 .. m + 1 : after[i] = IF i <= m THEN before[i] ELSE list[n]
    BY <2>4, <2>6
  <2>8. \A i \in 1 .. m + 1 : after[i] = list[k + i]
    <3>1. \A i \in 1 .. m + 1 : i <= m \/ i = m + 1
      OBVIOUS
    <3>2. \A i \in 1 .. m + 1 : i <= m => i \in 1 .. m
      OBVIOUS
    <3> HIDE DEF after
    <3> QED
      BY <2>6, <2>7, <3>1, <3>2
  <2>9. after = [i \in DOMAIN after |-> after[i]]
    BY <2>4, <2>6
  <2> HIDE DEF after, before
  <2>10. after = [i \in 1 .. m + 1 |-> list[k + i]]
    BY <2>7, <2>8, <2>9
  <2> QED
    BY <2>5, <2>10 DEF after
<1> HIDE DEF Left
<1>6. \A n \in 0 .. Len(list) : g[n] = Step(g, n)
  <2> SUFFICES ASSUME NEW n \in 0 .. Len(list) PROVE g[n] = Step(g, n)
    OBVIOUS
  <2>1. CASE n = 0
    BY <1>1, <1>3, <2>1
  <2>2. CASE n # 0
    <3>1. n \in 1 .. Len(list) /\ n - 1 \in 0 .. Len(list)
      BY <1>1, <2>2
    <3>2. g[n - 1] = [state |-> st[n - 1], doomed |-> Left(n - 1)]
      BY <3>1
    <3>3. g[n] = [state |-> st[n], doomed |-> Left(n)]
      OBVIOUS
    <3> HIDE DEF g
    <3>4. Step(g, n) = [state |-> st[n],
                        doomed |-> IF n <= k THEN Left(n - 1) ELSE Append(Left(n - 1), list[n])]
      <4>1. g[n - 1].state = st[n - 1] /\ g[n - 1].doomed = Left(n - 1)
        BY <3>2
      <4>2. /\ Keep(r, list[n].creation, st[n - 1]) <=> n <= k
            /\ st[n] = NextState(r, list[n].creation, st[n - 1])
        BY <3>1, Zenon
      <4>3. Step(g, n) =
              [state |-> NextState(r, list[n].creation, g[n - 1].state),
               doomed |-> IF Keep(r, list[n].creation, g[n - 1].state)
                          THEN g[n - 1].doomed ELSE Append(g[n - 1].doomed, list[n])]
        BY <2>2, Zenon
      <4> HIDE DEF Step
      <4>4. CASE n <= k
        BY <4>1, <4>2, <4>3, <4>4, Zenon
      <4>5. CASE ~(n <= k)
        BY <4>1, <4>2, <4>3, <4>5, Zenon
      <4> QED
        BY <4>4, <4>5, Zenon
    <3> HIDE DEF Step
    <3>5. CASE n <= k
      BY <1>4, <3>1, <3>3, <3>4, <3>5, Zenon
    <3>6. CASE ~(n <= k)
      <4>1. n > k
        BY <3>1, <3>6
      <4> QED
        BY <1>5, <3>1, <3>3, <3>4, <3>6, <4>1, Zenon
    <3> QED
      BY <3>5, <3>6
  <2> QED
    BY <2>1, <2>2
<1> HIDE DEF Step
<1>7. Rejects(g)
  BY <1>6
<1>8. \A f : Rejects(f) => f = g
  <2> SUFFICES ASSUME NEW f, Rejects(f) PROVE f = g
    OBVIOUS
  <2>1. \A n \in 0 .. Len(list) : f[n] = Step(f, n)
    OBVIOUS
  <2> DEFINE differ == {n \in 0 .. Len(list) : f[n] # g[n]}
  <2>2. differ = {}
    <3> SUFFICES ASSUME differ # {} PROVE FALSE
      OBVIOUS
    <3>1. differ \in SUBSET Nat
      BY <1>1
    <3>2. PICK n \in differ : \A m \in differ : n <= m
      BY <3>1, LeastElement
    <3>3. n \in 0 .. Len(list) /\ f[n] # g[n] /\ f[n] = Step(f, n) /\ g[n] = Step(g, n)
      BY <1>6, <2>1
    <3>4. n # 0 => n - 1 \in 0 .. Len(list) /\ ~(n <= n - 1)
      BY <1>1, <3>3
    <3>5. n # 0 => f[n - 1] = g[n - 1]
      BY <3>2, <3>4
    <3> HIDE DEF g
    <3>6. Step(f, n) = Step(g, n)
      <4>1. CASE n = 0
        BY <4>1 DEF Step
      <4>2. CASE n # 0
        BY <3>5, <4>2 DEF Step
      <4> QED
        BY <4>1, <4>2
    <3> QED
      BY <3>3, <3>6
  <2>3. f = [n \in 0 .. Len(list) |-> f[n]]
    OBVIOUS
  <2>4. g = [n \in 0 .. Len(list) |-> g[n]]
    OBVIOUS
  <2> HIDE DEF g
  <2> QED
    BY <2>2, <2>3, <2>4
<1> DEFINE gone == CHOOSE f : Rejects(f)
<1>9. gone = g
  <2> HIDE DEF g, Rejects
  <2>1. Rejects(gone)
    BY <1>7
  <2> QED
    BY <1>8, <2>1
<1>10. RejectKept(r, list) = gone[Len(list)].doomed
  BY Zenon DEF RejectKept, Step
<1> HIDE DEF gone
<1>11. Len(list) \in 0 .. Len(list)
  BY <1>1
<1>12. g[Len(list)].doomed = Left(Len(list))
  BY <1>11
<1>13. Left(Len(list)) = From(list, k)
  BY Zenon DEF Left, From
<1> HIDE DEF g
<1> QED
  BY <1>9, <1>10, <1>12, <1>13, Zenon
\* A retention by count keeps the N first and leaves all of the others.
LEMMA CountRejects ==
  \A Snaps : \A list \in Seq(Snaps) : \A N \in Nat :
    RejectKept([type |-> "BY_COUNT", limit |-> N], list) = From(list, N)
<1> SUFFICES ASSUME NEW Snaps, NEW list \in Seq(Snaps), NEW N \in Nat
             PROVE  RejectKept([type |-> "BY_COUNT", limit |-> N], list) = From(list, N)
  BY Zenon
<1> DEFINE r == [type |-> "BY_COUNT", limit |-> N]
           st == [n \in 0 .. Len(list) |-> IF n > N THEN N ELSE n]
<1>1. \A creation, state : /\ Keep(r, creation, state) <=> state < N
                           /\ NextState(r, creation, state) = IF state < N THEN state + 1 ELSE state
  BY DEF Keep, NextState
<1>2. Len(list) \in Nat
  OBVIOUS
<1>3. st[0] = 0
  BY <1>2
<1>4. ASSUME NEW n \in 1 .. Len(list)
      PROVE  /\ Keep(r, list[n].creation, st[n - 1]) <=> n <= N
             /\ st[n] = NextState(r, list[n].creation, st[n - 1])
  <2>1. PICK s \in Nat : s = (IF n - 1 > N THEN N ELSE n - 1)
    BY <1>2
  <2>2. st[n - 1] = s
    BY <1>2, <2>1
  <2>3. st[n] = IF n > N THEN N ELSE n
    BY <1>2
  <2>4. (s < N <=> n <= N) /\ (IF s < N THEN s + 1 ELSE s) = (IF n > N THEN N ELSE n)
    BY <1>2, <2>1
  <2> HIDE DEF r, st
  <2> QED
    BY <1>1, <2>2, <2>3, <2>4, Zenon
<1> HIDE DEF r, st
<1>5. RejectKept(r, list) = From(list, N)
  BY <1>3, <1>4, SuffixRejects
<1> QED
  BY <1>5 DEF r

\* A retention by age leaves what is older than its limit, which is the end of a
\* list that has the latest first.
LEMMA AgeRejects ==
  \A Snaps : (\A snap \in Snaps : snap.creation \in Int) =>
    \A list \in Seq(Snaps) : \A limit \in Int :
      (\A m, n \in 1 .. Len(list) : m < n => list[m].creation >= list[n].creation)
        => \E k \in 0 .. Len(list) :
             /\ RejectKept([type |-> "BY_CREATION", limit |-> limit], list) = From(list, k)
             /\ \A n \in 1 .. Len(list) : n > k <=> list[n].creation < limit
<1> SUFFICES ASSUME NEW Snaps, \A snap \in Snaps : snap.creation \in Int,
                    NEW list \in Seq(Snaps), NEW limit \in Int,
                    \A m, n \in 1 .. Len(list) : m < n => list[m].creation >= list[n].creation
             PROVE  \E k \in 0 .. Len(list) :
                      /\ RejectKept([type |-> "BY_CREATION", limit |-> limit], list)
                           = From(list, k)
                      /\ \A n \in 1 .. Len(list) : n > k <=> list[n].creation < limit
  BY Zenon
<1> DEFINE r == [type |-> "BY_CREATION", limit |-> limit]
           st == [n \in 0 .. Len(list) |-> 0]
           old == {n \in 1 .. Len(list) : list[n].creation < limit}
<1>1. Len(list) \in Nat /\ \A n \in 1 .. Len(list) : list[n].creation \in Int
  BY LenProperties
<1>2. PICK k \in 0 .. Len(list) : \A n \in 1 .. Len(list) : n > k <=> n \in old
  <2>1. CASE old = {}
    <3>1. \A n \in 1 .. Len(list) : ~(n > Len(list))
      BY <1>1
    <3>2. Len(list) \in 0 .. Len(list)
      BY <1>1
    <3> HIDE DEF old
    <3>3. \A n \in 1 .. Len(list) : n > Len(list) <=> n \in old
      BY <2>1, <3>1, Zenon
    <3> QED
      BY <3>2, <3>3, Zenon
  <2>2. CASE old # {}
    <3>1. old \in SUBSET Nat
      BY <1>1
    <3>2. PICK m \in old : \A n \in old : m <= n
      BY <2>2, <3>1, LeastElement
    <3>3. \A n \in 1 .. Len(list) : n > m - 1 <=> n \in old
      <4> SUFFICES ASSUME NEW n \in 1 .. Len(list) PROVE n > m - 1 <=> n \in old
        OBVIOUS
      <4>1. m \in Int /\ n \in Int /\ list[m].creation < limit
        BY <1>1
      <4>2. n \in old => n > m - 1
        BY <3>2, <4>1
      <4>3. n > m => list[m].creation >= list[n].creation
        OBVIOUS
      <4>4. n > m => n \in old
        BY <1>1, <4>1, <4>3
      <4> QED
        BY <4>1, <4>2, <4>4
    <3>4. m - 1 \in 0 .. Len(list)
      BY <1>1
    <3> QED
      BY <3>3, <3>4
  <2> QED
    BY <2>1, <2>2
<1>3. \A creation, state : /\ Keep(r, creation, state) <=> creation >= limit
                           /\ NextState(r, creation, state) = state
  BY DEF Keep, NextState
<1>4. st[0] = 0
  BY <1>1
<1>5. ASSUME NEW n \in 1 .. Len(list)
      PROVE  /\ Keep(r, list[n].creation, st[n - 1]) <=> n <= k
             /\ st[n] = NextState(r, list[n].creation, st[n - 1])
  <2>1. list[n].creation >= limit <=> n <= k
    BY <1>1, <1>2
  <2>2. st[n] = st[n - 1]
    BY <1>1
  <2> HIDE DEF r, st
  <2> QED
    BY <1>3, <2>1, <2>2, Zenon
<1> HIDE DEF r, st
<1>6. RejectKept(r, list) = From(list, k)
  BY <1>4, <1>5, SuffixRejects
<1> QED
  BY <1>2, <1>6, Zenon DEF r

\* Without a retention nothing is left to be destroyed.
LEMMA DisabledRejects ==
  \A Snaps : \A list \in Seq(Snaps) : RejectKept(Disabled, list) = From(list, Len(list))
<1> SUFFICES ASSUME NEW Snaps, NEW list \in Seq(Snaps)
             PROVE  RejectKept(Disabled, list) = From(list, Len(list))
  BY Zenon
<1> DEFINE st == [n \in 0 .. Len(list) |-> 0]
<1>1. Len(list) \in Nat
  OBVIOUS
<1>2. st[0] = 0
  BY <1>1
<1>3. ASSUME NEW n \in 1 .. Len(list)
      PROVE  /\ Keep(Disabled, list[n].creation, st[n - 1]) <=> n <= Len(list)
             /\ st[n] = NextState(Disabled, list[n].creation, st[n - 1])
  <2>1. st[n] = st[n - 1]
    BY <1>1
  <2> HIDE DEF st
  <2> QED
    BY <1>1, <2>1 DEF Keep, NextState, Disabled
<1> HIDE DEF st
<1> QED
  BY <1>1, <1>2, <1>3, SuffixRejects
=============================================================================

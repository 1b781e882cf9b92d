----------------------- MODULE BootEnvironmentsProofs -----------------------
(***************************************************************************)
(* What RETENTION and pkg zint rollback promise of boot environments,      *)
(* proved for any number of BE, commands and seconds, whatever fails: what *)
(* purges destroy with any number of processes, and, for one process, what *)
(* a rollback activates.                                                   *)
(***************************************************************************)
EXTENDS BootEnvironments, RetentionProofs

\* c comes before b in the list s
InOrder(s, c, b) == \E i, j \in DOMAIN s : i < j /\ s[i] = c /\ s[j] = b

-----------------------------------------------------------------------------
(* The list libbe makes *)

\* What is before an element that goes stays where it is, what is after it
\* comes one place nearer.
LEMMA RemovedElements ==
  \A S : \A s \in Seq(S) : \A i \in DOMAIN s :
    /\ RemoveAt(s, i) \in Seq(S)
    /\ DOMAIN RemoveAt(s, i) = 1 .. Len(s) - 1
    /\ \A k \in 1 .. Len(s) - 1 : RemoveAt(s, i)[k] = s[IF k < i THEN k ELSE k + 1]
<1> SUFFICES ASSUME NEW S, NEW s \in Seq(S), NEW i \in DOMAIN s
             PROVE  /\ RemoveAt(s, i) \in Seq(S)
                    /\ DOMAIN RemoveAt(s, i) = 1 .. Len(s) - 1
                    /\ \A k \in 1 .. Len(s) - 1 :
                         RemoveAt(s, i)[k] = s[IF k < i THEN k ELSE k + 1]
  BY Zenon
<1>1. Len(s) \in Nat /\ i \in 1 .. Len(s)
  OBVIOUS
<1> DEFINE u == SubSeq(s, 1, i - 1)
           v == SubSeq(s, i + 1, Len(s))
<1>2. u \in Seq(S) /\ Len(u) = i - 1 /\ \A k \in 1 .. i - 1 : u[k] = s[k]
  BY <1>1
<1>3. v \in Seq(S) /\ Len(v) = Len(s) - i /\ \A k \in 1 .. Len(s) - i : v[k] = s[k + i]
  BY <1>1
<1> HIDE DEF u, v
<1>4. u \o v \in Seq(S) /\ Len(u \o v) = Len(s) - 1
  BY <1>1, <1>2, <1>3
<1>5. ASSUME NEW k \in 1 .. Len(s) - 1
      PROVE  (u \o v)[k] = s[IF k < i THEN k ELSE k + 1]
  <2>1. CASE k < i
    BY <1>1, <1>2, <1>3, <2>1
  <2>2. CASE ~(k < i)
    <3>1. k - (i - 1) \in 1 .. Len(s) - i /\ k - (i - 1) + i = k + 1
      BY <1>1, <2>2
    <3>2. (u \o v)[k] = v[k - (i - 1)]
      BY <1>1, <1>2, <1>3, <2>2
    <3> QED
      BY <1>3, <2>2, <3>1, <3>2
  <2> QED
    BY <2>1, <2>2
<1>6. RemoveAt(s, i) = u \o v
  BY DEF RemoveAt, u, v
<1>7. DOMAIN (u \o v) = 1 .. Len(s) - 1
  BY <1>4
<1> QED
  BY <1>4, <1>5, <1>6, <1>7

\* Removing one of them leaves the others, in the order they were in.
LEMMA OrderRemoved ==
  \A S : \A s \in Seq(S) : \A i \in DOMAIN s : IsInjective(s) =>
    /\ IsInjective(RemoveAt(s, i))
    /\ Range(RemoveAt(s, i)) = Range(s) \ {s[i]}
    /\ \A b, c : InOrder(s, c, b) /\ c # s[i] /\ b # s[i] => InOrder(RemoveAt(s, i), c, b)
<1> SUFFICES ASSUME NEW S, NEW s \in Seq(S), NEW i \in DOMAIN s, IsInjective(s)
             PROVE  /\ IsInjective(RemoveAt(s, i))
                    /\ Range(RemoveAt(s, i)) = Range(s) \ {s[i]}
                    /\ \A b, c : InOrder(s, c, b) /\ c # s[i] /\ b # s[i]
                                   => InOrder(RemoveAt(s, i), c, b)
  BY Zenon
<1>1. Len(s) \in Nat /\ i \in 1 .. Len(s) /\ DOMAIN s = 1 .. Len(s)
  OBVIOUS
<1>2. PICK r : r = RemoveAt(s, i)
  OBVIOUS
<1> DEFINE old(k) == IF k < i THEN k ELSE k + 1
           new(j) == IF j < i THEN j ELSE j - 1
<1>3. DOMAIN r = 1 .. Len(s) - 1 /\ \A k \in 1 .. Len(s) - 1 : r[k] = s[old(k)]
  BY <1>2, RemovedElements
<1>4. \A k \in 1 .. Len(s) - 1 : old(k) \in 1 .. Len(s) /\ old(k) # i
  BY <1>1
<1>5. \A j, k \in 1 .. Len(s) - 1 : old(j) = old(k) => j = k
  BY <1>1
<1>6. \A j \in 1 .. Len(s) : j # i => new(j) \in 1 .. Len(s) - 1 /\ old(new(j)) = j
  BY <1>1
<1>7. \A j, k \in 1 .. Len(s) : j < k /\ j # i /\ k # i => new(j) < new(k)
  BY <1>1
<1> HIDE DEF old, new
<1>8. \A j, k \in 1 .. Len(s) : s[j] = s[k] => j = k
  BY <1>1 DEF IsInjective
<1>9. \A j \in 1 .. Len(s) : j # i => r[new(j)] = s[j]
  BY <1>3, <1>6
<1>10. IsInjective(r)
  BY <1>3, <1>4, <1>5, <1>8 DEF IsInjective
<1>11. Range(r) = Range(s) \ {s[i]}
  <2>1. ASSUME NEW k \in 1 .. Len(s) - 1 PROVE r[k] \in Range(s) \ {s[i]}
    BY <1>1, <1>3, <1>4, <1>8 DEF Range
  <2>2. ASSUME NEW j \in 1 .. Len(s), s[j] # s[i] PROVE s[j] \in Range(r)
    <3>1. j # i
      BY <2>2
    <3> QED
      BY <1>3, <1>6, <1>9, <3>1 DEF Range
  <2> QED
    BY <1>1, <1>3, <2>1, <2>2 DEF Range
<1>12. ASSUME NEW b, NEW c, InOrder(s, c, b), c # s[i], b # s[i] PROVE InOrder(r, c, b)
  <2>1. PICK j, k \in 1 .. Len(s) : j < k /\ s[j] = c /\ s[k] = b
    BY <1>1, <1>12 DEF InOrder
  <2>2. j # i /\ k # i
    BY <1>12, <2>1
  <2>3. /\ new(j) \in DOMAIN r /\ new(k) \in DOMAIN r
        /\ new(j) < new(k) /\ r[new(j)] = c /\ r[new(k)] = b
    BY <1>3, <1>6, <1>7, <1>9, <2>1, <2>2
  <2> QED
    BY <2>3 DEF InOrder
<1> QED
  BY <1>2, <1>10, <1>11, <1>12

\* A new one comes after all of the others.
LEMMA OrderAppended ==
  \A S : \A s \in Seq(S) : \A b \in S : b \notin Range(s) /\ IsInjective(s) =>
    /\ Append(s, b) \in Seq(S)
    /\ IsInjective(Append(s, b))
    /\ Range(Append(s, b)) = Range(s) \cup {b}
    /\ \A c, d : InOrder(s, c, d) => InOrder(Append(s, b), c, d)
    /\ \A c \in Range(s) : InOrder(Append(s, b), c, b)
<1> SUFFICES ASSUME NEW S, NEW s \in Seq(S), NEW b \in S, b \notin Range(s), IsInjective(s)
             PROVE  /\ Append(s, b) \in Seq(S)
                    /\ IsInjective(Append(s, b))
                    /\ Range(Append(s, b)) = Range(s) \cup {b}
                    /\ \A c, d : InOrder(s, c, d) => InOrder(Append(s, b), c, d)
                    /\ \A c \in Range(s) : InOrder(Append(s, b), c, b)
  BY Zenon
<1>1. PICK n \in Nat : n = Len(s)
  OBVIOUS
<1>2. DOMAIN s = 1 .. n
  BY <1>1
<1>3. PICK r : r = Append(s, b)
  OBVIOUS
<1>4. r \in Seq(S) /\ DOMAIN r = 1 .. n + 1 /\ r[n + 1] = b /\ \A k \in 1 .. n : r[k] = s[k]
  BY <1>1, <1>3
<1>5. \A k \in 1 .. n + 1 : k = n + 1 \/ k \in 1 .. n
  OBVIOUS
<1>6. \A k \in 1 .. n : k \in 1 .. n + 1 /\ k < n + 1
  OBVIOUS
<1>7. n + 1 \in 1 .. n + 1
  OBVIOUS
<1>8. \A k \in 1 .. n : s[k] # b
  BY <1>2 DEF Range
<1>9. IsInjective(r)
  BY <1>2, <1>4, <1>5, <1>8 DEF IsInjective
<1>10. Range(r) = Range(s) \cup {b}
  BY <1>2, <1>4, <1>5, <1>6, <1>7 DEF Range
<1>11. \A c, d : InOrder(s, c, d) => InOrder(r, c, d)
  BY <1>2, <1>4, <1>6 DEF InOrder
<1>12. \A c \in Range(s) : InOrder(r, c, b)
  BY <1>2, <1>4, <1>6, <1>7 DEF InOrder, Range
<1> QED
  BY <1>3, <1>4, <1>9, <1>10, <1>11, <1>12

\* The order of a list without duplicates is one.
LEMMA OrderIsStrict ==
  \A S : \A s \in Seq(S) : IsInjective(s) =>
    /\ \A b : ~InOrder(s, b, b)
    /\ \A a, b, c : InOrder(s, a, b) /\ InOrder(s, b, c) => InOrder(s, a, c)
<1> SUFFICES ASSUME NEW S, NEW s \in Seq(S), IsInjective(s)
             PROVE  /\ \A b : ~InOrder(s, b, b)
                    /\ \A a, b, c : InOrder(s, a, b) /\ InOrder(s, b, c) => InOrder(s, a, c)
  BY Zenon
<1>1. \A i \in DOMAIN s : i \in Int
  OBVIOUS
<1>2. \A i, j \in Int : i < j => i # j
  OBVIOUS
<1>3. \A i, j, k \in Int : i < j /\ j < k => i < k
  OBVIOUS
<1>4. ASSUME NEW b PROVE ~InOrder(s, b, b)
  BY <1>1, <1>2 DEF InOrder, IsInjective
<1>5. ASSUME NEW a, NEW b, NEW c, InOrder(s, a, b), InOrder(s, b, c) PROVE InOrder(s, a, c)
  <2>1. PICK i, j \in DOMAIN s : i < j /\ s[i] = a /\ s[j] = b
    BY <1>5, Zenon DEF InOrder
  <2>2. PICK k, l \in DOMAIN s : k < l /\ s[k] = b /\ s[l] = c
    BY <1>5, Zenon DEF InOrder
  <2>3. j = k
    BY <2>1, <2>2, Zenon DEF IsInjective
  <2>4. i < l
    BY <1>1, <1>3, <2>1, <2>2, <2>3
  <2> QED
    BY <2>1, <2>2, <2>4, Zenon DEF InOrder
<1> QED
  BY <1>4, <1>5

-----------------------------------------------------------------------------
(* What the list the plugin makes of it becomes *)

Dated == {Snapshot(b) : b \in Names}

LEMMA NamesAreDated ==
  /\ \A b \in Names : b.at \in Int
  /\ Default \in Names /\ \A b \in Names : b # Default => b.at >= Start
  /\ Default.at = 0 /\ Start \in Nat /\ Start > 0 /\ MaxTime \in Nat
  /\ \A snap \in Dated : snap.name \in Names /\ snap.creation = snap.name.at
<1>1. Start \in Nat /\ MaxTime \in Nat /\ Start > 0
  BY TimeAssumption
<1>2. \A b \in Names : b # Default => b.at \in Start .. MaxTime
  BY DEF Names
<1>3. Default.at = 0
  BY DEF Default
<1>4. \A snap \in Dated : snap.name \in Names /\ snap.creation = snap.name.at
  BY DEF Dated, Snapshot
<1>5. Default \in Names
  BY DEF Names
<1> QED
  BY <1>1, <1>2, <1>3, <1>4, <1>5

\* The list, sorted, has the BE of the plugin among those seen, once each, the
\* latest first; those of one second are in the order they were seen in.
LEMMA SortedOurs ==
  \A p : seen[p] \in Seq(Names) /\ IsInjective(seen[p]) =>
    \E sorted \in Seq(Dated) :
      /\ sorted = SortDesc(ListOf(p))
      /\ ListOf(p) = <<>> <=> sorted = <<>>
      /\ \A n \in 1 .. Len(sorted) : sorted[n].name \in Tagged \cap Range(seen[p])
      /\ \A b \in Tagged \cap Range(seen[p]) :
           \E n \in 1 .. Len(sorted) : sorted[n].name = b
      /\ \A m, n \in 1 .. Len(sorted) : m < n =>
           /\ sorted[m].name # sorted[n].name
           /\ \/ sorted[m].name.at > sorted[n].name.at
              \/ /\ sorted[m].name.at = sorted[n].name.at
                 /\ InOrder(seen[p], sorted[m].name, sorted[n].name)
<1> SUFFICES ASSUME NEW p, seen[p] \in Seq(Names), IsInjective(seen[p])
             PROVE  \E sorted \in Seq(Dated) :
                      /\ sorted = SortDesc(ListOf(p))
                      /\ ListOf(p) = <<>> <=> sorted = <<>>
                      /\ \A n \in 1 .. Len(sorted) :
                           sorted[n].name \in Tagged \cap Range(seen[p])
                      /\ \A b \in Tagged \cap Range(seen[p]) :
                           \E n \in 1 .. Len(sorted) : sorted[n].name = b
                      /\ \A m, n \in 1 .. Len(sorted) : m < n =>
                           /\ sorted[m].name # sorted[n].name
                           /\ \/ sorted[m].name.at > sorted[n].name.at
                              \/ /\ sorted[m].name.at = sorted[n].name.at
                                 /\ InOrder(seen[p], sorted[m].name, sorted[n].name)
  BY Zenon
<1>1. PICK q \in Seq(Names) : q = seen[p]
  OBVIOUS
<1>2. PICK T : T = Tagged
  OBVIOUS
<1>3. PICK R : R = {i \in DOMAIN q : q[i] \in T}
  OBVIOUS
<1>4. R \in SUBSET Int /\ IsFiniteSet(R) /\ \A i \in R : i \in DOMAIN q /\ q[i] \in Names
  <2>1. R \in SUBSET (1 .. Len(q)) /\ Len(q) \in Int /\ 1 \in Int
    BY <1>3
  <2>2. IsFiniteSet(1 .. Len(q))
    BY <2>1, FS_Interval
  <2> QED
    BY <1>3, <2>1, <2>2, FS_Subset
<1>5. PICK c \in Nat : c = Cardinality(R)
  BY <1>4, FS_CardinalityType
<1> DEFINE S == 1 .. c
<1>6. PICK s \in Bijection(S, R) :
        /\ \A n \in S : s[n] = CHOOSE r \in R : Cardinality({t \in R : t < r}) = n - 1
        /\ \A m, n \in S : m < n => s[m] < s[n]
  BY <1>4, <1>5, Enumeration
<1>7. PICK list : list = ListOf(p)
  OBVIOUS
<1>8. list = [n \in S |-> Snapshot(q[s[n]])]
  <2> DEFINE ours == {i \in DOMAIN seen[p] : seen[p][i] \in Tagged}
             nth(n) == CHOOSE i \in ours : Cardinality({j \in ours : j < i}) = n - 1
  <2>1. list = [n \in 1 .. Cardinality(ours) |-> Snapshot(seen[p][nth(n)])]
    BY <1>7, Zenon DEF ListOf
  <2>2. ours = R
    BY <1>1, <1>2, <1>3
  <2> HIDE DEF ours
  <2>3. \A n \in S : nth(n) = s[n]
    <3>1. \A n \in S : s[n] = CHOOSE i \in R : Cardinality({j \in R : j < i}) = n - 1
      BY <1>6, Zenon
    <3> QED
      BY <2>2, <3>1, Zenon
  <2> HIDE DEF nth
  <2> QED
    BY <1>1, <1>5, <2>1, <2>2, <2>3
<1>9. /\ \A n \in S : s[n] \in R
      /\ \A r \in R : \E n \in S : s[n] = r
  BY <1>6 DEF Bijection, Injection, Surjection
<1>10. list \in Seq(Dated) /\ Len(list) = c
  <2>1. \A n \in S : Snapshot(q[s[n]]) \in Dated
    BY <1>4, <1>9 DEF Dated
  <2>2. list \in [S -> Dated]
    BY <1>8, <2>1
  <2> QED
    BY <2>2
<1>11. \A snap \in Dated : snap.creation \in Int
  BY NamesAreDated
<1>12. PICK from \in Bijection(S, S) :
         /\ SortDesc(list) = [n \in S |-> list[from[n]]]
         /\ \A m, n \in S : m < n =>
              \/ list[from[m]].creation > list[from[n]].creation
              \/ list[from[m]].creation = list[from[n]].creation /\ from[m] < from[n]
  BY <1>10, <1>11, SortedDesc
<1>13. /\ \A n \in S : from[n] \in S
       /\ \A m \in S : \E n \in S : from[n] = m
  BY <1>12 DEF Bijection, Injection, Surjection
<1> DEFINE b(n) == q[s[from[n]]]
<1>14. PICK sorted : sorted = SortDesc(list)
  OBVIOUS
<1>15. \A n \in S : list[from[n]] = Snapshot(b(n))
  BY <1>8, <1>13
<1>16. sorted = [n \in S |-> Snapshot(b(n))]
  <2> HIDE DEF b
  <2> QED
    BY <1>12, <1>14, <1>15
<1>17. \A n \in S : b(n) \in Names /\ b(n) \in T /\ b(n) \in Range(q) /\ s[from[n]] \in DOMAIN q
  BY <1>3, <1>4, <1>9, <1>13 DEF Range
<1>18. sorted \in Seq(Dated) /\ Len(sorted) = c
  <2>1. \A n \in S : Snapshot(b(n)) \in Dated
    BY <1>17 DEF Dated
  <2>2. sorted \in [S -> Dated]
    <3> HIDE DEF b
    <3> QED
      BY <1>16, <2>1
  <2> QED
    BY <2>2
<1>19. \A n \in S : sorted[n].name = b(n) /\ list[from[n]].creation = b(n).at
  <2> HIDE DEF b
  <2> QED
    BY <1>15, <1>16 DEF Snapshot
<1>20. ASSUME NEW a \in T, a \in Range(q) PROVE \E n \in S : b(n) = a
  <2>1. PICK i \in DOMAIN q : q[i] = a
    BY <1>20 DEF Range
  <2>2. i \in R
    BY <1>3, <2>1
  <2>3. PICK m \in S : s[m] = i
    BY <1>9, <2>2
  <2>4. PICK n \in S : from[n] = m
    BY <1>13
  <2> QED
    BY <2>1, <2>3, <2>4
<1>21. ASSUME NEW m \in S, NEW n \in S, m < n
       PROVE  /\ b(m) # b(n)
              /\ b(m).at > b(n).at \/ (b(m).at = b(n).at /\ InOrder(q, b(m), b(n)))
  <2>1. \/ list[from[m]].creation > list[from[n]].creation
        \/ list[from[m]].creation = list[from[n]].creation /\ from[m] < from[n]
    BY <1>12, <1>21
  <2>2. b(m).at > b(n).at \/ (b(m).at = b(n).at /\ from[m] < from[n])
    BY <1>19, <2>1
  <2>3. from[m] < from[n] => s[from[m]] < s[from[n]]
    BY <1>6, <1>13
  <2>4. s[from[m]] < s[from[n]] => InOrder(q, b(m), b(n))
    BY <1>17 DEF InOrder
  <2>5. b(m).at \in Int /\ b(n).at \in Int
    BY <1>17, NamesAreDated
  <2>6. \A x, y \in Int : x > y => x # y
    OBVIOUS
  <2>7. ~InOrder(q, b(n), b(n))
    BY <1>1, OrderIsStrict
  <2> HIDE DEF b
  <2>8. b(m) # b(n)
    BY <2>2, <2>3, <2>4, <2>5, <2>6, <2>7
  <2> QED
    BY <2>2, <2>3, <2>4, <2>8
<1> HIDE DEF b
<1>22. \A n \in S : sorted[n].name \in T \cap Range(q)
  BY <1>17, <1>19
<1>23. \A a \in T \cap Range(q) : \E n \in S : sorted[n].name = a
  BY <1>19, <1>20
<1>24. \A m, n \in S : m < n =>
         /\ sorted[m].name # sorted[n].name
         /\ \/ sorted[m].name.at > sorted[n].name.at
            \/ /\ sorted[m].name.at = sorted[n].name.at
               /\ InOrder(q, sorted[m].name, sorted[n].name)
  BY <1>19, <1>21
<1>25. list = <<>> <=> sorted = <<>>
  BY <1>10, <1>18
<1> QED
  <2>1. sorted \in Seq(Dated) /\ S = 1 .. Len(sorted)
    BY <1>18
  <2>2. sorted = SortDesc(ListOf(p)) /\ (ListOf(p) = <<>> <=> sorted = <<>>)
    BY <1>7, <1>14, <1>25
  <2> HIDE DEF S
  <2>3. \A n \in 1 .. Len(sorted) : sorted[n].name \in Tagged \cap Range(seen[p])
    BY <1>1, <1>2, <1>22, <2>1
  <2>4. \A a \in Tagged \cap Range(seen[p]) :
          \E n \in 1 .. Len(sorted) : sorted[n].name = a
    BY <1>1, <1>2, <1>23, <2>1
  <2>5. \A m, n \in 1 .. Len(sorted) : m < n =>
          /\ sorted[m].name # sorted[n].name
          /\ \/ sorted[m].name.at > sorted[n].name.at
             \/ /\ sorted[m].name.at = sorted[n].name.at
                /\ InOrder(seen[p], sorted[m].name, sorted[n].name)
    BY <1>1, <1>24, <2>1
  <2> QED
    BY <2>1, <2>2, <2>3, <2>4, <2>5, Zenon

\* What retention_parse makes of a RETENTION that is not malformed
Retentions ==
  {Disabled} \cup [type : {"BY_COUNT"}, limit : Nat] \cup [type : {"BY_CREATION"}, limit : Int]

LEMMA ListsAreFinite == \A S : \A s \in Seq(S) : IsFiniteSet(Range(s))
<1> SUFFICES ASSUME NEW S, NEW s \in Seq(S) PROVE IsFiniteSet(Range(s))
  BY Zenon
<1>1. DOMAIN s = 1 .. Len(s) /\ 1 \in Int /\ Len(s) \in Int
  OBVIOUS
<1>2. IsFiniteSet(DOMAIN s)
  BY <1>1, FS_Interval
<1>3. s \in Surjection(DOMAIN s, Range(s))
  <2>1. s = [i \in DOMAIN s |-> s[i]]
    OBVIOUS
  <2>2. \A i \in DOMAIN s : s[i] \in Range(s)
    BY DEF Range
  <2>3. s \in [DOMAIN s -> Range(s)]
    BY <2>1, <2>2
  <2> QED
    BY <2>3 DEF Surjection, Range
<1> QED
  BY <1>2, <1>3, FS_Surjection

\* N different elements of a finite set are as many as it has, at most.
LEMMA AtLeast ==
  \A T : IsFiniteSet(T) => \A N \in Nat : \A f :
    /\ \A n \in 1 .. N : f[n] \in T
    /\ \A m, n \in 1 .. N : m < n => f[m] # f[n]
    => Cardinality(T) >= N
<1> SUFFICES ASSUME NEW T, IsFiniteSet(T), NEW N \in Nat, NEW f,
                    \A n \in 1 .. N : f[n] \in T,
                    \A m, n \in 1 .. N : m < n => f[m] # f[n]
             PROVE  Cardinality(T) >= N
  BY Zenon
<1> DEFINE g == [n \in 1 .. N |-> f[n]]
<1>1. g \in [1 .. N -> T]
  OBVIOUS
<1>2. \A m, n \in 1 .. N : m < n \/ n < m \/ m = n
  OBVIOUS
<1>3. \A m, n \in 1 .. N : g[m] = g[n] => m = n
  BY <1>2
<1>4. g \in Injection(1 .. N, T)
  BY <1>1, <1>3 DEF Injection, IsInjective
<1>5. 1 \in Int /\ N \in Int
  OBVIOUS
<1>6. Cardinality(1 .. N) = N
  BY <1>5, FS_Interval
<1>7. Cardinality(1 .. N) <= Cardinality(T)
  BY <1>4, FS_Injection
<1>8. Cardinality(T) \in Nat
  BY FS_CardinalityType
<1> QED
  BY <1>6, <1>7, <1>8

\* Those of S that the list of the plugin has before b when it saw them as in s
Ahead(S, s, b) == {c \in S : c.at > b.at \/ (c.at = b.at /\ InOrder(s, c, b))}

\* What purge_snapshots is left with: the earliest of the BE of the plugin, the
\* latest of them first; by count, at least as many as RETENTION says come before
\* each of them; by age, each of them is older than the limit.
Remainder(S, s, r, d) ==
  /\ r = Disabled => d = <<>>
  /\ \A i \in 1 .. Len(d) : d[i].name \in S
  /\ \A i, j \in 1 .. Len(d) : i < j =>
       d[i].name # d[j].name /\ d[i].name.at >= d[j].name.at
  /\ \A c \in S : \/ \E i \in 1 .. Len(d) : d[i].name = c
                 \/ \A i \in 1 .. Len(d) : c.at >= d[i].name.at
  /\ r.type = "BY_CREATION" => \A i \in 1 .. Len(d) : d[i].name.at < r.limit
  /\ r.type = "BY_COUNT" =>
       \A i \in 1 .. Len(d) : Cardinality(Ahead(S, s, d[i].name)) >= r.limit

LEMMA DoomedOurs ==
  \A p : seen[p] \in Seq(Names) /\ IsInjective(seen[p]) => \A r \in Retentions :
    \E d \in Seq(Dated) : /\ d = Doomed(r, ListOf(p))
                        /\ Remainder(Tagged \cap Range(seen[p]), seen[p], r, d)
<1> SUFFICES ASSUME NEW p, seen[p] \in Seq(Names), IsInjective(seen[p]), NEW r \in Retentions
             PROVE  \E d \in Seq(Dated) :
                      /\ d = Doomed(r, ListOf(p))
                      /\ Remainder(Tagged \cap Range(seen[p]), seen[p], r, d)
  BY Zenon
<1>1. PICK q \in Seq(Names) : q = seen[p]
  OBVIOUS
<1>2. PICK O : O = Tagged \cap Range(seen[p])
  OBVIOUS
<1>3. PICK sorted \in Seq(Dated) :
        /\ sorted = SortDesc(ListOf(p))
        /\ \A n \in 1 .. Len(sorted) : sorted[n].name \in O
        /\ \A b \in O : \E n \in 1 .. Len(sorted) : sorted[n].name = b
        /\ \A m, n \in 1 .. Len(sorted) : m < n =>
             /\ sorted[m].name # sorted[n].name
             /\ \/ sorted[m].name.at > sorted[n].name.at
                \/ /\ sorted[m].name.at = sorted[n].name.at
                   /\ InOrder(q, sorted[m].name, sorted[n].name)
  BY <1>1, <1>2, SortedOurs
<1>4. PICK c \in Nat : c = Len(sorted)
  OBVIOUS
<1>5. \A n \in 1 .. c : /\ sorted[n] \in Dated
                        /\ sorted[n].name.at \in Int /\ sorted[n].creation = sorted[n].name.at
  <2>1. \A n \in 1 .. c : sorted[n] \in Dated
    BY <1>4
  <2> QED
    BY <2>1, NamesAreDated
<1>6. \A m, n \in 1 .. c : m < n => sorted[m].name.at >= sorted[n].name.at
  <2> SUFFICES ASSUME NEW m \in 1 .. c, NEW n \in 1 .. c, m < n
               PROVE  sorted[m].name.at >= sorted[n].name.at
    OBVIOUS
  <2>1. sorted[m].name.at > sorted[n].name.at \/ sorted[m].name.at = sorted[n].name.at
    BY <1>3, <1>4, Zenon
  <2>2. sorted[m].name.at \in Int /\ sorted[n].name.at \in Int
    BY <1>5, Zenon
  <2>3. \A x, y \in Int : x > y \/ x = y => x >= y
    OBVIOUS
  <2> QED
    BY <2>1, <2>2, <2>3, Zenon
<1>7. PICK k \in Nat :
        /\ RejectKept(r, sorted) = From(sorted, k)
        /\ r = Disabled => k = c
        /\ r.type = "BY_CREATION" => \A n \in 1 .. c : n > k => sorted[n].name.at < r.limit
        /\ r.type = "BY_COUNT" => k = r.limit
  <2>1. CASE r = Disabled
    BY <1>4, <2>1, DisabledRejects DEF Disabled
  <2>2. CASE r \in [type : {"BY_COUNT"}, limit : Nat]
    <3>1. r = [type |-> "BY_COUNT", limit |-> r.limit] /\ r.limit \in Nat
      BY <2>2
    <3>2. RejectKept(r, sorted) = From(sorted, r.limit)
      BY <3>1, CountRejects
    <3> QED
      BY <3>1, <3>2 DEF Disabled
  <2>3. CASE r \in [type : {"BY_CREATION"}, limit : Int]
    <3>1. r = [type |-> "BY_CREATION", limit |-> r.limit] /\ r.limit \in Int
      BY <2>3
    <3>2. \A snap \in Dated : snap.creation \in Int
      BY NamesAreDated
    <3>3. \A m, n \in 1 .. Len(sorted) : m < n => sorted[m].creation >= sorted[n].creation
      BY <1>4, <1>5, <1>6
    <3>4. PICK l \in 0 .. Len(sorted) :
            /\ RejectKept(r, sorted) = From(sorted, l)
            /\ \A n \in 1 .. Len(sorted) : n > l <=> sorted[n].creation < r.limit
      BY <3>1, <3>2, <3>3, AgeRejects
    <3>5. l \in Nat /\ \A n \in 1 .. c : n > l => sorted[n].name.at < r.limit
      BY <1>4, <1>5, <3>4
    <3> QED
      BY <3>1, <3>4, <3>5 DEF Disabled
  <2> QED
    BY <2>1, <2>2, <2>3 DEF Retentions
<1> DEFINE l == IF c > k THEN c - k ELSE 0
<1>8. PICK d : d = From(sorted, k)
  OBVIOUS
<1>9. l \in Nat /\ \A i \in 1 .. l : k + i \in 1 .. c /\ k + i > k
  OBVIOUS
<1>10. d = [i \in 1 .. l |-> sorted[k + i]]
  BY <1>4, <1>8 DEF From
<1> HIDE DEF l
<1>11. d \in Seq(Dated) /\ Len(d) = l /\ \A i \in 1 .. l : d[i] = sorted[k + i]
  <2>1. \A i \in 1 .. l : sorted[k + i] \in Dated
    BY <1>5, <1>9
  <2>2. d \in [1 .. l -> Dated] /\ \A i \in 1 .. l : d[i] = sorted[k + i]
    BY <1>10, <2>1
  <2>3. l \in Nat
    BY <1>9
  <2>4. d \in Seq(Dated) /\ Len(d) = l
    BY <2>2, <2>3
  <2> QED
    BY <2>2, <2>4
<1>12. d = Doomed(r, ListOf(p))
  BY <1>3, <1>7, <1>8, Zenon DEF Doomed
<1>13. r = Disabled => d = <<>>
  <2> SUFFICES ASSUME r = Disabled PROVE d = <<>>
    OBVIOUS
  <2>1. k = c /\ l = 0
    BY <1>7 DEF l
  <2> QED
    BY <1>11, <2>1
<1>14. \A i \in 1 .. l : d[i].name \in O
  BY <1>3, <1>4, <1>9, <1>11
<1>15. ASSUME NEW i \in 1 .. l, NEW j \in 1 .. l, i < j
       PROVE  d[i].name # d[j].name /\ d[i].name.at >= d[j].name.at
  <2>1. k + i \in 1 .. c /\ k + j \in 1 .. c /\ k + i < k + j
    BY <1>9, <1>15
  <2>2. d[i] = sorted[k + i] /\ d[j] = sorted[k + j]
    BY <1>11
  <2>3. sorted[k + i].name # sorted[k + j].name
    BY <1>3, <1>4, <2>1, Zenon
  <2>4. sorted[k + i].name.at >= sorted[k + j].name.at
    BY <1>6, <2>1, Zenon
  <2> QED
    BY <2>2, <2>3, <2>4
<1>16. ASSUME NEW b \in O
       PROVE  \/ \E i \in 1 .. l : d[i].name = b
              \/ \A i \in 1 .. l : b.at >= d[i].name.at
  <2>1. PICK n \in 1 .. c : sorted[n].name = b
    BY <1>3, <1>4
  <2>2. CASE n > k
    <3>1. n - k \in 1 .. l /\ k + (n - k) = n
      BY <2>2 DEF l
    <3> QED
      BY <1>11, <2>1, <3>1
  <2>3. CASE ~(n > k)
    <3>1. \A i \in 1 .. l : n < k + i
      BY <1>9, <2>3
    <3> QED
      BY <1>6, <1>9, <1>11, <2>1, <3>1
  <2> QED
    BY <2>2, <2>3
<1>17. r.type = "BY_CREATION" => \A i \in 1 .. l : d[i].name.at < r.limit
  BY <1>7, <1>9, <1>11
<1>18. ASSUME r.type = "BY_COUNT", NEW i \in 1 .. l
       PROVE  Cardinality(Ahead(O, q, d[i].name)) >= r.limit
  <2>1. PICK T : T = Ahead(O, q, d[i].name)
    OBVIOUS
  <2>2. IsFiniteSet(T)
    <3>1. IsFiniteSet(Range(q)) /\ T \in SUBSET Range(q)
      BY <1>1, <1>2, <2>1, ListsAreFinite DEF Ahead
    <3> QED
      BY <3>1, FS_Subset
  <2>3. k = r.limit
    BY <1>7, <1>18
  <2> DEFINE f == [n \in 1 .. k |-> sorted[n].name]
  <2>4. PICK m \in 1 .. c : m = k + i
    BY <1>9
  <2>5. d[i].name = sorted[m].name
    BY <1>11, <2>4
  <2>6. \A n \in 1 .. k : n \in 1 .. c /\ n < m
    BY <1>9, <2>4
  <2>7. ASSUME NEW n \in 1 .. k PROVE sorted[n].name \in T
    <3>1. sorted[n].name \in O
      BY <1>3, <1>4, <2>6, Zenon
    <3>2. \/ sorted[n].name.at > sorted[m].name.at
          \/ sorted[n].name.at = sorted[m].name.at /\ InOrder(q, sorted[n].name, sorted[m].name)
      BY <1>3, <1>4, <2>6, Zenon
    <3> QED
      BY <2>1, <2>5, <3>1, <3>2 DEF Ahead
  <2>8. ASSUME NEW u \in 1 .. k, NEW v \in 1 .. k, u < v
        PROVE  sorted[u].name # sorted[v].name
    <3>1. u \in 1 .. c /\ v \in 1 .. c
      BY <2>6, Zenon
    <3> QED
      BY <1>3, <1>4, <2>8, <3>1, Zenon
  <2>9. /\ \A n \in 1 .. k : f[n] \in T
        /\ \A u, v \in 1 .. k : u < v => f[u] # f[v]
    BY <2>7, <2>8
  <2> HIDE DEF f
  <2>10. Cardinality(T) >= k
    BY <2>2, <2>9, AtLeast
  <2> QED
    BY <2>1, <2>3, <2>10
<1>19. Remainder(O, q, r, d)
  <2>1. l = Len(d)
    BY <1>11
  <2> QED
    BY <1>13, <1>14, <1>15, <1>16, <1>17, <1>18, <2>1, Zenon DEF Remainder
<1> QED
  BY <1>1, <1>2, <1>11, <1>12, <1>19

-----------------------------------------------------------------------------
(* The invariants *)

\* RETENTION is a number of BE.
ByCount == Setting.form = "number" /\ Setting.value > 0

\* RETENTION is a period.
ByAge == Setting.form = "quantity" /\ Setting.value > 0 /\ Setting.unit > 0

\* The clock has reached the period: the limit does not wrap around.
NoWrap == Setting.form = "quantity" => Setting.value * Setting.unit <= Start

\* The second tells the BE apart, as it does when there is one event in ON.
OneASecond == \A b, c \in Existing : b.at = c.at => b = c
OneEvent == \A e, f \in On : e = f

\* The events in ON come before the jobs, or after them.
OneSide == \A e, f \in On : e[1] = f[1]

\* Commands do not overlap.
OneProcess == \A p, q \in Pkgs : p = q

Labels == {"idle", "methodless", "list", "inspect", "destroy", "ready", "relist",
           "reinspect", "activate", "before", "version", "hook", "execute", "after"}

\* The values the variables take.
MachineTypes ==
  /\ now \in Start .. MaxTime
  /\ bes \in Seq(Names)
  /\ content \in [Names -> Nat]
  /\ once \in Names \cup {None}
  /\ undo \in Int

ProcessTypes ==
  /\ pc \in [Pkgs -> Labels]
  /\ command \in [Pkgs -> Commands \cup {"rollback", "other"}]
  /\ jobs \in [Pkgs -> BOOLEAN] /\ backed \in [Pkgs -> BOOLEAN]
  /\ retention \in [Pkgs -> Retentions]
  /\ seen \in [Pkgs -> Seq(Names)]
  /\ doomed \in [Pkgs -> Seq(Dated)]
  /\ target \in [Pkgs -> Names \cup {None}]

BETypeInv == MachineTypes /\ ProcessTypes

\* A name is the one of a single BE, nothing is from later than now, the
\* properties are those of BE there are, and so is what runs and what is to boot.
PoolInv ==
  /\ IsInjective(bes)
  /\ \A b \in Existing : b.at <= now
  /\ versioned \subseteq Existing /\ hooked \subseteq Existing
  /\ booted \in Existing /\ bootfs \in Existing

\* What a process remembers is what it is about.
ProcessInv ==
  \A p \in Pkgs :
    /\ pc[p] \in {"list", "inspect"} =>
         \E t \in Start .. now : retention[p] = RetentionParse(Setting, t)
    /\ pc[p] # "destroy" => doomed[p] = <<>>
    /\ pc[p] \notin {"inspect", "reinspect"} => seen[p] = <<>>
    /\ IsInjective(seen[p])

\* The invariant of the machine
BEInv == BETypeInv /\ PoolInv /\ ProcessInv

\* The list has c before b, or would if b came to be there again.
Before(c, b) ==
  /\ c \in Existing
  /\ c.at > b.at \/ (c.at = b.at /\ (b \notin Existing \/ InOrder(bes, c, b)))

\* As many BE of the plugin as RETENTION says come before b.
Secured(b) == Cardinality({c \in Tagged : Before(c, b)}) >= Setting.value

Precedence == {n \in Names \X Names : Before(n[1], n[2])}
SecuredNames == {b \in Names : Secured(b)}

\* By count: what a process is to destroy is preceded by enough of them.  What
\* a process saw of one second is in the order of the list, unless enough of
\* them precede the second anyway: that of two one was destroyed and made again
\* does not matter then.
CountInv ==
  \A p \in Pkgs :
    /\ \A i \in DOMAIN doomed[p] : doomed[p][i].name \in SecuredNames
    /\ \A i, j \in DOMAIN seen[p] :
         i < j /\ seen[p][i].at = seen[p][j].at
           => \/ <<seen[p][i], seen[p][j]>> \in Precedence
              \/ seen[p][j] \in SecuredNames

\* What a process is to destroy is from an earlier second, so that it cannot be
\* made again, and has both properties as long as it is there.
OwnNames == {b \in Names : b.at < now /\ (b \in Tagged \/ b \notin Existing)}
OwnInv == \A p \in Pkgs : \A i \in DOMAIN doomed[p] : doomed[p][i].name \in OwnNames

\* By age: what a process is to destroy is older than the period.
OldNames == {b \in Names : b.at < now - Setting.value * Setting.unit}
AgeInv == \A p \in Pkgs : \A i \in DOMAIN doomed[p] : doomed[p][i].name \in OldNames

\* b is the latest BE of the plugin and would bring these packages back.
Restores(b, packages) ==
  /\ b \in Tagged /\ b # booted /\ content[b] = packages
  /\ \A c \in Tagged : c.at <= b.at

\* What the only process has seen is still what there is.
SeenInv(p) == pc[p] \in {"inspect", "reinspect"} => seen[p] = bes

\* What it is to destroy is the end of what the plugin has.
EndInv(p) ==
  /\ \A i \in DOMAIN doomed[p] : doomed[p][i].name \in Tagged
  /\ \A i, j \in DOMAIN doomed[p] : i < j =>
       doomed[p][i].name # doomed[p][j].name /\ doomed[p][i].name.at >= doomed[p][j].name.at
  /\ \A c \in Tagged : \/ \E i \in DOMAIN doomed[p] : doomed[p][i].name = c
                      \/ \A i \in DOMAIN doomed[p] : c.at >= doomed[p][i].name.at

\* The BE it is making is the latest and has the packages that are installed.
MakingInv(p) ==
  pc[p] \in {"version", "hook"} =>
    /\ undo = -1
    /\ target[p] \in Existing /\ target[p] # booted
    /\ content[target[p]] = content[booted]
    /\ \A c \in Tagged : c.at <= target[p].at
    /\ pc[p] = "hook" => target[p] \in versioned

\* A hook that ran before the jobs and made a BE made the one that has the
\* packages as they are before the jobs.
BackedInv(p) ==
  pc[p] = "execute" /\ backed[p] =>
    (\A e \in On : e[1] = "pre") /\ \E b \in Names : Restores(b, content[booted])

\* What a rollback is about to activate is the latest.
ActivateInv(p) ==
  pc[p] = "activate" => target[p] \in Tagged /\ \A c \in Tagged : c.at <= target[p].at

\* The BE that undoes the last command is the latest: it is the last one a purge
\* destroys.
UndoInv ==
  undo # -1 => /\ \A e \in On : e[1] = "pre"
               /\ Tagged = {} \/ \E b \in Names : Restores(b, undo)

RecallInv(p) ==
  SeenInv(p) /\ EndInv(p) /\ MakingInv(p) /\ BackedInv(p) /\ ActivateInv(p)

RollbackInv == UndoInv /\ \A p \in Pkgs : RecallInv(p)

-----------------------------------------------------------------------------
(* The invariant of the machine holds *)

LEMMA ParsedRetention ==
  \A t \in Int : /\ RetentionParse(Setting, t) \in Retentions \cup {Malformed}
                 /\ ByCount => RetentionParse(Setting, t) =
                                 [type |-> "BY_COUNT", limit |-> Setting.value]
<1> SUFFICES ASSUME NEW t \in Int
             PROVE  /\ RetentionParse(Setting, t) \in Retentions \cup {Malformed}
                    /\ ByCount => RetentionParse(Setting, t) =
                                    [type |-> "BY_COUNT", limit |-> Setting.value]
  OBVIOUS
<1>1. Setting.value \in Int /\ Setting.unit \in Nat
      /\ Setting.form \in {"absent", "number", "quantity", "out_of_range", "other_type"}
  BY SettingAssumption DEF Settings
<1>2. Limit(t, Setting.value * Setting.unit) \in Int
  <2>1. Setting.value * Setting.unit \in Int
    BY <1>1
  <2> QED
    BY <2>1, WordAssumption DEF Limit
<1>3. CASE Setting.form = "number" /\ Setting.value > 0
  <2>1. RetentionParse(Setting, t) = [type |-> "BY_COUNT", limit |-> Setting.value]
    BY <1>1, <1>3 DEF RetentionParse
  <2>2. Setting.value \in Nat
    BY <1>1, <1>3
  <2> QED
    BY <2>1, <2>2 DEF Retentions
<1>4. CASE Setting.form = "quantity" /\ Setting.value > 0 /\ Setting.unit > 0
  <2>1. RetentionParse(Setting, t) =
          [type |-> "BY_CREATION", limit |-> Limit(t, Setting.value * Setting.unit)]
    BY <1>1, <1>4 DEF RetentionParse
  <2> QED
    BY <1>2, <1>4, <2>1 DEF Retentions, ByCount
<1>5. CASE /\ ~(Setting.form = "number" /\ Setting.value > 0)
           /\ ~(Setting.form = "quantity" /\ Setting.value > 0 /\ Setting.unit > 0)
  <2>1. RetentionParse(Setting, t) \in {Disabled, Malformed}
    BY <1>1, <1>5 DEF RetentionParse
  <2> QED
    BY <1>5, <2>1 DEF Retentions, ByCount
<1> QED
  BY <1>3, <1>4, <1>5

\* It holds at first.
LEMMA BEInitial == Init => BEInv
<1> SUFFICES ASSUME Init PROVE BEInv
  OBVIOUS
<1>1. Default \in Names /\ Default.at = 0 /\ Start \in Start .. MaxTime
  BY NamesAreDated, TimeAssumption
<1>2. bes \in Seq(Names) /\ IsInjective(bes) /\ Existing = {Default}
  <2>1. bes = <<Default>> /\ DOMAIN bes = {1} /\ bes[1] = Default
    BY DEF Init
  <2> QED
    BY <1>1, <2>1 DEF IsInjective, Existing, Range
<1>3. BETypeInv
  <2>1. content \in [Names -> Nat]
    BY DEF Init
  <2>2. /\ pc \in [Pkgs -> Labels] /\ command \in [Pkgs -> Commands \cup {"rollback", "other"}]
        /\ jobs \in [Pkgs -> BOOLEAN] /\ backed \in [Pkgs -> BOOLEAN]
        /\ target \in [Pkgs -> Names \cup {None}]
    BY DEF Init, Labels
  <2>3. seen \in [Pkgs -> Seq(Names)] /\ doomed \in [Pkgs -> Seq(Dated)]
    BY DEF Init
  <2>4. retention \in [Pkgs -> Retentions]
    BY DEF Init, Retentions
  <2> QED
    BY <1>1, <1>2, <2>1, <2>2, <2>3, <2>4 DEF BETypeInv, MachineTypes, ProcessTypes, Init
<1>4. PoolInv
  BY <1>1, <1>2, TimeAssumption DEF PoolInv, Init
<1>5. ProcessInv
  <2> SUFFICES ASSUME NEW p \in Pkgs
               PROVE  pc[p] = "idle" /\ doomed[p] = <<>> /\ seen[p] = <<>> /\ IsInjective(seen[p])
    BY DEF ProcessInv
  <2>1. pc[p] = "idle" /\ doomed[p] = <<>> /\ seen[p] = <<>>
    BY DEF Init
  <2> QED
    BY <2>1 DEF IsInjective
<1> QED
  BY <1>3, <1>4, <1>5 DEF BEInv

LEMMA GotoTypes ==
  ProcessTypes => \A p \in Pkgs : \A label \in Labels : Goto(p, label) => pc' \in [Pkgs -> Labels]
  BY DEF ProcessTypes, Goto

\* What a process forgets
LEMMA ForgetTypes ==
  ProcessTypes => \A p \in Pkgs : pc' \in [Pkgs -> Labels] /\ Forget(p) => ProcessTypes'
<1> SUFFICES ASSUME ProcessTypes, NEW p \in Pkgs, pc' \in [Pkgs -> Labels], Forget(p)
             PROVE  ProcessTypes'
  OBVIOUS
<1>1. Disabled \in Retentions /\ <<>> \in Seq(Names) /\ <<>> \in Seq(Dated)
  BY DEF Retentions
<1>2. /\ command' \in [Pkgs -> Commands \cup {"rollback", "other"}]
      /\ jobs' \in [Pkgs -> BOOLEAN] /\ backed' \in [Pkgs -> BOOLEAN]
      /\ target' \in [Pkgs -> Names \cup {None}]
  BY DEF ProcessTypes, Forget
<1>3. /\ retention' \in [Pkgs -> Retentions]
      /\ seen' \in [Pkgs -> Seq(Names)]
      /\ doomed' \in [Pkgs -> Seq(Dated)]
  BY <1>1 DEF ProcessTypes, Forget
<1> QED
  BY <1>2, <1>3 DEF ProcessTypes

LEMMA HookTypes ==
  ProcessTypes => \A p \in Pkgs : \A when : \A ok \in BOOLEAN :
    HookReturns(p, when, ok) => ProcessTypes'
<1> SUFFICES ASSUME ProcessTypes, NEW p \in Pkgs, NEW when, NEW ok \in BOOLEAN,
                    HookReturns(p, when, ok)
             PROVE  ProcessTypes'
  OBVIOUS
<1>1. CASE when = "pre"
  <2>1. pc' \in [Pkgs -> Labels]
    BY <1>1, GotoTypes DEF HookReturns, Labels
  <2>2. backed' \in [Pkgs -> BOOLEAN] /\ target' \in [Pkgs -> Names \cup {None}]
    BY <1>1 DEF ProcessTypes, HookReturns
  <2> QED
    BY <1>1, <2>1, <2>2 DEF ProcessTypes, HookReturns
<1>2. CASE when # "pre"
  <2>1. pc' \in [Pkgs -> Labels]
    BY <1>2, GotoTypes DEF HookReturns, Labels
  <2> QED
    BY <1>2, <2>1, ForgetTypes DEF HookReturns
<1> QED
  BY <1>1, <1>2

\* A step of a process only changes what it keeps there, if not what it exits with.
LEMMA ProcessTypesStep ==
  BETypeInv /\ PoolInv /\ ProcessInv => \A p \in Pkgs :
    InitPlugin(p) \/ Step(p) \/ Crash(p) => ProcessTypes'
<1> SUFFICES ASSUME BETypeInv, PoolInv, ProcessInv, NEW p \in Pkgs,
                    InitPlugin(p) \/ Step(p) \/ Crash(p)
             PROVE  ProcessTypes'
  OBVIOUS
<1>a. ProcessTypes /\ MachineTypes
  BY DEF BETypeInv
<1>1. CASE InitPlugin(p)
  <2>1. now \in Int
    BY <1>a, TimeAssumption DEF MachineTypes
  <2>2. retention' = [retention EXCEPT ![p] = RetentionParse(Setting, now)]
        /\ retention'[p] # Malformed
    BY <1>1 DEF InitPlugin
  <2>3. RetentionParse(Setting, now) \in Retentions
    <3>1. retention'[p] = RetentionParse(Setting, now)
      BY <1>a, <2>2 DEF ProcessTypes
    <3> QED
      BY <2>1, <2>2, <3>1, ParsedRetention
  <2>4. retention' \in [Pkgs -> Retentions]
    BY <1>a, <2>2, <2>3 DEF ProcessTypes
  <2>5. pc' \in [Pkgs -> Labels]
    BY <1>a, <1>1, GotoTypes DEF InitPlugin, Labels
  <2>6. /\ command' \in [Pkgs -> Commands \cup {"rollback", "other"}]
        /\ jobs' \in [Pkgs -> BOOLEAN]
    BY <1>a, <1>1 DEF ProcessTypes, InitPlugin
  <2> QED
    BY <1>a, <1>1, <2>4, <2>5, <2>6 DEF ProcessTypes, InitPlugin
<1>2. CASE Methodless(p) \/ GiveUp(p) \/ DoNotRollback(p) \/ Activate(p) \/ ActivateFails(p)
           \/ Crash(p)
  <2>1. Goto(p, "idle") /\ Forget(p)
    BY <1>2 DEF Methodless, GiveUp, DoNotRollback, Activate, ActivateFails, Crash, Exit
  <2> QED
    BY <1>a, <2>1, GotoTypes, ForgetTypes DEF Labels
<1>3. CASE ListNames(p)
  <2>1. pc' \in [Pkgs -> Labels]
    BY <1>a, <1>3, GotoTypes DEF ListNames, Labels
  <2>2. seen' \in [Pkgs -> Seq(Names)]
    BY <1>a, <1>3 DEF ListNames, ProcessTypes, MachineTypes
  <2> QED
    BY <1>a, <1>3, <2>1, <2>2 DEF ListNames, ProcessTypes
<1>4. CASE ListFails(p)
  <2>1. pc' \in [Pkgs -> Labels]
    BY <1>a, <1>4, GotoTypes DEF ListFails, Labels
  <2>2. seen' \in [Pkgs -> Seq(Names)]
    BY <1>a, <1>4 DEF ListFails, ProcessTypes
  <2> QED
    BY <1>a, <1>4, <2>1, <2>2 DEF ListFails, ProcessTypes
<1>5. CASE SelectDoomed(p)
  <2>1. pc' \in [Pkgs -> Labels]
    BY <1>a, <1>5, GotoTypes DEF SelectDoomed, Labels
  <2>2. seen' \in [Pkgs -> Seq(Names)]
    BY <1>a, <1>5 DEF SelectDoomed, ListSucceeds, ProcessTypes
  <2>3. Doomed(retention[p], ListOf(p)) \in Seq(Dated)
    <3>1. seen[p] \in Seq(Names) /\ IsInjective(seen[p]) /\ retention[p] \in Retentions
      BY <1>a DEF ProcessTypes, ProcessInv
    <3> QED
      BY <3>1, DoomedOurs
  <2>4. doomed' \in [Pkgs -> Seq(Dated)]
    BY <1>a, <1>5, <2>3 DEF SelectDoomed, ProcessTypes
  <2> QED
    BY <1>a, <1>5, <2>1, <2>2, <2>4 DEF SelectDoomed, ProcessTypes
<1>6. CASE DestroyOldest(p)
  <2>1. doomed[p] \in Seq(Dated) /\ doomed[p] # <<>>
    BY <1>a, <1>6 DEF DestroyOldest, ProcessTypes
  <2>2. Front(doomed[p]) \in Seq(Dated)
    BY <2>1 DEF Front
  <2>3. doomed' \in [Pkgs -> Seq(Dated)]
    BY <1>a, <1>6, <2>2 DEF DestroyOldest, ProcessTypes
  <2> QED
    BY <1>a, <1>6, <2>3 DEF DestroyOldest, ProcessTypes
<1>7. CASE PurgeEnds(p)
  <2>1. pc' \in [Pkgs -> Labels]
    BY <1>a, <1>7, GotoTypes DEF PurgeEnds, Labels
  <2>2. doomed' \in [Pkgs -> Seq(Dated)]
    BY <1>a, <1>7 DEF PurgeEnds, ProcessTypes
  <2> QED
    BY <1>a, <1>7, <2>1, <2>2 DEF PurgeEnds, ProcessTypes
<1>8. CASE Begin(p) \/ BeginRollback(p)
  <2>1. pc' \in [Pkgs -> Labels]
    BY <1>a, <1>8, GotoTypes DEF Begin, BeginRollback, Labels
  <2> QED
    BY <1>a, <1>8, <2>1 DEF Begin, BeginRollback, ProcessTypes
<1>9. CASE SkipHook(p) \/ CreateFails(p) \/ SetHook(p) \/ TagFails(p)
  <2>1. \/ \E when : \E ok \in BOOLEAN : HookReturns(p, when, ok)
        \/ Goto(p, "idle") /\ Forget(p)
    BY <1>9 DEF SkipHook, CreateFails, SetHook, TagFails
  <2> QED
    BY <1>a, <2>1, HookTypes, GotoTypes, ForgetTypes DEF Labels
<1>10. CASE CreateBE(p)
  <2>1. pc' \in [Pkgs -> Labels]
    BY <1>a, <1>10, GotoTypes DEF CreateBE, Labels
  <2>2. [event |-> Event(p), at |-> now] \in Names
    BY <1>a, <1>10 DEF CreateBE, Wanted, Names, MachineTypes
  <2>3. target' \in [Pkgs -> Names \cup {None}]
    BY <1>a, <1>10, <2>2 DEF CreateBE, ProcessTypes
  <2> QED
    BY <1>a, <1>10, <2>1, <2>3 DEF CreateBE, ProcessTypes
<1>11. CASE SetVersion(p) \/ Execute(p)
  <2>1. pc' \in [Pkgs -> Labels]
    BY <1>a, <1>11, GotoTypes DEF SetVersion, Execute, Labels
  <2> QED
    BY <1>a, <1>11, <2>1 DEF SetVersion, Execute, ProcessTypes
<1>12. CASE SelectLatest(p)
  <2>1. pc' \in [Pkgs -> Labels]
    BY <1>a, <1>12, GotoTypes DEF SelectLatest, Labels
  <2>2. seen' \in [Pkgs -> Seq(Names)]
    BY <1>a, <1>12 DEF SelectLatest, ListSucceeds, ProcessTypes
  <2>3. Latest(ListOf(p)) \in Names
    <3>1. seen[p] \in Seq(Names) /\ IsInjective(seen[p]) /\ ListOf(p) # <<>>
      BY <1>a, <1>12 DEF ProcessTypes, ProcessInv, SelectLatest
    <3>2. PICK sorted \in Seq(Dated) : sorted = SortDesc(ListOf(p)) /\ sorted # <<>>
      BY <3>1, SortedOurs
    <3>3. sorted[1] \in Dated
      BY <3>2
    <3> QED
      BY <3>2, <3>3, NamesAreDated DEF Latest
  <2>4. target' \in [Pkgs -> Names \cup {None}]
    BY <1>a, <1>12, <2>3 DEF SelectLatest, ProcessTypes
  <2> QED
    BY <1>a, <1>12, <2>1, <2>2, <2>4 DEF SelectLatest, ProcessTypes
<1> QED
  BY <1>1, <1>2, <1>3, <1>4, <1>5, <1>6, <1>7, <1>8, <1>9, <1>10, <1>11, <1>12 DEF Step

\* Destroying a BE takes it and its properties away and leaves the others as they
\* are, in the order they were in.
LEMMA DiscardFacts ==
  MachineTypes /\ PoolInv => \A b \in Existing : Discard(b) =>
    /\ bes' \in Seq(Names) /\ IsInjective(bes')
    /\ Existing' = Existing \ {b}
    /\ \A c, d : InOrder(bes, c, d) /\ c # b /\ d # b => InOrder(bes', c, d)
    /\ Tagged' = Tagged \ {b}
<1> SUFFICES ASSUME MachineTypes, PoolInv, NEW b, b \in Existing, Discard(b)
             PROVE  /\ bes' \in Seq(Names) /\ IsInjective(bes')
                    /\ Existing' = Existing \ {b}
                    /\ \A c, d : InOrder(bes, c, d) /\ c # b /\ d # b => InOrder(bes', c, d)
                    /\ Tagged' = Tagged \ {b}
  BY Zenon
<1>1. PICK s \in Seq(Names) : s = bes
  BY DEF MachineTypes
<1>2. PICK i \in DOMAIN s : i = (CHOOSE j \in DOMAIN s : s[j] = b) /\ s[i] = b
  BY <1>1 DEF Existing, Range
<1>3. bes' = RemoveAt(s, i)
  BY <1>1, <1>2 DEF Discard
<1>4. IsInjective(s)
  BY <1>1 DEF PoolInv
<1>5. PICK r : r = RemoveAt(s, i)
  OBVIOUS
<1>6. /\ r \in Seq(Names) /\ IsInjective(r)
      /\ Range(r) = Range(s) \ {b}
      /\ \A c, d : InOrder(s, c, d) /\ c # b /\ d # b => InOrder(r, c, d)
  BY <1>2, <1>4, <1>5, RemovedElements, OrderRemoved
<1>7. Tagged' = Tagged \ {b}
  BY DEF Discard, Tagged
<1> QED
  BY <1>1, <1>3, <1>5, <1>6, <1>7 DEF Existing

\* A BE that is made comes last in the list and has no property.
LEMMA CreateFacts ==
  MachineTypes /\ PoolInv => \A p : CreateBE(p) =>
    \E b \in Names :
      /\ b = [event |-> Event(p), at |-> now] /\ b.at = now /\ b.event \in On
      /\ b \notin Existing
      /\ target' = [target EXCEPT ![p] = b]
      /\ bes' \in Seq(Names) /\ IsInjective(bes')
      /\ Existing' = Existing \cup {b}
      /\ \A c, d : InOrder(bes, c, d) => InOrder(bes', c, d)
      /\ \A c \in Existing : InOrder(bes', c, b)
      /\ Tagged' = Tagged
<1> SUFFICES ASSUME MachineTypes, PoolInv, NEW p, CreateBE(p)
             PROVE  \E b \in Names :
                      /\ b = [event |-> Event(p), at |-> now] /\ b.at = now /\ b.event \in On
                      /\ b \notin Existing
                      /\ target' = [target EXCEPT ![p] = b]
                      /\ bes' \in Seq(Names) /\ IsInjective(bes')
                      /\ Existing' = Existing \cup {b}
                      /\ \A c, d : InOrder(bes, c, d) => InOrder(bes', c, d)
                      /\ \A c \in Existing : InOrder(bes', c, b)
                      /\ Tagged' = Tagged
  BY Zenon
<1>1. [event |-> Event(p), at |-> now] \in Names /\ Event(p) \in On
  BY DEF CreateBE, Wanted, Names, MachineTypes
<1>2. PICK b \in Names : b = [event |-> Event(p), at |-> now]
  BY <1>1
<1>3. b.at = now /\ b.event \in On /\ b \notin Existing
  BY <1>1, <1>2 DEF CreateBE
<1>4. PICK s \in Seq(Names) : s = bes
  BY DEF MachineTypes
<1>5. bes' = Append(s, b) /\ target' = [target EXCEPT ![p] = b]
      /\ versioned' = versioned /\ hooked' = hooked
  BY <1>2, <1>4 DEF CreateBE
<1>6. b \notin Range(s) /\ IsInjective(s)
  BY <1>3, <1>4 DEF Existing, PoolInv
<1>7. PICK r : r = Append(s, b)
  OBVIOUS
<1>8. /\ r \in Seq(Names) /\ IsInjective(r)
      /\ Range(r) = Range(s) \cup {b}
      /\ \A c, d : InOrder(s, c, d) => InOrder(r, c, d)
      /\ \A c \in Range(s) : InOrder(r, c, b)
  BY <1>6, <1>7, OrderAppended
<1>9. Tagged' = Tagged
  BY <1>5 DEF Tagged
<1> QED
  <2>1. bes' = r /\ Existing = Range(s) /\ Existing' = Range(r)
    BY <1>4, <1>5, <1>7 DEF Existing
  <2> QED
    BY <1>2, <1>3, <1>4, <1>5, <1>8, <1>9, <2>1, Zenon

\* The BE a purge destroys are among those there are.
LEMMA DestroyFacts ==
  \A p : DestroyOldest(p) =>
    \E b \in Existing : /\ b = Last(doomed[p]).name
                        /\ b # booted /\ b # bootfs
                        /\ Discard(b)
  BY DEF DestroyOldest, Destroyable

\* What changes the list, the properties and the time
LEMMA OnlyThese ==
  [Next]_zintVars =>
    \/ \E p \in Pkgs : DestroyOldest(p)
    \/ \E p \in Pkgs : CreateBE(p)
    \/ /\ UNCHANGED bes
       /\ versioned \subseteq versioned' /\ hooked \subseteq hooked'
       /\ now' = now \/ Tick
<1> SUFFICES ASSUME [Next]_zintVars
             PROVE  \/ \E p \in Pkgs : DestroyOldest(p)
                    \/ \E p \in Pkgs : CreateBE(p)
                    \/ /\ UNCHANGED bes
                       /\ versioned \subseteq versioned' /\ hooked \subseteq hooked'
                       /\ now' = now \/ Tick
  OBVIOUS
<1>1. CASE UNCHANGED zintVars
  BY <1>1 DEF zintVars, poolVars
<1>2. CASE Reboot \/ Tick
  BY <1>2 DEF Reboot, Tick, poolVars
<1>3. ASSUME NEW p \in Pkgs, InitPlugin(p) \/ Crash(p) \/ Methodless(p) \/ ListNames(p)
                             \/ ListFails(p) \/ SelectDoomed(p) \/ PurgeEnds(p) \/ Begin(p)
                             \/ GiveUp(p) \/ BeginRollback(p) \/ SkipHook(p) \/ CreateFails(p)
                             \/ TagFails(p) \/ SelectLatest(p) \/ DoNotRollback(p)
                             \/ Activate(p) \/ ActivateFails(p)
      PROVE  UNCHANGED <<bes, versioned, hooked, now>>
  BY <1>3 DEF InitPlugin, Crash, Methodless, ListNames, ListFails, SelectDoomed, PurgeEnds,
              Begin, GiveUp, BeginRollback, SkipHook, CreateFails, TagFails, SelectLatest,
              DoNotRollback, Activate, ActivateFails, Exit, poolVars
<1>4. ASSUME NEW p \in Pkgs, SetVersion(p) \/ SetHook(p) \/ Execute(p)
      PROVE  /\ UNCHANGED <<bes, now>>
             /\ versioned \subseteq versioned' /\ hooked \subseteq hooked'
  BY <1>4 DEF SetVersion, SetHook, Execute
<1> QED
  BY <1>1, <1>2, <1>3, <1>4 DEF Next, Step

LEMMA MachineTypesStep ==
  BEInv /\ [Next]_zintVars => MachineTypes'
<1> SUFFICES ASSUME BEInv, [Next]_zintVars PROVE MachineTypes'
  OBVIOUS
<1>1. MachineTypes /\ ProcessTypes /\ PoolInv
  BY DEF BEInv, BETypeInv
<1>2. now' \in Start .. MaxTime
  <2>1. now' = now \/ Tick
    <3>1. \A p \in Pkgs : DestroyOldest(p) \/ CreateBE(p) => now' = now
      BY DEF DestroyOldest, CreateBE
    <3> QED
      BY <3>1, OnlyThese
  <2> QED
    BY <1>1, <2>1, TimeAssumption DEF MachineTypes, Tick
<1>3. bes' \in Seq(Names)
  <2>1. CASE \E p \in Pkgs : DestroyOldest(p)
    BY <1>1, <2>1, DestroyFacts, DiscardFacts
  <2>2. CASE \E p \in Pkgs : CreateBE(p)
    BY <1>1, <2>2, CreateFacts
  <2> QED
    BY <1>1, <2>1, <2>2, OnlyThese DEF MachineTypes
<1>4. booted \in Names /\ content[booted] \in Nat
  <2>1. \A b \in Existing : b \in Names
    BY <1>1 DEF Existing, Range, MachineTypes
  <2> QED
    BY <1>1, <2>1 DEF PoolInv, MachineTypes
<1>5. content' \in [Names -> Nat] /\ undo' \in Int
  <2>1. ASSUME NEW p \in Pkgs, DestroyOldest(p) PROVE content' \in [Names -> Nat]
    BY <1>1, <2>1, DestroyFacts DEF Discard, MachineTypes
  <2>2. ASSUME NEW p \in Pkgs, CreateBE(p) PROVE content' \in [Names -> Nat]
    BY <1>1, <1>4, <2>2 DEF CreateBE, MachineTypes
  <2>3. ASSUME NEW p \in Pkgs, Execute(p) PROVE content' \in [Names -> Nat] /\ undo' \in Int
    <3>1. content[booted] \in Int /\ -1 \in Int /\ content[booted] + 1 \in Nat
      BY <1>4
    <3>2. content' \in [Names -> Nat]
      BY <1>1, <1>4, <2>3, <3>1 DEF Execute, MachineTypes
    <3>3. undo' \in {content[booted], -1, undo}
      BY <2>3 DEF Execute
    <3> QED
      BY <1>1, <3>1, <3>2, <3>3 DEF MachineTypes
  <2>4. ASSUME NEW p \in Pkgs, CreateBE(p) \/ CreateFails(p) PROVE undo' \in {-1, undo}
    BY <2>4 DEF CreateBE, CreateFails
  <2>5. CASE Reboot \/ Tick \/ UNCHANGED zintVars
    BY <1>1, <2>5 DEF Reboot, Tick, zintVars, poolVars, MachineTypes
  <2>6. ASSUME NEW p \in Pkgs, InitPlugin(p) \/ Crash(p) \/ Methodless(p) \/ ListNames(p)
                               \/ ListFails(p) \/ SelectDoomed(p) \/ PurgeEnds(p) \/ Begin(p)
                               \/ GiveUp(p) \/ BeginRollback(p) \/ SkipHook(p) \/ SetVersion(p)
                               \/ SetHook(p) \/ TagFails(p) \/ SelectLatest(p)
                               \/ DoNotRollback(p) \/ Activate(p) \/ ActivateFails(p)
        PROVE  UNCHANGED <<content, undo>>
    BY <2>6 DEF InitPlugin, Crash, Methodless, ListNames, ListFails, SelectDoomed, PurgeEnds,
                Begin, GiveUp, BeginRollback, SkipHook, SetVersion, SetHook, TagFails,
                SelectLatest, DoNotRollback, Activate, ActivateFails, Exit, poolVars
  <2>7. ASSUME NEW p \in Pkgs, DestroyOldest(p) PROVE undo' = undo
    BY <2>7 DEF DestroyOldest
  <2>8. ASSUME NEW p \in Pkgs, CreateFails(p) PROVE content' = content
    BY <2>8 DEF CreateFails, poolVars
  <2>9. -1 \in Int
    OBVIOUS
  <2> QED
    BY <1>1, <2>1, <2>2, <2>3, <2>4, <2>5, <2>6, <2>7, <2>8, <2>9 DEF Next, Step, MachineTypes
<1>6. once' \in Names \cup {None}
  <2>1. CASE Reboot
    BY <2>1 DEF Reboot
  <2>2. ASSUME NEW p \in Pkgs, Activate(p) PROVE once' \in Names \cup {None}
    BY <1>1, <2>2 DEF Activate, MachineTypes, ProcessTypes
  <2>3. ASSUME NEW p \in Pkgs, InitPlugin(p) \/ Crash(p) \/ Methodless(p) \/ ListNames(p)
                               \/ ListFails(p) \/ SelectDoomed(p) \/ PurgeEnds(p) \/ Begin(p)
                               \/ GiveUp(p) \/ BeginRollback(p) \/ SkipHook(p) \/ SetVersion(p)
                               \/ SetHook(p) \/ TagFails(p) \/ SelectLatest(p)
                               \/ DoNotRollback(p) \/ ActivateFails(p) \/ DestroyOldest(p)
                               \/ CreateBE(p) \/ CreateFails(p) \/ Execute(p)
        PROVE  once' = once
    BY <2>3 DEF InitPlugin, Crash, Methodless, ListNames, ListFails, SelectDoomed, PurgeEnds,
                Begin, GiveUp, BeginRollback, SkipHook, SetVersion, SetHook, TagFails,
                SelectLatest, DoNotRollback, ActivateFails, DestroyOldest, CreateBE,
                CreateFails, Execute, Exit, bootVars
  <2>4. CASE Tick \/ UNCHANGED zintVars
    BY <1>1, <2>4 DEF Tick, zintVars, bootVars, MachineTypes
  <2> QED
    BY <1>1, <2>1, <2>2, <2>3, <2>4 DEF Next, Step, MachineTypes
<1> QED
  BY <1>2, <1>3, <1>5, <1>6 DEF MachineTypes

LEMMA PoolStep == BEInv /\ [Next]_zintVars => PoolInv'
<1> SUFFICES ASSUME BEInv, [Next]_zintVars PROVE PoolInv'
  OBVIOUS
<1>1. MachineTypes /\ ProcessTypes /\ PoolInv /\ now \in Int
  BY TimeAssumption DEF BEInv, BETypeInv, MachineTypes
<1>2. CASE \E p \in Pkgs : DestroyOldest(p)
  <2>1. PICK p \in Pkgs : DestroyOldest(p)
    BY <1>2
  <2>2. PICK b \in Existing : b # booted /\ b # bootfs /\ Discard(b)
    BY <2>1, DestroyFacts
  <2>3. IsInjective(bes') /\ Existing' = Existing \ {b}
    BY <1>1, <2>2, DiscardFacts
  <2>4. UNCHANGED <<now, booted, bootfs>> /\ versioned' = versioned \ {b} /\ hooked' = hooked \ {b}
    BY <2>1, <2>2 DEF DestroyOldest, bootVars, Discard
  <2> QED
    BY <1>1, <2>2, <2>3, <2>4 DEF PoolInv
<1>3. CASE \E p \in Pkgs : CreateBE(p)
  <2>1. PICK p \in Pkgs : CreateBE(p)
    BY <1>3
  <2>2. PICK b \in Names : b.at = now /\ IsInjective(bes') /\ Existing' = Existing \cup {b}
    BY <1>1, <2>1, CreateFacts
  <2>3. UNCHANGED <<now, booted, bootfs, versioned, hooked>>
    BY <2>1 DEF CreateBE, bootVars
  <2>4. now <= now
    BY <1>1
  <2> QED
    BY <1>1, <2>2, <2>3, <2>4 DEF PoolInv
<1>4. CASE bes' = bes
  <2>1. Existing' = Existing
    BY <1>4 DEF Existing
  <2>2. \A b \in Existing : b.at <= now'
    <3>1. \A b \in Existing : b.at \in Int /\ b.at <= now
      BY <1>1, NamesAreDated DEF Existing, Range, PoolInv, MachineTypes
    <3>2. now' = now \/ now' = now + 1
      <4>1. \A p \in Pkgs : DestroyOldest(p) \/ CreateBE(p) => now' = now
        BY DEF DestroyOldest, CreateBE
      <4> QED
        BY <4>1, OnlyThese DEF Tick
    <3> QED
      BY <1>1, <3>1, <3>2
  <2>3. versioned' \subseteq Existing /\ hooked' \subseteq Existing
    <3>1. ASSUME NEW p \in Pkgs, SetVersion(p) \/ SetHook(p)
          PROVE  versioned' \subseteq Existing /\ hooked' \subseteq Existing
      BY <1>1, <3>1 DEF SetVersion, SetHook, PoolInv
    <3>2. ASSUME NEW p \in Pkgs, InitPlugin(p) \/ Crash(p) \/ Methodless(p) \/ ListNames(p)
                                 \/ ListFails(p) \/ SelectDoomed(p) \/ PurgeEnds(p) \/ Begin(p)
                                 \/ GiveUp(p) \/ BeginRollback(p) \/ SkipHook(p)
                                 \/ TagFails(p) \/ SelectLatest(p) \/ Activate(p)
                                 \/ DoNotRollback(p) \/ ActivateFails(p)
                                 \/ CreateBE(p) \/ CreateFails(p) \/ Execute(p)
          PROVE  UNCHANGED <<versioned, hooked>>
      BY <3>2 DEF InitPlugin, Crash, Methodless, ListNames, ListFails, SelectDoomed, PurgeEnds,
                  Begin, GiveUp, BeginRollback, SkipHook, TagFails, SelectLatest, Activate,
                  DoNotRollback, ActivateFails, CreateBE, CreateFails, Execute, Exit, poolVars
    <3>3. ASSUME NEW p \in Pkgs, DestroyOldest(p)
          PROVE  versioned' \subseteq versioned /\ hooked' \subseteq hooked
      BY <3>3 DEF DestroyOldest, Discard
    <3>4. CASE Reboot \/ Tick \/ UNCHANGED zintVars
      BY <1>1, <3>4 DEF Reboot, Tick, zintVars, poolVars, PoolInv
    <3> QED
      BY <1>1, <3>1, <3>2, <3>3, <3>4 DEF Next, Step, PoolInv
  <2>4. booted' \in Existing /\ bootfs' \in Existing
    <3>1. ASSUME NEW p \in Pkgs, Activate(p)
          PROVE  booted' \in Existing /\ bootfs' \in Existing
      BY <1>1, <3>1 DEF Activate, PoolInv
    <3>2. ASSUME NEW p \in Pkgs, InitPlugin(p) \/ Crash(p) \/ Methodless(p) \/ ListNames(p)
                                 \/ ListFails(p) \/ SelectDoomed(p) \/ PurgeEnds(p) \/ Begin(p)
                                 \/ GiveUp(p) \/ BeginRollback(p) \/ SkipHook(p)
                                 \/ TagFails(p) \/ SelectLatest(p) \/ SetVersion(p) \/ SetHook(p)
                                 \/ DoNotRollback(p) \/ ActivateFails(p) \/ DestroyOldest(p)
                                 \/ CreateBE(p) \/ CreateFails(p) \/ Execute(p)
          PROVE  UNCHANGED <<booted, bootfs>>
      BY <3>2 DEF InitPlugin, Crash, Methodless, ListNames, ListFails, SelectDoomed, PurgeEnds,
                  Begin, GiveUp, BeginRollback, SkipHook, TagFails, SelectLatest, SetVersion,
                  SetHook, DoNotRollback, ActivateFails, DestroyOldest, CreateBE, CreateFails,
                  Execute, Exit, bootVars
    <3>3. CASE Reboot
      BY <1>1, <3>3 DEF Reboot, PoolInv
    <3>4. CASE Tick \/ UNCHANGED zintVars
      BY <1>1, <3>4 DEF Tick, zintVars, bootVars, PoolInv
    <3> QED
      BY <1>1, <3>1, <3>2, <3>3, <3>4 DEF Next, Step, PoolInv
  <2> QED
    BY <1>1, <1>4, <2>1, <2>2, <2>3, <2>4 DEF PoolInv
<1> QED
  BY <1>2, <1>3, <1>4, OnlyThese

\* What a process does changes nothing of what another one remembers.
LEMMA OthersKeep ==
  ProcessTypes => \A p, q \in Pkgs : p # q /\ (InitPlugin(p) \/ Step(p) \/ Crash(p)) =>
    /\ pc'[q] = pc[q] /\ retention'[q] = retention[q] /\ seen'[q] = seen[q]
    /\ doomed'[q] = doomed[q] /\ target'[q] = target[q]
<1> SUFFICES ASSUME ProcessTypes, NEW p \in Pkgs, NEW q \in Pkgs, p # q,
                    InitPlugin(p) \/ Step(p) \/ Crash(p)
             PROVE  /\ pc'[q] = pc[q] /\ retention'[q] = retention[q] /\ seen'[q] = seen[q]
                    /\ doomed'[q] = doomed[q] /\ target'[q] = target[q]
  OBVIOUS
<1> DEFINE Kept == /\ pc'[q] = pc[q] /\ retention'[q] = retention[q] /\ seen'[q] = seen[q]
                   /\ doomed'[q] = doomed[q] /\ target'[q] = target[q]
<1>1. ASSUME NEW label PROVE Goto(p, label) => pc'[q] = pc[q]
  BY DEF Goto, ProcessTypes
<1>2. Forget(p) => /\ retention'[q] = retention[q] /\ seen'[q] = seen[q]
                   /\ doomed'[q] = doomed[q] /\ target'[q] = target[q]
  BY DEF Forget, ProcessTypes
<1>3. ASSUME NEW when, NEW ok, HookReturns(p, when, ok) PROVE Kept
  BY <1>1, <1>2, <1>3 DEF HookReturns, ProcessTypes
<1>4. CASE Methodless(p) \/ GiveUp(p) \/ DoNotRollback(p) \/ Activate(p) \/ ActivateFails(p)
           \/ Crash(p)
  BY <1>1, <1>2, <1>4
     DEF Methodless, GiveUp, DoNotRollback, Activate, ActivateFails, Crash, Exit
<1>5. CASE SkipHook(p) \/ CreateFails(p) \/ SetHook(p) \/ TagFails(p)
  BY <1>1, <1>2, <1>3, <1>5 DEF SkipHook, CreateFails, SetHook, TagFails
<1>6. CASE InitPlugin(p)
  BY <1>1, <1>6 DEF InitPlugin, ProcessTypes
<1>7. CASE ListNames(p) \/ ListFails(p)
  BY <1>1, <1>7 DEF ListNames, ListFails, ProcessTypes
<1>8. CASE SelectDoomed(p) \/ DestroyOldest(p) \/ PurgeEnds(p)
  BY <1>1, <1>8 DEF SelectDoomed, ListSucceeds, DestroyOldest, PurgeEnds, ProcessTypes
<1>9. CASE Begin(p) \/ BeginRollback(p) \/ SetVersion(p) \/ Execute(p)
  BY <1>1, <1>9 DEF Begin, BeginRollback, SetVersion, Execute
<1>10. CASE CreateBE(p) \/ SelectLatest(p)
  BY <1>1, <1>10 DEF CreateBE, SelectLatest, ListSucceeds, ProcessTypes
<1> QED
  BY <1>4, <1>5, <1>6, <1>7, <1>8, <1>9, <1>10 DEF Step

\* What a process remembers of the list and of what it is to destroy goes once it
\* is not needed: no action but these leaves any of it.
LEMMA OwnSteps ==
  ProcessTypes => \A p \in Pkgs : InitPlugin(p) \/ Step(p) \/ Crash(p) =>
    \/ ListNames(p) \/ SelectDoomed(p) \/ DestroyOldest(p)
    \/ /\ InitPlugin(p) /\ pc'[p] \in {"list", "methodless"}
       /\ UNCHANGED <<seen, doomed>>
    \/ /\ pc'[p] \notin {"list", "inspect", "reinspect", "destroy"}
       /\ \/ doomed'[p] = <<>>
          \/ pc[p] # "destroy" /\ doomed'[p] = doomed[p]
       /\ \/ seen'[p] = <<>>
          \/ pc[p] \notin {"inspect", "reinspect"} /\ seen'[p] = seen[p]
<1> SUFFICES ASSUME ProcessTypes, NEW p \in Pkgs,
                    InitPlugin(p) \/ Step(p) \/ Crash(p)
             PROVE  \/ ListNames(p) \/ SelectDoomed(p) \/ DestroyOldest(p)
                    \/ /\ InitPlugin(p) /\ pc'[p] \in {"list", "methodless"}
                       /\ UNCHANGED <<seen, doomed>>
                    \/ /\ pc'[p] \notin {"list", "inspect", "reinspect", "destroy"}
                       /\ \/ doomed'[p] = <<>>
                          \/ pc[p] # "destroy" /\ doomed'[p] = doomed[p]
                       /\ \/ seen'[p] = <<>>
                          \/ pc[p] \notin {"inspect", "reinspect"} /\ seen'[p] = seen[p]
  OBVIOUS
<1> DEFINE Goes == /\ pc'[p] \notin {"list", "inspect", "reinspect", "destroy"}
                   /\ \/ doomed'[p] = <<>>
                      \/ pc[p] # "destroy" /\ doomed'[p] = doomed[p]
                   /\ \/ seen'[p] = <<>>
                      \/ pc[p] \notin {"inspect", "reinspect"} /\ seen'[p] = seen[p]
<1>1. ASSUME NEW label PROVE Goto(p, label) => pc'[p] = label
  BY DEF Goto, ProcessTypes
<1>2. Forget(p) => doomed'[p] = <<>> /\ seen'[p] = <<>>
  BY DEF Forget, ProcessTypes
<1>3. ASSUME pc[p] \notin {"inspect", "reinspect", "destroy"}, NEW when, NEW ok,
             HookReturns(p, when, ok)
      PROVE  Goes
  BY <1>1, <1>2, <1>3 DEF HookReturns
<1>4. CASE Methodless(p) \/ GiveUp(p) \/ DoNotRollback(p) \/ Activate(p) \/ ActivateFails(p)
           \/ Crash(p)
  BY <1>1, <1>2, <1>4
     DEF Methodless, GiveUp, DoNotRollback, Activate, ActivateFails, Crash, Exit
<1>5. CASE SkipHook(p) \/ CreateFails(p) \/ SetHook(p) \/ TagFails(p)
  BY <1>1, <1>2, <1>3, <1>5 DEF SkipHook, CreateFails, SetHook, TagFails
<1>6. CASE InitPlugin(p)
  BY <1>1, <1>6 DEF InitPlugin
<1>7. CASE ListFails(p)
  BY <1>1, <1>7 DEF ListFails, ProcessTypes
<1>8. CASE PurgeEnds(p)
  BY <1>1, <1>8 DEF PurgeEnds, ProcessTypes
<1>9. CASE Begin(p) \/ BeginRollback(p) \/ SetVersion(p) \/ Execute(p) \/ CreateBE(p)
  BY <1>1, <1>9 DEF Begin, BeginRollback, SetVersion, Execute, CreateBE
<1>10. CASE SelectLatest(p)
  BY <1>1, <1>10 DEF SelectLatest, ListSucceeds, ProcessTypes
<1> QED
  BY <1>4, <1>5, <1>6, <1>7, <1>8, <1>9, <1>10 DEF Step

LEMMA ProcessStep == BEInv /\ [Next]_zintVars => ProcessInv'
<1> SUFFICES ASSUME BEInv, [Next]_zintVars PROVE ProcessInv'
  OBVIOUS
<1>1. MachineTypes /\ ProcessTypes /\ PoolInv /\ ProcessInv
  BY DEF BEInv, BETypeInv
<1>2. now \in Start .. now'
  <2>1. now' = now \/ now' = now + 1
    <3>1. \A p \in Pkgs : DestroyOldest(p) \/ CreateBE(p) => now' = now
      BY DEF DestroyOldest, CreateBE
    <3> QED
      BY <3>1, OnlyThese DEF Tick
  <2> QED
    BY <1>1, <2>1, TimeAssumption DEF MachineTypes
<1>3. \A t \in Start .. now : t \in Start .. now'
  <2>1. now' \in Int /\ now \in Int
    BY <1>1, MachineTypesStep, TimeAssumption DEF MachineTypes
  <2> QED
    BY <1>2, <2>1
<1> DEFINE Right(p) ==
             /\ pc'[p] \in {"list", "inspect"} =>
                  \E t \in Start .. now' : retention'[p] = RetentionParse(Setting, t)
             /\ pc'[p] # "destroy" => doomed'[p] = <<>>
             /\ pc'[p] \notin {"inspect", "reinspect"} => seen'[p] = <<>>
             /\ IsInjective(seen'[p])
<1>4. ASSUME NEW q \in Pkgs, pc'[q] = pc[q], retention'[q] = retention[q],
             seen'[q] = seen[q], doomed'[q] = doomed[q]
      PROVE  Right(q)
  BY <1>1, <1>3, <1>4 DEF ProcessInv
<1>5. IsInjective(<<>>)
  BY DEF IsInjective
<1>6. CASE UNCHANGED zintVars \/ Tick
  BY <1>4, <1>6 DEF zintVars, Tick, processVars, ProcessInv
<1>7. CASE Reboot
  BY <1>5, <1>7 DEF Reboot, ProcessInv
<1>8. ASSUME NEW p \in Pkgs, InitPlugin(p) \/ Step(p) \/ Crash(p) PROVE Right(p)
  <2>1. \A label : Goto(p, label) => pc'[p] = label
    BY <1>1 DEF Goto, ProcessTypes
  <2>2. CASE ListNames(p)
    <3>1. pc'[p] \in {"inspect", "reinspect"} /\ (pc'[p] = "inspect" => pc[p] = "list")
      BY <2>1, <2>2 DEF ListNames
    <3>2. seen'[p] = bes /\ doomed'[p] = doomed[p] /\ retention'[p] = retention[p]
      BY <1>1, <2>2 DEF ListNames, ProcessTypes
    <3>3. pc[p] # "destroy"
      BY <2>2 DEF ListNames
    <3> QED
      BY <1>1, <1>3, <3>1, <3>2, <3>3 DEF PoolInv, ProcessInv
  <2>3. CASE SelectDoomed(p)
    <3>1. pc'[p] = "destroy" /\ seen'[p] = <<>>
      BY <1>1, <2>1, <2>3 DEF SelectDoomed, ListSucceeds, ProcessTypes
    <3> QED
      BY <1>5, <3>1
  <2>4. CASE DestroyOldest(p)
    <3>1. pc'[p] = "destroy" /\ seen'[p] = seen[p] /\ pc[p] = "destroy"
      BY <2>4 DEF DestroyOldest
    <3> QED
      BY <1>1, <3>1 DEF ProcessInv
  <2>5. CASE InitPlugin(p) /\ pc'[p] \in {"list", "methodless"} /\ UNCHANGED <<seen, doomed>>
    <3>1. pc[p] = "idle" /\ retention'[p] = RetentionParse(Setting, now)
      BY <1>1, <2>5 DEF InitPlugin, ProcessTypes
    <3> QED
      BY <1>1, <1>2, <2>5, <3>1 DEF ProcessInv
  <2>6. CASE /\ pc'[p] \notin {"list", "inspect", "reinspect", "destroy"}
             /\ \/ doomed'[p] = <<>>
                \/ pc[p] # "destroy" /\ doomed'[p] = doomed[p]
             /\ \/ seen'[p] = <<>>
                \/ pc[p] \notin {"inspect", "reinspect"} /\ seen'[p] = seen[p]
    BY <1>1, <1>5, <2>6 DEF ProcessInv
  <2> QED
    BY <1>1, <1>8, <2>2, <2>3, <2>4, <2>5, <2>6, OwnSteps
<1>9. ASSUME NEW p \in Pkgs, InitPlugin(p) \/ Step(p) \/ Crash(p) PROVE \A q \in Pkgs : Right(q)
  <2> SUFFICES ASSUME NEW q \in Pkgs PROVE Right(q)
    OBVIOUS
  <2>1. CASE p = q
    BY <1>8, <1>9, <2>1
  <2>2. CASE p # q
    <3> HIDE DEF Right
    <3> QED
      BY <1>1, <1>4, <1>9, <2>2, OthersKeep
  <2> QED
    BY <2>1, <2>2
<1> QED
  BY <1>6, <1>7, <1>9 DEF Next, ProcessInv

\* The invariant of the machine: the list of BE is one, nothing is from the
\* future, the properties are those of BE there are, what runs and what is to
\* boot are there, and a process only remembers what it is about.
THEOREM BEInvariant == Spec => []BEInv
<1>1. BEInv /\ [Next]_zintVars => BEInv'
  <2> SUFFICES ASSUME BEInv, [Next]_zintVars PROVE BEInv'
    OBVIOUS
  <2>1. ProcessTypes'
    <3>1. CASE UNCHANGED zintVars \/ Tick
      BY <3>1 DEF zintVars, Tick, processVars, ProcessTypes, BEInv, BETypeInv
    <3>2. CASE Reboot
      <4>1. Disabled \in Retentions /\ <<>> \in Seq(Names) /\ <<>> \in Seq(Dated)
        BY DEF Retentions
      <4> QED
        BY <3>2, <4>1 DEF Reboot, ProcessTypes, Labels
    <3> QED
      BY <3>1, <3>2, ProcessTypesStep DEF Next, BEInv
  <2> QED
    BY <2>1, MachineTypesStep, PoolStep, ProcessStep DEF BEInv, BETypeInv
<1> QED
  BY <1>1, BEInitial, PTL DEF Spec

-----------------------------------------------------------------------------
(* What a process selects, and what it is to destroy *)

\* With one event in ON, the second tells the BE apart.
LEMMA OneEventASecond == OneEvent /\ BEInv => OneASecond
<1> SUFFICES ASSUME OneEvent, BEInv, NEW b \in Existing, NEW c \in Existing, b.at = c.at
             PROVE  b = c
  BY DEF OneASecond
<1>1. b \in Names /\ c \in Names
  BY DEF BEInv, BETypeInv, MachineTypes, Existing, Range
<1>2. (c = Default) <=> (b = Default)
  BY <1>1, NamesAreDated
<1>3. CASE c # Default
  <2>1. /\ c \in [event : On, at : Start .. MaxTime]
        /\ b \in [event : On, at : Start .. MaxTime]
    BY <1>1, <1>2, <1>3 DEF Names
  <2>2. c.event = b.event
    BY <2>1 DEF OneEvent
  <2> QED
    BY <2>1, <2>2
<1> QED
  BY <1>2, <1>3

\* What a process selects
LEMMA SelectedFacts ==
  BEInv => \A p \in Pkgs : SelectDoomed(p) =>
    \E t \in Start .. now : \E d \in Seq(Dated) :
      /\ retention[p] = RetentionParse(Setting, t) /\ retention[p] \in Retentions
      /\ t \in Start .. MaxTime
      /\ doomed'[p] = d
      /\ Range(seen[p]) \subseteq Existing
      /\ Remainder(Tagged \cap Range(seen[p]), seen[p], retention[p], d)
<1> SUFFICES ASSUME BEInv, NEW p \in Pkgs, SelectDoomed(p)
             PROVE  \E t \in Start .. now : \E d \in Seq(Dated) :
                      /\ retention[p] = RetentionParse(Setting, t) /\ retention[p] \in Retentions
                      /\ t \in Start .. MaxTime
                      /\ doomed'[p] = d
                      /\ Range(seen[p]) \subseteq Existing
                      /\ Remainder(Tagged \cap Range(seen[p]), seen[p], retention[p], d)
  OBVIOUS
<1>1. MachineTypes /\ PoolInv /\ ProcessTypes /\ ProcessInv
  BY DEF BEInv, BETypeInv
<1>2. PICK t \in Start .. now : retention[p] = RetentionParse(Setting, t)
  BY <1>1 DEF ProcessInv, SelectDoomed
<1>3. t \in Start .. MaxTime
  BY <1>1, TimeAssumption DEF MachineTypes
<1>4. retention[p] \in Retentions /\ seen[p] \in Seq(Names) /\ IsInjective(seen[p])
  BY <1>1 DEF ProcessTypes, ProcessInv
<1>5. PICK d \in Seq(Dated) : /\ d = Doomed(retention[p], ListOf(p))
                              /\ Remainder(Tagged \cap Range(seen[p]), seen[p], retention[p], d)
  BY <1>4, DoomedOurs
<1>6. doomed'[p] = d /\ Range(seen[p]) \subseteq Existing
  BY <1>1, <1>5 DEF SelectDoomed, ListSucceeds, ProcessTypes
<1> QED
  BY <1>2, <1>3, <1>4, <1>5, <1>6, Zenon

\* What is true of the names selected, and stays so, is true of all of those a
\* process is to destroy.
LEMMA DoomedStep ==
  BEInv /\ [Next]_zintVars => \A G, H :
    /\ \A p \in Pkgs : \A i \in DOMAIN doomed[p] : doomed[p][i].name \in G
    /\ G \subseteq H
    /\ \A p \in Pkgs : SelectDoomed(p) =>
         \A i \in DOMAIN doomed'[p] : doomed'[p][i].name \in H
    => \A p \in Pkgs : \A i \in DOMAIN doomed'[p] : doomed'[p][i].name \in H
<1> SUFFICES ASSUME BEInv, [Next]_zintVars, NEW G, NEW H,
                    \A p \in Pkgs : \A i \in DOMAIN doomed[p] : doomed[p][i].name \in G,
                    G \subseteq H,
                    \A p \in Pkgs : SelectDoomed(p) =>
                      \A i \in DOMAIN doomed'[p] : doomed'[p][i].name \in H
             PROVE  \A p \in Pkgs : \A i \in DOMAIN doomed'[p] : doomed'[p][i].name \in H
  BY Zenon
<1>1. ProcessTypes
  BY DEF BEInv, BETypeInv
<1> DEFINE Good(q) == \A i \in DOMAIN doomed'[q] : doomed'[q][i].name \in H
<1>2. ASSUME NEW q \in Pkgs, doomed'[q] = doomed[q] PROVE Good(q)
  BY <1>2
<1>3. ASSUME NEW q \in Pkgs, doomed'[q] = <<>> PROVE Good(q)
  BY <1>3
<1>4. CASE UNCHANGED zintVars \/ Tick
  BY <1>2, <1>4 DEF zintVars, Tick, processVars
<1>5. CASE Reboot
  BY <1>3, <1>5 DEF Reboot
<1>6. ASSUME NEW p \in Pkgs, InitPlugin(p) \/ Step(p) \/ Crash(p) PROVE Good(p)
  <2>1. CASE ListNames(p) \/ (InitPlugin(p) /\ UNCHANGED <<seen, doomed>>)
    BY <1>2, <2>1 DEF ListNames
  <2>2. CASE SelectDoomed(p)
    BY <2>2
  <2>3. CASE DestroyOldest(p)
    <3>1. doomed'[p] = Front(doomed[p])
      BY <1>1, <2>3 DEF DestroyOldest, ProcessTypes
    <3>2. PICK d \in Seq(Dated) : d = doomed[p] /\ d # <<>>
      BY <1>1, <2>3 DEF DestroyOldest, ProcessTypes
    <3>3. \A i \in DOMAIN Front(d) : i \in DOMAIN d /\ Front(d)[i] = d[i]
      BY <3>2 DEF Front
    <3> QED
      BY <3>1, <3>2, <3>3
  <2>4. CASE doomed'[p] = <<>> \/ doomed'[p] = doomed[p]
    BY <1>2, <1>3, <2>4
  <2> QED
    BY <1>1, <1>6, <2>1, <2>2, <2>3, <2>4, OwnSteps
<1>7. ASSUME NEW p \in Pkgs, InitPlugin(p) \/ Step(p) \/ Crash(p), NEW q \in Pkgs
      PROVE  Good(q)
  <2>1. CASE p = q
    BY <1>6, <1>7, <2>1
  <2>2. CASE p # q
    <3>1. doomed'[q] = doomed[q]
      BY <1>1, <1>7, <2>2, OthersKeep
    <3> QED
      BY <1>2, <3>1
  <2> QED
    BY <2>1, <2>2
<1> QED
  BY <1>4, <1>5, <1>7 DEF Next

-----------------------------------------------------------------------------
(* RETENTION by count keeps the latest *)

\* Before is an order.
LEMMA BeforeIsStrict ==
  MachineTypes /\ PoolInv =>
    /\ \A b : ~Before(b, b)
    /\ \A a, b, c \in Names : Before(a, b) /\ Before(b, c) => Before(a, c)
<1> SUFFICES ASSUME MachineTypes, PoolInv
             PROVE  /\ \A b : ~Before(b, b)
                    /\ \A a, b, c \in Names : Before(a, b) /\ Before(b, c) => Before(a, c)
  OBVIOUS
<1>1. PICK s \in Seq(Names) : s = bes
  BY DEF MachineTypes
<1>2. \A b : ~InOrder(bes, b, b)
  BY <1>1, OrderIsStrict DEF PoolInv
<1>3. \A a, b, c : InOrder(bes, a, b) /\ InOrder(bes, b, c) => InOrder(bes, a, c)
  BY <1>1, OrderIsStrict DEF PoolInv
<1>4. Existing \subseteq Names
  BY DEF Existing, Range, MachineTypes
<1>5. ASSUME NEW b PROVE ~Before(b, b)
  <2> SUFFICES ASSUME Before(b, b) PROVE FALSE
    OBVIOUS
  <2>1. b \in Existing /\ b.at > b.at
    BY <1>2 DEF Before
  <2>2. b.at \in Int
    BY <1>4, <2>1, NamesAreDated
  <2> QED
    BY <2>1, <2>2
<1>6. ASSUME NEW a \in Names, NEW b \in Names, NEW c \in Names, Before(a, b), Before(b, c)
      PROVE  Before(a, c)
  <2>1. a.at \in Int /\ b.at \in Int /\ c.at \in Int
    BY NamesAreDated
  <2>2. a.at > c.at \/ (a.at = b.at /\ b.at = c.at)
    BY <1>6, <2>1 DEF Before
  <2>3. a \in Existing /\ b \in Existing
    BY <1>6 DEF Before
  <2>4. CASE a.at > c.at
    BY <2>3, <2>4 DEF Before
  <2>5. CASE a.at = b.at /\ b.at = c.at
    <3>1. InOrder(bes, a, b)
      <4>1. ~(a.at > b.at)
        BY <2>1, <2>5
      <4> QED
        BY <1>6, <2>3, <4>1 DEF Before
    <3>2. c \notin Existing \/ InOrder(bes, b, c)
      <4>1. ~(b.at > c.at)
        BY <2>1, <2>5
      <4> QED
        BY <1>6, <4>1 DEF Before
    <3> QED
      BY <1>3, <2>3, <2>5, <3>1, <3>2 DEF Before
  <2> QED
    BY <2>2, <2>4, <2>5
<1> QED
  BY <1>5, <1>6

\* What is before stays so as long as it is there, and keeps its properties.
LEMMA BeforeStays ==
  BEInv /\ [Next]_zintVars =>
    /\ \A b, c : Before(c, b) /\ c \in Existing' => Before(c, b)'
    /\ \A b \in Tagged : b \in Existing' => b \in Tagged'
<1> SUFFICES ASSUME BEInv, [Next]_zintVars
             PROVE  /\ \A b, c : Before(c, b) /\ c \in Existing' => Before(c, b)'
                    /\ \A b \in Tagged : b \in Existing' => b \in Tagged'
  OBVIOUS
<1>1. MachineTypes /\ PoolInv
  BY DEF BEInv, BETypeInv
<1>2. CASE \E p \in Pkgs : DestroyOldest(p)
  <2>1. PICK x \in Existing : Discard(x)
    BY <1>2, DestroyFacts
  <2>2. /\ Existing' = Existing \ {x} /\ Tagged' = Tagged \ {x}
        /\ \A c, d : InOrder(bes, c, d) /\ c # x /\ d # x => InOrder(bes', c, d)
    BY <1>1, <2>1, DiscardFacts
  <2>3. ASSUME NEW b, NEW c, Before(c, b), c \in Existing' PROVE Before(c, b)'
    BY <2>2, <2>3 DEF Before
  <2> QED
    BY <2>2, <2>3
<1>3. CASE \E p \in Pkgs : CreateBE(p)
  <2>1. PICK x \in Names :
          /\ x \notin Existing /\ Existing' = Existing \cup {x} /\ Tagged' = Tagged
          /\ \A c, d : InOrder(bes, c, d) => InOrder(bes', c, d)
          /\ \A c \in Existing : InOrder(bes', c, x)
    BY <1>1, <1>3, CreateFacts
  <2>2. ASSUME NEW b, NEW c, Before(c, b), c \in Existing' PROVE Before(c, b)'
    BY <2>1, <2>2 DEF Before
  <2> QED
    BY <2>1, <2>2
<1>4. CASE bes' = bes /\ versioned \subseteq versioned' /\ hooked \subseteq hooked'
  BY <1>4 DEF Before, Existing, Tagged
<1> QED
  BY <1>2, <1>3, <1>4, OnlyThese

\* The BE a step destroys is one a process had to destroy.
LEMMA DestroyedIsDoomed ==
  BEInv /\ [Next]_zintVars => \A b \in Existing : b \notin Existing' =>
    \E p \in Pkgs : /\ DestroyOldest(p) /\ Discard(b)
                    /\ Len(doomed[p]) \in DOMAIN doomed[p]
                    /\ b = doomed[p][Len(doomed[p])].name
<1> SUFFICES ASSUME BEInv, [Next]_zintVars, NEW b, b \in Existing, b \notin Existing'
             PROVE  \E p \in Pkgs : /\ DestroyOldest(p) /\ Discard(b)
                                    /\ Len(doomed[p]) \in DOMAIN doomed[p]
                                    /\ b = doomed[p][Len(doomed[p])].name
  BY Zenon
<1>1. MachineTypes /\ PoolInv /\ ProcessTypes
  BY DEF BEInv, BETypeInv
<1>2. bes' # bes
  BY DEF Existing
<1>3. ~\E p \in Pkgs : CreateBE(p)
  BY <1>1, CreateFacts
<1>4. PICK p \in Pkgs : DestroyOldest(p)
  BY <1>2, <1>3, OnlyThese
<1>5. PICK x \in Existing : x = Last(doomed[p]).name /\ Discard(x)
  BY <1>4, DestroyFacts
<1>6. x = b
  BY <1>1, <1>5, DiscardFacts
<1>7. Len(doomed[p]) \in DOMAIN doomed[p]
  <2>1. doomed[p] \in Seq(Dated) /\ doomed[p] # <<>>
    BY <1>1, <1>4 DEF ProcessTypes, DestroyOldest
  <2> QED
    BY <2>1
<1> QED
  BY <1>4, <1>5, <1>6, <1>7 DEF Last

\* What a process is to destroy is named.
LEMMA DoomedNames ==
  ProcessTypes => \A p \in Pkgs : \A i \in DOMAIN doomed[p] :
    doomed[p][i] \in Dated /\ doomed[p][i].name \in Names
<1> SUFFICES ASSUME ProcessTypes, NEW p \in Pkgs, NEW i \in DOMAIN doomed[p]
             PROVE  doomed[p][i] \in Dated /\ doomed[p][i].name \in Names
  OBVIOUS
<1>1. doomed[p] \in Seq(Dated)
  BY DEF ProcessTypes
<1>2. doomed[p][i] \in Dated
  BY <1>1
<1> QED
  BY <1>2, NamesAreDated

\* One that is preceded by enough of them stays so: what a process destroys is
\* preceded by enough of them itself.
LEMMA SecuredStays ==
  BEInv /\ CountInv /\ [Next]_zintVars => \A b \in Names :
    /\ Secured(b) => Secured(b)'
    /\ \A c \in Names : Before(c, b) => Before(c, b)' \/ Secured(b)'
<1> SUFFICES ASSUME BEInv, CountInv, [Next]_zintVars, NEW b \in Names
             PROVE  /\ Secured(b) => Secured(b)'
                    /\ \A c \in Names : Before(c, b) => Before(c, b)' \/ Secured(b)'
  OBVIOUS
<1>1. MachineTypes /\ PoolInv /\ ProcessTypes
  BY DEF BEInv, BETypeInv
<1>2. Tagged \subseteq Existing /\ Existing \subseteq Names
  BY <1>1 DEF PoolInv, Tagged, Existing, Range, MachineTypes
<1>3. PICK P : P = {c \in Tagged : Before(c, b)}'
  OBVIOUS
<1>4. IsFiniteSet(P)
  <2>1. MachineTypes'
    BY MachineTypesStep
  <2>2. PICK s \in Seq(Names) : s = bes'
    BY <2>1 DEF MachineTypes
  <2>3. P \subseteq Range(s)
    BY <1>3, <2>2 DEF Before, Existing
  <2>4. IsFiniteSet(Range(s))
    BY ListsAreFinite
  <2> QED
    BY <2>3, <2>4, FS_Subset
<1>5. Setting.value \in Int
  BY SettingAssumption DEF Settings
<1>6. ASSUME NEW T \in SUBSET P, Cardinality(T) >= Setting.value PROVE Secured(b)'
  <2>1. Cardinality(T) <= Cardinality(P) /\ Cardinality(P) \in Int /\ Cardinality(T) \in Int
    BY <1>4, FS_Subset, FS_CardinalityType
  <2>2. \A m, n, v \in Int : m >= v /\ m <= n => n >= v
    OBVIOUS
  <2>3. Cardinality(P) >= Setting.value
    BY <1>5, <1>6, <2>1, <2>2
  <2>4. Secured(b)' <=> Cardinality({c \in Tagged : Before(c, b)}') >= Setting.value
    BY DEF Secured
  <2> QED
    BY <1>3, <2>3, <2>4
<1>7. ASSUME NEW x \in Existing, x \notin Existing', Before(x, b) PROVE Secured(b)'
  <2>1. PICK p \in Pkgs : /\ Len(doomed[p]) \in DOMAIN doomed[p]
                          /\ x = doomed[p][Len(doomed[p])].name /\ Discard(x)
    BY <1>7, DestroyedIsDoomed
  <2>2. Secured(x)
    BY <2>1 DEF CountInv, SecuredNames
  <2>3. PICK T : T = {c \in Tagged : Before(c, x)}
    OBVIOUS
  <2>4. Cardinality(T) >= Setting.value
    BY <2>2, <2>3 DEF Secured
  <2>5. ASSUME NEW c \in T PROVE c \in P
    <3>1. c \in Tagged /\ Before(c, x) /\ c # x /\ c \in Names
      BY <1>1, <1>2, <2>3, BeforeIsStrict
    <3>2. Before(c, b)
      BY <1>1, <1>2, <1>7, <3>1, BeforeIsStrict
    <3>3. c \in Existing'
      BY <1>1, <1>2, <1>7, <2>1, <3>1, DiscardFacts
    <3> QED
      BY <1>3, <3>1, <3>2, <3>3, BeforeStays
  <2> QED
    BY <1>6, <2>4, <2>5
<1>8. ASSUME \A x \in Existing : Before(x, b) => x \in Existing', Secured(b) PROVE Secured(b)'
  <2>1. PICK T : T = {c \in Tagged : Before(c, b)}
    OBVIOUS
  <2>2. T \subseteq P
    BY <1>2, <1>3, <1>8, <2>1, BeforeStays
  <2>3. Cardinality(T) >= Setting.value
    BY <1>8, <2>1 DEF Secured
  <2> QED
    BY <1>6, <2>2, <2>3
<1>9. Secured(b) => Secured(b)'
  BY <1>7, <1>8
<1>10. ASSUME NEW c \in Names, Before(c, b) PROVE Before(c, b)' \/ Secured(b)'
  <2>1. c \in Existing
    BY <1>10 DEF Before
  <2> QED
    BY <1>7, <1>10, <2>1, BeforeStays
<1> QED
  BY <1>9, <1>10

\* By count, a process only selects BE that enough of the others come before.
LEMMA SelectedAreSecured ==
  ByCount /\ BEInv /\ CountInv => \A p \in Pkgs : SelectDoomed(p) =>
    \E d \in Seq(Dated) : doomed'[p] = d /\ \A i \in DOMAIN d : Secured(d[i].name)
<1> SUFFICES ASSUME ByCount, BEInv, CountInv, NEW p \in Pkgs, SelectDoomed(p)
             PROVE  \E d \in Seq(Dated) :
                      doomed'[p] = d /\ \A i \in DOMAIN d : Secured(d[i].name)
  OBVIOUS
<1>1. MachineTypes /\ PoolInv /\ ProcessTypes /\ ProcessInv
  BY DEF BEInv, BETypeInv
<1>2. PICK s \in Seq(Names) : s = seen[p]
  BY <1>1 DEF ProcessTypes
<1>3. PICK t \in Start .. now, d \in Seq(Dated) :
        /\ retention[p] = RetentionParse(Setting, t) /\ t \in Start .. MaxTime
        /\ doomed'[p] = d
        /\ Range(s) \subseteq Existing
        /\ Remainder(Tagged \cap Range(seen[p]), seen[p], retention[p], d)
  BY <1>2, SelectedFacts
<1>4. retention[p].type = "BY_COUNT" /\ retention[p].limit = Setting.value
  <2>1. t \in Int
    BY <1>3, TimeAssumption
  <2> QED
    BY <1>3, <2>1, ParsedRetention
<1> SUFFICES ASSUME NEW i \in DOMAIN d PROVE Secured(d[i].name)
  BY <1>3
<1>5. i \in 1 .. Len(d) /\ d[i] \in Dated
  OBVIOUS
<1>6. PICK b \in Names : b = d[i].name
  BY <1>5, NamesAreDated
<1>7. PICK A : A = Ahead(Tagged \cap Range(s), s, b)
  OBVIOUS
<1>8. Cardinality(A) >= Setting.value
  <2>1. Cardinality(Ahead(Tagged \cap Range(seen[p]), seen[p], d[i].name)) >= retention[p].limit
    BY <1>3, <1>4, <1>5, Zenon DEF Remainder
  <2> QED
    BY <1>2, <1>4, <1>6, <1>7, <2>1
<1>9. ASSUME NEW c \in A, ~Secured(b) PROVE c \in Tagged /\ Before(c, b)
  <2>1. c \in Tagged /\ c \in Existing /\ (c.at > b.at \/ (c.at = b.at /\ InOrder(s, c, b)))
    BY <1>3, <1>7 DEF Ahead
  <2>2. CASE c.at > b.at
    BY <2>1, <2>2 DEF Before
  <2>3. CASE c.at = b.at /\ InOrder(s, c, b)
    <3>1. PICK j, k \in DOMAIN s : j < k /\ s[j] = c /\ s[k] = b
      BY <2>3 DEF InOrder
    <3>2. Before(c, b) \/ Secured(b)
      BY <1>2, <2>3, <3>1 DEF CountInv, SecuredNames, Precedence
    <3> QED
      BY <1>9, <2>1, <3>2
  <2> QED
    BY <2>1, <2>2, <2>3
<1>10. CASE ~Secured(b)
  <2>1. PICK T : T = {c \in Tagged : Before(c, b)}
    OBVIOUS
  <2>2. A \subseteq T
    BY <1>9, <1>10, <2>1
  <2>3. IsFiniteSet(T)
    <3>1. PICK u \in Seq(Names) : u = bes
      BY <1>1 DEF MachineTypes
    <3>2. IsFiniteSet(Range(u)) /\ T \subseteq Range(u)
      BY <2>1, <3>1, ListsAreFinite DEF Before, Existing
    <3> QED
      BY <3>2, FS_Subset
  <2>4. Cardinality(A) <= Cardinality(T) /\ Cardinality(T) \in Int /\ Cardinality(A) \in Int
    BY <2>2, <2>3, FS_Subset, FS_CardinalityType
  <2>5. Setting.value \in Int
    BY SettingAssumption DEF Settings
  <2>6. \A m, n, v \in Int : m >= v /\ m <= n => n >= v
    OBVIOUS
  <2>7. Cardinality(T) >= Setting.value
    BY <1>8, <2>4, <2>5, <2>6
  <2> QED
    BY <1>10, <2>1, <2>7 DEF Secured
<1> QED
  BY <1>6, <1>10

LEMMA CountStep ==
  ByCount /\ BEInv /\ CountInv /\ [Next]_zintVars => CountInv'
<1> SUFFICES ASSUME ByCount, BEInv, CountInv, [Next]_zintVars PROVE CountInv'
  OBVIOUS
<1>1. MachineTypes /\ PoolInv /\ ProcessTypes /\ ProcessInv
  BY DEF BEInv, BETypeInv
<1>2. /\ \A b \in SecuredNames : b \in SecuredNames'
      /\ \A b, c \in Names :
           <<c, b>> \in Precedence => <<c, b>> \in Precedence' \/ b \in SecuredNames'
  BY SecuredStays DEF SecuredNames, Precedence
<1> HIDE DEF Precedence, SecuredNames
<1> DEFINE ToDestroy(q) == \A i \in DOMAIN doomed'[q] : doomed'[q][i].name \in SecuredNames'
           Seen(q) == \A i, j \in DOMAIN seen'[q] :
                        i < j /\ seen'[q][i].at = seen'[q][j].at
                          => \/ <<seen'[q][i], seen'[q][j]>> \in Precedence'
                             \/ seen'[q][j] \in SecuredNames'
<1>3. ASSUME NEW q \in Pkgs, doomed'[q] = doomed[q] PROVE ToDestroy(q)
  BY <1>2, <1>3 DEF CountInv
<1>4. ASSUME NEW q \in Pkgs, seen'[q] = seen[q] PROVE Seen(q)
  <2>1. \A i \in DOMAIN seen[q] : seen[q][i] \in Names
    BY <1>1 DEF ProcessTypes
  <2> QED
    BY <1>2, <1>4, <2>1 DEF CountInv
<1>5. ASSUME NEW q \in Pkgs, doomed'[q] = <<>> PROVE ToDestroy(q)
  BY <1>5
<1>6. ASSUME NEW q \in Pkgs, seen'[q] = <<>> PROVE Seen(q)
  BY <1>6
<1>7. CASE UNCHANGED zintVars \/ Tick
  BY <1>3, <1>4, <1>7 DEF zintVars, Tick, processVars, CountInv
<1>8. CASE Reboot
  BY <1>5, <1>6, <1>8 DEF Reboot, CountInv
<1>9. ASSUME NEW p \in Pkgs, InitPlugin(p) \/ Step(p) \/ Crash(p)
      PROVE  ToDestroy(p) /\ Seen(p)
  <2>1. CASE ListNames(p)
    <3>1. doomed'[p] = doomed[p] /\ seen'[p] = bes /\ bes' = bes
      BY <1>1, <2>1 DEF ListNames, ProcessTypes, poolVars
    <3>2. PICK s \in Seq(Names) : s = bes
      BY <1>1 DEF MachineTypes
    <3>3. ASSUME NEW i \in DOMAIN s, NEW j \in DOMAIN s, i < j, s[i].at = s[j].at
          PROVE  <<s[i], s[j]>> \in Precedence
      <4>1. PICK c \in Names : c = s[i]
        OBVIOUS
      <4>2. PICK b \in Names : b = s[j]
        OBVIOUS
      <4>3. c \in Existing /\ InOrder(bes, c, b)
        BY <3>2, <3>3, <4>1, <4>2 DEF Existing, Range, InOrder
      <4>4. Before(c, b)
        BY <3>3, <4>1, <4>2, <4>3 DEF Before
      <4> QED
        BY <4>1, <4>2, <4>4 DEF Precedence
    <3>4. \A i \in DOMAIN s : s[i] \in Names
      OBVIOUS
    <3>5. seen'[p] = s
      BY <3>1, <3>2
    <3>6. Seen(p)
      BY <1>2, <3>3, <3>4, <3>5
    <3> QED
      BY <1>3, <3>1, <3>6
  <2>2. CASE SelectDoomed(p)
    <3>1. PICK d \in Seq(Dated) : doomed'[p] = d /\ \A i \in DOMAIN d : Secured(d[i].name)
      BY <2>2, SelectedAreSecured
    <3>2. \A i \in DOMAIN d : d[i].name \in SecuredNames
      <4>1. \A i \in DOMAIN d : d[i] \in Dated
        OBVIOUS
      <4> QED
        BY <3>1, <4>1, NamesAreDated DEF SecuredNames
    <3>3. seen'[p] = <<>>
      BY <1>1, <2>2 DEF SelectDoomed, ListSucceeds, ProcessTypes
    <3> QED
      BY <1>2, <1>6, <3>1, <3>2, <3>3
  <2>3. CASE DestroyOldest(p)
    <3>1. doomed'[p] = Front(doomed[p]) /\ seen'[p] = seen[p]
      BY <1>1, <2>3 DEF DestroyOldest, ProcessTypes
    <3>2. PICK d \in Seq(Dated) : d = doomed[p] /\ d # <<>>
      BY <1>1, <2>3 DEF DestroyOldest, ProcessTypes
    <3>3. \A i \in DOMAIN Front(d) : i \in DOMAIN d /\ Front(d)[i] = d[i]
      BY <3>2 DEF Front
    <3>4. ToDestroy(p)
      BY <1>2, <3>1, <3>2, <3>3 DEF CountInv
    <3> QED
      BY <1>4, <3>1, <3>4
  <2>4. CASE /\ InitPlugin(p) /\ UNCHANGED <<seen, doomed>>
    BY <1>3, <1>4, <2>4
  <2>5. CASE /\ doomed'[p] = <<>> \/ doomed'[p] = doomed[p]
             /\ seen'[p] = <<>> \/ seen'[p] = seen[p]
    BY <1>3, <1>4, <1>5, <1>6, <2>5
  <2> QED
    BY <1>1, <1>9, <2>1, <2>2, <2>3, <2>4, <2>5, OwnSteps
<1>10. ASSUME NEW p \in Pkgs, InitPlugin(p) \/ Step(p) \/ Crash(p), NEW q \in Pkgs
       PROVE  ToDestroy(q) /\ Seen(q)
  <2>1. CASE p = q
    BY <1>9, <1>10, <2>1
  <2>2. CASE p # q
    <3>1. doomed'[q] = doomed[q] /\ seen'[q] = seen[q]
      BY <1>1, <1>10, <2>2, OthersKeep
    <3> QED
      BY <1>3, <1>4, <3>1
  <2> QED
    BY <2>1, <2>2
<1> QED
  BY <1>7, <1>8, <1>10 DEF Next, CountInv

\* RETENTION by count, purges of several processes interleaved with each other
\* and with new BE, several in the same second or not: when one is destroyed, at
\* least N of the plugin that are as recent remain.
THEOREM LatestAreKept == ByCount => (Spec => KeepsTheLatest)
<1> SUFFICES ASSUME ByCount PROVE Spec => KeepsTheLatest
  OBVIOUS
<1>1. Init => CountInv
  BY DEF Init, CountInv
<1>2. BEInv /\ CountInv /\ [Next]_zintVars => CountInv'
  BY CountStep
<1> DEFINE Kept == \A b \in Names : Destroyed(b) =>
                     Cardinality({c \in versioned' \cap hooked' : c.at >= b.at}) >= Setting.value
<1>3. BEInv /\ BEInv' /\ CountInv /\ [Next]_zintVars => [Kept]_zintVars
  <2> SUFFICES ASSUME BEInv, BEInv', CountInv, [Next]_zintVars,
                      NEW b \in Names, Destroyed(b)
               PROVE  Cardinality({c \in versioned' \cap hooked' : c.at >= b.at}) >= Setting.value
    OBVIOUS
  <2>1. MachineTypes /\ PoolInv
    BY DEF BEInv, BETypeInv
  <2>2. b \in Existing /\ b \notin Existing'
    BY DEF Destroyed, Existing
  <2>3. PICK p \in Pkgs : /\ Len(doomed[p]) \in DOMAIN doomed[p]
                          /\ b = doomed[p][Len(doomed[p])].name /\ Discard(b)
    BY <2>2, DestroyedIsDoomed
  <2>4. PICK T : T = {c \in Tagged : Before(c, b)}
    OBVIOUS
  <2>5. Cardinality(T) >= Setting.value
    BY <2>3, <2>4 DEF CountInv, SecuredNames, Secured
  <2>6. PICK P : P = {c \in versioned' \cap hooked' : c.at >= b.at}
    OBVIOUS
  <2>7. ASSUME NEW c \in T PROVE c \in P
    <3>1. c \in Tagged /\ Before(c, b) /\ c # b
      BY <2>1, <2>4, BeforeIsStrict
    <3>2. c \in Tagged'
      BY <2>1, <2>2, <2>3, <3>1, DiscardFacts
    <3>3. c.at \in Int /\ b.at \in Int
      <4>1. Existing \subseteq Names
        BY <2>1 DEF Existing, Range, MachineTypes
      <4> QED
        BY <3>1, <4>1, NamesAreDated DEF Before
    <3>4. c.at >= b.at
      BY <3>1, <3>3 DEF Before
    <3> QED
      BY <2>6, <3>2, <3>4 DEF Tagged
  <2>8. IsFiniteSet(P)
    <3>1. MachineTypes' /\ PoolInv'
      BY DEF BEInv, BETypeInv
    <3>2. PICK u \in Seq(Names) : u = bes'
      BY <3>1 DEF MachineTypes
    <3>3. P \subseteq Range(u)
      BY <2>6, <3>1, <3>2 DEF PoolInv, Existing
    <3> QED
      BY <3>3, ListsAreFinite, FS_Subset
  <2>9. Cardinality(T) <= Cardinality(P) /\ Cardinality(P) \in Int /\ Cardinality(T) \in Int
    BY <2>7, <2>8, FS_Subset, FS_CardinalityType
  <2>10. Setting.value \in Int
    BY SettingAssumption DEF Settings
  <2>11. \A m, n, v \in Int : m >= v /\ m <= n => n >= v
    OBVIOUS
  <2> QED
    BY <2>5, <2>6, <2>9, <2>10, <2>11
<1> QED
  BY <1>1, <1>2, <1>3, BEInvariant, PTL DEF Spec, KeepsTheLatest

-----------------------------------------------------------------------------
(* A purge destroys BE of the plugin only, and by age those it should *)

\* What is selected, by age, is older than the period: the limit has not wrapped
\* around.
LEMMA LimitIsBelow ==
  NoWrap => \A t \in Start .. MaxTime :
    RetentionParse(Setting, t) # Disabled /\ RetentionParse(Setting, t).type = "BY_CREATION"
      => /\ ByAge
         /\ Setting.value * Setting.unit \in Nat \ {0}
         /\ RetentionParse(Setting, t).limit = t - Setting.value * Setting.unit
<1> SUFFICES ASSUME NoWrap, NEW t \in Start .. MaxTime,
                    RetentionParse(Setting, t).type = "BY_CREATION"
             PROVE  /\ ByAge
                    /\ Setting.value * Setting.unit \in Nat \ {0}
                    /\ RetentionParse(Setting, t).limit = t - Setting.value * Setting.unit
  OBVIOUS
<1>1. Setting.value \in Int /\ Setting.unit \in Nat
      /\ Setting.form \in {"absent", "number", "quantity", "out_of_range", "other_type"}
  BY SettingAssumption DEF Settings
<1>2. ByAge
  <2>1. CASE Setting.form = "number" /\ Setting.value > 0
    BY <1>1, <2>1 DEF RetentionParse
  <2>2. CASE /\ ~(Setting.form = "number" /\ Setting.value > 0)
             /\ ~ByAge
    BY <1>1, <2>2 DEF RetentionParse, Disabled, Malformed, ByAge
  <2> QED
    BY <2>1, <2>2 DEF ByAge
<1>3. RetentionParse(Setting, t) =
        [type |-> "BY_CREATION", limit |-> Limit(t, Setting.value * Setting.unit)]
  BY <1>1, <1>2 DEF RetentionParse, ByAge
<1>4. PICK v \in Nat \ {0} : v = Setting.value
  BY <1>1, <1>2 DEF ByAge
<1>5. PICK u \in Nat \ {0} : u = Setting.unit
  BY <1>1, <1>2 DEF ByAge
<1>6. PICK d \in Nat \ {0} : d = Setting.value * Setting.unit
  <2>1. v * u \in Nat \ {0}
    OBVIOUS
  <2> QED
    BY <1>4, <1>5, <2>1
<1>7. d <= Start
  BY <1>2, <1>6 DEF NoWrap, ByAge
<1>8. Limit(t, d) = t - d
  <2>1. t - d \in 0 .. Word - 1
    BY <1>7, TimeAssumption, WordAssumption
  <2>2. Word \in Nat \ {0}
    BY WordAssumption
  <2> QED
    BY <2>1, <2>2 DEF Limit
<1> QED
  BY <1>2, <1>3, <1>6, <1>8

LEMMA OwnStep ==
  NoWrap /\ (ByCount => OneASecond) /\ BEInv /\ OwnInv /\ [Next]_zintVars => OwnInv'
<1> SUFFICES ASSUME NoWrap, ByCount => OneASecond, BEInv, OwnInv, [Next]_zintVars PROVE OwnInv'
  OBVIOUS
<1>1. MachineTypes /\ PoolInv /\ ProcessTypes /\ now \in Int
  BY TimeAssumption DEF BEInv, BETypeInv, MachineTypes
<1>2. MachineTypes' /\ now' \in Int
  BY MachineTypesStep, TimeAssumption DEF MachineTypes
<1>3. Tagged \subseteq Existing /\ Existing \subseteq Names
  BY <1>1 DEF PoolInv, Tagged, Existing, Range, MachineTypes
<1>4. \A b \in Names : b.at < now => b.at < now'
  <2>1. now' = now \/ now' = now + 1
    <3>1. \A p \in Pkgs : DestroyOldest(p) \/ CreateBE(p) => now' = now
      BY DEF DestroyOldest, CreateBE
    <3> QED
      BY <3>1, OnlyThese DEF Tick
  <2> QED
    BY <1>1, <2>1, NamesAreDated
<1>5. OwnNames \subseteq OwnNames'
  <2> SUFFICES ASSUME NEW b \in Names, b.at < now, b \in Tagged \/ b \notin Existing
               PROVE  b.at < now' /\ (b \in Tagged' \/ b \notin Existing')
    BY DEF OwnNames
  <2>1. b \notin Existing => b \notin Existing'
    <3>1. CASE \E p \in Pkgs : CreateBE(p)
      <4>1. PICK c \in Names : c.at = now /\ Existing' = Existing \cup {c}
        BY <1>1, <3>1, CreateFacts
      <4>2. b # c
        BY <1>1, <4>1
      <4> QED
        BY <4>1, <4>2
    <3>2. CASE \E p \in Pkgs : DestroyOldest(p)
      BY <1>1, <3>2, DestroyFacts, DiscardFacts
    <3>3. CASE bes' = bes
      BY <3>3 DEF Existing
    <3> QED
      BY <3>1, <3>2, <3>3, OnlyThese
  <2> QED
    BY <1>4, <2>1, BeforeStays
<1>6. ASSUME NEW p \in Pkgs, SelectDoomed(p)
      PROVE  \A i \in DOMAIN doomed'[p] : doomed'[p][i].name \in OwnNames'
  <2>1. PICK t \in Start .. now, d \in Seq(Dated) :
          /\ retention[p] = RetentionParse(Setting, t) /\ retention[p] \in Retentions
          /\ t \in Start .. MaxTime
          /\ doomed'[p] = d
          /\ Range(seen[p]) \subseteq Existing
          /\ Remainder(Tagged \cap Range(seen[p]), seen[p], retention[p], d)
    BY <1>6, SelectedFacts
  <2> SUFFICES ASSUME NEW i \in DOMAIN d PROVE d[i].name \in OwnNames
    BY <1>5, <2>1
  <2>2. i \in 1 .. Len(d) /\ d[i] \in Dated
    OBVIOUS
  <2>3. PICK b \in Names : b = d[i].name
    BY <2>2, NamesAreDated
  <2>4. b \in Tagged /\ b \in Existing /\ b.at \in Int
    BY <1>3, <2>1, <2>2, <2>3, NamesAreDated DEF Remainder
  <2>5. CASE retention[p] = Disabled
    BY <2>1, <2>2, <2>5 DEF Remainder
  <2>6. CASE retention[p] # Disabled /\ retention[p].type = "BY_COUNT"
    <3>1. ByCount /\ retention[p].limit = Setting.value
      <4>1. Setting.value \in Int /\ Setting.unit \in Nat
            /\ Setting.form \in {"absent", "number", "quantity", "out_of_range", "other_type"}
        BY SettingAssumption DEF Settings
      <4>2. ~ByCount => RetentionParse(Setting, t).type # "BY_COUNT"
        BY <4>1 DEF RetentionParse, ByCount, Disabled, Malformed
      <4>3. t \in Int
        BY <2>1, TimeAssumption
      <4> QED
        BY <2>1, <2>6, <4>2, <4>3, ParsedRetention
    <3>2. PICK A : A = Ahead(Tagged \cap Range(seen[p]), seen[p], b)
      OBVIOUS
    <3>3. Cardinality(A) >= Setting.value
      <4>1. Cardinality(Ahead(Tagged \cap Range(seen[p]), seen[p], d[i].name))
              >= retention[p].limit
        BY <2>1, <2>2, <2>6, Zenon DEF Remainder
      <4> QED
        BY <2>3, <3>1, <3>2, <4>1
    <3>4. A # {}
      <4>1. Setting.value \in Int /\ Setting.value > 0
        BY <3>1, SettingAssumption DEF ByCount, Settings
      <4>2. A = {} => Cardinality(A) = 0
        BY FS_EmptySet, Zenon
      <4> QED
        BY <3>3, <4>1, <4>2
    <3>5. PICK c \in A : TRUE
      BY <3>4
    <3>6. c \in Existing /\ c \in Names /\ c.at \in Int
      BY <1>3, <3>2, <3>5, NamesAreDated DEF Ahead
    <3>7. c # b
      <4>1. ~InOrder(seen[p], b, b)
        <5>1. seen[p] \in Seq(Names) /\ IsInjective(seen[p])
          BY <1>1 DEF ProcessTypes, BEInv, ProcessInv
        <5> QED
          BY <5>1, OrderIsStrict
      <4>2. ~(b.at > b.at)
        BY <2>4
      <4> QED
        BY <3>2, <3>5, <4>1, <4>2 DEF Ahead
    <3>8. c.at # b.at
      BY <2>4, <3>1, <3>6, <3>7 DEF OneASecond
    <3>9. c.at > b.at
      BY <3>2, <3>5, <3>8 DEF Ahead
    <3>10. c.at <= now
      BY <1>1, <3>6 DEF PoolInv
    <3>11. b.at < now
      BY <1>1, <2>4, <3>6, <3>9, <3>10
    <3> QED
      BY <2>3, <2>4, <3>11 DEF OwnNames
  <2>7. CASE retention[p] # Disabled /\ retention[p].type = "BY_CREATION"
    <3>1. /\ Setting.value * Setting.unit \in Nat \ {0}
          /\ retention[p].limit = t - Setting.value * Setting.unit
      BY <2>1, <2>7, LimitIsBelow
    <3>2. b.at < retention[p].limit
      BY <2>1, <2>2, <2>3, <2>7 DEF Remainder
    <3>3. t \in Int /\ t <= now
      BY <1>1, <2>1, TimeAssumption
    <3>4. b.at < now
      BY <1>1, <2>4, <3>1, <3>2, <3>3
    <3> QED
      BY <2>3, <2>4, <3>4 DEF OwnNames
  <2> QED
    BY <2>1, <2>5, <2>6, <2>7 DEF Retentions
<1>7. \A p \in Pkgs : \A i \in DOMAIN doomed'[p] : doomed'[p][i].name \in OwnNames'
  <2> HIDE DEF OwnNames
  <2>1. \A p \in Pkgs : \A i \in DOMAIN doomed[p] : doomed[p][i].name \in OwnNames
    BY DEF OwnInv
  <2> QED
    BY <1>5, <1>6, <2>1, DoomedStep
<1> QED
  BY <1>7 DEF OwnInv

\* Whatever the processes, the crashes and the failures, a purge never destroys
\* the system that was installed, nor a BE whose making was cut short before both
\* properties were set, when the clock has reached the period; by count, as long
\* as the second tells the BE apart.
THEOREM OnlyItsOwn ==
  NoWrap => (Spec /\ [](ByCount => OneASecond) => DestroysOnlyItsOwn)
<1> SUFFICES ASSUME NoWrap PROVE Spec /\ [](ByCount => OneASecond) => DestroysOnlyItsOwn
  OBVIOUS
<1>1. Init => OwnInv
  BY DEF Init, OwnInv
<1>2. (ByCount => OneASecond) /\ BEInv /\ OwnInv /\ [Next]_zintVars => OwnInv'
  BY OwnStep
<1>3. BEInv /\ OwnInv /\ [Next]_zintVars
        => [\A b \in Names : Destroyed(b) => b \in Tagged]_zintVars
  <2> SUFFICES ASSUME BEInv, OwnInv, [Next]_zintVars, NEW b \in Names, Destroyed(b)
               PROVE  b \in Tagged
    OBVIOUS
  <2>1. b \in Existing /\ b \notin Existing'
    BY DEF Destroyed, Existing
  <2>2. PICK p \in Pkgs : /\ Len(doomed[p]) \in DOMAIN doomed[p]
                          /\ b = doomed[p][Len(doomed[p])].name
    BY <2>1, DestroyedIsDoomed
  <2> QED
    BY <2>1, <2>2 DEF OwnInv, OwnNames
<1> QED
  BY <1>1, <1>2, <1>3, BEInvariant, PTL DEF Spec, DestroysOnlyItsOwn

LEMMA AgeStep ==
  NoWrap /\ ByAge /\ BEInv /\ AgeInv /\ [Next]_zintVars => AgeInv'
<1> SUFFICES ASSUME NoWrap, ByAge, BEInv, AgeInv, [Next]_zintVars PROVE AgeInv'
  OBVIOUS
<1>1. MachineTypes /\ PoolInv /\ ProcessTypes /\ now \in Int
  BY TimeAssumption DEF BEInv, BETypeInv, MachineTypes
<1>2. PICK period \in Int : period = Setting.value * Setting.unit
  <2>1. \A v \in Int, u \in Nat : v * u \in Int
    OBVIOUS
  <2> QED
    BY <2>1, SettingAssumption DEF Settings
<1>3. OldNames = {b \in Names : b.at < now - period}
      /\ OldNames' = {b \in Names : b.at < now' - period}
  BY <1>2 DEF OldNames
<1>4. OldNames \subseteq OldNames'
  <2>1. now' = now \/ now' = now + 1
    <3>1. \A p \in Pkgs : DestroyOldest(p) \/ CreateBE(p) => now' = now
      BY DEF DestroyOldest, CreateBE
    <3> QED
      BY <3>1, OnlyThese DEF Tick
  <2>2. \A b \in Names : b.at \in Int
    BY NamesAreDated
  <2> QED
    BY <1>1, <1>3, <2>1, <2>2
<1>5. ASSUME NEW p \in Pkgs, SelectDoomed(p)
      PROVE  \A i \in DOMAIN doomed'[p] : doomed'[p][i].name \in OldNames'
  <2>1. PICK t \in Start .. now, d \in Seq(Dated) :
          /\ retention[p] = RetentionParse(Setting, t) /\ retention[p] \in Retentions
          /\ t \in Start .. MaxTime
          /\ doomed'[p] = d
          /\ Range(seen[p]) \subseteq Existing
          /\ Remainder(Tagged \cap Range(seen[p]), seen[p], retention[p], d)
    BY <1>5, SelectedFacts
  <2>2. retention[p] # Disabled /\ retention[p].type = "BY_CREATION"
    <3>1. RetentionParse(Setting, t).type = "BY_CREATION"
      BY SettingAssumption DEF RetentionParse, ByAge, Settings
    <3> QED
      BY <2>1, <3>1 DEF Disabled
  <2>3. retention[p].limit = t - period
    BY <1>2, <2>1, <2>2, LimitIsBelow
  <2> SUFFICES ASSUME NEW i \in DOMAIN d PROVE d[i].name \in OldNames
    BY <1>4, <2>1
  <2>4. i \in 1 .. Len(d) /\ d[i] \in Dated
    OBVIOUS
  <2>5. PICK b \in Names : b = d[i].name /\ b.at \in Int
    BY <2>4, NamesAreDated
  <2>6. b.at < t - period
    BY <2>1, <2>2, <2>3, <2>4, <2>5 DEF Remainder
  <2>7. t \in Int /\ t <= now
    BY <1>1, <2>1, TimeAssumption
  <2>8. b.at < now - period
    BY <1>1, <1>2, <2>5, <2>6, <2>7
  <2> QED
    BY <1>3, <2>5, <2>8
<1>6. \A p \in Pkgs : \A i \in DOMAIN doomed'[p] : doomed'[p][i].name \in OldNames'
  <2>1. \A p \in Pkgs : \A i \in DOMAIN doomed[p] : doomed[p][i].name \in OldNames
    BY DEF AgeInv
  <2> QED
    BY <1>4, <1>5, <2>1, DoomedStep
<1> QED
  BY <1>6 DEF AgeInv

\* RETENTION by age: a BE is only destroyed once it is older than the period, when
\* the clock has reached the period.
THEOREM OnlyTheOld == NoWrap /\ ByAge => (Spec => DestroysOnlyTheOld)
<1> SUFFICES ASSUME NoWrap, ByAge PROVE Spec => DestroysOnlyTheOld
  OBVIOUS
<1>1. Init => AgeInv
  BY DEF Init, AgeInv
<1>2. BEInv /\ AgeInv /\ [Next]_zintVars => AgeInv'
  BY AgeStep
<1>3. BEInv /\ AgeInv /\ [Next]_zintVars
        => [\A b \in Names : Destroyed(b) =>
              b.at < now - Setting.value * Setting.unit]_zintVars
  <2> SUFFICES ASSUME BEInv, AgeInv, [Next]_zintVars, NEW b \in Names, Destroyed(b)
               PROVE  b.at < now - Setting.value * Setting.unit
    OBVIOUS
  <2>1. b \in Existing /\ b \notin Existing'
    BY DEF Destroyed, Existing
  <2>2. PICK p \in Pkgs : /\ Len(doomed[p]) \in DOMAIN doomed[p]
                          /\ b = doomed[p][Len(doomed[p])].name
    BY <2>1, DestroyedIsDoomed
  <2> QED
    BY <2>2 DEF AgeInv, OldNames
<1> QED
  BY <1>1, <1>2, <1>3, BEInvariant, PTL DEF Spec, DestroysOnlyTheOld

-----------------------------------------------------------------------------
(* A rollback undoes the last command *)

\* Most places are ones where a process remembers no BE.
LEMMA NothingToRecall ==
  BEInv' => \A p \in Pkgs :
    /\ pc'[p] \notin {"inspect", "reinspect", "destroy", "version", "hook", "activate"}
    /\ pc'[p] = "execute" => ~backed'[p]
    => RecallInv(p)'
<1> SUFFICES ASSUME BEInv', NEW p \in Pkgs,
                    pc'[p] \notin {"inspect", "reinspect", "destroy", "version", "hook",
                                   "activate"},
                    pc'[p] = "execute" => ~backed'[p]
             PROVE  RecallInv(p)'
  OBVIOUS
<1>1. doomed'[p] = <<>>
  BY DEF BEInv, ProcessInv
<1>2. EndInv(p)'
  BY <1>1 DEF EndInv
<1> QED
  BY <1>2 DEF RecallInv, SeenInv, MakingInv, BackedInv, ActivateInv

\* The actions that leave the BE and what runs as they are, and those of them
\* after which a process remembers none
LEMMA QuietStep ==
  BEInv => \A p \in Pkgs :
    \/ InitPlugin(p) \/ Crash(p) \/ Methodless(p) \/ ListFails(p) \/ PurgeEnds(p)
    \/ Begin(p) \/ GiveUp(p) \/ BeginRollback(p) \/ SkipHook(p) \/ CreateFails(p)
    \/ TagFails(p) \/ DoNotRollback(p) \/ Activate(p) \/ ActivateFails(p)
    => /\ UNCHANGED <<poolVars, booted>>
       /\ undo' \in {undo, -1}
       /\ pc'[p] \notin {"inspect", "reinspect", "destroy", "version", "hook", "activate"}
       /\ pc'[p] = "execute" => ~backed'[p]
<1> SUFFICES ASSUME BEInv, NEW p \in Pkgs,
                    \/ InitPlugin(p) \/ Crash(p) \/ Methodless(p) \/ ListFails(p) \/ PurgeEnds(p)
                    \/ Begin(p) \/ GiveUp(p) \/ BeginRollback(p) \/ SkipHook(p) \/ CreateFails(p)
                    \/ TagFails(p) \/ DoNotRollback(p) \/ Activate(p) \/ ActivateFails(p)
             PROVE  /\ UNCHANGED <<poolVars, booted>>
                    /\ undo' \in {undo, -1}
                    /\ pc'[p] \notin {"inspect", "reinspect", "destroy", "version", "hook",
                                      "activate"}
                    /\ pc'[p] = "execute" => ~backed'[p]
  OBVIOUS
<1> DEFINE Quiet == /\ UNCHANGED <<poolVars, booted>>
                    /\ undo' \in {undo, -1}
                    /\ pc'[p] \notin {"inspect", "reinspect", "destroy", "version", "hook",
                                      "activate"}
                    /\ pc'[p] = "execute" => ~backed'[p]
<1>1. ProcessTypes
  BY DEF BEInv, BETypeInv
<1>2. \A label : Goto(p, label) => pc'[p] = label
  BY <1>1 DEF Goto, ProcessTypes
<1>3. ASSUME NEW when, HookReturns(p, when, FALSE)
      PROVE  /\ pc'[p] \in {"execute", "idle"}
             /\ pc'[p] = "execute" => ~backed'[p]
  BY <1>1, <1>2, <1>3 DEF HookReturns, ProcessTypes
<1>4. CASE SkipHook(p) \/ CreateFails(p) \/ TagFails(p)
  BY <1>2, <1>3, <1>4 DEF SkipHook, CreateFails, TagFails, bootVars
<1>5. CASE \/ Methodless(p) \/ GiveUp(p) \/ DoNotRollback(p) \/ Activate(p)
           \/ ActivateFails(p) \/ Crash(p)
  BY <1>2, <1>5
     DEF Methodless, GiveUp, DoNotRollback, Activate, ActivateFails, Crash, Exit, bootVars
<1>6. CASE \/ InitPlugin(p) \/ ListFails(p) \/ PurgeEnds(p) \/ Begin(p) \/ BeginRollback(p)
  BY <1>2, <1>6 DEF InitPlugin, ListFails, PurgeEnds, Begin, BeginRollback, bootVars
<1> QED
  BY <1>4, <1>5, <1>6

\* The BE that undoes the last command stays it, as long as nothing is made of the
\* BE.
LEMMA UndoStays ==
  UndoInv /\ UNCHANGED <<poolVars, booted>> /\ undo' \in {undo, -1} => UndoInv'
<1> SUFFICES ASSUME UndoInv, UNCHANGED <<poolVars, booted>>, undo' = undo, undo # -1
             PROVE  UndoInv'
  BY DEF UndoInv
<1>1. Tagged' = Tagged
  BY DEF poolVars, Tagged
<1>2. Tagged # {} => \E b \in Names : Restores(b, undo)
  BY DEF UndoInv
<1> QED
  BY <1>1, <1>2 DEF UndoInv, Restores, poolVars

\* What the only process has seen is all there is.
LEMMA ListNamesRecalls ==
  BEInv /\ BEInv' => \A p \in Pkgs : ListNames(p) => RecallInv(p)'
<1> SUFFICES ASSUME BEInv, BEInv', NEW p \in Pkgs, ListNames(p) PROVE RecallInv(p)'
  OBVIOUS
<1>1. pc'[p] \in {"inspect", "reinspect"} /\ seen'[p] = bes /\ bes' = bes
  BY DEF ListNames, Goto, poolVars, BEInv, BETypeInv, ProcessTypes
<1>2. doomed'[p] = <<>>
  BY <1>1 DEF BEInv, ProcessInv
<1> QED
  BY <1>1, <1>2 DEF RecallInv, SeenInv, EndInv, MakingInv, BackedInv, ActivateInv

\* What it selects is the end of what the plugin has.
LEMMA SelectDoomedRecalls ==
  BEInv /\ RollbackInv => \A p \in Pkgs : SelectDoomed(p) => RecallInv(p)'
<1> SUFFICES ASSUME BEInv, RollbackInv, NEW p \in Pkgs, SelectDoomed(p) PROVE RecallInv(p)'
  OBVIOUS
<1>1. pc'[p] = "destroy" /\ pc[p] = "inspect" /\ Tagged' = Tagged
  BY DEF SelectDoomed, Goto, poolVars, Tagged, BEInv, BETypeInv, ProcessTypes
<1>2. PICK t \in Start .. now, d \in Seq(Dated) :
        /\ doomed'[p] = d
        /\ Remainder(Tagged \cap Range(seen[p]), seen[p], retention[p], d)
  BY SelectedFacts
<1>3. Tagged \cap Range(seen[p]) = Tagged
  <2>1. seen[p] = bes
    BY <1>1 DEF RollbackInv, RecallInv, SeenInv
  <2>2. Tagged \subseteq Existing
    BY DEF BEInv, PoolInv, Tagged
  <2> QED
    BY <2>1, <2>2 DEF Existing
<1>4. DOMAIN d = 1 .. Len(d)
  OBVIOUS
<1>5. EndInv(p)'
  BY <1>1, <1>2, <1>3, <1>4 DEF EndInv, Remainder
<1> QED
  BY <1>1, <1>5 DEF RecallInv, SeenInv, MakingInv, BackedInv, ActivateInv

\* The latest goes last: once it is gone, none is left.
LEMMA DestroyRecalls ==
  OneASecond /\ BEInv /\ RollbackInv => \A p \in Pkgs :
    DestroyOldest(p) => UndoInv' /\ RecallInv(p)'
<1> SUFFICES ASSUME OneASecond, BEInv, RollbackInv, NEW p \in Pkgs, DestroyOldest(p)
             PROVE  UndoInv' /\ RecallInv(p)'
  OBVIOUS
<1>1. MachineTypes /\ PoolInv /\ ProcessTypes
  BY DEF BEInv, BETypeInv
<1>2. PICK d \in Seq(Dated) : d = doomed[p] /\ d # <<>>
  BY <1>1 DEF DestroyOldest, ProcessTypes
<1>3. PICK l \in Nat \ {0} : l = Len(d) /\ DOMAIN d = 1 .. l
  BY <1>2
<1>4. PICK b \in Existing : b = d[l].name /\ b # booted /\ b # bootfs /\ Discard(b)
  BY <1>2, <1>3, DestroyFacts DEF Last
<1>5. Tagged' = Tagged \ {b}
  BY <1>1, <1>4, DiscardFacts
<1>6. Tagged \subseteq Existing /\ \A c \in Existing : c.at \in Int
  BY <1>1, NamesAreDated DEF PoolInv, Tagged, Existing, Range, MachineTypes
<1>7. PICK e \in Seq(Dated) : e = Front(d) /\ DOMAIN e = 1 .. l - 1
                              /\ \A i \in 1 .. l - 1 : e[i] = d[i]
  <2>1. l - 1 <= Len(d) /\ l - 1 \in Nat
    BY <1>3
  <2>2. SubSeq(d, 1, l - 1) \in Seq(Dated) /\ DOMAIN SubSeq(d, 1, l - 1) = 1 .. l - 1
        /\ \A i \in 1 .. l - 1 : SubSeq(d, 1, l - 1)[i] = d[i]
    BY <1>3, <2>1
  <2> QED
    BY <1>3, <2>2 DEF Front
<1>8. doomed'[p] = e
  BY <1>1, <1>2, <1>7 DEF DestroyOldest, ProcessTypes
<1>9. /\ \A i \in 1 .. l : d[i].name \in Tagged
      /\ \A i, j \in 1 .. l : i < j => d[i].name # d[j].name /\ d[i].name.at >= d[j].name.at
      /\ \A c \in Tagged : \/ \E i \in 1 .. l : d[i].name = c
                          \/ \A i \in 1 .. l : c.at >= d[i].name.at
  <2>1. EndInv(p)
    BY DEF RollbackInv, RecallInv
  <2> QED
    BY <1>2, <1>3, <2>1 DEF EndInv
<1>10. \A i \in 1 .. l - 1 : i \in 1 .. l /\ i < l
  OBVIOUS
<1>11. l \in 1 .. l /\ \A i \in 1 .. l : i = l \/ i \in 1 .. l - 1
  OBVIOUS
<1>12. RecallInv(p)'
  <2>1. \A i \in 1 .. l - 1 : d[i].name \in Tagged'
    BY <1>4, <1>5, <1>9, <1>10, <1>11
  <2>2. \A c \in Tagged' : \/ \E i \in 1 .. l - 1 : d[i].name = c
                          \/ \A i \in 1 .. l - 1 : c.at >= d[i].name.at
    BY <1>4, <1>5, <1>9, <1>10, <1>11
  <2>3. \A i, j \in 1 .. l - 1 : i < j =>
          d[i].name # d[j].name /\ d[i].name.at >= d[j].name.at
    BY <1>9, <1>10
  <2>4. DOMAIN doomed'[p] = 1 .. l - 1
        /\ \A i \in 1 .. l - 1 : doomed'[p][i].name = d[i].name
    BY <1>7, <1>8
  <2>5. EndInv(p)'
    BY <2>1, <2>2, <2>3, <2>4 DEF EndInv
  <2>6. pc'[p] = "destroy"
    BY DEF DestroyOldest
  <2> QED
    BY <2>5, <2>6 DEF RecallInv, SeenInv, MakingInv, BackedInv, ActivateInv
<1>13. UndoInv'
  <2>1. UNCHANGED <<booted, undo>> /\ content' = [content EXCEPT ![b] = 0]
    BY <1>4 DEF DestroyOldest, bootVars, Discard
  <2> SUFFICES ASSUME undo # -1, Tagged' # {} PROVE \E w \in Names : Restores(w, undo)'
    BY <2>1 DEF RollbackInv, UndoInv
  <2>2. PICK w \in Names : Restores(w, undo)
    BY <1>5 DEF RollbackInv, UndoInv
  <2>3. PICK c \in Tagged : c # b
    BY <1>5
  <2>4. c.at >= b.at
    BY <1>4, <1>9, <1>11, <1>10, <2>3
  <2>5. w # b
    <3> SUFFICES ASSUME w = b PROVE FALSE
      OBVIOUS
    <3>1. c.at <= b.at
      BY <2>2, <2>3 DEF Restores
    <3>2. c.at = b.at
      BY <1>4, <1>6, <2>3, <2>4, <3>1
    <3> QED
      BY <1>4, <1>6, <2>3, <3>2 DEF OneASecond
  <2>6. content'[w] = content[w]
    BY <1>1, <2>1, <2>5 DEF MachineTypes
  <2> QED
    BY <1>5, <2>1, <2>2, <2>5, <2>6 DEF Restores
<1> QED
  BY <1>12, <1>13

\* A BE that is made is the latest; from then on, until it has its properties, the
\* last command cannot be undone.
LEMMA MakingRecalls ==
  BEInv /\ BEInv' /\ RollbackInv => \A p \in Pkgs :
    CreateBE(p) \/ SetVersion(p) => undo' = -1 /\ RecallInv(p)'
<1> SUFFICES ASSUME BEInv, BEInv', RollbackInv, NEW p \in Pkgs, CreateBE(p) \/ SetVersion(p)
             PROVE  undo' = -1 /\ RecallInv(p)'
  OBVIOUS
<1>1. MachineTypes /\ PoolInv /\ ProcessTypes
  BY DEF BEInv, BETypeInv
<1>2. Tagged \subseteq Existing /\ \A c \in Existing : c.at <= now /\ c.at \in Int
  BY <1>1, NamesAreDated DEF PoolInv, Tagged, Existing, Range, MachineTypes
<1>3. pc'[p] \in {"version", "hook"} /\ (pc'[p] = "hook" => SetVersion(p))
  BY <1>1 DEF CreateBE, SetVersion, Goto, ProcessTypes
<1>4. EndInv(p)'
  <2>1. doomed'[p] = <<>>
    BY <1>3 DEF BEInv, ProcessInv
  <2> QED
    BY <2>1 DEF EndInv
<1>5. CASE CreateBE(p)
  <2>1. PICK b \in Names : /\ b.at = now /\ b.event = Event(p) /\ b.event \in On
                           /\ b \notin Existing
                           /\ target' = [target EXCEPT ![p] = b]
                           /\ Existing' = Existing \cup {b}
                           /\ Tagged' = Tagged
    BY <1>1, <1>5, CreateFacts
  <2>2. undo' = -1
    <3>1. undo # -1 => When(p) = "pre"
      BY <2>1 DEF RollbackInv, UndoInv, Event
    <3> QED
      BY <1>5, <3>1 DEF CreateBE
  <2>3. b # booted /\ booted' = booted
    BY <1>1, <1>5, <2>1 DEF PoolInv, CreateBE, bootVars
  <2>4. content' = [content EXCEPT ![b] = content[booted]]
    <3>1. b = [event |-> Event(p), at |-> now]
      BY <2>1 DEF Names, Default
    <3> QED
      BY <1>5, <3>1 DEF CreateBE
  <2>5. content'[b] = content'[booted']
    BY <1>1, <2>3, <2>4 DEF MachineTypes
  <2>6. target'[p] = b /\ pc'[p] = "version"
    BY <1>1, <1>5, <2>1 DEF CreateBE, Goto, ProcessTypes
  <2>7. \A c \in Tagged' : c.at <= b.at
    BY <1>2, <2>1
  <2>8. MakingInv(p)'
    BY <2>1, <2>2, <2>3, <2>5, <2>6, <2>7 DEF MakingInv
  <2> QED
    BY <1>3, <1>4, <2>2, <2>8 DEF RecallInv, SeenInv, BackedInv, ActivateInv
<1>6. CASE SetVersion(p)
  <2>1. MakingInv(p) /\ pc[p] = "version"
    BY <1>6 DEF RollbackInv, RecallInv, SetVersion
  <2>2. UNCHANGED <<bes, content, booted, target, undo>>
    BY <1>6 DEF SetVersion, bootVars
  <2>3. target[p] \in Existing /\ Tagged' \subseteq Tagged \cup {target[p]}
        /\ target[p] \in versioned'
    BY <1>6 DEF SetVersion, Tagged
  <2>4. \A c \in Tagged' : c.at <= target[p].at
    BY <1>2, <2>1, <2>3 DEF MakingInv
  <2>5. MakingInv(p)'
    BY <2>1, <2>2, <2>3, <2>4 DEF MakingInv, Existing
  <2>6. undo' = -1
    BY <2>1, <2>2 DEF MakingInv
  <2> QED
    BY <1>3, <1>4, <2>5, <2>6 DEF RecallInv, SeenInv, BackedInv, ActivateInv
<1> QED
  BY <1>5, <1>6

\* With its second property, a BE made before the jobs brings back what there is
\* before them.
LEMMA SetHookRecalls ==
  OneSide /\ BEInv /\ BEInv' /\ RollbackInv => \A p \in Pkgs :
    SetHook(p) => undo' = -1 /\ RecallInv(p)'
<1> SUFFICES ASSUME OneSide, BEInv, BEInv', RollbackInv, NEW p \in Pkgs, SetHook(p)
             PROVE  undo' = -1 /\ RecallInv(p)'
  OBVIOUS
<1>1. MachineTypes /\ PoolInv /\ ProcessTypes
  BY DEF BEInv, BETypeInv
<1>2. PICK b \in Names : b = target[p] /\ b.at \in Int
  BY <1>1, NamesAreDated DEF SetHook, PoolInv, Existing, Range, MachineTypes
<1>3. UNCHANGED <<bes, versioned, content, booted, undo>> /\ hooked' = hooked \cup {b}
  BY <1>2 DEF SetHook, bootVars
<1>4. /\ undo = -1 /\ b # booted /\ content[b] = content[booted] /\ b \in versioned
      /\ \A c \in Tagged : c.at <= b.at
  BY <1>2 DEF RollbackInv, RecallInv, MakingInv, SetHook
<1>5. Tagged' = Tagged \cup {b}
  BY <1>3, <1>4 DEF Tagged
<1>6. CASE b.event[1] = "pre"
  <2>1. pc'[p] = "execute"
    BY <1>1, <1>2, <1>6 DEF SetHook, HookReturns, Goto, ProcessTypes
  <2>2. \A e \in On : e[1] = "pre"
    <3>1. b # Default
      BY <1>6 DEF Default
    <3>2. b.event \in On
      BY <3>1 DEF Names
    <3> QED
      BY <1>6, <3>2 DEF OneSide
  <2>3. \A c \in Tagged' : c.at <= b.at
    BY <1>2, <1>4, <1>5
  <2>4. Restores(b, content[booted])'
    BY <1>3, <1>4, <1>5, <2>3 DEF Restores
  <2>5. doomed'[p] = <<>>
    BY <2>1 DEF BEInv, ProcessInv
  <2> QED
    BY <1>3, <1>4, <2>1, <2>2, <2>4, <2>5
       DEF RecallInv, SeenInv, EndInv, MakingInv, BackedInv, ActivateInv
<1>7. CASE b.event[1] # "pre"
  <2>1. pc'[p] = "idle"
    BY <1>1, <1>2, <1>7 DEF SetHook, HookReturns, Goto, ProcessTypes
  <2> QED
    BY <1>3, <1>4, <2>1, NothingToRecall
<1> QED
  BY <1>6, <1>7

\* The jobs of a command that a BE was made for are the ones it undoes; others
\* make the last command one that cannot be undone.
LEMMA ExecuteRecalls ==
  BEInv /\ BEInv' /\ RollbackInv => \A p \in Pkgs :
    Execute(p) => UndoInv' /\ RecallInv(p)'
<1> SUFFICES ASSUME BEInv, BEInv', RollbackInv, NEW p \in Pkgs, Execute(p)
             PROVE  UndoInv' /\ RecallInv(p)'
  OBVIOUS
<1>1. MachineTypes /\ PoolInv /\ ProcessTypes
  BY DEF BEInv, BETypeInv
<1>2. RecallInv(p)'
  <2>1. pc'[p] = "after"
    BY <1>1 DEF Execute, Goto, ProcessTypes
  <2> QED
    BY <2>1, NothingToRecall
<1>3. Tagged' = Tagged /\ booted' = booted
  BY DEF Execute, Tagged, bootVars
<1>4. \A b \in Names : b # booted => content'[b] = content[b]
  BY <1>1 DEF Execute, MachineTypes
<1>5. CASE backed[p]
  <2>1. PICK b \in Names : Restores(b, content[booted]) /\ \A e \in On : e[1] = "pre"
    BY <1>5 DEF RollbackInv, RecallInv, BackedInv, Execute
  <2>2. undo' = content[booted]
    BY <1>5 DEF Execute
  <2>3. Restores(b, undo)'
    BY <1>3, <1>4, <2>1, <2>2 DEF Restores
  <2> QED
    BY <1>2, <2>1, <2>3 DEF UndoInv
<1>6. CASE ~backed[p] /\ jobs[p]
  BY <1>2, <1>6 DEF Execute, UndoInv
<1>7. CASE ~backed[p] /\ ~jobs[p]
  BY <1>2, <1>7, UndoStays DEF Execute, RollbackInv, poolVars, bootVars
<1> QED
  BY <1>5, <1>6, <1>7

\* The rollback takes the latest.
LEMMA SelectLatestRecalls ==
  BEInv /\ BEInv' /\ RollbackInv => \A p \in Pkgs : SelectLatest(p) => RecallInv(p)'
<1> SUFFICES ASSUME BEInv, BEInv', RollbackInv, NEW p \in Pkgs, SelectLatest(p)
             PROVE  RecallInv(p)'
  OBVIOUS
<1>1. MachineTypes /\ PoolInv /\ ProcessTypes
  BY DEF BEInv, BETypeInv
<1>2. pc'[p] = "activate" /\ Tagged' = Tagged /\ pc[p] = "reinspect"
  BY <1>1 DEF SelectLatest, Goto, poolVars, Tagged, ProcessTypes
<1>3. Tagged \cap Range(seen[p]) = Tagged
  <2>1. seen[p] = bes
    BY <1>2 DEF RollbackInv, RecallInv, SeenInv
  <2>2. Tagged \subseteq Existing
    BY <1>1 DEF PoolInv, Tagged
  <2> QED
    BY <2>1, <2>2 DEF Existing
<1>4. seen[p] \in Seq(Names) /\ IsInjective(seen[p])
  BY <1>1 DEF ProcessTypes, BEInv, ProcessInv
<1>5. PICK sorted \in Seq(Dated) :
        /\ sorted = SortDesc(ListOf(p))
        /\ ListOf(p) = <<>> <=> sorted = <<>>
        /\ \A n \in 1 .. Len(sorted) : sorted[n].name \in Tagged
        /\ \A b \in Tagged : \E n \in 1 .. Len(sorted) : sorted[n].name = b
        /\ \A m, n \in 1 .. Len(sorted) : m < n =>
             \/ sorted[m].name.at > sorted[n].name.at
             \/ sorted[m].name.at = sorted[n].name.at
  <2>1. \E sorted \in Seq(Dated) :
          /\ sorted = SortDesc(ListOf(p))
          /\ ListOf(p) = <<>> <=> sorted = <<>>
          /\ \A n \in 1 .. Len(sorted) : sorted[n].name \in Tagged \cap Range(seen[p])
          /\ \A b \in Tagged \cap Range(seen[p]) :
               \E n \in 1 .. Len(sorted) : sorted[n].name = b
          /\ \A m, n \in 1 .. Len(sorted) : m < n =>
               /\ sorted[m].name # sorted[n].name
               /\ \/ sorted[m].name.at > sorted[n].name.at
                  \/ /\ sorted[m].name.at = sorted[n].name.at
                     /\ InOrder(seen[p], sorted[m].name, sorted[n].name)
    BY <1>4, SortedOurs, Zenon
  <2> QED
    BY <1>3, <2>1
<1>6. sorted # <<>>
  BY <1>5 DEF SelectLatest
<1>7. 1 \in 1 .. Len(sorted) /\ \A n \in 1 .. Len(sorted) : n = 1 \/ 1 < n
  BY <1>6
<1>8. PICK b : b = sorted[1].name
  OBVIOUS
<1>9. b \in Tagged /\ \A c \in Tagged : c.at <= b.at
  <2>1. Tagged \subseteq Names
    BY <1>1 DEF PoolInv, Tagged, Existing, Range, MachineTypes
  <2>2. \A c \in Tagged : c.at \in Int
    BY <2>1, NamesAreDated
  <2>3. b \in Tagged
    BY <1>5, <1>7, <1>8
  <2> SUFFICES ASSUME NEW c \in Tagged PROVE c.at <= b.at
    BY <2>3
  <2>4. PICK n \in 1 .. Len(sorted) : sorted[n].name = c
    BY <1>5
  <2>5. n = 1 \/ b.at > c.at \/ b.at = c.at
    BY <1>5, <1>7, <1>8, <2>4
  <2> QED
    BY <1>8, <2>2, <2>3, <2>4, <2>5
<1>10. target'[p] = b
  BY <1>1, <1>5, <1>8 DEF SelectLatest, Latest, ProcessTypes
<1>11. ActivateInv(p)'
  BY <1>2, <1>9, <1>10 DEF ActivateInv
<1>12. doomed'[p] = <<>>
  BY <1>2 DEF BEInv, ProcessInv
<1> QED
  BY <1>2, <1>11, <1>12 DEF RecallInv, SeenInv, EndInv, MakingInv, BackedInv

LEMMA RollbackStep ==
  OneProcess /\ OneSide /\ OneASecond /\ BEInv /\ BEInv' /\ RollbackInv /\ [Next]_zintVars
    => RollbackInv'
<1> SUFFICES ASSUME OneProcess, OneSide, OneASecond, BEInv, BEInv', RollbackInv, [Next]_zintVars
             PROVE  RollbackInv'
  OBVIOUS
<1>1. UndoInv /\ \A p \in Pkgs : RecallInv(p)
  BY DEF RollbackInv
<1>2. CASE UNCHANGED zintVars \/ Tick
  <2>1. UNCHANGED <<poolVars, bootVars, processVars, undo>>
    BY <1>2 DEF zintVars, Tick
  <2>2. UndoInv'
    BY <1>1, <2>1, UndoStays DEF bootVars
  <2>3. ASSUME NEW p \in Pkgs PROVE RecallInv(p)'
    <3>1. Tagged' = Tagged /\ UNCHANGED <<bes, versioned, content, booted, undo, pc, seen,
                                          doomed, target, backed>>
      BY <2>1 DEF poolVars, bootVars, processVars, Tagged
    <3>2. SeenInv(p) /\ EndInv(p) /\ MakingInv(p) /\ BackedInv(p) /\ ActivateInv(p)
      BY <1>1 DEF RecallInv
    <3>3. SeenInv(p)' /\ EndInv(p)' /\ ActivateInv(p)'
      BY <3>1, <3>2 DEF SeenInv, EndInv, ActivateInv
    <3>4. MakingInv(p)' /\ BackedInv(p)'
      BY <3>1, <3>2 DEF MakingInv, BackedInv, Restores, Existing
    <3> QED
      BY <3>3, <3>4 DEF RecallInv
  <2> QED
    BY <2>2, <2>3 DEF RollbackInv
<1>3. CASE Reboot
  <2>1. UndoInv'
    BY <1>3 DEF Reboot, UndoInv
  <2>2. \A p \in Pkgs : pc'[p] = "idle"
    BY <1>3 DEF Reboot
  <2> QED
    BY <2>1, <2>2, NothingToRecall DEF RollbackInv
<1>4. ASSUME NEW p \in Pkgs, InitPlugin(p) \/ Step(p) \/ Crash(p)
      PROVE  UndoInv' /\ RecallInv(p)'
  <2>1. CASE \/ InitPlugin(p) \/ Crash(p) \/ Methodless(p) \/ ListFails(p) \/ PurgeEnds(p)
             \/ Begin(p) \/ GiveUp(p) \/ BeginRollback(p) \/ SkipHook(p) \/ CreateFails(p)
             \/ TagFails(p) \/ DoNotRollback(p) \/ Activate(p) \/ ActivateFails(p)
    BY <1>1, <2>1, QuietStep, NothingToRecall, UndoStays, Zenon
  <2>2. CASE ListNames(p) \/ SelectDoomed(p) \/ SelectLatest(p)
    <3>1. UNCHANGED <<poolVars, booted, undo>>
      BY <2>2 DEF ListNames, SelectDoomed, SelectLatest, bootVars
    <3> QED
      BY <1>1, <2>2, <3>1, UndoStays, ListNamesRecalls, SelectDoomedRecalls, SelectLatestRecalls
  <2>3. CASE CreateBE(p) \/ SetVersion(p) \/ SetHook(p)
    <3>1. undo' = -1 /\ RecallInv(p)'
      BY <2>3, MakingRecalls, SetHookRecalls
    <3> QED
      BY <3>1 DEF UndoInv
  <2>4. CASE DestroyOldest(p) \/ Execute(p)
    BY <2>4, DestroyRecalls, ExecuteRecalls
  <2> QED
    BY <1>4, <2>1, <2>2, <2>3, <2>4 DEF Step
<1>5. ASSUME NEW p \in Pkgs, InitPlugin(p) \/ Step(p) \/ Crash(p) PROVE RollbackInv'
  <2>1. \A q \in Pkgs : q = p
    BY DEF OneProcess
  <2> QED
    BY <1>4, <1>5, <2>1 DEF RollbackInv
<1> QED
  BY <1>2, <1>3, <1>5 DEF Next

\* pkg zint rollback, for commands that do not overlap and events that all come
\* before the jobs, as long as the second tells the BE apart: the BE it activates
\* holds the packages as they were before the last command that was preceded by a
\* BE, whatever purges, crashes, failures and reboots led there.
THEOREM RollbackUndoes ==
  OneProcess /\ OneSide => (Spec /\ []OneASecond => []RollbackUndoesTheCommand)
<1> SUFFICES ASSUME OneProcess, OneSide
             PROVE  Spec /\ []OneASecond => []RollbackUndoesTheCommand
  OBVIOUS
<1>1. Init => RollbackInv
  BY DEF Init, RollbackInv, UndoInv, RecallInv, SeenInv, EndInv, MakingInv, BackedInv,
         ActivateInv
<1>2. OneASecond /\ BEInv /\ BEInv' /\ RollbackInv /\ [Next]_zintVars => RollbackInv'
  BY RollbackStep
<1>3. BEInv /\ RollbackInv => RollbackUndoesTheCommand
  <2> SUFFICES ASSUME BEInv, RollbackInv, NEW p \in Pkgs, pc[p] = "activate", undo # -1,
                      \A b \in Existing : b.at = target[p].at => b = target[p]
               PROVE  content[target[p]] = undo
    BY DEF RollbackUndoesTheCommand
  <2>1. target[p] \in Tagged /\ \A c \in Tagged : c.at <= target[p].at
    BY DEF RollbackInv, RecallInv, ActivateInv
  <2>2. PICK b \in Names : Restores(b, undo)
    BY <2>1 DEF RollbackInv, UndoInv
  <2>3. Tagged \subseteq Existing /\ \A c \in Existing : c.at \in Int
    BY NamesAreDated
       DEF BEInv, BETypeInv, PoolInv, Tagged, Existing, Range, MachineTypes
  <2>4. b.at = target[p].at /\ b \in Existing
    BY <2>1, <2>2, <2>3 DEF Restores
  <2> QED
    BY <2>2, <2>4 DEF Restores
<1> QED
  BY <1>1, <1>2, <1>3, BEInvariant, PTL DEF Spec

\* With one event in ON, nothing has to be said of seconds.
THEOREM OneEventIsEnough ==
  OneEvent => /\ NoWrap => (Spec => DestroysOnlyItsOwn)
              /\ OneProcess => (Spec => []RollbackUndoesTheCommand)
<1> SUFFICES ASSUME OneEvent
             PROVE  /\ NoWrap => (Spec => DestroysOnlyItsOwn)
                    /\ OneProcess => (Spec => []RollbackUndoesTheCommand)
  OBVIOUS
<1>1. BEInv => OneASecond
  BY OneEventASecond
<1>2. BEInv => (ByCount => OneASecond)
  BY OneEventASecond
<1>3. OneSide
  BY DEF OneEvent, OneSide
<1>4. NoWrap => (Spec => DestroysOnlyItsOwn)
  BY <1>2, OnlyItsOwn, BEInvariant, PTL
<1>5. OneProcess => (Spec => []RollbackUndoesTheCommand)
  BY <1>1, <1>3, RollbackUndoes, BEInvariant, PTL
<1> QED
  BY <1>4, <1>5
=============================================================================

---------------------------- MODULE RawZfsProofs ----------------------------
(***************************************************************************)
(* What RETENTION by count promises of plain ZFS snapshots, proved for any *)
(* file systems, pools, layouts and number of snapshots, whatever fails.   *)
(* First what a purge makes of the list of one file system, then the       *)
(* invariant: where the process is, what it is about and what the          *)
(* properties of its snapshots are.                                        *)
(***************************************************************************)
EXTENDS RawZfs, RetentionProofs

\* The retention the properties are about: RETENTION is a number of snapshots
ByCount == Setting.form = "number" /\ Setting.value > 0

\* The rounds of which f has a snapshot with both properties
TaggedRounds(f) == {r \in Rounds : <<f, r>> \in Tagged}

\* Those of them a purge that destroys "gone" leaves
LeftRounds(f, gone) == {r \in TaggedRounds(f) : <<f, r>> \notin gone}

\* ... which are not older than that of r
NotOlder(f, r, gone) ==
  {q \in LeftRounds(f, gone) \ {r} : creation[<<f, q>>] >= creation[<<f, r>>]}

-----------------------------------------------------------------------------
(* The invariant *)

\* The values the variables take.
RawTypeInv ==
  /\ layout \in Layouts
  /\ fs \in [Paths -> Filesystems \cup {NotZfs}]
  /\ recursive \in BOOLEAN /\ clean \in BOOLEAN
  /\ snapshots \subseteq Filesystems \X Rounds
  /\ creation \in [Filesystems \X Rounds -> Nat]
  /\ now \in Nat /\ named \in [Rounds -> Nat] /\ made \in [Rounds -> Nat]
  /\ round \in Rounds \cup {NoRound}
  /\ upgrades \subseteq Rounds
  /\ todo \in Seq(Filesystems)
  /\ unlisted \subseteq Filesystems /\ unpurged \subseteq Filesystems
  /\ complete \in [Rounds -> SUBSET Filesystems]

\* A property is one of a snapshot there is, the second one is set after the
\* first.
PropertiesInv == hooked \subseteq versioned /\ versioned \subseteq snapshots

\* A snapshot is made after its round is given its name, and before the last one of
\* its round or then; nothing is from later than now, nothing is of a round that has
\* not begun.
ClockInv ==
  /\ now > 0
  /\ \A r \in Rounds : named[r] <= now /\ made[r] <= now
  /\ \A s \in snapshots : /\ named[s[2]] # 0
                          /\ named[s[2]] <= creation[s] /\ creation[s] <= made[s[2]]
  /\ \A r \in Rounds : named[r] = 0 => complete[r] = {}

\* The raw method is only chosen when / and LOCALBASE are on ZFS.
MethodInv ==
  pc \in {"listing", "purging", "ready", "snapshot", "version", "hook"} =>
    fs["root"] # NotZfs /\ fs["localbase"] # NotZfs

\* Separate snapshots: what is no longer to be taken was, and has both
\* properties; what is being taken has those it was given.
TakingInv ==
  /\ pc \in {"snapshot", "version", "hook"} =>
       /\ round \in Rounds /\ named[round] # 0
       /\ ~recursive => \A f \in OnZfs : f \in Range(todo) \/ <<f, round>> \in Tagged
  /\ pc = "version" => todo # <<>> /\ <<Head(todo), round>> \in snapshots
  /\ pc = "hook" => todo # <<>> /\ <<Head(todo), round>> \in versioned

\* What nothing failed to list has nothing left to adopt.
ListedInv ==
  /\ pc = "listing" /\ clean => \A f \in OnZfs \ unlisted : Adoptable(f) = {}
  /\ pc = "purging" /\ clean => \A f \in OnZfs : Adoptable(f) = {}

\* The rounds OnlyTheLatestRemain counts
Found(f) ==
  {r \in Rounds :
     /\ <<f, r>> \in snapshots
     /\ <<f, r>> \in Tagged \/ r \in upgrades
     /\ <<f, r>> \notin versioned \ hooked}

\* What nothing failed to purge has no more than N of them.
PurgedInv ==
  pc = "purging" /\ clean =>
    \A f \in OnZfs \ unpurged : Cardinality(Found(f)) <= Setting.value

\* The inductive invariant of the method
RawInv == RawTypeInv /\ PropertiesInv /\ ClockInv /\ MethodInv /\ TakingInv

-----------------------------------------------------------------------------
(* What a purge makes of the list of a file system *)

LEMMA RoundsAreFinite ==
  \A T \in SUBSET Rounds : IsFiniteSet(T) /\ Cardinality(T) \in Nat
BY RoundsAssumption, FS_Subset, FS_CardinalityType

\* A list of a file system has its snapshots with both properties, once each.
LEMMA ListIsComplete ==
  ASSUME RawInv, NEW f, NEW list \in ListsOf(f)
  PROVE  \E s \in Bijection(1 .. Cardinality(TaggedRounds(f)), TaggedRounds(f)) :
           list = [i \in 1 .. Cardinality(TaggedRounds(f)) |->
                     [name |-> <<f, s[i]>>, creation |-> creation[<<f, s[i]>>]]]
<1>0. PICK R : R = TaggedRounds(f)
  OBVIOUS
<1>00. PICK T : T = {s \in Tagged : s[1] = f}
  OBVIOUS
<1>1. IsFiniteSet(R) /\ Cardinality(R) \in Nat
  BY <1>0, RoundsAreFinite DEF TaggedRounds
<1> DEFINE pair == [r \in R |-> <<f, r>>]
<1>2. \A s \in T : s = <<f, s[2]>> /\ s[2] \in R
  BY <1>0, <1>00 DEF TaggedRounds, Tagged, RawInv, PropertiesInv, RawTypeInv
<1>3. pair \in Bijection(R, T)
  <2>1. pair \in [R -> T]
    BY <1>0, <1>00 DEF TaggedRounds
  <2>2. \A p, q \in R : pair[p] = pair[q] => p = q
    OBVIOUS
  <2>3. \A s \in T : \E r \in R : pair[r] = s
    BY <1>2
  <2> QED
    BY <2>1, <2>2, <2>3 DEF Bijection, Injection, Surjection, IsInjective
<1>4. IsFiniteSet(T) /\ Cardinality(T) = Cardinality(R)
  <2>1. ExistsBijection(R, T)
    BY <1>3 DEF ExistsBijection
  <2> QED
    BY <1>1, <2>1, FS_Bijection
<1>5. PICK c \in Nat : c = Cardinality(R)
  BY <1>1
<1>6. PICK order \in SetToSeqs(T) :
        list = [i \in DOMAIN order |-> [name |-> order[i], creation |-> creation[order[i]]]]
  BY <1>00 DEF ListsOf
<1>7. order \in [1 .. c -> T] /\ \A i, j \in 1 .. c : i # j => order[i] # order[j]
  BY <1>4, <1>5, <1>6 DEF SetToSeqs
<1>8. order \in Surjection(1 .. c, T)
  <2>1. order \in Injection(1 .. c, T)
    BY <1>7 DEF Injection, IsInjective
  <2>2. Cardinality(1 .. c) = c
    <3>1. Cardinality(1 .. c) = IF 1 > c THEN 0 ELSE c - 1 + 1
      BY FS_Interval
    <3> QED
      BY <3>1
  <2> QED
    BY <1>4, <1>5, <2>1, <2>2, FS_Injection
<1> DEFINE s == [i \in 1 .. c |-> order[i][2]]
<1>9. \A i \in 1 .. c : order[i] = <<f, s[i]>> /\ s[i] \in R
  BY <1>2, <1>7
<1>10. s \in Bijection(1 .. c, R)
  <2>1. s \in [1 .. c -> R]
    BY <1>9
  <2>2. \A i, j \in 1 .. c : s[i] = s[j] => i = j
    BY <1>7, <1>9
  <2>3. \A r \in R : \E i \in 1 .. c : s[i] = r
    <3> SUFFICES ASSUME NEW r \in R PROVE \E i \in 1 .. c : s[i] = r
      OBVIOUS
    <3>1. <<f, r>> \in T
      BY <1>0, <1>00 DEF TaggedRounds
    <3>2. PICK i \in 1 .. c : order[i] = <<f, r>>
      BY <1>8, <3>1 DEF Surjection
    <3> QED
      BY <3>2
  <2> QED
    BY <2>1, <2>2, <2>3 DEF Bijection, Injection, Surjection, IsInjective
<1>11. list = [i \in 1 .. c |-> [name |-> <<f, s[i]>>, creation |-> creation[<<f, s[i]>>]]]
  BY <1>6, <1>7, <1>9
<1> QED
  BY <1>0, <1>5, <1>10, <1>11, Zenon

\* What a retention by count leaves to be destroyed: the snapshots that come
\* after the N latest, the latest first.
LEMMA DoomedOf ==
  ASSUME ByCount, RawInv, NEW f, NEW list \in ListsOf(f)
  PROVE  \E t \in Bijection(1 .. Cardinality(TaggedRounds(f)), TaggedRounds(f)) :
           /\ \A i, j \in 1 .. Cardinality(TaggedRounds(f)) :
                i < j => creation[<<f, t[i]>>] >= creation[<<f, t[j]>>]
           /\ Doomed(RetentionParse(Setting, 0), list) =
                [i \in 1 .. (IF Cardinality(TaggedRounds(f)) > Setting.value
                             THEN Cardinality(TaggedRounds(f)) - Setting.value ELSE 0) |->
                   [name |-> <<f, t[Setting.value + i]>>,
                    creation |-> creation[<<f, t[Setting.value + i]>>]]]
<1>0. PICK R : R = TaggedRounds(f)
  OBVIOUS
<1>1. R \in SUBSET Rounds /\ IsFiniteSet(R)
  BY <1>0, RoundsAreFinite DEF TaggedRounds
<1>2. PICK c \in Nat : c = Cardinality(R)
  BY <1>1, FS_CardinalityType
<1>3. PICK N \in Nat : N = Setting.value
  BY RawSettingAssumption DEF ByCount, Settings
<1> DEFINE S == 1 .. c
           Snap(r) == [name |-> <<f, r>>, creation |-> creation[<<f, r>>]]
           Snaps == {Snap(r) : r \in R}
<1>4. PICK s \in Bijection(S, R) : list = [i \in S |-> Snap(s[i])]
  BY <1>0, <1>2, ListIsComplete
<1>6. list \in Seq(Snaps) /\ Len(list) = c
  <2>1. \A i \in S : Snap(s[i]) \in Snaps
    BY <1>4 DEF Bijection, Injection
  <2>2. list \in [S -> Snaps]
    BY <1>4, <2>1
  <2> HIDE DEF Snaps
  <2> QED
    BY <2>2
<1>7. \A snap \in Snaps : snap.creation \in Int
  <2> SUFFICES ASSUME NEW snap \in Snaps PROVE snap.creation \in Int
    OBVIOUS
  <2>1. PICK r \in R : snap = Snap(r)
    OBVIOUS
  <2>2. <<f, r>> \in Filesystems \X Rounds
    BY <1>0 DEF TaggedRounds, Tagged, RawInv, PropertiesInv, RawTypeInv
  <2> QED
    BY <2>1, <2>2 DEF RawInv, RawTypeInv
<1>8. PICK from \in Bijection(S, S) :
        /\ SortDesc(list) = [n \in S |-> list[from[n]]]
        /\ \A m, n \in S : m < n =>
             \/ list[from[m]].creation > list[from[n]].creation
             \/ list[from[m]].creation = list[from[n]].creation /\ from[m] < from[n]
  BY <1>6, <1>7, SortedDesc
<1> DEFINE t == [n \in S |-> s[from[n]]]
<1>9. /\ from \in [S -> S] /\ s \in [S -> R]
      /\ \A m \in S : \A n \in S : from[m] = from[n] => m = n
      /\ \A m \in S : \A n \in S : s[m] = s[n] => m = n
      /\ \A m \in S : \E n \in S : from[n] = m
      /\ \A r \in R : \E n \in S : s[n] = r
  BY <1>4, <1>8 DEF Bijection, Injection, Surjection, IsInjective
<1>10. t \in Bijection(S, R)
  <2>1. t \in [S -> R]
    BY <1>9
  <2>2. \A m \in S : \A n \in S : t[m] = t[n] => m = n
    BY <1>9
  <2>3. \A r \in R : \E n \in S : t[n] = r
    BY <1>9
  <2> QED
    BY <2>1, <2>2, <2>3 DEF Bijection, Injection, Surjection, IsInjective
<1>11. \A i \in S : list[from[i]] = Snap(t[i]) /\ list[from[i]].creation = creation[<<f, t[i]>>]
  <2> SUFFICES ASSUME NEW i \in S PROVE list[from[i]] = Snap(t[i])
    OBVIOUS
  <2>1. PICK m \in S : m = from[i]
    BY <1>9
  <2>2. t[i] = s[m]
    BY <2>1
  <2>3. list[m] = Snap(s[m])
    BY <1>4
  <2> QED
    BY <2>1, <2>2, <2>3, Zenon
<1>12. \A i, j \in S : i < j => creation[<<f, t[i]>>] >= creation[<<f, t[j]>>]
  <2> SUFFICES ASSUME NEW i \in S, NEW j \in S, i < j
               PROVE  creation[<<f, t[i]>>] >= creation[<<f, t[j]>>]
    OBVIOUS
  <2> HIDE DEF t
  <2>1. \/ list[from[i]].creation > list[from[j]].creation
        \/ list[from[i]].creation = list[from[j]].creation
    BY <1>8
  <2>2. list[from[i]] \in Snaps /\ list[from[j]] \in Snaps
    <3> HIDE DEF Snaps
    <3> QED
      BY <1>6, <1>9
  <2>3. list[from[i]].creation \in Int /\ list[from[j]].creation \in Int
    BY <1>7, <2>2
  <2>4. list[from[i]].creation >= list[from[j]].creation
    BY <2>1, <2>3
  <2> QED
    BY <1>11, <2>4
<1> HIDE DEF t
<1>13. SortDesc(list) = [n \in S |-> Snap(t[n])]
  <2> HIDE DEF Snap
  <2> QED
    BY <1>8, <1>11
<1>14. SortDesc(list) \in Seq(Snaps) /\ Len(SortDesc(list)) = c
  <2>1. \A i \in S : Snap(t[i]) \in Snaps
    BY <1>10 DEF Bijection, Injection
  <2>2. SortDesc(list) \in [S -> Snaps]
    BY <1>13, <2>1
  <2> HIDE DEF Snaps
  <2> QED
    BY <2>2
<1>15. RetentionParse(Setting, 0) = [type |-> "BY_COUNT", limit |-> N]
  BY <1>3 DEF RetentionParse, ByCount
<1>16. Doomed(RetentionParse(Setting, 0), list) = From(SortDesc(list), N)
  <2> HIDE DEF Snaps
  <2> QED
    BY <1>14, <1>15, CountRejects DEF Doomed
<1>17. From(SortDesc(list), N) = [i \in 1 .. (IF c > N THEN c - N ELSE 0) |-> Snap(t[N + i])]
  <2>1. \A i \in 1 .. (IF c > N THEN c - N ELSE 0) : N + i \in S
    OBVIOUS
  <2> HIDE DEF Snap
  <2>2. \A i \in 1 .. (IF c > N THEN c - N ELSE 0) : SortDesc(list)[N + i] = Snap(t[N + i])
    BY <1>13, <2>1
  <2> QED
    BY <1>14, <2>2 DEF From
<1> QED
  BY <1>0, <1>2, <1>3, <1>10, <1>12, <1>16, <1>17

LEMMA DoomedLength ==
  ASSUME ByCount, RawInv, NEW f, NEW list \in ListsOf(f)
  PROVE  Len(Doomed(RetentionParse(Setting, 0), list)) =
           IF Cardinality(TaggedRounds(f)) > Setting.value
           THEN Cardinality(TaggedRounds(f)) - Setting.value ELSE 0
<1>1. TaggedRounds(f) \in SUBSET Rounds
  BY DEF TaggedRounds
<1>2. PICK c \in Nat : c = Cardinality(TaggedRounds(f))
  BY <1>1, RoundsAreFinite
<1>3. PICK N \in Nat : N = Setting.value
  BY RawSettingAssumption DEF ByCount, Settings
<1>4. PICK m \in Nat : m = IF c > N THEN c - N ELSE 0
  <2>1. (IF c > N THEN c - N ELSE 0) \in Nat
    OBVIOUS
  <2> QED
    BY <2>1, Zenon
<1> DEFINE doomed == Doomed(RetentionParse(Setting, 0), list)
<1>5. PICK t \in Bijection(1 .. Cardinality(TaggedRounds(f)), TaggedRounds(f)) :
        /\ \A i, j \in 1 .. Cardinality(TaggedRounds(f)) :
             i < j => creation[<<f, t[i]>>] >= creation[<<f, t[j]>>]
        /\ doomed = [i \in 1 .. m |-> [name |-> <<f, t[N + i]>>,
                                       creation |-> creation[<<f, t[N + i]>>]]]
  BY <1>2, <1>3, <1>4, DoomedOf
<1> DEFINE D == {[name |-> <<f, t[N + i]>>, creation |-> creation[<<f, t[N + i]>>]] : i \in 1 .. m}
<1> HIDE DEF doomed
<1>6. doomed \in [1 .. m -> D] /\ DOMAIN doomed = 1 .. m
  BY <1>5
<1> HIDE DEF D
<1>7. doomed \in Seq(D)
  BY <1>6
<1>8. Len(doomed) = m
  BY <1>6, <1>7, LenProperties
<1> QED
  BY <1>2, <1>3, <1>4, <1>8 DEF doomed

\* What a purge destroys of a list when "first" is the first of those it has to
\* destroy that can be
Gone(list, first) ==
  LET doomed == Doomed(RetentionParse(Setting, 0), list)
  IN  Names(SubSeq(doomed, first, Len(doomed)))

\* A purge of f destroys snapshots of f with both properties, none of which is
\* later than N others that stay; if it is not cut short it leaves N at most.
LEMMA GoneIsTheOldest ==
  ASSUME ByCount, RawInv, NEW f, NEW list \in ListsOf(f),
         NEW first \in 1 .. Len(Doomed(RetentionParse(Setting, 0), list)) + 1
  PROVE  /\ \A snap \in Gone(list, first) : \E r \in TaggedRounds(f) :
              snap = <<f, r>> /\ Cardinality(NotOlder(f, r, Gone(list, first))) >= Setting.value
         /\ first = 1 => Cardinality(LeftRounds(f, Gone(list, first))) <= Setting.value
<1>0. PICK R : R = TaggedRounds(f)
  OBVIOUS
<1>1. R \in SUBSET Rounds /\ IsFiniteSet(R)
  BY <1>0, RoundsAreFinite DEF TaggedRounds
<1>2. PICK c \in Nat : c = Cardinality(R)
  BY <1>1, FS_CardinalityType
<1>3. PICK N \in Nat : N = Setting.value
  BY RawSettingAssumption DEF ByCount, Settings
<1> DEFINE S == 1 .. c
           m == IF c > N THEN c - N ELSE 0
           Snap(r) == [name |-> <<f, r>>, creation |-> creation[<<f, r>>]]
<1>4. PICK doomed : doomed = Doomed(RetentionParse(Setting, 0), list)
  OBVIOUS
<1>5. PICK t \in Bijection(S, R) : /\ \A i, j \in S : i < j => creation[<<f, t[i]>>] >= creation[<<f, t[j]>>]
                                   /\ doomed = [i \in 1 .. m |-> Snap(t[N + i])]
  BY <1>0, <1>2, <1>3, <1>4, DoomedOf
<1>6. Len(doomed) = m /\ m \in Nat
  <2>1. Len(doomed) = m
    BY <1>0, <1>2, <1>3, <1>4, DoomedLength
  <2>2. m \in Nat
    OBVIOUS
  <2> QED
    BY <2>1, <2>2
<1>7. first \in Int /\ first >= 1 /\ first <= m + 1
  <2>1. first \in 1 .. m + 1
    BY <1>4, <1>6
  <2> HIDE DEF m
  <2> QED
    BY <1>6, <2>1
<1>8. /\ t \in [S -> R]
      /\ \A i \in S : \A j \in S : t[i] = t[j] => i = j
      /\ \A r \in R : \E i \in S : t[i] = r
  BY <1>5 DEF Bijection, Injection, Surjection, IsInjective
<1>9. PICK gone : gone = Gone(list, first)
  OBVIOUS
<1>10. gone = {<<f, t[N + i]>> : i \in first .. m}
  <2>1. gone = {snap.name : snap \in Range(SubSeq(doomed, first, m))}
    BY <1>4, <1>6, <1>9 DEF Gone, Names
  <2>2. SubSeq(doomed, first, m) = [i \in 1 .. (1 + m - first) |-> doomed[i + first - 1]]
    BY <1>6, <1>7
  <2>3. Range(SubSeq(doomed, first, m)) = {doomed[i] : i \in first .. m}
    <3>1. \A i \in 1 .. (1 + m - first) : i + first - 1 \in first .. m
      BY <1>6, <1>7
    <3>2. \A i \in first .. m : i - first + 1 \in 1 .. (1 + m - first)
                                /\ (i - first + 1) + first - 1 = i
      BY <1>6, <1>7
    <3>3. Range(SubSeq(doomed, first, m)) =
            {doomed[i + first - 1] : i \in 1 .. (1 + m - first)}
      <4>1. PICK sub : sub = SubSeq(doomed, first, m)
        OBVIOUS
      <4> HIDE DEF m
      <4>2. DOMAIN sub = 1 .. (1 + m - first)
            /\ \A i \in 1 .. (1 + m - first) : sub[i] = doomed[i + first - 1]
        BY <2>2, <4>1
      <4>3. {sub[i] : i \in DOMAIN sub} = {doomed[i + first - 1] : i \in 1 .. (1 + m - first)}
        BY <4>2, Zenon
      <4> QED
        BY <4>1, <4>3, Zenon DEF Range
    <3> HIDE DEF m
    <3> QED
      BY <3>1, <3>2, <3>3
  <2>4. \A i \in first .. m : doomed[i].name = <<f, t[N + i]>>
    <3>1. \A i \in first .. m : i \in 1 .. m
      BY <1>7
    <3> QED
      BY <1>5, <3>1
  <2> HIDE DEF m, S
  <2>5. gone = {doomed[i].name : i \in first .. m}
    BY <2>1, <2>3
  <2> QED
    BY <2>4, <2>5
<1>11. \A i \in first .. m : N + i \in S
  BY <1>7
<1>12. \A i \in S : <<f, t[i]>> \notin gone <=> i < N + first
  <2> SUFFICES ASSUME NEW i \in S PROVE <<f, t[i]>> \notin gone <=> i < N + first
    OBVIOUS
  <2>1. ASSUME i < N + first PROVE <<f, t[i]>> \notin gone
    <3> SUFFICES ASSUME NEW k \in first .. m, <<f, t[i]>> = <<f, t[N + k]>> PROVE FALSE
      BY <1>10, Zenon
    <3>1. i = N + k
      BY <1>8, <1>11
    <3>2. k \in Int /\ k >= first
      BY <1>7
    <3> QED
      BY <1>7, <2>1, <3>1, <3>2
  <2>2. ASSUME ~(i < N + first) PROVE <<f, t[i]>> \in gone
    <3>1. i - N \in first .. m /\ N + (i - N) = i
      BY <1>7, <2>2
    <3> HIDE DEF m
    <3> QED
      BY <1>10, <3>1
  <2> QED
    BY <2>1, <2>2
<1>13. PICK L : L = LeftRounds(f, gone)
  OBVIOUS
<1>14. L = {r \in R : <<f, r>> \notin gone} /\ L \in SUBSET R
  BY <1>0, <1>13, Zenon DEF LeftRounds
<1>15. \A i \in S : t[i] \in L <=> i < N + first
  BY <1>8, <1>12, <1>14
<1> HIDE DEF m
<1>16. ASSUME NEW snap \in gone
       PROVE  \E r \in R : /\ snap = <<f, r>>
                           /\ Cardinality(NotOlder(f, r, gone)) >= N
  <2>1. PICK k \in first .. m : snap = <<f, t[N + k]>>
    BY <1>10
  <2>2. PICK r \in R : r = t[N + k]
    BY <1>8, <1>11
  <2>3. PICK Q : Q = {q \in L \ {r} : creation[<<f, q>>] >= creation[<<f, r>>]}
    OBVIOUS
  <2>30. Q = NotOlder(f, r, gone)
    BY <1>13, <2>3 DEF NotOlder
  <2>4. IsFiniteSet(Q)
    BY <1>1, <1>14, <2>3, FS_Subset
  <2> DEFINE u == [i \in 1 .. N |-> t[i]]
  <2>5. \A i \in 1 .. N : i \in S /\ i < N + k /\ i < N + first
    <3>1. k \in Int /\ k >= 1 /\ N + k \in S
      BY <1>7, <1>11
    <3> QED
      BY <1>7, <3>1
  <2>6. \A i \in 1 .. N : t[i] \in Q
    <3> SUFFICES ASSUME NEW i \in 1 .. N PROVE t[i] \in Q
      OBVIOUS
    <3>1. i \in S /\ i < N + k /\ t[i] \in L
      BY <1>15, <2>5
    <3>2. creation[<<f, t[i]>>] >= creation[<<f, r>>]
      BY <1>5, <1>11, <2>2, <3>1
    <3>3. t[i] # r
      BY <1>8, <1>11, <2>2, <3>1
    <3> QED
      BY <2>3, <3>1, <3>2, <3>3
  <2>7. u \in Injection(1 .. N, Q)
    <3>1. u \in [1 .. N -> Q]
      BY <2>6
    <3>2. \A i \in 1 .. N : \A j \in 1 .. N : u[i] = u[j] => i = j
      BY <1>8, <2>5
    <3> QED
      BY <3>1, <3>2 DEF Injection, IsInjective
  <2>8. Cardinality(1 .. N) = N
    <3>1. Cardinality(1 .. N) = IF 1 > N THEN 0 ELSE N - 1 + 1
      BY FS_Interval
    <3> QED
      BY <3>1
  <2>9. N <= Cardinality(Q)
    BY <2>4, <2>7, <2>8, FS_Injection
  <2>10. Cardinality(Q) \in Nat
    BY <2>4, FS_CardinalityType
  <2>11. Cardinality(Q) >= N
    BY <2>9, <2>10
  <2> QED
    BY <2>1, <2>2, <2>30, <2>11
<1>17. ASSUME first = 1 PROVE Cardinality(L) <= N
  <2>1. IsFiniteSet(L)
    BY <1>1, <1>14, FS_Subset
  <2> DEFINE back == [r \in L |-> CHOOSE i \in S : t[i] = r]
  <2>2. \A r \in L : back[r] \in S /\ t[back[r]] = r
    BY <1>8, <1>14
  <2>3. \A r \in L : back[r] \in 1 .. N
    <3> SUFFICES ASSUME NEW r \in L PROVE back[r] \in 1 .. N
      OBVIOUS
    <3>1. PICK i \in S : i = back[r] /\ t[i] = r
      BY <2>2
    <3>2. i < N + 1
      BY <1>15, <1>17, <3>1
    <3> QED
      BY <3>1, <3>2
  <2>4. back \in Injection(L, 1 .. N)
    <3>1. back \in [L -> 1 .. N]
      BY <2>3
    <3>2. \A p \in L : \A q \in L : back[p] = back[q] => p = q
      BY <2>2
    <3> QED
      BY <3>1, <3>2 DEF Injection, IsInjective
  <2>5. IsFiniteSet(1 .. N) /\ Cardinality(1 .. N) = N
    <3>1. 1 \in Int /\ N \in Int
      OBVIOUS
    <3>2. IsFiniteSet(1 .. N) /\ Cardinality(1 .. N) = IF 1 > N THEN 0 ELSE N - 1 + 1
      BY <3>1, FS_Interval
    <3> QED
      BY <3>2
  <2> QED
    BY <2>4, <2>5, FS_Injection
<1>18. \A snap \in Gone(list, first) : \E r \in TaggedRounds(f) :
         snap = <<f, r>> /\ Cardinality(NotOlder(f, r, Gone(list, first))) >= Setting.value
  BY <1>0, <1>3, <1>9, <1>16, Zenon
<1>19. first = 1 => Cardinality(LeftRounds(f, Gone(list, first))) <= Setting.value
  BY <1>3, <1>9, <1>13, <1>17
<1> QED
  BY <1>18, <1>19, Zenon

-----------------------------------------------------------------------------
(* The invariant is inductive *)

LEMMA OnZfsFilesystems ==
  RawTypeInv => OnZfs \subseteq Filesystems
BY DEF RawTypeInv, OnZfs

LEMMA TargetsFacts ==
  ASSUME RawTypeInv, MethodInv, pc = "ready"
  PROVE  /\ Targets \in Seq(Filesystems)
         /\ ~recursive => Range(Targets) = OnZfs
<1>1. fs["root"] \in Filesystems /\ fs["localbase"] \in Filesystems
  BY DEF RawTypeInv, MethodInv, Paths
<1>2. fs["pkg_dbdir"] = NotZfs \/ fs["pkg_dbdir"] \in Filesystems
  BY DEF RawTypeInv, Paths
<1>3. Targets \in Seq(Filesystems)
  BY <1>1, <1>2 DEF Targets
<1>4. ASSUME ~recursive PROVE Range(Targets) = OnZfs
  <2>0. OnZfs = {fs["root"], fs["localbase"], fs["pkg_dbdir"]} \ {NotZfs}
    BY DEF OnZfs, Paths
  <2>00. fs["root"] # NotZfs /\ fs["localbase"] # NotZfs
    BY DEF MethodInv
  <2>1. CASE fs["pkg_dbdir"] = NotZfs
    <3>1. Targets = <<fs["root"], fs["localbase"]>>
      BY <1>4, <2>1 DEF Targets
    <3>2. Range(Targets) = {fs["root"], fs["localbase"]}
      BY <3>1 DEF Range
    <3> QED
      BY <2>0, <2>00, <2>1, <3>2
  <2>2. CASE fs["pkg_dbdir"] # NotZfs
    <3>1. Targets = <<fs["root"], fs["localbase"], fs["pkg_dbdir"]>>
      BY <1>4, <2>2 DEF Targets
    <3>2. Range(Targets) = {fs["root"], fs["localbase"], fs["pkg_dbdir"]}
      BY <3>1 DEF Range
    <3> QED
      BY <2>0, <2>00, <2>2, <3>2
  <2> QED
    BY <2>1, <2>2
<1> QED
  BY <1>3, <1>4

\* A purge takes all that was of a snapshot with it.
LEMMA GoneAfterPurge ==
  ASSUME PurgeFilesystem
  PROVE  \E f \in unpurged : \E list \in ListsOf(f) :
           \E first \in IF Faults
                        THEN 1 .. Len(Doomed(RetentionParse(Setting, 0), list)) + 1
                        ELSE {1} :
             /\ unpurged' = unpurged \ {f}
             /\ Destroy(Gone(list, first))
             /\ clean' = (clean /\ first = 1)
<1>1. PICK f \in unpurged :
        \E doomed \in {Doomed(RetentionParse(Setting, 0), list) : list \in ListsOf(f)} :
          \E first \in IF Faults THEN 1 .. Len(doomed) + 1 ELSE {1} :
            /\ unpurged' = unpurged \ {f}
            /\ Destroy(Names(SubSeq(doomed, first, Len(doomed))))
            /\ clean' = (clean /\ first = 1)
  BY Zenon DEF PurgeFilesystem
<1>2. PICK list \in ListsOf(f) :
        \E first \in IF Faults THEN 1 .. Len(Doomed(RetentionParse(Setting, 0), list)) + 1
                     ELSE {1} :
          /\ unpurged' = unpurged \ {f}
          /\ Destroy(Names(SubSeq(Doomed(RetentionParse(Setting, 0), list), first,
                                  Len(Doomed(RetentionParse(Setting, 0), list)))))
          /\ clean' = (clean /\ first = 1)
  BY <1>1, Zenon
<1> QED
  BY <1>2, Zenon DEF Gone

LEMMA InitTypes == RawInit => RawInv
<1> SUFFICES ASSUME RawInit PROVE RawInv
  OBVIOUS
<1>1. RawTypeInv
  <2>1. complete \in [Rounds -> SUBSET Filesystems]
    BY DEF RawInit
  <2>2. todo \in Seq(Filesystems)
    BY DEF RawInit
  <2>3. /\ creation \in [Filesystems \X Rounds -> Nat] /\ now \in Nat
        /\ named \in [Rounds -> Nat] /\ made \in [Rounds -> Nat]
    BY DEF RawInit
  <2>4. fs \in [Paths -> Filesystems \cup {NotZfs}]
    BY DEF RawInit, Nowhere
  <2> QED
    BY <2>1, <2>2, <2>3, <2>4, Zenon DEF RawInit, RawTypeInv
<1>2. PropertiesInv /\ MethodInv /\ TakingInv
  BY DEF RawInit, PropertiesInv, MethodInv, TakingInv
<1>3. ClockInv
  BY DEF RawInit, ClockInv
<1> QED
  BY <1>1, <1>2, <1>3 DEF RawInv

LEMMA TypesStep ==
  ASSUME RawInv, [RawNext]_rawVars
  PROVE  RawTypeInv'
<1> USE DEF RawInv
<1>0. OnZfs \subseteq Filesystems
  BY OnZfsFilesystems
<1>1. ASSUME Over PROVE fs' \in [Paths -> Filesystems \cup {NotZfs}] /\ todo' \in Seq(Filesystems)
                        /\ clean' \in BOOLEAN /\ recursive' \in BOOLEAN
                        /\ unlisted' = {} /\ unpurged' = {}
                        /\ round' = NoRound /\ UNCHANGED <<now, named, upgrades>>
  <2>1. fs' \in [Paths -> Filesystems \cup {NotZfs}]
    BY <1>1 DEF Over, Nowhere
  <2>2. todo' \in Seq(Filesystems)
    BY <1>1 DEF Over
  <2> QED
    BY <1>1, <2>1, <2>2 DEF Over, nameVars
<1>2. CASE Probe
  <2>1. PICK missed \in SUBSET Paths :
          fs' = [p \in Paths |-> IF p \in missed THEN NotZfs ELSE layout[p]]
    BY <1>2 DEF Probe
  <2>2. layout \in [Paths -> Filesystems \cup {NotZfs}]
    BY LayoutsAssumption DEF RawTypeInv
  <2>3. fs' \in [Paths -> Filesystems \cup {NotZfs}]
    BY <2>1, <2>2
  <2>4. clean' \in BOOLEAN
    BY <1>2 DEF Probe
  <2> QED
    BY <1>2, <2>3, <2>4, Zenon DEF Probe, RawTypeInv, kernelVars, nameVars
<1>3. CASE ProbeFails
  BY <1>3, Zenon DEF ProbeFails, RawTypeInv, kernelVars, nameVars, contextVars
<1>4. CASE FindRawMethod
  <2>1. recursive' \in BOOLEAN
    BY <1>4 DEF FindRawMethod, SamePool
  <2> QED
    BY <1>0, <1>4, <2>1, Zenon DEF FindRawMethod, RawTypeInv, kernelVars, nameVars
<1>5. CASE FindOtherwise
  BY <1>1, <1>5 DEF FindOtherwise, RawTypeInv, kernelVars
<1>6. CASE ListFilesystem
  <2>1. unlisted' \subseteq Filesystems
    BY <1>6 DEF ListFilesystem, RawTypeInv
  <2> QED
    BY <1>6, <2>1, Zenon DEF ListFilesystem, RawTypeInv, nameVars
<1>7. CASE ListFilesystemFails
  <2>1. unlisted' \subseteq Filesystems /\ clean' \in BOOLEAN
    BY <1>7 DEF ListFilesystemFails, RawTypeInv
  <2> QED
    BY <1>7, <2>1, Zenon DEF ListFilesystemFails, RawTypeInv, nameVars
<1>8. CASE Listed
  BY <1>0, <1>8, Zenon DEF Listed, RawTypeInv, kernelVars, nameVars
<1>9. CASE PurgeFilesystem
  <2>1. PICK gone : Destroy(gone)
    BY <1>9, Zenon DEF PurgeFilesystem
  <2>2. /\ unpurged' \subseteq Filesystems /\ clean' \in BOOLEAN
    BY <1>9, GoneAfterPurge, Zenon DEF RawTypeInv
  <2>3. snapshots' \subseteq Filesystems \X Rounds
    BY <2>1 DEF Destroy, RawTypeInv
  <2>4. creation' \in [Filesystems \X Rounds -> Nat]
    BY <2>1 DEF Destroy, RawTypeInv
  <2> QED
    BY <1>9, <2>2, <2>3, <2>4, Zenon DEF PurgeFilesystem, RawTypeInv, nameVars
<1>10. CASE PurgeEnds
  BY <1>10, Zenon DEF PurgeEnds, RawTypeInv, kernelVars, nameVars, contextVars
<1>11. CASE TakeSnapshot
  <2>1. todo' \in Seq(Filesystems)
    BY <1>11, TargetsFacts DEF TakeSnapshot
  <2>2. PICK r \in Rounds :
          /\ round' = r
          /\ \/ named' = [named EXCEPT ![r] = now] /\ upgrades' \in {upgrades, upgrades \cup {r}}
             \/ UNCHANGED <<named, upgrades>>
    BY <1>11 DEF TakeSnapshot
  <2>3. named' \in [Rounds -> Nat] /\ upgrades' \subseteq Rounds /\ round' \in Rounds
    BY <2>2 DEF RawTypeInv
  <2> QED
    BY <1>11, <2>1, <2>3, Zenon DEF TakeSnapshot, RawTypeInv, kernelVars
<1>12. CASE IndividualSnapshot
  <2>1. round \in Rounds
    BY <1>12 DEF IndividualSnapshot, TakingInv
  <2>2. Head(todo) \in Filesystems
    BY <1>12 DEF IndividualSnapshot, RawTypeInv
  <2>3. Made(Head(todo)) \subseteq Filesystems \X Rounds
    BY <2>1, <2>2 DEF Made
  <2>4. snapshots' \subseteq Filesystems \X Rounds
    BY <1>12, <2>3 DEF IndividualSnapshot, RawTypeInv
  <2>5. creation' \in [Filesystems \X Rounds -> Nat]
    BY <1>12 DEF IndividualSnapshot, RawTypeInv
  <2>6. made' \in [Rounds -> Nat]
    BY <1>12 DEF IndividualSnapshot, RawTypeInv
  <2> QED
    BY <1>12, <2>4, <2>5, <2>6, Zenon DEF IndividualSnapshot, RawTypeInv, nameVars, contextVars
<1>13. CASE SetVersion
  BY <1>13, Zenon DEF SetVersion, RawTypeInv, nameVars, contextVars
<1>14. CASE SetHook
  <2>1. todo' \in Seq(Filesystems)
    <3>1. todo \in Seq(Filesystems) /\ todo # <<>>
      BY <1>14 DEF SetHook, TakingInv, RawTypeInv
    <3> QED
      BY <1>14, <3>1 DEF SetHook
  <2> QED
    BY <1>14, <2>1, Zenon DEF SetHook, RawTypeInv, nameVars
<1>15. CASE SnapshotFails
  BY <1>1, <1>15 DEF SnapshotFails, RawTypeInv, kernelVars
<1>16. CASE SnapshotsTaken
  <2>1. complete' \in [Rounds -> SUBSET Filesystems]
    <3>1. PICK what \in SUBSET Filesystems : what = IF recursive THEN {} ELSE OnZfs
      BY <1>0
    <3>2. complete' = [complete EXCEPT ![round] = what]
      BY <1>16, <3>1 DEF SnapshotsTaken
    <3> QED
      BY <3>2 DEF RawTypeInv
  <2> QED
    BY <1>1, <1>16, <2>1 DEF SnapshotsTaken, RawTypeInv, kernelVars
<1>17. CASE Rollback
  BY <1>1, <1>17 DEF Rollback, RawTypeInv
<1>18. CASE Exit
  BY <1>1, <1>18 DEF Exit, RawTypeInv, kernelVars
<1>19. CASE Tick
  <2>1. now' \in Nat
    BY <1>19 DEF Tick, RawTypeInv
  <2> QED
    BY <1>19, <2>1, Zenon DEF Tick, RawTypeInv, kernelVars, contextVars
<1>20. CASE UNCHANGED rawVars
  BY <1>20, Zenon DEF rawVars, kernelVars, nameVars, contextVars, RawTypeInv
<1> QED
  BY <1>2, <1>3, <1>4, <1>5, <1>6, <1>7, <1>8, <1>9, <1>10, <1>11, <1>12, <1>13,
     <1>14, <1>15, <1>16, <1>17, <1>18, <1>19, <1>20, Zenon DEF RawNext

LEMMA PropertiesStep ==
  ASSUME RawInv, [RawNext]_rawVars
  PROVE  PropertiesInv'
<1> USE DEF RawInv
<1>1. \A f : Adoptable(f) \subseteq snapshots
  BY DEF Adoptable
<1>2. ASSUME UNCHANGED <<snapshots, versioned, hooked>>
      PROVE  PropertiesInv'
  BY <1>2, Zenon DEF PropertiesInv
<1>3. CASE Probe \/ ProbeFails \/ FindRawMethod \/ FindOtherwise \/ Listed \/ PurgeEnds
             \/ TakeSnapshot \/ SnapshotFails \/ SnapshotsTaken \/ Exit \/ Tick \/ UNCHANGED rawVars
  BY <1>2, <1>3, Zenon
     DEF Probe, ProbeFails, FindRawMethod, FindOtherwise, Listed, PurgeEnds, TakeSnapshot,
         SnapshotFails, SnapshotsTaken, Exit, Tick, rawVars, kernelVars, propertyVars
<1>4. CASE ListFilesystem
  <2>1. PICK f \in unlisted : /\ versioned' = versioned \cup Adoptable(f)
                              /\ hooked' = hooked \cup Adoptable(f)
    BY <1>4, Zenon DEF ListFilesystem
  <2>2. snapshots' = snapshots
    BY <1>4 DEF ListFilesystem
  <2> QED
    BY <1>1, <2>1, <2>2 DEF PropertiesInv
<1>5. CASE ListFilesystemFails
  <2>1. PICK f \in unlisted : \E v \in SUBSET Adoptable(f) : \E h \in SUBSET v :
               /\ versioned' = versioned \cup v
               /\ hooked' = hooked \cup h
    BY <1>5, Zenon DEF ListFilesystemFails
  <2>2. snapshots' = snapshots
    BY <1>5 DEF ListFilesystemFails
  <2> QED
    BY <1>1, <2>1, <2>2 DEF PropertiesInv
<1>6. CASE PurgeFilesystem
  <2>1. PICK gone : Destroy(gone)
    BY <1>6, Zenon DEF PurgeFilesystem
  <2> QED
    BY <2>1 DEF Destroy, PropertiesInv
<1>8. CASE IndividualSnapshot
  BY <1>8 DEF IndividualSnapshot, propertyVars, PropertiesInv
<1>9. CASE SetVersion
  <2>1. <<Head(todo), round>> \in snapshots
    BY <1>9 DEF SetVersion, TakingInv
  <2>2. /\ versioned' = versioned \cup {<<Head(todo), round>>}
        /\ UNCHANGED <<snapshots, hooked>>
    BY <1>9 DEF SetVersion
  <2> QED
    BY <2>1, <2>2 DEF PropertiesInv
<1>10. CASE SetHook
  <2>1. <<Head(todo), round>> \in versioned
    BY <1>10 DEF SetHook, TakingInv
  <2>2. /\ hooked' = hooked \cup {<<Head(todo), round>>}
        /\ UNCHANGED <<snapshots, versioned>>
    BY <1>10 DEF SetHook
  <2> QED
    BY <2>1, <2>2 DEF PropertiesInv
<1>11. CASE Rollback
  <2>1. PICK v \in SUBSET UNION {Adoptable(f) : f \in OnZfs} : \E h \in SUBSET v :
               /\ versioned' = versioned \cup v
               /\ hooked' = hooked \cup h
    BY <1>11, Zenon DEF Rollback
  <2>2. snapshots' = snapshots
    BY <1>11 DEF Rollback
  <2>3. v \subseteq snapshots
    BY <1>1
  <2> QED
    BY <2>1, <2>2, <2>3 DEF PropertiesInv
<1> QED
  BY <1>3, <1>4, <1>5, <1>6, <1>8, <1>9, <1>10, <1>11, Zenon DEF RawNext

\* When the snapshots were made, and their rounds given a name
LEMMA ClockStep ==
  ASSUME RawInv, [RawNext]_rawVars
  PROVE  ClockInv'
<1> USE DEF RawInv
<1>1. ASSUME UNCHANGED <<snapshots, creation, now, named, made, complete>>
      PROVE  ClockInv'
  BY <1>1, Zenon DEF ClockInv
<1>2. CASE Probe \/ ProbeFails \/ FindRawMethod \/ FindOtherwise \/ Listed \/ PurgeEnds
  BY <1>1, <1>2, Zenon
     DEF Probe, ProbeFails, FindRawMethod, FindOtherwise, Listed, PurgeEnds, Over, kernelVars,
         nameVars
<1>3. CASE ListFilesystem \/ ListFilesystemFails \/ SetVersion \/ SetHook
  BY <1>1, <1>3, Zenon DEF ListFilesystem, ListFilesystemFails, SetVersion, SetHook, nameVars
<1>4. CASE SnapshotFails \/ Rollback \/ Exit \/ UNCHANGED rawVars
  BY <1>1, <1>4, Zenon DEF SnapshotFails, Rollback, Exit, Over, rawVars, kernelVars, nameVars
<1>5. CASE Tick
  <2>1. /\ now \in Nat /\ now' = now + 1 /\ UNCHANGED <<snapshots, creation, named, made, complete>>
    BY <1>5 DEF Tick, kernelVars, RawTypeInv
  <2>2. \A r \in Rounds : named[r] \in Nat /\ made[r] \in Nat
    BY DEF RawTypeInv
  <2> QED
    BY <2>1, <2>2 DEF ClockInv
<1>6. CASE PurgeFilesystem
  <2>1. PICK gone : Destroy(gone)
    BY <1>6, Zenon DEF PurgeFilesystem
  <2>2. UNCHANGED <<now, named, made, complete>>
    BY <1>6 DEF PurgeFilesystem, nameVars
  <2>3. snapshots' = snapshots \ gone /\ \A s \in snapshots' : creation'[s] = creation[s]
    BY <2>1 DEF Destroy, RawTypeInv
  <2> QED
    BY <2>2, <2>3 DEF ClockInv
<1>7. CASE TakeSnapshot
  <2>1. UNCHANGED <<snapshots, creation, now, made, complete>>
    BY <1>7 DEF TakeSnapshot, kernelVars
  <2>2. PICK r \in Rounds : \/ named[r] = 0 /\ named' = [named EXCEPT ![r] = now]
                            \/ named' = named
    BY <1>7 DEF TakeSnapshot
  <2>3. CASE named' = named
    BY <1>1, <2>1, <2>3
  <2>4. CASE named[r] = 0 /\ named' = [named EXCEPT ![r] = now]
    <3>1. now \in Nat /\ now > 0
      BY DEF ClockInv, RawTypeInv
    <3>2. \A q \in Rounds : named'[q] = IF q = r THEN now ELSE named[q]
      BY <2>4 DEF RawTypeInv
    <3>3. \A s \in snapshots : s[2] \in Rounds /\ s[2] # r
      BY <2>4 DEF ClockInv, RawTypeInv
    <3>4. \A s \in snapshots : named'[s[2]] = named[s[2]]
      BY <3>2, <3>3
    <3>5. \A q \in Rounds : named'[q] <= now /\ (named'[q] = 0 => named[q] = 0)
      BY <3>1, <3>2 DEF ClockInv
    <3> QED
      BY <2>1, <3>4, <3>5 DEF ClockInv
  <2> QED
    BY <2>2, <2>3, <2>4
<1>8. CASE IndividualSnapshot
  <2>1. /\ snapshots' = snapshots \cup Made(Head(todo))
        /\ creation' = [s \in DOMAIN creation |->
                          IF s \in Made(Head(todo)) THEN now ELSE creation[s]]
        /\ made' = [made EXCEPT ![round] = now]
        /\ UNCHANGED <<now, named, complete>>
    BY <1>8 DEF IndividualSnapshot, nameVars
  <2>2. round \in Rounds /\ named[round] # 0 /\ now \in Nat /\ Head(todo) \in Filesystems
    BY <1>8 DEF IndividualSnapshot, TakingInv, RawTypeInv
  <2>3. Made(Head(todo)) \subseteq Filesystems \X Rounds /\ \A s \in Made(Head(todo)) : s[2] = round
    BY <2>2 DEF Made
  <2>4. \A r \in Rounds : /\ made'[r] = (IF r = round THEN now ELSE made[r])
                          /\ made[r] <= now /\ made[r] \in Nat /\ named[r] <= now
    BY <2>1, <2>2 DEF RawTypeInv, ClockInv
  <2>5. \A r \in Rounds : made'[r] <= now /\ made[r] <= made'[r]
    BY <2>2, <2>4
  <2>6. ASSUME NEW s \in snapshots'
        PROVE  named[s[2]] # 0 /\ named[s[2]] <= creation'[s] /\ creation'[s] <= made'[s[2]]
    <3>1. s \in Filesystems \X Rounds
      BY <2>1, <2>3 DEF RawTypeInv
    <3>2. CASE s \in Made(Head(todo))
      <4>1. s[2] = round /\ creation'[s] = now /\ made'[s[2]] = now
        BY <2>1, <2>2, <2>3, <2>4, <3>1, <3>2 DEF RawTypeInv
      <4> QED
        BY <2>2, <2>4, <4>1
    <3>3. CASE s \notin Made(Head(todo))
      <4>1. s \in snapshots /\ creation'[s] = creation[s] /\ creation[s] \in Nat
        BY <2>1, <3>1, <3>3 DEF RawTypeInv
      <4>2. named[s[2]] # 0 /\ named[s[2]] <= creation[s] /\ creation[s] <= made[s[2]]
        BY <4>1 DEF ClockInv
      <4>3. s[2] \in Rounds
        BY <3>1
      <4>4. made[s[2]] <= made'[s[2]] /\ made[s[2]] \in Nat /\ made'[s[2]] \in Nat
        BY <2>2, <2>4, <2>5, <4>3
      <4>5. creation[s] <= made'[s[2]]
        BY <4>1, <4>2, <4>4
      <4> QED
        BY <4>1, <4>2, <4>5
    <3> QED
      BY <3>2, <3>3
  <2> QED
    BY <2>1, <2>5, <2>6 DEF ClockInv
<1>9. CASE SnapshotsTaken
  <2>1. /\ complete' = [complete EXCEPT ![round] = IF recursive THEN {} ELSE OnZfs]
        /\ UNCHANGED <<snapshots, creation, now, named, made>>
    BY <1>9 DEF SnapshotsTaken, Over, kernelVars, nameVars
  <2>2. named[round] # 0
    BY <1>9 DEF SnapshotsTaken, TakingInv
  <2>3. \A r \in Rounds : named[r] = 0 => complete'[r] = complete[r]
    BY <2>1, <2>2 DEF RawTypeInv
  <2> QED
    BY <2>1, <2>3 DEF ClockInv
<1> QED
  BY <1>2, <1>3, <1>4, <1>5, <1>6, <1>7, <1>8, <1>9, Zenon DEF RawNext

LEMMA MethodStep ==
  ASSUME RawInv, [RawNext]_rawVars
  PROVE  MethodInv'
<1> USE DEF RawInv, MethodInv
<1>1. CASE Probe \/ ProbeFails
  BY <1>1 DEF Probe, ProbeFails
<1>2. CASE FindRawMethod
  BY <1>2 DEF FindRawMethod, RawSuitable
<1>3. CASE FindOtherwise \/ SnapshotFails \/ SnapshotsTaken \/ Rollback \/ Exit
  BY <1>3 DEF FindOtherwise, SnapshotFails, SnapshotsTaken, Rollback, Exit, Over
<1>4. ASSUME fs' = fs,
             pc \in {"listing", "purging", "ready", "snapshot", "version", "hook"}
      PROVE  MethodInv'
  BY <1>4
<1>5. CASE ListFilesystem \/ ListFilesystemFails \/ Listed
  BY <1>4, <1>5 DEF ListFilesystem, ListFilesystemFails, Listed
<1>6. CASE PurgeFilesystem \/ PurgeEnds
  BY <1>4, <1>6 DEF PurgeFilesystem, PurgeEnds, contextVars
<1>7. CASE TakeSnapshot \/ IndividualSnapshot \/ SetVersion \/ SetHook
  BY <1>4, <1>7 DEF TakeSnapshot, IndividualSnapshot, SetVersion, SetHook, contextVars
<1>8. CASE Tick \/ UNCHANGED rawVars
  BY <1>8, Zenon DEF Tick, rawVars, contextVars
<1> QED
  BY <1>1, <1>2, <1>3, <1>5, <1>6, <1>7, <1>8, Zenon DEF RawNext

\* What a hook is about, one file system after the other
LEMMA TakingStep ==
  ASSUME RawInv, [RawNext]_rawVars
  PROVE  TakingInv'
<1> USE DEF RawInv
<1>1. ASSUME pc' \notin {"snapshot", "version", "hook"} PROVE TakingInv'
  BY <1>1 DEF TakingInv
<1>2. CASE Probe \/ ProbeFails \/ FindRawMethod \/ FindOtherwise
  BY <1>1, <1>2 DEF Probe, ProbeFails, FindRawMethod, FindOtherwise, Over
<1>3. CASE ListFilesystem \/ ListFilesystemFails \/ Listed
  BY <1>1, <1>3 DEF ListFilesystem, ListFilesystemFails, Listed
<1>4. CASE PurgeFilesystem \/ PurgeEnds
  BY <1>1, <1>4 DEF PurgeFilesystem, PurgeEnds
<1>5. CASE SnapshotFails \/ SnapshotsTaken \/ Rollback \/ Exit
  BY <1>1, <1>5 DEF SnapshotFails, SnapshotsTaken, Rollback, Exit, Over
<1>6. CASE TakeSnapshot
  <2>1. round' \in Rounds /\ named'[round'] # 0
    <3>1. now > 0 /\ now \in Nat
      BY DEF ClockInv, RawTypeInv
    <3>2. PICK r \in Rounds : /\ round' = r
                             /\ \/ named' = [named EXCEPT ![r] = now]
                                \/ named[r] = now /\ named' = named
      BY <1>6 DEF TakeSnapshot
    <3> QED
      BY <3>1, <3>2 DEF RawTypeInv
  <2>2. pc' = "snapshot" /\ OnZfs' = OnZfs /\ recursive' = recursive /\ todo' = Targets
    BY <1>6 DEF TakeSnapshot, OnZfs
  <2>3. ~recursive => Range(todo') = OnZfs
    BY <1>6, <2>2, TargetsFacts DEF TakeSnapshot
  <2> QED
    BY <2>1, <2>2, <2>3 DEF TakingInv
<1>7. CASE IndividualSnapshot
  <2>1. /\ pc = "snapshot" /\ pc' = "version" /\ todo # <<>>
        /\ snapshots' = snapshots \cup Made(Head(todo))
        /\ UNCHANGED <<versioned, hooked, fs, recursive, round, named, todo>>
    BY <1>7 DEF IndividualSnapshot, propertyVars, nameVars, contextVars
  <2>2. <<Head(todo), round>> \in Made(Head(todo))
    BY DEF Made
  <2>3. OnZfs' = OnZfs /\ Tagged' = Tagged
    BY <2>1 DEF OnZfs, Tagged
  <2> QED
    BY <2>1, <2>2, <2>3 DEF TakingInv
<1>8. CASE SetVersion
  <2>1. /\ pc = "version" /\ pc' = "hook" /\ todo # <<>>
        /\ versioned' = versioned \cup {<<Head(todo), round>>}
        /\ UNCHANGED <<hooked, fs, recursive, round, named, todo>>
    BY <1>8 DEF SetVersion, nameVars, contextVars, TakingInv
  <2>2. OnZfs' = OnZfs /\ Tagged \subseteq Tagged'
    BY <2>1 DEF OnZfs, Tagged
  <2> QED
    BY <2>1, <2>2 DEF TakingInv
<1>9. CASE SetHook
  <2>1. /\ pc = "hook" /\ pc' = "snapshot" /\ todo # <<>>
        /\ hooked' = hooked \cup {<<Head(todo), round>>} /\ todo' = Tail(todo)
        /\ UNCHANGED <<versioned, fs, recursive, round, named>>
        /\ <<Head(todo), round>> \in versioned
    BY <1>9 DEF SetHook, TakingInv, nameVars
  <2>2. OnZfs' = OnZfs /\ Tagged \subseteq Tagged' /\ <<Head(todo), round>> \in Tagged'
    BY <2>1 DEF OnZfs, Tagged
  <2>3. \A f \in Range(todo) : f = Head(todo) \/ f \in Range(todo')
    <3> SUFFICES ASSUME NEW f \in Range(todo), f # Head(todo) PROVE f \in Range(todo')
      OBVIOUS
    <3>1. todo \in Seq(Filesystems)
      BY DEF RawTypeInv
    <3>2. PICK i \in 1 .. Len(todo) : f = todo[i]
      BY <3>1 DEF Range
    <3>3. i # 1
      BY <2>1, <3>1, <3>2
    <3>4. i - 1 \in 1 .. Len(Tail(todo)) /\ Tail(todo)[i - 1] = todo[i]
      BY <2>1, <3>1, <3>2, <3>3
    <3>5. DOMAIN Tail(todo) = 1 .. Len(Tail(todo))
      BY <2>1, <3>1
    <3> QED
      BY <2>1, <3>2, <3>4, <3>5 DEF Range
  <2>4. pc' = "snapshot" /\ round' = round /\ recursive' = recursive
        /\ round \in Rounds /\ named'[round'] # 0
    BY <2>1 DEF TakingInv
  <2>5. ~recursive => \A f \in OnZfs : f \in Range(todo') \/ <<f, round>> \in Tagged'
    BY <2>1, <2>2, <2>3 DEF TakingInv
  <2> QED
    BY <2>2, <2>4, <2>5 DEF TakingInv
<1>10. CASE Tick \/ UNCHANGED rawVars
  <2>1. UNCHANGED <<pc, named, round, recursive, fs, todo, snapshots, versioned, hooked>>
    BY <1>10, Zenon DEF Tick, rawVars, kernelVars, propertyVars, nameVars, contextVars
  <2> QED
    BY <2>1, Zenon DEF TakingInv, Tagged, OnZfs
<1> QED
  BY <1>2, <1>3, <1>4, <1>5, <1>6, <1>7, <1>8, <1>9, <1>10, Zenon DEF RawNext

\* The state of a command and of its snapshots: what is versioned and hooked
\* exists, was made after its round was given its name, and what a hook has done so
\* far is as it should be, in every state of the method.
THEOREM RawInvariant == RawSpec => []RawInv
<1>1. RawInv /\ [RawNext]_rawVars => RawInv'
  BY TypesStep, PropertiesStep, ClockStep, MethodStep, TakingStep DEF RawInv
<1> QED
  BY InitTypes, <1>1, PTL DEF RawSpec

-----------------------------------------------------------------------------
(* What RETENTION by count promises *)

\* What a purge does, as its properties see it
LEMMA PurgeByCount ==
  ASSUME ByCount, RawInv, PurgeFilesystem
  PROVE  \E f \in unpurged : \E gone :
           /\ unpurged' = unpurged \ {f}
           /\ Destroy(gone)
           /\ \A snap \in gone : \E r \in TaggedRounds(f) :
                snap = <<f, r>> /\ Cardinality(NotOlder(f, r, gone)) >= Setting.value
           /\ clean' => clean /\ Cardinality(LeftRounds(f, gone)) <= Setting.value
<1>0. PICK f \in unpurged :
        \E list \in ListsOf(f) :
          \E first \in IF Faults
                       THEN 1 .. Len(Doomed(RetentionParse(Setting, 0), list)) + 1
                       ELSE {1} :
            /\ unpurged' = unpurged \ {f}
            /\ Destroy(Gone(list, first))
            /\ clean' = (clean /\ first = 1)
  BY GoneAfterPurge, Zenon
<1>1. PICK list \in ListsOf(f) :
        \E first \in IF Faults
                     THEN 1 .. Len(Doomed(RetentionParse(Setting, 0), list)) + 1
                     ELSE {1} :
          /\ unpurged' = unpurged \ {f}
          /\ Destroy(Gone(list, first))
          /\ clean' = (clean /\ first = 1)
  BY <1>0, Zenon
<1>2. PICK len \in Nat : len = Len(Doomed(RetentionParse(Setting, 0), list))
  <2>1. PICK c \in Nat : c = Cardinality(TaggedRounds(f))
    BY RoundsAreFinite DEF TaggedRounds
  <2>2. PICK N \in Nat : N = Setting.value
    BY RawSettingAssumption DEF ByCount, Settings
  <2>3. (IF c > N THEN c - N ELSE 0) \in Nat
    OBVIOUS
  <2> QED
    BY <2>1, <2>2, <2>3, DoomedLength
<1>3. PICK first \in 1 .. len + 1 :
        /\ unpurged' = unpurged \ {f}
        /\ Destroy(Gone(list, first))
        /\ clean' = (clean /\ first = 1)
  <2>1. 1 \in 1 .. len + 1
    BY <1>2
  <2> QED
    BY <1>1, <1>2, <2>1, Zenon
<1>4. /\ \A snap \in Gone(list, first) : \E r \in TaggedRounds(f) :
           snap = <<f, r>> /\ Cardinality(NotOlder(f, r, Gone(list, first))) >= Setting.value
      /\ first = 1 => Cardinality(LeftRounds(f, Gone(list, first))) <= Setting.value
  BY <1>2, GoneIsTheOldest, Zenon
<1> QED
  BY <1>3, <1>4, Zenon

\* Only a purge destroys.
LEMMA NothingElseDestroys ==
  ASSUME [RawNext]_rawVars, ~PurgeFilesystem
  PROVE  snapshots \subseteq snapshots' /\ Tagged \subseteq Tagged'
<1>1. ASSUME UNCHANGED <<snapshots, versioned, hooked>>
      PROVE  snapshots \subseteq snapshots' /\ Tagged \subseteq Tagged'
  BY <1>1 DEF Tagged
<1>2. ASSUME snapshots \subseteq snapshots', versioned \subseteq versioned', hooked \subseteq hooked'
      PROVE  snapshots \subseteq snapshots' /\ Tagged \subseteq Tagged'
  BY <1>2 DEF Tagged
<1>3. CASE Probe \/ ProbeFails \/ FindRawMethod \/ FindOtherwise \/ Listed \/ PurgeEnds
  BY <1>1, <1>3, Zenon
     DEF Probe, ProbeFails, FindRawMethod, FindOtherwise, Listed, PurgeEnds, kernelVars,
         propertyVars
<1>4. CASE TakeSnapshot \/ SnapshotFails \/ SnapshotsTaken \/ Exit \/ Tick \/ UNCHANGED rawVars
  BY <1>1, <1>4, Zenon
     DEF TakeSnapshot, SnapshotFails, SnapshotsTaken, Exit, Tick, rawVars, kernelVars,
         propertyVars
<1>5. CASE ListFilesystem
  BY <1>2, <1>5 DEF ListFilesystem
<1>6. CASE ListFilesystemFails
  BY <1>2, <1>6 DEF ListFilesystemFails
<1>7. CASE IndividualSnapshot \/ SetVersion \/ SetHook
  BY <1>2, <1>7 DEF IndividualSnapshot, SetVersion, SetHook, propertyVars
<1>8. CASE Rollback
  BY <1>2, <1>8 DEF Rollback
<1> QED
  BY <1>3, <1>4, <1>5, <1>6, <1>7, <1>8, Zenon DEF RawNext

\* No purge destroys a snapshot that has not both properties, nor one of which the
\* file system does not keep N others that are not older.
THEOREM LatestOfEachKept == ByCount => (RawSpec => KeepsTheLatestOfEach)
<1> SUFFICES ASSUME ByCount PROVE RawSpec => KeepsTheLatestOfEach
  OBVIOUS
<1> DEFINE Kept ==
      \A snap \in snapshots : snap \notin snapshots' =>
        /\ snap \in Tagged
        /\ Cardinality({r \in Rounds \ {snap[2]} :
                          /\ <<snap[1], r>> \in Tagged'
                          /\ creation'[<<snap[1], r>>] >= creation[snap]}) >= Setting.value
<1>1. ASSUME RawInv, [RawNext]_rawVars PROVE Kept
  <2>1. CASE ~PurgeFilesystem
    BY <1>1, <2>1, NothingElseDestroys
  <2>2. CASE PurgeFilesystem
    <3> SUFFICES ASSUME NEW snap \in snapshots, snap \notin snapshots'
                 PROVE  /\ snap \in Tagged
                        /\ Cardinality({r \in Rounds \ {snap[2]} :
                                          /\ <<snap[1], r>> \in Tagged'
                                          /\ creation'[<<snap[1], r>>] >= creation[snap]})
                             >= Setting.value
      OBVIOUS
    <3>1. PICK f, gone :
            /\ Destroy(gone)
            /\ \A s \in gone : \E r \in TaggedRounds(f) :
                 s = <<f, r>> /\ Cardinality(NotOlder(f, r, gone)) >= Setting.value
      BY <1>1, <2>2, PurgeByCount, Zenon
    <3>2. PICK r \in TaggedRounds(f) :
            snap = <<f, r>> /\ Cardinality(NotOlder(f, r, gone)) >= Setting.value
      BY <3>1 DEF Destroy
    <3>3. snap \in Tagged
      BY <3>2 DEF TaggedRounds
    <3>4. Tagged' = Tagged \ gone
      BY <3>1 DEF Tagged, Destroy
    <3>5. \A q \in LeftRounds(f, gone) : creation'[<<f, q>>] = creation[<<f, q>>]
      <4> SUFFICES ASSUME NEW q \in LeftRounds(f, gone)
                   PROVE  creation'[<<f, q>>] = creation[<<f, q>>]
        OBVIOUS
      <4>1. <<f, q>> \in Filesystems \X Rounds /\ <<f, q>> \notin gone
        BY <1>1 DEF LeftRounds, TaggedRounds, Tagged, RawInv, PropertiesInv, RawTypeInv
      <4> QED
        BY <1>1, <3>1, <4>1 DEF Destroy, RawInv, RawTypeInv
    <3>6. {q \in Rounds \ {snap[2]} : /\ <<snap[1], q>> \in Tagged'
                                      /\ creation'[<<snap[1], q>>] >= creation[snap]} =
            NotOlder(f, r, gone)
      <4>1. snap[1] = f /\ snap[2] = r
        BY <3>2
      <4>2. {q \in Rounds : <<f, q>> \in Tagged'} = LeftRounds(f, gone)
        BY <3>4 DEF LeftRounds, TaggedRounds
      <4>3. {q \in Rounds \ {r} : /\ <<f, q>> \in Tagged'
                                  /\ creation'[<<f, q>>] >= creation[<<f, r>>]} =
              NotOlder(f, r, gone)
        BY <3>5, <4>2, Zenon DEF NotOlder
      <4> QED
        BY <3>2, <4>1, <4>3
    <3> QED
      BY <3>2, <3>3, <3>6
  <2> QED
    BY <2>1, <2>2
<1> QED
  BY <1>1, RawInvariant, PTL DEF RawSpec, KeepsTheLatestOfEach

\* The rounds with a snapshot made in the second r is named after or later
Since(r) == {q \in Rounds \ {r} : made[q] >= named[r]}

\* The rounds a purge keeps because of one it destroys have all a snapshot made
\* since that one was given its name.
LEMMA GoneIsOld ==
  ASSUME ByCount, RawInv, NEW f, NEW gone, NEW r \in TaggedRounds(f),
         Cardinality(NotOlder(f, r, gone)) >= Setting.value
  PROVE  ~(Cardinality(Since(r)) < Setting.value)
<1>1. PICK N \in Nat \ {0} : N = Setting.value
  BY RawSettingAssumption DEF ByCount, Settings
<1>2. NotOlder(f, r, gone) \subseteq Since(r)
  <2> SUFFICES ASSUME NEW q \in NotOlder(f, r, gone) PROVE q \in Since(r)
    OBVIOUS
  <2>1. /\ q \in Rounds \ {r} /\ <<f, q>> \in snapshots /\ <<f, r>> \in snapshots /\ r \in Rounds
        /\ creation[<<f, q>>] >= creation[<<f, r>>]
    BY DEF NotOlder, LeftRounds, TaggedRounds, Tagged, RawInv, PropertiesInv
  <2>2. <<f, q>> \in Filesystems \X Rounds /\ <<f, r>> \in Filesystems \X Rounds
    BY <2>1 DEF RawInv, RawTypeInv
  <2>3. /\ creation[<<f, q>>] \in Nat /\ creation[<<f, r>>] \in Nat
        /\ named[r] \in Nat /\ made[q] \in Nat
    BY <2>1, <2>2 DEF RawInv, RawTypeInv
  <2>4. creation[<<f, q>>] <= made[<<f, q>>[2]] /\ named[<<f, r>>[2]] <= creation[<<f, r>>]
    BY <2>1 DEF RawInv, ClockInv
  <2>5. made[q] >= named[r]
    BY <2>1, <2>3, <2>4
  <2> QED
    BY <2>1, <2>5 DEF Since
<1>3. PICK S \in SUBSET Rounds : S = Since(r)
  BY DEF Since
<1>4. PICK K \in SUBSET S : K = NotOlder(f, r, gone)
  BY <1>2, <1>3
<1>5. IsFiniteSet(S) /\ Cardinality(S) \in Nat /\ Cardinality(K) \in Nat
  BY <1>3, <1>4, RoundsAreFinite
<1>6. Cardinality(K) <= Cardinality(S)
  BY <1>5, FS_Subset
<1>7. Cardinality(K) >= N
  BY <1>1, <1>4
<1> QED
  BY <1>1, <1>3, <1>5, <1>6, <1>7

\* What was reported as successful stays whole while fewer than N others have a
\* snapshot made since.
LEMMA LastRoundsStep ==
  ASSUME ByCount, RawInv, LastRoundsStayWhole, [RawNext]_rawVars
  PROVE  LastRoundsStayWhole'
<1>0. Setting.value \in Int
  BY RawSettingAssumption DEF Settings
<1>1. ASSUME NEW r \in Rounds, named'[r] = named[r],
             \A q \in Rounds : made'[q] \in Nat /\ made'[q] >= made[q],
             Cardinality(Since(r)') < Setting.value
      PROVE  Cardinality(Since(r)) < Setting.value
  <2>1. PICK S \in SUBSET Rounds : S = Since(r)'
    BY DEF Since
  <2>2. \A q \in Rounds : made[q] \in Nat /\ named[r] \in Nat
    BY DEF RawInv, RawTypeInv
  <2>3. Since(r) \subseteq Since(r)'
    BY <1>1, <2>2 DEF Since
  <2>4. PICK K \in SUBSET S : K = Since(r)
    BY <2>1, <2>3
  <2>5. IsFiniteSet(S) /\ Cardinality(S) \in Nat /\ Cardinality(K) \in Nat
    BY <2>1, <2>4, RoundsAreFinite
  <2>6. Cardinality(K) <= Cardinality(S)
    BY <2>5, FS_Subset
  <2>7. Cardinality(S) < Setting.value
    BY <1>1, <2>1
  <2> QED
    BY <1>0, <2>4, <2>5, <2>6, <2>7
<1>2. ASSUME NEW r \in Rounds, named' = named, made' = made, Cardinality(Since(r)') < Setting.value
      PROVE  Cardinality(Since(r)) < Setting.value
  BY <1>2 DEF Since
<1>3. ASSUME Tagged \subseteq Tagged', complete' = complete, named' = named, made' = made
      PROVE  LastRoundsStayWhole'
  <2> SUFFICES ASSUME NEW r \in Rounds, Cardinality(Since(r)') < Setting.value,
                      NEW f \in complete[r]
               PROVE  <<f, r>> \in Tagged'
    BY <1>3, Zenon DEF LastRoundsStayWhole, Since
  <2>1. Cardinality(Since(r)) < Setting.value
    BY <1>2, <1>3
  <2> QED
    BY <1>3, <2>1 DEF LastRoundsStayWhole, Since
<1>4. CASE TakeSnapshot
  <2>1. UNCHANGED <<versioned, hooked, complete, made>>
    BY <1>4 DEF TakeSnapshot, kernelVars, propertyVars
  <2>2. PICK new \in Rounds : \/ named[new] = 0 /\ named' = [named EXCEPT ![new] = now]
                              \/ named' = named
    BY <1>4 DEF TakeSnapshot
  <2>3. Tagged' = Tagged
    BY <2>1 DEF Tagged
  <2> SUFFICES ASSUME NEW r \in Rounds, Cardinality(Since(r)') < Setting.value,
                      NEW f \in complete[r]
               PROVE  <<f, r>> \in Tagged'
    BY <2>1, Zenon DEF LastRoundsStayWhole, Since
  <2>4. named[r] # 0
    BY DEF RawInv, ClockInv
  <2>5. named'[r] = named[r]
    BY <2>2, <2>4 DEF RawInv, RawTypeInv
  <2>6. \A q \in Rounds : made'[q] \in Nat /\ made'[q] >= made[q]
    BY <2>1 DEF RawInv, RawTypeInv
  <2>7. Cardinality(Since(r)) < Setting.value
    BY <1>1, <2>5, <2>6
  <2> QED
    BY <2>3, <2>7 DEF LastRoundsStayWhole, Since
<1>5. CASE IndividualSnapshot
  <2>1. UNCHANGED <<versioned, hooked, complete, named>> /\ made' = [made EXCEPT ![round] = now]
    BY <1>5 DEF IndividualSnapshot, propertyVars, nameVars
  <2>2. \A q \in Rounds : made'[q] \in Nat /\ made'[q] >= made[q]
    BY <2>1 DEF RawInv, RawTypeInv, ClockInv
  <2>3. Tagged' = Tagged
    BY <2>1 DEF Tagged
  <2> SUFFICES ASSUME NEW r \in Rounds, Cardinality(Since(r)') < Setting.value,
                      NEW f \in complete[r]
               PROVE  <<f, r>> \in Tagged'
    BY <2>1, Zenon DEF LastRoundsStayWhole, Since
  <2>4. Cardinality(Since(r)) < Setting.value
    BY <1>1, <2>1, <2>2
  <2> QED
    BY <2>3, <2>4 DEF LastRoundsStayWhole, Since
<1>6. CASE SnapshotsTaken
  <2>1. /\ complete' = [complete EXCEPT ![round] = IF recursive THEN {} ELSE OnZfs]
        /\ UNCHANGED <<versioned, hooked, named, made>>
    BY <1>6 DEF SnapshotsTaken, Over, kernelVars, propertyVars, nameVars
  <2>2. Tagged' = Tagged
    BY <2>1 DEF Tagged
  <2>3. ~recursive => \A f \in OnZfs : <<f, round>> \in Tagged
    <3>1. ~recursive => \A f \in OnZfs : f \in Range(todo) \/ <<f, round>> \in Tagged
      BY <1>6 DEF SnapshotsTaken, RawInv, TakingInv
    <3>2. Range(todo) = {}
      BY <1>6 DEF SnapshotsTaken, Range
    <3> QED
      BY <3>1, <3>2
  <2> SUFFICES ASSUME NEW r \in Rounds, Cardinality(Since(r)') < Setting.value,
                      NEW f \in complete'[r]
               PROVE  <<f, r>> \in Tagged'
    BY Zenon DEF LastRoundsStayWhole, Since
  <2>4. Cardinality(Since(r)) < Setting.value
    BY <1>2, <2>1
  <2>5. complete'[r] = IF r = round THEN (IF recursive THEN {} ELSE OnZfs) ELSE complete[r]
    BY <2>1 DEF RawInv, RawTypeInv
  <2>6. CASE r = round
    BY <2>2, <2>3, <2>5, <2>6
  <2>7. CASE r # round
    BY <2>2, <2>4, <2>5, <2>7 DEF LastRoundsStayWhole, Since
  <2> QED
    BY <2>6, <2>7
<1>7. CASE PurgeFilesystem
  <2>1. PICK f, gone :
          /\ Destroy(gone)
          /\ \A s \in gone : \E r \in TaggedRounds(f) :
               s = <<f, r>> /\ Cardinality(NotOlder(f, r, gone)) >= Setting.value
    BY <1>7, PurgeByCount, Zenon
  <2>2. Tagged' = Tagged \ gone
    BY <2>1 DEF Destroy, Tagged
  <2>3. UNCHANGED <<complete, named, made>>
    BY <1>7 DEF PurgeFilesystem, nameVars
  <2> SUFFICES ASSUME NEW r \in Rounds, Cardinality(Since(r)') < Setting.value,
                      NEW g \in complete[r]
               PROVE  <<g, r>> \in Tagged'
    BY <2>3, Zenon DEF LastRoundsStayWhole, Since
  <2>4. Cardinality(Since(r)) < Setting.value
    BY <1>2, <2>3
  <2>5. <<g, r>> \in Tagged
    BY <2>4 DEF LastRoundsStayWhole, Since
  <2>6. <<g, r>> \notin gone
    <3> SUFFICES ASSUME <<g, r>> \in gone PROVE FALSE
      OBVIOUS
    <3>1. PICK q \in TaggedRounds(f) :
            <<g, r>> = <<f, q>> /\ Cardinality(NotOlder(f, q, gone)) >= Setting.value
      BY <2>1
    <3>2. q = r
      BY <3>1
    <3> QED
      BY <2>4, <3>1, <3>2, GoneIsOld
  <2> QED
    BY <2>2, <2>5, <2>6
<1>8. CASE Probe \/ ProbeFails \/ FindRawMethod \/ FindOtherwise \/ Listed \/ PurgeEnds
  <2>1. UNCHANGED <<complete, named, made>>
    BY <1>8, Zenon DEF Probe, ProbeFails, FindRawMethod, FindOtherwise, Listed, PurgeEnds, Over,
                       kernelVars, nameVars
  <2> QED
    BY <1>3, <1>7, <2>1, NothingElseDestroys
<1>9. CASE ListFilesystem \/ ListFilesystemFails \/ SetVersion \/ SetHook \/ Rollback
  <2>1. UNCHANGED <<complete, named, made>>
    BY <1>9, Zenon DEF ListFilesystem, ListFilesystemFails, SetVersion, SetHook, Rollback, Over,
                       nameVars
  <2> QED
    BY <1>3, <1>7, <2>1, NothingElseDestroys
<1>10. CASE SnapshotFails \/ Exit \/ Tick \/ UNCHANGED rawVars
  <2>1. UNCHANGED <<complete, named, made>>
    BY <1>10, Zenon DEF SnapshotFails, Exit, Tick, Over, rawVars, kernelVars, nameVars
  <2> QED
    BY <1>3, <1>7, <2>1, NothingElseDestroys
<1> QED
  BY <1>4, <1>5, <1>6, <1>7, <1>8, <1>9, <1>10, Zenon DEF RawNext

\* Separate snapshots: the rounds that were reported as successful are whole
\* until N others have a snapshot made since.
THEOREM LastRoundsAreWhole == ByCount => (RawSpec => []LastRoundsStayWhole)
<1> SUFFICES ASSUME ByCount PROVE RawSpec => []LastRoundsStayWhole
  OBVIOUS
<1>1. RawInit => LastRoundsStayWhole
  BY DEF RawInit, LastRoundsStayWhole
<1>2. RawInv /\ LastRoundsStayWhole /\ [RawNext]_rawVars => LastRoundsStayWhole'
  BY LastRoundsStep
<1> QED
  BY <1>1, <1>2, RawInvariant, PTL DEF RawSpec

\* A purge in which nothing has failed, of the lists of a command in which
\* nothing has: what it has still to do, and what it has done.
RemainInv == ListedInv /\ PurgedInv /\ OnlyTheLatestRemain

\* Nothing is said of the other places of a command.
LEMMA RemainElsewhere ==
  ASSUME pc' \notin {"listing", "purging", "ready"} \/ ~clean'
  PROVE  RemainInv'
BY DEF RemainInv, ListedInv, PurgedInv, OnlyTheLatestRemain

LEMMA RemainPurge ==
  ASSUME ByCount, RawInv, RemainInv, PurgeFilesystem, clean'
  PROVE  RemainInv'
<1>1. PICK f \in unpurged : \E gone :
           /\ unpurged' = unpurged \ {f}
           /\ Destroy(gone)
           /\ \A snap \in gone : \E r \in TaggedRounds(f) :
                snap = <<f, r>> /\ Cardinality(NotOlder(f, r, gone)) >= Setting.value
           /\ clean' => clean /\ Cardinality(LeftRounds(f, gone)) <= Setting.value
  BY PurgeByCount
<1>2. PICK gone :
           /\ unpurged' = unpurged \ {f}
           /\ snapshots' = snapshots \ gone
           /\ versioned' = versioned \ gone
           /\ hooked' = hooked \ gone
           /\ \A snap \in gone : \E r \in TaggedRounds(f) : snap = <<f, r>>
           /\ clean' => clean /\ Cardinality(LeftRounds(f, gone)) <= Setting.value
  BY <1>1, Zenon DEF Destroy
<1>3. /\ pc = "purging" /\ pc' = "purging" /\ clean
      /\ Cardinality(LeftRounds(f, gone)) <= Setting.value
      /\ UNCHANGED <<fs, upgrades>>
  BY <1>2 DEF PurgeFilesystem, nameVars
<1>4. OnZfs' = OnZfs /\ Tagged' = Tagged \ gone
  BY <1>2, <1>3 DEF OnZfs, Tagged
<1>5. \A g \in OnZfs : Adoptable(g) = {}
  BY <1>3 DEF RemainInv, ListedInv
<1>6. \A g : Adoptable(g)' \subseteq Adoptable(g)
  BY <1>2, <1>3 DEF Adoptable
<1>7. ListedInv'
  BY <1>3, <1>4, <1>5, <1>6 DEF ListedInv
<1>8. ASSUME NEW g \in OnZfs, g = f \/ g \notin unpurged
      PROVE  Cardinality(Found(g)') <= Setting.value
  <2>1. CASE g = f
    <3>1. Adoptable(f)' = {}
      BY <1>5, <1>6, <2>1
    <3>2. Found(f)' \subseteq TaggedRounds(f)'
      <4> SUFFICES ASSUME NEW r \in Found(f)', <<f, r>> \notin Tagged' PROVE FALSE
        BY DEF Found, TaggedRounds
      <4>1. /\ <<f, r>> \in snapshots' /\ r \in upgrades'
            /\ <<f, r>> \notin versioned' \ hooked'
        BY DEF Found
      <4>2. <<f, r>> \notin versioned'
        BY <4>1 DEF Tagged
      <4>3. <<f, r>> \in Adoptable(f)'
        BY <4>1, <4>2 DEF Adoptable
      <4> QED
        BY <3>1, <4>3
    <3>3. TaggedRounds(f)' = LeftRounds(f, gone)
      BY <1>4 DEF TaggedRounds, LeftRounds
    <3>4. LeftRounds(f, gone) \in SUBSET Rounds
      BY DEF LeftRounds, TaggedRounds
    <3>5. PICK L : L = LeftRounds(f, gone)
      OBVIOUS
    <3>6. IsFiniteSet(L) /\ Cardinality(L) \in Nat /\ Cardinality(L) <= Setting.value
      BY <1>3, <3>4, <3>5, RoundsAreFinite
    <3>7. PICK F \in SUBSET L : F = Found(f)'
      BY <3>2, <3>3, <3>5
    <3>8. Cardinality(F) <= Cardinality(L) /\ Cardinality(F) \in Nat
      BY <3>6, FS_Subset, FS_CardinalityType
    <3>9. Setting.value \in Int
      BY RawSettingAssumption DEF Settings
    <3>10. Cardinality(F) <= Setting.value
      BY <3>6, <3>8, <3>9
    <3> QED
      BY <2>1, <3>7, <3>10
  <2>2. CASE g # f
    <3>1. g \notin unpurged
      BY <1>8, <2>2
    <3>2. Cardinality(Found(g)) <= Setting.value
      BY <1>3, <3>1 DEF RemainInv, PurgedInv
    <3>3. \A r : <<g, r>> \notin gone
      BY <1>2, <2>2
    <3>4. Found(g)' = Found(g)
      BY <1>2, <1>3, <1>4, <3>3 DEF Found
    <3> QED
      BY <3>2, <3>4
  <2> QED
    BY <2>1, <2>2
<1>9. PurgedInv'
  <2> SUFFICES ASSUME NEW g \in OnZfs, g \notin unpurged'
               PROVE  Cardinality(Found(g)') <= Setting.value
    BY <1>3, <1>4, Zenon DEF PurgedInv
  <2> QED
    BY <1>2, <1>8
<1>10. OnlyTheLatestRemain'
  BY <1>3 DEF OnlyTheLatestRemain
<1> QED
  BY <1>7, <1>9, <1>10 DEF RemainInv

LEMMA RemainStep ==
  ASSUME ByCount, RawInv, RemainInv, [RawNext]_rawVars
  PROVE  RemainInv'
<1>1. CASE Probe \/ ProbeFails \/ FindOtherwise
  BY <1>1, RemainElsewhere DEF Probe, ProbeFails, FindOtherwise, Over
<1>2. CASE ListFilesystemFails \/ TakeSnapshot \/ IndividualSnapshot \/ SetVersion \/ SetHook
  BY <1>2, RemainElsewhere
     DEF ListFilesystemFails, TakeSnapshot, IndividualSnapshot, SetVersion, SetHook
<1>3. CASE SnapshotFails \/ SnapshotsTaken \/ Rollback \/ Exit
  BY <1>3, RemainElsewhere DEF SnapshotFails, SnapshotsTaken, Rollback, Exit, Over
<1>4. CASE FindRawMethod
  <2>1. pc' = "listing" /\ OnZfs' = unlisted'
    BY <1>4 DEF FindRawMethod, OnZfs
  <2> QED
    BY <2>1 DEF RemainInv, ListedInv, PurgedInv, OnlyTheLatestRemain
<1>5. CASE ListFilesystem
  <2>1. PICK f \in unlisted : unlisted' = unlisted \ {f} /\ versioned' = versioned \cup Adoptable(f)
    BY <1>5, Zenon DEF ListFilesystem
  <2>2. pc = "listing" /\ UNCHANGED <<pc, clean, fs, snapshots, upgrades>>
    BY <1>5 DEF ListFilesystem, nameVars
  <2>3. OnZfs' = OnZfs
    BY <2>2 DEF OnZfs
  <2>4. Adoptable(f)' = {} /\ \A g : Adoptable(g)' \subseteq Adoptable(g)
    BY <2>1, <2>2 DEF Adoptable
  <2>5. clean => \A g \in OnZfs \ unlisted : Adoptable(g) = {}
    BY <2>2 DEF RemainInv, ListedInv
  <2>6. clean => \A g \in OnZfs \ unlisted' : Adoptable(g)' = {}
    BY <2>1, <2>4, <2>5
  <2>7. ListedInv'
    BY <2>2, <2>3, <2>6 DEF ListedInv
  <2> QED
    BY <2>2, <2>7 DEF RemainInv, PurgedInv, OnlyTheLatestRemain
<1>6. CASE Listed
  <2>1. /\ pc = "listing" /\ unlisted = {} /\ unpurged' = OnZfs /\ pc' = "purging"
        /\ UNCHANGED <<clean, fs, snapshots, versioned, hooked, upgrades>>
    BY <1>6 DEF Listed, kernelVars, propertyVars, nameVars
  <2>2. OnZfs' = OnZfs /\ \A g : Adoptable(g)' = Adoptable(g)
    BY <2>1 DEF OnZfs, Adoptable
  <2>3. ListedInv'
    BY <2>1, <2>2 DEF RemainInv, ListedInv
  <2> QED
    BY <2>1, <2>2, <2>3 DEF RemainInv, PurgedInv, OnlyTheLatestRemain
<1>7. CASE PurgeFilesystem
  BY <1>7, RemainElsewhere, RemainPurge
<1>8. CASE PurgeEnds
  <2>1. /\ pc = "purging" /\ unpurged = {} /\ pc' = "ready"
        /\ UNCHANGED <<clean, fs, snapshots, versioned, hooked, upgrades>>
    BY <1>8 DEF PurgeEnds, kernelVars, propertyVars, nameVars, contextVars
  <2>2. clean => \A f \in OnZfs : Cardinality(Found(f)) <= Setting.value
    BY <2>1 DEF RemainInv, PurgedInv
  <2>3. OnZfs' = OnZfs /\ Tagged' = Tagged
    BY <2>1 DEF OnZfs, Tagged
  <2>4. OnlyTheLatestRemain'
    BY <2>1, <2>2, <2>3, Zenon DEF OnlyTheLatestRemain, Found
  <2> QED
    BY <2>1, <2>4 DEF RemainInv, ListedInv, PurgedInv
<1>9. CASE Tick \/ UNCHANGED rawVars
  <2>1. UNCHANGED <<pc, clean, fs, snapshots, versioned, hooked, upgrades, unlisted, unpurged>>
    BY <1>9, Zenon DEF Tick, rawVars, kernelVars, propertyVars, nameVars, contextVars
  <2>2. OnZfs' = OnZfs /\ Tagged' = Tagged /\ \A g : Adoptable(g)' = Adoptable(g)
    BY <2>1 DEF OnZfs, Tagged, Adoptable
  <2>3. \A g : Found(g)' = Found(g)
    BY <2>1, <2>2, Zenon DEF Found
  <2>4. OnlyTheLatestRemain'
    BY <2>1, <2>2, Zenon DEF RemainInv, OnlyTheLatestRemain
  <2> QED
    BY <2>1, <2>2, <2>3, <2>4, Zenon DEF RemainInv, ListedInv, PurgedInv
<1> QED
  BY <1>1, <1>2, <1>3, <1>4, <1>5, <1>6, <1>7, <1>8, <1>9, Zenon DEF RawNext

\* After a purge in which nothing failed each file system has no more than N
\* snapshots, those that earlier commands left without properties included.
THEOREM LatestRemain == ByCount => (RawSpec => []OnlyTheLatestRemain)
<1> SUFFICES ASSUME ByCount PROVE RawSpec => []OnlyTheLatestRemain
  OBVIOUS
<1>1. RawInit => RemainInv
  BY DEF RawInit, RemainInv, ListedInv, PurgedInv, OnlyTheLatestRemain
<1>2. RawInv /\ RemainInv /\ [RawNext]_rawVars => RemainInv'
  BY RemainStep
<1>3. RemainInv => OnlyTheLatestRemain
  BY DEF RemainInv
<1> QED
  BY <1>1, <1>2, <1>3, RawInvariant, PTL DEF RawSpec
=============================================================================

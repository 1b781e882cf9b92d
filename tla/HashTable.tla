----------------------------- MODULE HashTable -----------------------------
(***************************************************************************)
(* The hash table of kissc/hashtable.c down to its links: a node is in the *)
(* double linked chain of its bucket and in the double linked list of all  *)
(* nodes, in which the table is gone through and rehashed.  A node is      *)
(* named by its key; hashes are chosen by the instance, so that keys       *)
(* share a bucket or even a hash.                                          *)
(***************************************************************************)
EXTENDS Integers, Sequences, FiniteSets, SequencesExt

CONSTANTS Keys,
          Hash,      \* the hash of each key
          Values,
          MinSize,   \* HASHTABLE_MIN_SIZE
          Null

ASSUME KeysAssumption == IsFiniteSet(Keys) /\ Null \notin Keys \cup Values
ASSUME HashAssumption == Hash \in [Keys -> Nat]
ASSUME MinSizeAssumption == \E n \in 1 .. 16 : MinSize = 2 ^ n

VARIABLES
  capacity,
  chains,          \* nodes, and nNext and nPrev of each node
  gHead, gTail, gNext, gPrev,
  count,
  data,            \* Null for a node that is not allocated
  traversing, it   \* an iterator, or a loop over gNext, and where it is

listVars == <<gHead, gTail, gNext, gPrev>>
iterVars == <<traversing, it>>
hashVars == <<capacity, chains, listVars, count, data, iterVars>>

NoLinks == [k \in Keys |-> Null]
NoNodes(size) == [i \in 0 .. size - 1 |-> Null]

\* "hash & mask", mask being capacity - 1 and capacity a power of two
Index(k, size) == Hash[k] % size

\* The nodes from n on.
Walk(next, n) ==
  LET node[i \in 1 .. Cardinality(Keys)] ==
        IF i = 1 THEN n
        ELSE IF node[i - 1] = Null THEN Null ELSE next[node[i - 1]]
      met == {i \in 1 .. Cardinality(Keys) : node[i] # Null}
  IN  [i \in 1 .. Cardinality(met) |-> node[i]]

Chain(i) == Walk(chains.next, chains.nodes[i])

\* A key is looked for in its bucket only.
HashContains(k) == k \in ToSet(Chain(Index(k, capacity)))

HashInit ==
  /\ capacity = MinSize
  /\ chains = [nodes |-> NoNodes(MinSize), next |-> NoLinks, prev |-> NoLinks]
  /\ gHead = Null /\ gTail = Null /\ gNext = NoLinks /\ gPrev = NoLinks
  /\ count = 0
  /\ data = NoLinks
  /\ traversing = FALSE /\ it = Null

-----------------------------------------------------------------------------
(* Insertion *)

\* Mutant of Prepend: the node that was first is not told.
PrependForward(c, i, n) ==
  [nodes |-> [c.nodes EXCEPT ![i] = n],
   next  |-> [c.next EXCEPT ![n] = c.nodes[i]],
   prev  |-> [c.prev EXCEPT ![n] = Null]]

\* n becomes the first node of the chain of bucket i.
Prepend(c, i, n) ==
  LET second == c.nodes[i] IN
  [nodes |-> [c.nodes EXCEPT ![i] = n],
   next  |-> [c.next EXCEPT ![n] = second],
   prev  |-> [k \in Keys |-> IF k = n THEN Null ELSE IF k = second THEN n ELSE c.prev[k]]]

\* Mutant of RehashIndex: the mask of before the resize.
OldIndex(k, size) == Index(k, size \div 2)

RehashIndex(k, size) == Index(k, size)

\* hashtable_rehash: the buckets are emptied and each node is prepended anew, in
\* the order of the list, which leaves the last one first in its bucket.
Rehashed(c, list, size) ==
  LET table[i \in 0 .. Len(list)] ==
        IF i = 0 THEN [c EXCEPT !.nodes = NoNodes(size)]
        ELSE Prepend(table[i - 1], RehashIndex(list[i], size), list[i])
  IN  table[Len(list)]

\* hashtable_maybe_resize
MaybeResize(inserted) ==
  IF count' < capacity
  THEN capacity' = capacity /\ chains' = inserted
  ELSE capacity' = 2 * capacity /\ chains' = Rehashed(inserted, Walk(gNext', gHead'), capacity')

PutNew(k, v) ==
  /\ ~traversing /\ ~HashContains(k)
  /\ data' = [data EXCEPT ![k] = v]
  /\ gPrev' = [gPrev EXCEPT ![k] = gTail]
  /\ gNext' = [n \in Keys |-> IF n = k THEN Null ELSE IF n = gTail THEN k ELSE gNext[n]]
  /\ gHead' = IF gHead = Null THEN k ELSE gHead
  /\ gTail' = k
  /\ count' = count + 1
  /\ MaybeResize(Prepend(chains, Index(k, capacity), k))
  /\ UNCHANGED iterVars

\* Without HT_PUT_ON_DUP_KEY_PRESERVE the value is replaced, the place in the
\* list is kept; with it nothing changes.
PutExisting(k, v) ==
  /\ ~traversing /\ HashContains(k)
  /\ data' = [data EXCEPT ![k] = v]
  /\ UNCHANGED <<capacity, chains, listVars, count, iterVars>>

-----------------------------------------------------------------------------
(* Deletion *)

Unchain(n) ==
  LET before == chains.prev[n]
      after == chains.next[n]
  IN chains' =
       [nodes |-> IF before = Null
                  THEN [chains.nodes EXCEPT ![Index(n, capacity)] = after] ELSE chains.nodes,
        next  |-> [k \in Keys |-> CASE k = n -> Null [] k = before -> after
                                    [] OTHER -> chains.next[k]],
        prev  |-> [k \in Keys |-> CASE k = n -> Null [] k = after -> before
                                    [] OTHER -> chains.prev[k]]]

Unlist(n) ==
  LET before == gPrev[n]
      after == gNext[n]
  IN /\ gNext' = [k \in Keys |-> CASE k = n -> Null [] k = before -> after [] OTHER -> gNext[k]]
     /\ gPrev' = [k \in Keys |-> CASE k = n -> Null [] k = after -> before [] OTHER -> gPrev[k]]
     /\ gHead' = IF before = Null THEN after ELSE gHead
     /\ gTail' = IF after = Null THEN before ELSE gTail

Free(n) ==
  /\ Unchain(n) /\ Unlist(n)
  /\ count' = count - 1
  /\ data' = [data EXCEPT ![n] = Null]

\* hashtable_delete_real
DeleteKey(k) ==
  /\ ~traversing /\ HashContains(k)
  /\ Free(k)
  /\ UNCHANGED <<capacity, iterVars>>

\* hashtable_clear_real: the capacity is kept.
ClearTable ==
  /\ ~traversing
  /\ gHead' = Null /\ gTail' = Null /\ gNext' = NoLinks /\ gPrev' = NoLinks
  /\ count' = 0
  /\ data' = NoLinks
  /\ chains' = [nodes |-> NoNodes(capacity), next |-> NoLinks, prev |-> NoLinks]
  /\ UNCHANGED <<capacity, iterVars>>

-----------------------------------------------------------------------------
(* Going through the table *)

IteratorFirst ==
  /\ ~traversing
  /\ traversing' = TRUE /\ it' = gHead
  /\ UNCHANGED <<capacity, chains, listVars, count, data>>

IteratorNext ==
  /\ traversing /\ it # Null
  /\ it' = gNext[it]
  /\ UNCHANGED <<capacity, chains, listVars, count, data, traversing>>

\* hashtable_delete_node in the loop of its comment
DeleteNode ==
  /\ traversing /\ it # Null
  /\ Free(it)
  /\ it' = gNext[it]
  /\ UNCHANGED <<capacity, traversing>>

IteratorClose ==
  /\ traversing /\ it = Null
  /\ traversing' = FALSE
  /\ UNCHANGED <<capacity, chains, listVars, count, data, it>>

-----------------------------------------------------------------------------
HashNext ==
  \/ \E k \in Keys, v \in Values : PutNew(k, v) \/ PutExisting(k, v)
  \/ \E k \in Keys : DeleteKey(k)
  \/ ClearTable
  \/ IteratorFirst \/ IteratorNext \/ DeleteNode \/ IteratorClose

HashSpec == HashInit /\ [][HashNext]_hashVars

-----------------------------------------------------------------------------
(* Properties *)

DoublyLinked(forward, backward) ==
  /\ IsInjective(forward)
  /\ backward = Reverse(forward)

\* Each allocated node is in the chain of its bucket and in the list, once, and
\* both can be walked in the two directions; there are count nodes, and fewer
\* than buckets (hashtable_put_real, hashtable_rehash, hashtable_delete_node).
InBothLists ==
  LET allocated == {k \in Keys : data[k] # Null}
      list == Walk(gNext, gHead)
  IN
  /\ ToSet(list) = allocated
  /\ DoublyLinked(list, Walk(gPrev, gTail))
  /\ count = Len(list) /\ count < capacity
  /\ \A i \in 0 .. capacity - 1 :
       LET chain == Chain(i) IN
       /\ ToSet(chain) = {k \in allocated : Index(k, capacity) = i}
       /\ chain # <<>> => DoublyLinked(chain, Walk(chains.prev, Last(chain)))

\* Looked up by its buckets and gone through by its list, the table is a map
\* that remembers its order, as HashPromise has it.
MapPromise == INSTANCE HashPromise WITH
  value <- [k \in Keys |-> IF HashContains(k) THEN data[k] ELSE Null],
  order <- Walk(gNext, gHead),
  ahead <- Walk(gNext, it)

KeepsMapPromise == MapPromise!PromiseSpec

=============================================================================

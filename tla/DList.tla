-------------------------------- MODULE DList --------------------------------
(***************************************************************************)
(* The double linked list of kissc/dlist.c, down to its pointers, with the *)
(* iterator it provides (dlist_to_iterator) and iterator_reject            *)
(* (kissc/iterator.c): the operations the plugins call, and the removal of *)
(* either end.                                                             *)
(*                                                                         *)
(* malloc gives any cell that is not in the list.  A freed cell holds      *)
(* nothing, but for one that is read: its old content, or a crash.         *)
(***************************************************************************)
EXTENDS Integers, Sequences, FiniteSets, SequencesExt

CONSTANTS Cells, Null,
          Data, Key    \* what the elements hold, and what they are sorted by

ASSUME CellsAssumption == IsFiniteSet(Cells)
ASSUME NullAssumption == Null \notin Cells \cup Data
ASSUME KeyAssumption == Key \in [Data -> Int]

VARIABLES
  live,          \* the cells that are allocated
  next, prev, data,
  head, tail, length,
  mode,          \* what the client is in
  cur, bound, swapped,  \* dlist_sort: cur, tmp, swapped
  it,            \* the state of the iterator
  reject, visited, before  \* iterator_reject: what the callback selects, the
                 \* elements it was called on and (history) the list at first

linkVars == <<live, next, prev, data, head, tail, length>>
sortVars == <<cur, bound, swapped>>
iterVars == <<it, reject, visited, before>>
listVars == <<linkVars, mode, sortVars, iterVars>>

\* The cells met from a cell on, following a link.
Walk(link, from) ==
  LET cell[i \in 1 .. Cardinality(Cells)] ==
        IF i = 1 THEN from
        ELSE IF cell[i - 1] = Null THEN Null ELSE link[cell[i - 1]]
      met == {i \in 1 .. Cardinality(Cells) : cell[i] # Null}
  IN  [i \in 1 .. Cardinality(met) |-> cell[i]]

Values(cells) == [i \in DOMAIN cells |-> data[cells[i]]]
Forward == Values(Walk(next, head))

ListInit ==
  /\ live = {}
  /\ next = [c \in Cells |-> Null]
  /\ prev = [c \in Cells |-> Null]
  /\ data = [c \in Cells |-> Null]
  /\ head = Null /\ tail = Null /\ length = 0
  /\ mode = "idle"
  /\ cur = Null /\ bound = Null /\ swapped = FALSE
  /\ it = Null /\ reject = {} /\ visited = <<>> /\ before = <<>>

\* Assigns a field of a cell, unless the pointer is NULL.
Set(field, c, value) == IF c = Null THEN field ELSE [field EXCEPT ![c] = value]

Called == mode = "idle" /\ UNCHANGED <<mode, sortVars, iterVars>>

-----------------------------------------------------------------------------
(* The operations that take effect at once *)

\* Mutant of DListAppend: the new tail does not point back.
DListAppendForward(c, d) ==
  /\ Called
  /\ c \notin live
  /\ live' = live \cup {c}
  /\ data' = [data EXCEPT ![c] = d]
  /\ next' = [Set(next, tail, c) EXCEPT ![c] = Null]
  /\ UNCHANGED prev
  /\ head' = IF tail = Null THEN c ELSE head
  /\ tail' = c
  /\ length' = length + 1

DListAppend(c, d) ==
  /\ Called
  /\ c \notin live
  /\ live' = live \cup {c}
  /\ data' = [data EXCEPT ![c] = d]
  /\ next' = [Set(next, tail, c) EXCEPT ![c] = Null]
  /\ prev' = [prev EXCEPT ![c] = tail]
  /\ head' = IF tail = Null THEN c ELSE head
  /\ tail' = c
  /\ length' = length + 1

Free(c) ==
  /\ live' = live \ {c}
  /\ data' = [data EXCEPT ![c] = Null]
  /\ length' = length - 1

\* dlist_remove_link: the new head or tail loses its link to the element twice.
Unlink(c) ==
  LET next1 == Set(next, prev[c], next[c])
      prev1 == Set(prev, next[c], prev[c])
      head1 == IF c = head THEN next1[c] ELSE head
      prev2 == IF c = head THEN Set(prev1, head1, Null) ELSE prev1
      tail1 == IF c = tail THEN prev2[c] ELSE tail
      next2 == IF c = tail THEN Set(next1, tail1, Null) ELSE next1
  IN  /\ next' = [next2 EXCEPT ![c] = Null]
      /\ prev' = [prev2 EXCEPT ![c] = Null]
      /\ head' = head1
      /\ tail' = tail1
      /\ Free(c)

RemoveLink(c) ==
  /\ Called
  /\ c \in live
  /\ Unlink(c)

RemoveHead ==
  /\ Called
  /\ head # Null
  /\ head' = next[head]
  /\ prev' = Set(prev, next[head], Null)
  /\ tail' = IF next[head] = Null THEN Null ELSE tail
  /\ next' = [next EXCEPT ![head] = Null]
  /\ Free(head)

\* Mutant of RemoveTail: the last element that remains still has a successor.
RemoveTailLinked ==
  /\ Called
  /\ tail # Null
  /\ tail' = prev[tail]
  /\ head' = IF prev[tail] = Null THEN Null ELSE head
  /\ prev' = [prev EXCEPT ![tail] = Null]
  /\ UNCHANGED next
  /\ Free(tail)

RemoveTail ==
  /\ Called
  /\ tail # Null
  /\ tail' = prev[tail]
  /\ next' = Set(next, prev[tail], Null)
  /\ head' = IF prev[tail] = Null THEN Null ELSE head
  /\ prev' = [prev EXCEPT ![tail] = Null]
  /\ Free(tail)

Clear ==
  LET freed == Range(Walk(next, head)) IN
  /\ Called
  /\ live' = live \ freed
  /\ next' = [c \in Cells |-> IF c \in freed THEN Null ELSE next[c]]
  /\ prev' = [c \in Cells |-> IF c \in freed THEN Null ELSE prev[c]]
  /\ data' = [c \in Cells |-> IF c \in freed THEN Null ELSE data[c]]
  /\ head' = Null /\ tail' = Null /\ length' = 0

-----------------------------------------------------------------------------
(* dlist_sort *)

SortStart ==
  /\ mode = "idle"
  /\ head # Null
  /\ mode' = "sorting"
  /\ cur' = head /\ bound' = Null /\ swapped' = FALSE
  /\ UNCHANGED <<linkVars, iterVars>>

\* Mutant of SortCompare: the first pair of a pass is not compared.
SortCompareFromSecond ==
  /\ mode = "sorting"
  /\ next[cur] # bound
  /\ IF cur # head /\ Key[data[cur]] > Key[data[next[cur]]]
     THEN /\ data' = [data EXCEPT ![cur] = data[next[cur]], ![next[cur]] = data[cur]]
          /\ swapped' = TRUE
     ELSE UNCHANGED <<data, swapped>>
  /\ cur' = next[cur]
  /\ UNCHANGED <<live, next, prev, head, tail, length, mode, bound, iterVars>>

SortCompare ==
  /\ mode = "sorting"
  /\ next[cur] # bound
  /\ IF Key[data[cur]] > Key[data[next[cur]]]
     THEN /\ data' = [data EXCEPT ![cur] = data[next[cur]], ![next[cur]] = data[cur]]
          /\ swapped' = TRUE
     ELSE UNCHANGED <<data, swapped>>
  /\ cur' = next[cur]
  /\ UNCHANGED <<live, next, prev, head, tail, length, mode, bound, iterVars>>

\* The end of a pass, the next of which stops where this one did.
SortPass ==
  /\ mode = "sorting"
  /\ next[cur] = bound
  /\ IF swapped
     THEN cur' = head /\ bound' = cur /\ UNCHANGED mode
     ELSE cur' = Null /\ bound' = Null /\ mode' = "idle"
  /\ swapped' = FALSE
  /\ UNCHANGED <<linkVars, iterVars>>

-----------------------------------------------------------------------------
(* iterator_reject on a list: iterator_first, then for each element the      *)
(* callback, dlist_iterator_delete if it says so, and dlist_iterator_next    *)

RejectStart ==
  /\ mode = "idle"
  /\ mode' = "rejecting"
  /\ it' = head
  /\ reject' \in SUBSET Data
  /\ before' = Forward
  /\ UNCHANGED <<linkVars, sortVars, visited>>

RejectKeep ==
  /\ mode = "rejecting"
  /\ it # Null
  /\ data[it] \notin reject
  /\ visited' = Append(visited, data[it])
  /\ it' = next[it]
  /\ UNCHANGED <<linkVars, mode, sortVars, reject, before>>

\* Mutant of AfterDelete: the iterator is left on the successor.
AfterDeleteSkips(c) == IF next[c] = Null THEN Null ELSE next[next[c]]

\* dlist_iterator_delete leaves the iterator on the element before, of which
\* dlist_iterator_next then takes the successor; when the head is deleted, the
\* iterator is left on the head itself, freed, and its link is still there.
AfterDelete(c) == IF prev[c] = Null THEN next[c] ELSE next'[prev[c]]

RejectDelete ==
  /\ mode = "rejecting"
  /\ it # Null
  /\ data[it] \in reject
  /\ visited' = Append(visited, data[it])
  /\ Unlink(it)
  /\ it' = AfterDelete(it)
  /\ UNCHANGED <<mode, sortVars, reject, before>>

\* ... or the memory is not.
RejectCrash ==
  /\ mode = "rejecting"
  /\ it # Null
  /\ data[it] \in reject
  /\ prev[it] = Null
  /\ mode' = "crashed"
  /\ UNCHANGED <<linkVars, sortVars, iterVars>>

RejectEnd ==
  /\ mode = "rejecting"
  /\ it = Null
  /\ mode' = "idle"
  /\ reject' = {} /\ visited' = <<>> /\ before' = <<>>
  /\ UNCHANGED <<linkVars, sortVars, it>>

-----------------------------------------------------------------------------
ListStep ==
  SortCompare \/ SortPass \/ RejectKeep \/ RejectDelete \/ RejectCrash \/ RejectEnd

ListNext ==
  \/ \E c \in Cells, d \in Data : DListAppend(c, d)
  \/ \E c \in Cells : RemoveLink(c)
  \/ RemoveHead \/ RemoveTail \/ Clear
  \/ SortStart \/ RejectStart
  \/ ListStep

ListSpec == ListInit /\ [][ListNext]_listVars

-----------------------------------------------------------------------------
(* Properties *)

\* dlist_to_iterator: "loop, in both directions, on the elements".  Each
\* direction reaches every element that is allocated, once, and one is the
\* reverse of the other; dlist_length, which counts nothing, agrees with both.
BothDirections ==
  LET elements == Walk(next, head) IN
  /\ Range(elements) = live
  /\ IsInjective(elements)
  /\ Walk(prev, tail) = Reverse(elements)
  /\ length = Len(elements)

\* dlist_sort leaves the list sorted, though each pass stops where the last one
\* ended.
Sorted ==
  [][mode = "sorting" /\ mode' = "idle" =>
       \A i, j \in DOMAIN Forward : i < j => Key[Forward[i]] <= Key[Forward[j]]]_listVars

\* What is left of a list without the selected elements
Unselected(list, selected) ==
  LET kept[n \in 0 .. Len(list)] ==
        IF n = 0 THEN <<>>
        ELSE IF list[n] \in selected THEN kept[n - 1] ELSE Append(kept[n - 1], list[n])
  IN  kept[Len(list)]

\* iterator_reject calls the callback once on each element, in order, though it
\* deletes elements under the iterator, and deletes those the callback selects.
RejectsWhatIsSelected ==
  mode = "rejecting" =>
    LET ahead == IF it = Null THEN <<>> ELSE Values(Walk(next, it)) IN
    /\ visited \o ahead = before
    /\ Forward = Unselected(visited, reject) \o ahead

\* Seen through its forward links the list is a sequence, as DListPromise has it.
Promise == INSTANCE DListPromise WITH list <- Forward

KeepsListPromise == Promise!PromiseSpec

=============================================================================

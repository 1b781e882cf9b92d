---------------------------- MODULE HashPromise ----------------------------
(***************************************************************************)
(* What a hash table of kissc/hashtable.c promises: it is a map from keys  *)
(* to values that remembers the order in which keys came in, and it can be *)
(* gone through in that order, elements being deleted on the way.          *)
(***************************************************************************)
EXTENDS Integers, Sequences, SequencesExt

CONSTANTS Keys, Values, Null

VARIABLES value,   \* Null where there is none
          order,
          ahead    \* what a traversal has still to meet

promiseVars == <<value, order, ahead>>

PromiseInit == value = [k \in Keys |-> Null] /\ order = <<>> /\ ahead = <<>>

Put(k, v) ==
  /\ ahead = <<>>
  /\ value' = [value EXCEPT ![k] = v]
  /\ order' = IF value[k] = Null THEN Append(order, k) ELSE order
  /\ UNCHANGED ahead

Forget(k) ==
  /\ value' = [value EXCEPT ![k] = Null]
  /\ \E i \in DOMAIN order : order[i] = k /\ order' = RemoveAt(order, i)

Delete(k) == ahead = <<>> /\ Forget(k) /\ UNCHANGED ahead

Clear ==
  /\ ahead = <<>>
  /\ value' = [k \in Keys |-> Null] /\ order' = <<>>
  /\ UNCHANGED ahead

Traverse == ahead = <<>> /\ ahead' = order /\ UNCHANGED <<value, order>>

Meet ==
  /\ ahead # <<>>
  /\ ahead' = Tail(ahead)
  /\ Forget(Head(ahead)) \/ UNCHANGED <<value, order>>

PromiseNext ==
  \/ Clear \/ Traverse \/ Meet
  \/ \E k \in Keys : Delete(k) \/ \E v \in Values : Put(k, v)

PromiseSpec == PromiseInit /\ [][PromiseNext]_promiseVars
=============================================================================

---------------------------- MODULE DListPromise ----------------------------
(***************************************************************************)
(* What a double linked list of kissc/dlist.c promises: it is a sequence.  *)
(* An element comes in at its end, one leaves or they all do, and sorting  *)
(* exchanges neighbours that are out of order.                             *)
(***************************************************************************)
EXTENDS Integers, Sequences, SequencesExt

CONSTANTS Data, Key

VARIABLE list

PromiseInit == list = <<>>

Put == \E d \in Data : list' = Append(list, d)

Delete == \E i \in DOMAIN list : list' = RemoveAt(list, i)

Empty == list' = <<>>

Exchange ==
  \E i \in 1 .. Len(list) - 1 :
    /\ Key[list[i]] > Key[list[i + 1]]
    /\ list' = [list EXCEPT ![i] = list[i + 1], ![i + 1] = list[i]]

PromiseSpec == PromiseInit /\ [][Empty \/ Put \/ Delete \/ Exchange]_list
=============================================================================

-------------------------- MODULE MCListsAndQueries --------------------------
(***************************************************************************)
(* The list, the boot environments that are listed in it, and a query of   *)
(* the history: three instances that share no state, in one run.  A        *)
(* behaviour is of one of them, the others staying as they are at first.   *)
(* The actions of ListNext and QueryNext are named one by one, so that TLC *)
(* counts each; those of Next are counted in the other run of              *)
(* BootEnvironments.  Nothing is asked here that needs fairness.           *)
(***************************************************************************)
EXTENDS MCDList, MCBootEnvironments, MCHistoryQuery

VARIABLE part    \* which of the three takes the steps

OfList == part = "list" /\ UNCHANGED <<part, zintVars, queryVars>>
OfZint == part = "zint" /\ UNCHANGED <<part, listVars, queryVars>>
OfQuery == part = "query" /\ UNCHANGED <<part, listVars, zintVars>>

AllInit == part \in {"list", "zint", "query"} /\ ListInit /\ Init /\ QueryInit

AllNext ==
  \/ OfList /\ \E cell \in Cells, d \in Data : DListAppend(cell, d)
  \/ OfList /\ \E cell \in Cells : RemoveLink(cell)
  \/ OfList /\ RemoveHead
  \/ OfList /\ RemoveTail
  \/ OfList /\ Clear
  \/ OfList /\ SortStart
  \/ OfList /\ SortCompare
  \/ OfList /\ SortPass
  \/ OfList /\ RejectStart
  \/ OfList /\ RejectKeep
  \/ OfList /\ RejectDelete
  \/ OfList /\ RejectCrash
  \/ OfList /\ RejectEnd
  \/ OfList /\ mode = "crashed" /\ UNCHANGED listVars    \* it does nothing more
  \/ OfZint /\ Next
  \/ OfQuery /\ Flag
  \/ OfQuery /\ LimitOption
  \/ OfQuery /\ Period
  \/ OfQuery /\ EndOfOptions
  \/ OfQuery /\ ShowsNothing
  \/ OfQuery /\ ExecuteStatement
  \/ OfQuery /\ DisplayHistoryFull
  \/ OfQuery /\ DisplayHistorySearch
  \/ OfQuery /\ EndOfRows
  \/ OfQuery /\ StepFails
  \/ OfQuery /\ phase \in {"over", "invalid", "failed"} /\ UNCHANGED queryVars    \* it ended

AllSpec == AllInit /\ [][AllNext]_<<part, listVars, zintVars, queryVars>>
=============================================================================

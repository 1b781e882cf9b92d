------------------------------ MODULE MCDList ------------------------------
(* Lists of up to four elements, two of three values being equal for the sort. *)
EXTENDS DList

CONSTANTS c1, c2, c3, c4, v1, v2, v3

MCCells == {c1, c2, c3, c4}
MCData == {v1, v2, v3}
MCKey == [d \in MCData |-> IF d = v1 THEN 1 ELSE 2]
=============================================================================

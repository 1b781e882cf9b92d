---------------------------- MODULE MCHashTable ----------------------------
(* Keys that share a bucket until the first resize, until the second, for    *)
(* ever, and never.                                                          *)
EXTENDS HashTable

CONSTANTS a, b, c, d, e, x, y

MCKeys == {a, b, c, d, e}
MCHash == [k \in MCKeys |-> CASE k = a -> 0 [] k = b -> 2 [] k = c -> 4 [] k = d -> 4
                             [] k = e -> 1]
MCValues == {x, y}
=============================================================================

------------------------------ MODULE MCHistory ------------------------------
(* Two commands, of two packages and of one, and two readers, one run by root. *)
EXTENDS History

CONSTANTS w1, w2, r1, r2

MCWriters == {w1, w2}
MCReaders == {r1, r2}
MCProcs == MCWriters \cup MCReaders
MCRoot == {w1, w2, r1}
MCJobs == [w \in MCWriters |-> IF w = w1 THEN 2 ELSE 1]
=============================================================================

------------------------------ MODULE Retention ------------------------------
(***************************************************************************)
(* RETENTION of zint.conf and what it makes of a list of snapshots:        *)
(* plugins/zfs_integration/retention.c, the comparator of snapshot.c and   *)
(* the selection purge_snapshots makes (plugin_zfs_integration.c).         *)
(*                                                                         *)
(* A snapshot is a record with at least a field "creation"; instants and   *)
(* periods are in the same unit, and uint64_t is 0 .. Word - 1.            *)
(***************************************************************************)
EXTENDS Integers, Sequences, FiniteSets, SequencesExt

CONSTANT Word   \* 2^64

ASSUME WordAssumption == Word \in Nat \ {0}

\* How a value of RETENTION is written: "number" stands for an integer, for a
\* string that is one and for "" (0), "quantity" for a number and a unit, of
\* which "unit" is the length (0 for a word that is not a unit).
Settings == [form : {"absent", "number", "quantity", "out_of_range", "other_type"},
             value : Int, unit : Nat]

Disabled == [type |-> "DISABLED", limit |-> 0]
Malformed == [type |-> "error", limit |-> 0]

\* Mutant of Limit: the sign of the period is lost.
LimitInTheFuture(time, period) == (time + period) % Word

\* The subtraction is on uint64_t.
Limit(time, period) == (time - period) % Word

RetentionParse(setting, time) ==
  CASE setting.form = "absent" -> Disabled
    [] setting.form = "number" /\ setting.value > 0 ->
         [type |-> "BY_COUNT", limit |-> setting.value]
    [] setting.form = "number" /\ setting.value <= 0 -> Disabled
    [] setting.form = "quantity" /\ setting.value > 0 /\ setting.unit > 0 ->
         [type |-> "BY_CREATION",
          limit |-> Limit(time, setting.value * setting.unit)]
    [] OTHER -> Malformed

-----------------------------------------------------------------------------
(* The callbacks; "state" counts the snapshots kept so far *)

\* Mutant of Keep: <= instead of <.
KeepOneMore(retention, creation, state) ==
  CASE retention.type = "DISABLED"    -> TRUE
    [] retention.type = "BY_COUNT"    -> state <= retention.limit
    [] retention.type = "BY_CREATION" -> creation >= retention.limit

Keep(retention, creation, state) ==
  CASE retention.type = "DISABLED"    -> TRUE
    [] retention.type = "BY_COUNT"    -> state < retention.limit
    [] retention.type = "BY_CREATION" -> creation >= retention.limit

NextState(retention, creation, state) ==
  IF retention.type = "BY_COUNT" /\ Keep(retention, creation, state)
  THEN state + 1 ELSE state

\* iterator_reject with retention_filter_callback takes the snapshots that are
\* kept out of the list: what is left is to be destroyed.
RejectKept(retention, list) ==
  LET gone[n \in 0 .. Len(list)] ==
        IF n = 0 THEN [state |-> 0, doomed |-> <<>>]
        ELSE LET acc == gone[n - 1]
                 snap == list[n]
             IN [state |-> NextState(retention, snap.creation, acc.state),
                 doomed |-> IF Keep(retention, snap.creation, acc.state)
                            THEN acc.doomed ELSE Append(acc.doomed, snap)]
  IN gone[Len(list)].doomed

\* snapshot_compare_by_creation_date_desc > 0: b is to come before a.
Later(a, b) == b.creation > a.creation

\* Mutant of SortDesc: the list is left as the methods build it.
Unsorted(list) == list

\* dlist_sort is stable: a snapshot is preceded by the later ones and by those
\* of its time that were before it.
Precedes(list, i, j) ==
  Later(list[j], list[i]) \/ (~Later(list[i], list[j]) /\ i < j)

SortDesc(list) ==
  LET before(j) == {i \in DOMAIN list : Precedes(list, i, j)}
  IN  [n \in DOMAIN list |->
         list[CHOOSE j \in DOMAIN list : Cardinality(before(j)) = n - 1]]

\* The snapshots of one file system that purge_snapshots destroys, the last
\* one first.
Doomed(retention, list) == RejectKept(retention, SortDesc(list))
=============================================================================

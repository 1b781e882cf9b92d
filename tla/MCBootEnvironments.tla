------------------------- MODULE MCBootEnvironments -------------------------
(***************************************************************************)
(* Small machines for BootEnvironments.                                    *)
(***************************************************************************)
EXTENDS BootEnvironments

CONSTANTS p1, p2

MCUpgrade == {<<"pre", "upgrade">>}

MCKeepOne == [form |-> "number", value |-> 1, unit |-> 0]
MCOneDay == [form |-> "quantity", value |-> 1, unit |-> 1]
=============================================================================

----------------------------- MODULE MCRcOrder -----------------------------
EXTENDS RcOrder

CONSTANTS s1, s2, s3, virtual, k1, k2

MCScripts == {s1, s2, s3}

\* each script provides its own name, two of them another one as well
MCNames == MCScripts \cup {virtual}
MCProvided == [s \in MCScripts |-> {s} \cup (IF s = s1 THEN {} ELSE {virtual})]

MCPackaged == {s1, s2}
MCKeywords == {k1, k2}
=============================================================================

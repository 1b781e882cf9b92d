--------------------------- MODULE HistoryProofs ---------------------------
(***************************************************************************)
(* Proofs about History for any set of commands and readers, any number of *)
(* packages and whatever fails: a command is recorded whole or not at all, *)
(* what its hook returns tells which, and it is recorded when nobody       *)
(* disturbs its hook.  And about HistoryQuery, for any options and any     *)
(* history: which lines are displayed, in which order and below which      *)
(* command.                                                                *)
(***************************************************************************)
EXTENDS History, HistoryQuery, SequenceTheorems, FiniteSetTheorems, WellFoundedInduction,
        TLAPS

-----------------------------------------------------------------------------
(* The inductive invariant *)

\* Where the transaction of a command is open.
Recording == {"line", "commit", "committing"}

NotYet(w) == pc[w] \in {"idle"} \cup InHook
Absent(w) == LinesOf(w) = {}
Whole(w) == \E n \in Nat : LinesOf(w) = AllLines(w, n)

TypesInv ==
  /\ commands \in Seq(Writers)
  /\ pc \in [Procs -> Places]
  /\ at \in [Procs -> Nat]
  /\ made \in [Writers -> BOOLEAN]
  /\ id \in [Procs -> Nat]
  /\ added \in [Writers -> SUBSET Nat]
  /\ status \in [Procs -> {"none", "ok", "fatal", "died", "killed"}]

\* libpkg's lock: one POST hook at a time.
HookInv == \A v, w \in Writers : pc[v] \in InHook /\ pc[w] \in InHook => v = w

\* A command that has not committed has left no trace, and returned nothing yet.
TraceInv ==
  \A w \in Writers : NotYet(w) =>
    /\ Absent(w)
    /\ \A i \in DOMAIN commands : commands[i] # w
    /\ status[w] = "none"

\* The transaction holds the packages that were gone through, and the row of the
\* command, if it was made, is to be the next of the table.
TransactionInv ==
  \A w \in Writers :
    /\ pc[w] \in Recording =>
         /\ at[w] \in 1 .. Jobs[w] + 1
         /\ added[w] = 1 .. at[w] - 1
         /\ pc[w] = "line" <=> at[w] <= Jobs[w]
    /\ pc[w] \notin Recording => added[w] = {} /\ ~made[w]
    /\ made[w] => id[w] = Len(commands) + 1

\* What was committed, and what was returned.
RecordInv ==
  /\ \A i \in DOMAIN commands : LinesOf(commands[i]) = AllLines(commands[i], i)
  /\ \A w \in Writers :
       /\ pc[w] \notin {"query", "reading"}
       /\ status[w] = "ok" => Whole(w)
       /\ status[w] \in {"fatal", "died", "killed"} => Absent(w)
       /\ Absent(w) \/ Whole(w)
       /\ pc[w] \notin {"idle"} \cup InHook => status[w] # "none"

HistoryInv == TypesInv /\ HookInv /\ TraceInv /\ TransactionInv /\ RecordInv

-----------------------------------------------------------------------------
(* What a step does to the invariant *)

LEMMA WritersAreProcs ==
  Writers \subseteq Procs /\ Readers \subseteq Procs /\ Readers \cap Writers = {}
BY ProcsAssumption

\* The packages of a command are at least one.
LEMMA AllLinesFacts ==
  ASSUME NEW w \in Writers, NEW n
  PROVE  AllLines(w, n) # {}
<1>1. Jobs[w] \in Nat \ {0}
  BY JobsAssumption
<1>2. <<n, w, 1>> \in AllLines(w, n)
  BY <1>1 DEF AllLines
<1> QED
  BY <1>2

LEMMA SameTrace ==
  ASSUME UNCHANGED tableVars
  PROVE  \A w \in Writers : UNCHANGED <<LinesOf(w), Absent(w), Whole(w)>>
BY DEF tableVars, LinesOf, Absent, Whole

\* A process gets on, without a change of what is recorded or about to be.
LEMMA MovesOn ==
  ASSUME HistoryInv, NEW p \in Procs, NEW place \in Places, Goto(p, place),
         UNCHANGED <<tableVars, made, added, status>>,
         at' \in [Procs -> Nat], id' \in [Procs -> Nat],
         \A q \in Procs : q # p => at'[q] = at[q] /\ id'[q] = id[q],
         p \in Writers => pc[p] \in InHook \ Recording /\ place \in InHook \ Recording
  PROVE  HistoryInv'
<1> USE WritersAreProcs DEF HistoryInv
<1>1. pc'[p] = place /\ \A q \in Procs : q # p => pc'[q] = pc[q]
  BY DEF Goto, TypesInv
<1>2. TypesInv'
  BY DEF TypesInv, Goto, tableVars
<1>3. HookInv'
  BY <1>1 DEF HookInv
<1>4. TraceInv'
  BY <1>1, SameTrace DEF TraceInv, NotYet, tableVars
<1>5. TransactionInv'
  BY <1>1 DEF TransactionInv, tableVars
<1>6. RecordInv'
  <2>1. \A i \in DOMAIN commands : commands[i] \in Writers
    BY DEF TypesInv
  <2>2. \A i \in DOMAIN commands : LinesOf(commands[i])' = AllLines(commands[i], i)
    BY <2>1, SameTrace DEF RecordInv, tableVars
  <2>3. InHook \cap {"query", "reading"} = {}
    BY DEF InHook
  <2> QED
    BY <1>1, <2>2, <2>3, SameTrace DEF RecordInv, tableVars
<1> QED
  BY <1>2, <1>3, <1>4, <1>5, <1>6

\* The hook fails, or a process is gone: it forgets its transaction.
LEMMA Leaves ==
  ASSUME HistoryInv, NEW p \in Procs, NEW place \in {"leaving", "over"}, Goto(p, place),
         UNCHANGED tableVars, Forget(p),
         NEW how \in {"none", "ok", "fatal", "died", "killed"},
         status' = [status EXCEPT ![p] = how],
         p \in Writers =>
           \/ pc[p] \in InHook /\ how \in {"fatal", "died", "killed"}
           \/ pc[p] = "leaving" /\ how = status[p]
  PROVE  HistoryInv'
<1> USE WritersAreProcs DEF HistoryInv
<1>0. place \in Places /\ place \notin {"idle", "query", "reading"} \cup InHook \cup Recording
      /\ "leaving" \notin InHook \cup {"idle"}
  BY DEF Places, InHook, Recording
<1>1. /\ pc'[p] = place /\ \A q \in Procs : q # p => pc'[q] = pc[q]
      /\ status'[p] = how /\ \A q \in Procs : q # p => status'[q] = status[q]
  BY DEF Goto, TypesInv
<1>2. /\ \A q \in Procs : q # p => at'[q] = at[q] /\ id'[q] = id[q]
      /\ \A w \in Writers : w # p => made'[w] = made[w] /\ added'[w] = added[w]
      /\ p \in Writers => made'[p] = FALSE /\ added'[p] = {}
  BY DEF Forget, TypesInv
<1>3. TypesInv'
  <2>1. /\ at' \in [Procs -> Nat] /\ id' \in [Procs -> Nat]
        /\ made' \in [Writers -> BOOLEAN] /\ added' \in [Writers -> SUBSET Nat]
    BY DEF TypesInv, Forget
  <2>2. /\ pc' \in [Procs -> Places] /\ commands' \in Seq(Writers)
        /\ status' \in [Procs -> {"none", "ok", "fatal", "died", "killed"}]
    BY <1>0 DEF TypesInv, Goto, tableVars
  <2> QED
    BY <2>1, <2>2 DEF TypesInv
<1>4. HookInv'
  BY <1>0, <1>1 DEF HookInv
<1>5. TraceInv'
  BY <1>0, <1>1, SameTrace DEF TraceInv, NotYet, tableVars
<1>6. TransactionInv'
  BY <1>0, <1>1, <1>2 DEF TransactionInv, tableVars
<1>7. RecordInv'
  <2>1. \A i \in DOMAIN commands : commands[i] \in Writers
    BY DEF TypesInv
  <2>2. \A i \in DOMAIN commands' : LinesOf(commands[i])' = AllLines(commands[i], i)
    BY <2>1, SameTrace DEF RecordInv, tableVars
  <2>3. ASSUME NEW w \in Writers
        PROVE  /\ pc'[w] \notin {"query", "reading"}
               /\ status'[w] = "ok" => Whole(w)'
               /\ status'[w] \in {"fatal", "died", "killed"} => Absent(w)'
               /\ Absent(w)' \/ Whole(w)'
               /\ pc'[w] \notin {"idle"} \cup InHook => status'[w] # "none"
    <3>1. CASE w # p
      BY <1>1, <3>1, SameTrace DEF RecordInv
    <3>2. CASE w = p
      <4>1. how # "ok" \/ how = status[w]
        BY <3>2
      <4>2. how \in {"fatal", "died", "killed"} => Absent(w)
        BY <3>2 DEF RecordInv, TraceInv, NotYet
      <4>3. how # "none"
        BY <1>0, <3>2 DEF RecordInv
      <4>4. how = "ok" => Whole(w)
        BY <3>2, <4>1 DEF RecordInv
      <4> QED
        BY <1>0, <1>1, <3>2, <4>2, <4>3, <4>4, SameTrace DEF RecordInv
    <3> QED
      BY <3>1, <3>2
  <2> QED
    BY <2>2, <2>3 DEF RecordInv, tableVars
<1> QED
  BY <1>3, <1>4, <1>5, <1>6, <1>7

LEMMA FailLeaves ==
  ASSUME HistoryInv, NEW p \in Procs, Failing(p), p \in Writers => pc[p] \in InHook
  PROVE  HistoryInv'
BY Leaves DEF Failing

LEMMA EndLeaves ==
  ASSUME HistoryInv, NEW p \in Procs, NEW how \in {"died", "killed"}, End(p, how),
         p \in Writers => pc[p] \in InHook
  PROVE  HistoryInv'
BY Leaves DEF End

\* The hook begins when no other one is running.
LEMMA StartBegins ==
  ASSUME HistoryInv, NEW p \in Procs, Start(p)
  PROVE  HistoryInv'
<1> USE WritersAreProcs DEF HistoryInv
<1>0. "open" \in Places /\ "open" \in InHook \ Recording
  BY DEF Places, InHook, Recording
<1>1. /\ pc[p] = "idle" /\ Goto(p, "open") /\ UNCHANGED <<tableVars, recordVars, status>>
      /\ pc'[p] = "open" /\ \A q \in Procs : q # p => pc'[q] = pc[q]
  BY DEF Start, Goto, TypesInv
<1>2. CASE p \notin Writers
  BY <1>0, <1>1, <1>2, MovesOn DEF TypesInv, recordVars
<1>3. CASE p \in Writers
  <2>1. TypesInv'
    BY <1>0, <1>1 DEF TypesInv, Goto, tableVars, recordVars
  <2>2. HookInv'
    BY <1>1, <1>3 DEF Start, HookInv
  <2>3. TraceInv'
    BY <1>1, SameTrace DEF TraceInv, NotYet, tableVars
  <2>4. TransactionInv'
    <3>1. "idle" \notin Recording
      BY DEF Recording
    <3> QED
      BY <1>0, <1>1, <3>1 DEF TransactionInv, tableVars, recordVars
  <2>5. RecordInv'
    <3>1. \A i \in DOMAIN commands : commands[i] \in Writers
      BY DEF TypesInv
    <3>2. \A i \in DOMAIN commands : LinesOf(commands[i])' = AllLines(commands[i], i)
      BY <1>1, <3>1, SameTrace DEF RecordInv, tableVars
    <3> QED
      BY <1>0, <1>1, <3>2, SameTrace DEF RecordInv, tableVars
  <2> QED
    BY <2>1, <2>2, <2>3, <2>4, <2>5
<1> QED
  BY <1>2, <1>3

\* A process is over, or killed.
LEMMA OverIsOver ==
  ASSUME HistoryInv, NEW p \in Procs, Exit(p) \/ Crash(p)
  PROVE  HistoryInv'
<1>1. CASE Exit(p)
  <2>1. PICK how \in {"none", "ok", "fatal", "died", "killed"} : how = status[p]
    BY DEF HistoryInv, TypesInv
  <2> QED
    BY <1>1, <2>1, Leaves DEF Exit, End
<1>2. CASE Crash(p)
  <2>1. p \in Writers => pc[p] \in InHook
    BY <1>2 DEF Crash, Active, Places, HistoryInv, TypesInv, RecordInv
  <2> QED
    BY <1>2, <2>1, EndLeaves DEF Crash
<1> QED
  BY <1>1, <1>2

\* db_open and what precedes the transaction
LEMMA DbOpenPrepares ==
  ASSUME HistoryInv, NEW p \in Procs, DbOpen(p)
  PROVE  HistoryInv'
<1> USE DEF recordVars, resultVars
<1>0. /\ at \in [Procs -> Nat] /\ id \in [Procs -> Nat] /\ LastOperation \in Nat
      /\ InHook \subseteq Places /\ "query" \in Places /\ "query" \notin InHook
      /\ InHook \ Recording =
           {"open", "check", "create", "exec", "version", "setversion", "prepare", "command"}
      /\ {"version", "setversion", "prepare", "create", "exec", "open", "check"} \subseteq InHook
  BY DEF HistoryInv, TypesInv, LastOperation, InHook, Places, Recording
<1>1. ASSUME NEW n \in Nat, Proceed(p, n), pc[p] = "check",
             UNCHANGED <<tableVars, made, added, id, status>>
      PROVE  HistoryInv'
  <2>1. PICK place \in {"check", "version", "prepare"} : Goto(p, place)
    BY <1>1 DEF Proceed, AfterTables
  <2>2. at' = [at EXCEPT ![p] = n]
    BY <1>1 DEF Proceed
  <2> QED
    BY <1>0, <1>1, <2>1, <2>2, MovesOn
<1>2. NextTable(at[p]) \in Nat /\ at[p] + 1 \in Nat
  BY <1>0 DEF NextTable
<1>3. CASE Open(p) \/ CreateTable(p) \/ CreateStarts(p) \/ SetVersionStarts(p) \/ SetVersion(p)
  <2>1. PICK place \in {"check", "create", "exec", "setversion", "prepare"} : Goto(p, place)
    BY <1>3 DEF Open, CreateTable, CreateStarts, SetVersionStarts, SetVersion
  <2>2. /\ UNCHANGED <<tableVars, made, added, id, at, status>>
        /\ pc[p] \in {"open", "check", "create", "version", "setversion"}
    BY <1>3 DEF Open, CreateTable, CreateStarts, SetVersionStarts, SetVersion
  <2> QED
    BY <1>0, <2>1, <2>2, MovesOn
<1>4. CASE OpenFails(p) \/ CreateRefused(p) \/ CreateFails(p) \/ SetVersionRefused(p)
           \/ PrepareFails(p)
  <2>1. Failing(p) /\ pc[p] \in {"open", "create", "exec", "version", "prepare"}
    BY <1>4 DEF OpenFails, CreateRefused, CreateFails, SetVersionRefused, PrepareFails, Fail
  <2> QED
    BY <1>0, <2>1, FailLeaves
<1>5. CASE SkipTable(p)
  BY <1>1, <1>2, <1>5 DEF SkipTable
<1>6. CASE TableUnknown(p)
  <2>1. pc[p] = "check" /\ pc[p] \in InHook
    BY <1>0, <1>6 DEF TableUnknown
  <2>2. CASE End(p, "died")
    BY <2>1, <2>2, EndLeaves
  <2>3. CASE Failing(p)
    BY <2>1, <2>3, FailLeaves
  <2>4. CASE Proceed(p, NextTable(at[p])) /\ UNCHANGED <<tableVars, made, id, added, resultVars>>
    BY <1>1, <1>2, <2>1, <2>4
  <2> QED
    BY <1>6, <2>2, <2>3, <2>4 DEF TableUnknown, Fail
<1>7. CASE Create(p)
  <2>1. PICK place \in {"check", "version", "prepare", "create"} : Goto(p, place)
    BY <1>7 DEF Create, Proceed, AfterTables
  <2>2. at' = [at EXCEPT ![p] = at[p] + 1]
    BY <1>7 DEF Create, Proceed
  <2>3. id' = [id EXCEPT ![p] = LastOperation] \/ id' = id
    BY <1>7 DEF Create
  <2>4. pc[p] = "exec" /\ UNCHANGED <<tableVars, made, added, status>>
    BY <1>7 DEF Create
  <2>5. at' \in [Procs -> Nat] /\ id' \in [Procs -> Nat]
    BY <1>0, <1>2, <2>2, <2>3
  <2> QED
    BY <1>0, <2>1, <2>2, <2>3, <2>4, <2>5, MovesOn
<1>8. CASE Prepare(p)
  <2>1. PICK place \in {"command", "query"} :
          Goto(p, place) /\ place = IF p \in Writers THEN "command" ELSE "query"
    BY <1>8 DEF Prepare
  <2>2. pc[p] = "prepare" /\ UNCHANGED <<tableVars, made, added, id, at, status>>
    BY <1>8 DEF Prepare
  <2>3. "command" \in InHook
    BY DEF InHook
  <2> QED
    BY <1>0, <2>1, <2>2, <2>3, MovesOn
<1> QED
  BY <1>3, <1>4, <1>5, <1>6, <1>7, <1>8 DEF DbOpen

\* pkg_history_main records nothing.
LEMMA MainReads ==
  ASSUME HistoryInv, NEW r \in Readers, PkgHistoryMain(r)
  PROVE  HistoryInv'
<1>1. CASE DbOpen(r)
  BY <1>1, DbOpenPrepares, WritersAreProcs
<1>2. CASE Query(r) \/ QueryFails(r) \/ QueryEnds(r)
  <2>1. PICK place \in {"reading", "leaving"} : Goto(r, place)
    BY <1>2 DEF Query, QueryFails, QueryEnds
  <2>2. UNCHANGED <<tableVars, made, added, id, at, status>>
    BY <1>2 DEF Query, QueryFails, QueryEnds, recordVars, resultVars
  <2> QED
    BY <2>1, <2>2, MovesOn, WritersAreProcs DEF Places, HistoryInv, TypesInv
<1> QED
  BY <1>1, <1>2 DEF PkgHistoryMain

-----------------------------------------------------------------------------
(* The transaction *)

\* What becomes of the row of the command w.
RowKept(w) ==
  /\ made' \in [Writers -> BOOLEAN] /\ id' \in [Procs -> Nat]
  /\ \A v \in Writers : v # w => made'[v] = made[v] /\ id'[v] = id[v]
  /\ made'[w] => id'[w] = Len(commands) + 1

LEMMA RecordsOn ==
  ASSUME HistoryInv, NEW w \in Writers, NEW place \in Recording, Goto(w, place),
         pc[w] \in InHook, UNCHANGED <<tableVars, status>>,
         NEW n \in 1 .. Jobs[w] + 1, at' = [at EXCEPT ![w] = n],
         added' = [added EXCEPT ![w] = 1 .. n - 1],
         RowKept(w), place = "line" <=> n <= Jobs[w]
  PROVE  HistoryInv'
<1> USE WritersAreProcs DEF HistoryInv
<1>0. /\ Recording \subseteq InHook /\ InHook \subseteq Places
      /\ InHook \cap {"query", "reading"} = {} /\ n \in Nat
  BY JobsAssumption DEF Recording, InHook, Places
<1>1. pc'[w] = place /\ \A q \in Procs : q # w => pc'[q] = pc[q]
  BY DEF Goto, TypesInv
<1>2. /\ at'[w] = n /\ added'[w] = 1 .. n - 1
      /\ \A v \in Writers : v # w => at'[v] = at[v] /\ added'[v] = added[v]
  BY DEF TypesInv
<1>3. TypesInv'
  <2>1. added' \in [Writers -> SUBSET Nat]
    BY <1>0 DEF TypesInv
  <2>2. at' \in [Procs -> Nat] /\ pc' \in [Procs -> Places]
    BY <1>0 DEF TypesInv, Goto
  <2> QED
    BY <2>1, <2>2 DEF TypesInv, tableVars, RowKept
<1>4. HookInv'
  BY <1>0, <1>1 DEF HookInv
<1>5. TraceInv'
  BY <1>0, <1>1, SameTrace DEF TraceInv, NotYet, tableVars
<1>6. TransactionInv'
  <2> SUFFICES ASSUME NEW v \in Writers
               PROVE  /\ pc'[v] \in Recording =>
                           /\ at'[v] \in 1 .. Jobs[v] + 1
                           /\ added'[v] = 1 .. at'[v] - 1
                           /\ pc'[v] = "line" <=> at'[v] <= Jobs[v]
                      /\ pc'[v] \notin Recording => added'[v] = {} /\ ~made'[v]
                      /\ made'[v] => id'[v] = Len(commands') + 1
    BY DEF TransactionInv
  <2>1. CASE v = w
    BY <1>1, <1>2, <2>1 DEF tableVars, RowKept
  <2>2. CASE v # w
    BY <1>1, <1>2, <2>2 DEF TransactionInv, tableVars, RowKept
  <2> QED
    BY <2>1, <2>2
<1>7. RecordInv'
  <2>1. \A i \in DOMAIN commands : commands[i] \in Writers
    BY DEF TypesInv
  <2>2. \A i \in DOMAIN commands : LinesOf(commands[i])' = AllLines(commands[i], i)
    BY <2>1, SameTrace DEF RecordInv, tableVars
  <2> QED
    BY <1>0, <1>1, <2>2, SameTrace DEF RecordInv, tableVars
<1> QED
  BY <1>3, <1>4, <1>5, <1>6, <1>7

\* The INSERT of the command, whether or not it succeeds: no package yet.
LEMMA CommandRecords ==
  ASSUME HistoryInv, NEW w \in Writers, CreateCommand(w) \/ CreateCommandIgnored(w)
  PROVE  HistoryInv'
<1>0. /\ w \in Procs /\ TransactionInv /\ TypesInv
      /\ made \in [Writers -> BOOLEAN] /\ id \in [Procs -> Nat]
  BY WritersAreProcs DEF HistoryInv, TypesInv
<1>1. /\ pc[w] = "command" /\ Goto(w, "line") /\ UNCHANGED <<tableVars, added, status>>
      /\ at' = [at EXCEPT ![w] = 1]
  BY DEF CreateCommand, CreateCommandIgnored, resultVars
<1>2. "command" \notin Recording /\ "command" \in InHook /\ "line" \in Recording
  BY DEF Recording, InHook
<1>3. added[w] = {} /\ ~made[w] /\ 1 .. 1 - 1 = {}
  BY <1>0, <1>1, <1>2 DEF TransactionInv
<1>4. added' = [added EXCEPT ![w] = 1 .. 1 - 1]
  BY <1>0, <1>1, <1>3 DEF TypesInv
<1>5. PICK n \in 1 .. Jobs[w] + 1 : n = 1 /\ n <= Jobs[w]
  BY JobsAssumption
<1>6. PICK place \in Recording : place = "line"
  BY <1>2
<1>7. /\ at' = [at EXCEPT ![w] = n] /\ added' = [added EXCEPT ![w] = 1 .. n - 1]
      /\ Goto(w, place) /\ (place = "line" <=> n <= Jobs[w])
  BY <1>1, <1>4, <1>5, <1>6
<1>8. CASE CreateCommand(w)
  <2>1. Len(commands) + 1 \in Nat
    BY <1>0 DEF TypesInv
  <2>2. /\ made' = [made EXCEPT ![w] = TRUE]
        /\ id' = [id EXCEPT ![w] = Len(commands) + 1]
    BY <1>8 DEF CreateCommand
  <2>3. RowKept(w)
    BY <1>0, <2>1, <2>2, WritersAreProcs DEF RowKept
  <2> QED
    BY <1>1, <1>2, <1>7, <2>3, RecordsOn
<1>9. CASE CreateCommandIgnored(w)
  <2>1. RowKept(w)
    BY <1>0, <1>3, <1>9 DEF CreateCommandIgnored, RowKept
  <2> QED
    BY <1>1, <1>2, <1>7, <2>1, RecordsOn
<1> QED
  BY <1>8, <1>9

\* One package more.
LEMMA LineRecords ==
  ASSUME HistoryInv, NEW w \in Writers, CreateLine(w)
  PROVE  HistoryInv'
<1>0. /\ w \in Procs /\ TransactionInv /\ TypesInv
      /\ made \in [Writers -> BOOLEAN] /\ id \in [Procs -> Nat]
  BY WritersAreProcs DEF HistoryInv, TypesInv
<1>1. /\ pc[w] = "line" /\ UNCHANGED <<tableVars, made, id, status>>
      /\ added' = [added EXCEPT ![w] = @ \cup {at[w]}]
      /\ at' = [at EXCEPT ![w] = @ + 1]
      /\ Goto(w, IF at[w] = Jobs[w] THEN "commit" ELSE "line")
  BY DEF CreateLine, resultVars
<1>2. "line" \in InHook /\ "line" \in Recording /\ "commit" \in Recording
  BY DEF Recording, InHook
<1>3. Jobs[w] \in Nat \ {0} /\ at[w] \in 1 .. Jobs[w] /\ added[w] = 1 .. at[w] - 1
  <2>1. Jobs[w] \in Nat \ {0}
    BY JobsAssumption
  <2>2. /\ at[w] \in 1 .. Jobs[w] + 1 /\ added[w] = 1 .. at[w] - 1
        /\ pc[w] = "line" <=> at[w] <= Jobs[w]
    BY <1>0, <1>1, <1>2 DEF TransactionInv
  <2> QED
    BY <1>1, <2>1, <2>2
<1>4. PICK n \in 1 .. Jobs[w] + 1 : n = at[w] + 1
  BY <1>3
<1>5. added' = [added EXCEPT ![w] = 1 .. n - 1]
  <2>1. 1 .. n - 1 = added[w] \cup {at[w]}
    BY <1>3, <1>4
  <2> QED
    BY <1>1, <2>1
<1>6. at' = [at EXCEPT ![w] = n]
  BY <1>1, <1>4
<1>7. RowKept(w)
  BY <1>0, <1>1 DEF TransactionInv, RowKept
<1>8. PICK place \in {"commit", "line"} : Goto(w, place) /\ (place = "line" <=> n <= Jobs[w])
  BY <1>1, <1>3, <1>4
<1> QED
  BY <1>1, <1>2, <1>5, <1>6, <1>7, <1>8, RecordsOn

LEMMA CommitRecords ==
  ASSUME HistoryInv, NEW w \in Writers, CommitStarts(w)
  PROVE  HistoryInv'
<1>0. /\ w \in Procs /\ TransactionInv /\ TypesInv
      /\ made \in [Writers -> BOOLEAN] /\ id \in [Procs -> Nat]
  BY WritersAreProcs DEF HistoryInv, TypesInv
<1>1. /\ pc[w] = "commit" /\ Goto(w, "committing")
      /\ UNCHANGED <<tableVars, at, added, made, id, status>>
  BY DEF CommitStarts, recordVars, resultVars
<1>2. "commit" \in InHook /\ {"commit", "committing"} \subseteq Recording
  BY DEF Recording, InHook
<1>3. /\ at[w] \in 1 .. Jobs[w] + 1 /\ added[w] = 1 .. at[w] - 1 /\ ~(at[w] <= Jobs[w])
      /\ RowKept(w)
  BY <1>0, <1>1, <1>2 DEF TransactionInv, RowKept
<1>4. PICK n \in 1 .. Jobs[w] + 1 : n = at[w]
  BY <1>3
<1>5. at' = [at EXCEPT ![w] = n] /\ added' = [added EXCEPT ![w] = 1 .. n - 1]
  BY <1>0, <1>1, <1>3, <1>4 DEF TypesInv
<1>6. PICK place \in Recording : Goto(w, place) /\ (place = "line" <=> n <= Jobs[w])
  BY <1>1, <1>2, <1>3, <1>4
<1> QED
  BY <1>1, <1>2, <1>3, <1>5, <1>6, RecordsOn

LEMMA TransactionFails ==
  ASSUME HistoryInv, NEW w \in Writers,
         CommandLineFails(w) \/ CreateLineFails(w) \/ CommitBusy(w)
  PROVE  HistoryInv'
<1>1. pc[w] \in InHook /\ w \in Procs
  BY WritersAreProcs DEF CommandLineFails, CreateLineFails, CommitBusy, InHook
<1>2. Failing(w) \/ End(w, "died")
  BY DEF CommandLineFails, CreateLineFails, CommitBusy, Fault, Fail, SecondError
<1> QED
  BY <1>1, <1>2, FailLeaves, EndLeaves

\* COMMIT: the row of the command and all of its packages, under one id.
LEMMA CommitCommits ==
  ASSUME HistoryInv, NEW w \in Writers, Commit(w)
  PROVE  HistoryInv'
<1>0. /\ w \in Procs /\ TypesInv /\ HookInv /\ TraceInv /\ TransactionInv /\ RecordInv
      /\ id[w] \in Nat /\ Jobs[w] \in Nat \ {0}
  BY WritersAreProcs, JobsAssumption DEF HistoryInv, TypesInv
<1>1. /\ pc[w] = "committing" /\ Goto(w, "leaving") /\ Forget(w)
      /\ commands' = IF made[w] THEN Append(commands, w) ELSE commands
      /\ lines' = lines \cup {<<id[w], w, i>> : i \in added[w]}
      /\ status' = [status EXCEPT ![w] = "ok"]
  BY DEF Commit
<1>2. /\ "committing" \in InHook \cap Recording /\ "leaving" \in Places
      /\ "leaving" \notin {"idle", "query", "reading"} \cup InHook \cup Recording
      /\ Recording \subseteq InHook
  BY DEF Recording, InHook, Places
<1>3. /\ pc'[w] = "leaving" /\ \A q \in Procs : q # w => pc'[q] = pc[q]
      /\ status'[w] = "ok" /\ \A q \in Procs : q # w => status'[q] = status[q]
      /\ at' \in [Procs -> Nat] /\ id' \in [Procs -> Nat]
      /\ made' \in [Writers -> BOOLEAN] /\ added' \in [Writers -> SUBSET Nat]
      /\ \A v \in Writers : v # w => at'[v] = at[v] /\ made'[v] = made[v] /\ added'[v] = added[v]
      /\ \A v \in Writers : v # w => id'[v] = id[v]
      /\ ~made'[w] /\ added'[w] = {}
  BY <1>0, <1>1, WritersAreProcs DEF Goto, Forget, TypesInv
<1>4. added[w] = 1 .. Jobs[w]
  <2>1. /\ at[w] \in 1 .. Jobs[w] + 1 /\ added[w] = 1 .. at[w] - 1 /\ ~(at[w] <= Jobs[w])
    BY <1>0, <1>1, <1>2 DEF TransactionInv
  <2>2. at[w] = Jobs[w] + 1
    BY <1>0, <2>1
  <2> QED
    BY <1>0, <2>1, <2>2
<1>5. Absent(w) /\ \A i \in DOMAIN commands : commands[i] # w
  BY <1>0, <1>1, <1>2 DEF TraceInv, NotYet
<1>6. LinesOf(w)' = AllLines(w, id[w])
  <2>1. {<<id[w], w, i>> : i \in added[w]} = AllLines(w, id[w])
    BY <1>4 DEF AllLines
  <2>2. \A l \in AllLines(w, id[w]) : l[2] = w
    BY DEF AllLines
  <2> QED
    BY <1>1, <1>5, <2>1, <2>2 DEF LinesOf, Absent
<1>7. ASSUME NEW v \in Writers, v # w PROVE LinesOf(v)' = LinesOf(v)
  BY <1>1, <1>7 DEF LinesOf
<1>8. Whole(w)'
  BY <1>0, <1>6 DEF Whole
<1>9. \A v \in Writers : v # w => UNCHANGED <<Absent(v), Whole(v)>>
  BY <1>7 DEF Absent, Whole
<1>10. /\ commands' \in Seq(Writers)
       /\ \A i \in DOMAIN commands' :
            \/ i \in DOMAIN commands /\ commands'[i] = commands[i]
            \/ commands'[i] = w /\ i = Len(commands) + 1 /\ made[w]
  BY <1>0, <1>1 DEF TypesInv
<1>11. ASSUME NEW v \in Writers, v # w PROVE ~made[v]
  BY <1>0, <1>1, <1>2, <1>11 DEF HookInv, TransactionInv
<1>12. TypesInv'
  <2>1. pc' \in [Procs -> Places]
    BY <1>0, <1>1, <1>2 DEF TypesInv, Goto
  <2>2. status' \in [Procs -> {"none", "ok", "fatal", "died", "killed"}]
    BY <1>0, <1>1 DEF TypesInv
  <2> QED
    BY <1>3, <1>10, <2>1, <2>2 DEF TypesInv
<1>13. HookInv'
  BY <1>0, <1>2, <1>3, WritersAreProcs DEF HookInv
<1>14. TraceInv'
  <2> SUFFICES ASSUME NEW v \in Writers, NotYet(v)'
               PROVE  /\ Absent(v)' /\ status'[v] = "none"
                      /\ \A i \in DOMAIN commands' : commands'[i] # v
    BY DEF TraceInv
  <2>1. v # w /\ NotYet(v)
    BY <1>2, <1>3, WritersAreProcs DEF NotYet
  <2> QED
    BY <1>0, <1>3, <1>9, <1>10, <2>1, WritersAreProcs DEF TraceInv
<1>15. TransactionInv'
  <2> SUFFICES ASSUME NEW v \in Writers
               PROVE  /\ pc'[v] \in Recording =>
                           /\ at'[v] \in 1 .. Jobs[v] + 1
                           /\ added'[v] = 1 .. at'[v] - 1
                           /\ pc'[v] = "line" <=> at'[v] <= Jobs[v]
                      /\ pc'[v] \notin Recording => added'[v] = {} /\ ~made'[v]
                      /\ made'[v] => id'[v] = Len(commands') + 1
    BY DEF TransactionInv
  <2>1. CASE v = w
    BY <1>2, <1>3, <2>1
  <2>2. CASE v # w
    BY <1>0, <1>3, <1>11, <2>2, WritersAreProcs DEF TransactionInv
  <2> QED
    BY <2>1, <2>2
<1>16. RecordInv'
  <2>1. ASSUME NEW i \in DOMAIN commands'
        PROVE  LinesOf(commands[i])' = AllLines(commands'[i], i)
    <3>1. CASE i \in DOMAIN commands /\ commands'[i] = commands[i]
      <4>1. commands[i] \in Writers /\ commands[i] # w
        BY <1>0, <1>5, <3>1 DEF TypesInv
      <4>2. PICK v \in Writers : v = commands[i] /\ v = commands'[i]
        BY <3>1, <4>1
      <4>3. LinesOf(v)' = LinesOf(v) /\ LinesOf(v) = AllLines(v, i)
        BY <1>0, <1>7, <3>1, <4>1, <4>2 DEF RecordInv
      <4> QED
        BY <4>2, <4>3 DEF LinesOf
    <3>2. CASE commands'[i] = w /\ i = Len(commands) + 1 /\ made[w]
      <4>1. id[w] = i
        BY <1>0, <3>2 DEF TransactionInv
      <4> QED
        BY <1>6, <3>2, <4>1 DEF LinesOf
    <3> QED
      BY <1>10, <3>1, <3>2
  <2>2. ASSUME NEW v \in Writers
        PROVE  /\ pc'[v] \notin {"query", "reading"}
               /\ status'[v] = "ok" => Whole(v)'
               /\ status'[v] \in {"fatal", "died", "killed"} => Absent(v)'
               /\ Absent(v)' \/ Whole(v)'
               /\ pc'[v] \notin {"idle"} \cup InHook => status'[v] # "none"
    <3>1. CASE v = w
      BY <1>2, <1>3, <1>8, <3>1
    <3>2. CASE v # w
      BY <1>0, <1>3, <1>9, <3>2, WritersAreProcs DEF RecordInv
    <3> QED
      BY <3>1, <3>2
  <2> QED
    BY <2>1, <2>2 DEF RecordInv
<1> QED
  BY <1>12, <1>13, <1>14, <1>15, <1>16 DEF HistoryInv

-----------------------------------------------------------------------------
(* The theorems *)

LEMMA InitHistoryInv == HistoryInit => HistoryInv
<1> SUFFICES ASSUME HistoryInit PROVE HistoryInv
  OBVIOUS
<1> USE WritersAreProcs
<1>0. "idle" \in Places /\ "idle" \notin Recording \cup InHook \cup {"query", "reading"}
  BY DEF Places, InHook, Recording
<1>1. TypesInv
  BY <1>0 DEF HistoryInit, TypesInv
<1>2. HookInv
  BY <1>0 DEF HistoryInit, HookInv
<1>3. \A w \in Writers : Absent(w)
  BY DEF HistoryInit, Absent, LinesOf
<1>4. TraceInv
  BY <1>3 DEF HistoryInit, TraceInv
<1>5. TransactionInv
  BY <1>0 DEF HistoryInit, TransactionInv
<1>6. RecordInv
  BY <1>0, <1>3 DEF HistoryInit, RecordInv
<1> QED
  BY <1>1, <1>2, <1>4, <1>5, <1>6 DEF HistoryInv

LEMMA StutterHistoryInv ==
  ASSUME HistoryInv, UNCHANGED historyVars
  PROVE  HistoryInv'
<1>1. UNCHANGED <<commands, lines, pc, at, made, id, added, status>> /\ UNCHANGED tableVars
  BY DEF historyVars, tableVars, recordVars, resultVars
<1>2. /\ TypesInv /\ HookInv /\ TraceInv /\ TransactionInv /\ RecordInv
      /\ \A i \in DOMAIN commands : commands[i] \in Writers
  BY DEF HistoryInv, TypesInv
<1>3. TypesInv' /\ HookInv' /\ TransactionInv'
  BY <1>1, <1>2 DEF TypesInv, HookInv, TransactionInv
<1>4. TraceInv'
  BY <1>1, <1>2, SameTrace DEF TraceInv, NotYet
<1>5. RecordInv'
  <2>1. \A i \in DOMAIN commands : LinesOf(commands[i])' = AllLines(commands[i], i)
    BY <1>1, <1>2, SameTrace DEF RecordInv
  <2> QED
    BY <1>1, <1>2, <2>1, SameTrace DEF RecordInv
<1> QED
  BY <1>3, <1>4, <1>5 DEF HistoryInv

LEMMA StepHistoryInv ==
  ASSUME HistoryInv, HistoryNext
  PROVE  HistoryInv'
<1>1. CASE \E p \in Procs : Start(p) \/ Exit(p) \/ Crash(p)
  BY <1>1, StartBegins, OverIsOver
<1>2. CASE \E w \in Writers : HandleHooks(w)
  <2> PICK w \in Writers : HandleHooks(w)
    BY <1>2
  <2>1. CASE DbOpen(w)
    BY <2>1, DbOpenPrepares, WritersAreProcs
  <2>2. CASE CreateCommand(w) \/ CreateCommandIgnored(w)
    BY <2>2, CommandRecords
  <2>3. CASE CreateLine(w)
    BY <2>3, LineRecords
  <2>4. CASE CommitStarts(w)
    BY <2>4, CommitRecords
  <2>5. CASE CommandLineFails(w) \/ CreateLineFails(w) \/ CommitBusy(w)
    BY <2>5, TransactionFails
  <2>6. CASE Commit(w)
    BY <2>6, CommitCommits
  <2> QED
    BY <2>1, <2>2, <2>3, <2>4, <2>5, <2>6 DEF HandleHooks
<1>3. CASE \E r \in Readers : PkgHistoryMain(r)
  BY <1>3, MainReads
<1> QED
  BY <1>1, <1>2, <1>3 DEF HistoryNext

\* The transaction of a hook and what it knows of it agree with the tables, and
\* the tables with what was returned, in every reachable state.
THEOREM HistoryIsConsistent == HistorySpec => []HistoryInv
<1>1. HistoryInv /\ [HistoryNext]_historyVars => HistoryInv'
  BY StepHistoryInv, StutterHistoryInv
<1> QED
  BY InitHistoryInv, <1>1, PTL DEF HistorySpec

\* There are as many lines of a command as it has packages.
LEMMA AsManyLines ==
  ASSUME NEW w \in Writers, NEW n
  PROVE  IsFiniteSet(AllLines(w, n)) /\ Cardinality(AllLines(w, n)) = Jobs[w]
<1> DEFINE f == [i \in 1 .. Jobs[w] |-> <<n, w, i>>]
<1>1. Jobs[w] \in Nat
  BY JobsAssumption
<1>2. IsFiniteSet(1 .. Jobs[w]) /\ Cardinality(1 .. Jobs[w]) = Jobs[w]
  <2>1. 1 \in Int /\ Jobs[w] \in Int /\ (1 > Jobs[w] => Jobs[w] = 0)
    BY <1>1
  <2>2. IsFiniteSet(1 .. Jobs[w]) /\ Cardinality(1 .. Jobs[w]) = IF 1 > Jobs[w] THEN 0 ELSE Jobs[w] - 1 + 1
    BY <2>1, FS_Interval
  <2> QED
    BY <1>1, <2>2
<1>3. f \in Bijection(1 .. Jobs[w], AllLines(w, n))
  BY DEF AllLines, Bijection, Injection, Surjection, IsInjective
<1>4. ExistsBijection(1 .. Jobs[w], AllLines(w, n))
  BY <1>3 DEF ExistsBijection
<1> QED
  BY <1>2, <1>4, FS_Bijection

\* A command of history_commands has all of its packages under its id, and only
\* those, and a command that is not there has none: whoever else reads or
\* writes, whatever call fails and whoever is killed, for any number of commands,
\* readers and packages.
THEOREM RecordedWholeOrNotAtAll == HistorySpec => []WholeOrAbsent
<1>1. HistoryInv => WholeOrAbsent
  <2> SUFFICES ASSUME HistoryInv PROVE WholeOrAbsent
    OBVIOUS
  <2>1. RecordInv
    BY DEF HistoryInv
  <2>2. ASSUME NEW w \in Writers, LinesOf(w) # {}
        PROVE  \E l \in LinesOf(w) : LinesOf(w) = AllLines(w, l[1])
    <3>1. PICK n \in Nat : LinesOf(w) = AllLines(w, n)
      BY <2>1, <2>2 DEF RecordInv, Absent, Whole
    <3>2. PICK l \in LinesOf(w) : l[1] = n
      BY <2>2, <3>1 DEF AllLines
    <3> QED
      BY <3>1, <3>2
  <2> QED
    BY <2>1, <2>2 DEF WholeOrAbsent, RecordInv
<1> QED
  BY HistoryIsConsistent, <1>1, PTL

\* EPKG_OK means that every package is in the database, a failure or a crash
\* that none is, whatever the other processes do.
THEOREM ReturnsTheTruth == HistorySpec => []ReturnsWhatItRecorded
<1>1. HistoryInv => ReturnsWhatItRecorded
  BY AsManyLines DEF HistoryInv, RecordInv, Absent, Whole, ReturnsWhatItRecorded
<1> QED
  BY HistoryIsConsistent, <1>1, PTL

-----------------------------------------------------------------------------
(* A hook that nobody disturbs has the database for itself *)

\* Where a process may hold a lock to write.
Holding == {"exec", "setversion", "leaving"} \cup Recording

\* The statements that follow, in a group, that of its table
AfterTable == {2, 4, 6}

FlagsInv == error \in [Procs -> BOOLEAN] /\ excused \in [Writers -> BOOLEAN]

LocksInv ==
  /\ \A p \in shared : p \in Procs /\ pc[p] = "reading"
  /\ writer # Nobody => writer \in Procs /\ pc[writer] \in Holding

\* A group is created in order.
SchemaInv ==
  /\ \A n \in AfterTable : Script[n] \in schema => Script[n - 1] \in schema
  /\ "version" \notin schema

PlaceAt(p) ==
  /\ pc[p] \in {"idle", "open"} => at[p] = 1
  /\ pc[p] = "check" => at[p] \in {1, 3, 5}
  /\ pc[p] \in {"create", "exec"} =>
       /\ at[p] \in 1 .. 6
       /\ at[p] \in AfterTable => Script[at[p] - 1] \in schema
  /\ pc[p] \notin Recording => ~error[p]

\* The database as the hook w, alone with it, finds and makes it
AloneHere(w) ==
  /\ pc[w] \in InHook \ {"open"} => w \in writable
  /\ ~error[w]
  /\ pc[w] \in {"check", "create", "exec"} =>
       \A n \in {1, 3, 5} : n < at[w] => Script[n] \in schema
  /\ pc[w] \in {"create", "exec"} =>
       \A n \in 1 .. 6 : at[w] <= n /\ n < NextTable(at[w]) => Script[n] \notin schema
  /\ pc[w] \in {"version", "setversion", "prepare"} => Tables \subseteq schema
  /\ pc[w] = "exec" => level = "exclusive"
  /\ pc[w] \in Recording => writer = w

Undisturbed(w) == pc[w] \notin {"idle", "over"} /\ ~excused[w]

Alone(w) == \A p \in Procs : p # w => pc[p] \in {"idle", "over"}

AloneInv == \A w \in Writers : Undisturbed(w) => Alone(w) /\ AloneHere(w)

OpenInv ==
  /\ FlagsInv /\ LocksInv /\ SchemaInv
  /\ \A p \in Procs : PlaceAt(p)
  /\ AloneInv
  /\ RecordedWhenAlone

LEMMA AloneIsFree ==
  ASSUME HistoryInv, OpenInv, NEW w \in Writers, Undisturbed(w)
  PROVE  /\ Alone(w) /\ AloneHere(w) /\ shared = {} /\ writer \in {w, Nobody}
         /\ pc[w] \notin Holding => writer = Nobody
         /\ pc[w] \notin Holding /\ pc[w] \in InHook => ReadableBy(w, TRUE)
         /\ pc[w] \notin Holding /\ pc[w] \in InHook \ {"open"} => Readable(w) /\ Reservable(w)
<1>1. Alone(w) /\ AloneHere(w) /\ w \in Procs /\ pc[w] # "reading"
  BY WritersAreProcs DEF OpenInv, AloneInv, HistoryInv, RecordInv
<1>2. shared = {}
  BY <1>1 DEF OpenInv, LocksInv, Alone
<1>3. writer \in {w, Nobody} /\ (pc[w] \notin Holding => writer = Nobody)
  BY <1>1 DEF OpenInv, LocksInv, Alone, Holding, Recording
<1>4. pc[w] \notin Holding => ReadableBy(w, TRUE)
  BY <1>2, <1>3 DEF ReadableBy
<1>5. pc[w] \notin Holding /\ pc[w] \in InHook \ {"open"} => Readable(w) /\ Reservable(w)
  BY <1>1, <1>3, <1>4 DEF AloneHere, Readable, Reservable
<1> QED
  BY <1>1, <1>2, <1>3, <1>4, <1>5

\* What a step of p has to leave: nothing of the others changes, and when p is
\* not disturbed they are all idle or over.
LEMMA StepsOpen ==
  ASSUME HistoryInv, OpenInv, NEW p \in Procs, pc[p] \notin {"idle", "over"},
         NEW place \in Places \ {"idle"}, Goto(p, place),
         \A q \in Procs : q # p => at'[q] = at[q] /\ error'[q] = error[q] /\ status'[q] = status[q],
         FlagsInv', \A w \in Writers : w # p => excused'[w] = excused[w],
         \A q \in shared' : (q \in shared /\ q # p) \/ (q = p /\ place = "reading"),
         writer' # Nobody =>
           (writer' = writer /\ writer # p) \/ (writer' = p /\ place \in Holding),
         schema \subseteq schema', SchemaInv', PlaceAt(p)',
         p \in Writers /\ ~excused'[p] /\ place # "over" => ~excused[p] /\ AloneHere(p)',
         p \in Writers /\ status'[p] \in {"fatal", "died"} => excused'[p]
  PROVE  OpenInv'
<1>1. pc'[p] = place /\ \A q \in Procs : q # p => pc'[q] = pc[q]
  BY DEF Goto, HistoryInv, TypesInv
<1>2. LocksInv'
  <2>1. \A q \in shared' : q \in Procs /\ pc'[q] = "reading"
    BY <1>1 DEF OpenInv, LocksInv
  <2>2. writer' # Nobody => writer' \in Procs /\ pc'[writer'] \in Holding
    BY <1>1 DEF OpenInv, LocksInv
  <2> QED
    BY <2>1, <2>2 DEF LocksInv
<1>3. \A q \in Procs : PlaceAt(q)'
  <2> SUFFICES ASSUME NEW q \in Procs, q # p PROVE PlaceAt(q)'
    OBVIOUS
  <2>1. pc'[q] = pc[q] /\ at'[q] = at[q] /\ error'[q] = error[q] /\ PlaceAt(q)
    BY <1>1 DEF OpenInv
  <2> QED
    BY <2>1 DEF PlaceAt
<1>4. AloneInv'
  <2> SUFFICES ASSUME NEW w \in Writers, Undisturbed(w)' PROVE Alone(w)' /\ AloneHere(w)'
    BY DEF AloneInv
  <2>1. pc'[w] \notin {"idle", "over"} /\ ~excused'[w] /\ w \in Procs
    BY WritersAreProcs DEF Undisturbed
  <2>2. w = p
    <3> SUFFICES ASSUME w # p PROVE FALSE
      OBVIOUS
    <3>1. Undisturbed(w)
      BY <1>1, <2>1 DEF Undisturbed
    <3> QED
      BY <3>1 DEF OpenInv, AloneInv, Alone
  <2>3. Undisturbed(p) /\ AloneHere(p)'
    BY <1>1, <2>1, <2>2 DEF Undisturbed
  <2>4. Alone(p)
    BY <2>2, <2>3 DEF OpenInv, AloneInv
  <2>5. Alone(p)'
    BY <1>1, <2>4 DEF Alone
  <2> QED
    BY <2>2, <2>3, <2>5
<1>5. RecordedWhenAlone'
  BY WritersAreProcs DEF OpenInv, RecordedWhenAlone
<1> QED
  BY <1>2, <1>3, <1>4, <1>5 DEF OpenInv

LEMMA ScriptFacts ==
  /\ \A m, n \in 1 .. 6 : Script[m] = Script[n] => m = n
  /\ \A n \in 1 .. 6 : Script[n] # "version"
  /\ Tables = {Script[1], Script[3], Script[5]}
  /\ \A n \in {1, 3, 5} : NextTable(n) = n + 2
  /\ \A n \in AfterTable : NextTable(n) = n + 1 /\ n - 1 \in {1, 3, 5}
  /\ \A n \in 1 .. 6 : n \in {1, 3, 5} \/ n \in AfterTable
BY DEF Script, Tables, NextTable, AfterTable

LEMMA PlaceFacts ==
  /\ Recording \subseteq Holding /\ Recording \subseteq InHook
  /\ InHook \cap {"idle", "query", "reading", "leaving", "over"} = {}
  /\ Holding \cap InHook = {"exec", "setversion"} \cup Recording
  /\ "leaving" \in Holding /\ InHook \subseteq Places \ {"idle"}
  /\ {"query", "reading", "leaving", "over"} \subseteq Places \ {"idle"}
  /\ {"open", "check", "create", "exec", "version", "setversion", "prepare", "command"}
       = InHook \ Recording
  /\ Holding \cap {"open", "check", "create", "version", "prepare", "command",
                   "idle", "query", "reading", "over"} = {}
BY DEF Recording, Holding, InHook, Places

\* A process gets on, and nobody gets in its way if it is alone.
LEMMA MovesOpen ==
  ASSUME HistoryInv, OpenInv, NEW p \in Procs, pc[p] \notin {"idle", "over"},
         NEW place \in Places \ {"idle"}, Goto(p, place),
         \A q \in Procs : q # p => at'[q] = at[q] /\ error'[q] = error[q],
         error' \in [Procs -> BOOLEAN], UNCHANGED <<status, excused>>,
         \/ shared' = shared /\ pc[p] # "reading"
         \/ shared' = shared \cup {p} /\ place = "reading"
         \/ shared' = shared \ {p},
         \/ writer' = Nobody
         \/ writer' = writer /\ pc[p] \notin Holding
         \/ writer' = p /\ place \in Holding,
         schema \subseteq schema', SchemaInv', PlaceAt(p)',
         p \in Writers /\ Undisturbed(p) /\ AloneHere(p) => AloneHere(p)'
  PROVE  OpenInv'
<1>1. FlagsInv'
  BY DEF OpenInv, FlagsInv
<1>2. \A q \in shared' : (q \in shared /\ q # p) \/ (q = p /\ place = "reading")
  BY DEF OpenInv, LocksInv
<1>3. writer' # Nobody =>
        (writer' = writer /\ writer # p) \/ (writer' = p /\ place \in Holding)
  BY DEF OpenInv, LocksInv
<1>4. \A w \in Writers : w # p => excused'[w] = excused[w]
  OBVIOUS
<1>5. p \in Writers /\ ~excused'[p] => ~excused[p] /\ AloneHere(p)'
  BY DEF OpenInv, AloneInv, Undisturbed
<1>6. p \in Writers /\ status'[p] \in {"fatal", "died"} => excused'[p]
  BY DEF OpenInv, RecordedWhenAlone
<1> QED
  BY <1>1, <1>2, <1>3, <1>4, <1>5, <1>6, StepsOpen

\* A process that fails, or is gone, was excused for it.
LEMMA LeavesOpen ==
  ASSUME HistoryInv, OpenInv, NEW p \in Procs, pc[p] \notin {"idle", "over"},
         NEW place \in {"leaving", "over"}, Goto(p, place), Forget(p),
         NEW how, status' = [status EXCEPT ![p] = how],
         \/ excused' = excused
         \/ p \in Writers /\ excused' = [excused EXCEPT ![p] = TRUE],
         \/ shared' = shared /\ pc[p] # "reading"
         \/ shared' = shared \ {p},
         \/ writer' = Nobody
         \/ writer' = writer /\ (place = "leaving" \/ writer # p),
         UNCHANGED schema,
         p \in Writers =>
           \/ excused'[p]
           \/ place = "over" /\ (how \notin {"fatal", "died"} \/ how = status[p])
  PROVE  OpenInv'
<1>0. place \in Places \ {"idle"} /\ (place = "leaving" => place \in Holding)
      /\ place \notin Recording /\ place \notin InHook
  BY PlaceFacts
<1>1. /\ \A q \in Procs : q # p => at'[q] = at[q] /\ error'[q] = error[q] /\ status'[q] = status[q]
      /\ pc'[p] = place /\ status'[p] = how /\ ~error'[p]
  BY DEF Goto, Forget, HistoryInv, TypesInv, OpenInv, FlagsInv
<1>2. FlagsInv'
  BY DEF Forget, OpenInv, FlagsInv
<1>3. /\ \A w \in Writers : w # p => excused'[w] = excused[w]
      /\ p \in Writers /\ excused[p] => excused'[p]
  BY DEF OpenInv, FlagsInv
<1>4. \A q \in shared' : q \in shared /\ q # p
  BY DEF OpenInv, LocksInv
<1>5. writer' # Nobody =>
        (writer' = writer /\ writer # p) \/ (writer' = p /\ place \in Holding)
  BY <1>0
<1>6. SchemaInv'
  BY DEF OpenInv, SchemaInv
<1>7. PlaceAt(p)'
  BY <1>1 DEF PlaceAt
<1>8. p \in Writers /\ how \in {"fatal", "died"} => excused'[p]
  BY <1>3 DEF OpenInv, RecordedWhenAlone
<1>9. p \in Writers /\ ~excused'[p] => place = "over"
  OBVIOUS
<1> QED
  BY <1>0, <1>1, <1>2, <1>3, <1>4, <1>5, <1>6, <1>7, <1>8, <1>9, StepsOpen

LEMMA FailOpen ==
  ASSUME HistoryInv, OpenInv, NEW p \in Procs, pc[p] \in InHook, Failing(p),
         UNCHANGED <<shared, schema>>, writer' \in {writer, Nobody},
         \/ excused' = excused /\ ~(p \in Writers /\ Undisturbed(p))
         \/ p \in Writers /\ excused' = [excused EXCEPT ![p] = TRUE]
  PROVE  OpenInv'
<1>1. pc[p] \notin {"idle", "over", "reading"}
  BY PlaceFacts
<1>2. Goto(p, "leaving") /\ Forget(p) /\ status' = [status EXCEPT ![p] = "fatal"]
  BY DEF Failing
<1>3. p \in Writers => excused'[p]
  BY <1>1 DEF Undisturbed, OpenInv, FlagsInv
<1> QED
  BY <1>1, <1>2, <1>3, LeavesOpen

LEMMA EndOpen ==
  ASSUME HistoryInv, OpenInv, NEW p \in Procs, pc[p] \notin {"idle", "over"}, NEW how, End(p, how),
         \/ how = "killed" \/ how = status[p]
         \/ ~(p \in Writers /\ Undisturbed(p))
  PROVE  OpenInv'
<1>1. /\ Goto(p, "over") /\ Forget(p) /\ status' = [status EXCEPT ![p] = how]
      /\ UNCHANGED <<schema, excused>> /\ shared' = shared \ {p}
      /\ writer' = Nobody \/ (writer' = writer /\ writer # p)
  BY DEF End, LetGo, Unlock
<1>2. p \in Writers =>
        excused'[p] \/ how \notin {"fatal", "died"} \/ how = status[p]
  BY <1>1 DEF Undisturbed
<1> QED
  BY <1>1, <1>2, LeavesOpen

\* A process that begins disturbs the hooks that are running, and is disturbed
\* when a process is.
LEMMA StartOpen ==
  ASSUME HistoryInv, OpenInv, NEW p \in Procs, Start(p)
  PROVE  OpenInv'
<1>1. /\ pc[p] = "idle" /\ Goto(p, "open")
      /\ UNCHANGED <<sqliteVars, recordVars, error, status>>
      /\ excused' = [w \in Writers |-> excused[w] \/ (w = p /\ Active # {}) \/ w \in Active]
  BY DEF Start
<1>2. /\ pc'[p] = "open" /\ \A q \in Procs : q # p => pc'[q] = pc[q]
      /\ UNCHANGED <<shared, writer, schema, level, writable, at, error, status>>
      /\ "idle" \notin Holding \cup Recording /\ "open" \notin Recording
  BY <1>1, PlaceFacts DEF Goto, HistoryInv, TypesInv, sqliteVars, lockVars, recordVars
<1>3. FlagsInv' /\ SchemaInv'
  BY <1>1, <1>2 DEF OpenInv, FlagsInv, SchemaInv
<1>4. LocksInv'
  BY <1>1, <1>2 DEF OpenInv, LocksInv
<1>5. \A q \in Procs : PlaceAt(q)'
  BY <1>1, <1>2 DEF OpenInv, PlaceAt
<1>6. AloneInv'
  <2> SUFFICES ASSUME NEW w \in Writers, Undisturbed(w)' PROVE Alone(w)' /\ AloneHere(w)'
    BY DEF AloneInv
  <2>1. w \in Procs /\ pc'[w] \notin {"idle", "over"} /\ ~excused'[w]
    BY WritersAreProcs DEF Undisturbed
  <2>2. w \notin Active /\ (w = p => Active = {})
    BY <1>1, <2>1
  <2>3. w = p
    BY <1>2, <2>1, <2>2 DEF Active
  <2>4. Alone(w)'
    BY <1>2, <2>2, <2>3 DEF Active, Alone
  <2>5. AloneHere(w)'
    BY <1>1, <1>2, <2>3 DEF AloneHere, OpenInv, PlaceAt
  <2> QED
    BY <2>4, <2>5
<1>7. RecordedWhenAlone'
  BY <1>1, <1>2 DEF OpenInv, RecordedWhenAlone
<1> QED
  BY <1>3, <1>4, <1>5, <1>6, <1>7 DEF OpenInv

\* What is read off the invariant in the proofs of the steps
LEMMA OpenFacts ==
  ASSUME HistoryInv, OpenInv, NEW p \in Procs
  PROVE  /\ PlaceAt(p) /\ SchemaInv /\ at \in [Procs -> Nat] /\ pc \in [Procs -> Places]
         /\ error \in [Procs -> BOOLEAN]
         /\ p \in Writers => Mode(p) = "write" /\ p \in Root
         /\ p \in Writers => pc[p] \notin {"query", "reading"}
BY RootAssumption DEF OpenInv, FlagsInv, HistoryInv, TypesInv, RecordInv, Mode

\* db_open up to the look at a table
LEMMA OpenOpen ==
  ASSUME HistoryInv, OpenInv, NEW p \in Procs, Open(p) \/ OpenFails(p)
  PROVE  OpenInv'
<1>0. /\ pc[p] = "open" /\ pc[p] \in InHook /\ pc[p] \notin Holding /\ "check" \in Places \ {"idle"}
      /\ pc[p] \notin {"idle", "over", "reading"} /\ "check" \notin Recording /\ pc[p] \notin Recording
  BY PlaceFacts DEF Open, OpenFails
<1>1. CASE Open(p)
  <2>1. /\ Goto(p, "check") /\ UNCHANGED <<at, error, status, excused, shared, writer, schema>>
        /\ p \in Writers => p \in writable'
    BY <1>1, OpenFacts DEF Open, SqliteOpen, OpensToWrite, recordVars, resultVars, lockVars
  <2>2. pc'[p] = "check" /\ at'[p] = 1
    BY <1>0, <2>1, OpenFacts DEF Goto, PlaceAt
  <2>3. SchemaInv' /\ PlaceAt(p)'
    BY <1>0, <2>1, <2>2, OpenFacts DEF SchemaInv, PlaceAt
  <2>4. p \in Writers /\ AloneHere(p) => AloneHere(p)'
    <3>1. \A n \in {1, 3, 5} : ~(n < 1)
      OBVIOUS
    <3> QED
      BY <1>0, <2>1, <2>2, <3>1 DEF AloneHere
  <2> QED
    BY <1>0, <2>1, <2>3, <2>4, OpenFacts, MovesOpen
<1>2. CASE OpenFails(p)
  <2>1. Failing(p) /\ UNCHANGED <<shared, schema, writer, excused>>
    BY <1>2 DEF OpenFails, Fail, SqliteOpenFails, sqliteVars, lockVars
  <2>2. ~(p \in Writers /\ Undisturbed(p))
    <3> SUFFICES ASSUME p \in Writers, Undisturbed(p) PROVE FALSE
      OBVIOUS
    <3>1. OpensToWrite(p \in Root, Mode(p)) = TRUE
      BY OpenFacts DEF OpensToWrite
    <3>2. ReadableBy(p, TRUE)
      BY <1>0, AloneIsFree
    <3> QED
      BY <1>2, <3>1, <3>2, OpenFacts DEF OpenFails, SqliteOpenFails
  <2> QED
    BY <1>0, <2>1, <2>2, FailOpen
<1> QED
  BY <1>1, <1>2

\* What is known of the database once the tables were looked at, or made
TablesUpTo(m) == \A n \in {1, 3, 5} : n < m => Script[n] \in schema

LEMMA AllTables == ASSUME TablesUpTo(7) PROVE Tables \subseteq schema
<1>1. \A n \in {1, 3, 5} : n < 7
  OBVIOUS
<1> QED
  BY <1>1, ScriptFacts DEF TablesUpTo

\* To the next table, or to what follows the tables.
LEMMA ProceedOpen ==
  ASSUME HistoryInv, OpenInv, NEW p \in Procs, pc[p] \in {"check", "exec"},
         NEW n \in {3, 5, 7}, Proceed(p, n),
         UNCHANGED <<error, status, excused, shared, writable>>,
         (writer' = writer /\ pc[p] = "check") \/ writer' = Nobody,
         schema \subseteq schema', SchemaInv',
         p \in Writers /\ Undisturbed(p) => TablesUpTo(n)'
  PROVE  OpenInv'
<1>1. PICK place \in {"check", "version", "prepare"} :
        /\ Goto(p, place)
        /\ place = "check" <=> n # 7
        /\ p \in Writers => place # "prepare"
  BY DEF Proceed, AfterTables
<1>2. /\ at' = [at EXCEPT ![p] = n] /\ pc'[p] = place /\ at'[p] = n
      /\ pc[p] \in InHook \ {"open"} /\ pc[p] \notin Recording
      /\ place \in Places \ {"idle"} /\ place \notin Recording
      /\ pc[p] \notin {"idle", "over", "reading"} /\ (pc[p] = "check" => pc[p] \notin Holding)
  BY <1>1, OpenFacts, PlaceFacts DEF Proceed, Goto
<1>3. PlaceAt(p)'
  <2>1. n # 7 => n \in {1, 3, 5}
    OBVIOUS
  <2> QED
    BY <1>1, <1>2, <2>1, OpenFacts DEF PlaceAt
<1>4. p \in Writers /\ Undisturbed(p) /\ AloneHere(p) => AloneHere(p)'
  <2> SUFFICES ASSUME p \in Writers, Undisturbed(p), AloneHere(p) PROVE AloneHere(p)'
    OBVIOUS
  <2>1. TablesUpTo(n)' /\ (n = 7 => (Tables \subseteq schema)')
    <3>1. n = 7 => TablesUpTo(7)'
      OBVIOUS
    <3>2. TablesUpTo(7)' => (Tables \subseteq schema)'
      BY AllTables, PTL
    <3> QED
      BY <3>1, <3>2
  <2> QED
    BY <1>1, <1>2, <2>1 DEF AloneHere, TablesUpTo
<1>5. \A q \in Procs : q # p => at'[q] = at[q] /\ error'[q] = error[q]
  BY <1>2, OpenFacts
<1> QED
  BY <1>1, <1>2, <1>3, <1>4, <1>5, OpenFacts, MovesOpen

\* A look at a table
LEMMA TableOpen ==
  ASSUME HistoryInv, OpenInv, NEW p \in Procs, SkipTable(p) \/ CreateTable(p) \/ TableUnknown(p)
  PROVE  OpenInv'
<1>0. /\ pc[p] = "check" /\ pc[p] \in InHook \ {"open"} /\ pc[p] \notin Holding
      /\ pc[p] \notin {"idle", "over", "reading"} /\ pc[p] \notin Recording
      /\ "create" \in Places \ {"idle"} /\ "create" \notin Recording
  BY PlaceFacts DEF SkipTable, CreateTable, TableUnknown
<1>1. PICK k \in {1, 3, 5} : k = at[p]
  BY <1>0, OpenFacts DEF PlaceAt
<1>2. NextTable(at[p]) = k + 2 /\ k + 2 \in {3, 5, 7}
  BY <1>1, ScriptFacts
<1>3. p \in Writers /\ Undisturbed(p) => TablesUpTo(k) /\ Readable(p)
  <2> SUFFICES ASSUME p \in Writers, Undisturbed(p) PROVE TablesUpTo(k) /\ Readable(p)
    OBVIOUS
  <2>1. AloneHere(p) /\ Readable(p)
    BY <1>0, AloneIsFree
  <2> QED
    BY <1>0, <1>1, <2>1 DEF AloneHere, TablesUpTo
<1>4. CASE SkipTable(p)
  <2>1. /\ Proceed(p, k + 2) /\ UNCHANGED <<error, status, excused, shared, writer, writable, schema>>
        /\ Script[k] \in schema
    BY <1>1, <1>2, <1>4 DEF SkipTable, TableFound, resultVars, lockVars
  <2>2. SchemaInv'
    BY <2>1, OpenFacts DEF SchemaInv
  <2>3. p \in Writers /\ Undisturbed(p) => TablesUpTo(k + 2)'
    <3>1. \A n \in {1, 3, 5} : n < k + 2 => n < k \/ n = k
      OBVIOUS
    <3> QED
      BY <1>3, <2>1, <3>1 DEF TablesUpTo
  <2>4. PICK n \in {3, 5, 7} : n = k + 2
    BY <1>2
  <2> QED
    BY <1>0, <2>1, <2>2, <2>3, <2>4, ProceedOpen
<1>5. CASE CreateTable(p)
  <2>1. /\ Goto(p, "create") /\ Script[k] \notin schema
        /\ UNCHANGED <<at, error, status, excused, shared, writer, writable, schema>>
    BY <1>1, <1>5 DEF CreateTable, TableMissing, recordVars, resultVars, lockVars
  <2>2. pc'[p] = "create" /\ at'[p] = k /\ SchemaInv'
    BY <1>1, <2>1, OpenFacts DEF Goto, SchemaInv
  <2>3. k \in 1 .. 6 /\ k \notin AfterTable
    BY DEF AfterTable
  <2>4. PlaceAt(p)'
    BY <1>0, <2>1, <2>2, <2>3, OpenFacts DEF PlaceAt
  <2>5. \A n \in 1 .. 6 : k <= n /\ n < k + 2 => Script[n] \notin schema
    <3> SUFFICES ASSUME NEW n \in 1 .. 6, k <= n, n < k + 2, n # k PROVE Script[n] \notin schema
      BY <2>1
    <3>1. n = k + 1 /\ n \in AfterTable /\ n - 1 = k
      BY DEF AfterTable
    <3> QED
      BY <2>1, <3>1, OpenFacts DEF SchemaInv
  <2>6. p \in Writers /\ Undisturbed(p) /\ AloneHere(p) => AloneHere(p)'
    BY <1>0, <1>1, <1>2, <2>1, <2>2, <2>5 DEF AloneHere
  <2> QED
    BY <1>0, <2>1, <2>2, <2>4, <2>6, OpenFacts, MovesOpen
<1>6. CASE TableUnknown(p)
  <2>1. ~Readable(p)
    BY <1>6 DEF TableUnknown, TableInfoFails
  <2>2. ~(p \in Writers /\ Undisturbed(p))
    BY <1>3, <2>1
  <2>3. CASE End(p, "died")
    BY <1>0, <2>2, <2>3, EndOpen
  <2>4. CASE Fail(p) /\ UNCHANGED sqliteVars
    BY <1>0, <2>2, <2>4, FailOpen DEF Fail, sqliteVars, lockVars
  <2>5. CASE /\ TableInfoFails(p) /\ Proceed(p, NextTable(at[p])) /\ UNCHANGED resultVars
    <3>1. Proceed(p, k + 2) /\ UNCHANGED <<error, status, excused, shared, writer, writable, schema>>
      BY <1>2, <2>5 DEF TableInfoFails, resultVars, sqliteVars, lockVars
    <3>2. SchemaInv'
      BY <3>1, OpenFacts DEF SchemaInv
    <3>3. PICK n \in {3, 5, 7} : n = k + 2
      BY <1>2
    <3> QED
      BY <1>0, <2>2, <3>1, <3>2, <3>3, ProceedOpen
  <2> QED
    BY <1>6, <2>3, <2>4, <2>5 DEF TableUnknown
<1> QED
  BY <1>4, <1>5, <1>6

\* A statement begins.
LEMMA CreateOpen ==
  ASSUME HistoryInv, OpenInv, NEW p \in Procs, CreateStarts(p) \/ CreateRefused(p) \/ CreateFails(p)
  PROVE  OpenInv'
<1>0. /\ pc[p] \in {"create", "exec"} /\ pc[p] \in InHook \ {"open"}
      /\ (pc[p] = "create" => pc[p] \notin Holding)
      /\ pc[p] \notin {"idle", "over", "reading"} /\ pc[p] \notin Recording
      /\ "exec" \in Places \ {"idle"} /\ "exec" \notin Recording /\ "exec" \in Holding
  BY PlaceFacts DEF CreateStarts, CreateRefused, CreateFails
<1>1. /\ at[p] \in 1 .. 6 /\ at[p] < NextTable(at[p])
      /\ p \in Writers /\ Undisturbed(p) =>
           /\ AloneHere(p) /\ Script[at[p]] \notin schema /\ shared = {}
           /\ pc[p] = "create" => Reservable(p)
           /\ pc[p] = "exec" => level = "exclusive"
  <2>1. PICK k \in 1 .. 6 : k = at[p]
    BY <1>0, OpenFacts DEF PlaceAt
  <2>2. k < NextTable(k)
    BY DEF NextTable
  <2>3. k <= k
    OBVIOUS
  <2>4. ASSUME p \in Writers, Undisturbed(p)
        PROVE  /\ AloneHere(p) /\ Script[at[p]] \notin schema /\ shared = {}
               /\ pc[p] = "create" => Reservable(p)
               /\ pc[p] = "exec" => level = "exclusive"
    <3>1. AloneHere(p) /\ shared = {} /\ (pc[p] = "create" => Reservable(p))
      BY <1>0, <2>4, AloneIsFree
    <3>2. Script[k] \notin schema
      BY <1>0, <2>1, <2>2, <2>3, <3>1 DEF AloneHere
    <3> QED
      BY <1>0, <2>1, <3>1, <3>2 DEF AloneHere
  <2> QED
    BY <2>1, <2>2, <2>4
<1>2. CASE CreateStarts(p)
  <2>1. /\ Goto(p, "exec") /\ pc[p] = "create"
        /\ UNCHANGED <<at, error, status, excused, shared, writable, schema>>
        /\ writer' = p
        /\ Script[at[p]] \notin schema => level' = "exclusive"
    BY <1>2 DEF CreateStarts, ExecStarts, Reserve, Exclude, recordVars, resultVars
  <2>2. pc'[p] = "exec" /\ SchemaInv'
    BY <2>1, OpenFacts DEF Goto, SchemaInv
  <2>3. PlaceAt(p)'
    BY <1>0, <2>1, <2>2, OpenFacts DEF PlaceAt
  <2>4. p \in Writers /\ Undisturbed(p) /\ AloneHere(p) => AloneHere(p)'
    BY <1>0, <1>1, <2>1, <2>2 DEF AloneHere
  <2> QED
    BY <1>0, <2>1, <2>2, <2>3, <2>4, OpenFacts, MovesOpen
<1>3. CASE CreateRefused(p)
  <2>1. /\ pc[p] = "create" /\ Failing(p) /\ UNCHANGED <<shared, schema, writer, excused>>
        /\ ~Reservable(p) \/ shared # {}
    BY <1>3 DEF CreateRefused, ExecRefused, Fail, sqliteVars, lockVars
  <2> QED
    BY <1>0, <1>1, <2>1, FailOpen
<1>4. CASE CreateFails(p)
  <2>1. /\ pc[p] = "exec" /\ Failing(p) /\ UNCHANGED <<shared, schema, excused>>
        /\ level = "reserved" /\ writer' = Nobody
    BY <1>4 DEF CreateFails, ExecFails, Unlock, Fail
  <2> QED
    BY <1>0, <1>1, <2>1, FailOpen
<1> QED
  BY <1>2, <1>3, <1>4

\* A statement ends: the next of its group is still to be made.
LEMMA CreatedOpen ==
  ASSUME HistoryInv, OpenInv, NEW p \in Procs, Create(p)
  PROVE  OpenInv'
<1>0. /\ pc[p] = "exec" /\ pc[p] \in InHook \ {"open"}
      /\ pc[p] \notin {"idle", "over", "reading"} /\ pc[p] \notin Recording
      /\ "create" \in Places \ {"idle"} /\ "create" \notin Recording
  BY PlaceFacts DEF Create
<1>1. PICK k \in 1 .. 6 : k = at[p] /\ (k \in AfterTable => Script[k - 1] \in schema)
  BY <1>0, OpenFacts DEF PlaceAt
<1>2. /\ schema' = schema \cup {Script[k]} /\ writer' = Nobody
      /\ UNCHANGED <<error, status, excused, shared, writable>>
      /\ IF k + 1 = NextTable(k)
         THEN Proceed(p, k + 1)
         ELSE Goto(p, "create") /\ at' = [at EXCEPT ![p] = k + 1]
  BY <1>1 DEF Create, ExecDone, Unlock, resultVars
<1>3. SchemaInv'
  <2>1. "version" \notin schema'
    BY <1>2, ScriptFacts, OpenFacts DEF SchemaInv
  <2>2. ASSUME NEW n \in AfterTable, Script[n] \in schema' PROVE Script[n - 1] \in schema'
    <3>1. n \in 1 .. 6
      BY DEF AfterTable
    <3>2. Script[n] \in schema \/ n = k
      BY <1>2, <2>2, <3>1, ScriptFacts
    <3> QED
      BY <1>1, <1>2, <2>2, <3>2, OpenFacts DEF SchemaInv
  <2> QED
    BY <2>1, <2>2 DEF SchemaInv
<1>4. CASE k + 1 = NextTable(k)
  <2>1. Proceed(p, k + 1) /\ k + 1 \in {3, 5, 7} /\ k \in AfterTable
    BY <1>2, <1>4 DEF NextTable, AfterTable
  <2>2. p \in Writers /\ Undisturbed(p) => TablesUpTo(k + 1)'
    <3> SUFFICES ASSUME p \in Writers, Undisturbed(p), NEW n \in {1, 3, 5}, n < k + 1
                 PROVE  Script[n] \in schema'
      BY DEF TablesUpTo
    <3>1. n < k \/ n = k
      OBVIOUS
    <3>2. AloneHere(p)
      BY AloneIsFree
    <3>3. n < k => Script[n] \in schema
      BY <1>0, <1>1, <3>2 DEF AloneHere
    <3> QED
      BY <1>2, <3>1, <3>3
  <2>3. PICK n \in {3, 5, 7} : n = k + 1
    BY <2>1
  <2> QED
    BY <1>0, <1>2, <1>3, <2>1, <2>2, <2>3, ProceedOpen
<1>5. CASE k + 1 # NextTable(k)
  <2>1. k \in {1, 3, 5} /\ k + 1 \in AfterTable /\ k + 1 \in 1 .. 6 /\ NextTable(k + 1) = k + 2
        /\ (k + 1) - 1 = k
    BY <1>5 DEF NextTable, AfterTable
  <2>2. /\ Goto(p, "create") /\ at' = [at EXCEPT ![p] = k + 1]
        /\ pc'[p] = "create" /\ at'[p] = k + 1
    BY <1>2, <1>5, OpenFacts DEF Goto
  <2>3. PlaceAt(p)'
    <3>1. Script[(k + 1) - 1] \in schema'
      BY <1>2, <2>1
    <3> QED
      BY <1>0, <1>2, <2>1, <2>2, <3>1, OpenFacts DEF PlaceAt
  <2>4. p \in Writers /\ Undisturbed(p) /\ AloneHere(p) => AloneHere(p)'
    <3> SUFFICES ASSUME p \in Writers, Undisturbed(p), AloneHere(p) PROVE AloneHere(p)'
      OBVIOUS
    <3>1. \A n \in {1, 3, 5} : n < k + 1 => Script[n] \in schema'
      <4>1. \A n \in {1, 3, 5} : n < k + 1 => n < k \/ n = k
        OBVIOUS
      <4>2. \A n \in {1, 3, 5} : n < k => Script[n] \in schema
        BY <1>0, <1>1 DEF AloneHere
      <4> QED
        BY <1>2, <4>1, <4>2
    <3>2. \A n \in 1 .. 6 : k + 1 <= n /\ n < NextTable(k + 1) => Script[n] \notin schema'
      <4>1. \A n \in 1 .. 6 : k + 1 <= n /\ n < k + 2 => n = k + 1
        OBVIOUS
      <4>2. k <= k + 1 /\ k + 1 < NextTable(k) /\ Script[k + 1] # Script[k]
        BY <2>1, ScriptFacts
      <4>3. Script[k + 1] \notin schema
        BY <1>0, <1>1, <2>1, <4>2 DEF AloneHere
      <4> QED
        BY <1>2, <2>1, <4>1, <4>2, <4>3
    <3> QED
      BY <1>0, <1>2, <2>2, <3>1, <3>2 DEF AloneHere
  <2>5. \A q \in Procs : q # p => at'[q] = at[q]
    BY <2>2
  <2> QED
    BY <1>0, <1>2, <1>3, <2>2, <2>3, <2>4, <2>5, OpenFacts, MovesOpen
<1> QED
  BY <1>4, <1>5

\* What follows the tables
LEMMA VersionOpen ==
  ASSUME HistoryInv, OpenInv, NEW p \in Procs,
         \/ SetVersionStarts(p) \/ SetVersionRefused(p) \/ SetVersion(p)
         \/ Prepare(p) \/ PrepareFails(p)
  PROVE  OpenInv'
<1>0. /\ pc[p] \in {"version", "setversion", "prepare"} /\ pc[p] \in InHook \ {"open"}
      /\ pc[p] \notin {"idle", "over", "reading"} /\ pc[p] \notin Recording
      /\ (pc[p] # "setversion" => pc[p] \notin Holding)
      /\ {"setversion", "prepare", "command", "query"} \subseteq Places \ {"idle"}
      /\ {"setversion", "prepare", "command", "query"} \cap Recording = {}
      /\ "setversion" \in Holding
  BY PlaceFacts DEF SetVersionStarts, SetVersionRefused, SetVersion, Prepare, PrepareFails
<1>1. p \in Writers /\ Undisturbed(p) =>
        /\ Tables \subseteq schema /\ shared = {}
        /\ pc[p] # "setversion" => Reservable(p) /\ Readable(p)
  BY <1>0, AloneIsFree DEF AloneHere
<1>2. ASSUME NEW place \in {"setversion", "prepare", "command", "query"}, Goto(p, place),
             UNCHANGED <<at, error, status, excused, shared, writable, schema>>,
             \/ writer' = Nobody
             \/ writer' = writer /\ pc[p] \notin Holding
             \/ writer' = p /\ place = "setversion",
             p \in Writers => place # "query"
      PROVE  OpenInv'
  <2>1. pc'[p] = place /\ SchemaInv'
    BY <1>2, OpenFacts DEF Goto, SchemaInv
  <2>2. PlaceAt(p)'
    BY <1>0, <1>2, <2>1, OpenFacts DEF PlaceAt
  <2>3. p \in Writers /\ Undisturbed(p) /\ AloneHere(p) => AloneHere(p)'
    BY <1>0, <1>1, <1>2, <2>1 DEF AloneHere
  <2> QED
    BY <1>0, <1>2, <2>1, <2>2, <2>3, OpenFacts, MovesOpen
<1>3. CASE SetVersionStarts(p)
  <2>1. writer' = p
    BY <1>3 DEF SetVersionStarts, ExecStarts, Reserve, Exclude
  <2> QED
    BY <1>2, <1>3, <2>1 DEF SetVersionStarts, ExecStarts, recordVars, resultVars
<1>4. CASE SetVersionRefused(p)
  <2>1. /\ pc[p] = "version" /\ Failing(p) /\ UNCHANGED <<shared, schema, writer, excused>>
        /\ ~Reservable(p) \/ shared # {}
    BY <1>4 DEF SetVersionRefused, ExecRefused, Fail, sqliteVars, lockVars
  <2> QED
    BY <1>0, <1>1, <2>1, FailOpen
<1>5. CASE SetVersion(p)
  BY <1>2, <1>5 DEF SetVersion, Unlock, recordVars, resultVars
<1>6. CASE Prepare(p)
  <2>1. PICK place \in {"command", "query"} :
          place = (IF p \in Writers THEN "command" ELSE "query") /\ Goto(p, place)
    BY <1>6 DEF Prepare
  <2>2. pc[p] \notin Holding /\ UNCHANGED <<at, error, status, excused, shared, writable, schema, writer>>
    BY <1>0, <1>6 DEF Prepare, sqliteVars, lockVars, recordVars, resultVars
  <2> QED
    BY <1>2, <2>1, <2>2
<1>7. CASE PrepareFails(p)
  <2>1. /\ pc[p] = "prepare" /\ Failing(p) /\ UNCHANGED <<shared, schema, writer, excused>>
        /\ ~(Tables \subseteq schema) \/ ~Readable(p)
    BY <1>7 DEF PrepareFails, Fail, sqliteVars, lockVars
  <2> QED
    BY <1>0, <1>1, <2>1, FailOpen
<1> QED
  BY <1>3, <1>4, <1>5, <1>6, <1>7

LEMMA DbOpenOpen ==
  ASSUME HistoryInv, OpenInv, NEW p \in Procs, DbOpen(p)
  PROVE  OpenInv'
BY OpenOpen, TableOpen, CreateOpen, CreatedOpen, VersionOpen DEF DbOpen

\* pkg_history_main
LEMMA MainOpen ==
  ASSUME HistoryInv, OpenInv, NEW r \in Readers, PkgHistoryMain(r)
  PROVE  OpenInv'
<1>0. r \in Procs /\ r \notin Writers
  BY WritersAreProcs
<1>1. CASE DbOpen(r)
  BY <1>0, <1>1, DbOpenOpen
<1>2. CASE Query(r) \/ QueryFails(r) \/ QueryEnds(r)
  <2>0. /\ pc[r] \in {"query", "reading"} /\ pc[r] \notin Holding \cup Recording
        /\ pc[r] \notin {"idle", "over"}
        /\ {"reading", "leaving"} \subseteq Places \ {"idle"}
    BY <1>2, PlaceFacts DEF Query, QueryFails, QueryEnds
  <2>1. /\ UNCHANGED <<at, error, status, excused, schema, writer>>
        /\ \/ Goto(r, "reading") /\ shared' = shared \cup {r}
           \/ Goto(r, "leaving") /\ shared' = shared /\ pc[r] # "reading"
           \/ Goto(r, "leaving") /\ shared' = shared \ {r}
    BY <1>2 DEF Query, QueryFails, QueryEnds, sqliteVars, lockVars, recordVars, resultVars
  <2>2. PICK place \in {"reading", "leaving"} :
          /\ Goto(r, place)
          /\ \/ shared' = shared /\ pc[r] # "reading"
             \/ shared' = shared \cup {r} /\ place = "reading"
             \/ shared' = shared \ {r}
    BY <2>1
  <2>3. pc'[r] = place /\ SchemaInv'
    BY <1>0, <2>1, <2>2, OpenFacts DEF Goto, SchemaInv
  <2>4. PlaceAt(r)'
    BY <1>0, <2>0, <2>1, <2>3, OpenFacts DEF PlaceAt
  <2> QED
    BY <1>0, <2>0, <2>1, <2>2, <2>3, <2>4, OpenFacts, MovesOpen
<1> QED
  BY <1>1, <1>2 DEF PkgHistoryMain

\* The statements of the transaction
LEMMA RecordingOpen ==
  ASSUME HistoryInv, OpenInv, NEW w \in Writers,
         \/ CreateCommand(w) \/ CreateCommandIgnored(w)
         \/ CreateLine(w) \/ CommitStarts(w)
  PROVE  OpenInv'
<1>0. /\ w \in Procs /\ pc[w] \in {"command", "line", "commit"} /\ pc[w] \in InHook \ {"open"}
      /\ pc[w] \notin {"idle", "over", "reading"}
      /\ {"line", "commit", "committing"} = Recording
      /\ Recording \subseteq (Places \ {"idle"}) \cap Holding
      /\ (pc[w] = "command" => pc[w] \notin Holding)
  BY PlaceFacts, WritersAreProcs
     DEF CreateCommand, CreateCommandIgnored, CreateLine, CommitStarts, Recording
<1>1. PICK place \in Recording : Goto(w, place)
  BY <1>0 DEF CreateCommand, CreateCommandIgnored, CreateLine, CommitStarts
<1>2. /\ UNCHANGED <<status, shared, writable, schema>>
      /\ \A q \in Procs : q # w => at'[q] = at[q] /\ error'[q] = error[q]
      /\ error' \in [Procs -> BOOLEAN]
      /\ CreateCommandIgnored(w) \/ UNCHANGED excused
  <2>1. CASE CreateCommand(w) \/ CreateLine(w) \/ CommitStarts(w)
    BY <2>1, OpenFacts, <1>0 DEF CreateCommand, CreateLine, CommitStarts, recordVars, resultVars
  <2>2. CASE CreateCommandIgnored(w)
    BY <2>2, OpenFacts, <1>0 DEF CreateCommandIgnored, sqliteVars, lockVars
  <2> QED
    BY <2>1, <2>2
<1>3. pc'[w] = place /\ SchemaInv'
  BY <1>0, <1>1, <1>2, OpenFacts DEF Goto, SchemaInv
<1>4. PlaceAt(w)'
  BY <1>0, <1>3 DEF PlaceAt
<1>5. CASE CreateCommandIgnored(w)
  <2>0. pc[w] = "command" /\ pc[w] \notin Holding
    BY <1>0, <1>5 DEF CreateCommandIgnored
  <2>1. \/ ~Reservable(w) /\ UNCHANGED <<sqliteVars, excused>>
        \/ /\ UNCHANGED sqliteVars \/ Reserve(w)
           /\ excused' = [excused EXCEPT ![w] = TRUE]
    BY <1>5, Zenon DEF CreateCommandIgnored
  <2>2. ~Reservable(w) => excused[w]
    BY <1>0, <2>0, AloneIsFree, Zenon DEF Undisturbed
  <2>3. excused \in [Writers -> BOOLEAN]
    BY DEF OpenInv, FlagsInv
  <2>4. excused'[w] /\ excused' \in [Writers -> BOOLEAN]
        /\ \A v \in Writers : v # w => excused'[v] = excused[v]
    BY <2>1, <2>2, <2>3
  <2>5. FlagsInv'
    BY <1>2, <2>4 DEF FlagsInv
  <2>6. writer' = writer \/ writer' = w
    BY <2>1 DEF Reserve, sqliteVars, lockVars
  <2>7. writer # w \/ writer = Nobody
    BY <1>0, <2>0 DEF OpenInv, LocksInv
  <2>8. writer' # Nobody =>
          (writer' = writer /\ writer # w) \/ (writer' = w /\ place \in Holding)
    BY <1>0, <2>6, <2>7
  <2>9. \A q \in shared' : (q \in shared /\ q # w) \/ (q = w /\ place = "reading")
    BY <1>0, <1>2 DEF OpenInv, LocksInv
  <2>10. \A q \in Procs : q # w => status'[q] = status[q]
    BY <1>2
  <2> QED
    BY <1>0, <1>1, <1>2, <1>3, <1>4, <2>4, <2>5, <2>8, <2>9, <2>10, StepsOpen
<1>6. CASE CreateCommand(w) \/ CreateLine(w)
  <2>1. writer' = w /\ UNCHANGED error
    BY <1>6 DEF CreateCommand, CreateLine, Reserve, resultVars
  <2>2. UNCHANGED excused
    BY <1>6 DEF CreateCommand, CreateLine, resultVars
  <2>3. Undisturbed(w) /\ AloneHere(w) => AloneHere(w)'
    BY <1>0, <1>2, <1>3, <2>1 DEF AloneHere
  <2> QED
    BY <1>0, <1>1, <1>2, <1>3, <1>4, <2>1, <2>2, <2>3, MovesOpen
<1>7. CASE CommitStarts(w)
  <2>1. UNCHANGED <<writer, error, excused>> /\ pc[w] \in Recording
    BY <1>0, <1>7 DEF CommitStarts, resultVars
  <2>2. Undisturbed(w) /\ AloneHere(w) => AloneHere(w)'
    BY <1>0, <1>2, <1>3, <2>1 DEF AloneHere
  <2>3. writer' = writer
    BY <2>1
  <2>4. \A q \in shared' : (q \in shared /\ q # w) \/ (q = w /\ place = "reading")
    BY <1>0, <1>2 DEF OpenInv, LocksInv
  <2> QED
    BY <1>0, <1>1, <1>2, <1>3, <1>4, <2>1, <2>2, <2>3, <2>4, StepsOpen, OpenFacts
       DEF OpenInv, LocksInv, FlagsInv, AloneInv, Undisturbed, RecordedWhenAlone
<1> QED
  BY <1>5, <1>6, <1>7

LEMMA TransactionFailsOpen ==
  ASSUME HistoryInv, OpenInv, NEW w \in Writers,
         CommandLineFails(w) \/ CreateLineFails(w) \/ CommitBusy(w)
  PROVE  OpenInv'
<1>0. /\ w \in Procs /\ pc[w] \in {"command", "line", "commit"} /\ pc[w] \in InHook
      /\ pc[w] \notin {"idle", "over"} /\ {"line", "commit"} \subseteq Recording
  BY PlaceFacts, WritersAreProcs DEF CommandLineFails, CreateLineFails, CommitBusy, Recording
<1>1. ASSUME Fault(w) PROVE OpenInv'
  <2>1. /\ Failing(w) /\ excused' = [excused EXCEPT ![w] = TRUE]
        /\ UNCHANGED <<shared, schema, writer>>
    BY <1>1 DEF Fault, sqliteVars, lockVars
  <2> QED
    BY <1>0, <2>1, FailOpen
<1>2. ASSUME Undisturbed(w) PROVE shared = {} /\ ~error[w] /\ (pc[w] \in Recording => writer = w)
  BY <1>0, <1>2, AloneIsFree DEF AloneHere
<1>3. ASSUME SecondError(w) PROVE OpenInv'
  <2>1. End(w, "died") /\ ~Undisturbed(w)
    BY <1>2, <1>3 DEF SecondError
  <2> QED
    BY <1>0, <2>1, EndOpen
<1>4. CASE CommandLineFails(w)
  BY <1>1, <1>4 DEF CommandLineFails
<1>5. CASE CreateLineFails(w)
  <2>1. CASE writer # w /\ ~Reservable(w) /\ Fail(w) /\ UNCHANGED sqliteVars
    <3>1. /\ Failing(w) /\ UNCHANGED <<shared, schema, writer, excused>> /\ pc[w] \in Recording
      BY <1>0, <1>5, <2>1 DEF CreateLineFails, Fail, sqliteVars, lockVars
    <3> QED
      BY <1>0, <1>2, <2>1, <3>1, FailOpen
  <2> QED
    BY <1>1, <1>3, <1>5, <2>1 DEF CreateLineFails
<1>6. CASE CommitBusy(w)
  <2>1. CASE UNCHANGED <<exists, schema, hot, shared, writer, writable>> /\ Fail(w)
    <3>1. shared # {} /\ Failing(w) /\ UNCHANGED <<shared, schema, writer, excused>>
      BY <1>6, <2>1 DEF CommitBusy, Fail
    <3> QED
      BY <1>0, <1>2, <3>1, FailOpen
  <2> QED
    BY <1>3, <1>6, <2>1 DEF CommitBusy
<1> QED
  BY <1>4, <1>5, <1>6

LEMMA CommitOpen ==
  ASSUME HistoryInv, OpenInv, NEW w \in Writers, Commit(w)
  PROVE  OpenInv'
<1>0. /\ w \in Procs /\ pc[w] \notin {"idle", "over", "reading"}
      /\ "leaving" \in Places \ {"idle"} /\ "leaving" \notin InHook \cup Recording
  BY PlaceFacts, WritersAreProcs DEF Commit
<1>1. /\ Goto(w, "leaving") /\ Forget(w) /\ status' = [status EXCEPT ![w] = "ok"]
      /\ UNCHANGED <<schema, shared, excused, writable>> /\ writer' = Nobody
  BY DEF Commit, Unlock
<1>2. /\ pc'[w] = "leaving" /\ status'[w] = "ok" /\ ~error'[w]
      /\ \A q \in Procs : q # w => at'[q] = at[q] /\ error'[q] = error[q] /\ status'[q] = status[q]
  BY <1>0, <1>1 DEF Goto, Forget, HistoryInv, TypesInv, OpenInv, FlagsInv
<1>3. FlagsInv' /\ SchemaInv'
  BY <1>1 DEF Forget, OpenInv, FlagsInv, SchemaInv
<1>4. PlaceAt(w)'
  BY <1>2 DEF PlaceAt
<1>5. AloneHere(w)'
  BY <1>0, <1>2 DEF AloneHere
<1>6. \A q \in shared' : q \in shared /\ q # w
  BY <1>0, <1>1 DEF OpenInv, LocksInv
<1>7. ~excused'[w] => ~excused[w]
  BY <1>1
<1> QED
  BY <1>0, <1>1, <1>2, <1>3, <1>4, <1>5, <1>6, <1>7, StepsOpen

LEMMA OverOpen ==
  ASSUME HistoryInv, OpenInv, NEW p \in Procs, Exit(p) \/ Crash(p)
  PROVE  OpenInv'
<1>1. CASE Exit(p)
  <2>1. PICK how : how = status[p]
    OBVIOUS
  <2> QED
    BY <1>1, <2>1, EndOpen DEF Exit
<1>2. CASE Crash(p)
  BY <1>2, EndOpen DEF Crash, Active
<1> QED
  BY <1>1, <1>2

LEMMA InitOpen == HistoryInit => OpenInv
<1> SUFFICES ASSUME HistoryInit PROVE OpenInv
  OBVIOUS
<1>1. FlagsInv /\ LocksInv /\ SchemaInv
  BY DEF HistoryInit, SqliteInit, FlagsInv, LocksInv, SchemaInv
<1>2. \A p \in Procs : PlaceAt(p)
  BY DEF HistoryInit, PlaceAt
<1>3. AloneInv /\ RecordedWhenAlone
  BY WritersAreProcs DEF HistoryInit, AloneInv, Undisturbed, RecordedWhenAlone
<1> QED
  BY <1>1, <1>2, <1>3 DEF OpenInv

LEMMA StutterOpen ==
  ASSUME OpenInv, UNCHANGED historyVars
  PROVE  OpenInv'
BY DEF historyVars, sqliteVars, lockVars, tableVars, recordVars, resultVars, OpenInv, FlagsInv,
       LocksInv, SchemaInv, PlaceAt, AloneInv, Undisturbed, Alone, AloneHere, RecordedWhenAlone

LEMMA StepOpen ==
  ASSUME HistoryInv, OpenInv, HistoryNext
  PROVE  OpenInv'
<1>1. CASE \E p \in Procs : Start(p) \/ Exit(p) \/ Crash(p)
  BY <1>1, StartOpen, OverOpen
<1>2. CASE \E w \in Writers : HandleHooks(w)
  <2>1. PICK w \in Writers : HandleHooks(w)
    BY <1>2
  <2>2. CASE DbOpen(w)
    BY <2>2, DbOpenOpen, WritersAreProcs
  <2> QED
    BY <2>1, <2>2, RecordingOpen, TransactionFailsOpen, CommitOpen DEF HandleHooks
<1>3. CASE \E r \in Readers : PkgHistoryMain(r)
  BY <1>3, MainOpen
<1> QED
  BY <1>1, <1>2, <1>3 DEF HistoryNext

\* A hook that fails was disturbed, or a call failed for no reason of the model:
\* a command whose hook is alone with the database is recorded, whatever the
\* processes that were killed before it left of the schema and of the journal.
\* What makes it so: the database is its own as long as no process starts, it
\* can be written to, the statements left to create are exactly those the hook
\* goes through, and a hot journal is played back by the hook itself.
THEOREM RecordsWhenAlone == HistorySpec => []RecordedWhenAlone
<1>1. OpenInv => RecordedWhenAlone
  BY DEF OpenInv
<1>2. OpenInv /\ HistoryInv /\ [HistoryNext]_historyVars => OpenInv'
  BY StepOpen, StutterOpen
<1> QED
  BY HistoryIsConsistent, InitOpen, <1>1, <1>2, PTL DEF HistorySpec

-----------------------------------------------------------------------------
(* pkg history: the inductive invariant *)

\* What is displayed of a history.
Items(s) ==
  [kind : {"line"}, line : s.lines, label : {l.name : l \in s.lines} \cup {l.origin : l \in s.lines}]
    \cup [kind : {"command"}, command : DOMAIN s.commands, at : Int]

Options == {"limit", "operations", "from", "to", "origin", "statement"}

QueryTypeOK ==
  /\ phase \in {"options", "invalid", "open", "rows", "failed", "over"}
  /\ DOMAIN qo = Options /\ qo.limit \in Nat /\ options \in Nat
  /\ searched = {} \/ \E pattern : searched = {pattern}
  /\ store.commands \in Seq(Int)
  /\ IsFiniteSet(store.lines)
  /\ \A l \in store.lines : l.command \in DOMAIN store.commands
  /\ upper \in {0, 1}
  /\ previous \in {0} \cup DOMAIN store.commands
  /\ output \in Seq(Items(store))

\* Before the statement is executed there is nothing to display.
NothingYet ==
  phase \in {"options", "invalid", "open"} =>
    store.lines = {} /\ left = {} /\ previous = 0 /\ output = <<>>

\* The lines the statement is about
InAnswer(l) ==
  /\ l.operation \in qo.operations
  /\ IF searched = {} THEN InPeriod(store.commands[l.command], qo.from, qo.to)
     ELSE /\ InPeriod(store.commands[l.command], Wrap(CInt, qo.from), Wrap(CInt, qo.to))
          /\ \E pattern \in searched : NameMatches(l.name, pattern)
Answer == {l \in store.lines : InAnswer(l)}

LinesShown == {output[i].line : i \in Shown}
Rows(s, chosen) == {Row(s, l) : l \in chosen}
LinesIn(rows) == {r.line : r \in rows}
LinesLeft == LinesIn(left)

\* Each of them is still a row or was displayed, once, the latest first.
RowsInv ==
  /\ left = Rows(store, LinesLeft)
  /\ LinesLeft \cap LinesShown = {}
  /\ LinesLeft \cup LinesShown = Answer
  /\ \A i, j \in Shown : output[i].line = output[j].line => i = j
  /\ Cardinality(Shown) <= qo.limit
  /\ \A l \in LinesShown, r \in left : r.at <= store.commands[l.command]

HeadersOf(c) == {i \in DOMAIN output : output[i].kind = "command" /\ output[i].command = c}

\* Only lines were displayed since item h.
OnlyLines(h, n) == \A j \in h + 1 .. n : output[j].kind = "line"

\* The command of each line is above it.
HeadersAbove ==
  \A i \in Shown : \E h \in HeadersOf(output[i].line.command) : h < i /\ OnlyLines(h, i)

\* previous_command_id is the command displayed last.
LastHeader ==
  (searched = {} /\ previous # 0) => \E h \in HeadersOf(previous) : OnlyLines(h, Len(output))

\* The commands of the list come latest first, and come back only among commands
\* of the same time.
LatestFirst ==
  searched = {} => \A c \in DOMAIN store.commands :
    /\ HeadersOf(c) # {} =>
         /\ previous # 0 /\ store.commands[previous] <= store.commands[c]
         /\ \A r \in left : r.at <= store.commands[c]
    /\ \A h, k \in HeadersOf(c) : h # k =>
         \E d \in DOMAIN store.commands \ {c} : store.commands[d] = store.commands[c]

HeadersInv == HeadersAbove /\ LastHeader /\ LatestFirst

\* The display ends with the rows, or at the limit.
AtTheEnd == phase = "over" /\ store.lines # {} => left = {} \/ Cardinality(Shown) >= qo.limit

QueryInv == QueryTypeOK /\ NothingYet /\ RowsInv /\ HeadersInv /\ AtTheEnd

\* Naturals are well ordered, stated without an operator parameter: the way the
\* proofs below do induction is by a least counterexample.
LEMMA LeastElement ==
  \A T \in SUBSET Nat : T # {} => \E n \in T : \A m \in T : n <= m
<1> SUFFICES ASSUME NEW T \in SUBSET Nat, T # {}
             PROVE  \E n \in T : \A m \in T : n <= m
  OBVIOUS
<1> DEFINE Below == {1 .. n : n \in T}
<1>1. Below # {}
  OBVIOUS
<1>2. Below \subseteq FiniteSubsetsOf(Nat)
  <2>1. \A n \in T : 1 .. n \subseteq Nat /\ IsFiniteSet(1 .. n)
    <3> TAKE n \in T
    <3>1. 1 \in Int /\ n \in Int
      OBVIOUS
    <3> QED
      BY <3>1, FS_Interval
  <2> QED
    BY <2>1, Zenon DEF FiniteSubsetsOf
<1>3. IsWellFoundedOn(StrictSubsetOrdering(Nat), FiniteSubsetsOf(Nat))
  BY FS_StrictSubsetOrderingWellFounded
<1> HIDE DEF Below
<1>4. PICK b \in Below : \A a \in Below : <<a, b>> \notin StrictSubsetOrdering(Nat)
  BY <1>1, <1>2, <1>3, WFMin
<1>5. PICK n \in T : b = 1 .. n
  BY DEF Below
<1>6. ASSUME NEW m \in T, m < n PROVE FALSE
  <2>1. 1 .. m \in Below
    BY DEF Below
  <2>2. n \in 1 .. n /\ n \notin 1 .. m /\ 1 .. m \subseteq 1 .. n
    BY <1>6
  <2>3. <<1 .. m, 1 .. n>> \in StrictSubsetOrdering(Nat)
    BY <2>2 DEF StrictSubsetOrdering
  <2> QED
    BY <1>4, <1>5, <2>1, <2>3
<1> QED
  BY <1>6

-----------------------------------------------------------------------------
(* Numbers *)

\* As many as there are subsets of n elements
LEMMA PowerIsPositive == \A n \in Nat : 2 ^ n \in Nat \ {0}
<1> TAKE n \in Nat
<1> DEFINE S == 1 .. n
<1>1. IsFiniteSet(S) /\ Cardinality(S) = n
  <2>1. 1 \in Int /\ n \in Int
    OBVIOUS
  <2>2. IsFiniteSet(1 .. n) /\ Cardinality(1 .. n) = IF 1 > n THEN 0 ELSE n - 1 + 1
    BY <2>1, FS_Interval
  <2> QED
    BY <2>2
<1> HIDE DEF S
<1>2. IsFiniteSet(SUBSET S) /\ Cardinality(SUBSET S) = 2 ^ n
  BY <1>1, FS_SUBSET
<1>3. SUBSET S # {}
  OBVIOUS
<1>4. Cardinality(SUBSET S) \in Nat /\ Cardinality(SUBSET S) # 0
  BY <1>2, <1>3, FS_CardinalityType, FS_EmptySet
<1> QED
  BY <1>2, <1>4

\* One more element doubles the subsets: those with it and those without.
LEMMA PowerDoubles == \A n \in Nat : 2 ^ (n + 1) = 2 * 2 ^ n
<1> TAKE n \in Nat
<1> DEFINE S == 1 .. n
           T == 1 .. n + 1
           Add(x) == x \cup {n + 1}
           With == {Add(x) : x \in SUBSET S}
<1>1. /\ IsFiniteSet(S) /\ Cardinality(S) = n
      /\ IsFiniteSet(T) /\ Cardinality(T) = n + 1
  <2>1. 1 \in Int /\ n \in Int /\ n + 1 \in Int
    OBVIOUS
  <2>2. /\ IsFiniteSet(1 .. n) /\ Cardinality(1 .. n) = IF 1 > n THEN 0 ELSE n - 1 + 1
        /\ IsFiniteSet(1 .. n + 1)
        /\ Cardinality(1 .. n + 1) = IF 1 > n + 1 THEN 0 ELSE n + 1 - 1 + 1
    BY <2>1, FS_Interval
  <2> QED
    BY <2>2
<1>2. T = S \cup {n + 1} /\ n + 1 \notin S
  OBVIOUS
<1> HIDE DEF S, T
<1>3. /\ IsFiniteSet(SUBSET S) /\ Cardinality(SUBSET S) = 2 ^ n
      /\ IsFiniteSet(SUBSET T) /\ Cardinality(SUBSET T) = 2 ^ (n + 1)
  BY <1>1, FS_SUBSET
<1> DEFINE f == [x \in SUBSET S |-> Add(x)]
<1>4. f \in Bijection(SUBSET S, With)
  <2>1. \A x, y \in SUBSET S : f[x] = f[y] => x = y
    BY <1>2
  <2>2. f \in [SUBSET S -> With]
    OBVIOUS
  <2>3. \A w \in With : \E x \in SUBSET S : f[x] = w
    OBVIOUS
  <2> HIDE DEF f, With
  <2> QED
    BY <2>1, <2>2, <2>3 DEF Bijection, Injection, Surjection, IsInjective
<1>5. IsFiniteSet(With) /\ Cardinality(With) = 2 ^ n
  <2> HIDE DEF f, With
  <2> QED
    BY <1>3, <1>4, FS_Bijection DEF ExistsBijection
<1>6. SUBSET T = (SUBSET S) \cup With
  <2>1. ASSUME NEW x \in SUBSET T PROVE x \in (SUBSET S) \cup With
    <3>1. CASE n + 1 \in x
      <4>1. x \ {n + 1} \in SUBSET S
        BY <1>2
      <4>2. x = Add(x \ {n + 1})
        BY <3>1
      <4> QED
        BY <4>1, <4>2
    <3>2. CASE n + 1 \notin x
      BY <1>2, <3>2
    <3> QED
      BY <3>1, <3>2
  <2>2. \A x \in With : x \in SUBSET T
    BY <1>2
  <2>3. \A x \in SUBSET S : x \in SUBSET T
    BY <1>2
  <2> HIDE DEF With
  <2> QED
    BY <2>1, <2>2, <2>3
<1>7. (SUBSET S) \cap With = {}
  BY <1>2
<1> HIDE DEF With
<1>8. Cardinality((SUBSET S) \cup With)
        = Cardinality(SUBSET S) + Cardinality(With) - Cardinality((SUBSET S) \cap With)
  BY <1>3, <1>5, FS_Union
<1>9. Cardinality({}) = 0
  BY FS_EmptySet
<1>10. PICK half \in Nat : half = 2 ^ n
  BY PowerIsPositive
<1>11. Cardinality(SUBSET T) = half + half - 0
  BY <1>3, <1>5, <1>6, <1>7, <1>8, <1>9, <1>10
<1>12. 2 ^ (n + 1) = half + half
  BY <1>3, <1>11
<1> QED
  BY <1>10, <1>12

\* The values of an int: as many below zero as from zero on
LEMMA HalfOfInts ==
  \E half \in Nat \ {0} :
    2 ^ IntBits = 2 * half /\ Largest(CInt) = half - 1 /\ Smallest(CInt) = -half
<1>1. PICK b \in Nat : IntBits = b + 1 /\ b + 1 - 1 = b
  <2>1. IntBits - 1 \in Nat /\ IntBits = IntBits - 1 + 1
    BY IntBitsAssumption
  <2> QED
    BY <2>1
<1>2. PICK half \in Nat \ {0} : half = 2 ^ b
  BY PowerIsPositive
<1>3. 2 ^ IntBits = 2 * half
  BY <1>1, <1>2, PowerDoubles
<1>4. Largest(CInt) = half - 1 /\ Smallest(CInt) = -half
  BY <1>1, <1>2 DEF CInt, IntegerType, Largest, Smallest
<1> QED
  BY <1>3, <1>4

\* An int keeps what fits in it.
LEMMA WrapFits ==
  /\ \A n \in Int : Wrap(CInt, n) \in Int
  /\ \A n \in 0 .. Largest(CInt) : Wrap(CInt, n) = n
<1>1. PICK half \in Nat \ {0} :
        2 ^ IntBits = 2 * half /\ Largest(CInt) = half - 1 /\ Smallest(CInt) = -half
  BY HalfOfInts
<1>2. \A n : Wrap(CInt, n) = -half + ((n - (-half)) % (2 * half))
  BY <1>1 DEF Wrap, CInt, IntegerType
<1>3. \A n \in Int : (n - (-half)) % (2 * half) \in Int
  OBVIOUS
<1>4. \A n \in 0 .. half - 1 : (n - (-half)) % (2 * half) = n + half
  OBVIOUS
<1>5. \A n \in Int : Wrap(CInt, n) \in Int
  BY <1>2, <1>3
<1>6. \A n \in 0 .. half - 1 : Wrap(CInt, n) = n
  BY <1>2, <1>4
<1> QED
  BY <1>1, <1>5, <1>6

SumType(limit) == [acc : 0 .. limit, overflow : BOOLEAN]

\* The next digit is refused exactly if the number with it exceeds the limit.
LEMMA AddDigitExact ==
  ASSUME NEW type, NEW base \in 2 .. 36, NEW limit \in Nat, limit < 2 ^ type.bits,
         2 ^ type.bits \in Nat,
         NEW sum \in SumType(limit), ~sum.overflow, NEW digit \in 0 .. base - 1
  PROVE  LET next == AddDigit(type, limit, base, sum, digit) IN
         /\ next \in SumType(limit)
         /\ next.overflow <=> sum.acc * base + digit > limit
         /\ ~next.overflow => next.acc = sum.acc * base + digit
<1> SUFFICES ASSUME NEW next, next = AddDigit(type, limit, base, sum, digit)
             PROVE  /\ next \in SumType(limit)
                    /\ next.overflow <=> sum.acc * base + digit > limit
                    /\ ~next.overflow => next.acc = sum.acc * base + digit
  OBVIOUS
<1>1. PICK q, r \in Nat : q = limit \div base /\ r = limit % base
  OBVIOUS
<1>2. limit = q * base + r /\ r < base
  BY <1>1
<1>3. PICK a \in 0 .. limit : sum.acc = a
  BY DEF SumType
<1>4. sum \in [acc : 0 .. limit, overflow : BOOLEAN]
  BY DEF SumType
<1> DEFINE exceeds == a > q \/ (a = q /\ digit > r)
<1>5. exceeds <=> a * base + digit > limit
  <2>1. CASE a < q
    <3>1. PICK more \in Nat : q = a + 1 + more
      <4>1. q - a - 1 \in Nat /\ q = a + 1 + (q - a - 1)
        BY <2>1, <1>1
      <4> QED
        BY <4>1
    <3>2. q * base = a * base + base + more * base /\ more * base >= 0
      BY <3>1
    <3> QED
      BY <1>2, <2>1, <3>2
  <2>2. CASE a = q
    BY <1>2, <2>2
  <2>3. CASE a > q
    <3>1. PICK more \in Nat : a = q + 1 + more
      <4>1. a - q - 1 \in Nat /\ a = q + 1 + (a - q - 1)
        BY <2>3, <1>1
      <4> QED
        BY <4>1
    <3>2. a * base = q * base + base + more * base /\ more * base >= 0
      BY <3>1
    <3> QED
      BY <1>2, <2>3, <3>2
  <2> QED
    BY <1>1, <2>1, <2>2, <2>3
<1>6. PICK number \in Nat : number = a * base + digit
  OBVIOUS
<1>7. CASE exceeds
  <2>1. next = [sum EXCEPT !.overflow = TRUE]
    BY <1>1, <1>3, <1>7, Zenon DEF AddDigit
  <2>2. next.acc = a /\ next.overflow = TRUE /\ next \in [acc : 0 .. limit, overflow : BOOLEAN]
    BY <1>3, <1>4, <2>1
  <2> QED
    BY <1>3, <1>5, <1>7, <2>2 DEF SumType
<1>8. CASE ~exceeds
  <2>1. next = [sum EXCEPT !.acc = (@ * base + digit) % 2 ^ type.bits]
    BY <1>1, <1>3, <1>8, Zenon DEF AddDigit
  <2>2. number <= limit
    BY <1>5, <1>6, <1>8
  <2>3. number % 2 ^ type.bits = number
    <3>1. \A p \in Nat : limit < p => number % p = number
      BY <1>6, <2>2
    <3> QED
      BY <3>1
  <2>4. next = [sum EXCEPT !.acc = number]
    BY <1>3, <1>6, <2>1, <2>3
  <2>5. /\ next.acc = number /\ next.overflow = FALSE
        /\ next \in [acc : 0 .. limit, overflow : BOOLEAN]
    BY <1>4, <1>6, <2>2, <2>4
  <2> QED
    BY <1>3, <1>5, <1>6, <1>8, <2>5 DEF SumType
<1> HIDE DEF exceeds
<1> QED
  BY <1>7, <1>8

SumStep(type, limit, base, digits, f, n) ==
  IF n = 0 THEN [acc |-> 0, overflow |-> FALSE]
  ELSE AddDigit(type, limit, base, f[n - 1], digits[n])
Sums(type, limit, base, digits, n, f) ==
  f = [m \in 0 .. n |-> SumStep(type, limit, base, digits, f, m)]

\* The recursion of Accumulate is well defined.
LEMMA SomeSums ==
  \A type, limit, base, digits : \A n \in Nat : \E f : Sums(type, limit, base, digits, n, f)
<1> SUFFICES ASSUME NEW type, NEW limit, NEW base, NEW digits
             PROVE  \A n \in Nat : \E f : Sums(type, limit, base, digits, n, f)
  OBVIOUS
<1> DEFINE T == {n \in Nat : ~ \E f : Sums(type, limit, base, digits, n, f)}
<1>1. SUFFICES ASSUME T # {} PROVE FALSE
  BY Zenon
<1>2. T \in SUBSET Nat
  OBVIOUS
<1>3. PICK n \in T : \A m \in T : n <= m
  BY <1>1, <1>2, LeastElement
<1>4. n \in Nat /\ ~ \E f : Sums(type, limit, base, digits, n, f)
  BY <1>3
<1>5. CASE n = 0
  <2>1. 0 .. 0 = {0}
    OBVIOUS
  <2> DEFINE f == [m \in 0 .. 0 |-> [acc |-> 0, overflow |-> FALSE]]
  <2>2. Sums(type, limit, base, digits, 0, f)
    BY <2>1 DEF Sums, SumStep
  <2> QED
    BY <1>4, <1>5, <2>2
<1>6. CASE n # 0
  <2>1. n - 1 \in Nat /\ ~(n <= n - 1)
    BY <1>4, <1>6
  <2>2. PICK f : Sums(type, limit, base, digits, n - 1, f)
    BY <1>3, <2>1
  <2> DEFINE g == [m \in 0 .. n |-> IF m = n THEN SumStep(type, limit, base, digits, f, n) ELSE f[m]]
  <2>3. \A m \in 0 .. n : m # n => m \in 0 .. n - 1
    BY <1>4
  <2>4. \A m \in 0 .. n : m # 0 => m - 1 \in 0 .. n /\ m - 1 # n
    BY <1>4
  <2>5. \A m \in 0 .. n : m # 0 => g[m - 1] = f[m - 1]
    BY <2>4
  <2>6. \A m \in 0 .. n : g[m] = SumStep(type, limit, base, digits, f, m)
    BY <2>2, <2>3 DEF Sums
  <2>7. g = [m \in 0 .. n |-> g[m]]
    OBVIOUS
  <2> HIDE DEF g
  <2>8. \A m \in 0 .. n :
          SumStep(type, limit, base, digits, g, m) = SumStep(type, limit, base, digits, f, m)
    BY <2>5, Zenon DEF SumStep
  <2>9. \A m \in 0 .. n : g[m] = SumStep(type, limit, base, digits, g, m)
    BY <2>6, <2>8, Zenon
  <2>10. Sums(type, limit, base, digits, n, g)
    BY <2>7, <2>9 DEF Sums
  <2> QED
    BY <1>4, <2>10
<1> QED
  BY <1>5, <1>6

Agree(digits, more, n) == \A i \in 1 .. n : digits[i] = more[i]

\* It depends on the digits it has gone through alone.
LEMMA SumsAgree ==
  ASSUME NEW type, NEW limit, NEW base, NEW digits, NEW more, NEW f, NEW g,
         NEW n \in Nat, NEW k \in Nat, n <= k,
         Sums(type, limit, base, digits, n, f), Sums(type, limit, base, more, k, g),
         Agree(digits, more, n)
  PROVE  f[n] = g[n]
<1>1. /\ \A m \in 0 .. n : f[m] = SumStep(type, limit, base, digits, f, m)
      /\ \A m \in 0 .. n : g[m] = SumStep(type, limit, base, more, g, m)
  <2>1. \A m \in 0 .. n : m \in 0 .. k
    OBVIOUS
  <2> QED
    BY <2>1 DEF Sums
<1> DEFINE differ == {m \in 0 .. n : f[m] # g[m]}
<1>2. differ = {}
  <2> SUFFICES ASSUME differ # {} PROVE FALSE
    OBVIOUS
  <2>1. differ \in SUBSET Nat
    OBVIOUS
  <2>2. PICK m \in differ : \A j \in differ : m <= j
    BY <2>1, LeastElement
  <2>3. m \in 0 .. n /\ f[m] # g[m]
    OBVIOUS
  <2>4. CASE m = 0
    BY <1>1, <2>3, <2>4, Zenon DEF SumStep
  <2>5. CASE m # 0
    <3>1. m \in 1 .. n /\ m - 1 \in 0 .. n /\ ~(m <= m - 1)
      BY <2>3, <2>5
    <3>2. f[m - 1] = g[m - 1] /\ digits[m] = more[m]
      BY <2>2, <3>1 DEF Agree
    <3> QED
      BY <1>1, <2>3, <2>5, <3>2, Zenon DEF SumStep
  <2> QED
    BY <2>4, <2>5
<1> QED
  BY <1>2

\* What is accumulated never exceeds the limit.
LEMMA SumsTyped ==
  \A type, digits, f : \A limit \in Nat : \A base \in 2 .. 36 : \A n \in Nat :
    /\ limit < 2 ^ type.bits /\ 2 ^ type.bits \in Nat
    /\ \A i \in 1 .. n : digits[i] \in 0 .. base - 1
    /\ Sums(type, limit, base, digits, n, f)
    => \A m \in 0 .. n : f[m] \in SumType(limit)
<1> SUFFICES ASSUME NEW type, NEW digits, NEW f, NEW limit \in Nat, NEW base \in 2 .. 36, NEW n \in Nat,
                    limit < 2 ^ type.bits, 2 ^ type.bits \in Nat,
                    \A i \in 1 .. n : digits[i] \in 0 .. base - 1,
                    Sums(type, limit, base, digits, n, f)
             PROVE  \A m \in 0 .. n : f[m] \in SumType(limit)
  OBVIOUS
<1>1. \A m \in 0 .. n : f[m] = SumStep(type, limit, base, digits, f, m)
  BY DEF Sums
<1> DEFINE wrong == {m \in 0 .. n : f[m] \notin SumType(limit)}
<1>2. wrong = {}
  <2> SUFFICES ASSUME wrong # {} PROVE FALSE
    OBVIOUS
  <2>1. wrong \in SUBSET Nat
    OBVIOUS
  <2>2. PICK m \in wrong : \A j \in wrong : m <= j
    BY <2>1, LeastElement
  <2>3. m \in 0 .. n /\ f[m] \notin SumType(limit)
    OBVIOUS
  <2>4. CASE m = 0
    <3>1. f[m] = [acc |-> 0, overflow |-> FALSE]
      BY <1>1, <2>3, <2>4 DEF SumStep
    <3>2. 0 \in 0 .. limit
      OBVIOUS
    <3> QED
      BY <2>3, <3>1, <3>2 DEF SumType
  <2>5. CASE m # 0
    <3>1. m \in 1 .. n /\ m - 1 \in 0 .. n /\ ~(m <= m - 1)
      BY <2>3, <2>5
    <3>2. f[m - 1] \in SumType(limit) /\ digits[m] \in 0 .. base - 1
      BY <2>2, <3>1
    <3>3. f[m] = AddDigit(type, limit, base, f[m - 1], digits[m])
      BY <1>1, <2>3, <2>5 DEF SumStep
    <3>4. CASE f[m - 1].overflow
      <4>1. f[m] = [f[m - 1] EXCEPT !.overflow = TRUE]
        BY <3>3, <3>4, Zenon DEF AddDigit
      <4> QED
        BY <2>3, <3>2, <4>1 DEF SumType
    <3>5. CASE ~f[m - 1].overflow
      <4>1. AddDigit(type, limit, base, f[m - 1], digits[m]) \in SumType(limit)
        BY <3>2, <3>5, AddDigitExact, Zenon
      <4> QED
        BY <2>3, <3>3, <4>1
    <3> QED
      BY <3>4, <3>5
  <2> QED
    BY <2>4, <2>5
<1> QED
  BY <1>2

\* Accumulate is the last of the sums.
LEMMA AccumulateIsASum ==
  \A type, limit, base, digits : Len(digits) \in Nat =>
    \E f : /\ Sums(type, limit, base, digits, Len(digits), f)
           /\ Accumulate(type, limit, base, digits) = f[Len(digits)]
<1> SUFFICES ASSUME NEW type, NEW limit, NEW base, NEW digits, Len(digits) \in Nat
             PROVE  \E f : /\ Sums(type, limit, base, digits, Len(digits), f)
                           /\ Accumulate(type, limit, base, digits) = f[Len(digits)]
  OBVIOUS
<1> DEFINE table == CHOOSE f : Sums(type, limit, base, digits, Len(digits), f)
<1>1. Accumulate(type, limit, base, digits) = table[Len(digits)]
  BY Zenon DEF Accumulate, Sums, SumStep
<1>2. Sums(type, limit, base, digits, Len(digits), table)
  BY SomeSums, Zenon
<1> HIDE DEF table
<1> QED
  BY <1>1, <1>2

\* more has one element more than digits.
IsLonger(digits, more) == Len(more) = Len(digits) + 1

\* One more digit is one more step.
LEMMA AccumulateOneMore ==
  ASSUME NEW type, NEW limit, NEW base, NEW digits, NEW more,
         Len(digits) \in Nat, IsLonger(digits, more),
         Agree(digits, more, Len(digits))
  PROVE  Accumulate(type, limit, base, more)
           = AddDigit(type, limit, base, Accumulate(type, limit, base, digits), more[Len(more)])
<1>1. PICK f : /\ Sums(type, limit, base, digits, Len(digits), f)
               /\ Accumulate(type, limit, base, digits) = f[Len(digits)]
  BY AccumulateIsASum
<1>2. Len(more) \in Nat
  BY DEF IsLonger
<1>3. PICK g : /\ Sums(type, limit, base, more, Len(more), g)
               /\ Accumulate(type, limit, base, more) = g[Len(more)]
  BY <1>2, AccumulateIsASum
<1>4. /\ Len(digits) <= Len(more) /\ Len(more) \in 0 .. Len(more) /\ Len(more) # 0
      /\ Len(more) - 1 = Len(digits)
  BY DEF IsLonger
<1>5. f[Len(digits)] = g[Len(digits)]
  BY <1>1, <1>2, <1>3, <1>4, SumsAgree
<1>6. g[Len(more)] = SumStep(type, limit, base, more, g, Len(more))
  BY <1>3, <1>4 DEF Sums
<1> QED
  BY <1>1, <1>3, <1>4, <1>5, <1>6, Zenon DEF SumStep

\* What is accumulated is at most the limit.
LEMMA AccumulateTyped ==
  ASSUME NEW type, NEW digits, NEW limit \in Nat, NEW base \in 2 .. 36,
         limit < 2 ^ type.bits, 2 ^ type.bits \in Nat,
         Len(digits) \in Nat, \A i \in 1 .. Len(digits) : digits[i] \in 0 .. base - 1
  PROVE  Accumulate(type, limit, base, digits) \in SumType(limit)
<1>1. PICK f : /\ Sums(type, limit, base, digits, Len(digits), f)
               /\ Accumulate(type, limit, base, digits) = f[Len(digits)]
  BY AccumulateIsASum
<1>2. Len(digits) \in 0 .. Len(digits)
  OBVIOUS
<1>3. f[Len(digits)] \in SumType(limit)
  BY <1>1, <1>2, SumsTyped, Zenon
<1> QED
  BY <1>1, <1>3

\* The digits of a number are lost neither to the width of the type nor to the
\* comparison with the limit: with one more digit the sum is the base times what it was
\* and the digit, as long as that does not exceed the limit, and is refused as soon as
\* it does (strntoint).
THEOREM NoDigitIsLost ==
  ASSUME NEW type, NEW limit \in Nat, NEW base \in 2 .. 36,
         2 ^ type.bits \in Nat, limit < 2 ^ type.bits,
         NEW digits \in Seq(0 .. base - 1), NEW digit \in 0 .. base - 1
  PROVE  LET before == Accumulate(type, limit, base, digits)
             after == Accumulate(type, limit, base, Append(digits, digit))
         IN  /\ before.acc \in 0 .. limit /\ after.acc \in 0 .. limit
             /\ after.overflow <=> before.overflow \/ before.acc * base + digit > limit
             /\ ~after.overflow => after.acc = before.acc * base + digit
<1>1. PICK more : more = Append(digits, digit)
  OBVIOUS
<1>2. /\ Len(digits) \in Nat /\ Len(more) = Len(digits) + 1 /\ Len(more) \in Nat
      /\ more \in Seq(0 .. base - 1) /\ more[Len(more)] = digit
      /\ Agree(digits, more, Len(digits))
  BY <1>1, AppendProperties DEF Agree
<1>3. /\ \A i \in 1 .. Len(digits) : digits[i] \in 0 .. base - 1
      /\ \A i \in 1 .. Len(more) : more[i] \in 0 .. base - 1
  BY <1>2, ElementOfSeq DEF Agree
<1>4. PICK before : before = Accumulate(type, limit, base, digits)
  OBVIOUS
<1>5. PICK after : after = Accumulate(type, limit, base, more)
  OBVIOUS
<1>6. Accumulate(type, limit, base, more)
        = AddDigit(type, limit, base, Accumulate(type, limit, base, digits), more[Len(more)])
  BY <1>2, AccumulateOneMore DEF IsLonger
<1>7. after = AddDigit(type, limit, base, before, digit)
  BY <1>2, <1>4, <1>5, <1>6
<1>8. /\ Accumulate(type, limit, base, digits) \in SumType(limit)
      /\ Accumulate(type, limit, base, more) \in SumType(limit)
  BY <1>2, <1>3, AccumulateTyped
<1>9. before \in SumType(limit) /\ after \in SumType(limit)
  BY <1>4, <1>5, <1>8
<1>10. before.acc \in 0 .. limit /\ after.acc \in 0 .. limit
  BY <1>9 DEF SumType
<1>11. CASE before.overflow
  <2>1. after = [before EXCEPT !.overflow = TRUE]
    BY <1>7, <1>11, Zenon DEF AddDigit
  <2>2. after.overflow = TRUE
    BY <1>9, <2>1 DEF SumType
  <2> QED
    BY <1>1, <1>4, <1>5, <1>10, <1>11, <2>2
<1>12. CASE ~before.overflow
  <2>1. LET next == AddDigit(type, limit, base, before, digit) IN
        /\ next.overflow <=> before.acc * base + digit > limit
        /\ ~next.overflow => next.acc = before.acc * base + digit
    BY <1>9, <1>12, AddDigitExact
  <2> QED
    BY <1>1, <1>4, <1>5, <1>7, <1>10, <1>12, <2>1
<1> QED
  BY <1>11, <1>12

\* In base ten a character is a digit, or worth ten.
LEMMA TenDigits == \A c : CharValue(c, 10) \in 0 .. 10
<1> TAKE c
<1>1. CASE c \in Range(Digits)
  <2>1. DOMAIN Digits = 1 .. 10
    BY DEF Digits
  <2>2. \E i \in DOMAIN Digits : Digits[i] = c
    BY <1>1 DEF Range
  <2>3. PICK i \in 1 .. 10 : i = CHOOSE k \in DOMAIN Digits : Digits[k] = c
    BY <2>1, <2>2
  <2>4. CharValue(c, 10) = i - 1
    BY <1>1, <2>3, Zenon DEF CharValue, Rank
  <2> QED
    BY <2>4
<1>2. CASE c \notin Range(Digits)
  BY <1>2 DEF CharValue
<1> QED
  BY <1>1, <1>2

\* The first of the characters from start that is not a digit, or the end
LEMMA EndOfDigits ==
  ASSUME NEW text, Len(text) \in Nat, NEW start \in 1 .. Len(text) + 1
  PROVE  LET end == Min({i \in start .. Len(text) : CharValue(text[i], 10) >= 10}
                          \cup {Len(text) + 1})
         IN  /\ end \in start .. Len(text) + 1
             /\ \A i \in start .. end - 1 : CharValue(text[i], 10) \in 0 .. 9
<1> DEFINE S == {i \in start .. Len(text) : CharValue(text[i], 10) >= 10} \cup {Len(text) + 1}
<1>1. S # {} /\ S \in SUBSET Nat /\ \A i \in S : i \in start .. Len(text) + 1
  OBVIOUS
<1>2. \A i \in start .. Len(text) : i \notin S => CharValue(text[i], 10) \in 0 .. 9
  <2> TAKE i \in start .. Len(text)
  <2>1. PICK v \in 0 .. 10 : v = CharValue(text[i], 10)
    BY TenDigits
  <2>2. i \notin S => ~(v >= 10)
    BY <2>1
  <2> QED
    BY <2>1, <2>2
<1> HIDE DEF S
<1>3. PICK least \in S : \A i \in S : least <= i
  BY <1>1, LeastElement
<1>4. PICK end : end = Min(S)
  OBVIOUS
<1>5. end \in S /\ \A i \in S : end <= i
  BY <1>3, <1>4 DEF Min
<1>6. end \in start .. Len(text) + 1
  BY <1>1, <1>5
<1>7. \A i \in start .. end - 1 : i \in start .. Len(text) /\ ~(end <= i)
  BY <1>6
<1>8. \A i \in start .. end - 1 : CharValue(text[i], 10) \in 0 .. 9
  BY <1>2, <1>5, <1>7
<1> QED
  BY <1>4, <1>6, <1>8 DEF S

\* -n is read as a positive number that fits an int, or is refused (pkg_history_main).
LEMMA LimitIsPositive ==
  ASSUME NEW text, Len(text) \in Nat,
         Strnto(CInt, text, 10, {1}, {Largest(CInt)}).err = "no_err"
  PROVE  \A n \in Strnto(CInt, text, 10, {1}, {Largest(CInt)}).ret : n \in 1 .. Largest(CInt)
<1> DEFINE negative == At(text, 1, {"-"})
           start == IF At(text, 1, {"-", "+"}) THEN 2 ELSE 1
           prefix == BaseOf(text, start, 10)
           base == prefix.base
           end == Min({i \in prefix.from .. Len(text) : CharValue(text[i], base) >= base}
                        \cup {Len(text) + 1})
           stop == end - 1
           digits == [i \in 1 .. stop - prefix.from + 1 |-> CharValue(text[prefix.from + i - 1], base)]
           sum == Accumulate(CInt, LimitOf(CInt, negative), base, digits)
           value == Wrap(CInt, IF negative THEN -sum.acc ELSE sum.acc)
           result == IF text = <<>> THEN Outcome("no_digit", Unset, 0)
                     ELSE IF base \notin 2 .. 36 THEN Outcome("invalid_base", Unset, prefix.from - 1)
                     ELSE IF sum.overflow
                          THEN IF negative /\ CInt.signed
                               THEN Outcome("too_small", {Smallest(CInt)}, stop)
                               ELSE Outcome("too_large", {Largest(CInt)}, stop)
                     ELSE IF stop < Len(text) THEN Outcome("non_digit", {value}, stop)
                     ELSE IF digits = <<>> THEN Outcome("no_digit", Unset, stop)
                     ELSE IF \E m \in {Largest(CInt)} : value > m
                          THEN Outcome("greater_than_max", {value}, stop)
                     ELSE IF \E m \in {1} : value < m THEN Outcome("less_than_min", {value}, stop)
                     ELSE Outcome("no_err", {value}, stop)
<1>1. Strnto(CInt, text, 10, {1}, {Largest(CInt)}) = result
  BY Zenon DEF Strnto
<1>2. prefix = [base |-> 10, from |-> start]
  BY DEF BaseOf
<1>3. prefix.from = start /\ base = 10 /\ start \in 1 .. Len(text) + 1
  BY <1>2 DEF At
<1> HIDE DEF start, prefix
<1>4. end \in start .. Len(text) + 1 /\ \A i \in start .. end - 1 : CharValue(text[i], 10) \in 0 .. 9
  BY <1>3, EndOfDigits
<1> HIDE DEF end
<1>5. stop - prefix.from + 1 = end - start /\ end - start \in Nat
  BY <1>3, <1>4
<1>6. /\ Len(digits) \in Nat
      /\ \A i \in 1 .. Len(digits) : digits[i] \in 0 .. 9
  <2>1. PICK k \in Nat : k = end - start
    BY <1>5
  <2>2. digits = [i \in 1 .. k |-> CharValue(text[start + i - 1], 10)]
    BY <1>3, <1>5, <2>1
  <2>3. \A i \in 1 .. k : start + i - 1 \in start .. end - 1
    BY <1>3, <1>4, <2>1
  <2>4. \A d : d = [i \in 1 .. k |-> CharValue(text[start + i - 1], 10)] => Len(d) = k
    OBVIOUS
  <2>5. Len(digits) = k
    BY <2>2, <2>4, Zenon
  <2>6. \A i \in 1 .. k : digits[i] = CharValue(text[start + i - 1], 10)
    BY <2>2, Zenon
  <2> HIDE DEF digits
  <2> QED
    BY <1>4, <2>3, <2>5, <2>6
<1> HIDE DEF digits, base
<1>7. PICK limit \in Nat : limit = LimitOf(CInt, negative) /\ limit < 2 ^ IntBits /\ 2 ^ IntBits \in Nat
  <2>1. PICK half \in Nat \ {0} : /\ 2 ^ IntBits = 2 * half
                                  /\ Largest(CInt) = half - 1 /\ Smallest(CInt) = -half
    BY HalfOfInts
  <2>2. half < 2 * half /\ half - 1 < 2 * half /\ half - 1 \in Nat /\ 2 * half \in Nat /\ -(-half) = half
    OBVIOUS
  <2>3. LimitOf(CInt, negative) \in {half, half - 1}
    BY <2>1, <2>2 DEF LimitOf
  <2> QED
    BY <2>1, <2>2, <2>3
<1>8. sum \in SumType(limit)
  <2>1. CInt.bits = IntBits
    BY DEF CInt, IntegerType
  <2>2. 10 \in 2 .. 36 /\ 10 - 1 = 9
    OBVIOUS
  <2>3. Accumulate(CInt, limit, 10, digits) \in SumType(limit)
    BY <1>6, <1>7, <2>1, <2>2, AccumulateTyped
  <2> QED
    BY <1>3, <1>7, <2>3
<1> HIDE DEF sum
<1>9. value \in Int
  <2>1. PICK a \in Nat : a = sum.acc
    BY <1>8 DEF SumType
  <2>2. Wrap(CInt, -a) \in Int /\ Wrap(CInt, a) \in Int
    BY WrapFits
  <2> QED
    BY <2>1, <2>2
<1> HIDE DEF value
<1>10. result.err = "no_err"
  BY <1>1
<1>11. result = Outcome("no_err", {value}, stop) /\ ~(value > Largest(CInt)) /\ ~(value < 1)
  BY <1>10 DEF Outcome
<1>12. result.ret = {value}
  BY <1>11 DEF Outcome
<1>13. Largest(CInt) \in Int
  BY HalfOfInts
<1>14. value \in 1 .. Largest(CInt)
  BY <1>9, <1>11, <1>13
<1> QED
  BY <1>1, <1>12, <1>14

-----------------------------------------------------------------------------
(* The steps before there are rows *)

Blank == store.lines = {} /\ left = {} /\ previous = 0 /\ output = <<>>

LEMMA BlankIsConsistent ==
  ASSUME Blank', qo.limit' \in Nat
  PROVE  RowsInv' /\ HeadersInv'
<1>1. output' = <<>> /\ left' = {} /\ previous' = 0 /\ store.lines' = {}
  BY DEF Blank
<1>2. Shown' = {} /\ LinesShown' = {} /\ LinesLeft' = {} /\ Answer' = {}
  BY <1>1 DEF Shown, LinesShown, LinesLeft, LinesIn, Answer
<1>3. Cardinality({}) = 0
  BY FS_EmptySet
<1>4. RowsInv'
  BY <1>1, <1>2, <1>3 DEF RowsInv, Rows
<1>5. \A c : HeadersOf(c)' = {}
  BY <1>1 DEF HeadersOf
<1> QED
  BY <1>1, <1>2, <1>4, <1>5 DEF HeadersInv, HeadersAbove, LastHeader, LatestFirst

LEMMA BlankKeeps ==
  ASSUME QueryInv, phase \in {"options", "open"},
         phase' \in {"options", "invalid", "open", "over"},
         UNCHANGED <<store, left, previous, upper, output>>,
         DOMAIN qo' = Options, qo'.limit \in Nat, options' \in Nat,
         searched' = {} \/ \E pattern : searched' = {pattern}
  PROVE  QueryInv'
<1>1. Blank'
  BY DEF QueryInv, NothingYet, Blank
<1>2. RowsInv' /\ HeadersInv'
  BY <1>1, BlankIsConsistent
<1>3. QueryTypeOK'
  BY DEF QueryInv, QueryTypeOK, Items
<1>4. NothingYet' /\ AtTheEnd'
  BY <1>1 DEF Blank, NothingYet, AtTheEnd
<1> QED
  BY <1>2, <1>3, <1>4 DEF QueryInv

LEMMA QueryInitInv == QueryInit => QueryInv
<1> SUFFICES ASSUME QueryInit PROVE QueryInv
  OBVIOUS
<1>1. /\ output = <<>> /\ left = {} /\ previous = 0 /\ upper = 0 /\ searched = {}
      /\ store = [commands |-> <<>>, lines |-> {}] /\ phase = "options"
  BY DEF QueryInit
<1>2. store.lines = {} /\ store.commands = <<>>
  BY <1>1
<1>3. DOMAIN qo = Options /\ qo.limit = 100 /\ options = 0
  BY DEF QueryInit, QueryOptionsInit, Options
<1>4. Shown = {} /\ LinesShown = {} /\ LinesLeft = {} /\ Answer = {}
  BY <1>1, <1>2 DEF Shown, LinesShown, LinesLeft, LinesIn, Answer
<1>5. Cardinality({}) = 0 /\ IsFiniteSet({})
  BY FS_EmptySet
<1>6. RowsInv
  BY <1>1, <1>3, <1>4, <1>5 DEF RowsInv, Rows
<1>7. \A c : HeadersOf(c) = {}
  BY <1>1 DEF HeadersOf
<1>8. HeadersInv
  BY <1>1, <1>4, <1>7 DEF HeadersInv, HeadersAbove, LastHeader, LatestFirst
<1>9. QueryTypeOK
  <2>1. \A S : <<>> \in Seq(S)
    OBVIOUS
  <2> QED
    BY <1>1, <1>2, <1>3, <1>5, <2>1 DEF QueryTypeOK
<1> QED
  BY <1>1, <1>2, <1>6, <1>8, <1>9 DEF QueryInv, NothingYet, AtTheEnd

LEMMA OptionsKeep ==
  ASSUME QueryInv, Flag \/ LimitOption \/ Period
  PROVE  QueryInv'
<1>1. /\ phase = "options" /\ phase' \in {"options", "invalid"}
      /\ UNCHANGED <<searched, store, left, previous, upper, output>>
  BY DEF Flag, LimitOption, Period, ReadOption
<1>2. DOMAIN qo = Options /\ qo.limit \in Nat /\ options \in Nat
  BY DEF QueryInv, QueryTypeOK
<1>3. DOMAIN qo' = Options /\ qo'.limit \in Nat
  <2>1. CASE Flag
    BY <1>2, <2>1 DEF Flag, Options
  <2>2. CASE LimitOption
    <3>1. PICK text \in NumberTexts[options + 1] :
            IF Strnto(CInt, text, 10, {1}, {Largest(CInt)}).err = "no_err"
            THEN \E n \in Strnto(CInt, text, 10, {1}, {Largest(CInt)}).ret :
                   qo' = [qo EXCEPT !.limit = n]
            ELSE UNCHANGED qo
      BY <2>2 DEF LimitOption
    <3>2. Len(text) \in Nat
      <4>1. options + 1 \in 1 .. MaxOptions
        BY <1>2, <2>2, MaxOptionsAssumption DEF LimitOption
      <4>2. text \in Seq(Range(text))
        BY <3>1, <4>1, NumberTextsAssumption
      <4> QED
        BY <4>2
    <3>3. CASE Strnto(CInt, text, 10, {1}, {Largest(CInt)}).err = "no_err"
      <4>1. PICK n \in Strnto(CInt, text, 10, {1}, {Largest(CInt)}).ret : qo' = [qo EXCEPT !.limit = n]
        BY <3>1, <3>3
      <4>2. n \in 1 .. Largest(CInt)
        BY <3>2, <3>3, LimitIsPositive
      <4> QED
        BY <1>2, <4>1, <4>2, HalfOfInts DEF Options
    <3>4. CASE Strnto(CInt, text, 10, {1}, {Largest(CInt)}).err # "no_err"
      BY <1>2, <3>1, <3>4
    <3> QED
      BY <3>3, <3>4
  <2>3. CASE Period
    <3>1. qo' = qo \/ \E bound \in {"from", "to"} : \E time : qo' = [qo EXCEPT ![bound] = time]
      BY <2>3 DEF Period
    <3> QED
      BY <1>2, <3>1 DEF Options
  <2> QED
    BY <2>1, <2>2, <2>3
<1>4. searched = {} \/ \E pattern : searched = {pattern}
  BY DEF QueryInv, QueryTypeOK
<1>5. options' \in Nat
  BY <1>2 DEF Flag, LimitOption, Period, ReadOption
<1> QED
  BY <1>1, <1>3, <1>4, <1>5, BlankKeeps

LEMMA EndOfOptionsKeeps ==
  ASSUME QueryInv, EndOfOptions \/ ShowsNothing
  PROVE  QueryInv'
<1>1. /\ DOMAIN qo = Options /\ qo.limit \in Nat /\ options \in Nat
      /\ (searched = {} \/ \E pattern : searched = {pattern})
  BY DEF QueryInv, QueryTypeOK
<1>2. /\ phase \in {"options", "open"} /\ phase' \in {"open", "over"}
      /\ UNCHANGED <<options, store, left, previous, upper, output>>
      /\ searched' = {} \/ \E pattern : searched' = {pattern}
  BY <1>1 DEF EndOfOptions, ShowsNothing
<1>3. DOMAIN qo' = Options /\ qo'.limit \in Nat
  <2>1. CASE EndOfOptions
    BY <1>1, <2>1 DEF EndOfOptions, Options
  <2>2. CASE ShowsNothing
    BY <1>1, <2>2 DEF ShowsNothing
  <2> QED
    BY <2>1, <2>2
<1> QED
  BY <1>1, <1>2, <1>3, BlankKeeps

-----------------------------------------------------------------------------
(* The statement *)

\* A row is that of its line.
LEMMA RowsOfLines ==
  ASSUME NEW s, NEW chosen
  PROVE  /\ LinesIn(Rows(s, chosen)) = chosen
         /\ \A r \in Rows(s, chosen) : /\ r.line \in chosen /\ r = Row(s, r.line)
                                      /\ r.at = s.commands[r.line.command]
         /\ \A l \in chosen : Row(s, l) \in Rows(s, chosen)
         /\ \A l : Row(s, l).line = l
<1>1. \A l : Row(s, l).line = l /\ Row(s, l).at = s.commands[l.command]
  BY DEF Row
<1>2. \A r \in Rows(s, chosen) : /\ r.line \in chosen /\ r = Row(s, r.line)
                                /\ r.at = s.commands[r.line.command]
  <2> TAKE r \in Rows(s, chosen)
  <2>1. PICK l \in chosen : r = Row(s, l)
    BY DEF Rows
  <2> QED
    BY <1>1, <2>1
<1>3. \A l \in chosen : Row(s, l) \in Rows(s, chosen) /\ Row(s, l).line = l
  BY <1>1 DEF Rows
<1>4. LinesIn(Rows(s, chosen)) = chosen
  BY <1>2, <1>3 DEF LinesIn
<1> QED
  BY <1>1, <1>2, <1>3, <1>4

\* The rows are those of the lines the statement is about.
LEMMA ExecuteAnswers ==
  ASSUME QueryInv, ExecuteStatement
  PROVE  left' = Rows(store', Answer')
<1> USE DEF InAnswer, Answer, Rows
<1>1. PICK s \in Stores :
        /\ store' = s
        /\ left' = IF searched = {} THEN Listed(s)
                   ELSE UNION {Found(s, pattern) : pattern \in searched}
  BY DEF ExecuteStatement
<1>2. qo' = qo /\ searched' = searched
  BY DEF ExecuteStatement
<1>3. CASE searched = {}
  <2>1. left' = {Row(s, l) : l \in {l \in s.lines :
                   /\ InPeriod(s.commands[l.command], qo.from, qo.to)
                   /\ l.operation \in qo.operations}}
    BY <1>1, <1>3, Zenon DEF Listed
  <2>2. Answer' = {l \in s.lines : /\ InPeriod(s.commands[l.command], qo.from, qo.to)
                                   /\ l.operation \in qo.operations}
    BY <1>1, <1>2, <1>3
  <2> QED
    BY <1>1, <2>1, <2>2
<1>4. CASE searched # {}
  <2>1. PICK pattern : searched = {pattern}
    BY <1>4 DEF QueryInv, QueryTypeOK
  <2> DEFINE found == {l \in s.lines :
                  /\ NameMatches(l.name, pattern)
                  /\ l.operation \in qo.operations
                  /\ InPeriod(s.commands[l.command], Wrap(CInt, qo.from), Wrap(CInt, qo.to))}
  <2>2. UNION {Found(s, p) : p \in searched} = Found(s, pattern)
    BY <2>1
  <2>3. left' = {Row(s, l) : l \in found}
    BY <1>1, <1>4, <2>2, Zenon DEF Found
  <2>4. \A l : NameMatches(l.name, pattern)' = NameMatches(l.name, pattern)
    BY <1>2 DEF NameMatches
  <2>5. ASSUME NEW l \in s.lines PROVE InAnswer(l)' <=> l \in found
    BY <1>1, <1>2, <1>4, <2>1, <2>4
  <2> QED
    BY <1>1, <2>3, <2>5
<1> QED
  BY <1>3, <1>4

LEMMA ExecuteKeeps ==
  ASSUME QueryInv, ExecuteStatement
  PROVE  QueryInv'
<1>1. /\ phase = "open" /\ phase' = "rows" /\ upper' \in {0, 1}
      /\ UNCHANGED <<qo, options, searched, previous, output>> /\ store' \in Stores
  BY DEF ExecuteStatement
<1>2. output = <<>> /\ previous = 0
  BY <1>1 DEF QueryInv, NothingYet
<1>3. output' = <<>> /\ previous' = 0
  BY <1>1, <1>2
<1>4. QueryTypeOK'
  <2>1. \A S : <<>> \in Seq(S)
    OBVIOUS
  <2>2. /\ store'.commands \in Seq(Int) /\ IsFiniteSet(store'.lines)
        /\ \A l \in store'.lines : l.command \in DOMAIN store'.commands
    BY <1>1, StoresAssumption
  <2> QED
    BY <1>1, <1>3, <2>1, <2>2 DEF QueryInv, QueryTypeOK
<1>5. left' = Rows(store', Answer')
  BY ExecuteAnswers
<1>6. LinesLeft' = Answer'
  <2>1. LinesIn(Rows(store', Answer')) = Answer'
    BY RowsOfLines
  <2> QED
    BY <1>5, <2>1 DEF LinesLeft
<1>7. Shown' = {} /\ LinesShown' = {}
  BY <1>3 DEF Shown, LinesShown
<1>8. Cardinality({}) = 0 /\ qo'.limit \in Nat
  BY <1>1, FS_EmptySet DEF QueryInv, QueryTypeOK
<1>9. RowsInv'
  BY <1>5, <1>6, <1>7, <1>8 DEF RowsInv
<1>10. \A c : HeadersOf(c)' = {}
  BY <1>3 DEF HeadersOf
<1>11. HeadersInv'
  BY <1>3, <1>7, <1>10 DEF HeadersInv, HeadersAbove, LastHeader, LatestFirst
<1>12. NothingYet' /\ AtTheEnd'
  BY <1>1 DEF NothingYet, AtTheEnd
<1> QED
  BY <1>4, <1>9, <1>11, <1>12 DEF QueryInv

-----------------------------------------------------------------------------
(* The rows *)

\* What a step on row r adds to what was displayed: its line, which is item p, and
\* maybe the command of the line above it.
Displays(r, p) ==
  /\ p \in {Len(output) + 1, Len(output) + 2}
  /\ DOMAIN output' = 1 .. p /\ Len(output') = p
  /\ \A i \in 1 .. Len(output) : output'[i] = output[i]
  /\ output'[p].kind = "line" /\ output'[p].line = r.line
  /\ p = Len(output) + 2 =>
       output'[p - 1].kind = "command" /\ output'[p - 1].command = r.line.command

LEMMA LeftRow ==
  ASSUME QueryInv, NEW r \in left
  PROVE  /\ r.line \in LinesLeft /\ r.line \in store.lines /\ r.line \notin LinesShown
         /\ r = Row(store, r.line)
         /\ r.line.command \in DOMAIN store.commands /\ r.line.command \in Nat \ {0}
         /\ r.at = store.commands[r.line.command] /\ r.at \in Int
<1>1. r.line \in LinesLeft /\ r = Row(store, r.line) /\ r.at = store.commands[r.line.command]
  BY RowsOfLines DEF QueryInv, RowsInv
<1>2. r.line \in Answer /\ r.line \notin LinesShown
  BY <1>1 DEF QueryInv, RowsInv
<1>3. r.line \in store.lines
  BY <1>2 DEF Answer
<1>4. store.commands \in Seq(Int) /\ r.line.command \in DOMAIN store.commands
  BY <1>3 DEF QueryInv, QueryTypeOK
<1>5. \A s \in Seq(Int) : \A i \in DOMAIN s : i \in Nat \ {0} /\ s[i] \in Int
  OBVIOUS
<1> QED
  BY <1>1, <1>2, <1>3, <1>4, <1>5

\* A header or not, what is displayed is typed.
LEMMA DisplayedTyped ==
  ASSUME QueryInv, NEW r \in left, NEW header,
         header.kind = "command", header.command = r.line.command,
         header \in [kind : {"command"}, command : DOMAIN store.commands, at : Int],
         output' = Append(output, Line(r)) \/ output' = output \o <<header, Line(r)>>
  PROVE  /\ output' \in Seq(Items(store))
         /\ \E p \in Nat : /\ Displays(r, p)
                           /\ output' = Append(output, Line(r)) => p = Len(output) + 1
                           /\ output' # Append(output, Line(r)) => p = Len(output) + 2
<1>1. r.line \in store.lines
  BY LeftRow
<1>2. PICK line : line = Line(r)
  OBVIOUS
<1>3. /\ line.kind = "line" /\ line.line = r.line
      /\ line \in Items(store)
  BY <1>1, <1>2 DEF Line, Items
<1>4. header \in Items(store)
  BY DEF Items
<1>5. output \in Seq(Items(store))
  BY DEF QueryInv, QueryTypeOK
<1>6. PICK n \in Nat : n = Len(output) /\ DOMAIN output = 1 .. n
  BY <1>5
<1> HIDE DEF Items
<1>7. CASE output' = Append(output, line)
  <2>1. /\ output' \in Seq(Items(store)) /\ Len(output') = n + 1 /\ DOMAIN output' = 1 .. n + 1
        /\ \A i \in 1 .. n : output'[i] = output[i]
        /\ output'[n + 1] = line
    BY <1>3, <1>5, <1>6, <1>7, AppendProperties
  <2>2. Displays(r, n + 1) /\ n + 1 \in Nat
    BY <1>3, <1>6, <2>1 DEF Displays
  <2> QED
    BY <1>2, <1>6, <1>7, <2>1, <2>2
<1>8. CASE output' # Append(output, line)
  <2>1. output' = output \o <<header, line>> /\ <<header, line>> \in Seq(Items(store))
    BY <1>2, <1>3, <1>4, <1>8
  <2>2. /\ output' \in Seq(Items(store)) /\ Len(output') = n + 2 /\ DOMAIN output' = 1 .. n + 2
        /\ \A i \in 1 .. n : output'[i] = output[i]
        /\ output'[n + 1] = header /\ output'[n + 2] = line
    BY <1>5, <1>6, <2>1
  <2>3. Displays(r, n + 2) /\ n + 2 \in Nat /\ n + 2 - 1 = n + 1
    BY <1>3, <1>6, <2>2 DEF Displays
  <2> QED
    BY <1>2, <1>6, <1>8, <2>2, <2>3
<1> QED
  BY <1>7, <1>8

\* A row moves to what was displayed.
LEMMA StepMovesRow ==
  ASSUME QueryInv, NEW r \in left, StepRow(r), NEW p \in Nat, Displays(r, p),
         UNCHANGED <<qo, searched, store>>
  PROVE  /\ RowsInv'
         /\ Shown' = Shown \cup {p} /\ p \notin Shown
<1>1. PICK n \in Nat : n = Len(output) /\ DOMAIN output = 1 .. n
  BY DEF QueryInv, QueryTypeOK
<1>2. /\ p \in {n + 1, n + 2} /\ DOMAIN output' = 1 .. p
      /\ \A i \in 1 .. n : output'[i] = output[i]
      /\ output'[p].kind = "line" /\ output'[p].line = r.line
      /\ p = n + 2 => output'[n + 1].kind = "command"
  <2>1. n + 2 - 1 = n + 1
    OBVIOUS
  <2> QED
    BY <1>1, <2>1 DEF Displays
<1>3. p \notin Shown
  BY <1>1, <1>2 DEF Shown
<1>4. Shown' = Shown \cup {p}
  <2>1. \A i \in 1 .. p : i \in 1 .. n \/ i = p \/ (p = n + 2 /\ i = n + 1)
    BY <1>2
  <2>2. \A i \in 1 .. n : i \in 1 .. p
    BY <1>2
  <2>3. p \in 1 .. p
    BY <1>2
  <2>4. ASSUME NEW i \in Shown' PROVE i \in Shown \cup {p}
    <3>1. i \in 1 .. p /\ output'[i].kind = "line"
      BY <1>2 DEF Shown
    <3> QED
      BY <1>1, <1>2, <2>1, <3>1 DEF Shown
  <2>5. ASSUME NEW i \in Shown PROVE i \in Shown'
    BY <1>1, <1>2, <2>2 DEF Shown
  <2>6. p \in Shown'
    BY <1>2, <2>3 DEF Shown
  <2> QED
    BY <2>4, <2>5, <2>6
<1>5. \A i \in Shown : output'[i] = output[i]
  BY <1>1, <1>2 DEF Shown
<1>6. /\ r.line \in LinesLeft /\ r.line \notin LinesShown /\ r = Row(store, r.line)
      /\ r.line.command \in DOMAIN store.commands
      /\ r.at = store.commands[r.line.command] /\ r.at \in Int
  BY LeftRow
<1>7. LinesShown' = LinesShown \cup {r.line}
  BY <1>2, <1>4, <1>5 DEF LinesShown
<1>8. left' = left \ {r}
  BY DEF StepRow
<1>9. left' = Rows(store, LinesLeft \ {r.line}) /\ LinesLeft' = LinesLeft \ {r.line}
  <2> DEFINE chosen == LinesLeft
             others == LinesLeft \ {r.line}
  <2>1. left = Rows(store, chosen)
    BY DEF QueryInv, RowsInv
  <2> HIDE DEF chosen, others
  <2>2. \A other \in left : other.line \in chosen /\ other = Row(store, other.line)
    BY <2>1, RowsOfLines
  <2>3. \A l \in chosen : Row(store, l) \in left /\ Row(store, l).line = l
    BY <2>1, RowsOfLines
  <2>4. /\ \A l \in others : Row(store, l) \in Rows(store, others)
        /\ \A other \in Rows(store, others) : other.line \in others /\ other = Row(store, other.line)
    BY RowsOfLines
  <2>5. others = chosen \ {r.line}
    BY DEF others, chosen
  <2>6. ASSUME NEW other \in left' PROVE other \in Rows(store, others)
    BY <1>6, <1>8, <2>2, <2>4, <2>5
  <2>7. ASSUME NEW other \in Rows(store, others) PROVE other \in left'
    BY <1>8, <2>3, <2>4, <2>5
  <2>8. left' = Rows(store, others)
    BY <2>6, <2>7
  <2>9. LinesIn(Rows(store, others)) = others
    BY RowsOfLines
  <2>10. LinesLeft' = LinesIn(left')
    BY DEF LinesLeft
  <2> QED
    BY <2>8, <2>9, <2>10 DEF others
<1>10. LinesLeft \cap LinesShown = {} /\ LinesLeft \cup LinesShown = Answer
  BY DEF QueryInv, RowsInv
<1>11. Answer' = Answer
  BY DEF Answer, InAnswer, NameMatches
<1>12. \A i, j \in Shown' : output'[i].line = output'[j].line => i = j
  <2>1. \A i \in Shown : output'[i].line \in LinesShown
    BY <1>5 DEF LinesShown
  <2>2. \A i, j \in Shown : output'[i].line = output'[j].line => i = j
    BY <1>5 DEF QueryInv, RowsInv
  <2> QED
    BY <1>2, <1>4, <1>6, <2>1, <2>2
<1>13. Cardinality(Shown') <= qo'.limit
  <2>1. Shown \subseteq 1 .. n
    BY <1>1 DEF Shown
  <2>2. IsFiniteSet(1 .. n)
    <3>1. 1 \in Int /\ n \in Int
      OBVIOUS
    <3> QED
      BY <3>1, FS_Interval
  <2>3. IsFiniteSet(Shown) /\ Cardinality(Shown) \in Nat
    BY <2>1, <2>2, FS_Subset, FS_CardinalityType
  <2>4. Cardinality(Shown \cup {p}) = Cardinality(Shown) + 1
    BY <1>3, <2>3, FS_AddElement
  <2>5. Cardinality(Shown) < qo.limit /\ qo.limit \in Nat
    BY DEF StepRow, QueryInv, QueryTypeOK
  <2> QED
    BY <1>4, <2>3, <2>4, <2>5
<1>14. \A l \in LinesShown', other \in left' : other.at <= store'.commands[l.command]
  <2> SUFFICES ASSUME NEW l \in LinesShown', NEW other \in left'
               PROVE  other.at <= store.commands[l.command]
    OBVIOUS
  <2>1. other \in left /\ other.at \in Int
    BY <1>8, LeftRow
  <2>2. CASE l \in LinesShown
    BY <2>1, <2>2 DEF QueryInv, RowsInv
  <2>3. CASE l = r.line
    <3>1. ~(other.at > r.at)
      BY <2>1 DEF StepRow, Before
    <3> QED
      BY <1>6, <2>1, <2>3, <3>1
  <2> QED
    BY <1>7, <2>2, <2>3
<1> QED
  BY <1>3, <1>4, <1>7, <1>9, <1>10, <1>11, <1>12, <1>13, <1>14, <1>6 DEF RowsInv

\* The headers are those there were, and maybe one more.
LEMMA DisplayedHeaders ==
  ASSUME QueryInv, NEW r \in left, NEW p \in Nat, Displays(r, p)
  PROVE  /\ Len(output) \in Nat
         /\ p \in {Len(output) + 1, Len(output) + 2}
         /\ \A c : \A h \in HeadersOf(c) : h \in 1 .. Len(output) /\ h \in HeadersOf(c)'
         /\ \A c : \A h \in HeadersOf(c)' :
              h \in HeadersOf(c) \/ (p = Len(output) + 2 /\ h = p - 1 /\ c = r.line.command)
         /\ p = Len(output) + 2 => p - 1 \in HeadersOf(r.line.command)'
         /\ \A h \in Nat : \A m \in 0 .. Len(output) : OnlyLines(h, m) => OnlyLines(h, m)'
<1>1. PICK n \in Nat : n = Len(output) /\ DOMAIN output = 1 .. n
  BY DEF QueryInv, QueryTypeOK
<1>2. /\ p \in {n + 1, n + 2} /\ DOMAIN output' = 1 .. p
      /\ \A i \in 1 .. n : output'[i] = output[i]
      /\ output'[p].kind = "line" /\ output'[p].line = r.line
      /\ p = n + 2 => output'[p - 1].kind = "command" /\ output'[p - 1].command = r.line.command
  BY <1>1 DEF Displays
<1>3. /\ \A i \in 1 .. p : i \in 1 .. n \/ i = p \/ (p = n + 2 /\ i = p - 1)
      /\ \A i \in 1 .. n : i \in 1 .. p
      /\ p = n + 2 => p - 1 \in 1 .. p
  BY <1>2
<1>4. \A c : \A h \in HeadersOf(c) : h \in 1 .. n /\ h \in HeadersOf(c)'
  BY <1>1, <1>2, <1>3 DEF HeadersOf
<1>5. ASSUME NEW c, NEW h \in HeadersOf(c)'
      PROVE  h \in HeadersOf(c) \/ (p = n + 2 /\ h = p - 1 /\ c = r.line.command)
  <2>1. h \in 1 .. p /\ output'[h].kind = "command" /\ output'[h].command = c
    BY <1>2 DEF HeadersOf
  <2>2. h # p
    BY <1>2, <2>1
  <2>3. CASE h \in 1 .. n
    BY <1>1, <1>2, <2>1, <2>3 DEF HeadersOf
  <2>4. CASE p = n + 2 /\ h = p - 1
    BY <1>2, <2>1, <2>4
  <2> QED
    BY <1>3, <2>1, <2>2, <2>3, <2>4
<1>6. p = n + 2 => p - 1 \in HeadersOf(r.line.command)'
  BY <1>2, <1>3 DEF HeadersOf
<1>7. \A h \in Nat : \A m \in 0 .. n : OnlyLines(h, m) => OnlyLines(h, m)'
  <2> SUFFICES ASSUME NEW h \in Nat, NEW m \in 0 .. n, OnlyLines(h, m)
               PROVE  OnlyLines(h, m)'
    OBVIOUS
  <2>1. \A j \in h + 1 .. m : j \in 1 .. n
    OBVIOUS
  <2> QED
    BY <1>2, <2>1 DEF OnlyLines
<1> QED
  BY <1>1, <1>2, <1>4, <1>5, <1>6, <1>7

\* The new line is below its command too.
LEMMA LineIsBelow ==
  ASSUME QueryInv, NEW r \in left, NEW p \in Nat, Displays(r, p), Shown' = Shown \cup {p},
         p = Len(output) + 2 \/ (searched = {} /\ previous # 0 /\ previous = r.line.command)
  PROVE  /\ HeadersAbove'
         /\ \E h \in HeadersOf(r.line.command)' : h < p /\ OnlyLines(h, p)'
<1>1. PICK n \in Nat : /\ n = Len(output) /\ DOMAIN output = 1 .. n
                       /\ DOMAIN output' = 1 .. p /\ output'[p].kind = "line" /\ output'[p].line = r.line
                       /\ \A i \in 1 .. n : output'[i] = output[i]
  BY DEF QueryInv, QueryTypeOK, Displays
<1>2. /\ p \in {n + 1, n + 2}
      /\ \A c : \A h \in HeadersOf(c) : h \in 1 .. n /\ h \in HeadersOf(c)'
      /\ p = n + 2 => p - 1 \in HeadersOf(r.line.command)'
      /\ \A h \in Nat : \A m \in 0 .. n : OnlyLines(h, m) => OnlyLines(h, m)'
  BY <1>1, DisplayedHeaders
<1>3. \E h \in HeadersOf(r.line.command)' : h < p /\ OnlyLines(h, p)'
  <2>1. CASE p = n + 2
    <3>1. p - 1 < p /\ \A j \in p - 1 + 1 .. p : j = p
      BY <2>1
    <3>2. OnlyLines(p - 1, p)'
      BY <1>1, <3>1 DEF OnlyLines
    <3> QED
      BY <1>2, <2>1, <3>1, <3>2
  <2>2. CASE p # n + 2
    <3>1. p = n + 1 /\ searched = {} /\ previous # 0 /\ previous = r.line.command
      BY <1>1, <1>2, <2>2
    <3>2. PICK h \in HeadersOf(r.line.command) : OnlyLines(h, n)
      BY <1>1, <3>1 DEF QueryInv, HeadersInv, LastHeader
    <3>3. h \in 1 .. n /\ h \in HeadersOf(r.line.command)'
      BY <1>2
    <3>4. h \in Nat /\ n \in 0 .. n /\ h < p
      BY <3>1, <3>3
    <3>5. OnlyLines(h, n)'
      BY <1>2, <3>2, <3>4
    <3>6. \A j \in h + 1 .. p : j \in h + 1 .. n \/ j = p
      BY <3>1, <3>3
    <3>7. OnlyLines(h, p)'
      BY <1>1, <3>5, <3>6 DEF OnlyLines
    <3> QED
      BY <3>3, <3>4, <3>7
  <2> QED
    BY <2>1, <2>2
<1>4. ASSUME NEW i \in Shown
      PROVE  (\E h \in HeadersOf(output[i].line.command) : h < i /\ OnlyLines(h, i))'
  <2>1. i \in 1 .. n /\ output'[i] = output[i]
    BY <1>1 DEF Shown
  <2>2. PICK c : c = output[i].line.command
    OBVIOUS
  <2>3. PICK h \in HeadersOf(c) : h < i /\ OnlyLines(h, i)
    BY <2>2 DEF QueryInv, HeadersInv, HeadersAbove
  <2>4. h \in 1 .. n /\ h \in HeadersOf(c)'
    BY <1>2
  <2>5. h \in Nat /\ i \in 0 .. n
    BY <2>1, <2>4
  <2>6. OnlyLines(h, i)'
    BY <1>2, <2>3, <2>5
  <2>7. c = output'[i].line.command
    BY <2>1, <2>2
  <2> QED
    BY <2>3, <2>4, <2>6, <2>7
<1>5. HeadersAbove'
  <2>1. output'[p].line.command = r.line.command
    BY <1>1
  <2>2. (\E h \in HeadersOf(output[p].line.command) : h < p /\ OnlyLines(h, p))'
    BY <1>3, <2>1
  <2> QED
    BY <1>4, <2>2 DEF HeadersAbove
<1> QED
  BY <1>3, <1>5

\* In the list, the previous command is the one the line was displayed under.
LEMMA ListStaysInOrder ==
  ASSUME QueryInv, searched = {}, NEW r \in left, StepRow(r), NEW p \in Nat, Displays(r, p),
         Shown' = Shown \cup {p},
         p = Len(output) + 1 => previous = r.line.command,
         p = Len(output) + 2 => previous # r.line.command,
         previous' = r.line.command, UNCHANGED <<store, searched>>
  PROVE  HeadersInv'
<1>1. PICK n \in Nat : n = Len(output) /\ Len(output') = p
  BY DEF QueryInv, QueryTypeOK, Displays
<1>2. /\ r.line.command \in DOMAIN store.commands /\ r.line.command \in Nat \ {0}
      /\ r.at = store.commands[r.line.command] /\ r.at \in Int
  BY LeftRow
<1>3. /\ p \in {n + 1, n + 2}
      /\ \A c : \A h \in HeadersOf(c)' :
           h \in HeadersOf(c) \/ (p = n + 2 /\ h = p - 1 /\ c = r.line.command)
  BY <1>1, DisplayedHeaders
<1>4. /\ HeadersAbove'
      /\ \E h \in HeadersOf(r.line.command)' : OnlyLines(h, p)'
  <2>1. p = Len(output) + 2 \/ (searched = {} /\ previous # 0 /\ previous = r.line.command)
    BY <1>1, <1>2, <1>3
  <2> QED
    BY <2>1, LineIsBelow
<1>5. LastHeader'
  BY <1>1, <1>4 DEF LastHeader
<1>6. ASSUME NEW c \in DOMAIN store.commands, HeadersOf(c)' # {}
      PROVE  /\ store.commands[r.line.command] <= store.commands[c]
             /\ \A other \in left' : other.at <= store.commands[c]
  <2>1. store.commands[c] \in Int
    <3>1. store.commands \in Seq(Int)
      BY DEF QueryInv, QueryTypeOK
    <3> QED
      BY <3>1
  <2>2. CASE c = r.line.command
    <3>1. \A other \in left' : other \in left /\ other.at \in Int /\ ~(other.at > r.at)
      BY LeftRow DEF StepRow, Before
    <3> QED
      BY <1>2, <2>1, <2>2, <3>1
  <2>3. CASE c # r.line.command
    <3>1. HeadersOf(c) # {}
      BY <1>3, <1>6, <2>3
    <3>2. \A other \in left : other.at <= store.commands[c]
      BY <3>1 DEF QueryInv, HeadersInv, LatestFirst
    <3> QED
      BY <1>2, <3>2 DEF StepRow
  <2> QED
    BY <2>2, <2>3
<1>7. ASSUME NEW c \in DOMAIN store.commands, NEW h \in HeadersOf(c)', NEW k \in HeadersOf(c)', h # k
      PROVE  \E d \in DOMAIN store.commands \ {c} : store.commands[d] = store.commands[c]
  <2>1. CASE h \in HeadersOf(c) /\ k \in HeadersOf(c)
    BY <1>7, <2>1 DEF QueryInv, HeadersInv, LatestFirst
  <2>2. CASE ~(h \in HeadersOf(c) /\ k \in HeadersOf(c))
    <3>1. p = n + 2 /\ c = r.line.command /\ HeadersOf(c) # {}
      BY <1>3, <1>7, <2>2
    <3>2. previous # 0 /\ previous # c /\ previous \in DOMAIN store.commands
      BY <1>1, <3>1 DEF QueryInv, QueryTypeOK, HeadersInv, LatestFirst
    <3>3. store.commands[previous] <= store.commands[c]
      BY <3>1 DEF QueryInv, HeadersInv, LatestFirst
    <3>4. HeadersOf(previous) # {}
      BY <3>2 DEF QueryInv, HeadersInv, LastHeader
    <3>5. r.at <= store.commands[previous]
      BY <3>2, <3>4 DEF QueryInv, HeadersInv, LatestFirst
    <3>6. store.commands[previous] \in Int
      <4>1. store.commands \in Seq(Int)
        BY DEF QueryInv, QueryTypeOK
      <4> QED
        BY <3>2, <4>1
    <3>7. store.commands[previous] = store.commands[c]
      BY <1>2, <3>1, <3>3, <3>5, <3>6
    <3> QED
      BY <3>2, <3>7
  <2> QED
    BY <2>1, <2>2
<1>8. LatestFirst'
  BY <1>2, <1>6, <1>7 DEF LatestFirst
<1> QED
  BY <1>4, <1>5, <1>8 DEF HeadersInv

\* The types after a row was displayed
LEMMA DisplayKeepsTypes ==
  ASSUME QueryInv, phase = "rows", UNCHANGED <<phase, qo, options, searched, store, upper>>,
         output' \in Seq(Items(store)), previous' \in {0} \cup DOMAIN store.commands
  PROVE  QueryTypeOK' /\ NothingYet' /\ AtTheEnd'
<1>1. Items(store)' = Items(store)
  BY DEF Items
<1>2. QueryTypeOK'
  BY <1>1 DEF QueryInv, QueryTypeOK
<1>3. NothingYet' /\ AtTheEnd'
  BY DEF NothingYet, AtTheEnd
<1> QED
  BY <1>2, <1>3

\* The item a command is displayed as
LEMMA HeaderTyped ==
  ASSUME QueryInv, NEW r \in left
  PROVE  /\ Header(r).kind = "command" /\ Header(r).command = r.line.command
         /\ Header(r) \in [kind : {"command"}, command : DOMAIN store.commands, at : Int]
         /\ [Header(r) EXCEPT !.at = r.at].kind = "command"
         /\ [Header(r) EXCEPT !.at = r.at].command = r.line.command
         /\ [Header(r) EXCEPT !.at = r.at]
              \in [kind : {"command"}, command : DOMAIN store.commands, at : Int]
<1>1. r.at \in Int /\ r.line.command \in DOMAIN store.commands /\ upper \in {0, 1}
  BY LeftRow DEF QueryInv, QueryTypeOK
<1>2. PICK range \in Nat \ {0} : range = 2 ^ IntBits
  BY HalfOfInts
<1>3. (r.at % range) + upper * range \in Int
  <2>1. r.at % range \in Int
    BY <1>1, <1>2
  <2>2. upper * range \in {0, range}
    BY <1>1, <1>2
  <2> QED
    BY <1>2, <2>1, <2>2
<1>4. (r.at % 2 ^ IntBits) + upper * 2 ^ IntBits \in Int
  BY <1>2, <1>3
<1> QED
  BY <1>1, <1>4 DEF Header

LEMMA FullKeeps ==
  ASSUME QueryInv, DisplayHistoryFull
  PROVE  QueryInv'
<1>1. /\ phase = "rows" /\ searched = {}
      /\ UNCHANGED <<phase, qo, options, searched, store, upper>>
  BY DEF DisplayHistoryFull, StepRow
<1>2. PICK r \in left :
        /\ StepRow(r)
        /\ previous = r.line.command => output' = Append(output, Line(r))
        /\ previous # r.line.command => output' = output \o <<[Header(r) EXCEPT !.at = r.at], Line(r)>>
        /\ previous' = r.line.command
  BY DEF DisplayHistoryFull
<1>3. PICK header : header = [Header(r) EXCEPT !.at = r.at]
  OBVIOUS
<1>4. /\ header.kind = "command" /\ header.command = r.line.command
      /\ header \in [kind : {"command"}, command : DOMAIN store.commands, at : Int]
  BY <1>3, HeaderTyped
<1>5. output' = Append(output, Line(r)) \/ output' = output \o <<header, Line(r)>>
  BY <1>2, <1>3
<1>6. /\ output' \in Seq(Items(store))
      /\ \E p \in Nat : /\ Displays(r, p)
                        /\ output' = Append(output, Line(r)) => p = Len(output) + 1
                        /\ output' # Append(output, Line(r)) => p = Len(output) + 2
  BY <1>4, <1>5, DisplayedTyped
<1>7. PICK p \in Nat : /\ Displays(r, p)
                       /\ output' = Append(output, Line(r)) => p = Len(output) + 1
                       /\ output' # Append(output, Line(r)) => p = Len(output) + 2
  BY <1>6
<1>8. Len(output) \in Nat /\ output \in Seq(Items(store))
  BY DEF QueryInv, QueryTypeOK
<1>9. previous # r.line.command => output' # Append(output, Line(r))
  <2> SUFFICES ASSUME previous # r.line.command PROVE output' # Append(output, Line(r))
    OBVIOUS
  <2>1. output' = output \o <<header, Line(r)>>
    BY <1>2, <1>3
  <2>2. header \in Items(store) /\ Line(r) \in Items(store)
    <3>1. r.line \in store.lines
      BY LeftRow
    <3> QED
      BY <1>4, <3>1 DEF Items, Line
  <2> HIDE DEF Items
  <2>3. Len(output \o <<header, Line(r)>>) = Len(output) + 2 /\ Len(Append(output, Line(r))) = Len(output) + 1
    BY <1>8, <2>2
  <2> QED
    BY <1>8, <2>1, <2>3
<1>10. /\ p = Len(output) + 1 => previous = r.line.command
       /\ p = Len(output) + 2 => previous # r.line.command
  BY <1>2, <1>7, <1>8, <1>9
<1>11. RowsInv' /\ Shown' = Shown \cup {p}
  BY <1>1, <1>2, <1>7, StepMovesRow
<1>12. HeadersInv'
  BY <1>1, <1>2, <1>7, <1>10, <1>11, ListStaysInOrder
<1>13. QueryTypeOK' /\ NothingYet' /\ AtTheEnd'
  BY <1>1, <1>2, <1>6, LeftRow, DisplayKeepsTypes
<1> QED
  BY <1>11, <1>12, <1>13 DEF QueryInv

LEMMA SearchKeeps ==
  ASSUME QueryInv, DisplayHistorySearch
  PROVE  QueryInv'
<1>1. /\ phase = "rows" /\ searched # {}
      /\ UNCHANGED <<phase, qo, options, searched, store, previous, upper>>
  BY DEF DisplayHistorySearch, StepRow
<1>2. PICK r \in left : StepRow(r) /\ output' = output \o <<Header(r), Line(r)>>
  BY DEF DisplayHistorySearch
<1>3. PICK header : header = Header(r)
  OBVIOUS
<1>4. /\ header.kind = "command" /\ header.command = r.line.command
      /\ header \in [kind : {"command"}, command : DOMAIN store.commands, at : Int]
  BY <1>3, HeaderTyped
<1>5. output' = output \o <<header, Line(r)>>
  BY <1>2, <1>3
<1>6. /\ output' \in Seq(Items(store))
      /\ \E p \in Nat : /\ Displays(r, p)
                        /\ output' # Append(output, Line(r)) => p = Len(output) + 2
  BY <1>4, <1>5, DisplayedTyped
<1>7. PICK p \in Nat : /\ Displays(r, p)
                       /\ output' # Append(output, Line(r)) => p = Len(output) + 2
  BY <1>6
<1>8. Len(output) \in Nat /\ output \in Seq(Items(store))
  BY DEF QueryInv, QueryTypeOK
<1>9. output' # Append(output, Line(r))
  <2>1. header \in Items(store) /\ Line(r) \in Items(store)
    <3>1. r.line \in store.lines
      BY LeftRow
    <3> QED
      BY <1>4, <3>1 DEF Items, Line
  <2> HIDE DEF Items
  <2>2. Len(output \o <<header, Line(r)>>) = Len(output) + 2 /\ Len(Append(output, Line(r))) = Len(output) + 1
    BY <1>8, <2>1
  <2> QED
    BY <1>5, <1>8, <2>2
<1>10. RowsInv' /\ Shown' = Shown \cup {p}
  BY <1>1, <1>2, <1>7, StepMovesRow
<1>11. HeadersAbove'
  BY <1>7, <1>9, <1>10, LineIsBelow
<1>12. HeadersInv'
  BY <1>1, <1>11 DEF HeadersInv, LastHeader, LatestFirst
<1>13. QueryTypeOK' /\ NothingYet' /\ AtTheEnd'
  <2>1. previous' \in {0} \cup DOMAIN store.commands
    BY <1>1 DEF QueryInv, QueryTypeOK
  <2> QED
    BY <1>1, <1>6, <2>1, DisplayKeepsTypes
<1> QED
  BY <1>10, <1>12, <1>13 DEF QueryInv

\* What the end of the rows, a failure or no step at all leave
LEMMA EndKeeps ==
  ASSUME QueryInv, EndOfRows \/ StepFails \/ UNCHANGED queryVars
  PROVE  QueryInv'
<1>1. UNCHANGED <<qo, options, searched, store, left, previous, upper, output>>
  BY DEF EndOfRows, StepFails, queryVars
<1>2. phase' \in {"over", "failed", phase} /\ (phase' = "over" => phase = "over" \/ left = {} \/ Cardinality(Shown) >= qo.limit)
  BY DEF EndOfRows, StepFails, queryVars
<1>3. phase' \in {"options", "invalid", "open"} => phase' = phase
  BY <1>2
<1>4. Shown' = Shown
  BY <1>1 DEF Shown
<1>5. LinesShown' = LinesShown /\ LinesLeft' = LinesLeft /\ Answer' = Answer
  BY <1>1, <1>4 DEF LinesShown, LinesLeft, LinesIn, Answer, InAnswer, NameMatches
<1>6. RowsInv'
  BY <1>1, <1>4, <1>5 DEF QueryInv, RowsInv, Rows, Row
<1>7. /\ \A c : HeadersOf(c)' = HeadersOf(c)
      /\ \A h, m : OnlyLines(h, m)' <=> OnlyLines(h, m)
  BY <1>1 DEF HeadersOf, OnlyLines
<1>8. HeadersInv'
  BY <1>1, <1>4, <1>7 DEF QueryInv, HeadersInv, HeadersAbove, LastHeader, LatestFirst
<1>9. QueryTypeOK'
  BY <1>1, <1>2 DEF QueryInv, QueryTypeOK, Items
<1>10. NothingYet'
  BY <1>1, <1>3 DEF QueryInv, NothingYet
<1>11. AtTheEnd'
  BY <1>1, <1>2, <1>4 DEF QueryInv, AtTheEnd
<1> QED
  BY <1>6, <1>8, <1>9, <1>10, <1>11 DEF QueryInv

\* The rows that are left and the lines that were displayed are those asked for, each
\* once and the latest first, and each line is below its command: whatever the options,
\* the history and the step that fails (pkg_history_main).
THEOREM QueryIsConsistent == QuerySpec => []QueryInv
<1>1. QueryInit => QueryInv
  BY QueryInitInv
<1>2. QueryInv /\ [QueryNext]_queryVars => QueryInv'
  <2> SUFFICES ASSUME QueryInv, [QueryNext]_queryVars PROVE QueryInv'
    OBVIOUS
  <2>1. CASE Flag \/ LimitOption \/ Period
    BY <2>1, OptionsKeep
  <2>2. CASE EndOfOptions \/ ShowsNothing
    BY <2>2, EndOfOptionsKeeps
  <2>3. CASE ExecuteStatement
    BY <2>3, ExecuteKeeps
  <2>4. CASE DisplayHistoryFull
    BY <2>4, FullKeeps
  <2>5. CASE DisplayHistorySearch
    BY <2>5, SearchKeeps
  <2>6. CASE EndOfRows \/ StepFails \/ UNCHANGED queryVars
    BY <2>6, EndKeeps
  <2> QED
    BY <2>1, <2>2, <2>3, <2>4, <2>5, <2>6 DEF QueryNext
<1> QED
  BY <1>1, <1>2, PTL DEF QuerySpec

\* In the list of pkg history, each line is displayed below the command it is a line of,
\* and a command is displayed once, unless another one is of the same time
\* (display_history_full, display_history_search).
THEOREM LinesAreUnderTheirCommand == QuerySpec => []LinesUnderTheirCommand
<1>1. QueryInv => LinesUnderTheirCommand
  <2> SUFFICES ASSUME QueryInv PROVE LinesUnderTheirCommand
    OBVIOUS
  <2>1. ASSUME NEW i \in DOMAIN output, output[i].kind = "line"
        PROVE  \E h \in HeadersOf(output[i].line.command) :
                 h < i /\ \A j \in h + 1 .. i : output[j].kind = "line"
    <3>1. i \in Shown
      BY <2>1 DEF Shown
    <3> QED
      BY <3>1 DEF QueryInv, HeadersInv, HeadersAbove, OnlyLines
  <2>2. ASSUME searched = {}, NEW c \in DOMAIN store.commands, Cardinality(HeadersOf(c)) > 1
        PROVE  \E d \in DOMAIN store.commands \ {c} : store.commands[d] = store.commands[c]
    <3>1. ~\A h, k \in HeadersOf(c) : h = k
      <4> SUFFICES ASSUME \A h, k \in HeadersOf(c) : h = k PROVE FALSE
        OBVIOUS
      <4>1. HeadersOf(c) = {} \/ \E h : HeadersOf(c) = {h}
        OBVIOUS
      <4>2. Cardinality({}) = 0 /\ \A h : Cardinality({h}) = 1
        BY FS_EmptySet, FS_Singleton
      <4>3. Cardinality(HeadersOf(c)) \in {0, 1}
        BY <4>1, <4>2
      <4> QED
        BY <2>2, <4>3
    <3> QED
      BY <2>2, <3>1 DEF QueryInv, HeadersInv, LatestFirst
  <2> QED
    BY <2>1, <2>2, Zenon DEF LinesUnderTheirCommand, HeadersOf
<1> QED
  BY <1>1, QueryIsConsistent, PTL

\* The bounds of a search go through an int, which leaves those that fit as they are.
LEMMA AnswerIsMatched ==
  ASSUME QueryInv, searched = {} \/ {qo.from, qo.to} \subseteq 0 .. Largest(CInt)
  PROVE  Answer = Matched
<1>1. CASE searched = {}
  BY <1>1 DEF Answer, InAnswer, Matched
<1>2. CASE searched # {}
  <2>1. PICK pattern : searched = {pattern}
    BY <1>2 DEF QueryInv, QueryTypeOK
  <2>2. Wrap(CInt, qo.from) = qo.from /\ Wrap(CInt, qo.to) = qo.to
    <3>1. qo.from \in 0 .. Largest(CInt) /\ qo.to \in 0 .. Largest(CInt)
      BY <1>2
    <3> QED
      BY <3>1, WrapFits
  <2> QED
    BY <2>1, <2>2 DEF Answer, InAnswer, Matched
<1> QED
  BY <1>1, <1>2

\* As many lines as items that display one
LEMMA ShownOnce ==
  ASSUME QueryInv
  PROVE  /\ IsFiniteSet(Shown) /\ IsFiniteSet(LinesShown)
         /\ Cardinality(Shown) \in Nat /\ Cardinality(LinesShown) = Cardinality(Shown)
<1>1. PICK n \in Nat : DOMAIN output = 1 .. n
  BY DEF QueryInv, QueryTypeOK
<1>2. Shown \in SUBSET (1 .. n)
  BY <1>1 DEF Shown
<1>3. IsFiniteSet(1 .. n)
  <2>1. 1 \in Int /\ n \in Int
    OBVIOUS
  <2> QED
    BY <2>1, FS_Interval
<1>4. IsFiniteSet(Shown) /\ Cardinality(Shown) \in Nat
  BY <1>2, <1>3, FS_Subset, FS_CardinalityType
<1>5. ExistsBijection(Shown, LinesShown)
  <2> DEFINE f == [i \in Shown |-> output[i].line]
  <2>1. f \in [Shown -> LinesShown]
    BY DEF LinesShown
  <2>2. \A l \in LinesShown : \E i \in Shown : f[i] = l
    BY DEF LinesShown
  <2>3. \A i, j \in Shown : f[i] = f[j] => i = j
    BY DEF QueryInv, RowsInv
  <2> HIDE DEF f
  <2>4. IsInjective(f)
    <3>1. DOMAIN f = Shown
      BY <2>1
    <3> QED
      BY <2>3, <3>1 DEF IsInjective
  <2>5. f \in Bijection(Shown, LinesShown)
    BY <2>1, <2>2, <2>4 DEF Bijection, Injection, Surjection
  <2> QED
    BY <2>5 DEF ExistsBijection
<1> QED
  BY <1>4, <1>5, FS_Bijection

\* Without a failure, what pkg history -n N shows are N lines of those asked for, or all
\* of them if there are fewer, each once, and none of those it leaves out is more recent
\* than one it shows (STMT_LIST_LINE, STMT_SEARCH_LINE_* and the loops that display
\* their rows): for every history and every combination of options.
THEOREM ShowsTheLatestLines == QuerySpec => []ShowsTheLatest
<1>1. QueryInv => ShowsTheLatest
  <2> SUFFICES ASSUME QueryInv, phase = "over", store.lines # {},
                      searched = {} \/ {qo.from, qo.to} \subseteq 0 .. Largest(CInt)
               PROVE  /\ LinesShown \subseteq Matched
                      /\ Cardinality(LinesShown) = Cardinality(Shown)
                      /\ Cardinality(Shown) = Min({qo.limit, Cardinality(Matched)})
                      /\ \A l \in LinesShown, other \in Matched \ LinesShown :
                           store.commands[other.command] <= store.commands[l.command]
    BY Zenon DEF ShowsTheLatest, LinesShown
  <2>1. Answer = Matched
    BY AnswerIsMatched
  <2>2. /\ left = Rows(store, LinesLeft)
        /\ LinesLeft \cap LinesShown = {} /\ LinesLeft \cup LinesShown = Matched
        /\ Cardinality(Shown) <= qo.limit
        /\ \A l \in LinesShown, r \in left : r.at <= store.commands[l.command]
    BY <2>1 DEF QueryInv, RowsInv
  <2>3. IsFiniteSet(LinesShown) /\ Cardinality(Shown) \in Nat /\ Cardinality(LinesShown) = Cardinality(Shown)
    BY ShownOnce
  <2>4. IsFiniteSet(Matched)
    <3>1. IsFiniteSet(store.lines) /\ Matched \in SUBSET store.lines
      BY DEF QueryInv, QueryTypeOK, Matched
    <3> QED
      BY <3>1, FS_Subset
  <2>5. Cardinality(LinesShown) <= Cardinality(Matched) /\ Cardinality(Matched) \in Nat
    BY <2>2, <2>4, FS_Subset, FS_CardinalityType
  <2>6. left = {} \/ Cardinality(Shown) >= qo.limit
    BY DEF QueryInv, AtTheEnd
  <2>7. qo.limit \in Nat
    BY DEF QueryInv, QueryTypeOK
  <2>8. Cardinality(Shown) = Min({qo.limit, Cardinality(Matched)})
    <3>1. PICK limit \in Nat, matched \in Nat, shown \in Nat :
            limit = qo.limit /\ matched = Cardinality(Matched) /\ shown = Cardinality(Shown)
      BY <2>3, <2>5, <2>7
    <3>2. shown <= limit /\ shown <= matched
      BY <2>2, <2>3, <2>5, <3>1
    <3>3. shown = limit \/ shown = matched
      <4>1. CASE left = {}
        <5>1. LinesLeft = {}
          BY <4>1 DEF LinesLeft, LinesIn
        <5> QED
          BY <2>2, <2>3, <3>1, <5>1
      <4>2. CASE Cardinality(Shown) >= qo.limit
        BY <3>1, <3>2, <4>2
      <4> QED
        BY <2>6, <4>1, <4>2
    <3>4. \A m \in {limit, matched} : (\A k \in {limit, matched} : m <= k) => m = shown
      BY <3>2, <3>3
    <3>5. shown \in {limit, matched} /\ \A k \in {limit, matched} : shown <= k
      BY <3>2, <3>3
    <3>6. Min({limit, matched}) \in {limit, matched}
          /\ \A k \in {limit, matched} : Min({limit, matched}) <= k
      BY <3>5 DEF Min
    <3> QED
      BY <3>1, <3>4, <3>6
  <2>9. ASSUME NEW l \in LinesShown, NEW other \in Matched \ LinesShown
        PROVE  store.commands[other.command] <= store.commands[l.command]
    <3>1. other \in LinesLeft
      BY <2>2
    <3>2. \A k \in LinesLeft : Row(store, k) \in Rows(store, LinesLeft)
      BY RowsOfLines
    <3>3. Row(store, other) \in left
      BY <2>2, <3>1, <3>2
    <3>4. Row(store, other).at = store.commands[other.command]
      BY DEF Row
    <3> QED
      BY <2>2, <3>3, <3>4
  <2> QED
    BY <2>2, <2>3, <2>8, <2>9
<1> QED
  BY <1>1, QueryIsConsistent, PTL

-----------------------------------------------------------------------------
(* -n: the number a text writes *)

EndingStep(body, base, ending, i) ==
  IF i = 0 THEN [worth |-> 0, weight |-> 1]
  ELSE [worth |-> ending[i - 1].worth + Rank(Digits, body[Len(body) + 1 - i]) * ending[i - 1].weight,
        weight |-> ending[i - 1].weight * base]
Endings(body, base, n, ending) ==
  ending = [i \in 0 .. n |-> EndingStep(body, base, ending, i)]

\* The recursion of NumeralValue is well defined.
LEMMA SomeEndings ==
  \A body, base : \A n \in Nat : \E e : Endings(body, base, n, e)
<1> SUFFICES ASSUME NEW body, NEW base
             PROVE  \A n \in Nat : \E e : Endings(body, base, n, e)
  OBVIOUS
<1> DEFINE T == {n \in Nat : ~ \E e : Endings(body, base, n, e)}
<1>1. SUFFICES ASSUME T # {} PROVE FALSE
  BY Zenon
<1>2. T \in SUBSET Nat
  OBVIOUS
<1>3. PICK n \in T : \A m \in T : n <= m
  BY <1>1, <1>2, LeastElement
<1>4. n \in Nat /\ ~ \E e : Endings(body, base, n, e)
  BY <1>3
<1>5. CASE n = 0
  <2>1. 0 .. 0 = {0}
    OBVIOUS
  <2> DEFINE e == [m \in 0 .. 0 |-> [worth |-> 0, weight |-> 1]]
  <2>2. Endings(body, base, 0, e)
    BY <2>1 DEF Endings, EndingStep
  <2> QED
    BY <1>4, <1>5, <2>2
<1>6. CASE n # 0
  <2>1. n - 1 \in Nat /\ ~(n <= n - 1)
    BY <1>4, <1>6
  <2>2. PICK e : Endings(body, base, n - 1, e)
    BY <1>3, <2>1
  <2> DEFINE g == [m \in 0 .. n |-> IF m = n THEN EndingStep(body, base, e, n) ELSE e[m]]
  <2>3. \A m \in 0 .. n : m # n => m \in 0 .. n - 1
    BY <1>4
  <2>4. \A m \in 0 .. n : m # 0 => m - 1 \in 0 .. n /\ m - 1 # n
    BY <1>4
  <2>5. \A m \in 0 .. n : m # 0 => g[m - 1] = e[m - 1]
    BY <2>4
  <2>6. \A m \in 0 .. n : g[m] = EndingStep(body, base, e, m)
    BY <2>2, <2>3 DEF Endings
  <2>7. g = [m \in 0 .. n |-> g[m]]
    OBVIOUS
  <2> HIDE DEF g
  <2>8. \A m \in 0 .. n : EndingStep(body, base, g, m) = EndingStep(body, base, e, m)
    BY <2>5, Zenon DEF EndingStep
  <2>9. \A m \in 0 .. n : g[m] = EndingStep(body, base, g, m)
    BY <2>6, <2>8, Zenon
  <2>10. Endings(body, base, n, g)
    BY <2>7, <2>9 DEF Endings
  <2> QED
    BY <1>4, <2>10
<1> QED
  BY <1>4, <1>5, <1>6

Magnitude(body, base) ==
  LET e == CHOOSE e : Endings(body, base, Len(body), e) IN e[Len(body)].worth

LEMMA NumeralValueIs ==
  ASSUME NEW text, NEW base
  PROVE  NumeralValue(text, base)
           = IF At(text, 1, {"-"}) THEN -Magnitude(Body(text), base) ELSE Magnitude(Body(text), base)
  BY Zenon DEF NumeralValue, Magnitude, Endings, EndingStep

\* What digits are worth
AreDigits(body, base) == \A i \in 1 .. Len(body) : Rank(Digits, body[i]) \in 0 .. base - 1

LEMMA EndingsTyped ==
  ASSUME NEW body, NEW base \in 2 .. 36, Len(body) \in Nat, AreDigits(body, base),
         NEW e, Endings(body, base, Len(body), e)
  PROVE  \A i \in 0 .. Len(body) : e[i] \in [worth : Nat, weight : Nat \ {0}]
<1>1. PICK n \in Nat : n = Len(body)
  OBVIOUS
<1>2. \A i \in 0 .. n : e[i] = EndingStep(body, base, e, i)
  BY <1>1 DEF Endings
<1> DEFINE wrong == {i \in 0 .. n : e[i] \notin [worth : Nat, weight : Nat \ {0}]}
<1>3. wrong = {}
  <2> SUFFICES ASSUME wrong # {} PROVE FALSE
    OBVIOUS
  <2>1. wrong \in SUBSET Nat
    OBVIOUS
  <2>2. PICK i \in wrong : \A j \in wrong : i <= j
    BY <2>1, LeastElement
  <2>3. i \in 0 .. n /\ e[i] \notin [worth : Nat, weight : Nat \ {0}]
    OBVIOUS
  <2> HIDE DEF wrong
  <2>4. CASE i = 0
    <3>1. e[i] = EndingStep(body, base, e, i)
      BY <1>2, <2>3
    <3>2. e[i] = [worth |-> 0, weight |-> 1]
      BY <2>4, <3>1 DEF EndingStep
    <3> QED
      BY <2>3, <3>2
  <2>5. CASE i # 0
    <3>1. i - 1 \in 0 .. n /\ ~(i <= i - 1) /\ n + 1 - i \in 1 .. n
      BY <2>3, <2>5
    <3>2. e[i - 1] \in [worth : Nat, weight : Nat \ {0}]
      BY <2>2, <3>1 DEF wrong
    <3>3. PICK d \in 0 .. base - 1 : d = Rank(Digits, body[n + 1 - i])
      BY <1>1, <3>1 DEF AreDigits
    <3>4. PICK s \in Nat, w \in Nat \ {0} : s = e[i - 1].worth /\ w = e[i - 1].weight
      BY <3>2
    <3>5. e[i] = EndingStep(body, base, e, i)
      BY <1>2, <2>3
    <3>6. e[i] = [worth |-> s + d * w, weight |-> w * base]
      BY <1>1, <2>5, <3>3, <3>4, <3>5, Zenon DEF EndingStep
    <3>7. s + d * w \in Nat /\ w * base \in Nat \ {0}
      <4>1. d * w \in Nat /\ w * base >= w
        OBVIOUS
      <4> QED
        BY <4>1
    <3> QED
      BY <2>3, <3>6, <3>7
  <2> QED
    BY <2>4, <2>5
<1> QED
  BY <1>1, <1>3

LEMMA Regrouped ==
  /\ \A a, b, d, w, s \in Nat : a * (w * b) + (s + d * w) = (a * b + d) * w + s
  /\ \A x, s \in Nat, w \in Nat \ {0} : x * w + s >= x
<1>1. \A a, b, d, w, s \in Nat : a * (w * b) + (s + d * w) = (a * b + d) * w + s
  OBVIOUS
<1>2. \A x, s \in Nat, w \in Nat \ {0} : x * w + s >= x
  <2> TAKE x, s \in Nat, w \in Nat \ {0}
  <2>1. PICK more \in Nat : w = more + 1
    <3>1. w - 1 \in Nat /\ w = w - 1 + 1
      OBVIOUS
    <3> QED
      BY <3>1
  <2>2. x * w = x * more + x /\ x * more \in Nat
    BY <2>1
  <2> QED
    BY <2>2
<1> QED
  BY <1>1, <1>2

\* From the left, cut off at the limit, or from the right without a limit: the same number.
LEMMA AccumulateIsMagnitude ==
  ASSUME NEW type, NEW limit \in Nat, NEW base \in 2 .. 36,
         limit < 2 ^ type.bits, 2 ^ type.bits \in Nat,
         NEW body, Len(body) \in Nat, AreDigits(body, base),
         NEW digits, Len(digits) = Len(body),
         \A i \in 1 .. Len(body) : digits[i] = Rank(Digits, body[i])
  PROVE  LET sum == Accumulate(type, limit, base, digits) IN
         /\ Magnitude(body, base) \in Nat
         /\ sum.overflow <=> Magnitude(body, base) > limit
         /\ ~sum.overflow => sum.acc = Magnitude(body, base)
<1>1. PICK n \in Nat : n = Len(body) /\ n = Len(digits)
  OBVIOUS
<1>2. PICK f : /\ Sums(type, limit, base, digits, n, f)
               /\ Accumulate(type, limit, base, digits) = f[n]
  BY <1>1, AccumulateIsASum
<1>3. PICK e : Endings(body, base, n, e) /\ Magnitude(body, base) = e[n].worth
  <2> DEFINE e == CHOOSE e : Endings(body, base, n, e)
  <2>1. Endings(body, base, n, e)
    BY SomeEndings, Zenon
  <2>2. Magnitude(body, base) = e[n].worth
    BY <1>1 DEF Magnitude
  <2> QED
    BY <2>1, <2>2
<1>4. \A i \in 1 .. n : digits[i] \in 0 .. base - 1 /\ digits[i] = Rank(Digits, body[i])
  BY <1>1 DEF AreDigits
<1>5. \A j \in 0 .. n : f[j] \in SumType(limit) /\ f[j] = SumStep(type, limit, base, digits, f, j)
  <2>1. \A j \in 0 .. n : f[j] \in SumType(limit)
    BY <1>2, <1>4, SumsTyped
  <2> QED
    BY <1>2, <2>1 DEF Sums
<1>6. \A i \in 0 .. n : /\ e[i] \in [worth : Nat, weight : Nat \ {0}]
                        /\ e[i] = EndingStep(body, base, e, i)
  <2>1. \A i \in 0 .. n : e[i] \in [worth : Nat, weight : Nat \ {0}]
    <3>1. Len(body) \in Nat /\ Endings(body, base, Len(body), e)
      BY <1>1, <1>3
    <3>2. \A i \in 0 .. Len(body) : e[i] \in [worth : Nat, weight : Nat \ {0}]
      BY <3>1, EndingsTyped
    <3> QED
      BY <1>1, <3>2
  <2> QED
    BY <1>3, <2>1 DEF Endings
<1> DEFINE Agrees(j) == /\ ~f[j].overflow => e[n].worth = f[j].acc * e[n - j].weight + e[n - j].worth
                        /\ f[j].overflow => e[n].worth > limit
           wrong == {j \in 0 .. n : ~Agrees(j)}
<1>7. wrong = {}
  <2> SUFFICES ASSUME wrong # {} PROVE FALSE
    OBVIOUS
  <2>1. wrong \in SUBSET Nat
    OBVIOUS
  <2>2. PICK j \in wrong : \A k \in wrong : j <= k
    BY <2>1, LeastElement
  <2>3. j \in 0 .. n /\ ~Agrees(j)
    OBVIOUS
  <2> HIDE DEF wrong
  <2>4. CASE j = 0
    <3>1. f[0].acc = 0 /\ f[0].overflow = FALSE
      BY <1>5, <2>3, <2>4 DEF SumStep
    <3>2. PICK s \in Nat, w \in Nat \ {0} : s = e[n].worth /\ w = e[n].weight
      BY <1>6
    <3>3. n - 0 = n /\ 0 * w + s = s
      OBVIOUS
    <3> QED
      BY <2>3, <2>4, <3>1, <3>2, <3>3
  <2>5. CASE j # 0
    <3>1. /\ j - 1 \in 0 .. n /\ ~(j <= j - 1) /\ j \in 1 .. n
          /\ n - j \in 0 .. n /\ n - (j - 1) \in 0 .. n /\ n - (j - 1) # 0
          /\ n - (j - 1) - 1 = n - j /\ n + 1 - (n - (j - 1)) = j
      BY <2>3, <2>5
    <3>2. Agrees(j - 1)
      BY <2>2, <3>1 DEF wrong
    <3>3. f[j] = AddDigit(type, limit, base, f[j - 1], digits[j])
      BY <1>5, <2>3, <2>5 DEF SumStep
    <3>4. PICK d \in 0 .. base - 1 : d = digits[j] /\ d = Rank(Digits, body[j])
      BY <1>4, <3>1
    <3>5. PICK s \in Nat, w \in Nat \ {0} : s = e[n - j].worth /\ w = e[n - j].weight
      BY <1>6, <3>1
    <3>6. e[n - (j - 1)].worth = s + d * w /\ e[n - (j - 1)].weight = w * base
      <4>1. PICK i \in 0 .. n : i = n - (j - 1) /\ i # 0 /\ i - 1 = n - j /\ n + 1 - i = j
        BY <3>1
      <4>2. e[i] = EndingStep(body, base, e, i)
        BY <1>6
      <4>3. e[i] = [worth |-> s + d * w, weight |-> w * base]
        BY <1>1, <3>4, <3>5, <4>1, <4>2, Zenon DEF EndingStep
      <4> QED
        BY <4>1, <4>3
    <3>7. PICK a \in Nat : a = f[j - 1].acc
      <4>1. f[j - 1] \in SumType(limit)
        BY <1>5, <3>1
      <4> QED
        BY <4>1 DEF SumType
    <3>8. PICK total \in Nat : total = e[n].worth
      BY <1>6
    <3>9. CASE f[j - 1].overflow
      <4>1. f[j] = [f[j - 1] EXCEPT !.overflow = TRUE]
        BY <3>3, <3>9, Zenon DEF AddDigit
      <4>2. f[j].overflow = TRUE
        BY <1>5, <3>1, <4>1 DEF SumType
      <4> QED
        BY <2>3, <3>2, <3>9, <4>2
    <3>10. CASE ~f[j - 1].overflow
      <4>1. total = a * (w * base) + (s + d * w)
        BY <3>2, <3>6, <3>7, <3>8, <3>10
      <4>2. total = (a * base + d) * w + s
        <5>1. base \in Nat /\ d \in Nat /\ w \in Nat
          OBVIOUS
        <5> QED
          BY <4>1, <5>1, Regrouped
      <4>3. LET next == AddDigit(type, limit, base, f[j - 1], digits[j]) IN
            /\ next.overflow <=> f[j - 1].acc * base + digits[j] > limit
            /\ ~next.overflow => next.acc = f[j - 1].acc * base + digits[j]
        BY <1>4, <1>5, <3>1, <3>10, AddDigitExact
      <4>4. PICK number \in Nat : number = a * base + d
        OBVIOUS
      <4>5. /\ f[j].overflow <=> number > limit
            /\ ~f[j].overflow => f[j].acc = number
        BY <3>3, <3>4, <3>7, <4>3, <4>4
      <4>6. total = number * w + s /\ number * w + s >= number
        BY <4>2, <4>4, Regrouped
      <4>7. number > limit => total > limit
        BY <4>6
      <4> QED
        BY <2>3, <3>5, <3>8, <4>5, <4>6, <4>7, Zenon
    <3> QED
      BY <3>9, <3>10
  <2> QED
    BY <2>4, <2>5
<1>8. Agrees(n)
  <2>1. n \in 0 .. n
    OBVIOUS
  <2> QED
    BY <1>7, <2>1
<1>9. n - n = 0 /\ e[0].worth = 0 /\ e[0].weight = 1
  <2>1. n - n = 0 /\ 0 \in 0 .. n
    OBVIOUS
  <2>2. e[0] = EndingStep(body, base, e, 0)
    BY <1>6, <2>1
  <2>3. e[0] = [worth |-> 0, weight |-> 1]
    BY <2>2 DEF EndingStep
  <2> QED
    BY <2>1, <2>3
<1>10. PICK a \in 0 .. limit : a = f[n].acc
  BY <1>5 DEF SumType
<1>11. PICK total \in Nat : total = e[n].worth
  BY <1>6
<1>12. ~f[n].overflow => total = a
  BY <1>8, <1>9, <1>10, <1>11
<1>13. f[n].overflow => total > limit
  BY <1>8, <1>11
<1>14. f[n].overflow \in BOOLEAN
  BY <1>5 DEF SumType
<1> QED
  BY <1>2, <1>3, <1>10, <1>11, <1>12, <1>13, <1>14

-----------------------------------------------------------------------------
(* Strnto in the bases up to ten *)

\* The values of a type: as many below zero as from zero on, or none below zero.
LEMMA TypeBounds ==
  ASSUME NEW signed \in BOOLEAN, NEW bits \in Nat \ {0}
  PROVE  \E half \in Nat \ {0} :
           /\ 2 ^ bits = 2 * half
           /\ IntegerType(signed, bits).signed = signed
           /\ 2 ^ IntegerType(signed, bits).bits = 2 * half
           /\ Smallest(IntegerType(signed, bits)) = IF signed THEN -half ELSE 0
           /\ Largest(IntegerType(signed, bits)) = IF signed THEN half - 1 ELSE 2 * half - 1
<1>1. PICK b \in Nat : bits = b + 1 /\ bits - 1 = b
  <2>1. bits - 1 \in Nat /\ bits = bits - 1 + 1
    OBVIOUS
  <2> QED
    BY <2>1
<1>2. PICK half \in Nat \ {0} : half = 2 ^ b
  BY PowerIsPositive
<1>3. 2 ^ bits = 2 * half
  BY <1>1, <1>2, PowerDoubles
<1>4. IntegerType(signed, bits).signed = signed /\ IntegerType(signed, bits).bits = bits
  BY DEF IntegerType
<1>5. /\ Smallest(IntegerType(signed, bits)) = IF signed THEN -half ELSE 0
      /\ Largest(IntegerType(signed, bits)) = IF signed THEN half - 1 ELSE 2 * half - 1
  BY <1>1, <1>2, <1>3, <1>4 DEF Smallest, Largest
<1> QED
  BY <1>3, <1>4, <1>5

\* A type keeps its values.
LEMMA WrapKeeps ==
  ASSUME NEW signed \in BOOLEAN, NEW bits \in Nat \ {0},
         NEW n \in Smallest(IntegerType(signed, bits)) .. Largest(IntegerType(signed, bits))
  PROVE  Wrap(IntegerType(signed, bits), n) = n
<1>1. PICK half \in Nat \ {0} :
           /\ 2 ^ IntegerType(signed, bits).bits = 2 * half
           /\ Smallest(IntegerType(signed, bits)) = IF signed THEN -half ELSE 0
           /\ Largest(IntegerType(signed, bits)) = IF signed THEN half - 1 ELSE 2 * half - 1
  BY TypeBounds
<1>2. PICK low \in Int : /\ low = Smallest(IntegerType(signed, bits))
                         /\ Largest(IntegerType(signed, bits)) = low + 2 * half - 1
  BY <1>1
<1>3. n \in low .. low + 2 * half - 1
  BY <1>2
<1>4. (n - low) % (2 * half) = n - low
  BY <1>3
<1>5. Wrap(IntegerType(signed, bits), n) = low + (n - low)
  BY <1>1, <1>2, <1>4 DEF Wrap
<1> QED
  BY <1>3, <1>5

\* In the bases up to ten the characters below the base are its digits.
LEMMA DigitValue ==
  ASSUME NEW base \in 2 .. 10, NEW c
  PROVE  /\ CharValue(c, base) \in 0 .. 10
         /\ CharValue(c, base) < base <=> c \in {Digits[i] : i \in 1 .. base}
         /\ CharValue(c, base) < base => CharValue(c, base) = Rank(Digits, c)
<1>1. /\ DOMAIN Digits = 1 .. 10
      /\ \A i, j \in 1 .. 10 : Digits[i] = Digits[j] => i = j
  BY DEF Digits
<1>2. \A i \in 1 .. base : i \in 1 .. 10
  OBVIOUS
<1>3. CASE c \in Range(Digits)
  <2>1. \E i \in 1 .. 10 : Digits[i] = c
    BY <1>1, <1>3 DEF Range
  <2>2. PICK i \in 1 .. 10 : Digits[i] = c /\ i = CHOOSE k \in DOMAIN Digits : Digits[k] = c
    BY <1>1, <2>1
  <2>3. CharValue(c, base) = i - 1 /\ Rank(Digits, c) = i - 1
    BY <1>3, <2>2, Zenon DEF CharValue, Rank
  <2>4. i - 1 < base <=> i \in 1 .. base
    OBVIOUS
  <2>5. i \in 1 .. base <=> c \in {Digits[k] : k \in 1 .. base}
    BY <1>1, <1>2, <2>2
  <2> QED
    BY <2>3, <2>4, <2>5
<1>4. CASE c \notin Range(Digits)
  <2>1. ~(base > 10)
    OBVIOUS
  <2>2. CharValue(c, base) = base
    BY <1>4, <2>1, Zenon DEF CharValue
  <2>3. c \notin {Digits[k] : k \in 1 .. base}
    BY <1>1, <1>2, <1>4 DEF Range
  <2> QED
    BY <2>2, <2>3
<1> QED
  BY <1>3, <1>4

\* Where the digits end, and what they are
EndFrom(text, start, base) ==
  Min({i \in start .. Len(text) : CharValue(text[i], base) >= base} \cup {Len(text) + 1})
DigitsUpTo(text, start, base, stop) ==
  [i \in 1 .. stop - start + 1 |-> CharValue(text[start + i - 1], base)]
FirstDigit(text) == IF At(text, 1, {"-", "+"}) THEN 2 ELSE 1

\* What Strnto does without bounds and without a prefix
Converted(type, text, base) ==
  LET negative == At(text, 1, {"-"})
      stop == EndFrom(text, FirstDigit(text), base) - 1
      digits == DigitsUpTo(text, FirstDigit(text), base, stop)
      sum == Accumulate(type, LimitOf(type, negative), base, digits)
      value == Wrap(type, IF negative THEN -sum.acc ELSE sum.acc)
  IN  IF text = <<>> THEN Outcome("no_digit", Unset, 0)
      ELSE IF sum.overflow
           THEN IF negative /\ type.signed
                THEN Outcome("too_small", {Smallest(type)}, stop)
                ELSE Outcome("too_large", {Largest(type)}, stop)
      ELSE IF stop < Len(text) THEN Outcome("non_digit", {value}, stop)
      ELSE IF digits = <<>> THEN Outcome("no_digit", Unset, stop)
      ELSE Outcome("no_err", {value}, stop)

HasBinaryPrefix(text, base) == /\ base = 2 /\ At(text, FirstDigit(text), {"0"})
                               /\ At(text, FirstDigit(text) + 1, {"b", "B"})

LEMMA StrntoConverts ==
  ASSUME NEW type, NEW text, NEW base \in {2, 8, 10}, ~HasBinaryPrefix(text, base)
  PROVE  Strnto(type, text, base, NoBound, NoBound) = Converted(type, text, base)
<1>1. BaseOf(text, FirstDigit(text), base) = [base |-> base, from |-> FirstDigit(text)]
  <2>1. base # 0 /\ base # 16 /\ (base \in {0, 2} => base = 2) /\ base \notin {0, 16}
    OBVIOUS
  <2> QED
    BY <2>1, Zenon DEF BaseOf, HasBinaryPrefix
<1>2. /\ BaseOf(text, FirstDigit(text), base).base = base
      /\ BaseOf(text, FirstDigit(text), base).from = FirstDigit(text)
  BY <1>1
<1>3. base \in 2 .. 36
  OBVIOUS
<1>4. \A m \in NoBound : FALSE
  BY DEF NoBound
<1> QED
  BY <1>2, <1>3, <1>4, Zenon DEF Strnto, Converted, EndFrom, DigitsUpTo, FirstDigit

\* The first of the characters that is not a digit, or the end
LEMMA EndFromIs ==
  ASSUME NEW text, Len(text) \in Nat, NEW base \in 2 .. 10, FirstDigit(text) \in 1 .. Len(text) + 1
  PROVE  /\ EndFrom(text, FirstDigit(text), base) \in FirstDigit(text) .. Len(text) + 1
         /\ \A i \in FirstDigit(text) .. EndFrom(text, FirstDigit(text), base) - 1 :
              CharValue(text[i], base) \in 0 .. base - 1
         /\ EndFrom(text, FirstDigit(text), base) <= Len(text) =>
              ~(CharValue(text[EndFrom(text, FirstDigit(text), base)], base) < base)
<1>1. PICK start \in 1 .. Len(text) + 1 : start = FirstDigit(text)
  OBVIOUS
<1> DEFINE S == {i \in start .. Len(text) : CharValue(text[i], base) >= base} \cup {Len(text) + 1}
<1>2. S # {} /\ S \in SUBSET Nat /\ \A i \in S : i \in start .. Len(text) + 1
  OBVIOUS
<1>3. \A i \in start .. Len(text) : i \notin S => CharValue(text[i], base) \in 0 .. base - 1
  <2> TAKE i \in start .. Len(text)
  <2>1. PICK v \in 0 .. 10 : v = CharValue(text[i], base)
    BY DigitValue
  <2>2. i \notin S => ~(v >= base)
    BY <2>1
  <2>3. ~(v >= base) => v \in 0 .. base - 1
    OBVIOUS
  <2> HIDE DEF S
  <2> QED
    BY <2>1, <2>2, <2>3
<1>4. \A i \in S : i <= Len(text) => ~(CharValue(text[i], base) < base)
  <2> TAKE i \in S
  <2>1. PICK v \in 0 .. 10 : v = CharValue(text[i], base)
    BY DigitValue
  <2>2. i <= Len(text) => v >= base
    BY <2>1
  <2> QED
    BY <2>1, <2>2
<1>5. EndFrom(text, FirstDigit(text), base) = Min(S)
  BY <1>1 DEF EndFrom
<1> HIDE DEF S
<1>6. PICK least \in S : \A i \in S : least <= i
  BY <1>2, LeastElement
<1>7. PICK end : end = EndFrom(text, FirstDigit(text), base)
  OBVIOUS
<1>8. end \in S /\ \A i \in S : end <= i
  BY <1>5, <1>6, <1>7 DEF Min
<1>9. end \in start .. Len(text) + 1
  BY <1>2, <1>8
<1>10. \A i \in start .. end - 1 : i \in start .. Len(text) /\ ~(end <= i)
  BY <1>9
<1>11. \A i \in start .. end - 1 : CharValue(text[i], base) \in 0 .. base - 1
  BY <1>3, <1>8, <1>10
<1>12. end <= Len(text) => ~(CharValue(text[end], base) < base)
  BY <1>4, <1>8
<1> QED
  BY <1>1, <1>7, <1>9, <1>11, <1>12

\* A text is its sign, if it has one, and its body.
LEMMA BodyIs ==
  ASSUME NEW text, text \in Seq(Range(text))
  PROVE  /\ Len(text) \in Nat
         /\ FirstDigit(text) \in 1 .. 2 /\ (Len(text) # 0 => FirstDigit(text) \in 1 .. Len(text) + 1)
         /\ Len(text) = 0 => Body(text) = <<>> /\ FirstDigit(text) = 1
         /\ Len(Body(text)) \in Nat /\ Len(Body(text)) = Len(text) - FirstDigit(text) + 1
         /\ Body(text) \in Seq(Range(text))
         /\ \A i \in 1 .. Len(Body(text)) : Body(text)[i] = text[FirstDigit(text) + i - 1]
         /\ Range(Body(text)) = {Body(text)[i] : i \in 1 .. Len(Body(text))}
<1>1. PICK n \in Nat : n = Len(text)
  OBVIOUS
<1>2. CASE At(text, 1, {"-", "+"})
  <2>1. n >= 1 /\ FirstDigit(text) = 2 /\ Body(text) = Tail(text)
    BY <1>1, <1>2 DEF At, FirstDigit, Body
  <2>2. /\ Tail(text) \in Seq(Range(text)) /\ Len(Tail(text)) = n - 1
        /\ \A i \in 1 .. n - 1 : Tail(text)[i] = text[i + 1]
    BY <1>1, <2>1
  <2>3. \A i \in Int : 2 + i - 1 = i + 1
    OBVIOUS
  <2>4. DOMAIN Tail(text) = 1 .. n - 1
    BY <2>2
  <2>5. \A i \in 1 .. n - 1 : Tail(text)[i] = text[2 + i - 1]
    BY <2>2, <2>3
  <2>6. n - 1 \in Nat /\ n - 1 = n - 2 + 1 /\ 2 \in 1 .. n + 1
    BY <2>1
  <2>7. Range(Tail(text)) = {Tail(text)[i] : i \in 1 .. n - 1}
    BY <2>4 DEF Range
  <2> QED
    BY <1>1, <2>1, <2>2, <2>5, <2>7
<1>3. CASE ~At(text, 1, {"-", "+"})
  <2>1. FirstDigit(text) = 1 /\ Body(text) = text
    BY <1>3 DEF FirstDigit, Body
  <2>2. \A i \in Int : 1 + i - 1 = i
    OBVIOUS
  <2>3. DOMAIN text = 1 .. n
    BY <1>1
  <2>4. Len(text) = 0 => text = <<>>
    OBVIOUS
  <2>5. \A i \in 1 .. n : text[1 + i - 1] = text[i]
    BY <2>2
  <2> QED
    BY <1>1, <2>1, <2>3, <2>4, <2>5 DEF Range
<1> QED
  BY <1>2, <1>3

\* A type of the width of which there is a limit
LEMMA LimitFits ==
  ASSUME NEW signed \in BOOLEAN, NEW bits \in Nat \ {0}, NEW negative \in BOOLEAN
  PROVE  LET type == IntegerType(signed, bits) IN
         /\ LimitOf(type, negative) \in Nat /\ LimitOf(type, negative) < 2 ^ type.bits
         /\ 2 ^ type.bits \in Nat /\ type.signed = signed
         /\ Smallest(type) \in Int /\ Largest(type) \in Nat
         /\ LimitOf(type, negative) = IF negative /\ signed THEN -Smallest(type) ELSE Largest(type)
         /\ Smallest(type) <= 0 /\ (~signed => Smallest(type) = 0)
<1>1. PICK half \in Nat \ {0} :
           /\ 2 ^ IntegerType(signed, bits).bits = 2 * half
           /\ IntegerType(signed, bits).signed = signed
           /\ Smallest(IntegerType(signed, bits)) = IF signed THEN -half ELSE 0
           /\ Largest(IntegerType(signed, bits)) = IF signed THEN half - 1 ELSE 2 * half - 1
  BY TypeBounds
<1>2. half - 1 \in Nat /\ 2 * half - 1 \in Nat /\ -(-half) = half /\ half < 2 * half /\ half - 1 < 2 * half
  OBVIOUS
<1>3. LimitOf(IntegerType(signed, bits), negative)
        = IF negative /\ signed THEN -Smallest(IntegerType(signed, bits))
          ELSE Largest(IntegerType(signed, bits))
  BY <1>1 DEF LimitOf
<1>4. PICK low \in Int, high \in Nat, limit \in Nat :
        /\ low = Smallest(IntegerType(signed, bits)) /\ high = Largest(IntegerType(signed, bits))
        /\ limit = LimitOf(IntegerType(signed, bits), negative)
        /\ limit < 2 * half /\ limit = IF negative /\ signed THEN -low ELSE high
        /\ low <= 0 /\ (~signed => low = 0)
  <2>1. CASE signed
    <3>1. /\ Smallest(IntegerType(signed, bits)) = -half
          /\ Largest(IntegerType(signed, bits)) = half - 1
      BY <1>1, <2>1
    <3>2. -half \in Int /\ -half <= 0
      OBVIOUS
    <3>3. negative => LimitOf(IntegerType(signed, bits), negative) = half
      BY <1>2, <1>3, <2>1, <3>1
    <3>4. ~negative => LimitOf(IntegerType(signed, bits), negative) = half - 1
      BY <1>3, <2>1, <3>1
    <3>5. CASE negative
      <4> WITNESS -half \in Int, half - 1 \in Nat, half \in Nat
      <4> QED
        BY <1>2, <2>1, <3>1, <3>2, <3>3, <3>5
    <3>6. CASE ~negative
      <4> WITNESS -half \in Int, half - 1 \in Nat, half - 1 \in Nat
      <4> QED
        BY <1>2, <2>1, <3>1, <3>2, <3>4, <3>6
    <3> QED
      BY <3>5, <3>6
  <2>3. CASE ~signed
    <3>1. /\ Smallest(IntegerType(signed, bits)) = 0
          /\ Largest(IntegerType(signed, bits)) = 2 * half - 1
          /\ LimitOf(IntegerType(signed, bits), negative) = 2 * half - 1
      BY <1>1, <1>3, <2>3
    <3> QED
      BY <1>2, <2>3, <3>1
  <2> QED
    BY <2>1, <2>3
<1>5. 2 * half \in Nat
  OBVIOUS
<1> QED
  BY <1>1, <1>4, <1>5

\* The places of a body in its text
LEMMA Positions ==
  \A n, length, end \in Nat : \A first \in 1 .. 2 : n = length - first + 1 =>
    /\ first <= end /\ end <= length =>
         end - first + 1 \in 1 .. n /\ first + (end - first + 1) - 1 = end
    /\ \A i \in 1 .. n : first + i - 1 \in first .. length
    /\ end <= length + 1 /\ ~(end <= length) => end = length + 1
    /\ end <= length + 1 /\ ~(end - 1 < length) => end = length + 1
    /\ \A e \in first .. length + 1 : e \in Nat /\ first <= e /\ e <= length + 1
    /\ length + 1 - 1 = length
  OBVIOUS

\* A numeral is all digits after its sign.
LEMMA NumeralIsDigits ==
  ASSUME NEW text, text \in Seq(Range(text)), NEW base \in 2 .. 10, IsNumeral(text, base)
  PROVE  LET body == Body(text)
             stop == EndFrom(text, FirstDigit(text), base) - 1
             digits == DigitsUpTo(text, FirstDigit(text), base, stop)
         IN  /\ text # <<>> /\ Len(text) # 0 /\ Len(body) # 0
             /\ AreDigits(body, base)
             /\ stop = Len(text)
             /\ Len(digits) = Len(body) /\ digits # <<>>
             /\ \A i \in 1 .. Len(body) : digits[i] = Rank(Digits, body[i])
<1>1. PICK body : body = Body(text)
  OBVIOUS
<1>2. PICK n \in Nat, length \in Nat, first \in 1 .. 2 :
        n = Len(body) /\ length = Len(text) /\ first = FirstDigit(text) /\ n = length - first + 1
  <2>1. /\ Len(text) \in Nat /\ FirstDigit(text) \in 1 .. 2
        /\ Len(Body(text)) \in Nat /\ Len(Body(text)) = Len(text) - FirstDigit(text) + 1
    BY BodyIs
  <2> QED
    BY <1>1, <2>1
<1>3. /\ length = 0 => body = <<>>
      /\ length # 0 => first \in 1 .. length + 1
      /\ body \in Seq(Range(text))
      /\ \A i \in 1 .. n : body[i] = text[first + i - 1]
      /\ \A i \in 1 .. n : body[i] \in {Digits[k] : k \in 1 .. base}
  <2>1. /\ Len(text) = 0 => Body(text) = <<>>
        /\ Len(text) # 0 => FirstDigit(text) \in 1 .. Len(text) + 1
        /\ Body(text) \in Seq(Range(text))
        /\ \A i \in 1 .. Len(Body(text)) : Body(text)[i] = text[FirstDigit(text) + i - 1]
    BY BodyIs
  <2>2. Range(Body(text)) = {Body(text)[i] : i \in 1 .. Len(Body(text))}
    BY BodyIs
  <2>3. Range(Body(text)) \subseteq {Digits[i] : i \in 1 .. base}
    BY DEF IsNumeral
  <2> QED
    BY <1>1, <1>2, <2>1, <2>2, <2>3
<1>4. length # 0 /\ n # 0 /\ text # <<>>
  <2>1. body # <<>>
    BY <1>1 DEF IsNumeral
  <2>2. body \in Seq(Range(text)) /\ (length = 0 => body = <<>>)
    BY <1>3
  <2>3. \A S : \A x \in Seq(S) : Len(x) = 0 => x = <<>>
    OBVIOUS
  <2>4. Len(body) # 0
    BY <2>1, <2>2, <2>3
  <2>5. Len(<<>>) = 0
    OBVIOUS
  <2> QED
    BY <1>2, <2>1, <2>2, <2>4, <2>5
<1>5. \A i \in 1 .. n : CharValue(body[i], base) < base
  BY <1>3, DigitValue
<1>6. \A i \in 1 .. n : /\ CharValue(body[i], base) \in 0 .. base - 1
                        /\ CharValue(body[i], base) = Rank(Digits, body[i])
  <2> TAKE i \in 1 .. n
  <2>1. PICK v \in 0 .. 10 : v = CharValue(body[i], base)
    BY DigitValue
  <2>2. v < base /\ CharValue(body[i], base) = Rank(Digits, body[i])
    BY <1>5, <2>1, DigitValue
  <2>3. v < base => v \in 0 .. base - 1
    OBVIOUS
  <2> QED
    BY <2>1, <2>2, <2>3
<1>7. AreDigits(body, base)
  BY <1>2, <1>6 DEF AreDigits
<1>8. PICK end \in Nat :
        /\ first <= end /\ end <= length + 1 /\ end = EndFrom(text, FirstDigit(text), base)
        /\ end <= length => ~(CharValue(text[end], base) < base)
  <2>1. Len(text) \in Nat /\ FirstDigit(text) \in 1 .. Len(text) + 1
    BY <1>2, <1>3, <1>4
  <2>2. PICK end : end = EndFrom(text, FirstDigit(text), base)
    OBVIOUS
  <2>3. end \in first .. length + 1 /\ (end <= length => ~(CharValue(text[end], base) < base))
    BY <1>2, <2>1, <2>2, EndFromIs
  <2>4. end \in Nat /\ first <= end /\ end <= length + 1
    BY <1>2, <2>3, Positions
  <2> QED
    BY <2>2, <2>3, <2>4
<1>9. end = length + 1
  <2> SUFFICES ASSUME end <= length PROVE FALSE
    BY <1>2, <1>8, Positions
  <2>1. end - first + 1 \in 1 .. n /\ first + (end - first + 1) - 1 = end
    BY <1>2, <1>8, Positions
  <2>2. body[end - first + 1] = text[end]
    BY <1>3, <2>1
  <2> QED
    BY <1>5, <1>8, <2>1, <2>2
<1>10. end - 1 = length /\ length - first + 1 = n
  BY <1>2, <1>9
<1>11. PICK digits : digits = DigitsUpTo(text, first, base, length)
  OBVIOUS
<1>12. digits = [i \in 1 .. n |-> CharValue(text[first + i - 1], base)]
  BY <1>10, <1>11 DEF DigitsUpTo
<1>13. Len(digits) = n /\ \A i \in 1 .. n : digits[i] = CharValue(text[first + i - 1], base)
  BY <1>12
<1>14. digits # <<>>
  BY <1>4, <1>13
<1>15. \A i \in 1 .. n : digits[i] = Rank(Digits, body[i])
  BY <1>3, <1>6, <1>13
<1>16. EndFrom(text, FirstDigit(text), base) - 1 = length
  BY <1>8, <1>10
<1>17. DigitsUpTo(text, FirstDigit(text), base, EndFrom(text, FirstDigit(text), base) - 1) = digits
  BY <1>2, <1>11, <1>16
<1> QED
  BY <1>1, <1>2, <1>4, <1>7, <1>13, <1>14, <1>15, <1>16, <1>17

\* What is converted without an error is a numeral.
LEMMA OnlyNumeralsAreConverted ==
  ASSUME NEW type, NEW text, text \in Seq(Range(text)), NEW base \in 2 .. 10,
         Converted(type, text, base).err = "no_err"
  PROVE  IsNumeral(text, base)
<1> DEFINE stop == EndFrom(text, FirstDigit(text), base) - 1
           digits == DigitsUpTo(text, FirstDigit(text), base, stop)
<1>1. PICK body : body = Body(text)
  OBVIOUS
<1>2. PICK n \in Nat, length \in Nat, first \in 1 .. 2 :
        n = Len(body) /\ length = Len(text) /\ first = FirstDigit(text) /\ n = length - first + 1
  <2>1. /\ Len(text) \in Nat /\ FirstDigit(text) \in 1 .. 2
        /\ Len(Body(text)) \in Nat /\ Len(Body(text)) = Len(text) - FirstDigit(text) + 1
    BY BodyIs
  <2> QED
    BY <1>1, <2>1
<1>3. text # <<>> /\ ~(stop < Len(text)) /\ digits # <<>>
  <2>1. \A err, ret, consumed : Outcome(err, ret, consumed).err = err
    BY DEF Outcome
  <2> DEFINE value == Wrap(type, IF At(text, 1, {"-"})
                                 THEN -Accumulate(type, LimitOf(type, At(text, 1, {"-"})), base, digits).acc
                                 ELSE Accumulate(type, LimitOf(type, At(text, 1, {"-"})), base, digits).acc)
  <2>2. text = <<>> => Converted(type, text, base) = Outcome("no_digit", Unset, 0)
    BY Zenon DEF Converted
  <2>3. (stop < Len(text) \/ digits = <<>>) =>
          \/ text = <<>>
          \/ Converted(type, text, base) = Outcome("too_small", {Smallest(type)}, stop)
          \/ Converted(type, text, base) = Outcome("too_large", {Largest(type)}, stop)
          \/ Converted(type, text, base) = Outcome("non_digit", {value}, stop)
          \/ Converted(type, text, base) = Outcome("no_digit", Unset, stop)
    BY Zenon DEF Converted
  <2> HIDE DEF stop, digits, value
  <2> QED
    BY <2>1, <2>2, <2>3
<1>4. length # 0 /\ first \in 1 .. length + 1
  <2>1. Len(text) # 0 => FirstDigit(text) \in 1 .. Len(text) + 1
    BY BodyIs
  <2>2. \A S : \A x \in Seq(S) : Len(x) = 0 => x = <<>>
    OBVIOUS
  <2> QED
    BY <1>2, <1>3, <2>1, <2>2
<1>5. PICK end \in Nat :
        /\ first <= end /\ end <= length + 1 /\ end = EndFrom(text, FirstDigit(text), base)
        /\ \A i \in first .. end - 1 : CharValue(text[i], base) \in 0 .. base - 1
  <2>1. Len(text) \in Nat /\ FirstDigit(text) \in 1 .. Len(text) + 1
    BY <1>2, <1>4
  <2>2. PICK end : end = EndFrom(text, FirstDigit(text), base)
    OBVIOUS
  <2>3. /\ end \in first .. length + 1
        /\ \A i \in first .. end - 1 : CharValue(text[i], base) \in 0 .. base - 1
    BY <1>2, <2>1, <2>2, EndFromIs
  <2>4. end \in Nat /\ first <= end /\ end <= length + 1
    BY <1>2, <2>3, Positions
  <2> QED
    BY <2>2, <2>3, <2>4
<1>6. end = length + 1
  <2>1. ~(end - 1 < length)
    BY <1>2, <1>3, <1>5
  <2> QED
    BY <1>2, <1>5, <2>1, Positions
<1>7. n # 0
  <2> SUFFICES ASSUME n = 0 PROVE FALSE
    OBVIOUS
  <2>1. stop - first + 1 = 0
    BY <1>2, <1>5, <1>6
  <2>2. digits = [i \in 1 .. 0 |-> CharValue(text[first + i - 1], base)]
    BY <1>2, <2>1 DEF DigitsUpTo
  <2> QED
    BY <1>3, <2>2
<1>8. \A i \in 1 .. n : body[i] \in {Digits[k] : k \in 1 .. base}
  <2> TAKE i \in 1 .. n
  <2>1. first + i - 1 \in first .. end - 1
    BY <1>2, <1>6, Positions
  <2>2. CharValue(body[i], base) \in 0 .. base - 1
    <3>1. \A k \in 1 .. Len(Body(text)) : Body(text)[k] = text[FirstDigit(text) + k - 1]
      BY BodyIs
    <3> QED
      BY <1>1, <1>2, <1>5, <2>1, <3>1
  <2>3. CharValue(body[i], base) < base
    BY <2>2
  <2> QED
    BY <2>3, DigitValue
<1>9. body # <<>>
  BY <1>2, <1>7
<1>10. Range(body) \subseteq {Digits[k] : k \in 1 .. base}
  <2>1. Range(Body(text)) = {Body(text)[i] : i \in 1 .. Len(Body(text))}
    BY BodyIs
  <2> QED
    BY <1>1, <1>2, <1>8, <2>1
<1> QED
  BY <1>1, <1>9, <1>10, Zenon DEF IsNumeral

\* A prefix is no digit.
LEMMA PrefixIsNoNumeral ==
  ASSUME NEW text, text \in Seq(Range(text)), NEW base \in 2 .. 10, HasBinaryPrefix(text, base)
  PROVE  Range(text) \cap {"b", "B"} # {} /\ ~IsNumeral(text, base)
<1>1. PICK n \in Nat, length \in Nat, first \in 1 .. 2 :
        n = Len(Body(text)) /\ length = Len(text) /\ first = FirstDigit(text) /\ n = length - first + 1
  BY BodyIs
<1>2. first + 1 <= length /\ text[first + 1] \in {"b", "B"}
  BY <1>1 DEF HasBinaryPrefix, At
<1>3. first + 1 \in 1 .. length /\ 2 \in 1 .. n /\ first + 2 - 1 = first + 1
  BY <1>1, <1>2
<1>4. text[first + 1] \in Range(text)
  <2>1. DOMAIN text = 1 .. length
    BY <1>1
  <2> QED
    BY <1>3, <2>1 DEF Range
<1>5. Body(text)[2] = text[first + 1] /\ Body(text)[2] \in Range(Body(text))
  <2>1. \A i \in 1 .. Len(Body(text)) : Body(text)[i] = text[FirstDigit(text) + i - 1]
    BY BodyIs
  <2>2. Range(Body(text)) = {Body(text)[i] : i \in 1 .. Len(Body(text))}
    BY BodyIs
  <2> QED
    BY <1>1, <1>3, <2>1, <2>2
<1>6. \A i \in 1 .. base : i \in 1 .. 10
  OBVIOUS
<1>7. \A i \in 1 .. 10 : Digits[i] \notin {"b", "B"}
  BY DEF Digits
<1>8. Range(Body(text)) \subseteq {Digits[i] : i \in 1 .. base} => FALSE
  BY <1>2, <1>5, <1>6, <1>7
<1> QED
  BY <1>2, <1>4, <1>8 DEF IsNumeral

\* What NumbersAreExact says of one type and one base
ConvertedExactly(text, base, signed, bits) ==
  LET type == IntegerType(signed, bits)
      outcome == Strnto(type, text, base, NoBound, NoBound)
      value == NumeralValue(text, base)
  IN  IF ~IsNumeral(text, base)
      THEN outcome.err = "no_err" => base = 2 /\ Range(text) \cap {"b", "B"} # {}
      ELSE IF value \in Smallest(type) .. Largest(type)
      THEN outcome = Outcome("no_err", {value}, Len(text))
      ELSE IF signed
      THEN outcome = IF value < 0 THEN Outcome("too_small", {Smallest(type)}, Len(text))
                     ELSE Outcome("too_large", {Largest(type)}, Len(text))
      ELSE outcome.err = IF value \in -Largest(type) .. 0 THEN "no_err" ELSE "too_large"

\* The outcome for a numeral depends on its magnitude and its sign.
LEMMA NumeralOutcome ==
  ASSUME NEW text, text \in Seq(Range(text)), NEW base \in {2, 8, 10}, IsNumeral(text, base),
         NEW signed \in BOOLEAN, NEW bits \in Nat \ {0}
  PROVE  LET type == IntegerType(signed, bits)
             negative == At(text, 1, {"-"})
             magnitude == Magnitude(Body(text), base)
         IN  /\ magnitude \in Nat
             /\ Strnto(type, text, base, NoBound, NoBound) =
                  IF magnitude > LimitOf(type, negative)
                  THEN IF negative /\ signed THEN Outcome("too_small", {Smallest(type)}, Len(text))
                       ELSE Outcome("too_large", {Largest(type)}, Len(text))
                  ELSE Outcome("no_err", {Wrap(type, IF negative THEN -magnitude ELSE magnitude)}, Len(text))
<1> DEFINE type == IntegerType(signed, bits)
           negative == At(text, 1, {"-"})
           stop == EndFrom(text, FirstDigit(text), base) - 1
           digits == DigitsUpTo(text, FirstDigit(text), base, stop)
           sum == Accumulate(type, LimitOf(type, negative), base, digits)
           magnitude == Magnitude(Body(text), base)
<1>1. base \in 2 .. 10 /\ base \in 2 .. 36
  OBVIOUS
<1>2. ~HasBinaryPrefix(text, base)
  BY <1>1, PrefixIsNoNumeral
<1>3. Strnto(type, text, base, NoBound, NoBound) = Converted(type, text, base)
  BY <1>2, StrntoConverts
<1>4. /\ text # <<>> /\ AreDigits(Body(text), base)
      /\ stop = Len(text)
      /\ Len(digits) = Len(Body(text)) /\ digits # <<>>
      /\ \A i \in 1 .. Len(Body(text)) : digits[i] = Rank(Digits, Body(text)[i])
  BY <1>1, NumeralIsDigits
<1>5. negative \in BOOLEAN /\ Len(text) \in Nat /\ Len(Body(text)) \in Nat
  BY BodyIs DEF At
<1>6. /\ LimitOf(type, negative) \in Nat /\ LimitOf(type, negative) < 2 ^ type.bits
      /\ 2 ^ type.bits \in Nat /\ type.signed = signed
  BY <1>5, LimitFits
<1> HIDE DEF type, negative, stop, digits
<1>7. /\ magnitude \in Nat
      /\ sum.overflow <=> magnitude > LimitOf(type, negative)
      /\ ~sum.overflow => sum.acc = magnitude
  BY <1>1, <1>4, <1>5, <1>6, AccumulateIsMagnitude
<1> DEFINE value == Wrap(type, IF negative THEN -sum.acc ELSE sum.acc)
<1>8. ~(stop < Len(text))
  BY <1>4, <1>5
<1>9. Converted(type, text, base) =
        IF sum.overflow
        THEN IF negative /\ signed THEN Outcome("too_small", {Smallest(type)}, Len(text))
             ELSE Outcome("too_large", {Largest(type)}, Len(text))
        ELSE Outcome("no_err", {value}, Len(text))
  BY <1>4, <1>6, <1>8, Zenon DEF Converted, negative, stop, digits
<1> HIDE DEF sum, magnitude
<1>10. ~sum.overflow => value = Wrap(type, IF negative THEN -magnitude ELSE magnitude)
  BY <1>7, Zenon
<1> HIDE DEF value
<1>11. /\ magnitude \in Nat
       /\ Strnto(type, text, base, NoBound, NoBound) =
            IF magnitude > LimitOf(type, negative)
            THEN IF negative /\ signed THEN Outcome("too_small", {Smallest(type)}, Len(text))
                 ELSE Outcome("too_large", {Largest(type)}, Len(text))
            ELSE Outcome("no_err", {Wrap(type, IF negative THEN -magnitude ELSE magnitude)}, Len(text))
  BY <1>3, <1>7, <1>9, <1>10, Zenon
<1> QED
  BY <1>11, Zenon DEF type, negative, magnitude

\* A text is converted into exactly the number it writes, or refused.
LEMMA ConvertsExactly ==
  ASSUME NEW text, text \in Seq(Range(text)), NEW base \in {2, 8, 10},
         NEW signed \in BOOLEAN, NEW bits \in Nat \ {0}
  PROVE  ConvertedExactly(text, base, signed, bits)
<1> DEFINE type == IntegerType(signed, bits)
           negative == At(text, 1, {"-"})
           outcome == Strnto(type, text, base, NoBound, NoBound)
<1>1. base \in 2 .. 10
  OBVIOUS
<1>2. CASE ~IsNumeral(text, base)
  <2>1. outcome.err = "no_err" => base = 2 /\ Range(text) \cap {"b", "B"} # {}
    <3> SUFFICES ASSUME outcome.err = "no_err" PROVE base = 2 /\ Range(text) \cap {"b", "B"} # {}
      OBVIOUS
    <3>1. HasBinaryPrefix(text, base)
      <4> SUFFICES ASSUME ~HasBinaryPrefix(text, base) PROVE FALSE
        OBVIOUS
      <4>1. outcome = Converted(type, text, base)
        BY StrntoConverts
      <4>2. Converted(type, text, base).err = "no_err"
        BY <4>1
      <4> HIDE DEF type, outcome
      <4>3. IsNumeral(text, base)
        BY <1>1, <4>2, OnlyNumeralsAreConverted
      <4> QED
        BY <1>2, <4>3
    <3>2. Range(text) \cap {"b", "B"} # {}
      BY <1>1, <3>1, PrefixIsNoNumeral
    <3>3. base = 2
      BY <3>1 DEF HasBinaryPrefix
    <3> QED
      BY <3>2, <3>3
  <2> QED
    BY <1>2, <2>1, Zenon DEF ConvertedExactly
<1>3. CASE IsNumeral(text, base)
  <2>1. PICK m \in Nat : m = Magnitude(Body(text), base)
    BY <1>3, NumeralOutcome
  <2>2. outcome = IF m > LimitOf(type, negative)
                  THEN IF negative /\ signed THEN Outcome("too_small", {Smallest(type)}, Len(text))
                       ELSE Outcome("too_large", {Largest(type)}, Len(text))
                  ELSE Outcome("no_err", {Wrap(type, IF negative THEN -m ELSE m)}, Len(text))
    BY <1>3, <2>1, NumeralOutcome, Zenon
  <2>3. NumeralValue(text, base) = IF negative THEN -m ELSE m
    BY <2>1, NumeralValueIs
  <2>4. negative \in BOOLEAN
    BY DEF At
  <2>5. PICK low \in Int, high \in Nat, limit \in Nat :
          /\ low = Smallest(type) /\ high = Largest(type) /\ limit = LimitOf(type, negative)
          /\ negative /\ signed => limit = -low
          /\ ~(negative /\ signed) => limit = high
          /\ low <= 0 /\ (~signed => low = 0)
    BY <2>4, LimitFits
  <2>6. PICK value \in Int : value = NumeralValue(text, base) /\ value = IF negative THEN -m ELSE m
    BY <2>3
  <2>7. value \in low .. high => Wrap(type, value) = value
    BY <2>5, WrapKeeps
  <2> HIDE DEF type, negative, outcome
  <2>8. /\ m > limit /\ negative /\ signed => outcome = Outcome("too_small", {low}, Len(text))
        /\ m > limit /\ ~(negative /\ signed) => outcome = Outcome("too_large", {high}, Len(text))
        /\ ~(m > limit) => outcome = Outcome("no_err", {Wrap(type, value)}, Len(text))
    BY <2>2, <2>5, <2>6, Zenon
  <2>9. CASE value \in low .. high
    <3>1. ~(m > limit)
      BY <2>5, <2>6, <2>9
    <3>2. outcome = Outcome("no_err", {value}, Len(text))
      BY <2>7, <2>8, <2>9, <3>1
    <3> QED
      BY <1>3, <2>5, <2>6, <2>9, <3>2 DEF ConvertedExactly, outcome, type
  <2>10. CASE value \notin low .. high /\ signed
    <3>1. m > limit /\ (value < 0 <=> negative)
      <4>1. CASE negative
        <5>1. value = -m /\ limit = -low
          BY <2>5, <2>6, <2>10, <4>1
        <5>2. value < low
          BY <2>5, <2>10, <5>1
        <5>3. m > limit /\ value < 0
          BY <2>5, <5>1, <5>2
        <5> QED
          BY <4>1, <5>3, Zenon
      <4>2. CASE ~negative
        <5>1. value = m /\ limit = high
          BY <2>5, <2>6, <2>10, <4>2
        <5> QED
          BY <2>5, <2>10, <4>2, <5>1
      <4> QED
        BY <4>1, <4>2
    <3>2. outcome = IF value < 0 THEN Outcome("too_small", {low}, Len(text))
                    ELSE Outcome("too_large", {high}, Len(text))
      BY <2>8, <2>10, <3>1, Zenon
    <3> QED
      BY <1>3, <2>5, <2>6, <2>10, <3>2, Zenon DEF ConvertedExactly, outcome, type
  <2>11. CASE value \notin low .. high /\ ~signed
    <3>1. limit = high /\ low = 0
      BY <2>5, <2>11
    <3>2. m > limit <=> value \notin -high .. 0
      <4>1. CASE negative
        BY <2>6, <2>11, <3>1, <4>1
      <4>2. CASE ~negative
        <5>1. value = m
          BY <2>6, <4>2
        <5> QED
          BY <2>11, <3>1, <5>1
      <4> QED
        BY <4>1, <4>2
    <3>3. \A err, ret, consumed : Outcome(err, ret, consumed).err = err
      BY DEF Outcome
    <3>4. /\ m > limit => outcome.err = "too_large"
          /\ ~(m > limit) => outcome.err = "no_err"
      BY <2>8, <2>11, <3>3
    <3>5. outcome.err = IF value \in -high .. 0 THEN "no_err" ELSE "too_large"
      BY <3>2, <3>4, Zenon
    <3> QED
      BY <1>3, <2>5, <2>6, <2>11, <3>5, Zenon DEF ConvertedExactly, outcome, type
  <2> QED
    BY <2>9, <2>10, <2>11
<1> QED
  BY <1>2, <1>3

\* The argument of -n is a text.
ReadInv == last # <<>> /\ last[1] = "limit" => last[2] \in Seq(Range(last[2]))

\* The argument of pkg history -n, and any other text it could be given, is converted
\* into exactly the number it writes, or refused: no digit is lost, and what does not fit
\* is reported with the bound it exceeds (strtointN_t, strtouintN_t).  For every text, in
\* bases 2, 8 and 10, and for every int of at least two bits.
THEOREM NumbersAreConvertedExactly == QuerySpec => []NumbersAreExact
<1>1. QueryInit => ReadInv
  BY DEF QueryInit, ReadInv
<1>2. options \in Nat /\ ReadInv /\ [QueryNext]_queryVars => ReadInv'
  <2> SUFFICES ASSUME options \in Nat, ReadInv, [QueryNext]_queryVars PROVE ReadInv'
    OBVIOUS
  <2>1. CASE UNCHANGED last
    BY <2>1 DEF ReadInv
  <2>2. CASE Flag \/ Period
    <3>1. PICK option, argument : option # "limit" /\ last' = <<option, argument>>
      BY <2>2 DEF Flag, Period, ReadOption, Operations
    <3> QED
      BY <3>1 DEF ReadInv
  <2>3. CASE LimitOption
    <3>1. PICK text \in NumberTexts[options + 1] : ReadOption("limit", text)
      BY <2>3 DEF LimitOption
    <3>2. options + 1 \in 1 .. MaxOptions
      BY <2>3, MaxOptionsAssumption DEF LimitOption
    <3>3. text \in Seq(Range(text))
      BY <3>1, <3>2, NumberTextsAssumption
    <3>4. last' = <<"limit", text>>
      BY <3>1 DEF ReadOption
    <3>5. last'[2] = text
      BY <3>4
    <3> QED
      BY <3>3, <3>5 DEF ReadInv
  <2>4. CASE \/ EndOfOptions \/ ShowsNothing \/ ExecuteStatement \/ DisplayHistoryFull
             \/ DisplayHistorySearch \/ EndOfRows \/ StepFails \/ UNCHANGED queryVars
    <3>1. UNCHANGED last
      BY <2>4 DEF EndOfOptions, ShowsNothing, ExecuteStatement, DisplayHistoryFull, DisplayHistorySearch,
                  EndOfRows, StepFails, queryVars
    <3> QED
      BY <2>1, <3>1
  <2> QED
    BY <2>2, <2>3, <2>4 DEF QueryNext
<1>3. QueryInv => options \in Nat
  BY DEF QueryInv, QueryTypeOK
<1>4. ReadInv => NumbersAreExact
  <2> SUFFICES ASSUME ReadInv, last # <<>> /\ last[1] = "limit",
                      NEW base \in {2, 8, 10}, NEW signed \in BOOLEAN, NEW bits \in {3, 4, IntBits}
               PROVE  ConvertedExactly(last[2], base, signed, bits)
    BY Zenon DEF NumbersAreExact, ConvertedExactly
  <2>1. bits \in Nat \ {0}
    BY IntBitsAssumption
  <2>2. last[2] \in Seq(Range(last[2]))
    BY DEF ReadInv
  <2> QED
    BY <2>1, <2>2, ConvertsExactly
<1> QED
  BY <1>1, <1>2, <1>3, <1>4, QueryIsConsistent, PTL DEF QuerySpec
=============================================================================

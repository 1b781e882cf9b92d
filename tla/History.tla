------------------------------- MODULE History -------------------------------
(***************************************************************************)
(* The history plugin (plugins/history/plugin_history.c): pkg commands     *)
(* that record themselves from their POST hook, one after the other since  *)
(* libpkg still holds its lock, and pkg history processes that read, the   *)
(* first of which, run by root, may create the database.                   *)
(*                                                                         *)
(* A writer is one run of pkg and stands for its command line.  It leaves  *)
(* its connection open, with its locks, till it ends: the statements of    *)
(* the plugin are never finalized and sqlite3_close refuses.               *)
(***************************************************************************)
EXTENDS Sqlite

CONSTANTS Writers,  \* the pkg commands
          Readers,  \* the pkg history processes
          Root,     \* those run by root
          Jobs,     \* the number of packages of each command
          Faults    \* may a call fail for no modelled reason?

ASSUME ProcsAssumption == Procs = Writers \cup Readers /\ Writers \cap Readers = {}
ASSUME RootAssumption == Writers \subseteq Root /\ Root \subseteq Procs
ASSUME JobsAssumption == Jobs \in [Writers -> Nat \ {0}]
ASSUME FaultsAssumption == Faults \in BOOLEAN

VARIABLES
  commands,  \* history_commands: the writers, by id
  lines,     \* history_lines: <<command_id, writer, package>>
  pc,
  at,        \* the statement of the schema, or the package, p is at
  made,      \* did the INSERT of the command succeed?
  id,        \* the last row id of the connection, then command_id
  added,     \* the lines of the transaction
  error,     \* is *error set?
  status,    \* what the hook returned
  excused    \* (history) did something disturb the hook?

tableVars == <<commands, lines>>
recordVars == <<at, made, id, added>>
resultVars == <<error, status, excused>>
historyVars == <<sqliteVars, tableVars, pc, recordVars, resultVars>>

\* What db_open creates, in order; the three rows of history_operations are one
\* statement here, and so are the indexes of history_lines.
Script == <<"commands", "commands_index", "operations", "operations_rows",
            "lines", "lines_indexes">>
Tables == {"commands", "operations", "lines"}

\* The statement after the last of a group looks at the next table.
NextTable(n) == IF n <= 2 THEN 3 ELSE IF n <= 4 THEN 5 ELSE 7

\* The last row id of a connection that made the rows of history_operations
LastOperation == 4

Mode(p) == IF p \in Writers THEN "write" ELSE "read"

InHook == {"open", "check", "create", "exec", "version", "setversion", "prepare",
           "command", "line", "commit", "committing"}
Places == InHook \cup {"idle", "query", "reading", "leaving", "over"}
Active == {p \in Procs : pc[p] \notin {"idle", "over"}}

HistoryInit ==
  /\ SqliteInit
  /\ commands = <<>> /\ lines = {}
  /\ pc = [p \in Procs |-> "idle"]
  /\ at = [p \in Procs |-> 1]
  /\ made = [p \in Writers |-> FALSE]
  /\ id = [p \in Procs |-> 0]
  /\ added = [p \in Writers |-> {}]
  /\ error = [p \in Procs |-> FALSE]
  /\ status = [p \in Procs |-> "none"]
  /\ excused = [p \in Writers |-> FALSE]

Goto(p, place) == pc' = [pc EXCEPT ![p] = place]

-----------------------------------------------------------------------------
(* How a process ends *)

\* What p knew of its record is of no use any more.
Forget(p) ==
  /\ at' = [at EXCEPT ![p] = 1]
  /\ id' = [id EXCEPT ![p] = 0]
  /\ error' = [error EXCEPT ![p] = FALSE]
  /\ made' = [w \in Writers |-> made[w] /\ w # p]
  /\ added' = [w \in Writers |-> IF w = p THEN {} ELSE added[w]]

Failing(p) ==
  /\ Goto(p, "leaving")
  /\ Forget(p)
  /\ status' = [status EXCEPT ![p] = "fatal"]
  /\ UNCHANGED tableVars

\* The error is set and printed, the hook returns EPKG_FATAL.
Fail(p) == Failing(p) /\ UNCHANGED excused

\* A call fails for no modelled reason.
Fault(p) ==
  /\ Faults
  /\ Failing(p)
  /\ excused' = [excused EXCEPT ![p] = TRUE]
  /\ UNCHANGED sqliteVars

\* The process is gone, with all it held.
End(p, how) ==
  /\ Goto(p, "over")
  /\ status' = [status EXCEPT ![p] = how]
  /\ LetGo(p)
  /\ Forget(p)
  /\ UNCHANGED <<exists, schema, tableVars, excused>>

\* _error_set on an error that is set frees the variable of the caller.
SecondError(p) == error[p] /\ End(p, "died")

Exit(p) ==
  /\ pc[p] = "leaving"
  /\ End(p, status[p])

\* p is killed, or the machine stops.
Crash(p) ==
  /\ p \in Active /\ pc[p] # "leaving"
  /\ End(p, "killed")

-----------------------------------------------------------------------------
(* db_open *)

\* The POST hook of a command runs under the lock of pkg; pkg history takes
\* no lock.
Start(p) ==
  /\ pc[p] = "idle"
  /\ p \in Writers => \A w \in Writers : pc[w] \notin InHook
  /\ Goto(p, "open")
  /\ excused' = [w \in Writers |-> excused[w] \/ (w = p /\ Active # {}) \/ w \in Active]
  /\ UNCHANGED <<sqliteVars, tableVars, recordVars, error, status>>

Open(p) ==
  /\ pc[p] = "open"
  /\ SqliteOpen(p, p \in Root, Mode(p))
  /\ Goto(p, "check")
  /\ UNCHANGED <<tableVars, recordVars, resultVars>>

OpenFails(p) ==
  /\ pc[p] = "open"
  /\ SqliteOpenFails(p, p \in Root, Mode(p))
  /\ Fail(p)

\* What follows the creation of the tables
AfterTables(p) == IF p \in Writers THEN "version" ELSE "prepare"

Proceed(p, n) ==
  /\ at' = [at EXCEPT ![p] = n]
  /\ Goto(p, IF n = 7 THEN AfterTables(p) ELSE "check")

\* Mutant of SkipTable: a table that is there is taken for a missing one.
CreateAnyway(p) ==
  /\ pc[p] = "check"
  /\ TableFound(p, Script[at[p]])
  /\ Goto(p, "create")
  /\ UNCHANGED <<tableVars, recordVars, resultVars>>

\* SQLITE_ROW: there are no migrations.
SkipTable(p) ==
  /\ pc[p] = "check"
  /\ TableFound(p, Script[at[p]])
  /\ Proceed(p, NextTable(at[p]))
  /\ UNCHANGED <<tableVars, made, id, added, resultVars>>

CreateTable(p) ==
  /\ pc[p] = "check"
  /\ TableMissing(p, Script[at[p]])
  /\ Goto(p, "create")
  /\ UNCHANGED <<tableVars, recordVars, resultVars>>

\* The first table_info loads the schema: it is its preparation that fails, and
\* the error message is an uninitialized pointer.  Later only a step fails,
\* which leaves ret at SQLITE_OK.
TableUnknown(p) ==
  /\ pc[p] = "check"
  /\ \/ /\ at[p] = 1
        /\ ~Readable(p)
        /\ End(p, "died") \/ (Fail(p) /\ UNCHANGED sqliteVars)
     \/ /\ at[p] # 1
        /\ TableInfoFails(p)
        /\ Proceed(p, NextTable(at[p]))
        /\ UNCHANGED <<tableVars, made, id, added, resultVars>>

CreateStarts(p) ==
  /\ pc[p] = "create"
  /\ ExecStarts(p, Script[at[p]])
  /\ Goto(p, "exec")
  /\ UNCHANGED <<tableVars, recordVars, resultVars>>

\* Mutant of CreateRefused: the statement is tried until it is accepted.
CreateRefusedRetries(p) ==
  /\ pc[p] = "create"
  /\ ExecRefused(p, Script[at[p]])
  /\ UNCHANGED <<tableVars, pc, recordVars, resultVars>>

CreateRefused(p) ==
  /\ pc[p] = "create"
  /\ ExecRefused(p, Script[at[p]])
  /\ Fail(p)

\* The statement is over; those of its group follow.
Create(p) ==
  LET n == at[p] + 1 IN
  /\ pc[p] = "exec"
  /\ ExecDone(p, Script[at[p]])
  /\ IF n = NextTable(at[p])
     THEN Proceed(p, n)
     ELSE Goto(p, "create") /\ at' = [at EXCEPT ![p] = n]
  /\ id' = IF Script[at[p]] = "operations_rows"
           THEN [id EXCEPT ![p] = LastOperation] ELSE id
  /\ UNCHANGED <<tableVars, made, added, resultVars>>

CreateFails(p) ==
  /\ pc[p] = "exec"
  /\ ExecFails(p)
  /\ Fail(p)

\* sqlite_set_user_version
SetVersionStarts(p) ==
  /\ pc[p] = "version"
  /\ ExecStarts(p, "version")
  /\ Goto(p, "setversion")
  /\ UNCHANGED <<tableVars, recordVars, resultVars>>

SetVersionRefused(p) ==
  /\ pc[p] = "version"
  /\ ExecRefused(p, "version")
  /\ Fail(p)

\* Setting it again is a write like the first one: "version" is never found.
SetVersion(p) ==
  /\ pc[p] = "setversion"
  /\ Unlock
  /\ Goto(p, "prepare")
  /\ UNCHANGED <<exists, schema, hot, shared, writable, tableVars, recordVars,
                 resultVars>>

\* sqlite_stmt_prepare; what p knows of the schema may be out of date.
Prepare(p) ==
  /\ pc[p] = "prepare"
  /\ Tables \subseteq schema
  /\ Goto(p, IF p \in Writers THEN "command" ELSE "query")
  /\ UNCHANGED <<sqliteVars, tableVars, recordVars, resultVars>>

PrepareFails(p) ==
  /\ pc[p] = "prepare"
  /\ ~(Tables \subseteq schema) \/ ~Readable(p)
  /\ Fail(p)
  /\ UNCHANGED sqliteVars

-----------------------------------------------------------------------------
(* handle_hooks *)

\* get_pkg_cmd_line or argv_join fails.
CommandLineFails(p) == pc[p] = "command" /\ Fault(p)

\* BEGIN takes no lock: the INSERT of the command is the first to ask for one.
CreateCommand(p) ==
  /\ pc[p] = "command"
  /\ Reserve(p)
  /\ made' = [made EXCEPT ![p] = TRUE]
  /\ id' = [id EXCEPT ![p] = Len(commands) + 1]
  /\ at' = [at EXCEPT ![p] = 1]
  /\ Goto(p, "line")
  /\ UNCHANGED <<exists, schema, shared, writable, tableVars, added, resultVars>>

\* Nobody looks at what the INSERT returns, whether it was refused the lock or failed
\* without it, or with it: the lines get the id of the last row the connection
\* inserted, if any.
CreateCommandIgnored(p) ==
  /\ pc[p] = "command"
  /\ \/ ~Reservable(p) /\ UNCHANGED <<sqliteVars, excused>>
     \/ /\ Faults
        /\ \/ UNCHANGED sqliteVars
           \/ Reserve(p) /\ UNCHANGED <<exists, schema, shared, writable>>
        /\ excused' = [excused EXCEPT ![p] = TRUE]
  /\ error' = [error EXCEPT ![p] = TRUE]
  /\ at' = [at EXCEPT ![p] = 1]
  /\ Goto(p, "line")
  /\ UNCHANGED <<tableVars, made, id, added, status>>

\* Mutant of CreateLine: a line that cannot be inserted is passed over.
CreateLineOrNot(p) ==
  /\ pc[p] = "line"
  /\ \/ writer = p /\ UNCHANGED <<writer, level, hot>>
     \/ Reserve(p)
  /\ \/ added' = [added EXCEPT ![p] = @ \cup {at[p]}]
     \/ Faults /\ UNCHANGED added
  /\ at' = [at EXCEPT ![p] = @ + 1]
  /\ Goto(p, IF at[p] = Jobs[p] THEN "commit" ELSE "line")
  /\ UNCHANGED <<exists, schema, shared, writable, tableVars, made, id, resultVars>>

CreateLine(p) ==
  /\ pc[p] = "line"
  /\ \/ writer = p /\ UNCHANGED <<writer, level, hot>>
     \/ Reserve(p)
  /\ added' = [added EXCEPT ![p] = @ \cup {at[p]}]
  /\ at' = [at EXCEPT ![p] = @ + 1]
  /\ Goto(p, IF at[p] = Jobs[p] THEN "commit" ELSE "line")
  /\ UNCHANGED <<exists, schema, shared, writable, tableVars, made, id, resultVars>>

\* The transaction is left as it is.
CreateLineFails(p) ==
  LET busy == writer # p /\ ~Reservable(p) IN
  /\ pc[p] = "line"
  /\ \/ busy /\ Fail(p) /\ UNCHANGED sqliteVars
     \/ Fault(p)
     \/ (busy \/ Faults) /\ SecondError(p)

CommitStarts(p) ==
  /\ pc[p] = "commit"
  /\ shared = {}
  /\ level' = "exclusive"
  /\ Goto(p, "committing")
  /\ UNCHANGED <<exists, schema, hot, shared, writer, writable, tableVars,
                 recordVars, resultVars>>

\* Mutant of CommitBusy: the result of COMMIT is not looked at.
CommitBusyUnnoticed(p) ==
  /\ pc[p] = "commit"
  /\ shared # {}
  /\ level' = "pending"
  /\ status' = [status EXCEPT ![p] = "ok"]
  /\ Goto(p, "leaving")
  /\ Forget(p)
  /\ UNCHANGED <<exists, schema, hot, shared, writer, writable, tableVars, excused>>

\* Somebody reads: SQLITE_BUSY, and new readers are kept out from now on.
CommitBusy(p) ==
  /\ pc[p] = "commit"
  /\ shared # {}
  /\ \/ /\ level' = "pending"
        /\ UNCHANGED <<exists, schema, hot, shared, writer, writable>>
        /\ Fail(p)
     \/ SecondError(p)

Commit(p) ==
  /\ pc[p] = "committing"
  /\ commands' = IF made[p] THEN Append(commands, p) ELSE commands
  /\ lines' = lines \cup {<<id[p], p, i>> : i \in added[p]}
  /\ Unlock
  /\ status' = [status EXCEPT ![p] = "ok"]
  /\ Goto(p, "leaving")
  /\ Forget(p)
  /\ UNCHANGED <<exists, schema, hot, shared, writable, excused>>

-----------------------------------------------------------------------------
(* pkg_history_main: the lock lasts as long as the rows are read, and printed *)

Query(p) ==
  /\ pc[p] = "query"
  /\ Readable(p)
  /\ shared' = shared \cup {p}
  /\ hot' = FALSE
  /\ Goto(p, "reading")
  /\ UNCHANGED <<exists, schema, writer, level, writable, tableVars, recordVars,
                 resultVars>>

\* "nothing to show"
QueryFails(p) ==
  /\ pc[p] = "query"
  /\ ~Readable(p)
  /\ Goto(p, "leaving")
  /\ UNCHANGED <<sqliteVars, tableVars, recordVars, resultVars>>

QueryEnds(p) ==
  /\ pc[p] = "reading"
  /\ shared' = shared \ {p}
  /\ Goto(p, "leaving")
  /\ UNCHANGED <<exists, schema, hot, writer, level, writable, tableVars,
                 recordVars, resultVars>>

-----------------------------------------------------------------------------
DbOpen(p) ==
  \/ Open(p) \/ OpenFails(p)
  \/ SkipTable(p) \/ CreateTable(p) \/ TableUnknown(p)
  \/ CreateStarts(p) \/ CreateRefused(p) \/ Create(p) \/ CreateFails(p)
  \/ SetVersionStarts(p) \/ SetVersionRefused(p) \/ SetVersion(p)
  \/ Prepare(p) \/ PrepareFails(p)

HandleHooks(w) ==
  \/ DbOpen(w)
  \/ CommandLineFails(w) \/ CreateCommand(w) \/ CreateCommandIgnored(w)
  \/ CreateLine(w) \/ CreateLineFails(w)
  \/ CommitStarts(w) \/ CommitBusy(w) \/ Commit(w)

PkgHistoryMain(r) == DbOpen(r) \/ Query(r) \/ QueryFails(r) \/ QueryEnds(r)

HistoryNext ==
  \/ \E p \in Procs : Start(p) \/ Exit(p) \/ Crash(p)
  \/ \E w \in Writers : HandleHooks(w)
  \/ \E r \in Readers : PkgHistoryMain(r)

HistorySpec ==
  HistoryInit /\ [][HistoryNext]_historyVars
    /\ \A w \in Writers : WF_historyVars(HandleHooks(w))

-----------------------------------------------------------------------------
(* Properties *)

LinesOf(w) == {l \in lines : l[2] = w}
AllLines(w, command) == {<<command, w, i>> : i \in 1 .. Jobs[w]}

\* A command is in history_commands with all of its packages under its id, once,
\* or with none of them, whatever failed and whoever was killed.
WholeOrAbsent ==
  /\ \A i \in DOMAIN commands : LinesOf(commands[i]) = AllLines(commands[i], i)
  /\ \A w \in Writers : LinesOf(w) # {} => \E l \in LinesOf(w) : LinesOf(w) = AllLines(w, l[1])

\* What the hook returns tells whether the packages were recorded: after
\* EPKG_OK they are, and after a failure or a crash they are not, even once the
\* journal has been played back.
ReturnsWhatItRecorded ==
  \A w \in Writers :
    /\ status[w] = "ok" => Cardinality(LinesOf(w)) = Jobs[w]
    /\ status[w] \in {"fatal", "died", "killed"} => LinesOf(w) = {}

\* A command whose hook no other process disturbed and for which no call failed
\* is recorded, whatever the crashes before it left of the schema and of the
\* journal.
RecordedWhenAlone ==
  \A w \in Writers : status[w] \in {"fatal", "died"} => excused[w]

\* The hook ends, even if a reader never does: nobody waits for a lock.
HookEnds == \A w \in Writers : (pc[w] \in InHook) ~> (pc[w] \notin InHook)

-----------------------------------------------------------------------------
(* What the schema says *)

\* "command_id INT NOT NULL REFERENCES history_commands(id)"
ReferencesHold == \A l \in lines : l[1] \in DOMAIN commands /\ commands[l[1]] = l[2]
=============================================================================

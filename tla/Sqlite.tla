------------------------------- MODULE Sqlite -------------------------------
(***************************************************************************)
(* A database of SQLite shared by several processes, as sqlite/sqlite.c    *)
(* uses it: opened without a busy timeout, in the mode of the rollback     *)
(* journal.  The locks and the journal are SQLite's, the rest is the       *)
(* wrapper's.                                                              *)
(***************************************************************************)
EXTENDS Integers, Sequences, FiniteSets

CONSTANTS Procs,   \* the processes that open the database
          Nobody   \* not one of them

ASSUME NobodyAssumption == Nobody \notin Procs

VARIABLES
  exists,    \* is there a file?
  schema,    \* what was created in it
  hot,       \* did a process die while it was writing to the file?
  shared,    \* the processes that hold a SHARED lock
  writer,    \* the one that holds a stronger lock, or Nobody
  level,     \* which: "reserved", "pending" or "exclusive" ("none")
  writable   \* the processes that opened the file to write to it

lockVars == <<shared, writer, level>>
sqliteVars == <<exists, schema, hot, lockVars, writable>>

SqliteInit ==
  /\ exists = FALSE
  /\ schema = {}
  /\ hot = FALSE
  /\ shared = {} /\ writer = Nobody /\ level = "none"
  /\ writable = {}

-----------------------------------------------------------------------------
(* The locks *)

\* May p read?  What a dead writer left is undone first, for which one has to
\* be able to write and to be alone.
ReadableBy(p, writing) ==
  /\ writer = Nobody \/ level = "reserved"
  /\ hot => writing /\ shared = {}

Readable(p) == ReadableBy(p, p \in writable)

Reservable(p) == p \in writable /\ writer = Nobody /\ Readable(p)

Reserve(p) ==
  /\ Reservable(p)
  /\ writer' = p /\ level' = "reserved"
  /\ hot' = FALSE

\* Alone with the database.
Exclude(p) ==
  /\ Reservable(p)
  /\ shared = {}
  /\ writer' = p /\ level' = "exclusive"
  /\ hot' = FALSE

Unlock ==
  /\ writer' = Nobody
  /\ level' = "none"

\* What becomes of the locks when the process is gone: only a journal that was
\* being applied is hot.
LetGo(p) ==
  /\ shared' = shared \ {p}
  /\ writable' = writable \ {p}
  /\ IF writer = p
     THEN Unlock /\ hot' = (hot \/ level = "exclusive")
     ELSE UNCHANGED <<writer, level, hot>>

-----------------------------------------------------------------------------
(* sqlite_open *)

OpensToWrite(asRoot, mode) == asRoot /\ (~exists \/ mode = "write")

\* Success ends with the user_version read.
SqliteOpen(p, asRoot, mode) ==
  /\ exists \/ asRoot
  /\ ReadableBy(p, OpensToWrite(asRoot, mode))
  /\ exists' = TRUE
  /\ writable' = IF OpensToWrite(asRoot, mode) THEN writable \cup {p} ELSE writable
  /\ hot' = FALSE
  /\ UNCHANGED <<schema, lockVars>>

\* There is no file and p may not create it, or user_version cannot be read;
\* "dbh" is not set and nothing closes the database that may have been opened.
SqliteOpenFails(p, asRoot, mode) ==
  /\ \/ ~exists /\ ~asRoot
     \/ ~ReadableBy(p, OpensToWrite(asRoot, mode))
  /\ UNCHANGED sqliteVars

-----------------------------------------------------------------------------
(* sqlite_create_or_migrate: table_info, then the statements of sqlite3_exec, *)
(* each of which is a transaction of its own                               *)

TableFound(p, table) ==
  /\ Readable(p)
  /\ table \in schema
  /\ hot' = FALSE
  /\ UNCHANGED <<exists, schema, lockVars, writable>>

TableMissing(p, table) ==
  /\ Readable(p)
  /\ table \notin schema
  /\ hot' = FALSE
  /\ UNCHANGED <<exists, schema, lockVars, writable>>

TableInfoFails(p) ==
  /\ ~Readable(p)
  /\ UNCHANGED sqliteVars

\* A statement that creates what is there only finds out under a lock.
ExecStarts(p, piece) ==
  /\ IF piece \in schema THEN Reserve(p) ELSE Exclude(p)
  /\ UNCHANGED <<exists, schema, shared, writable>>

\* SQLITE_BUSY, or SQLITE_READONLY
ExecRefused(p, piece) ==
  /\ ~Reservable(p) \/ (piece \notin schema /\ shared # {})
  /\ UNCHANGED sqliteVars

ExecDone(p, piece) ==
  /\ writer = p /\ level = "exclusive"
  /\ schema' = schema \cup {piece}
  /\ Unlock
  /\ UNCHANGED <<exists, hot, shared, writable>>

\* "table ... already exists", or a row does
ExecFails(p) ==
  /\ writer = p /\ level = "reserved"
  /\ Unlock
  /\ UNCHANGED <<exists, schema, hot, shared, writable>>

=============================================================================

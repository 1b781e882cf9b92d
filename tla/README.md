# TLA+ models of freebsd_pkg_plugins

This directory holds the specifications of the plugins of `pkg(8)` in this
repository, the TLC configurations that check them on small instances, and the
proofs, checked by TLAPS, of their invariants, action properties and refinements.

Paths below are relative to `src/`. Every definition that models code names in
`PROJECT.json` (`map`) the lines it stands for.

Contents: 1. the system, 2. the modules, 3. the runs, 4. fairness, 5. the proofs,
6. what the checks found, 7. what is not modelled, 8. the plan.


## 1. The system

`pkg(8)` loads plugins as shared objects. A plugin registers hooks, which libpkg
calls before or after it solves or executes the jobs of a command, and may add a
command of its own (`pkg services`, `pkg zint`, `pkg history`, `pkg rcorder`).
libpkg ignores what a hook returns. Plugins do not talk to each other; each
runs inside the one `pkg` process, but several `pkg` processes may run at once,
and only the part of a command that holds the lock of the database of pkg is
serialised.

| component | state | operations | interacts with |
|---|---|---|---|
| **process monitor** `plugins/services/process_monitor.c` | kqueue, table pid → callback data, `active_children_count` | create, spawn, await, clear, destroy | the kernel (fork, kqueue, kill, clock); callbacks to its client |
| **services selection and result** `services_selection.c`, `services_result.c` | hash of services with an action and flags; lists per outcome | add service, flag, handle (probe then act), result add | the monitor, by calls and callbacks |
| **services plugin** `plugin_services.c` | selection of the running command | `handle_hooks` on PRE_INSTALL, POST_UPGRADE, PRE_DEINSTALL, PRE_AUTOREMOVE; `pkg services`, `pkg rcorder` | libpkg (jobs, lock of its database), database of rc.d scripts, selection |
| **database of rc.d scripts** `services_db.c`, `rcorder.c` | scripts, their packages, PROVIDE/REQUIRE/BEFORE graph, keywords | scan, which services a package owns or breaks, traversal | file system, libpkg database (owner of a file, shared libraries) |
| **zint plugin** `plugin_zfs_integration.c` | chosen method, retention, settings | init (purge), hooks (backup), rollback | libpkg, the backup method |
| **zint: retention** `retention.c`, `snapshot.c` | type, limit, number kept | parse, keep/reject callbacks, sort | the clock |
| **zint: BE method** `be_method.c` | the boot environments (BE) and their properties (in the pool) | list, take, destroy, rollback | libbe, libzfs, the loader |
| **zint: raw ZFS and none methods** `raw_zfs_method.c`, `probe.c`, `zfs.c`, `none_method.c` | file systems of `/`, LOCALBASE, PKG_DBDIR; their snapshots | probe, suitable, list (with adoption of old snapshots), snapshot, destroy | libzfs |
| **history plugin** `plugin_history.c`, `sqlite/sqlite.c` | SQLite database of commands, operations, packages | record a command; `pkg history`: list or search, within a period | SQLite, libpkg, dates |
| **dates** `date.re`, `date_scanner.gen.c` | the parts of a date found so far | parse a date, guess what its numbers are | history plugin, number parsing |
| **kissc** `dlist.c`, `iterator.c`, `hashtable.c`, `parsenum.c`, ... | doubly linked list, hash table, iterators | container operations | used by all plugins |
| **error** `error/error.c` | one message per error | set, append, free | all plugins |
| integrity, verbose, shared helpers | none | one pass over jobs; printing; strings | libpkg |

What is hard in it, and what makes each part correct:

- **process monitor and selection.** Children end, hang, or are killed by a signal
  at any time; the deadline may expire while an answer is on its way; fork,
  `kevent` and `kill` may fail half-way; the second stage reuses the table and the
  queue of the first. Correct: each service gets one outcome that what its
  children did justifies; nothing is restarted that did not answer that it is
  enabled; pkg always returns; no child is left running unsignalled.
- **services plugin.** The hook runs before the transaction for some commands and
  after it for others, so it sees different files; two jobs may want different
  actions of one service, in an order libpkg chooses. Correct: services of removed
  packages are stopped while their script still exists, dependents of upgraded
  packages are restarted on the new files, the blocklist is honoured. `pkg services` may
  run at the same time, under a lock it asks for. Correct: it shows what is there.
- **zint.** Purge, making of a BE, the command, rollback, reboot and crash follow
  each other in any order over time, and between processes. Correct: a purge
  destroys only what the plugin made and keeps the latest N (or what is younger
  than the period); rollback undoes the last command; commands end.
- **raw ZFS.** The three paths may be on one to three file systems of several
  pools, or not on ZFS. A round of snapshots, or the two properties that tell whose a
  snapshot is, may stop half-way, and a later command may see another layout. Correct: a
  round is whole once reported and stays whole, retention counts each file system apart,
  and what is left behind is purged too.
- **containers.** Elements are unlinked and freed under an iterator; both directions
  and the length must stay in step.
- **history.** Writers and readers share an SQLite file; the schema is created
  without a transaction; a busy database fails a statement in the middle of a
  record. Correct: a record is whole or absent, and a command that ran is recorded.
- **`pkg history` and dates.** Numbers at the limits of their type; dates in many
  formats, with the order of day, month and year to be guessed; times and rows that go
  through C integers of several widths. Correct: an argument is read as what it says or
  refused, and what is shown are the latest lines among those asked for, each under its
  command.
- **rc.d graph.** Cycles, diamonds and self-references. Correct: each script is
  printed once, after the scripts that depend on it, and only if the options ask for it.

`PROJECT.json` (`hazards`) lists each of these at the line where it bites, with
the property that watches it or the reason why there is none.


## 2. The modules

```
ServiceOutcomes <--implements-- ServiceRunner --EXTENDS--> ProcessMonitor
                                     ^    ^
                     MCServiceRunner |    | ServiceRunnerProofs (TLAPS)
                             ^
      MCServiceRunnerAndTable, with MCHashTable

ServicesDb <--EXTENDS-- ServiceHooks <-- MCServiceHooks
                        (instantiates ServiceOutcomes)
                                     <- ServicesPluginProofs (TLAPS)

RcOrder <-- MCRcOrder
        <-- ServicesPluginProofs (TLAPS), which is over ServiceHooks and RcOrder

Retention <--EXTENDS-- BootEnvironments <-- MCBootEnvironments
   ^                                    <- BootEnvironmentsProofs (TLAPS)
   |      <--EXTENDS-- RawZfs           <-- MCRawZfs
   |                                    <- RawZfsProofs (TLAPS)
   RetentionProofs (TLAPS), which both of these extend

DListPromise <--implements-- DList <-- MCDList
                                   <- DListProofs (TLAPS)
HashPromise <--implements-- HashTable <-- MCHashTable
                                      <- HashTableProofs (TLAPS)

Sqlite <--EXTENDS-- History <-- MCHistory
                            <- HistoryProofs (TLAPS)

ParseNum <--EXTENDS-- Dates <--EXTENDS-- HistoryQuery <-- MCHistoryQuery
                                         <- HistoryProofs (TLAPS), which is over
                                            History and HistoryQuery

MCListsAndQueries, over MCDList, MCBootEnvironments and MCHistoryQuery
```

`MCServiceRunnerAndTable` and `MCListsAndQueries` put instances that share no state into one
run. In the latter a behaviour is of one of the three, the others staying as they are at
first; in the former the table is used once the handler has given up for want of memory,
which it does in one state. The states are the sum of those of the instances, and a
property of one says of it what it would in a run of its own.

Operators named "Mutant of X" stand just before X: each is X with a plausible
slip. No specification uses them. They are there to show that the properties can
tell the difference.

### ProcessMonitor (`process_monitor.c`)

State: `os`, `ending`, `sigterm` are the kernel's (external): whether each child
runs, is a zombie or has been reaped, how it ended, and whether it was sent SIGTERM.
`kq` is the set of pids registered in the kqueue, `children` the keys of the hash
table, `exited` those whose entry is flagged as exited, `active_children_count` the
counter, `step` and `elapsed` where `process_monitor_await` is and how far the
deadline is.

Actions: `Exec`, `ExecUnregistered`, `ExecUncounted` are `process_monitor_exec`
with `register_pid` succeeding, failing to register the child and failing between that and
its entry in the table; `Check`, `Unregister`, `WaitTimesOut`, `WaitFails`, `Kill`,
`KillFails`, `SweepEnds` are the loop of `await` one `kevent`, `waitpid` or
`kill` at a time, `Clear` is `process_monitor_clear`, which leaves the kqueue
registrations (its EV_DELETE loop is under `#if 0`). `ChildEnds` and `Tick` are the
world: they interleave with every step.

The wait status is abstracted to `success`, `failure` or `signal`, and
`ExitStatusIsZero` is what `WEXITSTATUS` makes of it in the code: a signal gives 0.

### ServiceRunner (`services_selection.c`), EXTENDS ProcessMonitor

`services_selection_handle` as the client of the monitor: `Create`, the loop that
probes (`SkipBlocked`, `StartProbe`), the first await, `Proceed`, the loop that
acts (`StartAct`), the second await, `Return`. `Exited` and `Hanging` are the two
callbacks. Each system call may fail: `Fault` counts the failures (bound
`MaxFaults`) and models `_error_set` being called twice, which frees the address of
the caller's variable (the process may die).

Children are `<<"probe", s>>` and `<<"act", s>>`: a pid is not reused while the
handler runs.

### ServiceOutcomes

The abstract specification: each selected service goes from pending to blocked,
disabled, probing failed, failed or succeeded, probing first, acting once all
probes are over. `ServiceRunner!KeepsPromise` is that specification under the
refinement mapping `Outcome(s)`, its fairness included. `Break` ends the promise when a
system call fails.

### ServicesDb (`services_db.c`)

The database a scan of rc.d builds, as far as packages are concerned, without state: a
record of the scripts read and, per package, the scripts it installs and those that
need its shared libraries. `PkgFromRcDScript` is what reading one script adds to it
(`Associate`, `Requires` over `PackageRetrieve`); `ServicesOf` and `Dependents` are the two
questions that are asked of it.

### ServiceHooks (`plugin_services.c`, `services_selection.c`), EXTENDS ServicesDb

One `pkg` command from the jobs libpkg solved to its end, with the hook before or after
the jobs (`HookedBefore`), next to `pkg services` in another process.

The hook: `EnterHook` (blocklist, for upgrade), `Scan` script by script and `ScanCompletes`,
`VisitJob` (what each job adds to the selection, the last action wins), `Handle`,
`Handling` and `NextStage` (the fate of each service, which is `ServiceOutcomes`, with what
the rc.d script does to it), `LeaveHook`. `HookFails` is a hook that gives up before it has
done anything. `CallFails` is a call that fails within `services_selection_handle`, which goes
on, as the hook and libpkg do after it: `ForkFails` leaves what the loop had not visited,
`RegisterFails` runs a command nobody waits for, `KillFails` leaves the sweep, and after
`AwaitFails` what still runs is told of as hanging. A service that was left alone is
"abandoned"; one whose command goes on with nobody to know how it ends is "astray"; the result
says nothing of either, but the error is set, and shown in the end. `Straggles` is what a
command that was given up, or is astray, may still do to its service at any later moment.
`Dies` is a selection that is not handled, whose missing result the summary
reads, or a second error, whose `_error_set` frees the address of the first. The jobs, which are libpkg's: `TakeLock` or `LockFails`, `ExecuteJob`,
`JobsExecuted`. `pkg services`: `DatabasesOpen`, `ScanTheirs`, `ScanTheirsEnds`, `Show`,
`DatabasesClose`.

`installed` is what libpkg's database and rc.d hold at that moment, `db` what the hook has
scanned of it, `theirs` what the other process has. `up` and `fresh` say whether each
service runs, and with the current files of its package and libraries.

### RcOrder (`rcorder.c`, `services_db.c`, `pkg_rcorder_main`)

One `pkg rcorder` from its first option to its last line. `AddKs`, `SetReverse`,
`SetIncludeOrphans` are the options; `RegisterScript` is the reading of a script up to its
PROVIDE, and `HandleRequire`, `HandleBefore`, `HandleKeyword` are the other tokens of its
magic comments, so that the graph is whatever they make of it. `Relate` is
`services_db_scan_system` for one script, `SetParenthood` the two lists it grows;
`FindRoots` takes the scripts without parent. The recursion of `visit_script_bis` is
`stack`, a sequence of calls with the children each has still to look at: `VisitRoot`,
`VisitChild`, `SkipChild`, `Leave`. A child is a script that requires the parent, or that
the parent has to be before. Directories, hash tables and comments give scripts and
children in any order, which is why they are sets.

### Retention (`retention.c`, `snapshot.c`, selection in `purge_snapshots`)

`RetentionParse`, `Keep`/`NextState` (the two callbacks), `SortDesc`
(stable, newest first), `RejectKept` and `Doomed`, without state. `Limit` is on
unsigned words of `Word` values, as `uint64_t` is in the code.

### BootEnvironments (`plugin_zfs_integration.c`, `be_method.c`), EXTENDS Retention

The pool (`bes` in libbe's order, `versioned`, `hooked`: the two properties,
`content`: the packages in each as the number of commands that changed them), the
loader (`booted`, `bootfs`, `once`), and one program counter per `pkg` process:
`InitPlugin`, listing in two steps (`ListNames`, then the inspection, during which
another process may destroy what was listed), `SelectDoomed`, `DestroyOldest` one
by one, `PurgeEnds`, `Begin` under the lock of pkg, `CreateBE`, `SetVersion`,
`SetHook`, `Execute`, and rollback (`SelectLatest`, `Activate`). The BE of the plugin
are those with both properties (`Tagged`). `Crash`, `Reboot`
and `Tick` may come between any two steps. `undo` is a history variable: the packages
as they were before the last command that was preceded by a BE.

It would give them their properties if their name was that of an older version, but
`has_zfs_properties` compares the whole name of the dataset, so that nothing is adopted.

### RawZfs (`raw_zfs_method.c`, `probe.c`, `zfs.c`, `none_method.c`), EXTENDS Retention

A sequence of `pkg` commands over file systems in pools, with the layout chosen by Init
in every possible way. `Probe` finds the file systems of the three paths (one that cannot
be opened is taken for one that is not ZFS), `FindRawMethod` and `FindOtherwise` choose
the method, `ListFilesystem` lists one file system and gives their two properties to
snapshots of an older version, `PurgeFilesystem` purges one, `TakeSnapshot` begins a round,
of which `IndividualSnapshot`, `SetVersion` and `SetHook` make one snapshot, `Rollback` is
`pkg zint rollback`, which lists and leaves the rest as it is. `ProbeFails`,
`ListFilesystemFails`, `SnapshotFails` and the failures within `PurgeFilesystem` are the
error paths, `Exit` a command that is over or killed. Snapshots are
`<<file system, round>>`. A round is a name, of an event and of the second `named` of it;
several rounds may be of one second, and a command of the same event and second finds its
name taken. `now` is the clock, which only goes forward and may do so between the snapshots of
a round; `creation` is the second each snapshot was made in, and ZFS lists those of a file
system in any order (`ListsOf`). `upgrades` are the
rounds whose name says that they were made before an upgrade, the only ones adopted.
`clean`, `made` (the last second a snapshot of a round was made in) and `complete` are history
variables.

### DList (`kissc/dlist.c`, `iterator.c`) and DListPromise

The list down to `next`, `prev`, `head`, `tail`, `length`, with cells that are
allocated and freed. `DListAppend`, `RemoveLink`, `RemoveHead`, `RemoveTail` and
`Clear` take effect at once; the bubble sort and `iterator_reject` are
stepped through. `DListPromise` is a sequence; `KeepsListPromise` says that the
pointers implement it.

### HashTable (`kissc/hashtable.c`) and HashPromise

The hash table down to the chain of each bucket (`chains`: `nodes`, `nNext`, `nPrev`) and the
list of all nodes (`gHead`, `gTail`, `gNext`, `gPrev`). `PutNew`, with `MaybeResize` and
`Rehashed`, `PutExisting`, `DeleteKey`, `ClearTable` are its operations; `IteratorFirst`,
`IteratorNext`, `DeleteNode`, `IteratorClose` go through it, possibly deleting. Nodes are
named by their keys, and hashes are a constant, so that the instance decides who collides.
`HashPromise` is a map with an order; `KeepsMapPromise` says that the table implements it,
looked up by its buckets and gone through by its list.

### Sqlite (`sqlite/sqlite.c`) and History (`plugin_history.c`), which EXTENDS it

`Sqlite` is the database file and the wrapper around it. Its locks (`shared`,
`writer` and its `level`) and its rollback journal (`hot` once a process died while it
held the EXCLUSIVE lock, that is, was writing to the file) are SQLite's, and external.
`exists`, `schema` (the statements of the creation that were executed) and `writable`
(who opened the file to write) follow from the code: no busy timeout is ever set, the
file is opened read-only by who is not root, and also by `pkg history` once it exists,
and `sqlite3_exec` makes each statement that creates something a transaction of its own.
A statement that fails undoes what it did itself; that SQLite may roll back the whole
transaction then, when the disk is full or cannot be read, is not modelled.

`History` has one program counter per process: writers are `pkg` commands whose
POST hook records them, readers are `pkg history`. `Open` to `PrepareFails` are
`db_open`, which both run; `CreateCommand`, `CreateCommandIgnored` (the INSERT of the command fails, because the
lock is held or otherwise, and the hook goes on), `CreateLine`,
`CommitStarts`, `CommitBusy` and `Commit` are `handle_hooks`; `Query`, `QueryFails` and
`QueryEnds` are `pkg_history_main`. `at` is the statement or package a process is at,
`made`, `id` and `added` are what it has inserted and not committed, and `commands` and
`lines` are what the tables hold. `sqlite_close` refuses since the statements of the
plugin are never finalized: a hook that fails keeps its locks until its process ends
(`Exit`). `Crash` may come anywhere. `error` follows `*error`, which a second
`_error_set` makes deadly (the INSERT of the command sets it and goes on). `excused` is a
history variable: another process was there during the hook, or a call failed.

### ParseNum (`kissc/parsenum.c`)

`Strnto` is the conversion of a text into an integer of any width, signed or not, without
state: sign, prefix and base (`BaseOf`), what each character is worth (`CharValue`), the
accumulation with its test for overflow (`AddDigit`, `Accumulate`), the bounds and the error. A text is
a sequence of characters.

### Dates (`date.re`, `date_scanner.gen.c`), EXTENDS ParseNum

`ParseDate` is the scanner and the actions of its rules. A text is a sequence of tokens
(runs of digits with their width, separators, spaces, names of months, am and pm). Each rule
of the scanner is an operator of its own (`YearMonthDay`, `MonthDay`, `DayMonthName`,
`NumberNumber`, ...): the classes of tokens it begins with, whether a year may follow, and what
its action takes the parts for; re2c takes the longest match and, of equal ones, the first
(`Matching`). `SetDate` is the guess of the parts that are still unknown, from lists that
lose an element each time one is identified; `SetTime`, `IsDateValid` and `Accepted` are
the rest of `parse_date`.

The automaton of `date_scanner.gen.c` is generated by re2c from these rules: what is
translated are the rules of `date.re`, and `map` gives for each rule the states of the
automaton that belong to it alone.

### HistoryQuery (`plugin_history.c`), EXTENDS Dates

One `pkg history`: the options one by one (`Flag`, `LimitOption`, `Period`), the argument and
the default of `-d`, `-i`, `-u` (`EndOfOptions`), the statement (`ExecuteStatement`: `Listed` or
`Found`), and the display row by row (`StepRow` in `DisplayHistoryFull`, `DisplayHistorySearch`,
`EndOfRows`, `StepFails`). Times are counted in hours and an `int` has `IntBits` bits, which
keeps the proportion between both: the search binds its dates as `int` and reads a time
as `int` into half of an uninitialized variable (`upper`). The lock the rows are read
under is in `History`: while they are, nothing is written.


## 3. The runs

The times are of two workers.

| run | distinct states | question | bounds |
|---|---|---|---|
| `runner` | @runner | whatever children do and whichever calls fail, are outcomes unique and justified, does the handler return, and does it implement `ServiceOutcomes` as long as no call fails? And do the buckets and the list of a hash table implement a map with an order? | 2 services, deadline of 2 ticks, 2 failed calls; 5 keys (three share a bucket until the first resize, two a hash), 2 values, buckets 2, 4, 8 |
| `hooks` | @hooks | what does a command do to services, for every list of jobs and whichever calls fail, and what does `pkg services` show meanwhile? | 2 packages, 4 services (one of the base system, one in the blocklist), 1 or 2 jobs; at first all services run, or none |
| `be_rollback` | @be_rollback | does rollback undo the last command, through failures, crashes and reboots? | 1 process, RETENTION of one unit, times 2 to 4, 2 changes |
| `raw_faults` | @raw_faults | do rounds stay whole, and does each file system keep its latest and no more, whatever fails? | 7 layouts over 4 file systems and 2 pools, RETENTION 2, 3 rounds in 2 seconds |
| `history` | @history | are commands recorded whole, reported as they are, and only lost to a disturbance? | 2 commands of 2 and 1 packages, 2 readers of which one is root, failures and crashes anywhere |
| `rcorder` | @rcorder | is each script printed once, in the order of the code, and when it should be, for every graph? | 3 scripts, 2 keywords, 4 options, REQUIRE, BEFORE and KEYWORD in all |
| `lists_and_queries` | @lists_and_queries | do the pointers of a list implement a sequence? Do concurrent purges of boot environments keep the latest? Is an argument of `pkg history` read as what it says or refused, and are the latest lines shown? | 4 cells, 3 values of which 2 equal for the sort; 2 processes, RETENTION 1, times 1 to 3; one option with every argument, or two and three commands, `int` of 20 bits, times in hours, today is 2023-03-05 |
| `runner_early_kill` | violation | does a command get its full timeout (`FullTimeoutBeforeKill`)? | 2 services, no failed call |
| `runner_signal` | violation | is a success one (`SuccessMeansSuccess`)? | 2 services, no failed call |
| `history_references` | violation | is the id of a line that of its command? | as `history`, no call fails by itself |
| `rcorder_order` | violation | does a script come after those it requires (`RequiredFirst`)? | as `rcorder`, 3 options and tokens |
| `query_march` | violation | is every abbreviation of a month read (`AbbreviationsAreRead`)? | the query of `lists_and_queries` |

What the properties say:

- `OneOutcome`, `OutcomeJustified`: an answer and a timeout that race yield one
  report, and that report is what the child did, but that a command ended by a signal is
  reported as a success: `SuccessMeansSuccess` says that it is not one, and is violated. `ActsOnlyOnEnabled`: even when the
  probe's answer was lost. `CounterCoveredByTable` and `CutShortOnlyAfterHang`:
  the counter that ends the wait never exceeds the children in the table, and
  it falls short of them only after a probe was given up in the first stage.
  `Termination`: the handler ends even if no child ever does.
- `KeepsPromise` (each selected service gets its outcome, and no action starts before the
  probes are over) and `NoChildLeftBehind` need calls that succeed: a failing fork abandons the services
  that were not visited, a failing kill the children that remain.
- `StoppedBeforeRemoval`, `RestartedAfterUpgrade`, `BlocklistHonouredOnUpgrade`: the
  selection against what the transaction does, per command, from what the scan found. Calls
  may fail, and then the command goes on with services that were not concluded on: never
  without an error being shown. What is said to have succeeded is what it should be, whatever the
  stragglers of other services do.
  `ShowsWhatIsThere`: the lock `pkg services` takes is enough for what it shows to be
  what is installed at that moment, whatever another `pkg` does.
- `KeepsTheLatest`, `DestroysOnlyItsOwn`, `DestroysOnlyTheOld`: action
  properties on every destruction by any process. `RollbackUndoesTheCommand`:
  what is activated holds the packages of before the last command.
  `CommandsEnd`: every process returns to idle.
- `LastRoundsStayWhole`: a round reported as successful is not broken by later ones that
  fail, die, or see another layout. `KeepsTheLatestOfEach`: the purge of a file system,
  cut short or not, and in whatever order the snapshots of one second are listed: N that are
  not older stay. A round is only sure to stay whole while fewer than N others have a snapshot
  made in its second or later: of N + 1 of one second, a purge may keep others on each file
  system. `OnlyTheLatestRemain`: the other bound; snapshots of commands that
  failed are found again by their names, but those that got one property of two.
- `BothDirections`, `RejectsWhatIsSelected`, `Sorted`,
  `KeepsListPromise`; `InBothLists`, `KeepsMapPromise`: the containers against what their
  clients take for granted.
- `WholeOrAbsent`, `ReturnsWhatItRecorded`: the record of a command against the tables,
  whatever fails and whoever dies. `RecordedWhenAlone`: a schema left half made and a
  journal left hot do not cost later commands their record. `HookEnds`: nobody waits for a
  lock, so a reader that never ends does not hang `pkg`.
- `NumbersAreExact`: for every type, base and pair of bounds, a number is read exactly, or
  the error says which bound it exceeds (`-n` reads it so in `LimitOption`). `DatesAreRead`: a
  date that was written in one of the formats is read as that date and hour; not so with "Mar",
  which it leaves aside (`AbbreviationsAreRead`).
  `GuessTakesTheOnlyReading`: two or three numbers are accepted if, and only if, they make
  sense in one order alone. `ShowsTheLatest`, `LinesUnderTheirCommand`: the rows that are
  displayed, against the tables; of a search the first is stated for dates that fit an `int`, as
  others are bound as another date.
- `PrintedOnce`: roots are not looked up in `visited`, and need not be. `DependentsFirst`:
  the order without `-r` as the code makes it, which is the opposite of what it says
  (`RequiredFirst`): a script is printed after each child that does not lead back to it,
  and after all that child leads to, so that only scripts on a cycle are excepted. `PrintsWhatIsWanted`: the filter of
  `keep_script` and the reach of the traversal against what the usage text says of `-k`,
  `-s` and `-o`. `KeepCountCounts`: the counter that `keep_script` compares with zero.
  `RcEnds`: the recursion ends on every graph.

Why the bounds are enough. Two services are the least with which one child may hang while
another answers, one probe may be given up while another restart is under way, and one may
be forgotten; with two ticks something can happen between the start and the deadline; two
failures let one hit each stage, or a call and its clean-up. The properties that need
calls that succeed were also checked once with three services, no failed call and a
deadline of one tick (961 801 states), with the same result. Two jobs over two packages,
one of which uses the other, give every conflict of actions, and the scans of both processes
may each begin before, between or after the jobs. With two processes and three
instants, a purge can overlap the making of the BE that makes another one too many; with
two changes, a rollback can follow a rollback. Four file systems allow one beside, one
below and one in another pool; the seven layouts are one for each way through the choice of
the method and the list of targets. Three rounds and RETENTION 2 let the purge destroy one
after a partial round, and a round be taken twice in one second; with two seconds, at least two
of three rounds share one. With three file systems, no command follows one that left a
snapshot without its properties (`FewOrphans`): that one does is looked at with one and two. Four cells give an
element with two neighbours on the one side, and
two equal keys a sort that may exchange them or not. Five keys fill the table twice, and a
bucket of three gives a node with two neighbours in its chain; `HASHTABLE_MIN_SIZE` is 8
in the code and 2 in the run. Two commands and two readers let a reader be there during
the creation of the schema, the record and the commit, two of them create the schema at
once, and a command find what a dead one left; two packages let one fail after another.
Three scripts, one name that two of them provide and four tokens give diamonds (through
the shared name), cycles of one to three scripts with and without a root that leads to
them, and chains whose middle is filtered out; two keywords let a script have one of each
kind, and one option be taken back by another. The numbers of the queries are all
texts of up to three characters out of ten (digits, signs, letters) and those at the limits
of the `int`, read in three bases and into types of 3, 4 and 20 bits, which those texts
overflow. The dates go around the ends of a month and 29 February, in years of each kind
(1900 and 2000, leap or not, this one), in every format; the ambiguous ones are made of fifteen
numbers, on each side of 12 and 31, of one to five digits. Two options give a limit and a
period, or the two ends of one, beyond what an `int` holds in one case; three commands of
three times, equal or not, leave one without a line and two in one second. A state that an
argument of the large sets led to is looked at, but no option is read after it
(`MCArguments`).

`CHECK_DEADLOCK FALSE` stands where the program does stop: the handler that has
returned, the history once every process is over, `pkg rcorder` and `pkg history` once they
have printed. `ServiceHooks` (next to
which another `pkg services` may always be started), `RawZfs` and `BootEnvironments`
(commands follow each other) are checked for deadlock, and so are the list and the query of
`lists_and_queries`, which stutter once the client has crashed or the command has ended.


## 4. Fairness

- `ServiceRunner`: weak fairness on `Handler` and on `Clock`. The handler is a
  sequential program whose system calls return; `kevent` is given a timeout, so its
  wait ends with time. Nothing is assumed of children: they need not end, and a
  SIGTERM need not end them.
- `BootEnvironments`: weak fairness on `Step(p)` for each process: what the code
  does once it was started. Nobody has to start a command, to reboot, or to crash,
  and the clock need not move.
- `History`: weak fairness on `HandleHooks(w)` for each command. Readers need not end: their
  output may go to a pager that nobody leaves.
- `RcOrder`: weak fairness on `RcNext`: a sequential program, whose arguments and files
  are finite.
- `ServiceHooks`, `RawZfs`, `DList`, `HashTable` and `HistoryQuery` have no liveness property
  and no fairness: their loops are over finite lists that nobody extends meanwhile.


## 5. The proofs

`ServiceRunnerProofs` proves, for every finite set of services, every timeout and
every number of failed calls:

| theorem | statement |
|---|---|
| `InductiveInvariant` | `Spec => []IInv` |
| `TypeCorrect` | `Spec => []TypeOK` |
| `AtMostOneOutcome` | `Spec => []OneOutcome` |
| `NoActionWithoutProbe` | `Spec => []ActsOnlyOnEnabled` |

Assumptions: the named ASSUMEs of `ProcessMonitor` and `ServiceRunner`
(`Services` is finite, `Pids = {"probe","act"} \X Services`, the timeout is at
least one tick, `MaxFaults` is a natural number). TLC evaluates them in the runs.

`OneOutcome` alone is not inductive: to add an outcome for `s` in a callback one
must know that there is none yet. `IInv` is the conjunction of

- `TypeOK`;
- `TableInv`: what the table, the queue and the kernel agree on: children in the
  table were started, and one flagged as exited has been reaped;
- `StageInv`: while the handler probes, only probes have been started; during the
  second stage the table holds no probe, because of `Clear`;
- `SelectionInv`: what is still to be visited or awaits its second stage was
  selected, and is not blocked;
- `EnabledInv`: a service that waits for the second stage has a probe that was
  reaped and was not a failure;
- `OpenInv`: a service whose child is live in the table, that is still to be
  visited, or that waits for the second stage, has no outcome yet;
- `OneOutcome` and `ActsOnlyOnEnabled`.

The proof of `StepIInv` has a step for each action of `Next`. Four lemmas carry the
recurring parts: `PidShape` (each pid is the probe or the act of one service),
`AddEffect` (what `services_result_add` changes), `FaultEffect` (what a
failing call changes) and `ExecEffect` (what a spawned child changes). TLC
found `IInv` to hold on the instance of `runner` before it was proved; the run itself
checks the conjuncts that matter to a reader.

From `IInv`, under the same assumptions, follow the other invariants of the run:

| theorem | statement |
|---|---|
| `OutcomesAreJustified` | `Spec => []OutcomeJustified` |
| `AccountsAreKept` | `Spec => []AccountInv` |
| `CounterIsCovered` | `Spec => []CounterCoveredByTable` |
| `CutShortOnlyThen` | `Spec => []CutShortOnlyAfterHang` |
| `NobodyIsLeftBehind` | `Spec => []NoChildLeftBehind` |

An outcome is justified when it is added (`ReportsWhatHappened`) and stays so because what
was done to a child is never undone (`HistoryGrows`, `StaysJustified`). The other three
need the accounts of the monitor, `AccountInv`: the counter does not exceed the live
children of the table; the monitor is idle outside await (`IdleInv`); a registered child has
not been reaped (`QueueInv`); and, until a call fails (`FaultFreeInv`), a child that was
started was reaped, is in the table, or was sent SIGTERM (`ChildrenKnown`), the kqueue
only watches children of the table and, in the second stage, probes that were given up
(`QueueKnown`), the sweep spares nobody (`SweepComplete`), the counter is exact unless a
probe was given up (`CountExact`), and a wait that was cut short had nobody to wait for, or
follows such a probe (`WaitJustified`). `CountExact` is where the defect of section 6 shows:
without its exception it is not inductive, since the event of a stray registration
decrements the counter. Counting rests on the lemmas of `FiniteSetTheorems` on adding and
removing an element (`LiveCounts`).

and the refinement, but for its fairness:

| theorem | statement |
|---|---|
| `ImplementsThePromise` | `Spec => Promise!Init /\ [][Promise!Next \/ Promise!Break]_(Promise!vars)` |

`Promise` is `ServiceOutcomes` under the mapping of `ServiceRunner`. `SameOutcome` says
what an outcome is made of and `GetsOn` that a step which changes that of one service, as
the promise allows, is a step of the promise; then there is a lemma for each action
that changes an outcome or a stage (`SkipBlockedBlocks`, `StartProbeProbes`, `ProbeAnswers`,
`StartActActs`, `ActAnswers`, `HangingConcludes`, `ProceedProceeds`, `ReturnReturns`), one
for those that do not (`OthersAreSilent`), and `Breaks` for a call that fails. That no
service is left pending when a stage ends needs `SweepConcludes`, from `AccountInv` and
from `ReportInv`: a child that was sent SIGTERM and a command that was reaped have been
reported, and the loops leave nothing to visit.

`ServicesPluginProofs` proves of `ServiceHooks`, for any scripts, packages, libraries and blocklist, any command
and any number of jobs, next to `pkg services`:

| theorem | statement |
|---|---|
| `HooksAreConsistent` | `HookSpec => []HooksInv` |
| `StopsBeforeRemoval` | `HookSpec => []StoppedBeforeRemoval` |
| `RestartsAfterUpgrade` | `HookSpec => []RestartedAfterUpgrade` |
| `HonoursTheBlocklist` | `HookSpec => []BlocklistHonouredOnUpgrade` |
| `ServicesShowsTheSystem` | `HookSpec => []ShowsWhatIsThere` |

Assumptions: those of `ServicesDb` and `ServiceHooks` (a script of the base system, having no
package, needs no library of one; the blocklist is of known scripts). `MaxJobs` stands for the
finite number of jobs.

The calls that fail, and what becomes of the services then, are part of `HookSpec`.

`HooksInv` has two halves. `CommandInv`: `PlaceInv` (the hook runs before any job or after all
of them, and what it has not done yet is blank), `SystemInv` (what is upgraded is installed, and
the database is `Recorded`, each script in the entry of its package, and for `pkg upgrade`
`Linked`, each in those of the installed packages it needs), `SelectionInv` (what was added for
the jobs gone through) and `OutcomeInv` (an outcome belongs to a selected service, and a success tells
whether it runs, and with which files; once the hook is over nothing is awaited, and nothing
was left alone or astray without the error being set, which nothing takes back). `ReaderInv`: while `pkg services` reads, no job is
executed, so its database stays `Recorded` and `Linked` with respect to what is installed.
`ScanRecords` is what one more script does to a database, and there is a lemma for each action
or group of actions. The handling of the selection is taken from `ServiceOutcomes`, which
`ServiceRunnerProofs` shows `ServiceRunner` to implement. TLC found the parts of `HooksInv`
to hold on the instance of `hooks`.

and of `RcOrder`, for every finite set of scripts and of keywords, whatever they
provide, require and are before, and for every number of options and tokens:

| theorem | statement |
|---|---|
| `RcInductiveInvariant` | `RcSpec => []RcIInv` |
| `RcTypeCorrect` | `RcSpec => []RcTypeOK` |
| `KeepCountIsRight` | `RcSpec => []KeepCountCounts` |
| `NothingPrintedTwice` | `RcSpec => []PrintedOnce` |
| `RcOrderInvariant` | `RcSpec => []OrderInv` |
| `DependentsComeFirst` | `RcSpec => []DependentsFirst` |
| `WantedIsPrinted` | `RcSpec => []PrintsWhatIsWanted` |

Assumptions: `ScriptsAssumption` (finite sets), `ProvidedAssumption`, `PackagedAssumption`
and `BudgetAssumption` of `RcOrder`. `Budget` stands for the finite number of options and
tokens, so the theorems hold for each.

`PrintedOnce` follows from `TraversalInv`, the conjunction of `BothEnds` (a script is in the
children of another exactly when that one is in its parents, hence a root is nobody's child,
and no traversal that comes before it has reached it), `StackInv` (calls under way are of
distinct scripts, visited and, without `-r`, not printed yet) and `VisitInv` (what is printed
is visited, and the roots to come are not). The type invariant alone needs
`KeepCountCounts`: `keep_count` only stays a natural number because it is decremented for a
keyword that was counted. `PopShape`, `NextChildShape` and `PushShape` are the facts about the
stack, `DisplayEffect` what one callback changes, `AddKsCounts` the cardinality argument.
TLC found `TraversalInv` to hold on the instance of `rcorder`, which checks the other
conjuncts.

The other two speak of what a script leads to through any number of children. `OrderInv`
strengthens `DependentsFirst`, which alone does not say why a script is left only once all it
leads to was visited: `PathInv` (a call leads to every call above it), `ChildrenInv` (what a
call no longer has before it, and all children of a script that was left, are visited),
`PrintedInv` (what is printed is what was visited, with `-r`, or left, without it, and is
kept) and `RootsInv` (only what roots lead to is visited, and the roots gone past are). When a
script is left, whatever a child leads to without passing through a call under way is visited
and left; were it under way, the child would lead back (`PathInv`), the case the property
excepts. `PrintsWhatIsWanted` follows at the end of the last root: what was left is closed under
children, so nothing the roots lead to is missing. `Leads` is the
least set closed under children, so that no induction over paths is needed (`LeadsChildren`,
`LeadsTransitive`). TLC found
`OrderInv` to hold on the instance of `rcorder`.

`HistoryProofs` proves of `History`, for any sets of commands and of readers, any number of packages of
each command, and whatever calls fail (`Faults`) or processes are killed:

| theorem | statement |
|---|---|
| `HistoryIsConsistent` | `HistorySpec => []HistoryInv` |
| `RecordedWholeOrNotAtAll` | `HistorySpec => []WholeOrAbsent` |
| `ReturnsTheTruth` | `HistorySpec => []ReturnsWhatItRecorded` |
| `RecordsWhenAlone` | `HistorySpec => []RecordedWhenAlone` |

Assumptions: `ProcsAssumption` and `JobsAssumption` of `History` (a command has at least one
package).

`HistoryInv` is the conjunction of `TypesInv`; `HookInv` (libpkg's lock: one POST hook at a
time); `TraceInv` (a command that has not committed is not in the tables and has returned
nothing); `TransactionInv` (the transaction of a hook holds the packages that were gone
through, and the id that the connection gave the command, if it was inserted, is the one
the table will give it); and `RecordInv` (what was committed is whole, and what was returned
agrees with it). The id is why `HookInv` is needed: between the INSERT of the command and
COMMIT no other hook may append to `history_commands`. The locks of SQLite are not used:
with libpkg's lock and COMMIT being one step, they only decide who fails. A lemma says what
each kind of step does: a process gets on (`MovesOn`), goes through its transaction
(`RecordsOn`), commits (`CommitCommits`), or fails, exits or is killed (`Leaves`); that a
command has as many lines as packages is `AsManyLines`, by a bijection with `1 .. Jobs[w]`.
TLC found `HistoryInv` to hold on the instance of `history`.

`RecordedWhenAlone` follows from `OpenInv`, which says why a hook succeeds: `FlagsInv`;
`LocksInv` (who holds a lock is where locks are held); `SchemaInv` (a group of statements is
created in order, so that what a killed process left is the beginning of some groups);
`PlaceAt` (where a process is in the statements); and `AloneInv`: a hook that nothing disturbed
(`Undisturbed`: no other process ran next to it, no call failed for a reason outside the model)
is alone, holds the connection to write, has seen that the groups before its own are whole, and
still has every statement of its own to create (`AloneHere`). The hot journal of a killed
process is played back by the hook itself, as it may write. TLC found `OpenInv` to hold on the
instance of `history`.

It also proves of `HistoryQuery`, for any tables, any options in any number, with failures or
without:

| theorem | statement |
|---|---|
| `QueryIsConsistent` | `QuerySpec => []QueryInv` |
| `LinesAreUnderTheirCommand` | `QuerySpec => []LinesUnderTheirCommand` |
| `ShowsTheLatestLines` | `QuerySpec => []ShowsTheLatest` |
| `NumbersAreConvertedExactly` | `QuerySpec => []NumbersAreExact` |
| `NoDigitIsLost` | what one more digit does to `Accumulate`, for any type, limit and base up to 36 |

Assumptions: `IntBitsAssumption` of `Dates` (an `int` has 2 to 32 bits), and
`StoresAssumption` (a history is finite, and its lines are those of its commands),
`MaxOptionsAssumption` and `NumberTextsAssumption` (texts are sequences) of `HistoryQuery`.

Neither property of the display is inductive, since neither says anything of the rows that are
still to come. In `QueryInv`, besides `QueryTypeOK`, `RowsInv` says that these and the lines that
were displayed share out what the statement is about (`Answer`), each once, that no more were
displayed than the limit, and that what is left is not more recent; `HeadersInv` says that the
command of each line is above it with only lines in between (`HeadersAbove`), that
`previous_command_id` is the last header (`LastHeader`), and that the list only goes back in
time, so that a second header of a command takes another one of the same time
(`LatestFirst`). `NothingYet` and `AtTheEnd` are the two
ends. `ShowsTheLatest` then takes that `Answer` is `Matched` when the dates fit an `int`
(`AnswerIsMatched`), and counting. TLC found `QueryInv` to hold on that of `lists_and_queries`.

`NumbersAreExact` compares two readings of a text: the code goes from the left, in an unsigned
integer that wraps around, with a cutoff; the number it writes is defined from the right, in
integers that do not. Both are recursive functions over the places of the text. `NoDigitIsLost`
is the step from the left: the sum overflows exactly when the base times what it was, and the
digit, exceed the limit, although the code only compares with quotient and remainder; the
sum of the digits gone through stays below the limit, and hence below the width. An induction
over the places, by a least counterexample, gives that the accumulated value is the number of
the beginning of the text, or that this number exceeds the limit, and another that the two
directions agree. What remains is the sign: the magnitude of the least value is one more than that
of the greatest, and `Wrap` gives a value that fits back as it is.

`DListProofs` proves, for any finite set of cells, any data and any keys:

| theorem | statement |
|---|---|
| `ListInvariant` | `ListSpec => []ListInv` |
| `ListBothDirections` | `ListSpec => []BothDirections` |
| `ListRejects` | `ListSpec => []RejectsWhatIsSelected` |
| `ListSorted` | `ListSpec => Sorted` |
| `ListIsASequence` | `ListSpec => KeepsListPromise` |

Assumptions: `CellsAssumption`, `NullAssumption` and `KeyAssumption` of `DList`.

The properties walk along the links; what they need is that there is an order of the cells
that the links in both directions, the ends, the length and the set of allocated cells all agree
with. `ListInv` says that such an order exists (`Linked`) and that the loops under way are at a
place of it: `SortInv` (in the pass of a bubble sort, what is from the bound on is in its place,
the greatest so far is at the cursor, and nothing is out of order up to there if nothing was
exchanged) and `RejectInv` (the callback was called on what is before the iterator, and what is
left before it is what was not selected). No history variable is needed: the order is quantified.
`WalkMeets` and `WalksOfLinked` relate a walk to the order, by a least counterexample;
`UnlinkEffect` and the lemmas after it say what each operation makes of the order; those called
`...Keeps` are the steps. `KeepsListPromise` has no fairness, so that it is proved as it is checked.

`HashTableProofs` proves, for any finite set of keys, any hashes and values, and any number of
operations:

| theorem | statement |
|---|---|
| `HashTableInvariant` | `HashSpec => []HashInv` |
| `HashTableInBothLists` | `HashSpec => []InBothLists` |
| `HashTableIsAMap` | `HashSpec => KeepsMapPromise` |

Assumptions: `KeysAssumption`, `HashAssumption` and `MinSizeAssumption` of `HashTable`.

A node is in two doubly linked lists. `HashInv` says, of the list of all nodes, that some
sequence of the allocated ones is the order that the links, the ends, the number of nodes and the
place of the iterator agree with (`ListOrder`); and, of each bucket, that some sequence of the
allocated nodes of its index is the order of its chain (`Chained`). `Along` is what both
say of links and an order; putting a node in front of one and taking a node out of one are lemmas
about it, whatever the other nodes are linked to, as one function has the links of all chains.
`InBothLists` follows from what a walk makes of such an order. The resize is the hard step: `Rehashed` is
a recursive function over the list, and the induction over its places says that the chains hold
exactly the nodes of the list up to there, each in the bucket of the new mask; the links it starts
from are those of the old chains, so that nothing may be assumed of the nodes that are not linked
anew yet. `HashPromise` sees a key by its bucket and the order by the list; an operation is a step
of it because the two agree on which nodes are allocated. TLC found
`HashInv` to hold on the instance of `hashtable`, with the order that `Walk` meets.

`RetentionProofs` has the lemmas on what `retention.c` and `dlist_sort` do with any list, for
both ways to take snapshots. `SortedDesc`: the list is sorted, the latest first, and two of one
second stay in the order of the list they come from (it rests on `Ranks`: a finite set with a
strict total order is numbered by how many come before). `CountRejects`, `AgeRejects` and
`DisabledRejects`: what a retention leaves to be destroyed is the end of that list, after the
N first, from the first that is too old on, or nothing. The filter is a recursive function over
the list; that it leaves the end of it (`SuffixRejects`) is an induction over its places.

`RawZfsProofs` proves, for any file systems, pools and layouts, any number of rounds, whatever
fails and whoever is killed:

| theorem | statement |
|---|---|
| `RawInvariant` | `RawSpec => []RawInv` |
| `LatestOfEachKept` | `ByCount => (RawSpec => KeepsTheLatestOfEach)` |
| `LastRoundsAreWhole` | `ByCount => (RawSpec => []LastRoundsStayWhole)` |
| `LatestRemain` | `ByCount => (RawSpec => []OnlyTheLatestRemain)` |

Assumptions: those of `Retention` and `RawZfs`. `ByCount` is the case the properties are about:
RETENTION is a number, not zero. It is the setting of the run.

`RawInv` is `RawTypeInv`, `PropertiesInv` (the two properties are of snapshots there are),
`ClockInv` (a snapshot is made after its round is named, no later than the last one of it, and
nothing is from the future), `MethodInv` (the method is chosen when / and LOCALBASE are on ZFS)
and `TakingInv` (what is no longer to be taken was taken, and has both properties). A purge
destroys the end of a sorted list, whatever order it was given in, so that what goes is preceded
by N that stay and are not older (`CountRejects`), which is `KeepsTheLatestOfEach`; with
`ClockInv` these are of N rounds with a snapshot made in the second of the round or later, and with
`TakingInv` a whole round stays whole until there are so many. The upper bound needs `RemainInv`: `ListedInv` (what was
listed without failing has nothing left to adopt) and `PurgedInv` (what was purged without
failing has N at most). TLC found `RawInv` and `RemainInv` to hold on the instance of `raw_faults`.

`BootEnvironmentsProofs` proves, for any number of processes, commands and seconds, whatever
fails, crashes or is rebooted into:

| theorem | statement |
|---|---|
| `BEInvariant` | `Spec => []BEInv` |
| `LatestAreKept` | `ByCount => (Spec => KeepsTheLatest)` |
| `OnlyTheOld` | `NoWrap /\ ByAge => (Spec => DestroysOnlyTheOld)` |
| `OnlyItsOwn` | `NoWrap => (Spec /\ [](ByCount => OneASecond) => DestroysOnlyItsOwn)` |
| `RollbackUndoes` | `OneProcess /\ OneSide => (Spec /\ []OneASecond => []RollbackUndoesTheCommand)` |
| `OneEventIsEnough` | `OneEvent => (NoWrap => (Spec => DestroysOnlyItsOwn)) /\ (OneProcess => (Spec => []RollbackUndoesTheCommand))` |

Assumptions: those of `Retention` and `BootEnvironments`. `ByCount` and `ByAge` are the two
settings the properties are about. The other hypotheses are what the code relies on, and TLC
violates the property without each of them:

- `NoWrap`: the clock has reached the period, or the limit wraps around and every BE is too
  old (retention.c:210);
- `OneASecond`: the second tells the BE apart. It is the resolution of the names and of
  the dates of creation. Without it, a BE that was listed and destroyed may be made again, in the
  same second, before it is destroyed a second time; and of two `pre_` events in one second the
  newer BE is the first to go. It always holds when ON has one event (`OneEvent`), since the name
  is then that of the second; `OneEventIsEnough` states the two theorems so;
- `OneSide`: the events of ON all come before the jobs, or all after; otherwise the latest BE
  may be one made after the command that is to be undone;
- `OneProcess`: commands do not overlap, since `pkg zint rollback` takes no lock.

`BEInv` says what the pool is (`PoolInv`: a name is that of one BE, nothing is from the
future, what runs and what is to boot is there) and what a process remembers (`ProcessInv`).
Purges interleave with each other and with new BE, so what a process has listed may be
destroyed and made again before it acts on it. `CountInv` therefore says of what a process is to
destroy, there or not, that N BE of the plugin come before it (`Secured`), in an order
(`Before`) that also places one that would come to be there again; a purge by another process
cannot take one of these N without being preceded by N itself. `OwnInv` (what is to be
destroyed is from an earlier second, and has both properties if it is there) and `AgeInv` (it is
older than the period) are stable because a name of an earlier second is never made again.
`RollbackInv` follows the BE that undoes the last command, from its making (`MakingInv`) through
the jobs (`BackedInv`), the purges, which destroy it last (`EndInv`), and the list of the
rollback (`SeenInv`), until it is activated (`ActivateInv`, `UndoInv`). TLC found these
invariants to hold on small instances, those of `lists_and_queries` and `be_rollback` among them.

Only model-checked:

- liveness (`Termination`, `CommandsEnd`, `HookEnds`, `RcEnds`, and the fairness of
  `KeepsPromise`), as ENABLED and fairness are out of reach of the prover;
- `DatesAreRead` and `GuessTakesTheOnlyReading` of `HistoryQuery`: the first is about texts
  that the instance makes of dates, and both about lists of numbers that are folded and filtered
  by operators (`Atoi`, the lists of `SetDate`), an induction over data of which the prover has
  none. The second would also need assumptions on the numbers of a text, as `my_atoi` saturates.

The library's induction theorems take an operator, which no prover here instantiates. Where an
induction over a list or a walk is needed, the definition is a recursive function and the proof
takes a least counterexample (`LeastElement`); where one over paths is, the set of what is
reached is defined as the least closed one.


## 6. What the checks found

Each is a run whose property quotes a line of the repository (`findings`):

1. **A probe given up in the first stage shortens the second** (`runner_early_kill`).
   `process_monitor_clear` leaves its registration in the kqueue; when that child ends
   during the second await, `unregister_pid` (process_monitor.c:141) decrements the
   counter for a pid the table does not know, the loop ends, and a restart under way is
   reported as failed and sent SIGTERM well before `SERVICE_TIMEOUT`.
2. **Lines whose id is not that of their command** (`history_references`): the result of the
   INSERT of the command is ignored (plugin_history.c:515). When a `pkg history` run by root
   holds the lock to create an index at that moment, the packages are recorded with the last
   row id of the connection, against the REFERENCES of plugin_history.c:150, and the hook
   succeeds.
3. **A command ended by a signal is a success** (`runner_signal`): its status is read by
   `WEXITSTATUS` without `WIFEXITED` (process_monitor.c:147), against services.h:33, "service X
   (stop|restart) returned EXIT_SUCCESS".
4. **`pkg rcorder` prints a script before what it requires** (`rcorder_order`), and the other
   way round with `-r`: children are the scripts that depend on one and are visited before it
   is printed (services_db.c:302), against "a reimplementation of rcorder"
   (plugin_services.c:435), "display rc.d scripts in reverse order" of `-r`
   (plugin_services.c:33) and "same as requires" (services_db.c:43).
5. **"Mar" is not a month** (`query_march`): `month_abbr` has "Jul" twice and no "Mar"
   (date.re:431), which is among the abbreviations of `months[]` (date.re:44).

Met while modelling, without a run of their own.

Services:

- a probe ended by a signal is an answer: the service is taken for enabled, and acted on
  (process_monitor.c:147);
- when a call fails within `services_selection_handle`, the services that were not visited or
  not told of are left out of the summary and the command goes on: only the error that is shown in
  the end says so;
- "Services from deinstalled packages are also automatically stopped before removal"
  (plugins/services/README.md:31) is not so for a package that `pkg upgrade` deletes, as
  the hook is POST_UPGRADE; and with `pkg install` the job that deletes a package may come before
  the upgrade of a library it needs, whose RESTART takes the place of STOP
  (services_selection.c:71);
- the blocklist is read for `pkg upgrade` only (plugin_services.c:327), and
  `pkg install`, whose hook runs before the transaction, restarts the services
  that depend on a package before it is upgraded;
- `services_selection_handle` may return NULL, which the summary reads through
  (plugin_services.c:354);
- `databases_close` releases a read lock even if it was not obtained (plugin_services.c:79);
- a script of one name in both rc.d directories meets an assertion (services_db.c:588);
- `pkg_from_rc_d_script` leaks its iterator on error, and `services_result_destroy` does not free
  the result itself;
- `-r` of `pkg rcorder` prints in pre-order: when two scripts require one and a third
  requires both, it comes before one of the two (services_db.c:283);
- scripts on a cycle that no root leads to are never printed (services_db.c:318), and the
  roots are the scripts that require nothing, not those "not REQUIREd by any other script"
  (services_db.c:249).

zint:

- after a rollback BE accumulate: the purge stops at the first BE that libbe refuses to
  destroy, such as the active one (plugin_zfs_integration.c:154), against the README of the
  plugin, line 49 ("only keep the 7 latest BE/snapshots");
- the BE of an older version are never adopted: the name that is compared is that of the
  dataset, with its pool;
- with raw ZFS `pkg zint rollback` says that the system was rolled back and does nothing
  (`raw_zfs_rollback_to` is a stub);
- a recursive snapshot of / may not hold /usr/local: same pool does not mean below
  (raw_zfs_method.c:137), against the README of the plugin, line 11;
- the snapshots a recursive one makes below / carry no property and are never
  purged (raw_zfs_method.c:172), nor is one whose command stopped between its two
  properties, which the adoption by name takes for one that has them;
- two of the three paths on one file system, without recursion: the second
  snapshot has the name of the first and the hook fails (raw_zfs_method.c:204);
- `uzfs_depth` is given a NULL file system when / is not on ZFS (raw_zfs_method.c:148), and
  `uzfs_fini` a NULL handle when `uzfs_init` fails (probe.c); a path whose file system
  cannot be opened is taken for one that is not on ZFS;
- a RETENTION period longer than the time since 1970 wraps around
  (retention.c:210) and every snapshot is destroyed;
- two BE of one second are not told apart. With RETENTION by count a purge may destroy a BE
  that has no property yet: another process destroyed the one it had listed, and a command made
  one of the same name in the same second. With two `pre_` events that give two BE in one second,
  a purge destroys the one libbe lists later first, which is the newer, and the rollback then goes
  one command too far (`snapshot_compare_by_creation_date_desc`); section 5 says which hypothesis
  excludes each;
- nor are two ZFS snapshots of one second, such as those of the two events of a short command: of
  more than N a purge destroys those that were listed last, which may be of another event on each
  file system, so that no event has them all;
- with `post_` events in ON, rollback may select a BE made after the command; the default
  of ON has `pre_deinstall` too (plugin_zfs_integration.c:353); the pattern of a name per
  event (plugins/zfs_integration/README.md:61) is never read (plugin_zfs_integration.c:312).

history:

- a `pkg history` whose output is paged makes the COMMIT of a command fail, and its
  record is lost, against the README of the repository, line 57 ("keep tracks of all
  the pkg ... commands you run"); the other way round a reader that finds the database
  busy prints that there is nothing to show;
- once a command died while it was writing, `pkg history` shows nothing until the next
  command, as a reader that may not write cannot play the journal back;
- when `table_info` cannot be prepared the error message is not initialized, and
  when it cannot be stepped the table is taken as present (sqlite.c:543);
- the search binds its two dates as `int`, so that one after January 2038 is another one, and
  reads the time of a command as an `int` into a `time_t` nothing initialized: `ShowsTheLatest`
  is stated for dates that fit, and no property is about the time a search displays;
- the usage text has `--insert` where the option is `--install`.

kissc:

- a letter as a digit is worth its rank less ten, where it should be worth ten more
  (parsenum.c:95), so bases above ten are not what they say; the plugins use base ten;
- `hashtable_copy` and `hashtable_union` read `dst` when it is NULL (hashtable.c:727), and
  `hashtable_union` never duplicates the values of the second table;
- `dlist_prepend` does not link the old head back, `dlist_insert_before` and
  `dlist_insert_after` do not count (dlist.c:285 on), `dlist_link_at` adds the index to the
  pointer instead of following the links, and `iterator_at` never counts; no plugin calls
  them on more than the first element.


## 7. What is not modelled, and why

- Of `pkg rcorder`: scripts of one name in both directories (an assertion says that there
  are none, services_db.c:588), the text of scripts, and paths.
- Of the history plugin: the migrations (there are none), the layout of what is displayed,
  and the virtual machine of SQLite. A lock that fails is reported at once, as without a busy
  timeout.
- Of kissc: copy, union and equality of hash tables, the list operations no plugin calls
  (prepend, insert, `*_at` but for the first element, reverse), the iterators over arrays
  and the operations on iterators no plugin calls (any, all, reduce, ...).
- The integrity and verbose plugins and the shared helpers: one pass without state,
  printing, string building.
- The tables and jumps of `date_scanner.gen.c` as such: `Dates` is about the rules they are
  generated from.
- Libraries: the kernel, libpkg, libbe, libzfs, the loader and SQLite are modelled only
  as far as the code uses them, and such definitions are marked external in the map.
- Data: messages, paths, the format of output. Clock adjustments (the deadline is on
  CLOCK_REALTIME, snapshots and BE are dated by the clock, which only goes forward) and reuse of pids are left out, and so is a boot environment or
  snapshot made or destroyed by hand.
- Time in `BootEnvironments` is counted in the second of a name's resolution.
  `RollbackUndoesTheCommand` excludes the activation of one of two BE of the same second,
  which the code cannot order. It is checked, and proved, with one process: rollback takes no lock,
  so that a command that makes a BE between its list and its activation makes it go back one
  command too far (plugin_zfs_integration.c:229).


## 8. The plan

In order of weight, with what may still be added.

1. Services: `ServiceOutcomes`, `ProcessMonitor`, `ServiceRunner`, `ServicesDb`,
   `ServiceHooks`, with the inductive invariant of the runner, its accounts, and the
   refinement of `ServiceOutcomes`. Done.
2. zint: `Retention`, `BootEnvironments`, `RawZfs`. Done.
3. `DListPromise`, `DList`. Done.
4. `Sqlite`, `History`. Done; an abstract specification, a log that grows by whole records,
   is possible where `ReferencesHold` is not asked for.
5. `RcOrder`, with the inductive invariants of its traversal and of its order. Done.
6. `HashPromise`, `HashTable`. Done.
7. `ParseNum`, `Dates`, `HistoryQuery`: the conversions against what they are to read, and
   the query that uses them. Done.
8. Proofs of every invariant, action property and refinement that the passing runs check, but
   for the two properties of dates and for liveness (section 5). Done. What may be added: that
   each rule of the scanner gives the parts of a text of its format, one rule at a time, with
   the folds of `Dates` written as recursive functions; then `DatesAreRead` over any dates.

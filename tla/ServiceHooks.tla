---------------------------- MODULE ServiceHooks ----------------------------
(***************************************************************************)
(* One pkg command with the services plugin loaded: handle_hooks           *)
(* (plugins/services/plugin_services.c), services_selection_add and its    *)
(* callers (services_selection.c, services_db.c), composed with            *)
(* ServiceOutcomes (what services_selection_handle does with a selection,  *)
(* see ServiceRunner) and with libpkg, which solves the jobs, calls the    *)
(* hooks before or after it and executes the jobs.  Meanwhile another      *)
(* process may run pkg services, under the read lock of libpkg's database. *)
(***************************************************************************)
EXTENDS ServicesDb, Integers, Sequences, SequencesExt

CONSTANTS Blocklist,  \* BLOCKLIST of services.conf
          MaxJobs     \* bound on the number of jobs of the command

ASSUME BlocklistAssumption == Blocklist \subseteq Services
ASSUME MaxJobsAssumption == MaxJobs \in Nat

VARIABLES
  command,   \* pkg_jobs_type
  jobs,      \* the jobs libpkg solved, in order: package and solved type
  place,     \* where the command is
  jobsSeen,  \* number of jobs the hook has gone through
  executed,  \* number of jobs libpkg has executed
  installed, \* the packages present on the system
  db,        \* the services_db_t of the hook
  action, blocked,   \* the services_selection_t
  stage, outcome,    \* services_selection_handle; further outcomes below
  error,     \* *error is set: the hook shows it before it returns
  up,        \* the services that run
  fresh,     \* ... with the current files of their package and libraries
  reader,    \* where pkg services is
  required,  \* its option -r
  theirs,    \* its services_db_t
  shown      \* what it printed last: a package and its services

INSTANCE ServiceOutcomes

transactionVars == <<command, jobs>>
systemVars      == <<installed, up, fresh>>
selectionVars   == <<action, blocked>>
handleVars      == <<stage, outcome, error>>
readerVars      == <<reader, required, theirs, shown>>
hookVars == <<command, jobs, place, jobsSeen, executed, installed, db,
              action, blocked, stage, outcome, error, up, fresh,
              reader, required, theirs, shown>>

Commands == {"install", "upgrade", "deinstall", "autoremove"}

\* The types pkg_jobs_iter reports that matter here: a removal command only
\* deletes; an installation or an upgrade may also delete, on a conflict.
Solved(c) == IF c \in {"install", "upgrade"}
             THEN {"install", "upgrade", "delete"} ELSE {"delete"}

JobLists(c) ==
  {l \in BoundedSeq([package : Packages, solved : Solved(c)], MaxJobs) :
     \A i, j \in DOMAIN l : l[i].package = l[j].package => i = j}

\* The hooks handle_hooks is registered for: PRE_INSTALL, PRE_DEINSTALL and
\* PRE_AUTOREMOVE run before the jobs are executed, POST_UPGRADE after.
HookedBefore(c) == c \in {"install", "deinstall", "autoremove"}

\* The solved type a package was given says whether it was there at first.
HookInit ==
  /\ command \in Commands
  /\ jobs \in JobLists(command) \ {<<>>}
  /\ place = IF HookedBefore(command) THEN "hook" ELSE "lock"
  /\ jobsSeen = 0
  /\ executed = 0
  /\ installed = {p \in Packages :
       \A i \in DOMAIN jobs : jobs[i].package = p => jobs[i].solved # "install"}
  /\ db = EmptyDb
  /\ action = [s \in Services |-> "absent"]
  /\ blocked = {}
  /\ stage = "over"
  /\ outcome = [s \in Services |-> "unselected"]
  /\ error = FALSE
  /\ up \in SUBSET Present(installed)
  /\ fresh = up
  /\ reader = "idle" /\ required = FALSE /\ theirs = EmptyDb /\ shown = <<>>

-----------------------------------------------------------------------------
(* services_selection_add: the flags accumulate, the last action wins *)

AddAll(set, act) ==
  action' = [s \in Services |-> IF s \in set THEN act ELSE action[s]]

\* Mutant of EnterHook: the names of the blocklist do not set the flag.
EnterHookWithoutFlag ==
  /\ place = "hook"
  /\ place' = "scan"
  /\ IF command = "upgrade"
     THEN AddAll(Blocklist, "none") /\ UNCHANGED blocked
     ELSE UNCHANGED selectionVars
  /\ UNCHANGED <<transactionVars, jobsSeen, executed, db, systemVars, handleVars, readerVars>>

\* Up to the scan: the blocklist is read for "pkg upgrade" only.
EnterHook ==
  /\ place = "hook"
  /\ place' = "scan"
  /\ IF command = "upgrade"
     THEN blocked' = Blocklist /\ AddAll(Blocklist, "none")
     ELSE UNCHANGED selectionVars
  /\ UNCHANGED <<transactionVars, jobsSeen, executed, db, systemVars, handleVars, readerVars>>

Scan ==
  /\ place = "scan"
  /\ \E s \in NextScripts(db, installed) : db' = ScanScript(db, s, installed)
  /\ UNCHANGED <<transactionVars, place, jobsSeen, executed, systemVars,
                 selectionVars, handleVars, readerVars>>

ScanCompletes ==
  /\ place = "scan"
  /\ NextScripts(db, installed) = {}
  /\ place' = "jobs"
  /\ UNCHANGED <<transactionVars, jobsSeen, executed, db, systemVars,
                 selectionVars, handleVars, readerVars>>

\* services_db_create, services_selection_create or services_db_scan_system
\* fails: the hook only shows the error and libpkg goes on with the command.
HookFails ==
  /\ place \in {"hook", "scan"}
  /\ place' = IF HookedBefore(command) THEN "lock" ELSE "done"
  /\ error' = TRUE
  /\ UNCHANGED <<transactionVars, jobsSeen, executed, db, systemVars,
                 selectionVars, stage, outcome, readerVars>>

VisitJob ==
  LET job == jobs[jobsSeen + 1] IN
  /\ place = "jobs"
  /\ jobsSeen < Len(jobs)
  /\ jobsSeen' = jobsSeen + 1
  /\ CASE job.solved = "delete"  -> AddAll(ServicesOf(db, job.package), "stop")
       [] job.solved = "upgrade" ->
            AddAll(ServicesOf(db, job.package) \cup Dependents(db, job.package), "restart")
       [] job.solved = "install" -> UNCHANGED action
  /\ UNCHANGED <<transactionVars, place, executed, db, systemVars,
                 blocked, handleVars, readerVars>>

\* services_selection_handle is called on the selection.
Handle ==
  /\ place = "jobs"
  /\ jobsSeen = Len(jobs)
  /\ place' = "handle"
  /\ stage' = "probing"
  /\ outcome' = [s \in Services |->
                   IF action[s] = "absent" THEN "unselected" ELSE "pending"]
  /\ UNCHANGED <<transactionVars, jobsSeen, executed, db, systemVars,
                 selectionVars, error, readerVars>>

\* services_selection_handle returns NULL, which the summary does not expect,
\* or sets an error over another, which frees its address: the process dies.
Dies ==
  /\ \/ place = "jobs" /\ jobsSeen = Len(jobs) /\ UNCHANGED <<stage, outcome>>
     \/ place = "handle" /\ error /\ Break
  /\ place' = "dead"
  /\ UNCHANGED <<transactionVars, jobsSeen, executed, db, systemVars,
                 selectionVars, error, readerVars>>

\* What an rc.d script that succeeds does.
Effect(s) ==
  CASE outcome'[s] = "success" /\ action[s] = "stop" ->
         up' = up \ {s} /\ fresh' = fresh \ {s}
    [] outcome'[s] = "success" /\ action[s] = "restart" ->
         up' = up \cup {s} /\ fresh' = fresh \cup {s}
    [] outcome'[s] = "failed" -> UNCHANGED <<up, fresh>>

\* A signal ends the command of s: handle_restart_stop_exited is given 0, and adds a
\* success to the result.  Here that is an outcome of its own, "signalled".
ActSignalled(s) == stage = "acting" /\ Move(s, "acting", "signalled")

Handling ==
  /\ place = "handle"
  /\ \E s \in Services :
       \/ s \in blocked /\ Block(s) /\ UNCHANGED <<up, fresh>>
       \/ s \notin blocked /\ Probe(s) /\ UNCHANGED <<up, fresh>>
       \/ (ProbeEnds(s) \/ Act(s) \/ ActSignalled(s)) /\ UNCHANGED <<up, fresh>>
       \/ ActEnds(s) /\ Effect(s)
  /\ UNCHANGED <<transactionVars, place, jobsSeen, executed, db, installed,
                 selectionVars, error, readerVars>>

-----------------------------------------------------------------------------
(* A call fails within services_selection_handle, which goes on.  Two more *)
(* outcomes, of which the result says nothing: "abandoned", the service    *)
(* was left alone (it was not visited, or its probe is not heard of), and  *)
(* "astray", it is acted on and nobody knows how that ends.                *)

\* What becomes of the services the loop had not visited
RestOf(loop) ==
  outcome' = [s \in Services |-> IF outcome[s] = loop THEN "abandoned" ELSE outcome[s]]

\* What becomes of the services the sweep of process_monitor_await had not
\* come to, once it told of s
Unswept(s, told, from, to) ==
  outcome' = [t \in Services |-> IF outcome[t] # from THEN outcome[t]
                                  ELSE IF t = s THEN told ELSE to]

\* argv_copy or fork fails: the loop is left.
ForkFails(s) ==
  \/ stage = "probing" /\ outcome[s] = "pending" /\ s \notin blocked /\ RestOf("pending")
  \/ stage = "acting" /\ outcome[s] = "enabled" /\ RestOf("enabled")

\* register_pid fails, which is ignored: the command runs outside the table.
RegisterFails(s) ==
  \/ s \notin blocked /\ stage = "probing" /\ Move(s, "pending", "abandoned")
  \/ stage = "acting" /\ Move(s, "enabled", "astray")

\* kevent fails in process_monitor_await: what still runs is told of as hanging
\* (ProbeEnds, ActEnds).
AwaitFails(s) ==
  /\ \/ stage = "probing" /\ outcome[s] = "probing"
     \/ stage = "acting" /\ outcome[s] = "acting"
  /\ UNCHANGED outcome

\* kill fails, on the command of s: the sweep is left.
KillFails(s) ==
  \/ /\ stage = "probing" /\ outcome[s] = "probing"
     /\ \A t \in Services : outcome[t] # "pending"
     /\ Unswept(s, "probing_failed", "probing", "abandoned")
  \/ /\ stage = "acting" /\ outcome[s] = "acting"
     /\ \A t \in Services : outcome[t] # "enabled"
     /\ Unswept(s, "failed", "acting", "astray")

\* Mutant of CallFails: the error is not reported.
CallFailsSilently ==
  /\ place = "handle"
  /\ \E s \in Services : ForkFails(s) \/ RegisterFails(s) \/ AwaitFails(s) \/ KillFails(s)
  /\ UNCHANGED <<transactionVars, place, jobsSeen, executed, db, systemVars,
                 selectionVars, stage, error, readerVars>>

CallFails ==
  /\ place = "handle"
  /\ \E s \in Services : ForkFails(s) \/ RegisterFails(s) \/ AwaitFails(s) \/ KillFails(s)
  /\ error' = TRUE
  /\ UNCHANGED <<transactionVars, place, jobsSeen, executed, db, systemVars,
                 selectionVars, stage, readerVars>>

\* What a command that failed, was told of as hanging, was ended by a signal or went
\* astray did or may still do, whatever pkg does now: stop the service and, for a
\* restart, start it.
Straggles(s) ==
  /\ outcome[s] \in {"failed", "signalled", "astray"}
  /\ \/ up' = up \ {s} /\ fresh' = fresh \ {s}
     \/ action[s] = "restart" /\ up' = up \cup {s} /\ fresh' = fresh \cup {s}
  /\ UNCHANGED <<transactionVars, place, jobsSeen, executed, db, installed,
                 selectionVars, handleVars, readerVars>>

-----------------------------------------------------------------------------

\* Nothing more is awaited of a service.
Settled == Concluded \cup {"signalled", "abandoned", "astray"}

NextStage ==
  /\ place = "handle"
  /\ stage = "probing" /\ stage' = "acting"
  /\ \A s \in Services : outcome[s] \in Settled \cup {"enabled"}
  /\ UNCHANGED <<transactionVars, place, jobsSeen, executed, db, systemVars,
                 selectionVars, outcome, error, readerVars>>

LeaveHook ==
  /\ place = "handle"
  /\ stage = "acting" /\ stage' = "over"
  /\ \A s \in Services : outcome[s] \in Settled
  /\ place' = IF HookedBefore(command) THEN "lock" ELSE "done"
  /\ UNCHANGED <<transactionVars, jobsSeen, executed, db, systemVars,
                 selectionVars, outcome, error, readerVars>>

-----------------------------------------------------------------------------
(* libpkg executes the jobs, while nobody reads its database *)

HoldsReadLock == reader \in {"scan", "show"}

TakeLock ==
  /\ place = "lock"
  /\ ~HoldsReadLock
  /\ place' = "execute"
  /\ UNCHANGED <<transactionVars, jobsSeen, executed, db, systemVars,
                 selectionVars, handleVars, readerVars>>

\* libpkg gives up waiting.
LockFails ==
  /\ place = "lock"
  /\ HoldsReadLock
  /\ place' = "done"
  /\ UNCHANGED <<transactionVars, jobsSeen, executed, db, systemVars,
                 selectionVars, handleVars, readerVars>>

Touched(p) == {s \in Services : Owner[s] = p \/ p \in Uses[s]}

ExecuteJob ==
  LET job == jobs[executed + 1] IN
  /\ place = "execute"
  /\ executed < Len(jobs)
  /\ executed' = executed + 1
  /\ installed' = IF job.solved = "delete" THEN installed \ {job.package}
                  ELSE installed \cup {job.package}
  /\ fresh' = fresh \ Touched(job.package)
  /\ UNCHANGED <<transactionVars, place, jobsSeen, db, up, selectionVars,
                 handleVars, readerVars>>

JobsExecuted ==
  /\ place = "execute"
  /\ executed = Len(jobs)
  /\ place' = IF HookedBefore(command) THEN "done" ELSE "hook"
  /\ UNCHANGED <<transactionVars, jobsSeen, executed, db, systemVars,
                 selectionVars, handleVars, readerVars>>

-----------------------------------------------------------------------------
(* pkg services, in another process *)

\* Mutant of DatabasesOpen: the lock is not obtained.
DatabasesOpenWithoutLock(r) ==
  /\ reader = "idle"
  /\ reader' = "scan"
  /\ required' = r
  /\ UNCHANGED <<theirs, shown>>

\* databases_open, up to the scan.  Without the lock nothing is shown.
DatabasesOpen(r) ==
  /\ reader = "idle"
  /\ place # "execute"
  /\ reader' = "scan"
  /\ required' = r
  /\ UNCHANGED <<theirs, shown>>

ScanTheirs ==
  /\ reader = "scan"
  /\ \E s \in NextScripts(theirs, installed) : theirs' = ScanScript(theirs, s, installed)
  /\ UNCHANGED <<reader, required, shown>>

ScanTheirsEnds ==
  /\ reader = "scan"
  /\ NextScripts(theirs, installed) = {}
  /\ reader' = "show"
  /\ UNCHANGED <<required, theirs, shown>>

\* The loop of pkg_services_main: one of the packages it was given.
Show(p) ==
  /\ reader = "show"
  /\ shown' = <<p, IF required THEN Dependents(theirs, p) ELSE ServicesOf(theirs, p)>>
  /\ UNCHANGED <<reader, required, theirs>>

\* databases_close, once all were shown or when the scan fails
DatabasesClose ==
  /\ HoldsReadLock
  /\ reader' = "idle"
  /\ required' = FALSE
  /\ theirs' = EmptyDb
  /\ shown' = <<>>

PkgServicesMain ==
  /\ \/ \E r \in BOOLEAN : DatabasesOpen(r)
     \/ ScanTheirs \/ ScanTheirsEnds
     \/ \E p \in Packages : Show(p)
     \/ DatabasesClose
  /\ UNCHANGED <<transactionVars, place, jobsSeen, executed, db, systemVars,
                 selectionVars, handleVars>>

HookNext ==
  \/ EnterHook \/ Scan \/ ScanCompletes \/ HookFails \/ VisitJob
  \/ Handle \/ Dies \/ Handling \/ CallFails \/ NextStage \/ LeaveHook
  \/ \E s \in Services : Straggles(s)
  \/ TakeLock \/ LockFails \/ ExecuteJob \/ JobsExecuted
  \/ PkgServicesMain

HookSpec == HookInit /\ [][HookNext]_hookVars

-----------------------------------------------------------------------------
(* Properties *)

Acted == {"acting", "success", "failed", "signalled", "astray"}

\* What the summary tells, a service found disabled being left out of it on purpose
Told == {"disabled", "probing_failed", "success", "failed", "signalled"}

Job(p, solved) == \E i \in DOMAIN jobs : jobs[i] = [package |-> p, solved |-> solved]

\* "pkg deinstall" and "pkg autoremove", with any calls that fail: each service
\* of a removed package was selected to be stopped and concluded on before, or an
\* error was shown; and one whose command exited with success no longer runs (one
\* ended by a signal is said to be a success too: see SuccessMeansSuccess).
StoppedBeforeRemoval ==
  (command \in {"deinstall", "autoremove"} /\ executed > 0) =>
    \A s \in Services : \A i \in 1 .. executed :
      jobs[i].package = Owner[s] =>
        /\ error \/ (action[s] = "stop" /\ outcome[s] \in Told)
        /\ outcome[s] = "success" => s \notin up

\* "pkg upgrade", with any calls that fail: when the command is over, a service
\* whose restart exited with success runs with the upgraded files, and one of an
\* upgraded package or library was concluded on, unless an error was shown.
RestartedAfterUpgrade ==
  (command = "upgrade" /\ place = "done" /\ executed = Len(jobs)) =>
    \A s \in Services :
      /\ (action[s] = "restart" /\ outcome[s] = "success") => s \in fresh
      /\ (s \in Present(installed) /\ \E p \in {Owner[s]} \cup Uses[s] : Job(p, "upgrade")) =>
           error \/ outcome[s] \in Told \cup {"blocked"}

\* "pkg upgrade": a service of the blocklist is never probed nor acted on,
\* whatever call fails.
BlocklistHonouredOnUpgrade ==
  command = "upgrade" =>
    \A s \in Blocklist : outcome[s] \notin Acted \cup {"probing", "enabled"}

\* Whatever the command of another process does, and while libpkg executes its
\* jobs, what pkg services shows of a package is what is there when it shows it:
\* the services the package installs or, with -r, those of the installed packages
\* that need one of its libraries.
ShowsWhatIsThere ==
  shown # <<>> =>
    shown[2] = {s \in Services : Owner[s] \in installed
                  /\ IF required THEN shown[1] \in Uses[s] \cap installed
                     ELSE shown[1] = Owner[s]}

=============================================================================

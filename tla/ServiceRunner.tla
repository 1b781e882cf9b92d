---------------------------- MODULE ServiceRunner ----------------------------
(***************************************************************************)
(* services_selection_handle (plugins/services/services_selection.c): the  *)
(* client of the process monitor.  It runs "service X enabled" for every   *)
(* selected service that is not blocked, awaits the answers, then runs     *)
(* "service X stop|restart" for the ones that answered EXIT_SUCCESS and    *)
(* awaits again, filling a services_result_t from the callbacks.           *)
(*                                                                         *)
(* The hash table and the list the two loops go through are sets here: the *)
(* order of the first is that of a hash, the order of the second that of   *)
(* the answers, and neither is promised to anybody.                        *)
(***************************************************************************)
EXTENDS ProcessMonitor, Sequences

CONSTANTS Services,    \* the rc.d scripts
          MaxFaults    \* bound on the number of calls that fail

ASSUME ServicesAssumption == IsFiniteSet(Services)
ASSUME MaxFaultsAssumption == MaxFaults \in Nat

Probe(s) == <<"probe", s>>
Act(s)   == <<"act", s>>

\* Each service is probed at most once and acted on at most once: one pid
\* for each.  A pid is not given again while the handler runs.
ASSUME ServicePidsAssumption == Pids = {"probe", "act"} \X Services

VARIABLES
  action,    \* service_data_t.action of each service; "absent" if not selected
  blocked,   \* the services flagged SERVICE_FLAG_BLOCKED
  pc,        \* where services_selection_handle is
  todo,      \* the services the current loop has still to visit
  enabled,   \* the list of the services that answered EXIT_SUCCESS
  results,   \* per service, the statuses given to services_result_add, in order
  error,     \* whether *error is set
  faults     \* number of calls that failed

selectionVars == <<action, blocked>>
handlerVars   == <<pc, todo, enabled, results>>
faultVars     == <<error, faults>>
vars == <<monitorVars, selectionVars, handlerVars, faultVars>>

Statuses == {"failed", "blocked", "success", "probing_failed"}
Actions  == {"absent", "none", "stop", "restart"}
Places   == {"create", "probe", "awaitProbe", "act", "awaitAct",
             "done", "null", "crashed"}

Selected == {s \in Services : action[s] # "absent"}

-----------------------------------------------------------------------------
(* Helpers *)

\* services_result_add: an action NONE is ignored.
Add(s, status) ==
  results' = IF action[s] = "none" THEN results
             ELSE [results EXCEPT ![s] = Append(@, status)]

\* One more call fails: an error is set.  _error_set on an error that is
\* already set frees the caller's variable instead of the message, which
\* may or may not be noticed by the allocator.
Fault(next) ==
  /\ faults < MaxFaults
  /\ faults' = faults + 1
  /\ error' = TRUE
  /\ pc' \in (IF error THEN {next, "crashed"} ELSE {next})

NoFault == UNCHANGED faultVars

-----------------------------------------------------------------------------
\* A selection as the hook hands it over: an entry without action was put
\* there by the blocklist.
SelectionInit ==
  /\ action \in [Services -> Actions]
  /\ blocked \in SUBSET {s \in Services : action[s] # "absent"}
  /\ \A s \in Services : action[s] = "none" => s \in blocked

HandlerInit ==
  /\ pc = "create"
  /\ todo = {}
  /\ enabled = {}
  /\ results = [s \in Services |-> <<>>]
  /\ error = FALSE
  /\ faults = 0

Init == MonitorInit /\ SelectionInit /\ HandlerInit

-----------------------------------------------------------------------------
(* services_result_create, process_monitor_create *)

Create ==
  /\ pc = "create"
  /\ pc' = "probe"
  /\ todo' = Selected
  /\ NoFault
  /\ UNCHANGED <<monitorVars, selectionVars, enabled, results>>

\* An allocation fails: NULL is returned.  When kqueue fails, the NULL
\* monitor is dereferenced (hashtable_init follows the failure path).
CreateFails ==
  /\ pc = "create"
  /\ \E outcome \in {"null", "crashed"} : Fault(outcome)
  /\ UNCHANGED <<monitorVars, selectionVars, todo, enabled, results>>

-----------------------------------------------------------------------------
(* First loop: "service X enabled" *)

SkipBlocked(s) ==
  /\ pc = "probe"
  /\ s \in todo \cap blocked
  /\ todo' = todo \ {s}
  /\ Add(s, "blocked")
  /\ NoFault
  /\ UNCHANGED <<monitorVars, selectionVars, pc, enabled>>

StartProbe(s) ==
  /\ pc = "probe"
  /\ s \in todo \ blocked
  /\ todo' = todo \ {s}
  /\ \/ Exec(Probe(s)) /\ NoFault /\ UNCHANGED pc
     \/ ExecUnregistered(Probe(s)) /\ Fault("probe")
     \/ ExecUncounted(Probe(s)) /\ Fault("probe")
  /\ UNCHANGED <<selectionVars, enabled, results>>

\* process_monitor_exec returns false (argv_copy or fork failed): the loop
\* is left, the services not visited yet are forgotten.
StartProbeFails(s) ==
  /\ pc = "probe"
  /\ s \in todo \ blocked
  /\ todo' = {}
  /\ Fault("probe")
  /\ UNCHANGED <<monitorVars, selectionVars, enabled, results>>

AwaitProbes ==
  /\ pc = "probe"
  /\ todo = {}
  /\ pc' = "awaitProbe"
  /\ Await
  /\ NoFault
  /\ UNCHANGED <<selectionVars, todo, enabled, results>>

-----------------------------------------------------------------------------
(* The callbacks *)

\* Mutant of Exited: the status of the probe is not looked at.
ExitedWhateverStatus(c) ==
  LET s == c[2] IN
  IF pc = "awaitProbe"
  THEN enabled' = enabled \cup {s} /\ UNCHANGED results
  ELSE /\ Add(s, IF ExitStatusIsZero(c) THEN "success" ELSE "failed")
       /\ UNCHANGED enabled

\* handle_enabled_exited and handle_restart_stop_exited
Exited(c) ==
  LET s == c[2] IN
  IF pc = "awaitProbe"
  THEN /\ enabled' = IF ExitStatusIsZero(c) THEN enabled \cup {s} ELSE enabled
       /\ UNCHANGED results
  ELSE /\ Add(s, IF ExitStatusIsZero(c) THEN "success" ELSE "failed")
       /\ UNCHANGED enabled

\* Mutant of Hanging: the same callback for both stages.
HangingAlwaysFailed(c) == Add(c[2], "failed")

\* handle_enabled_hanging and handle_restart_stop_hanging
Hanging(c) ==
  Add(c[2], IF pc = "awaitProbe" THEN "probing_failed" ELSE "failed")

-----------------------------------------------------------------------------
(* process_monitor_await, in either stage *)

Awaiting == pc \in {"awaitProbe", "awaitAct"}

AwaitLoop ==
  /\ Awaiting
  /\ Check
  /\ NoFault
  /\ UNCHANGED <<selectionVars, handlerVars>>

\* The callback is called only for a pid the table knows.
ChildExited(c) ==
  /\ Awaiting
  /\ Unregister(c)
  /\ IF c \in children THEN Exited(c) ELSE UNCHANGED <<enabled, results>>
  /\ NoFault
  /\ UNCHANGED <<selectionVars, pc, todo>>

AwaitEnds ==
  /\ Awaiting
  /\ \/ WaitTimesOut /\ NoFault /\ UNCHANGED pc
     \/ WaitFails /\ Fault(pc)
  /\ UNCHANGED <<selectionVars, todo, enabled, results>>

\* hanging is called before kill, whatever kill returns.
ChildHangs(c) ==
  /\ Awaiting
  /\ \/ Kill(c) /\ NoFault /\ UNCHANGED pc
     \/ KillFails(c) /\ Fault(pc)
  /\ Hanging(c)
  /\ UNCHANGED <<selectionVars, todo, enabled>>

AwaitReturns ==
  /\ Awaiting
  /\ SweepEnds
  /\ NoFault
  /\ UNCHANGED <<selectionVars, handlerVars>>

-----------------------------------------------------------------------------
(* Second loop: "service X stop" or "service X restart" *)

\* Mutant of Proceed: the second loop goes through the whole selection.
ProceedWithAll ==
  /\ pc = "awaitProbe"
  /\ Clear
  /\ pc' = "act"
  /\ todo' = Selected \ blocked
  /\ enabled' = {}
  /\ NoFault
  /\ UNCHANGED <<selectionVars, results>>

\* The first await is over: clear, then go through the enabled services.
Proceed ==
  /\ pc = "awaitProbe"
  /\ Clear
  /\ pc' = "act"
  /\ todo' = enabled
  /\ enabled' = {}
  /\ NoFault
  /\ UNCHANGED <<selectionVars, results>>

StartAct(s) ==
  /\ pc = "act"
  /\ s \in todo
  /\ todo' = todo \ {s}
  /\ \/ Exec(Act(s)) /\ NoFault /\ UNCHANGED pc
     \/ ExecUnregistered(Act(s)) /\ Fault("act")
     \/ ExecUncounted(Act(s)) /\ Fault("act")
  /\ UNCHANGED <<selectionVars, enabled, results>>

StartActFails(s) ==
  /\ pc = "act"
  /\ s \in todo
  /\ todo' = {}
  /\ Fault("act")
  /\ UNCHANGED <<monitorVars, selectionVars, enabled, results>>

AwaitActs ==
  /\ pc = "act"
  /\ todo = {}
  /\ pc' = "awaitAct"
  /\ Await
  /\ NoFault
  /\ UNCHANGED <<selectionVars, todo, enabled, results>>

Return ==
  /\ pc = "awaitAct"
  /\ Clear
  /\ pc' = "done"
  /\ NoFault
  /\ UNCHANGED <<selectionVars, todo, enabled, results>>

-----------------------------------------------------------------------------
Handler ==
  \/ Create \/ CreateFails
  \/ \E s \in Services : \/ SkipBlocked(s)
                         \/ StartProbe(s) \/ StartProbeFails(s)
                         \/ StartAct(s)   \/ StartActFails(s)
  \/ AwaitProbes \/ Proceed \/ AwaitActs \/ Return
  \/ AwaitLoop \/ AwaitEnds \/ AwaitReturns
  \/ \E c \in Pids : ChildExited(c) \/ ChildHangs(c)

\* A child may end at any time, also after the handler is over.
KernelChild ==
  /\ \E c \in Pids : ChildEnds(c)
  /\ UNCHANGED <<selectionVars, handlerVars, faultVars>>

Clock ==
  /\ Awaiting
  /\ Tick
  /\ UNCHANGED <<selectionVars, handlerVars, faultVars>>

Next == Handler \/ KernelChild \/ Clock

\* The handler is never blocked for ever by its own code and time passes;
\* nothing obliges a child to end.
Fairness == WF_vars(Handler) /\ WF_vars(Clock)

Spec == Init /\ [][Next]_vars /\ Fairness

-----------------------------------------------------------------------------
(* Properties *)

TypeOK ==
  /\ MonitorTypeOK
  /\ action \in [Services -> Actions]
  /\ blocked \subseteq Services
  /\ pc \in Places
  /\ todo \subseteq Services
  /\ enabled \subseteq Services
  /\ results \in [Services -> Seq(Statuses)]
  /\ error \in BOOLEAN
  /\ faults \in 0 .. MaxFaults

\* No service is ever given two outcomes: neither an answer and a time-out
\* of the same command, nor one from each of the two stages
\* (services_selection_handle, process_monitor_await).
OneOutcome == \A s \in Services : Len(results[s]) <= 1

\* A service is stopped or restarted only after its probe was reaped and did
\* not end with a failure, and never when it is blocked: neither a slow probe
\* nor a stray event of the first stage leads to an action in the second.
ActsOnlyOnEnabled ==
  \A s \in Services :
    os[Act(s)] # "none" =>
      /\ s \notin blocked
      /\ action[s] \in {"stop", "restart"}
      /\ os[Probe(s)] = "reaped"
      /\ ending[Probe(s)] # "failure"

\* What is reported is what happened: "success" and "failed" after the
\* action ended so (or was cut by SIGTERM or a failed call), a failed probing
\* only for a probe that was given up, "blocked" only for a blocked service.
\* Not so of an action ended by a signal, which this property leaves aside: the
\* code reports it as a success (SuccessMeansSuccess, below).
OutcomeJustified ==
  \A s \in Services : \A i \in DOMAIN results[s] :
    CASE results[s][i] = "success" ->
           os[Act(s)] = "reaped" /\ ending[Act(s)] # "failure"
      [] results[s][i] = "failed" ->
           \/ os[Act(s)] = "reaped" /\ ending[Act(s)] = "failure"
           \/ Act(s) \in sigterm
           \/ faults > 0 /\ os[Act(s)] # "none"
      [] results[s][i] = "probing_failed" ->
           Probe(s) \in sigterm \/ faults > 0
      [] OTHER -> s \in blocked

\* When no call fails, no child is left behind: each one was reaped or told
\* to terminate before the handler returns.
NoChildLeftBehind ==
  (pc = "done" /\ faults = 0) =>
    \A c \in Pids : os[c] \in {"none", "reaped"} \/ c \in sigterm

\* The counter never exceeds the number of children still to be heard of, so
\* that await never waits for the deadline once all of them have answered.
CounterCoveredByTable == active_children_count <= Cardinality(Live)

\* A command is cut short before the deadline only after a call failed or,
\* in the second stage, after a probe of the first one was given up.
CutShortOnlyAfterHang ==
  (step = "sweep" /\ Live # {} /\ elapsed < Timeout) =>
    \/ faults > 0
    \/ pc = "awaitAct" /\ \E s \in Services : Probe(s) \in sigterm

\* The handler always returns, whatever the children do.
Termination == <>(pc \in {"done", "null", "crashed"})

-----------------------------------------------------------------------------
(***************************************************************************)
(* The inductive invariant behind TypeOK, OneOutcome and                   *)
(* ActsOnlyOnEnabled (proved in ServiceRunnerProofs).                      *)
(***************************************************************************)

\* The table against the kernel: a child of the table was started, its exited
\* flag says whether it was reaped, and it was not killed before the sweep.
TableInv ==
  /\ step = "wait" => active_children_count > 0
  /\ \A c \in children : os[c] # "none" /\ (c \in exited <=> os[c] = "reaped")
  /\ \A c \in sigterm : os[c] # "none"
  /\ step \in {"idle", "check", "wait"} => children \cap sigterm = {}

\* The table only holds the children of the current stage, and a service the
\* loop has still to visit has no child of that stage.  The list of enabled
\* services is filled and emptied by the first await only.
StageInv ==
  /\ pc \in {"create", "probe", "awaitProbe"} =>
       \A s \in Services : Act(s) \notin children /\ os[Act(s)] = "none"
  /\ pc \in {"act", "awaitAct"} => \A s \in Services : Probe(s) \notin children
  /\ pc = "create" => \A s \in Services : os[Probe(s)] = "none"
  /\ pc = "probe" => \A s \in todo : os[Probe(s)] = "none"
  /\ pc = "act" => \A s \in todo : os[Act(s)] = "none"
  /\ pc \in {"create", "probe", "act", "awaitAct"} => enabled = {}

\* Only a selected service that is not blocked is probed; an entry without
\* action is blocked.
SelectionInv ==
  /\ \A s \in Services : action[s] = "none" => s \in blocked
  /\ pc = "probe" => todo \subseteq Selected
  /\ \A s \in Services : os[Probe(s)] # "none" => s \in Selected \ blocked

\* The services found enabled and not acted on yet.
Waiting == enabled \cup (IF pc = "act" THEN todo ELSE {})

EnabledInv ==
  \A s \in Waiting :
    os[Probe(s)] = "reaped" /\ ending[Probe(s)] # "failure"

\* A service for which a callback can still be called has no outcome yet.
OpenInv ==
  /\ pc = "create" => \A s \in Services : results[s] = <<>>
  /\ pc = "probe" => \A s \in todo : results[s] = <<>>
  /\ \A s \in Waiting : results[s] = <<>>
  /\ step # "returned" => \A c \in Live \ sigterm : results[c[2]] = <<>>

IInv ==
  /\ TypeOK
  /\ TableInv
  /\ StageInv
  /\ SelectionInv
  /\ EnabledInv
  /\ OpenInv
  /\ OneOutcome
  /\ ActsOnlyOnEnabled

-----------------------------------------------------------------------------
(* What the comments of the code say *)

\* A command is given SERVICE_TIMEOUT seconds before it is killed.
FullTimeoutBeforeKill ==
  (step = "sweep" /\ Live # {} /\ faults = 0) => elapsed = Timeout

\* SERVICES_RESULT_SUCCESS: "service X (stop|restart) returned EXIT_SUCCESS".
\* (Not when it returned nothing: WEXITSTATUS is 0 for a command ended by a signal.)
SuccessMeansSuccess ==
  \A s \in Services : \A i \in DOMAIN results[s] :
    results[s][i] = "success" => ending[Act(s)] = "success"

-----------------------------------------------------------------------------
(* The abstract specification *)

Outcome(s) ==
  IF faults > 0 THEN "unknown"
  ELSE IF action[s] = "absent" THEN "unselected"
  ELSE IF results[s] # <<>> THEN Head(results[s])
  ELSE IF os[Act(s)] # "none" THEN "acting"
  ELSE IF s \in enabled \/ (pc = "act" /\ s \in todo) THEN "enabled"
  ELSE IF os[Probe(s)] = "reaped" THEN "disabled"
  ELSE IF os[Probe(s)] # "none" THEN "probing"
  ELSE IF pc # "create" /\ s \notin todo THEN "blocked"
  ELSE "pending"

Promise == INSTANCE ServiceOutcomes WITH
  outcome <- [s \in Services |-> Outcome(s)],
  stage <- IF faults > 0 THEN "broken"
           ELSE IF pc \in {"create", "probe", "awaitProbe"} THEN "probing"
           ELSE IF pc \in {"act", "awaitAct"} THEN "acting"
           ELSE "over"

\* As long as no call fails, the handler implements the two-stage promise.
KeepsPromise == Promise!Spec

=============================================================================

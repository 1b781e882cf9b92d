--------------------------- MODULE ProcessMonitor ---------------------------
(***************************************************************************)
(* plugins/services/process_monitor.c: child processes started with        *)
(* fork/exec, watched through one kqueue, awaited with a deadline, the     *)
(* ones that are still running at the end being sent SIGTERM.              *)
(*                                                                         *)
(* The module gives the state and the operations; a client (ServiceRunner) *)
(* combines them with its callbacks.  Between two calls the monitor is     *)
(* "idle"; process_monitor_await goes through "check" (top of its loop),   *)
(* "wait" (blocked in kevent) and "sweep" (the loop after label end) and   *)
(* comes back to "returned".                                               *)
(***************************************************************************)
EXTENDS Integers, FiniteSets

CONSTANTS Pids,       \* the children that may be started, one pid each
          Timeout     \* the timeout given to process_monitor_await (the
                      \* services plugin: SERVICE_TIMEOUT), in ticks

ASSUME PidsAssumption == IsFiniteSet(Pids)
ASSUME TimeoutAssumption == Timeout \in Nat \ {0}

VARIABLES
  os,        \* what the kernel knows of each child
  ending,    \* how a child ended
  sigterm,   \* the children SIGTERM was sent to
  kq,        \* the children a NOTE_EXIT registration exists for
  children,  \* the keys of pm->children
  exited,    \* the children of the table whose exited flag is set
  active_children_count,
  step,      \* where process_monitor_await is
  elapsed    \* time since process_monitor_await was called

kernelVars == <<os, ending, sigterm>>
tableVars  == <<kq, children, exited, active_children_count>>
awaitVars  == <<step, elapsed>>
monitorVars == <<kernelVars, tableVars, awaitVars>>

OsStates == {"none", "running", "zombie", "reaped"}
Endings  == {"success", "failure", "signal"}
Steps    == {"idle", "check", "wait", "sweep", "returned"}

MonitorTypeOK ==
  /\ os \in [Pids -> OsStates]
  /\ ending \in [Pids -> Endings \cup {"none"}]
  /\ sigterm \subseteq Pids
  /\ kq \subseteq Pids
  /\ children \subseteq Pids
  /\ exited \subseteq children
  /\ active_children_count \in Nat
  /\ step \in Steps
  /\ elapsed \in 0 .. Timeout

\* An empty monitor: process_monitor_create, no child ever started.
MonitorInit ==
  /\ os = [c \in Pids |-> "none"]
  /\ ending = [c \in Pids |-> "none"]
  /\ sigterm = {}
  /\ kq = {}
  /\ children = {}
  /\ exited = {}
  /\ active_children_count = 0
  /\ step = "idle"
  /\ elapsed = 0

-----------------------------------------------------------------------------
(* Helpers *)

\* The children of the table the monitor still believes to be running.
Live == children \ exited

\* The exit events kevent would return: the child is dead and registered.
Events == {c \in kq : os[c] = "zombie"}

\* WEXITSTATUS of the word waitpid filled: zero for a child a signal ended.
ExitStatusIsZero(c) == ending[c] # "failure"

-----------------------------------------------------------------------------
(* The kernel and the clock *)

\* A running child ends by itself or because of a signal (a SIGTERM of the
\* monitor or any other one); it can also catch SIGTERM and exit normally.
ChildEnds(c) ==
  /\ os[c] = "running"
  /\ os' = [os EXCEPT ![c] = "zombie"]
  /\ \E how \in Endings : ending' = [ending EXCEPT ![c] = how]
  /\ UNCHANGED <<sigterm, tableVars, awaitVars>>

Tick ==
  /\ step \in {"check", "wait"}
  /\ elapsed < Timeout
  /\ elapsed' = elapsed + 1
  /\ UNCHANGED <<kernelVars, tableVars, step>>

-----------------------------------------------------------------------------
(* process_monitor_exec: fork, then register_pid *)

Fork(c) ==
  /\ os[c] = "none"
  /\ os' = [os EXCEPT ![c] = "running"]
  /\ UNCHANGED <<ending, sigterm>>

\* Mutant of Exec: the child is registered but not counted.
ExecWithoutCounting(c) ==
  /\ Fork(c)
  /\ kq' = kq \cup {c}
  /\ children' = children \cup {c}
  /\ UNCHANGED <<active_children_count, exited, awaitVars>>

\* fork and register_pid both succeed.
Exec(c) ==
  /\ Fork(c)
  /\ kq' = kq \cup {c}
  /\ children' = children \cup {c}
  /\ active_children_count' = active_children_count + 1
  /\ UNCHANGED <<exited, awaitVars>>

\* The child runs but kevent refused the registration: it is not monitored.
\* process_monitor_exec ignores the result of register_pid.
ExecUnregistered(c) ==
  /\ Fork(c)
  /\ UNCHANGED <<tableVars, awaitVars>>

\* The registration was made but the child_t could not be allocated: the
\* child is neither counted nor in the table.
ExecUncounted(c) ==
  /\ Fork(c)
  /\ kq' = kq \cup {c}
  /\ UNCHANGED <<children, exited, active_children_count, awaitVars>>

-----------------------------------------------------------------------------
(* process_monitor_await *)

Await ==
  /\ step = "idle"
  /\ step' = "check"
  /\ elapsed' = 0
  /\ UNCHANGED <<kernelVars, tableVars>>

\* Top of the loop: nothing to wait for, or the deadline has passed.
Check ==
  /\ step = "check"
  /\ step' = IF active_children_count = 0 \/ elapsed = Timeout
             THEN "sweep" ELSE "wait"
  /\ UNCHANGED <<kernelVars, tableVars, elapsed>>

\* kevent returns an exit event and unregister_pid handles it: the
\* registration is deleted, the counter decremented and the child reaped
\* whether or not the table knows the pid.
Unregister(c) ==
  /\ step = "wait"
  /\ c \in Events
  /\ kq' = kq \ {c}
  /\ active_children_count' = active_children_count - 1
  /\ os' = [os EXCEPT ![c] = "reaped"]
  /\ exited' = IF c \in children THEN exited \cup {c} ELSE exited
  /\ step' = "check"
  /\ UNCHANGED <<ending, sigterm, children, elapsed>>

\* Mutant of WaitTimesOut: kevent is called without a timeout.
WaitForEver == FALSE

\* kevent returns 0: the time is over and there is no event.
WaitTimesOut ==
  /\ step = "wait"
  /\ elapsed = Timeout
  /\ Events = {}
  /\ step' = "sweep"
  /\ UNCHANGED <<kernelVars, tableVars, elapsed>>

\* kevent fails with something else than EINTR (EINTR only loops).
WaitFails ==
  /\ step = "wait"
  /\ step' = "sweep"
  /\ UNCHANGED <<kernelVars, tableVars, elapsed>>

\* Mutant of Kill: the exited flag is not looked at.
KillEveryone(c) ==
  /\ step = "sweep"
  /\ c \in children \ sigterm
  /\ sigterm' = sigterm \cup {c}
  /\ UNCHANGED <<os, ending, tableVars, awaitVars>>

\* One turn of the loop after label end, on a child not marked as exited:
\* it is sent SIGTERM (ESRCH is ignored).
Kill(c) ==
  /\ step = "sweep"
  /\ c \in Live \ sigterm
  /\ sigterm' = sigterm \cup {c}
  /\ UNCHANGED <<os, ending, tableVars, awaitVars>>

\* kill fails for another reason than ESRCH: the loop is left.
KillFails(c) ==
  /\ step = "sweep"
  /\ c \in Live \ sigterm
  /\ step' = "returned"
  /\ UNCHANGED <<kernelVars, tableVars, elapsed>>

\* Mutant of SweepEnds: the loop is left before its end.
SweepAbandoned ==
  /\ step = "sweep"
  /\ step' = "returned"
  /\ UNCHANGED <<kernelVars, tableVars, elapsed>>

SweepEnds ==
  /\ step = "sweep"
  /\ Live \subseteq sigterm
  /\ step' = "returned"
  /\ UNCHANGED <<kernelVars, tableVars, elapsed>>

-----------------------------------------------------------------------------
\* Mutant of Clear: the counter is not reset.
ClearTableOnly ==
  /\ step = "returned"
  /\ step' = "idle"
  /\ children' = {}
  /\ exited' = {}
  /\ UNCHANGED <<kernelVars, kq, active_children_count, elapsed>>

\* process_monitor_clear, once await has returned: the table is emptied and
\* the counter reset; the registrations of the kqueue are left as they are.
Clear ==
  /\ step = "returned"
  /\ step' = "idle"
  /\ children' = {}
  /\ exited' = {}
  /\ active_children_count' = 0
  /\ UNCHANGED <<kernelVars, kq, elapsed>>

=============================================================================

-------------------------- MODULE BootEnvironments --------------------------
(***************************************************************************)
(* The zint plugin with its boot environment method: the pkg commands of a *)
(* machine over time (plugins/zfs_integration/plugin_zfs_integration.c),   *)
(* each of which purges the boot environments (BE) the plugin made, makes  *)
(* one before or after its jobs, or rolls back to the latest               *)
(* (be_method.c); what libbe, libpkg and the loader do is external.        *)
(***************************************************************************)
EXTENDS Retention

CONSTANTS Pkgs,        \* the pkg processes that may run at the same time
          Commands,    \* the commands that have hooks: install, upgrade, ...
          On,          \* ON: the events, <<"pre" or "post", command>>
          Forced,      \* FORCE
          Setting,     \* RETENTION
          Start,       \* the time at first
          MaxTime,     \* bound on the time
          MaxChanges,  \* bound on the number of commands that change packages
          Faults       \* do libbe and libzfs also fail for no modelled reason?

ASSUME OnAssumption == On \subseteq {"pre", "post"} \X Commands
ASSUME SettingAssumption == Setting \in Settings
ASSUME TimeAssumption == MaxTime \in Nat /\ MaxTime < Word /\ Start \in 1 .. MaxTime
ASSUME BooleanAssumption == Forced \in BOOLEAN /\ Faults \in BOOLEAN
ASSUME MaxChangesAssumption == MaxChanges \in Nat

\* A BE is named after its event and the second it was made in; "default" is
\* the one the system was installed in.
Default == [event |-> <<"none", "none">>, at |-> 0]
Names == {Default} \cup [event : On, at : Start .. MaxTime]
None == [event |-> <<"none", "none">>, at |-> -1]

VARIABLES
  now,
  bes,        \* the BE of the pool, in the order libbe lists them
  versioned,  \* those that have the property zint:version
  hooked,     \* ... zint:hook
  content,    \* the packages in each: how many commands have changed them
  booted, bootfs, once, \* BE: running, to boot, to boot the next time only
  pc, command, jobs,    \* per process; jobs: does the command change anything?
  retention,  \* what retention_parse made of RETENTION
  seen,       \* the BE be_get_bootenv_props returned
  doomed,     \* what is left for purge_snapshots to destroy
  target,     \* the BE the process is making, or is rolling back to
  backed,     \* has the hook that runs before the jobs made its BE?
  undo        \* (history) the packages before the last command that was preceded
              \* by a BE and went to its end, if no other change came since

poolVars == <<bes, versioned, hooked, content>>
bootVars == <<booted, bootfs, once>>
processVars == <<pc, command, jobs, retention, seen, doomed, target, backed>>
zintVars == <<now, poolVars, bootVars, processVars, undo>>

Existing == Range(bes)
Tagged == versioned \cap hooked
Snapshot(b) == [name |-> b, creation |-> b.at]

Locked == {"before", "version", "hook", "execute", "after"}
Init ==
  /\ now = Start
  /\ bes = <<Default>>
  /\ versioned = {}
  /\ hooked = {}
  /\ content = [b \in Names |-> 0]
  /\ booted = Default /\ bootfs = Default /\ once = None
  /\ pc = [p \in Pkgs |-> "idle"]
  /\ command = [p \in Pkgs |-> "other"]
  /\ jobs = [p \in Pkgs |-> FALSE]
  /\ retention = [p \in Pkgs |-> Disabled]
  /\ seen = [p \in Pkgs |-> <<>>]
  /\ doomed = [p \in Pkgs |-> <<>>]
  /\ target = [p \in Pkgs |-> None]
  /\ backed = [p \in Pkgs |-> FALSE]
  /\ undo = -1

Goto(p, label) == pc' = [pc EXCEPT ![p] = label]

\* The process is over: what it held is forgotten.
Forget(p) ==
  /\ command' = [command EXCEPT ![p] = "other"]
  /\ jobs' = [jobs EXCEPT ![p] = FALSE]
  /\ retention' = [retention EXCEPT ![p] = Disabled]
  /\ seen' = [seen EXCEPT ![p] = <<>>]
  /\ doomed' = [doomed EXCEPT ![p] = <<>>]
  /\ target' = [target EXCEPT ![p] = None]
  /\ backed' = [backed EXCEPT ![p] = FALSE]

-----------------------------------------------------------------------------
(* pkg_plugin_init *)

\* "rollback" stands for pkg zint rollback, "other" for a command that has no
\* hook.  With a malformed RETENTION or no event in ON the initialisation
\* fails: libpkg goes on without the plugin.
InitPlugin(p) ==
  /\ pc[p] = "idle"
  /\ \E c \in Commands \cup {"rollback", "other"}, j \in BOOLEAN :
       /\ j => /\ c \in Commands
               /\ content[booted] + Cardinality({q \in Pkgs : jobs[q]}) < MaxChanges
       /\ command' = [command EXCEPT ![p] = c]
       /\ jobs' = [jobs EXCEPT ![p] = j]
  /\ retention' = [retention EXCEPT ![p] = RetentionParse(Setting, now)]
  /\ retention'[p] # Malformed
  /\ On # {}
  /\ \/ Goto(p, "list")
     \* prober_create fails: the status is still the one of the last hook
     \/ Faults /\ Goto(p, "methodless")
  /\ UNCHANGED <<now, poolVars, bootVars, seen, doomed, target, backed, undo>>

\* method is NULL: the hook or the command of the plugin dereferences it.
Methodless(p) ==
  /\ pc[p] = "methodless"
  /\ Goto(p, "idle")
  /\ Forget(p)
  /\ UNCHANGED <<now, poolVars, bootVars, undo>>

-----------------------------------------------------------------------------
(* be_list, for purge_snapshots and for pkg_zint_main *)

ListNames(p) ==
  /\ \/ pc[p] = "list" /\ Goto(p, "inspect")
     \/ pc[p] = "relist" /\ Goto(p, "reinspect")
  /\ seen' = [seen EXCEPT ![p] = bes]
  /\ UNCHANGED <<now, poolVars, bootVars, command, jobs, retention, doomed,
                 target, backed, undo>>

\* Mutant of ListOf: the properties are not looked at.
ListOfAll(p) == [i \in DOMAIN seen[p] |-> Snapshot(seen[p][i])]

\* The BE of the plugin among those seen, in the order of libbe: those
\* has_zfs_properties finds both properties on.  It would give them to a BE
\* named pkg_pre_upgrade_..., but what it compares is the name of the dataset,
\* with its pool.
ListOf(p) ==
  LET ours == {i \in DOMAIN seen[p] : seen[p][i] \in Tagged}
      nth(n) == CHOOSE i \in ours : Cardinality({j \in ours : j < i}) = n - 1
  IN  [n \in 1 .. Cardinality(ours) |-> Snapshot(seen[p][nth(n)])]

ListFails(p) ==
  /\ Faults \/ ~(Range(seen[p]) \subseteq Existing)
  /\ \/ pc[p] = "inspect" /\ Goto(p, "ready")
     \/ pc[p] = "reinspect" /\ Goto(p, "idle")
  /\ seen' = [seen EXCEPT ![p] = <<>>]
  /\ UNCHANGED <<now, poolVars, bootVars, command, jobs, retention, doomed,
                 target, backed, undo>>

\* Going through what is seen stops at a BE that is gone.
ListSucceeds(p) ==
  /\ Range(seen[p]) \subseteq Existing
  /\ seen' = [seen EXCEPT ![p] = <<>>]

-----------------------------------------------------------------------------
(* purge_snapshots *)

SelectDoomed(p) ==
  /\ pc[p] = "inspect"
  /\ ListSucceeds(p)
  /\ doomed' = [doomed EXCEPT ![p] = Doomed(retention[p], ListOf(p))]
  /\ Goto(p, "destroy")
  /\ UNCHANGED <<now, poolVars, bootVars, command, jobs, retention, target,
                 backed, undo>>

\* be_destroy refuses the BE that runs and the one to boot.
Destroyable(b) == b \in Existing /\ b \notin {booted, bootfs}

Discard(b) ==
  /\ bes' = RemoveAt(bes, CHOOSE i \in DOMAIN bes : bes[i] = b)
  /\ versioned' = versioned \ {b}
  /\ hooked' = hooked \ {b}
  /\ content' = [content EXCEPT ![b] = 0]

DestroyOldest(p) ==
  /\ pc[p] = "destroy"
  /\ doomed[p] # <<>>
  /\ Destroyable(Last(doomed[p]).name)
  /\ Discard(Last(doomed[p]).name)
  /\ doomed' = [doomed EXCEPT ![p] = Front(@)]
  /\ UNCHANGED <<now, bootVars, pc, command, jobs, retention, seen, target,
                 backed, undo>>

\* Mutant of PurgeEnds: a BE that cannot be destroyed is tried again.
PurgeEndsWhenEmpty(p) ==
  /\ pc[p] = "destroy"
  /\ doomed[p] = <<>>
  /\ Goto(p, "ready")
  /\ UNCHANGED <<now, poolVars, bootVars, command, jobs, retention, seen,
                 doomed, target, backed, undo>>

\* The first failure ends the purge; pkg_plugin_init does not look at it.
PurgeEnds(p) ==
  /\ pc[p] = "destroy"
  /\ doomed[p] # <<>> => (Faults \/ ~Destroyable(Last(doomed[p]).name))
  /\ doomed' = [doomed EXCEPT ![p] = <<>>]
  /\ Goto(p, "ready")
  /\ UNCHANGED <<now, poolVars, bootVars, command, jobs, retention, seen,
                 target, backed, undo>>

-----------------------------------------------------------------------------
(* The command *)

Exit(p) ==
  /\ Goto(p, "idle")
  /\ Forget(p)
  /\ UNCHANGED <<now, poolVars, bootVars, undo>>

\* A command that changes packages runs under the lock of the database of pkg,
\* or gives up.
Begin(p) ==
  /\ pc[p] = "ready"
  /\ command[p] \in Commands
  /\ \A q \in Pkgs : pc[q] \notin Locked
  /\ Goto(p, "before")
  /\ UNCHANGED <<now, poolVars, bootVars, command, jobs, retention, seen,
                 doomed, target, backed, undo>>

GiveUp(p) ==
  /\ pc[p] = "ready"
  /\ \/ command[p] = "other"
     \/ command[p] \in Commands /\ \E q \in Pkgs : pc[q] \in Locked
  /\ Exit(p)

BeginRollback(p) ==
  /\ pc[p] = "ready"
  /\ command[p] = "rollback"
  /\ Goto(p, "relist")
  /\ UNCHANGED <<now, poolVars, bootVars, command, jobs, retention, seen,
                 doomed, target, backed, undo>>

-----------------------------------------------------------------------------
(* real_handle_hooks, take_snapshot and be_take_snapshot *)

When(p) == IF pc[p] = "before" THEN "pre" ELSE "post"
Event(p) == <<When(p), command[p]>>
Wanted(p) == Event(p) \in On /\ (jobs[p] \/ Forced)

\* libpkg does not look at what a hook returns: after the hooks that run
\* before the jobs come the jobs, after the others the command is over.
HookReturns(p, when, ok) ==
  IF when = "pre"
  THEN /\ Goto(p, "execute")
       /\ backed' = [backed EXCEPT ![p] = ok]
       /\ target' = [target EXCEPT ![p] = None]
       /\ UNCHANGED <<command, jobs, retention, seen, doomed>>
  ELSE Goto(p, "idle") /\ Forget(p)

SkipHook(p) ==
  /\ pc[p] \in {"before", "after"}
  /\ ~Wanted(p)
  /\ HookReturns(p, When(p), FALSE)
  /\ UNCHANGED <<now, poolVars, bootVars, undo>>

CreateBE(p) ==
  LET b == [event |-> Event(p), at |-> now] IN
  /\ pc[p] \in {"before", "after"}
  /\ Wanted(p)
  /\ b \notin Existing
  /\ bes' = Append(bes, b)
  /\ content' = [content EXCEPT ![b] = content[booted]]
  /\ target' = [target EXCEPT ![p] = b]
  /\ undo' = IF When(p) = "pre" THEN -1 ELSE undo
  /\ Goto(p, "version")
  /\ UNCHANGED <<now, versioned, hooked, bootVars, command, jobs, retention,
                 seen, doomed, backed>>

\* The name is taken, or libbe fails.
CreateFails(p) ==
  /\ pc[p] \in {"before", "after"}
  /\ Wanted(p)
  /\ Faults \/ [event |-> Event(p), at |-> now] \in Existing
  /\ HookReturns(p, When(p), FALSE)
  /\ undo' = -1
  /\ UNCHANGED <<now, poolVars, bootVars>>

SetVersion(p) ==
  /\ pc[p] = "version"
  /\ target[p] \in Existing
  /\ versioned' = versioned \cup {target[p]}
  /\ Goto(p, "hook")
  /\ UNCHANGED <<now, bes, hooked, content, bootVars, command, jobs, retention,
                 seen, doomed, target, backed, undo>>

SetHook(p) ==
  /\ pc[p] = "hook"
  /\ target[p] \in Existing
  /\ hooked' = hooked \cup {target[p]}
  /\ HookReturns(p, target[p].event[1], TRUE)
  /\ UNCHANGED <<now, bes, versioned, content, bootVars, undo>>

\* be_to_fs fails, or setting a property does: then the error is set twice and
\* _error_set frees an address that is not in the heap.
TagFails(p) ==
  /\ pc[p] \in {"version", "hook"}
  /\ Faults \/ target[p] \notin Existing
  /\ \/ HookReturns(p, target[p].event[1], FALSE)
     \/ Goto(p, "idle") /\ Forget(p)
  /\ UNCHANGED <<now, poolVars, bootVars, undo>>

-----------------------------------------------------------------------------
(* libpkg executes the jobs *)

Execute(p) ==
  /\ pc[p] = "execute"
  /\ IF jobs[p]
     THEN /\ content' = [content EXCEPT ![booted] = @ + 1]
          /\ undo' = IF backed[p] THEN content[booted] ELSE -1
     ELSE /\ undo' = IF backed[p] THEN content[booted] ELSE undo
          /\ UNCHANGED content
  /\ Goto(p, "after")
  /\ UNCHANGED <<now, bes, versioned, hooked, bootVars, command, jobs,
                 retention, seen, doomed, target, backed>>

-----------------------------------------------------------------------------
(* pkg zint rollback *)

\* Mutant of Latest: the end of the sorted list.
Earliest(list) == Last(SortDesc(list)).name

\* dlist_sort and dlist_at(l2, 0)
Latest(list) == SortDesc(list)[1].name

SelectLatest(p) ==
  /\ pc[p] = "reinspect"
  /\ ListSucceeds(p)
  /\ ListOf(p) # <<>>
  /\ target' = [target EXCEPT ![p] = Latest(ListOf(p))]
  /\ Goto(p, "activate")
  /\ UNCHANGED <<now, poolVars, bootVars, command, jobs, retention, doomed,
                 backed, undo>>

\* Nothing to roll back to, or -n.
DoNotRollback(p) ==
  /\ pc[p] = "reinspect"
  /\ Range(seen[p]) \subseteq Existing
  /\ Goto(p, "idle")
  /\ Forget(p)
  /\ UNCHANGED <<now, poolVars, bootVars, undo>>

\* be_activate, for good or for the next boot only (-t)
Activate(p) ==
  /\ pc[p] = "activate"
  /\ target[p] \in Existing
  /\ \/ bootfs' = target[p] /\ UNCHANGED <<booted, once>>
     \/ once' = target[p] /\ UNCHANGED <<booted, bootfs>>
  /\ Goto(p, "idle")
  /\ Forget(p)
  /\ UNCHANGED <<now, poolVars, undo>>

\* The command reports the error, and success.
ActivateFails(p) ==
  /\ pc[p] = "activate"
  /\ Faults \/ target[p] \notin Existing
  /\ Exit(p)

-----------------------------------------------------------------------------
(* The machine *)

\* The process is killed, or it crashes: iterator_reject reads an element it
\* has freed for each snapshot it keeps.
Crash(p) ==
  /\ pc[p] # "idle"
  /\ Exit(p)

Reboot ==
  /\ booted' = IF once \in Existing THEN once ELSE bootfs
  /\ once' = None
  /\ pc' = [p \in Pkgs |-> "idle"]
  /\ command' = [p \in Pkgs |-> "other"]
  /\ jobs' = [p \in Pkgs |-> FALSE]
  /\ retention' = [p \in Pkgs |-> Disabled]
  /\ seen' = [p \in Pkgs |-> <<>>]
  /\ doomed' = [p \in Pkgs |-> <<>>]
  /\ target' = [p \in Pkgs |-> None]
  /\ backed' = [p \in Pkgs |-> FALSE]
  /\ undo' = -1
  /\ UNCHANGED <<now, poolVars, bootfs>>

Tick ==
  /\ now < MaxTime
  /\ now' = now + 1
  /\ UNCHANGED <<poolVars, bootVars, processVars, undo>>

Step(p) ==
  \/ Methodless(p) \/ ListNames(p) \/ ListFails(p)
  \/ SelectDoomed(p) \/ DestroyOldest(p) \/ PurgeEnds(p)
  \/ Begin(p) \/ GiveUp(p) \/ BeginRollback(p)
  \/ SkipHook(p) \/ CreateBE(p) \/ CreateFails(p)
  \/ SetVersion(p) \/ SetHook(p) \/ TagFails(p) \/ Execute(p)
  \/ SelectLatest(p) \/ DoNotRollback(p) \/ Activate(p) \/ ActivateFails(p)

Next ==
  \/ \E p \in Pkgs : InitPlugin(p) \/ Step(p) \/ Crash(p)
  \/ Reboot
  \/ Tick

Spec == Init /\ [][Next]_zintVars /\ \A p \in Pkgs : WF_zintVars(Step(p))

-----------------------------------------------------------------------------
(* Properties *)

Destroyed(b) == b \in Existing /\ b \notin Range(bes')

\* has_zfs_properties decides what belongs to the plugin: whatever the
\* processes, the crashes and the failures, a purge never destroys the system
\* that was installed, nor a BE whose making was cut short before both
\* properties were set.
DestroysOnlyItsOwn ==
  [][\A b \in Names : Destroyed(b) => b \in Tagged]_zintVars

\* RETENTION by count, purges of several processes interleaved with each other
\* and with new BE: when one is destroyed, at least N of the plugin that are as
\* recent remain.
KeepsTheLatest ==
  [][\A b \in Names : Destroyed(b) =>
       Cardinality({c \in versioned' \cap hooked' : c.at >= b.at})
         >= Setting.value]_zintVars

\* RETENTION by age: a BE is only destroyed once it is older than the period.
DestroysOnlyTheOld ==
  [][\A b \in Names : Destroyed(b) =>
       b.at < now - Setting.value * Setting.unit]_zintVars

\* pkg zint rollback: the BE it activates holds the packages as they were
\* before the last command that was preceded by a BE, whatever commands, purges,
\* crashes and reboots led there, if the seconds tell the BE apart.
RollbackUndoesTheCommand ==
  \A p \in Pkgs :
    (/\ pc[p] = "activate"
     /\ undo # -1
     /\ \A b \in Existing : b.at = target[p].at => b = target[p])
      => content[target[p]] = undo

\* Every pkg command ends.
CommandsEnd == \A p \in Pkgs : (pc[p] # "idle") ~> (pc[p] = "idle")

=============================================================================

------------------------------- MODULE RawZfs -------------------------------
(***************************************************************************)
(* The zint plugin with plain ZFS snapshots: each pkg command probes the   *)
(* file systems of /, LOCALBASE and PKG_DBDIR (probe.c), chooses a method  *)
(* (suitable of each method), gives their properties to snapshots of an    *)
(* old version (has_zfs_properties), purges the snapshots of every file    *)
(* system (purge_snapshots) and takes new ones, whose two properties are   *)
(* set one after the other (raw_zfs_method.c).  One command at a time;     *)
(* what libzfs (zfs.c) and the kernel do is external.                      *)
(***************************************************************************)
EXTENDS Retention

CONSTANTS Filesystems,
          Layouts,    \* the file system of each path, or NotZfs
          Pool,       \* the pool of each file system
          Above,      \* the file systems each one is below of
          HaveBE,     \* HAVE_BE: is the boot environment method built in?
          Setting,    \* RETENTION
          Rounds,     \* the names given to snapshots: an event and a second each
          MaxSeconds, \* bound on the clock
          Faults      \* may libzfs, libbe and malloc fail?

NotZfs == "not_zfs"
Paths == {"root", "localbase", "pkg_dbdir"}
NoRound == "none"

ASSUME LayoutsAssumption == Layouts \subseteq [Paths -> Filesystems \cup {NotZfs}]
ASSUME TreeAssumption ==
  \A f \in Filesystems : Above[f] \subseteq {g \in Filesystems \ {f} : Pool[g] = Pool[f]}
ASSUME RawSettingAssumption == Setting \in Settings
ASSUME RawBooleanAssumption == HaveBE \in BOOLEAN /\ Faults \in BOOLEAN
ASSUME RoundsAssumption == IsFiniteSet(Rounds) /\ NoRound \notin Rounds
ASSUME MaxSecondsAssumption == MaxSeconds \in Nat

VARIABLES
  layout,    \* one of Layouts
  fs,        \* ptc->paths: what the process has found of it
  pc,
  recursive, \* raw_zfs_context_t
  snapshots, \* the snapshots, <<file system, round>>
  creation,  \* the second each was made in
  versioned, \* those with the property zint:version
  hooked,    \* ... zint:hook
  now,       \* the clock, in seconds
  named,     \* the second in the name of a round, 0 for one not begun yet
  round,     \* the round being taken
  upgrades,  \* the rounds that are named pkg_pre_upgrade_...
  todo,      \* the file systems left to snapshot, in order
  unlisted,  \* the file systems left to list
  unpurged,  \* ... to purge
  clean,     \* (history) nothing has failed since the command began
  made,      \* (history) the last second a snapshot of each round was made in
  complete   \* (history) the rounds reported as successful: the file systems
             \* each was about, none if it did not take place or was recursive

propertyVars == <<versioned, hooked>>
kernelVars == <<layout, snapshots, creation, propertyVars, made>>
nameVars == <<now, named, upgrades>>
contextVars == <<fs, recursive, round, todo, unlisted, unpurged>>
rawVars == <<kernelVars, nameVars, contextVars, pc, clean, complete>>

OnZfs == {fs[p] : p \in Paths} \ {NotZfs}
Tagged == versioned \cap hooked
Nowhere == [p \in Paths |-> NotZfs]

RawInit ==
  /\ layout \in Layouts
  /\ fs = Nowhere
  /\ pc = "idle"
  /\ recursive = FALSE
  /\ snapshots = {} /\ versioned = {} /\ hooked = {}
  /\ creation = [s \in Filesystems \X Rounds |-> 0]
  /\ now = 1
  /\ named = [r \in Rounds |-> 0]
  /\ round = NoRound
  /\ upgrades = {}
  /\ todo = <<>>
  /\ unlisted = {} /\ unpurged = {}
  /\ clean = TRUE
  /\ made = [r \in Rounds |-> 0]
  /\ complete = [r \in Rounds |-> {}]

\* Time passes.  (The clock is only read then: elsewhere it makes no difference.)
Tick ==
  /\ pc \in {"ready", "snapshot"}
  /\ now < MaxSeconds
  /\ now' = now + 1
  /\ UNCHANGED <<kernelVars, named, upgrades, contextVars, pc, clean, complete>>

\* The process is over, or has died: what it held is forgotten.
Over ==
  /\ pc' = "idle"
  /\ fs' = Nowhere
  /\ recursive' = FALSE
  /\ round' = NoRound
  /\ todo' = <<>> /\ unlisted' = {} /\ unpurged' = {}
  /\ clean' = TRUE
  /\ UNCHANGED nameVars

-----------------------------------------------------------------------------
(* prober_create *)

\* The next pkg command.  A file system that cannot be opened, or wrapped
\* (malloc), is taken for one that is not ZFS.
Probe ==
  /\ pc = "idle"
  /\ \E missed \in IF Faults THEN SUBSET Paths ELSE {{}} :
       /\ fs' = [p \in Paths |-> IF p \in missed THEN NotZfs ELSE layout[p]]
       /\ clean' = (fs' = layout)
  /\ pc' = "probed"
  /\ UNCHANGED <<kernelVars, nameVars, recursive, round, todo, unlisted, unpurged, complete>>

\* malloc, uzfs_init, localbase or pkg_dbdir fails; when it is uzfs_init the
\* process dies of uzfs_fini(NULL), otherwise the hooks are registered and
\* there is no method.
ProbeFails ==
  /\ pc = "idle"
  /\ Faults
  /\ pc' = "methodless"
  /\ clean' = FALSE
  /\ UNCHANGED <<kernelVars, nameVars, contextVars, complete>>

-----------------------------------------------------------------------------
(* find_backup_method *)

SameFs(p, q) == fs[p] = fs[q] /\ fs[p] # NotZfs
SamePool(p, q) == Pool[fs[p]] = Pool[fs[q]]

BESuitable == HaveBE /\ SameFs("root", "localbase") /\ SameFs("root", "pkg_dbdir")

RawSuitable == fs["localbase"] # NotZfs

FindRawMethod ==
  /\ pc = "probed"
  /\ ~BESuitable /\ RawSuitable
  /\ fs["root"] # NotZfs
  /\ recursive' = SamePool("root", "localbase")
  /\ unlisted' = OnZfs
  /\ pc' = "listing"
  /\ UNCHANGED <<kernelVars, nameVars, fs, round, todo, unpurged, clean, complete>>

\* The command goes on with boot environments (see BootEnvironments), without
\* any backup, or dies: uzfs_depth is called even if root.fs is NULL; or the
\* initialisation fails and it goes on without the plugin.
FindOtherwise ==
  /\ pc = "probed"
  /\ \/ BESuitable
     \/ ~RawSuitable
     \/ fs["root"] = NotZfs
     \/ Faults
  /\ Over
  /\ UNCHANGED <<kernelVars, complete>>

-----------------------------------------------------------------------------
(* raw_zfs_list *)

\* The snapshots of f whose name is the one of an upgrade and that have no
\* version.
Adoptable(f) == {s \in snapshots \ versioned : s[1] = f /\ s[2] \in upgrades}

\* has_zfs_properties on each snapshot of a file system; the order of the file
\* systems is the one of a hash table.
ListFilesystem ==
  /\ pc = "listing"
  /\ \E f \in unlisted :
       /\ unlisted' = unlisted \ {f}
       /\ versioned' = versioned \cup Adoptable(f)
       /\ hooked' = hooked \cup Adoptable(f)
  /\ UNCHANGED <<layout, snapshots, creation, made, nameVars, pc, fs, recursive, round, todo,
                 unpurged, clean, complete>>

\* A property cannot be set, a list or an element cannot be allocated, ...:
\* what was reached got its properties, a snapshot may be left with the first
\* one.  If the list is given up, so is the purge.
ListFilesystemFails ==
  /\ pc = "listing"
  /\ Faults
  /\ \E f \in unlisted : \E v \in SUBSET Adoptable(f) : \E h \in SUBSET v :
       /\ versioned' = versioned \cup v
       /\ hooked' = hooked \cup h
       /\ \/ unlisted' = unlisted \ {f} /\ UNCHANGED pc
          \/ unlisted' = {} /\ pc' = "ready"
  /\ clean' = FALSE
  /\ UNCHANGED <<layout, snapshots, creation, made, nameVars, fs, recursive, round, todo,
                 unpurged, complete>>

Listed ==
  /\ pc = "listing"
  /\ unlisted = {}
  /\ unpurged' = OnZfs
  /\ pc' = "purging"
  /\ UNCHANGED <<kernelVars, nameVars, fs, recursive, round, todo, unlisted, clean, complete>>

\* uzfs_iter_snapshots does not say in which order it comes to them.
ListsOf(f) ==
  {[i \in DOMAIN order |-> [name |-> order[i], creation |-> creation[order[i]]]] :
     order \in SetToSeqs({s \in Tagged : s[1] = f})}

-----------------------------------------------------------------------------
(* purge_snapshots, a file system at a time *)

Destroy(gone) ==
  /\ snapshots' = snapshots \ gone
  /\ creation' = [s \in DOMAIN creation |-> IF s \in gone THEN 0 ELSE creation[s]]
  /\ versioned' = versioned \ gone
  /\ hooked' = hooked \ gone

Names(list) == {snap.name : snap \in Range(list)}

\* Mutant of PurgeFilesystem: what one file system keeps counts for the next.
PurgeFilesystemWithoutReset ==
  /\ pc = "purging"
  /\ \E f \in unpurged : \E list \in ListsOf(f) :
       /\ unpurged' = unpurged \ {f}
       /\ Destroy(Names(IF unpurged = OnZfs
                        THEN Doomed(RetentionParse(Setting, 0), list) ELSE list))
  /\ UNCHANGED <<layout, made, nameVars, fs, recursive, round, todo, unlisted, pc, clean,
                 complete>>

\* The state of the retention and "ok" are reset for each file system: the
\* last one to fail to be destroyed (unshared, unmounted or destroyed) only
\* keeps the more recent ones of its own list.
PurgeFilesystem ==
  /\ pc = "purging"
  /\ \E f \in unpurged :
       \E doomed \in {Doomed(RetentionParse(Setting, 0), list) : list \in ListsOf(f)} :
         \E first \in IF Faults THEN 1 .. Len(doomed) + 1 ELSE {1} :
           /\ unpurged' = unpurged \ {f}
           /\ Destroy(Names(SubSeq(doomed, first, Len(doomed))))
           /\ clean' = (clean /\ first = 1)
  /\ UNCHANGED <<layout, made, nameVars, fs, recursive, round, todo, unlisted, pc, complete>>

PurgeEnds ==
  /\ pc = "purging"
  /\ unpurged = {}
  /\ pc' = "ready"
  /\ UNCHANGED <<kernelVars, nameVars, contextVars, clean, complete>>

-----------------------------------------------------------------------------
(* take_snapshot and raw_zfs_snapshot *)

\* Mutant of Targets: PKG_DBDIR is forgotten.
TargetsWithoutDbdir ==
  IF recursive THEN <<fs["root"]>> ELSE <<fs["root"], fs["localbase"]>>

\* / and LOCALBASE are on ZFS, PKG_DBDIR may not be.
Targets ==
  IF recursive THEN <<fs["root"]>>
  ELSE IF fs["pkg_dbdir"] = NotZfs THEN <<fs["root"], fs["localbase"]>>
  ELSE <<fs["root"], fs["localbase"], fs["pkg_dbdir"]>>

\* The hook of an event runs: the round has a new name or, after another command of
\* the same event, one of this second.
TakeSnapshot ==
  /\ pc = "ready"
  /\ \E r \in Rounds :
       /\ round' = r
       /\ \/ /\ named[r] = 0
             /\ named' = [named EXCEPT ![r] = now]
             /\ \/ UNCHANGED upgrades
                \/ upgrades' = upgrades \cup {r} /\ \A q \in upgrades : named[q] # now
          \/ named[r] = now /\ UNCHANGED <<named, upgrades>>
  /\ todo' = Targets
  /\ pc' = "snapshot"
  /\ UNCHANGED <<kernelVars, now, fs, recursive, unlisted, unpurged, clean, complete>>

\* What zfs_snapshot makes: the snapshot of a file system and, if recursive, of
\* those below it.
Made(f) ==
  {<<g, round>> : g \in {f} \cup {g \in Filesystems : recursive /\ f \in Above[g]}}

\* individual_snapshot: uzfs_snapshot.  The second it is made in may be a later one
\* than that of its name, and another one than that of the other file systems.
IndividualSnapshot ==
  /\ pc = "snapshot"
  /\ todo # <<>>
  /\ Made(Head(todo)) \cap snapshots = {}
  /\ snapshots' = snapshots \cup Made(Head(todo))
  /\ creation' = [s \in DOMAIN creation |-> IF s \in Made(Head(todo)) THEN now ELSE creation[s]]
  /\ made' = [made EXCEPT ![round] = now]
  /\ pc' = "version"
  /\ UNCHANGED <<layout, propertyVars, nameVars, contextVars, clean, complete>>

\* set_zfs_properties, on the snapshot of that file system only
SetVersion ==
  /\ pc = "version"
  /\ versioned' = versioned \cup {<<Head(todo), round>>}
  /\ pc' = "hook"
  /\ UNCHANGED <<layout, snapshots, creation, hooked, made, nameVars, contextVars, clean,
                 complete>>

SetHook ==
  /\ pc = "hook"
  /\ hooked' = hooked \cup {<<Head(todo), round>>}
  /\ todo' = Tail(todo)
  /\ pc' = "snapshot"
  /\ UNCHANGED <<layout, snapshots, creation, versioned, made, nameVars, fs, recursive, round,
                 unlisted, unpurged, clean, complete>>

\* The name is taken, or too long, the snapshot cannot be opened, a property
\* cannot be set (then the error is set twice and the process may die), ...:
\* the hook fails, what was done stays.
SnapshotFails ==
  /\ pc \in {"snapshot", "version", "hook"}
  /\ todo # <<>>
  /\ Faults \/ (pc = "snapshot" /\ Made(Head(todo)) \cap snapshots # {})
  /\ Over
  /\ UNCHANGED <<kernelVars, complete>>

SnapshotsTaken ==
  /\ pc = "snapshot"
  /\ todo = <<>>
  /\ complete' = [complete EXCEPT ![round] = IF recursive THEN {} ELSE OnZfs]
  /\ Over
  /\ UNCHANGED kernelVars

\* pkg zint rollback lists the snapshots again, says that the system was rolled
\* back to the latest of each list, and leaves it as it is: raw_zfs_rollback_to
\* is still to be written.
Rollback ==
  /\ pc = "ready"
  /\ \E v \in SUBSET UNION {Adoptable(f) : f \in OnZfs} : \E h \in SUBSET v :
       /\ Faults \/ \A f \in OnZfs : Adoptable(f) \subseteq h
       /\ versioned' = versioned \cup v
       /\ hooked' = hooked \cup h
  /\ Over
  /\ UNCHANGED <<layout, snapshots, creation, made, complete>>

\* The command has nothing to do, or it is killed; without a method the hook
\* reads through a NULL pointer.
Exit ==
  /\ pc \in {"methodless", "listing", "purging", "ready", "snapshot", "version", "hook"}
  /\ Over
  /\ UNCHANGED <<kernelVars, complete>>

RawNext ==
  \/ Tick
  \/ Probe \/ ProbeFails
  \/ FindRawMethod \/ FindOtherwise
  \/ ListFilesystem \/ ListFilesystemFails \/ Listed
  \/ PurgeFilesystem \/ PurgeEnds
  \/ TakeSnapshot \/ IndividualSnapshot \/ SetVersion \/ SetHook
  \/ SnapshotFails \/ SnapshotsTaken
  \/ Rollback
  \/ Exit

RawSpec == RawInit /\ [][RawNext]_rawVars

-----------------------------------------------------------------------------
(* Properties *)

\* RETENTION by count, README.md "only keep the 7 latest": a purge destroys a
\* snapshot only if it has both properties and N others of its file system, not
\* older than it, stay; whatever failed before, on this file system or another,
\* and in whatever order the snapshots of one second are listed.
KeepsTheLatestOfEach ==
  [][\A snap \in snapshots : snap \notin snapshots' =>
       /\ snap \in Tagged
       /\ Cardinality({r \in Rounds \ {snap[2]} :
                         /\ <<snap[1], r>> \in Tagged'
                         /\ creation'[<<snap[1], r>>] >= creation[snap]})
            >= Setting.value]_rawVars

\* ... and after a purge in which nothing failed there are no more than N, those
\* of earlier commands that failed or died included if they were made before an
\* upgrade: the next command finds what has no property by its name.  One whose
\* command failed, or died, between the two properties is lost for ever.
OnlyTheLatestRemain ==
  (pc = "ready" /\ clean) =>
    \A f \in OnZfs :
      Cardinality({r \in Rounds :
        /\ <<f, r>> \in snapshots
        /\ <<f, r>> \in Tagged \/ r \in upgrades
        /\ <<f, r>> \notin versioned \ hooked}) <= Setting.value

\* Separate snapshots: a round that was reported as successful holds each of the
\* paths that was found to be on ZFS, with both properties, and keeps them all
\* while there are fewer than N others with a snapshot made in the second it is
\* named after or later, whatever failed, or stopped half-way, before and after.
\* (Of N + 1 rounds of one second, a purge may keep others on each file system.)
LastRoundsStayWhole ==
  \A r \in Rounds :
    Cardinality({q \in Rounds \ {r} : made[q] >= named[r]}) < Setting.value =>
      \A f \in complete[r] : <<f, r>> \in Tagged

=============================================================================

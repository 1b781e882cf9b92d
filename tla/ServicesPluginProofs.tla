----------------------- MODULE ServicesPluginProofs -----------------------
(***************************************************************************)
(* Proofs about the services plugin, one part for each of its modules.     *)
(*                                                                         *)
(* ServiceHooks, for any scripts, packages, libraries and blocklist, and   *)
(* any number of jobs: what the hook did to the services before their      *)
(* package is removed or after it is upgraded, and what pkg services shows *)
(* while another command changes the system.                               *)
(*                                                                         *)
(* RcOrder, for any set of scripts, names and keywords and any number of   *)
(* options and tokens: its type invariant, the counter of keywords to      *)
(* keep, that no script is printed twice, what is printed and in what      *)
(* order.                                                                  *)
(***************************************************************************)
EXTENDS ServiceHooks, RcOrder, SequenceTheorems, FiniteSetTheorems, WellFoundedInduction, TLAPS

-----------------------------------------------------------------------------
(* ServiceHooks: the inductive invariant *)

Places == {"hook", "scan", "jobs", "handle", "lock", "execute", "done", "dead"}
Outcomes == Settled \cup {"pending", "probing", "enabled", "acting", "unknown"}
JobType == [package : Packages, solved : {"install", "upgrade", "delete"}]
Removing == command \in {"deinstall", "autoremove"}

CommandTypes ==
  /\ command \in Commands
  /\ jobs \in Seq(JobType) /\ Len(jobs) > 0
  /\ \A i, j \in 1 .. Len(jobs) : jobs[i].package = jobs[j].package => i = j
  /\ Removing => \A i \in 1 .. Len(jobs) : jobs[i].solved = "delete"
  /\ place \in Places
  /\ jobsSeen \in 0 .. Len(jobs) /\ executed \in 0 .. Len(jobs)
  /\ installed \subseteq Packages
  /\ action \in [Services -> {"absent", "none", "stop", "restart"}]
  /\ blocked \subseteq Services
  /\ outcome \in [Services -> Outcomes] /\ error \in BOOLEAN

\* The scripts of a database are in the entries of their packages.
Recorded(d) ==
  /\ d.scripts \subseteq Services
  /\ \A p \in DOMAIN d.packages :
       d.packages[p] \in [scripts : SUBSET Services, rshlibs : SUBSET Services]
  /\ \A p \in Packages : ServicesOf(d, p) = {s \in d.scripts : Owner[s] = p}

\* ... and in those of the installed packages they need a library of.
Linked(d, here) ==
  \A p \in Packages : Dependents(d, p) = {s \in d.scripts : p \in Uses[s] \cap here}

\* In which order the hook and the jobs run, and what is not done yet.  The hook
\* only leaves out the jobs with an error.
PlaceInv ==
  /\ (HookedBefore(command) /\ place \in {"hook", "scan", "jobs", "handle", "lock", "dead"})
       => executed = 0
  /\ (~HookedBefore(command) /\ place \in {"hook", "scan", "jobs", "handle"})
       => executed = Len(jobs)
  /\ (place = "hook" \/ (~HookedBefore(command) /\ place \in {"lock", "execute"})) =>
       /\ db = EmptyDb /\ blocked = {}
       /\ \A s \in Services : action[s] = "absent"
  /\ (place \in {"hook", "scan"} \/ (~HookedBefore(command) /\ place \in {"lock", "execute"}))
       => jobsSeen = 0
  /\ place \in {"handle", "dead"} => jobsSeen = Len(jobs)
  /\ place # "jobs" => jobsSeen \in {0, Len(jobs)}
  /\ (~HookedBefore(command) /\ place = "lock") => executed = 0
  /\ (IF HookedBefore(command) THEN place \in {"lock", "execute", "done"}
      ELSE place = "done" /\ executed = Len(jobs)) => error \/ jobsSeen = Len(jobs)
  /\ place = "handle" <=> stage \in {"probing", "acting"}

\* What was installed or upgraded is there, and so is what is still to be deleted.
\* Once the scan is over the database has all scripts of what is to be removed or,
\* for the hook that comes after, of what is there, and the libraries they need.
Scanned == place \in {"jobs", "handle"} \/ jobsSeen > 0
SystemInv ==
  /\ \A i \in 1 .. Len(jobs) :
       (\/ jobs[i].solved = "upgrade"
        \/ jobs[i].solved = "install" /\ i <= executed
        \/ jobs[i].solved = "delete" /\ i > executed) =>
          jobs[i].package \in installed
  /\ Scanned =>
       /\ Removing => \A i \in 1 .. Len(jobs) : \A s \in Services :
                         jobs[i].package = Owner[s] => s \in db.scripts
       /\ ~HookedBefore(command) => Present(installed) \subseteq db.scripts
  /\ Recorded(db)
  /\ ~HookedBefore(command) => Linked(db, installed)

\* What the hook selected for the jobs it went through.
SelectionInv ==
  /\ \A i \in 1 .. jobsSeen : \A s \in db.scripts :
       /\ (jobs[i].solved \in {"delete", "upgrade"} /\ jobs[i].package = Owner[s]) =>
            action[s] # "absent"
       /\ (~HookedBefore(command) /\ jobs[i].solved = "upgrade" /\ jobs[i].package \in Uses[s]) =>
            action[s] # "absent"
  /\ \A s \in Services : action[s] = "none" => s \in blocked
  /\ Removing => \A s \in Services : action[s] \in {"absent", "stop"}
  /\ HookedBefore(command) => blocked = {}
  /\ (~HookedBefore(command) /\ (place \in {"scan", "jobs"} \/ jobsSeen > 0)) => blocked = Blocklist

\* What was done with the selection.
Handled == place = "handle" \/ (place \in {"lock", "execute", "done"} /\ jobsSeen > 0)
OutcomeInv ==
  /\ (place \in {"hook", "scan", "jobs"} \/ jobsSeen = 0) =>
       \A s \in Services : outcome[s] = "unselected"
  /\ place = "dead" => \A s \in Services : outcome[s] \in {"unselected", "unknown"}
  /\ Handled =>
       \A s \in Services :
         /\ outcome[s] = "unselected" <=> action[s] = "absent"
         /\ outcome[s] = "blocked" => s \in blocked
         /\ s \in blocked => outcome[s] \in {"unselected", "pending", "blocked", "abandoned"}
         /\ (action[s] = "stop" /\ outcome[s] = "success") => s \notin up \/ ~Removing
         /\ (~HookedBefore(command) /\ action[s] = "restart" /\ outcome[s] = "success") =>
              s \in fresh
         /\ place # "handle" => outcome[s] \in Settled
         /\ outcome[s] \in {"abandoned", "astray"} => error

CommandInv == CommandTypes /\ PlaceInv /\ SystemInv /\ SelectionInv /\ OutcomeInv

\* pkg services holds the lock from the scan to what it shows.
ReaderInv ==
  /\ reader \in {"idle", "scan", "show"}
  /\ HoldsReadLock => place # "execute"
  /\ reader = "idle" => theirs = EmptyDb
  /\ reader # "show" => shown = <<>>
  /\ Recorded(theirs) /\ Linked(theirs, installed)
  /\ theirs.scripts \subseteq Present(installed)
  /\ reader = "show" => theirs.scripts = Present(installed)
  /\ ShowsWhatIsThere

HooksInv == CommandInv /\ ReaderInv

-----------------------------------------------------------------------------
(* The database *)

LEMMA EmptyIsRecorded ==
  Recorded(EmptyDb) /\ EmptyDb.scripts = {} /\ \A here : Linked(EmptyDb, here)
<1>1. EmptyDb.scripts = {} /\ DOMAIN EmptyDb.packages = {}
  BY DEF EmptyDb
<1> QED
  BY <1>1 DEF Recorded, Linked, ServicesOf, Dependents

\* What the scan of one script adds
LEMMA ScanRecords ==
  ASSUME NEW d, Recorded(d), NEW here \in SUBSET Packages, NEW s \in Services
  PROVE  LET new == ScanScript(d, s, here) IN
         /\ Recorded(new)
         /\ Linked(d, here) => Linked(new, here)
         /\ new.scripts = d.scripts \cup {s}
<1> DEFINE new == ScanScript(d, s, here)
           libraries == Uses[s] \cap here
           retrieved == {Owner[s]} \cup libraries
<1>1. new.scripts = d.scripts \cup {s} /\ new.packages = PkgFromRcDScript(d.packages, s, here)
  BY DEF ScanScript
<1>2. /\ d.scripts \subseteq Services
      /\ \A p \in DOMAIN d.packages :
           d.packages[p] \in [scripts : SUBSET Services, rshlibs : SUBSET Services]
      /\ \A p \in Packages : ServicesOf(d, p) = {x \in d.scripts : Owner[x] = p}
  BY DEF Recorded
<1>3. CASE Owner[s] = Base
  <2>1. new.packages = d.packages /\ Uses[s] = {}
    BY <1>1, <1>3, BaseAssumption DEF PkgFromRcDScript
  <2>2. \A p \in Packages : ServicesOf(new, p) = ServicesOf(d, p) /\ Dependents(new, p) = Dependents(d, p)
    BY <2>1 DEF ServicesOf, Dependents
  <2>3. \A p \in Packages : Owner[s] # p
    BY <1>3, OwnerAssumption
  <2>4. \A p \in Packages : {x \in new.scripts : Owner[x] = p} = {x \in d.scripts : Owner[x] = p}
    BY <1>1, <2>3
  <2>5. Recorded(new)
    BY <1>1, <1>2, <2>1, <2>2, <2>4 DEF Recorded
  <2>6. Linked(d, here) => Linked(new, here)
    BY <1>1, <2>1, <2>2 DEF Linked
  <2> QED
    BY <1>1, <2>5, <2>6
<1>4. CASE Owner[s] # Base
  <2>1. new.packages = [p \in DOMAIN d.packages \cup retrieved |->
                          IF p \in retrieved THEN WithScript(d.packages, p, s, libraries)
                          ELSE d.packages[p]]
    BY <1>1, <1>4 DEF PkgFromRcDScript
  <2>2. ASSUME NEW p
        PROVE  LET entry == PackageRetrieve(d.packages, p) IN
               /\ entry \in [scripts : SUBSET Services, rshlibs : SUBSET Services]
               /\ entry.scripts = ServicesOf(d, p) /\ entry.rshlibs = Dependents(d, p)
    BY <1>2 DEF PackageRetrieve, NewPackage, ServicesOf, Dependents
  <2>3. ASSUME NEW p
        PROVE  LET entry == WithScript(d.packages, p, s, libraries) IN
               /\ entry \in [scripts : SUBSET Services, rshlibs : SUBSET Services]
               /\ entry.scripts = ServicesOf(d, p) \cup (IF p = Owner[s] THEN {s} ELSE {})
               /\ entry.rshlibs = Dependents(d, p) \cup (IF p \in libraries THEN {s} ELSE {})
    BY <2>2 DEF WithScript, Associate, Requires
  <2>4. ASSUME NEW p
        PROVE  /\ ServicesOf(new, p) = ServicesOf(d, p) \cup (IF p = Owner[s] THEN {s} ELSE {})
               /\ Dependents(new, p) = Dependents(d, p) \cup (IF p \in libraries THEN {s} ELSE {})
    <3>1. CASE p \in retrieved
      BY <2>1, <2>3, <3>1 DEF ServicesOf, Dependents
    <3>2. CASE p \notin retrieved
      BY <2>1, <3>2 DEF ServicesOf, Dependents
    <3> QED
      BY <3>1, <3>2
  <2>5. \A p \in DOMAIN new.packages :
          new.packages[p] \in [scripts : SUBSET Services, rshlibs : SUBSET Services]
    BY <1>2, <2>1, <2>3
  <2>6. \A p \in Packages : ServicesOf(new, p) = {x \in new.scripts : Owner[x] = p}
    BY <1>1, <1>2, <2>4
  <2>7. Recorded(new)
    BY <1>1, <1>2, <2>5, <2>6 DEF Recorded
  <2>8. Linked(d, here) => Linked(new, here)
    BY <1>1, <2>4 DEF Linked
  <2> QED
    BY <1>1, <2>7, <2>8
<1> QED
  BY <1>3, <1>4

-----------------------------------------------------------------------------
(* pkg services *)

\* Nothing of what it looks at changes.
LEMMA ReaderKept ==
  ASSUME ReaderInv, UNCHANGED <<readerVars, installed>>, place' = "execute" => ~HoldsReadLock
  PROVE  ReaderInv'
BY DEF ReaderInv, readerVars, HoldsReadLock, Linked, Recorded, Present, ShowsWhatIsThere, ServicesOf,
       Dependents

LEMMA ReaderReads ==
  ASSUME HooksInv, PkgServicesMain
  PROVE  HooksInv'
<1>1. CommandInv' /\ UNCHANGED <<place, installed>>
  <2>1. UNCHANGED <<command, jobs, place, jobsSeen, executed, db, installed, up, fresh,
                    action, blocked, stage, outcome, error>>
    BY DEF PkgServicesMain, transactionVars, systemVars, selectionVars, handleVars
  <2>2. CommandInv
    BY DEF HooksInv
  <2> QED
    BY <2>1, <2>2 DEF CommandInv, CommandTypes, PlaceInv, SystemInv, SelectionInv, OutcomeInv,
       Removing, Recorded, Linked, ServicesOf, Dependents, Handled, Scanned, Present
<1>2. /\ ReaderInv /\ installed \in SUBSET Packages
      /\ \A s \in Services : Owner[s] \notin Packages => Owner[s] = Base
  BY OwnerAssumption DEF HooksInv, CommandInv, CommandTypes
<1>3. ReaderInv'
  <2>1. ASSUME NEW r \in BOOLEAN, DatabasesOpen(r) PROVE ReaderInv'
    BY <1>1, <1>2, <2>1 DEF DatabasesOpen, ReaderInv, HoldsReadLock, Recorded, Linked, ServicesOf,
       Dependents, Present, ShowsWhatIsThere
  <2>2. CASE ScanTheirs
    <3>1. PICK s \in Present(installed) \ theirs.scripts :
            reader = "scan" /\ theirs' = ScanScript(theirs, s, installed)
            /\ UNCHANGED <<reader, required, shown>>
      BY <2>2 DEF ScanTheirs, NextScripts
    <3>2. s \in Services
      BY <3>1 DEF Present
    <3>3. /\ Recorded(theirs') /\ Linked(theirs', installed)
          /\ theirs'.scripts = theirs.scripts \cup {s}
      BY <1>2, <3>1, <3>2, ScanRecords DEF ReaderInv
    <3> QED
      BY <1>1, <1>2, <3>1, <3>3 DEF ReaderInv, HoldsReadLock, ShowsWhatIsThere, Recorded, Linked,
         Present, ServicesOf, Dependents
  <2>3. CASE ScanTheirsEnds
    <3>1. Present(installed) \subseteq theirs.scripts
      BY <2>3 DEF ScanTheirsEnds, NextScripts
    <3> QED
      BY <1>1, <1>2, <2>3, <3>1 DEF ScanTheirsEnds, ReaderInv, HoldsReadLock, ShowsWhatIsThere,
         Recorded, Linked, Present, ServicesOf, Dependents
  <2>4. ASSUME NEW p \in Packages, Show(p) PROVE ReaderInv'
    <3>1. /\ reader = "show" /\ UNCHANGED <<reader, required, theirs>>
          /\ shown' = <<p, IF required THEN Dependents(theirs, p) ELSE ServicesOf(theirs, p)>>
      BY <2>4 DEF Show
    <3>2. /\ shown'[1] = p
          /\ shown'[2] = IF required THEN {s \in Present(installed) : p \in Uses[s] \cap installed}
                         ELSE {s \in Present(installed) : Owner[s] = p}
      BY <1>2, <3>1 DEF ReaderInv, Recorded, Linked
    <3>3. /\ \A s \in Services : Owner[s] = Base => Uses[s] = {}
          /\ p # Base
      BY BaseAssumption, OwnerAssumption
    <3>4. shown'[2] = {s \in Services : Owner[s] \in installed
                         /\ IF required THEN p \in Uses[s] \cap installed ELSE p = Owner[s]}
      BY <3>2, <3>3 DEF Present
    <3>5. ShowsWhatIsThere'
      BY <1>1, <3>1, <3>2, <3>4 DEF ShowsWhatIsThere
    <3> QED
      BY <1>1, <1>2, <3>1, <3>5 DEF ReaderInv, HoldsReadLock, Recorded, Linked, Present, ServicesOf,
         Dependents
  <2>5. CASE DatabasesClose
    <3>1. /\ reader' = "idle" /\ theirs' = EmptyDb /\ shown' = <<>>
      BY <2>5 DEF DatabasesClose
    <3>2. Recorded(theirs') /\ Linked(theirs', installed) /\ theirs'.scripts = {}
      BY <3>1, EmptyIsRecorded
    <3> QED
      BY <1>1, <3>1, <3>2 DEF ReaderInv, HoldsReadLock, ShowsWhatIsThere, Recorded, Linked,
         Present, ServicesOf, Dependents
  <2> QED
    BY <2>1, <2>2, <2>3, <2>4, <2>5 DEF PkgServicesMain
<1> QED
  BY <1>1, <1>3 DEF HooksInv

-----------------------------------------------------------------------------
(* The hook, before it handles its selection *)

\* The commands come in two kinds.
LEMMA Kinds ==
  ASSUME command \in Commands
  PROVE  /\ ~HookedBefore(command) <=> command = "upgrade"
         /\ Removing => HookedBefore(command)
BY DEF Commands, HookedBefore, Removing

LEMMA EnterHookKeeps ==
  ASSUME CommandInv, EnterHook
  PROVE  CommandInv'
<1>1. /\ place = "hook" /\ place' = "scan"
      /\ UNCHANGED <<command, jobs, jobsSeen, executed, db, installed, stage, outcome, error>>
      /\ jobsSeen = 0 /\ Recorded(db) /\ db.scripts = {}
  BY EmptyIsRecorded DEF EnterHook, transactionVars, systemVars, handleVars, CommandInv, PlaceInv
<1>2. CommandTypes'
  BY <1>1, BlocklistAssumption DEF CommandInv, CommandTypes, EnterHook, selectionVars, AddAll,
     Places, Removing
<1>3. PlaceInv'
  BY <1>1 DEF CommandInv, PlaceInv
<1>4. SystemInv'
  BY <1>1 DEF CommandInv, SystemInv, Recorded, Linked, ServicesOf, Dependents, Scanned
<1>5. SelectionInv'
  <2>1. command \in Commands
    BY DEF CommandInv, CommandTypes
  <2>2. \A s \in Services : action[s] = "absent"
    BY <1>1 DEF CommandInv, PlaceInv
  <2>3. CASE command = "upgrade"
    BY <1>1, <2>1, <2>2, <2>3, Kinds DEF CommandInv, SelectionInv, EnterHook, AddAll, Removing
  <2>4. CASE command # "upgrade"
    BY <1>1, <2>1, <2>2, <2>4, Kinds DEF CommandInv, SelectionInv, EnterHook, Removing,
       selectionVars
  <2> QED
    BY <2>3, <2>4
<1>6. OutcomeInv'
  BY <1>1 DEF CommandInv, OutcomeInv, Handled
<1> QED
  BY <1>2, <1>3, <1>4, <1>5, <1>6 DEF CommandInv

LEMMA ScanKeeps ==
  ASSUME CommandInv, Scan
  PROVE  CommandInv'
<1>1. PICK s \in Services : db' = ScanScript(db, s, installed)
  BY DEF Scan, NextScripts, Present
<1>2. /\ place = "scan" /\ jobsSeen = 0
      /\ UNCHANGED <<command, jobs, place, jobsSeen, executed, installed, up, fresh, action,
                     blocked, stage, outcome, error>>
  BY DEF Scan, transactionVars, systemVars, selectionVars, handleVars, CommandInv, PlaceInv
<1>3. /\ Recorded(db) /\ installed \in SUBSET Packages
      /\ ~HookedBefore(command) => Linked(db, installed)
  BY DEF CommandInv, SystemInv, CommandTypes
<1>4. Recorded(db') /\ (Linked(db, installed) => Linked(db', installed))
  BY <1>1, <1>3, ScanRecords
<1>5. SystemInv'
  <2>1. Recorded(db)' /\ (~HookedBefore(command) => Linked(db, installed)')
    BY <1>2, <1>3, <1>4 DEF Recorded, Linked, ServicesOf, Dependents
  <2> QED
    BY <1>2, <2>1 DEF CommandInv, SystemInv, Scanned
<1>6. CommandTypes' /\ PlaceInv' /\ SelectionInv' /\ OutcomeInv'
  BY <1>2 DEF CommandInv, CommandTypes, PlaceInv, SelectionInv, OutcomeInv, Handled, Removing
<1> QED
  BY <1>5, <1>6 DEF CommandInv

\* The hook comes to its jobs.
LEMMA ScanCompletesKeeps ==
  ASSUME CommandInv, ScanCompletes
  PROVE  CommandInv'
<1>1. /\ UNCHANGED <<command, jobs, jobsSeen, executed, db, installed, up, fresh, action,
                     blocked, stage, outcome, error>>
      /\ place = "scan" /\ place' = "jobs" /\ jobsSeen = 0
  BY DEF ScanCompletes, transactionVars, systemVars, selectionVars, handleVars, CommandInv, PlaceInv
<1>2. CommandTypes' /\ PlaceInv'
  BY <1>1 DEF CommandInv, CommandTypes, PlaceInv, Places, Removing
<1>3. Present(installed) \subseteq db.scripts
  BY DEF ScanCompletes, NextScripts
<1>4. ASSUME Removing, NEW i \in 1 .. Len(jobs), NEW s \in Services, jobs[i].package = Owner[s]
      PROVE  s \in db.scripts
  <2>1. command \in Commands /\ jobs[i].solved = "delete" /\ i \in Nat
    BY <1>4 DEF CommandInv, CommandTypes
  <2>2. executed = 0
    BY <1>1, <1>4, <2>1, Kinds DEF CommandInv, PlaceInv
  <2>3. jobs[i].package \in installed
    BY <2>1, <2>2 DEF CommandInv, SystemInv
  <2> QED
    BY <1>3, <1>4, <2>3 DEF Present
<1>5. SystemInv'
  BY <1>1, <1>3, <1>4 DEF CommandInv, SystemInv, Recorded, Linked, ServicesOf, Dependents, Present,
     Removing
<1>6. SelectionInv' /\ OutcomeInv'
  BY <1>1 DEF CommandInv, SelectionInv, OutcomeInv, Handled, Removing
<1> QED
  BY <1>2, <1>5, <1>6 DEF CommandInv

\* The hook comes to nothing, and says so.
LEMMA HookFailsKeeps ==
  ASSUME CommandInv, HookFails
  PROVE  CommandInv'
<1>1. /\ UNCHANGED <<command, jobs, jobsSeen, executed, db, installed, up, fresh, action,
                     blocked, stage, outcome>>
      /\ place \in {"hook", "scan"} /\ jobsSeen = 0 /\ error' = TRUE
      /\ place' = IF HookedBefore(command) THEN "lock" ELSE "done"
  BY DEF HookFails, transactionVars, systemVars, selectionVars, CommandInv, PlaceInv
<1>2. CommandTypes' /\ PlaceInv'
  BY <1>1 DEF CommandInv, CommandTypes, PlaceInv, Places, Removing
<1>3. SystemInv'
  BY <1>1 DEF CommandInv, SystemInv, Recorded, Linked, ServicesOf, Dependents, Scanned
<1>4. SelectionInv' /\ OutcomeInv'
  BY <1>1 DEF CommandInv, SelectionInv, OutcomeInv, Handled, Removing
<1> QED
  BY <1>2, <1>3, <1>4 DEF CommandInv

LEMMA VisitJobKeeps ==
  ASSUME CommandInv, VisitJob
  PROVE  CommandInv'
<1> DEFINE job == jobs[jobsSeen + 1]
<1>1. /\ UNCHANGED <<command, jobs, place, executed, db, installed, up, fresh, blocked, stage,
                     outcome, error>>
      /\ place = "jobs" /\ jobsSeen < Len(jobs) /\ jobsSeen' = jobsSeen + 1
  BY DEF VisitJob, transactionVars, systemVars, handleVars
<1>2. /\ jobsSeen \in Nat /\ Len(jobs) \in Nat /\ job \in JobType /\ command \in Commands
      /\ action \in [Services -> {"absent", "none", "stop", "restart"}]
      /\ jobsSeen' \in 1 .. Len(jobs)
  BY <1>1 DEF CommandInv, CommandTypes
<1>3. /\ job.package \in Packages /\ job.solved \in {"install", "upgrade", "delete"}
  BY <1>2 DEF JobType
<1> DEFINE set == CASE job.solved = "delete"  -> ServicesOf(db, job.package)
                    [] job.solved = "upgrade" ->
                         ServicesOf(db, job.package) \cup Dependents(db, job.package)
                    [] job.solved = "install" -> {}
           act == IF job.solved = "delete" THEN "stop" ELSE "restart"
<1>4. action' = [s \in Services |-> IF s \in set THEN act ELSE action[s]]
  <2>1. CASE job.solved = "delete"
    BY <2>1 DEF VisitJob, AddAll
  <2>2. CASE job.solved = "upgrade"
    BY <2>2 DEF VisitJob, AddAll
  <2>3. CASE job.solved = "install"
    <3>1. action' = action /\ set = {}
      BY <2>3 DEF VisitJob
    <3> QED
      BY <1>2, <3>1
  <2> QED
    BY <1>3, <2>1, <2>2, <2>3
<1>5. \A s \in Services : action'[s] = IF s \in set THEN act ELSE action[s]
  BY <1>4
<1>6. action' \in [Services -> {"absent", "none", "stop", "restart"}]
  BY <1>2, <1>4
<1>7. CommandTypes' /\ PlaceInv'
  BY <1>1, <1>2, <1>6 DEF CommandInv, CommandTypes, PlaceInv, Removing
<1>8. SystemInv'
  BY <1>1 DEF CommandInv, SystemInv, Recorded, Linked, ServicesOf, Dependents, Scanned, Removing,
     Present
<1>9. SelectionInv'
  <2>1. db.scripts \subseteq Services /\ ServicesOf(db, job.package) = {s \in db.scripts : Owner[s] = job.package}
    BY <1>3 DEF CommandInv, SystemInv, Recorded
  <2>2. ~HookedBefore(command) =>
          /\ Dependents(db, job.package) =
               {s \in db.scripts : job.package \in Uses[s] \cap installed}
          /\ job.solved = "upgrade" => job.package \in installed
    BY <1>1, <1>2, <1>3 DEF CommandInv, SystemInv, Linked
  <2>3. ASSUME NEW i \in 1 .. jobsSeen', NEW s \in db.scripts
        PROVE  /\ (jobs[i].solved \in {"delete", "upgrade"} /\ jobs[i].package = Owner[s]) =>
                    action'[s] # "absent"
               /\ (~HookedBefore(command) /\ jobs[i].solved = "upgrade"
                     /\ jobs[i].package \in Uses[s]) => action'[s] # "absent"
    <3>1. CASE i = jobsSeen + 1
      BY <1>5, <2>1, <2>2, <3>1
    <3>2. CASE i \in 1 .. jobsSeen
      BY <1>5, <2>1, <3>2 DEF CommandInv, SelectionInv
    <3> QED
      BY <1>1, <1>2, <3>1, <3>2
  <2>4. \A s \in Services : action'[s] = "none" => s \in blocked
    BY <1>5 DEF CommandInv, SelectionInv
  <2>5. Removing => \A s \in Services : action'[s] \in {"absent", "stop"}
    <3>1. Removing => job.solved = "delete"
      BY <1>1, <1>2 DEF CommandInv, CommandTypes
    <3> QED
      BY <1>5, <3>1 DEF CommandInv, SelectionInv
  <2>6. /\ HookedBefore(command) => blocked = {}
        /\ ~HookedBefore(command) => blocked = Blocklist
    BY <1>1 DEF CommandInv, SelectionInv
  <2> QED
    BY <1>1, <2>3, <2>4, <2>5, <2>6 DEF SelectionInv, Removing
<1>10. OutcomeInv'
  BY <1>1 DEF CommandInv, OutcomeInv, Handled
<1> QED
  BY <1>7, <1>8, <1>9, <1>10 DEF CommandInv

-----------------------------------------------------------------------------
(* services_selection_handle *)

LEMMA HandleKeeps ==
  ASSUME CommandInv, Handle
  PROVE  CommandInv'
<1>1. /\ UNCHANGED <<command, jobs, jobsSeen, executed, db, installed, up, fresh, action, blocked,
                     error>>
      /\ place = "jobs" /\ jobsSeen = Len(jobs) /\ place' = "handle" /\ stage' = "probing"
      /\ outcome' = [s \in Services |-> IF action[s] = "absent" THEN "unselected" ELSE "pending"]
  BY DEF Handle, transactionVars, systemVars, selectionVars
<1>2. jobsSeen > 0
  BY <1>1 DEF CommandInv, CommandTypes
<1>3. CommandTypes'
  BY <1>1 DEF CommandInv, CommandTypes, Places, Outcomes, Settled, Concluded, Removing
<1>4. PlaceInv'
  BY <1>1, <1>2 DEF CommandInv, PlaceInv
<1>5. SystemInv'
  BY <1>1 DEF CommandInv, SystemInv, Recorded, Linked, ServicesOf, Dependents, Scanned, Removing,
     Present
<1>6. SelectionInv'
  BY <1>1 DEF CommandInv, SelectionInv, Removing
<1>7. OutcomeInv'
  BY <1>1, <1>2 DEF CommandInv, OutcomeInv, Handled, Removing
<1> QED
  BY <1>3, <1>4, <1>5, <1>6, <1>7 DEF CommandInv

LEMMA DiesKeeps ==
  ASSUME CommandInv, Dies
  PROVE  CommandInv'
<1>1. /\ UNCHANGED <<command, jobs, jobsSeen, executed, db, installed, up, fresh, action, blocked,
                     error>>
      /\ place \in {"jobs", "handle"} /\ jobsSeen = Len(jobs) /\ place' = "dead"
      /\ \/ place = "jobs" /\ UNCHANGED <<stage, outcome>>
         \/ stage' = "broken" /\ outcome' = [s \in Services |-> "unknown"]
  BY DEF Dies, Break, transactionVars, systemVars, selectionVars, handleVars, CommandInv,
     PlaceInv
<1>2. jobsSeen > 0
  BY <1>1 DEF CommandInv, CommandTypes
<1>3. CommandTypes'
  BY <1>1 DEF CommandInv, CommandTypes, Places, Outcomes, Removing
<1>4. PlaceInv'
  BY <1>1, <1>2 DEF CommandInv, PlaceInv
<1>5. SystemInv'
  BY <1>1 DEF CommandInv, SystemInv, Recorded, Linked, ServicesOf, Dependents, Scanned, Removing,
     Present
<1>6. SelectionInv'
  BY <1>1 DEF CommandInv, SelectionInv, Removing
<1>7. OutcomeInv'
  BY <1>1, <1>2 DEF CommandInv, OutcomeInv, Handled
<1> QED
  BY <1>3, <1>4, <1>5, <1>6, <1>7 DEF CommandInv

\* One service gets on with its handling.
LEMMA HandlingKeeps ==
  ASSUME CommandInv, Handling
  PROVE  CommandInv'
<1>0. /\ UNCHANGED <<command, jobs, place, jobsSeen, executed, db, installed, action, blocked,
                     error>>
      /\ place = "handle" /\ jobsSeen = Len(jobs) /\ jobsSeen > 0
      /\ outcome \in [Services -> Outcomes]
  BY DEF Handling, transactionVars, selectionVars, CommandInv, PlaceInv, CommandTypes
<1>1. PICK x \in Services :
        \/ x \in blocked /\ Block(x) /\ UNCHANGED <<up, fresh>>
        \/ x \notin blocked /\ Probe(x) /\ UNCHANGED <<up, fresh>>
        \/ (ProbeEnds(x) \/ Act(x) \/ ActSignalled(x)) /\ UNCHANGED <<up, fresh>>
        \/ ActEnds(x) /\ Effect(x)
  BY DEF Handling
<1>2. PICK to \in Outcomes :
        /\ outcome' = [outcome EXCEPT ![x] = to] /\ stage' = stage
        /\ outcome[x] \notin {"unselected", "blocked", "abandoned"}
        /\ to \notin {"unselected", "abandoned", "astray"}
        /\ to = "blocked" => x \in blocked
        /\ outcome[x] = "pending" /\ x \in blocked => to = "blocked"
        /\ \/ UNCHANGED <<up, fresh>> /\ to # "success"
           \/ Effect(x) /\ outcome[x] = "acting" /\ to \in {"success", "failed"}
  <2>1. CASE x \in blocked /\ Block(x) /\ UNCHANGED <<up, fresh>>
    BY <2>1 DEF Block, Move, Outcomes, Settled, Concluded
  <2>2. CASE x \notin blocked /\ Probe(x) /\ UNCHANGED <<up, fresh>>
    BY <2>2 DEF Probe, Move, Outcomes, Settled, Concluded
  <2>3. CASE ProbeEnds(x) /\ UNCHANGED <<up, fresh>>
    <3>1. PICK to \in {"enabled", "disabled", "probing_failed"} : Move(x, "probing", to)
      BY <2>3 DEF ProbeEnds
    <3> QED
      BY <2>3, <3>1 DEF Move, Outcomes, Settled, Concluded
  <2>4. CASE Act(x) /\ UNCHANGED <<up, fresh>>
    BY <2>4 DEF Act, Move, Outcomes, Settled, Concluded
  <2>5. CASE ActSignalled(x) /\ UNCHANGED <<up, fresh>>
    BY <2>5 DEF ActSignalled, Move, Outcomes, Settled, Concluded
  <2>6. CASE ActEnds(x) /\ Effect(x)
    <3>1. PICK to \in {"success", "failed"} : Move(x, "acting", to)
      BY <2>6 DEF ActEnds
    <3> QED
      BY <2>6, <3>1 DEF Move, Outcomes, Settled, Concluded
  <2> QED
    BY <1>1, <2>1, <2>2, <2>3, <2>4, <2>5, <2>6
<1>3. outcome'[x] = to /\ \A s \in Services : s # x => outcome'[s] = outcome[s]
  BY <1>0, <1>2
<1>4. /\ \A s \in Services :
           /\ outcome[s] = "unselected" <=> action[s] = "absent"
           /\ outcome[s] = "blocked" => s \in blocked
           /\ s \in blocked => outcome[s] \in {"unselected", "pending", "blocked", "abandoned"}
           /\ (action[s] = "stop" /\ outcome[s] = "success") => s \notin up \/ ~Removing
           /\ (~HookedBefore(command) /\ action[s] = "restart" /\ outcome[s] = "success") =>
                s \in fresh
           /\ outcome[s] \in {"abandoned", "astray"} => error
  BY <1>0 DEF CommandInv, OutcomeInv, Handled
<1>5. x \in blocked => to = "blocked"
  BY <1>2, <1>4
<1>6. /\ (to = "success" /\ action[x] = "stop") => (x \notin up' \/ ~Removing)
      /\ (to = "success" /\ action[x] = "restart") => x \in fresh'
      /\ \A s \in Services : s # x => (s \in fresh' <=> s \in fresh)
      /\ Removing => up' \subseteq up
  <2>1. CASE UNCHANGED <<up, fresh>> /\ to # "success"
    BY <2>1
  <2>2. CASE Effect(x) /\ outcome[x] = "acting" /\ to \in {"success", "failed"}
    <3>1. action[x] \in {"stop", "restart"} /\ (Removing => action[x] = "stop")
      BY <1>4, <2>2 DEF CommandInv, SelectionInv, CommandTypes
    <3>2. CASE to = "success" /\ action[x] = "stop"
      BY <1>3, <2>2, <3>2 DEF Effect
    <3>3. CASE to = "success" /\ action[x] = "restart"
      BY <1>3, <2>2, <3>1, <3>3 DEF Effect
    <3>4. CASE to = "failed"
      BY <1>3, <2>2, <3>4 DEF Effect
    <3> QED
      BY <2>2, <3>1, <3>2, <3>3, <3>4
  <2> QED
    BY <1>2, <2>1, <2>2
<1>7. CommandTypes'
  BY <1>0, <1>2 DEF CommandInv, CommandTypes, Removing
<1>8. PlaceInv'
  BY <1>0, <1>2 DEF CommandInv, PlaceInv
<1>9. SystemInv'
  BY <1>0 DEF CommandInv, SystemInv, Recorded, Linked, ServicesOf, Dependents, Scanned, Removing,
     Present
<1>10. SelectionInv'
  BY <1>0 DEF CommandInv, SelectionInv, Removing
<1>11. OutcomeInv'
  <2>1. Removing' = Removing
    BY <1>0 DEF Removing
  <2>2. ASSUME NEW s \in Services
        PROVE  /\ outcome'[s] = "unselected" <=> action'[s] = "absent"
               /\ outcome'[s] = "blocked" => s \in blocked'
               /\ s \in blocked' => outcome'[s] \in {"unselected", "pending", "blocked", "abandoned"}
               /\ (action'[s] = "stop" /\ outcome'[s] = "success") => s \notin up' \/ ~Removing'
               /\ (~HookedBefore(command') /\ action'[s] = "restart" /\ outcome'[s] = "success") =>
                    s \in fresh'
               /\ outcome'[s] \in {"abandoned", "astray"} => error'
    <3>1. CASE s = x
      BY <1>0, <1>2, <1>3, <1>4, <1>5, <1>6, <2>1, <3>1
    <3>2. CASE s # x
      BY <1>0, <1>3, <1>4, <1>6, <2>1, <3>2
    <3> QED
      BY <3>1, <3>2
  <2> QED
    BY <1>0, <2>2 DEF OutcomeInv, Handled, HookedBefore
<1> QED
  BY <1>7, <1>8, <1>9, <1>10, <1>11 DEF CommandInv

\* A call fails: the services it leaves behind have not been acted on.
LEMMA CallFailsKeeps ==
  ASSUME CommandInv, CallFails
  PROVE  CommandInv'
<1>1. /\ UNCHANGED <<command, jobs, place, jobsSeen, executed, db, installed, up, fresh, action,
                     blocked, stage>>
      /\ place = "handle" /\ error' = TRUE /\ jobsSeen = Len(jobs) /\ jobsSeen > 0
      /\ outcome \in [Services -> Outcomes]
  BY DEF CallFails, transactionVars, systemVars, selectionVars, CommandInv, PlaceInv, CommandTypes
<1>2. PICK x \in Services : ForkFails(x) \/ RegisterFails(x) \/ AwaitFails(x) \/ KillFails(x)
  BY DEF CallFails
<1>3. ASSUME NEW s \in Services
      PROVE  \/ outcome'[s] = outcome[s]
             \/ outcome[s] = "pending" /\ outcome'[s] = "abandoned"
             \/ /\ outcome[s] \in {"enabled", "probing", "acting"}
                /\ outcome'[s] \in {"abandoned", "astray", "probing_failed", "failed"}
  <2>1. CASE ForkFails(x)
    BY <1>1, <2>1 DEF ForkFails, RestOf
  <2>2. CASE RegisterFails(x)
    BY <1>1, <2>2 DEF RegisterFails, Move
  <2>3. CASE AwaitFails(x)
    BY <1>1, <2>3 DEF AwaitFails
  <2>4. CASE KillFails(x)
    BY <1>1, <2>4 DEF KillFails, Unswept
  <2> QED
    BY <1>2, <2>1, <2>2, <2>3, <2>4
<1>4. outcome' \in [Services -> Outcomes]
  <2>1. DOMAIN outcome' = Services /\ outcome' = [s \in Services |-> outcome'[s]]
    BY <1>1, <1>2 DEF ForkFails, RestOf, RegisterFails, Move, AwaitFails, KillFails, Unswept
  <2>2. \A s \in Services : outcome'[s] \in Outcomes
    BY <1>1, <1>3 DEF Outcomes, Settled, Concluded
  <2> QED
    BY <2>1, <2>2
<1>5. CommandTypes' /\ PlaceInv'
  BY <1>1, <1>4 DEF CommandInv, CommandTypes, PlaceInv, Removing
<1>6. SystemInv'
  BY <1>1 DEF CommandInv, SystemInv, Recorded, Linked, ServicesOf, Dependents, Scanned, Removing,
     Present
<1>7. SelectionInv'
  BY <1>1 DEF CommandInv, SelectionInv, Removing
<1>8. OutcomeInv'
  BY <1>1, <1>3 DEF CommandInv, OutcomeInv, Handled, Removing
<1> QED
  BY <1>5, <1>6, <1>7, <1>8 DEF CommandInv

\* What a late command does, it does to a service that was not said to be acted
\* on successfully.
LEMMA StragglesKeeps ==
  ASSUME CommandInv, NEW x \in Services, Straggles(x)
  PROVE  CommandInv'
<1>1. /\ UNCHANGED <<command, jobs, place, jobsSeen, executed, db, installed, action, blocked,
                     stage, outcome, error>>
      /\ outcome[x] \in {"failed", "signalled", "astray"}
      /\ \A s \in Services : s # x => ((s \in up' <=> s \in up) /\ (s \in fresh' <=> s \in fresh))
  BY DEF Straggles, transactionVars, selectionVars, handleVars
<1>2. CommandTypes' /\ PlaceInv'
  BY <1>1 DEF CommandInv, CommandTypes, PlaceInv, Removing
<1>3. SystemInv'
  BY <1>1 DEF CommandInv, SystemInv, Recorded, Linked, ServicesOf, Dependents, Scanned, Removing,
     Present
<1>4. SelectionInv'
  BY <1>1 DEF CommandInv, SelectionInv, Removing
<1>5. OutcomeInv'
  BY <1>1 DEF CommandInv, OutcomeInv, Handled, Removing
<1> QED
  BY <1>2, <1>3, <1>4, <1>5 DEF CommandInv

LEMMA NextStageKeeps ==
  ASSUME CommandInv, NextStage
  PROVE  CommandInv'
<1>1. /\ UNCHANGED <<command, jobs, place, jobsSeen, executed, db, installed, up, fresh, action,
                     blocked, outcome, error>>
      /\ place = "handle" /\ stage' = "acting" /\ stage = "probing"
  BY DEF NextStage, transactionVars, systemVars, selectionVars
<1>2. SystemInv'
  BY <1>1 DEF CommandInv, SystemInv, Recorded, Linked, ServicesOf, Dependents, Scanned, Removing,
     Present
<1> QED
  BY <1>1, <1>2 DEF CommandInv, CommandTypes, PlaceInv, SelectionInv, OutcomeInv, Handled, Removing

LEMMA LeaveHookKeeps ==
  ASSUME CommandInv, LeaveHook
  PROVE  CommandInv'
<1>1. /\ UNCHANGED <<command, jobs, jobsSeen, executed, db, installed, up, fresh, action, blocked,
                     outcome, error>>
      /\ place = "handle" /\ stage' = "over"
      /\ place' = IF HookedBefore(command) THEN "lock" ELSE "done"
      /\ \A s \in Services : outcome[s] \in Settled
      /\ jobsSeen = Len(jobs) /\ jobsSeen > 0
  BY DEF LeaveHook, transactionVars, systemVars, selectionVars, CommandInv, PlaceInv,
     CommandTypes
<1>2. CommandTypes' /\ PlaceInv'
  BY <1>1 DEF CommandInv, CommandTypes, PlaceInv, Places, Removing
<1>3. SystemInv'
  BY <1>1 DEF CommandInv, SystemInv, Recorded, Linked, ServicesOf, Dependents, Scanned, Removing,
     Present
<1>4. SelectionInv' /\ OutcomeInv'
  BY <1>1 DEF CommandInv, SelectionInv, OutcomeInv, Handled, Removing
<1> QED
  BY <1>2, <1>3, <1>4 DEF CommandInv

-----------------------------------------------------------------------------
(* libpkg *)

LEMMA LibpkgKeeps ==
  ASSUME CommandInv, TakeLock \/ LockFails \/ JobsExecuted
  PROVE  CommandInv'
<1>1. /\ UNCHANGED <<command, jobs, jobsSeen, executed, db, installed, up, fresh, action, blocked,
                     stage, outcome, error>>
      /\ \/ place = "lock" /\ place' \in {"execute", "done"}
         \/ /\ place = "execute" /\ executed = Len(jobs)
            /\ place' = IF HookedBefore(command) THEN "done" ELSE "hook"
  BY DEF TakeLock, LockFails, JobsExecuted, transactionVars, systemVars, selectionVars, handleVars
<1>2. CommandTypes' /\ PlaceInv'
  BY <1>1 DEF CommandInv, CommandTypes, PlaceInv, Places, Removing
<1>3. SystemInv'
  BY <1>1 DEF CommandInv, SystemInv, Recorded, Linked, ServicesOf, Dependents, Scanned, Removing,
     Present
<1>4. SelectionInv' /\ OutcomeInv'
  BY <1>1 DEF CommandInv, PlaceInv, SelectionInv, OutcomeInv, Handled, Removing
<1> QED
  BY <1>2, <1>3, <1>4 DEF CommandInv

\* The next job changes the packages, and what runs is not what is there.
LEMMA ExecuteJobKeeps ==
  ASSUME CommandInv, ExecuteJob
  PROVE  CommandInv'
<1> DEFINE job == jobs[executed + 1]
<1>1. /\ UNCHANGED <<command, jobs, place, jobsSeen, db, up, action, blocked, stage, outcome,
                     error>>
      /\ place = "execute" /\ executed < Len(jobs) /\ executed' = executed + 1
      /\ installed' = IF job.solved = "delete" THEN installed \ {job.package}
                      ELSE installed \cup {job.package}
  BY DEF ExecuteJob, transactionVars, selectionVars, handleVars
<1>2. /\ executed \in Nat /\ Len(jobs) \in Nat /\ executed' \in 1 .. Len(jobs) /\ job \in JobType
  BY <1>1 DEF CommandInv, CommandTypes
<1>3. job.package \in Packages
  BY <1>2 DEF JobType
<1>4. CommandTypes' /\ PlaceInv'
  BY <1>1, <1>2, <1>3 DEF CommandInv, CommandTypes, PlaceInv, Removing
<1>5. SystemInv'
  <2>1. ASSUME NEW i \in 1 .. Len(jobs),
               \/ jobs[i].solved = "upgrade"
               \/ jobs[i].solved = "install" /\ i <= executed'
               \/ jobs[i].solved = "delete" /\ i > executed'
        PROVE  jobs[i].package \in installed'
    <3>1. CASE i = executed + 1
      BY <1>1, <2>1, <3>1
    <3>2. CASE i # executed + 1
      <4>1. jobs[i].package # job.package
        BY <1>1, <1>2, <3>2 DEF CommandInv, CommandTypes
      <4>2. jobs[i].package \in installed
        BY <1>1, <1>2, <2>1, <3>2 DEF CommandInv, SystemInv
      <4> QED
        BY <1>1, <4>1, <4>2
    <3> QED
      BY <3>1, <3>2
  <2>2. Recorded(db)' /\ (~HookedBefore(command) => Linked(db, installed)')
    <3>1. Recorded(db)'
      BY <1>1 DEF CommandInv, SystemInv, Recorded, ServicesOf
    <3>2. ASSUME ~HookedBefore(command) PROVE Linked(db, installed)'
      <4>1. db' = EmptyDb
        BY <1>1, <3>2 DEF CommandInv, PlaceInv
      <4> QED
        BY <4>1, EmptyIsRecorded DEF Linked, Dependents
    <3> QED
      BY <3>1, <3>2
  <2>3. Scanned' => HookedBefore(command) /\ Scanned
    BY <1>1 DEF CommandInv, PlaceInv, Scanned
  <2>4. Scanned' => /\ Removing' => \A i \in 1 .. Len(jobs)' : \A s \in Services :
                                      jobs'[i].package = Owner[s] => s \in db'.scripts
                    /\ HookedBefore(command')
    BY <1>1, <2>3 DEF CommandInv, SystemInv, Removing
  <2> QED
    BY <1>1, <2>1, <2>2, <2>4 DEF SystemInv
<1>6. SelectionInv'
  BY <1>1 DEF CommandInv, SelectionInv, Removing
<1>7. OutcomeInv'
  BY <1>1 DEF CommandInv, PlaceInv, OutcomeInv, Handled, Removing
<1> QED
  BY <1>4, <1>5, <1>6, <1>7 DEF CommandInv

-----------------------------------------------------------------------------
(* The theorems *)

LEMMA InitHooksInv == HookInit => HooksInv
<1> SUFFICES ASSUME HookInit PROVE HooksInv
  OBVIOUS
<1>1. /\ command \in Commands /\ jobs \in JobLists(command) /\ jobs # <<>>
      /\ place = (IF HookedBefore(command) THEN "hook" ELSE "lock")
      /\ jobsSeen = 0 /\ executed = 0 /\ db = EmptyDb /\ blocked = {} /\ stage = "over"
      /\ installed = {p \in Packages :
           \A i \in DOMAIN jobs : jobs[i].package = p => jobs[i].solved # "install"}
      /\ action = [s \in Services |-> "absent"]
      /\ outcome = [s \in Services |-> "unselected"] /\ error = FALSE
      /\ reader = "idle" /\ theirs = EmptyDb /\ shown = <<>>
  BY DEF HookInit
<1>2. PICK n \in 0 .. MaxJobs : jobs \in [1 .. n -> [package : Packages, solved : Solved(command)]]
  BY <1>1 DEF JobLists, BoundedSeq, SeqOf
<1>3. /\ n \in Nat /\ Solved(command) \subseteq {"install", "upgrade", "delete"}
  BY <1>2, MaxJobsAssumption DEF Solved
<1>4. jobs \in Seq(JobType) /\ Len(jobs) = n /\ DOMAIN jobs = 1 .. Len(jobs)
  <2>1. jobs \in [1 .. n -> JobType]
    BY <1>2, <1>3 DEF JobType
  <2> QED
    BY <1>3, <2>1
<1>5. Len(jobs) > 0
  BY <1>1, <1>3, <1>4
<1>6. \A i, j \in 1 .. Len(jobs) : jobs[i].package = jobs[j].package => i = j
  BY <1>1, <1>4 DEF JobLists
<1>7. Removing => \A i \in 1 .. Len(jobs) : jobs[i].solved = "delete"
  BY <1>2, <1>4 DEF Solved, Removing
<1>8. Recorded(db) /\ Linked(db, installed) /\ db.scripts = {}
  BY <1>1, EmptyIsRecorded
<1>9. CommandTypes
  <2>1. outcome \in [Services -> Outcomes] /\ place \in Places
    BY <1>1 DEF Places, Outcomes, Settled, Concluded
  <2>2. installed \subseteq Packages /\ Len(jobs) \in Nat
    BY <1>1, <1>3, <1>4
  <2>3. /\ action \in [Services -> {"absent", "none", "stop", "restart"}]
        /\ blocked \subseteq Services /\ jobsSeen \in 0 .. Len(jobs) /\ executed \in 0 .. Len(jobs)
    BY <1>1, <2>2
  <2>4. /\ command \in Commands /\ jobs \in Seq(JobType)
    BY <1>1, <1>4
  <2>5. error \in BOOLEAN
    BY <1>1, Zenon
  <2> QED
    BY <1>5, <1>6, <1>7, <2>1, <2>2, <2>3, <2>4, <2>5, Zenon DEF CommandTypes
<1>10. PlaceInv
  BY <1>1, <1>5 DEF PlaceInv
<1>11. SystemInv
  <2>1. ASSUME NEW i \in 1 .. Len(jobs), jobs[i].solved # "install"
        PROVE  jobs[i].package \in installed
    <3>1. jobs[i] \in JobType
      BY <1>4
    <3>2. jobs[i].package \in Packages
      BY <3>1 DEF JobType
    <3>3. \A j \in DOMAIN jobs : jobs[j].package = jobs[i].package => j = i
      BY <1>4, <1>6
    <3> QED
      BY <1>1, <2>1, <3>2, <3>3
  <2> QED
    BY <1>1, <1>8, <2>1 DEF SystemInv, Scanned
<1>12. SelectionInv
  BY <1>1 DEF SelectionInv
<1>13. OutcomeInv
  BY <1>1 DEF OutcomeInv, Handled
<1>14. ReaderInv
  BY <1>1, <1>8 DEF ReaderInv, HoldsReadLock, ShowsWhatIsThere
<1> QED
  BY <1>9, <1>10, <1>11, <1>12, <1>13, <1>14 DEF HooksInv, CommandInv

LEMMA StutterHooksInv ==
  ASSUME HooksInv, UNCHANGED hookVars
  PROVE  HooksInv'
<1>1. UNCHANGED <<readerVars, installed>> /\ UNCHANGED place
  BY DEF hookVars, readerVars
<1>2. ReaderInv'
  BY <1>1, ReaderKept DEF HooksInv, ReaderInv
<1>3. CommandInv'
  BY DEF HooksInv, hookVars, CommandInv, CommandTypes, PlaceInv, SystemInv, SelectionInv,
     OutcomeInv, Removing, Recorded, Linked, ServicesOf, Dependents, Handled, Scanned, Present
<1> QED
  BY <1>2, <1>3 DEF HooksInv

LEMMA StepHooksInv ==
  ASSUME HooksInv, HookNext
  PROVE  HooksInv'
<1> DEFINE Step == \/ EnterHook \/ Scan \/ ScanCompletes \/ HookFails \/ VisitJob
                   \/ Handle \/ Dies \/ Handling \/ CallFails \/ NextStage \/ LeaveHook
                   \/ \E s \in Services : Straggles(s)
                   \/ TakeLock \/ LockFails \/ ExecuteJob \/ JobsExecuted
<1>1. CASE PkgServicesMain
  BY <1>1, ReaderReads
<1>2. CASE Step
  <2>1. CommandInv'
    BY <1>2, EnterHookKeeps, ScanKeeps, ScanCompletesKeeps, HookFailsKeeps, VisitJobKeeps,
       HandleKeeps, DiesKeeps, HandlingKeeps, CallFailsKeeps, StragglesKeeps, NextStageKeeps,
       LeaveHookKeeps, LibpkgKeeps, ExecuteJobKeeps
       DEF HooksInv
  <2>2. ReaderInv'
    <3>1. CASE ExecuteJob
      <4>1. /\ place = "execute" /\ place' = "execute" /\ UNCHANGED readerVars
        BY <3>1 DEF ExecuteJob
      <4>2. reader = "idle" /\ theirs = EmptyDb /\ shown = <<>>
        BY <4>1 DEF HooksInv, ReaderInv, HoldsReadLock
      <4>3. reader' = "idle" /\ theirs' = EmptyDb /\ shown' = <<>>
        BY <4>1, <4>2 DEF readerVars
      <4>4. Recorded(theirs') /\ Linked(theirs', installed') /\ theirs'.scripts = {}
        BY <4>3, EmptyIsRecorded
      <4> QED
        BY <4>3, <4>4 DEF ReaderInv, HoldsReadLock, ShowsWhatIsThere, Recorded, Linked,
           ServicesOf, Dependents
    <3>2. ASSUME NEW s \in Services, Straggles(s) PROVE ReaderInv'
      <4>1. UNCHANGED <<readerVars, installed, place>>
        BY <3>2 DEF Straggles
      <4>2. place' = "execute" => ~HoldsReadLock
        BY <4>1 DEF HooksInv, ReaderInv
      <4> QED
        BY <4>1, <4>2, ReaderKept DEF HooksInv
    <3>3. ASSUME Step, ~ExecuteJob, ~\E s \in Services : Straggles(s) PROVE ReaderInv'
      <4>1. UNCHANGED <<readerVars, installed>>
        BY <3>3 DEF EnterHook, Scan, ScanCompletes, HookFails, VisitJob, Handle, Dies, Handling,
           CallFails, NextStage, LeaveHook, TakeLock, LockFails, JobsExecuted, systemVars
      <4>2. place' = "execute" => ~HoldsReadLock
        BY <3>3 DEF EnterHook, Scan, ScanCompletes, HookFails, VisitJob, Handle, Dies, Handling,
           CallFails, NextStage, LeaveHook, TakeLock, LockFails, JobsExecuted, HooksInv, CommandInv
      <4> QED
        BY <4>1, <4>2, ReaderKept DEF HooksInv
    <3> QED
      BY <1>2, <3>1, <3>2, <3>3
  <2> QED
    BY <2>1, <2>2 DEF HooksInv
<1> QED
  BY <1>1, <1>2 DEF HookNext

\* What the hook knows of the scripts, what it selected, what became of it, and
\* what pkg services read, agree with the system in every reachable state.
THEOREM HooksAreConsistent == HookSpec => []HooksInv
<1>1. HooksInv /\ [HookNext]_hookVars => HooksInv'
  BY StepHooksInv, StutterHooksInv
<1> QED
  BY InitHooksInv, <1>1, PTL DEF HookSpec

\* Before libpkg removes a package for pkg deinstall or pkg autoremove, each of
\* its services was selected and concluded on or an error was shown, whatever calls
\* fail, and one that is said to be stopped does not run.
THEOREM StopsBeforeRemoval == HookSpec => []StoppedBeforeRemoval
<1>1. HooksInv => StoppedBeforeRemoval
  <2> SUFFICES ASSUME HooksInv, Removing, executed > 0,
                      NEW s \in Services, NEW i \in 1 .. executed, jobs[i].package = Owner[s]
               PROVE  /\ error \/ (action[s] = "stop" /\ outcome[s] \in Told)
                      /\ outcome[s] = "success" => s \notin up
    BY DEF StoppedBeforeRemoval, Removing
  <2>1. /\ CommandTypes /\ PlaceInv /\ SystemInv /\ SelectionInv /\ OutcomeInv
        /\ HookedBefore(command)
    BY Kinds DEF HooksInv, CommandInv, CommandTypes
  <2>2. place \in {"execute", "done"} /\ (error \/ jobsSeen = Len(jobs))
    BY <2>1 DEF PlaceInv, CommandTypes, Places
  <2>3. CASE jobsSeen = 0
    <3>1. error /\ outcome[s] = "unselected"
      BY <2>1, <2>2, <2>3 DEF CommandTypes, OutcomeInv
    <3> QED
      BY <3>1
  <2>4. CASE jobsSeen # 0
    <3>1. Handled /\ Scanned /\ jobsSeen = Len(jobs) /\ i \in 1 .. jobsSeen
      BY <2>1, <2>2, <2>4 DEF PlaceInv, CommandTypes, Handled, Scanned
    <3>2. jobs[i].solved = "delete" /\ s \in db.scripts
      BY <2>1, <3>1 DEF CommandTypes, SystemInv
    <3>3. action[s] = "stop" /\ blocked = {}
      BY <2>1, <3>1, <3>2 DEF SelectionInv
    <3>4. /\ outcome[s] \in Settled \ {"unselected", "blocked"}
          /\ outcome[s] \in {"abandoned", "astray"} => error
      BY <2>1, <2>2, <3>1, <3>3 DEF OutcomeInv
    <3>5. outcome[s] = "success" => s \notin up
      BY <2>1, <3>1, <3>3 DEF OutcomeInv
    <3> QED
      BY <3>3, <3>4, <3>5 DEF Settled, Concluded, Told
  <2> QED
    BY <2>3, <2>4
<1> QED
  BY HooksAreConsistent, <1>1, PTL

\* When pkg upgrade is over, a service that is said to be restarted runs with what
\* was upgraded, and one of an upgraded package, or that needs a library of one,
\* was concluded on or an error was shown, whatever calls fail.
THEOREM RestartsAfterUpgrade == HookSpec => []RestartedAfterUpgrade
<1>1. HooksInv => RestartedAfterUpgrade
  <2> SUFFICES ASSUME HooksInv, command = "upgrade", place = "done", executed = Len(jobs),
                      NEW s \in Services
               PROVE  /\ (action[s] = "restart" /\ outcome[s] = "success") => s \in fresh
                      /\ (s \in Present(installed)
                            /\ \E p \in {Owner[s]} \cup Uses[s] : Job(p, "upgrade")) =>
                           error \/ outcome[s] \in Told \cup {"blocked"}
    BY Zenon DEF RestartedAfterUpgrade
  <2>1. /\ CommandTypes /\ PlaceInv /\ SystemInv /\ SelectionInv /\ OutcomeInv
        /\ ~HookedBefore(command)
    BY Kinds DEF HooksInv, CommandInv, CommandTypes
  <2>2. error \/ jobsSeen = Len(jobs)
    BY <2>1 DEF PlaceInv
  <2>3. CASE jobsSeen = 0
    <3>1. error /\ outcome[s] = "unselected"
      BY <2>1, <2>2, <2>3 DEF CommandTypes, OutcomeInv
    <3> QED
      BY <3>1
  <2>4. CASE jobsSeen # 0
    <3>1. Handled /\ Scanned /\ jobsSeen = Len(jobs) /\ DOMAIN jobs = 1 .. jobsSeen
      BY <2>1, <2>2, <2>4 DEF PlaceInv, CommandTypes, Handled, Scanned
    <3>2. (action[s] = "restart" /\ outcome[s] = "success") => s \in fresh
      BY <2>1, <3>1 DEF OutcomeInv
    <3>3. ASSUME s \in Present(installed), NEW p \in {Owner[s]} \cup Uses[s], Job(p, "upgrade")
          PROVE  error \/ outcome[s] \in Told \cup {"blocked"}
      <4>1. PICK i \in 1 .. jobsSeen : jobs[i].package = p /\ jobs[i].solved = "upgrade"
        BY <3>1, <3>3 DEF Job
      <4>2. s \in db.scripts
        BY <2>1, <3>1, <3>3 DEF SystemInv
      <4>3. action[s] # "absent"
        BY <2>1, <3>3, <4>1, <4>2 DEF SelectionInv
      <4>4. /\ outcome[s] \in Settled \ {"unselected"}
            /\ outcome[s] \in {"abandoned", "astray"} => error
        BY <2>1, <3>1, <4>3 DEF OutcomeInv
      <4> QED
        BY <4>4 DEF Settled, Concluded, Told
    <3> QED
      BY <3>2, <3>3
  <2> QED
    BY <2>3, <2>4
<1> QED
  BY HooksAreConsistent, <1>1, PTL

\* Whatever the jobs of pkg upgrade are, no service of the blocklist is probed or
\* acted on.
THEOREM HonoursTheBlocklist == HookSpec => []BlocklistHonouredOnUpgrade
<1>1. HooksInv => BlocklistHonouredOnUpgrade
  <2> SUFFICES ASSUME HooksInv, command = "upgrade", NEW s \in Blocklist
               PROVE  outcome[s] \notin Acted \cup {"probing", "enabled"}
    BY DEF BlocklistHonouredOnUpgrade
  <2>1. /\ CommandTypes /\ PlaceInv /\ SelectionInv /\ OutcomeInv /\ ~HookedBefore(command)
        /\ s \in Services
    BY Kinds, BlocklistAssumption DEF HooksInv, CommandInv, CommandTypes
  <2>2. CASE Handled
    <3>1. blocked = Blocklist
      BY <2>1, <2>2 DEF SelectionInv, Handled, PlaceInv, CommandTypes
    <3> QED
      BY <2>1, <2>2, <3>1 DEF OutcomeInv, Acted
  <2>3. CASE ~Handled
    <3>1. outcome[s] \in {"unselected", "unknown"}
      BY <2>1, <2>3 DEF OutcomeInv, Handled, CommandTypes, Places
    <3> QED
      BY <3>1 DEF Acted
  <2> QED
    BY <2>2, <2>3
<1> QED
  BY HooksAreConsistent, <1>1, PTL

\* What pkg services shows of a package is what is installed when it shows it,
\* whatever the other command does meanwhile.
THEOREM ServicesShowsTheSystem == HookSpec => []ShowsWhatIsThere
<1>1. HooksInv => ShowsWhatIsThere
  BY DEF HooksInv, ReaderInv
<1> QED
  BY HooksAreConsistent, <1>1, PTL

-----------------------------------------------------------------------------
(* RcOrder: sets of naturals and finite sets *)

\* A set of naturals that is not empty has a least element.
LEMMA LeastElement ==
  \A T \in SUBSET Nat : T # {} => \E n \in T : \A m \in T : n <= m
<1> SUFFICES ASSUME NEW T \in SUBSET Nat, T # {}
             PROVE  \E n \in T : \A m \in T : n <= m
  OBVIOUS
<1> DEFINE Below == {1 .. n : n \in T}
<1>1. Below # {}
  OBVIOUS
<1>2. Below \subseteq FiniteSubsetsOf(Nat)
  <2>1. \A n \in T : 1 .. n \subseteq Nat /\ IsFiniteSet(1 .. n)
    <3> TAKE n \in T
    <3>1. 1 \in Int /\ n \in Int
      OBVIOUS
    <3> QED
      BY <3>1, FS_Interval
  <2> QED
    BY <2>1, Zenon DEF FiniteSubsetsOf
<1>3. IsWellFoundedOn(StrictSubsetOrdering(Nat), FiniteSubsetsOf(Nat))
  BY FS_StrictSubsetOrderingWellFounded
<1> HIDE DEF Below
<1>4. PICK b \in Below : \A a \in Below : <<a, b>> \notin StrictSubsetOrdering(Nat)
  BY <1>1, <1>2, <1>3, WFMin
<1>5. PICK n \in T : b = 1 .. n
  BY DEF Below
<1>6. ASSUME NEW m \in T, m < n PROVE FALSE
  <2>1. 1 .. m \in Below
    BY DEF Below
  <2>2. n \in 1 .. n /\ n \notin 1 .. m /\ 1 .. m \subseteq 1 .. n
    BY <1>6
  <2>3. <<1 .. m, 1 .. n>> \in StrictSubsetOrdering(Nat)
    BY <2>2 DEF StrictSubsetOrdering
  <2> QED
    BY <1>4, <1>5, <2>1, <2>3
<1> QED
  BY <1>6

\* A set of naturals with an upper bound that is not empty has a greatest one.
LEMMA GreatestElement ==
  \A b \in Nat : \A T \in SUBSET (0 .. b) :
    T # {} => \E n \in T : \A m \in T : m <= n
<1> SUFFICES ASSUME NEW b \in Nat, NEW T \in SUBSET (0 .. b), T # {}
             PROVE  \E n \in T : \A m \in T : m <= n
  OBVIOUS
<1> DEFINE Above == {x \in Nat : \E n \in T : x = b - n}
<1>1. Above \in SUBSET Nat
  OBVIOUS
<1>2. \A m \in T : b - m \in Above
  OBVIOUS
<1> HIDE DEF Above
<1>3. Above # {}
  BY <1>2
<1>4. PICK a \in Above : \A x \in Above : a <= x
  BY <1>1, <1>3, LeastElement
<1>5. PICK n \in T : a = b - n
  BY DEF Above
<1> QED
  BY <1>2, <1>4, <1>5

KeepKeywords == {k \in Keywords : ks[k] = "KEEP"}

\* What rcorder_options_add_ks does to the counter is what it does to the set
\* of keywords to keep.
LEMMA AddKsCounts ==
  ASSUME RcTypeOK, KeepCountCounts,
         NEW k \in Keywords, NEW act \in KsActions, AddKs(k, act)
  PROVE  KeepCountCounts' /\ keep_count' \in Nat
<1>1. IsFiniteSet(KeepKeywords) /\ IsFiniteSet(KeepKeywords')
  BY ScriptsAssumption, FS_Subset DEF KeepKeywords
<1>2. keep_count = Cardinality(KeepKeywords)
  BY DEF KeepCountCounts, KeepKeywords
<1>3. /\ ks' = [ks EXCEPT ![k] = act]
      /\ ks \in [Keywords -> KsActions \cup {"NONE"}]
  BY DEF AddKs, RcTypeOK
<1>4. CASE act = "KEEP" /\ ks[k] # "KEEP"
  <2>1. KeepKeywords' = KeepKeywords \cup {k} /\ k \notin KeepKeywords
    BY <1>3, <1>4 DEF KeepKeywords
  <2>2. Cardinality(KeepKeywords') = Cardinality(KeepKeywords) + 1
    BY <2>1, <1>1, FS_AddElement
  <2>3. keep_count' = keep_count + 1
    BY <1>4 DEF AddKs
  <2> QED
    BY <1>1, <1>2, <2>2, <2>3, FS_CardinalityType DEF KeepCountCounts, KeepKeywords
<1>5. CASE act = "SKIP" /\ ks[k] = "KEEP"
  <2>1. KeepKeywords' = KeepKeywords \ {k} /\ k \in KeepKeywords
    BY <1>3, <1>5 DEF KeepKeywords
  <2>2. Cardinality(KeepKeywords') = Cardinality(KeepKeywords) - 1
    BY <2>1, <1>1, FS_RemoveElement
  <2>3. keep_count' = keep_count - 1
    BY <1>5 DEF AddKs
  <2> QED
    BY <1>1, <1>2, <2>2, <2>3, FS_CardinalityType DEF KeepCountCounts, KeepKeywords
<1>6. CASE ~(act = "KEEP" /\ ks[k] # "KEEP") /\ ~(act = "SKIP" /\ ks[k] = "KEEP")
  <2>1. KeepKeywords' = KeepKeywords
    BY <1>3, <1>6 DEF KeepKeywords, KsActions
  <2>2. keep_count' = keep_count
    BY <1>6 DEF AddKs
  <2> QED
    BY <1>1, <1>2, <2>1, <2>2, FS_CardinalityType DEF KeepCountCounts, KeepKeywords
<1> QED
  BY <1>4, <1>5, <1>6

-----------------------------------------------------------------------------
(* The operations on the stack and on what was printed *)

\* Popping leaves the calls below.
LEMMA PopShape ==
  ASSUME stack \in Seq(Calls), stack # <<>>
  PROVE  /\ Len(stack) \in 1 .. Len(stack) /\ Top \in Calls
         /\ SubSeq(stack, 1, Len(stack) - 1) \in Seq(Calls)
         /\ Len(SubSeq(stack, 1, Len(stack) - 1)) = Len(stack) - 1
         /\ \A i \in 1 .. Len(stack) - 1 : SubSeq(stack, 1, Len(stack) - 1)[i] = stack[i]
<1>1. Len(stack) \in Nat \ {0}
  BY EmptySeq
<1>2. \A i \in 1 .. Len(stack) : stack[i] \in Calls
  BY ElementOfSeq
<1>3. \A i \in 1 .. Len(stack) - 1 : stack[i] \in Calls
  BY <1>1, <1>2
<1> DEFINE n == Len(stack) - 1
<1>4. n \in Nat
  BY <1>1
<1>5. \A i \in 1 .. n : stack[i] \in Calls
  BY <1>3
<1> HIDE DEF n
<1>6. /\ SubSeq(stack, 1, n) \in Seq(Calls)
      /\ Len(SubSeq(stack, 1, n)) = IF 1 <= n THEN n - 1 + 1 ELSE 0
      /\ \A i \in 1 .. n - 1 + 1 : SubSeq(stack, 1, n)[i] = stack[1 + i - 1]
  BY <1>4, <1>5, SubSeqProperties
<1>7. /\ SubSeq(stack, 1, n) \in Seq(Calls)
      /\ Len(SubSeq(stack, 1, n)) = n
      /\ \A i \in 1 .. n : SubSeq(stack, 1, n)[i] = stack[i]
  BY <1>4, <1>6
<1> QED
  BY <1>1, <1>2, <1>7 DEF Top, n

\* Going on to the next child changes no call but the innermost, and only
\* shortens what is left of it.
LEMMA NextChildShape ==
  ASSUME stack \in Seq(Calls), stack # <<>>, NEW c
  PROVE  /\ WithoutChild(c) \in Seq(Calls)
         /\ Len(WithoutChild(c)) = Len(stack)
         /\ \A i \in 1 .. Len(stack) :
              /\ WithoutChild(c)[i].script = stack[i].script
              /\ WithoutChild(c)[i].rest \subseteq stack[i].rest
<1>1. Len(stack) \in 1 .. Len(stack) /\ Top \in Calls
  BY PopShape
<1> DEFINE top == [Top EXCEPT !.rest = @ \ {c}]
<1>2. top \in Calls /\ top.script = Top.script /\ top.rest \subseteq Top.rest
  BY <1>1 DEF Calls
<1>3. WithoutChild(c) = [stack EXCEPT ![Len(stack)] = top]
  BY DEF WithoutChild, Top
<1> HIDE DEF top
<1>4. /\ WithoutChild(c) \in Seq(Calls)
      /\ Len(WithoutChild(c)) = Len(stack)
      /\ \A i \in 1 .. Len(stack) :
           WithoutChild(c)[i] = IF i = Len(stack) THEN top ELSE stack[i]
  BY <1>1, <1>2, <1>3, ExceptSeq
<1> QED
  BY <1>2, <1>4 DEF Top

\* A new call comes on top of the others.
LEMMA PushShape ==
  ASSUME NEW calls \in Seq(Calls), NEW call \in Calls
  PROVE  /\ Append(calls, call) \in Seq(Calls)
         /\ Len(Append(calls, call)) = Len(calls) + 1
         /\ \A i \in 1 .. Len(calls) : Append(calls, call)[i] = calls[i]
         /\ Append(calls, call)[Len(calls) + 1] = call
BY AppendProperties

\* Printing a script that was not printed keeps the output without repetition.
LEMMA DisplayEffect ==
  ASSUME printed \in Seq(Scripts), NEW s \in Scripts, NEW now \in BOOLEAN,
         Display(s, now), PrintedOnce, now => s \notin Printed
  PROVE  /\ printed' \in Seq(Scripts)
         /\ PrintedOnce'
         /\ Printed' \subseteq Printed \cup {s}
         /\ ~now => Printed' = Printed
<1>1. CASE now /\ Kept(s)
  <2>1. printed' = Append(printed, s)
    BY <1>1 DEF Display
  <2>2. /\ printed' \in Seq(Scripts)
        /\ Len(printed') = Len(printed) + 1
        /\ \A i \in 1 .. Len(printed) : printed'[i] = printed[i]
        /\ printed'[Len(printed) + 1] = s
        /\ Len(printed) \in Nat
        /\ DOMAIN printed = 1 .. Len(printed) /\ DOMAIN printed' = 1 .. Len(printed')
    BY <2>1, AppendProperties, LenProperties
  <2>3. \A i \in 1 .. Len(printed) : printed[i] # s
    BY <1>1, <2>2 DEF Printed
  <2>4. PrintedOnce'
    BY <2>2, <2>3 DEF PrintedOnce
  <2>5. Printed' \subseteq Printed \cup {s}
    BY <2>2 DEF Printed
  <2> QED
    BY <1>1, <2>2, <2>4, <2>5
<1>2. CASE ~(now /\ Kept(s))
  <2>1. printed' = printed
    BY <1>2 DEF Display
  <2> QED
    BY <2>1 DEF PrintedOnce, Printed
<1> QED
  BY <1>1, <1>2

-----------------------------------------------------------------------------
(* Type correctness *)

LEMMA InitTypeOK == RcInit => RcTypeOK
<1> HAVE RcInit
<1>1. /\ keywords \in [Scripts -> Seq(Keywords)]
      /\ stack \in Seq(Calls)
      /\ printed \in Seq(Scripts)
  BY EmptySeq DEF RcInit
<1>2. ks \in [Keywords -> KsActions \cup {"NONE"}]
  BY DEF RcInit
<1>3. /\ requires \in [Scripts -> SUBSET Names] /\ befores \in [Scripts -> SUBSET Names]
      /\ provides \in [Names -> SUBSET Scripts]
      /\ parents \in [Scripts -> SUBSET Scripts]
      /\ children \in [Scripts -> SUBSET Scripts]
  BY DEF RcInit
<1>4. reverse \in BOOLEAN /\ include_orphans \in BOOLEAN
  BY Zenon DEF RcInit
<1>5. /\ keep_count \in Nat /\ spent \in 0 .. Budget
      /\ scripts \subseteq Scripts /\ current \subseteq scripts /\ package \subseteq Scripts
      /\ todo \subseteq Scripts /\ visited \subseteq Scripts
      /\ pc \in {"options", "scan", "relate", "visit", "done", "failed"}
  BY BudgetAssumption DEF RcInit
<1> QED
  BY <1>1, <1>2, <1>3, <1>4, <1>5, Zenon DEF RcTypeOK

\* The actions up to the traversal
LEMMA ScanTypeOK ==
  ASSUME RcTypeOK, KeepCountCounts,
         \/ \E k \in Keywords, act \in KsActions : AddKs(k, act)
         \/ SetReverse \/ SetIncludeOrphans \/ OptionsEnd \/ RcOrderFails
         \/ \E s \in Scripts :
              \/ RegisterScript(s)
              \/ \E n \in Names : HandleRequire(s, n) \/ HandleBefore(s, n)
              \/ \E k \in Keywords : HandleKeyword(s, k)
         \/ ScanFails \/ ScanEnds
         \/ \E s \in Scripts : Relate(s)
         \/ FindRoots
  PROVE  RcTypeOK'
<1> USE DEF RcTypeOK, scanVars, graphVars, visitVars, optionVars
<1>1. ASSUME NEW k \in Keywords, NEW act \in KsActions, AddKs(k, act) PROVE RcTypeOK'
  <2>1. keep_count' \in Nat
    BY <1>1, AddKsCounts
  <2>2. ks' \in [Keywords -> KsActions \cup {"NONE"}]
    BY <1>1 DEF AddKs
  <2> QED
    BY <1>1, <2>1, <2>2, BudgetAssumption DEF AddKs, Spend
<1>2. CASE SetReverse
  BY <1>2, BudgetAssumption DEF SetReverse, Spend
<1>3. CASE SetIncludeOrphans
  BY <1>3, BudgetAssumption DEF SetIncludeOrphans, Spend
<1>4. CASE OptionsEnd
  BY <1>4 DEF OptionsEnd
<1>5. CASE RcOrderFails
  BY <1>5 DEF RcOrderFails
<1>6. ASSUME NEW s \in Scripts, RegisterScript(s) PROVE RcTypeOK'
  BY <1>6 DEF RegisterScript
<1>7. ASSUME NEW s \in Scripts, NEW n \in Names, HandleRequire(s, n) PROVE RcTypeOK'
  BY <1>7, BudgetAssumption DEF HandleRequire, Reading, Spend
<1>8. ASSUME NEW s \in Scripts, NEW n \in Names, HandleBefore(s, n) PROVE RcTypeOK'
  BY <1>8, BudgetAssumption DEF HandleBefore, Reading, Spend
<1>9. ASSUME NEW s \in Scripts, NEW k \in Keywords, HandleKeyword(s, k) PROVE RcTypeOK'
  <2>1. keywords' \in [Scripts -> Seq(Keywords)]
    BY <1>9, AppendProperties DEF HandleKeyword
  <2> QED
    BY <1>9, <2>1, BudgetAssumption DEF HandleKeyword, Reading, Spend
<1>10. CASE ScanFails
  <2>1. keywords' \in [Scripts -> Seq(Keywords)]
    BY <1>10, EmptySeq DEF ScanFails
  <2> QED
    BY <1>10, <2>1 DEF ScanFails
<1>11. CASE ScanEnds
  BY <1>11 DEF ScanEnds
<1>12. ASSUME NEW s \in Scripts, Relate(s) PROVE RcTypeOK'
  BY <1>12 DEF Relate, SetParenthood
<1>13. CASE FindRoots
  BY <1>13 DEF FindRoots, Roots
<1> QED
  BY <1>1, <1>2, <1>3, <1>4, <1>5, <1>6, <1>7, <1>8, <1>9, <1>10, <1>11, <1>12, <1>13

\* What the actions of the traversal leave alone
scanned == <<optionVars, scanVars, graphVars, spent>>

\* The traversal: a visit has a script of the graph and prints at most that one.
LEMMA VisitTypeOK ==
  ASSUME RcTypeOK,
         \/ \E s \in Scripts : VisitRoot(s) \/ VisitChild(s) \/ SkipChild(s)
         \/ Leave \/ VisitEnds
  PROVE  RcTypeOK' /\ scanned' = scanned
<1> USE DEF RcTypeOK, scanned, scanVars, graphVars, visitVars, optionVars
<1>1. \A s \in Scripts : Call(s) \in Calls
  BY DEF Call, Calls
<1>2. \A s \in Scripts : \A now \in BOOLEAN : Display(s, now) => printed' \in Seq(Scripts)
  BY AppendProperties DEF Display
<1>3. ASSUME NEW s \in Scripts, VisitRoot(s) PROVE RcTypeOK' /\ scanned' = scanned
  <2>1. stack' \in Seq(Calls)
    <3>1. <<Call(s)>> = Append(<<>>, Call(s)) /\ <<>> \in Seq(Calls)
      BY EmptySeq
    <3> QED
      BY <3>1, <1>1, <1>3, PushShape DEF VisitRoot
  <2>2. printed' \in Seq(Scripts)
    BY <1>2, <1>3 DEF VisitRoot
  <2> QED
    BY <1>3, <2>1, <2>2 DEF VisitRoot
<1>4. ASSUME NEW c \in Scripts, VisitChild(c) PROVE RcTypeOK' /\ scanned' = scanned
  <2>1. stack' \in Seq(Calls)
    <3>1. WithoutChild(c) \in Seq(Calls)
      BY <1>4, NextChildShape DEF VisitChild
    <3> QED
      BY <3>1, <1>1, <1>4, PushShape DEF VisitChild
  <2>2. printed' \in Seq(Scripts)
    BY <1>2, <1>4 DEF VisitChild
  <2> QED
    BY <1>4, <2>1, <2>2 DEF VisitChild
<1>5. ASSUME NEW c \in Scripts, SkipChild(c) PROVE RcTypeOK' /\ scanned' = scanned
  <2>1. stack' \in Seq(Calls)
    BY <1>5, NextChildShape DEF SkipChild
  <2> QED
    BY <1>5, <2>1 DEF SkipChild
<1>6. CASE Leave
  <2>1. stack' \in Seq(Calls) /\ Top.script \in Scripts
    BY <1>6, PopShape DEF Leave, Calls
  <2>2. printed' \in Seq(Scripts)
    BY <1>2, <1>6, <2>1 DEF Leave
  <2> QED
    BY <1>6, <2>1, <2>2 DEF Leave
<1>7. CASE VisitEnds
  BY <1>7 DEF VisitEnds
<1> QED
  BY <1>3, <1>4, <1>5, <1>6, <1>7

-----------------------------------------------------------------------------
(* The inductive invariant *)

RcIInv == RcTypeOK /\ KeepCountCounts /\ PrintedOnce /\ TraversalInv

LEMMA InitRcIInv == RcInit => RcIInv
<1> HAVE RcInit
<1>1. RcTypeOK
  BY InitTypeOK
<1>2. KeepCountCounts
  <2>1. {k \in Keywords : ks[k] = "KEEP"} = {}
    BY DEF RcInit
  <2>2. keep_count = 0
    BY DEF RcInit
  <2> QED
    BY <2>1, <2>2, FS_EmptySet DEF KeepCountCounts
<1>3. stack = <<>> /\ printed = <<>> /\ visited = {} /\ pc = "options"
  BY DEF RcInit
<1>4. PrintedOnce /\ StackInv /\ VisitInv
  BY <1>3 DEF PrintedOnce, StackInv, VisitInv, Printed
<1>5. BothEnds
  BY DEF RcInit, BothEnds
<1> QED
  BY <1>1, <1>2, <1>4, <1>5 DEF RcIInv, TraversalInv

\* Up to the traversal nothing is visited nor printed; the graph grows at both
\* ends, and the traversal starts with scripts without parent.
LEMMA ScanStep ==
  ASSUME RcIInv,
         \/ \E k \in Keywords, act \in KsActions : AddKs(k, act)
         \/ SetReverse \/ SetIncludeOrphans \/ OptionsEnd \/ RcOrderFails
         \/ \E s \in Scripts :
              \/ RegisterScript(s)
              \/ \E n \in Names : HandleRequire(s, n) \/ HandleBefore(s, n)
              \/ \E k \in Keywords : HandleKeyword(s, k)
         \/ ScanFails \/ ScanEnds
         \/ \E s \in Scripts : Relate(s)
         \/ FindRoots
  PROVE  RcIInv'
<1> DEFINE Options == \/ \E k \in Keywords, act \in KsActions : AddKs(k, act)
                      \/ SetReverse \/ SetIncludeOrphans \/ OptionsEnd \/ RcOrderFails
           Reads == \/ \E s \in Scripts :
                         \/ RegisterScript(s)
                         \/ \E n \in Names : HandleRequire(s, n) \/ HandleBefore(s, n)
                         \/ \E k \in Keywords : HandleKeyword(s, k)
                    \/ ScanFails \/ ScanEnds
           Relation == (\E s \in Scripts : Relate(s)) \/ FindRoots
<1>1. RcTypeOK'
  BY ScanTypeOK DEF RcIInv
<1>2. /\ pc \in {"options", "scan", "relate"} /\ UNCHANGED visitVars
      /\ pc' \in {"options", "scan", "relate", "visit", "failed"}
  <2>1. CASE Options
    BY <2>1 DEF AddKs, SetReverse, SetIncludeOrphans, OptionsEnd, RcOrderFails
  <2>2. CASE Reads
    BY <2>2 DEF RegisterScript, Reading, HandleRequire, HandleBefore, HandleKeyword,
                ScanFails, ScanEnds
  <2>3. CASE Relation
    BY <2>3 DEF Relate, FindRoots
  <2> QED
    BY <2>1, <2>2, <2>3
<1>3. stack = <<>> /\ visited = {} /\ stack' = <<>> /\ visited' = {} /\ printed' = printed
  BY <1>2 DEF RcIInv, TraversalInv, VisitInv, visitVars
<1>4. PrintedOnce' /\ StackInv' /\ Printed' \subseteq visited'
  BY <1>3 DEF RcIInv, TraversalInv, VisitInv, PrintedOnce, StackInv, Printed
<1>5. KeepCountCounts'
  <2>1. ASSUME NEW k \in Keywords, NEW act \in KsActions, AddKs(k, act)
        PROVE  KeepCountCounts'
    BY <2>1, AddKsCounts DEF RcIInv
  <2>2. ASSUME ~\E k \in Keywords, act \in KsActions : AddKs(k, act)
        PROVE  ks' = ks /\ keep_count' = keep_count
    <3>1. CASE Options
      BY <2>2, <3>1 DEF SetReverse, SetIncludeOrphans, OptionsEnd, RcOrderFails, optionVars
    <3>2. CASE Reads
      BY <3>2 DEF RegisterScript, HandleRequire, HandleBefore, HandleKeyword,
                  ScanFails, ScanEnds, optionVars
    <3>3. CASE Relation
      BY <3>3 DEF Relate, FindRoots, optionVars
    <3> QED
      BY <3>1, <3>2, <3>3
  <2> QED
    BY <2>1, <2>2 DEF RcIInv, KeepCountCounts
<1>6. BothEnds'
  <2>1. ASSUME NEW s \in Scripts, Relate(s) PROVE BothEnds'
    BY <2>1 DEF Relate, SetParenthood, BothEnds, RcIInv, TraversalInv, RcTypeOK
  <2>2. ASSUME ~\E s \in Scripts : Relate(s) PROVE children' = children /\ parents' = parents
    <3>1. CASE Options
      BY <3>1 DEF AddKs, SetReverse, SetIncludeOrphans, OptionsEnd, RcOrderFails, graphVars
    <3>2. CASE Reads
      BY <3>2 DEF RegisterScript, HandleRequire, HandleBefore, HandleKeyword,
                  ScanFails, ScanEnds, graphVars
    <3>3. CASE Relation
      BY <2>2, <3>3 DEF FindRoots, graphVars
    <3> QED
      BY <3>1, <3>2, <3>3
  <2> QED
    BY <2>1, <2>2 DEF BothEnds, RcIInv, TraversalInv
<1>7. pc' = "visit" => \A r \in todo' : parents'[r] = {} /\ r \notin visited'
  <2>1. CASE FindRoots
    BY <2>1, <1>3 DEF FindRoots, Roots, graphVars
  <2>2. CASE ~FindRoots
    <3>1. pc' # "visit"
      <4>1. CASE Options
        BY <4>1 DEF AddKs, SetReverse, SetIncludeOrphans, OptionsEnd, RcOrderFails
      <4>2. CASE Reads
        BY <4>2 DEF RegisterScript, Reading, HandleRequire, HandleBefore, HandleKeyword,
                    ScanFails, ScanEnds
      <4>3. CASE Relation
        BY <2>2, <4>3 DEF Relate
      <4> QED
        BY <4>1, <4>2, <4>3
    <3> QED
      BY <3>1
  <2> QED
    BY <2>1, <2>2
<1> QED
  BY <1>1, <1>3, <1>4, <1>5, <1>6, <1>7 DEF RcIInv, TraversalInv, VisitInv

\* A visited script is not visited again, nor is a root that is not yet
\* visited anybody's child.
LEMMA VisitStep ==
  ASSUME RcIInv,
         \/ \E s \in Scripts : VisitRoot(s) \/ VisitChild(s) \/ SkipChild(s)
         \/ Leave \/ VisitEnds
  PROVE  RcIInv'
<1>1. RcTypeOK /\ RcTypeOK' /\ scanned' = scanned
  BY VisitTypeOK DEF RcIInv
<1>2. /\ ks' = ks /\ keep_count' = keep_count /\ reverse' = reverse
      /\ children' = children /\ parents' = parents
  BY <1>1 DEF scanned, optionVars, graphVars
<1>3. KeepCountCounts' /\ BothEnds'
  BY <1>2 DEF KeepCountCounts, BothEnds, RcIInv, TraversalInv
<1>4. /\ stack \in Seq(Calls) /\ printed \in Seq(Scripts)
      /\ DOMAIN stack = 1 .. Len(stack) /\ Len(stack) \in Nat
      /\ children \in [Scripts -> SUBSET Scripts]
      /\ PrintedOnce /\ StackInv /\ VisitInv /\ BothEnds
  BY LenProperties DEF RcIInv, RcTypeOK, TraversalInv
<1>5. reverse \in BOOLEAN
  BY Zenon DEF RcIInv, RcTypeOK
<1>6. SUFFICES PrintedOnce' /\ StackInv' /\ VisitInv'
  BY <1>1, <1>3 DEF RcIInv, TraversalInv
<1>7. ASSUME NEW s \in Scripts, VisitRoot(s) PROVE PrintedOnce' /\ StackInv' /\ VisitInv'
  <2>1. /\ pc = "visit" /\ pc' = "visit" /\ stack = <<>> /\ s \in todo
        /\ todo' = todo \ {s} /\ visited' = visited \cup {s}
        /\ stack' = <<Call(s)>> /\ Display(s, reverse)
    BY <1>7 DEF VisitRoot
  <2>2. s \notin visited /\ s \notin Printed
    BY <1>4, <2>1 DEF VisitInv
  <2>3. /\ PrintedOnce' /\ Printed' \subseteq Printed \cup {s}
        /\ ~reverse => Printed' = Printed
    BY <1>4, <1>5, <2>1, <2>2, DisplayEffect
  <2>4. /\ DOMAIN stack' = {1} /\ stack'[1].script = s /\ stack'[1].rest = children[s]
    BY <2>1 DEF Call
  <2>5. StackInv'
    BY <1>2, <2>1, <2>2, <2>3, <2>4 DEF StackInv
  <2>6. VisitInv'
    BY <1>2, <1>4, <2>1, <2>3 DEF VisitInv
  <2> QED
    BY <2>3, <2>5, <2>6
<1>8. ASSUME NEW c \in Scripts, VisitChild(c) PROVE PrintedOnce' /\ StackInv' /\ VisitInv'
  <2> DEFINE calls == WithoutChild(c)
  <2>1. /\ pc = "visit" /\ pc' = "visit" /\ stack # <<>> /\ c \in Top.rest \ visited
        /\ todo' = todo /\ visited' = visited \cup {c}
        /\ stack' = Append(calls, Call(c)) /\ Display(c, reverse)
    BY <1>8 DEF VisitChild
  <2>2. Len(stack) \in 1 .. Len(stack) /\ Top \in Calls
    BY <1>4, <2>1, PopShape
  <2>3. c \in children[Top.script] /\ Top.script \in Scripts
    BY <1>4, <2>1, <2>2 DEF StackInv, Top, Calls
  <2>4. c \notin Printed /\ c \notin todo
    <3>1. Top.script \in parents[c]
      BY <1>4, <2>3 DEF BothEnds
    <3> QED
      BY <1>4, <2>1, <3>1 DEF VisitInv
  <2>5. /\ PrintedOnce' /\ Printed' \subseteq Printed \cup {c}
        /\ ~reverse => Printed' = Printed
    BY <1>4, <1>5, <2>1, <2>4, DisplayEffect
  <2>6. /\ calls \in Seq(Calls) /\ Len(calls) = Len(stack)
        /\ \A i \in 1 .. Len(stack) :
             calls[i].script = stack[i].script /\ calls[i].rest \subseteq stack[i].rest
    BY <1>4, <2>1, NextChildShape
  <2>7. Call(c) \in Calls /\ Call(c).script = c /\ Call(c).rest = children[c]
    BY <1>4 DEF Call, Calls
  <2> HIDE DEF calls
  <2>8. /\ DOMAIN stack' = 1 .. Len(stack) + 1
        /\ \A i \in 1 .. Len(stack) :
             stack'[i].script = stack[i].script /\ stack'[i].rest \subseteq stack[i].rest
        /\ stack'[Len(stack) + 1].script = c
        /\ stack'[Len(stack) + 1].rest = children[c]
    BY <2>1, <2>6, <2>7, PushShape, LenProperties
  <2>9. \A i \in DOMAIN stack' : i \in DOMAIN stack \/ i = Len(stack) + 1
    BY <1>4, <2>8
  <2>10. \A i \in DOMAIN stack : stack[i].script \in visited /\ stack[i].script # c
    BY <1>4, <2>1 DEF StackInv
  <2>11. \A i \in DOMAIN stack' :
           /\ stack'[i].script \in visited'
           /\ stack'[i].rest \subseteq children'[stack'[i].script]
           /\ ~reverse' => stack'[i].script \notin Printed'
    <3> TAKE i \in DOMAIN stack'
    <3>1. CASE i \in DOMAIN stack
      BY <1>2, <1>4, <2>1, <2>5, <2>8, <3>1 DEF StackInv
    <3>2. CASE i = Len(stack) + 1
      BY <1>2, <2>1, <2>4, <2>5, <2>8, <3>2
    <3> QED
      BY <2>9, <3>1, <3>2
  <2>12. \A i, j \in DOMAIN stack' : stack'[i].script = stack'[j].script => i = j
    BY <1>4, <2>8, <2>9, <2>10 DEF StackInv
  <2>13. VisitInv'
    BY <1>2, <1>4, <2>1, <2>4, <2>5 DEF VisitInv
  <2> QED
    BY <2>5, <2>11, <2>12, <2>13 DEF StackInv
<1>9. ASSUME NEW c \in Scripts, SkipChild(c) PROVE PrintedOnce' /\ StackInv' /\ VisitInv'
  <2>1. /\ pc = "visit" /\ pc' = pc /\ stack # <<>> /\ stack' = WithoutChild(c)
        /\ todo' = todo /\ visited' = visited /\ printed' = printed
    BY <1>9 DEF SkipChild
  <2>2. /\ DOMAIN stack' = DOMAIN stack
        /\ \A i \in DOMAIN stack :
             stack'[i].script = stack[i].script /\ stack'[i].rest \subseteq stack[i].rest
    BY <1>4, <2>1, NextChildShape, LenProperties
  <2>3. PrintedOnce' /\ Printed' = Printed
    BY <1>4, <2>1 DEF PrintedOnce, Printed
  <2>4. StackInv'
    <3>1. \A i \in DOMAIN stack' :
            /\ stack'[i].script \in visited'
            /\ stack'[i].rest \subseteq children'[stack'[i].script]
            /\ ~reverse' => stack'[i].script \notin Printed'
      BY <1>2, <1>4, <2>1, <2>2, <2>3 DEF StackInv
    <3>2. \A i, j \in DOMAIN stack' : stack'[i].script = stack'[j].script => i = j
      BY <1>4, <2>2 DEF StackInv
    <3> QED
      BY <3>1, <3>2 DEF StackInv
  <2>5. VisitInv'
    BY <1>2, <1>4, <2>1, <2>3 DEF VisitInv
  <2> QED
    BY <2>3, <2>4, <2>5
<1>10. CASE Leave
  <2>1. /\ pc = "visit" /\ pc' = pc /\ stack # <<>>
        /\ stack' = SubSeq(stack, 1, Len(stack) - 1) /\ Display(Top.script, ~reverse)
        /\ todo' = todo /\ visited' = visited
    BY <1>10 DEF Leave
  <2>2. /\ Len(stack) \in 1 .. Len(stack) /\ Top \in Calls
        /\ stack' \in Seq(Calls) /\ Len(stack') = Len(stack) - 1
        /\ \A i \in 1 .. Len(stack) - 1 : stack'[i] = stack[i]
    BY <1>4, <2>1, PopShape
  <2>3. DOMAIN stack' = 1 .. Len(stack) - 1
    BY <2>2, LenProperties
  <2>4. /\ Top.script \in Scripts /\ Top.script \in visited
        /\ ~reverse => Top.script \notin Printed
    BY <1>4, <2>2 DEF Top, Calls, StackInv
  <2>5. /\ PrintedOnce' /\ Printed' \subseteq Printed \cup {Top.script}
        /\ reverse => Printed' = Printed
    <3>1. \A now \in BOOLEAN :
            Display(Top.script, now) /\ (now => Top.script \notin Printed) =>
              /\ PrintedOnce' /\ Printed' \subseteq Printed \cup {Top.script}
              /\ ~now => Printed' = Printed
      BY <1>4, <2>4, DisplayEffect
    <3>2. CASE reverse
      <4>1. Display(Top.script, FALSE)
        BY <2>1, <3>2 DEF Display
      <4> QED
        BY <3>1, <4>1
    <3>3. CASE ~reverse
      <4>1. Display(Top.script, TRUE)
        BY <2>1, <3>3 DEF Display
      <4> QED
        BY <2>4, <3>1, <3>3, <4>1
    <3> QED
      BY <3>2, <3>3
  <2>6. \A i \in DOMAIN stack' : i \in DOMAIN stack /\ stack'[i] = stack[i] /\ stack[i].script # Top.script
    <3>1. Len(stack) \in Nat /\ DOMAIN stack = 1 .. Len(stack)
      BY <1>4, LenProperties
    <3>2. \A i \in 1 .. Len(stack) - 1 : i \in DOMAIN stack /\ i # Len(stack)
      <4>1. \A n \in Nat : \A i \in 1 .. n - 1 : i \in 1 .. n /\ i # n
        OBVIOUS
      <4> QED
        BY <3>1, <4>1
    <3>3. Len(stack) \in DOMAIN stack
      BY <2>2, <3>1
    <3>4. \A i \in 1 .. Len(stack) - 1 : stack[i].script # Top.script
      BY <1>4, <3>2, <3>3 DEF Top, StackInv
    <3> QED
      BY <2>2, <2>3, <3>2, <3>4
  <2>7. StackInv'
    BY <1>2, <1>4, <2>1, <2>5, <2>6 DEF StackInv
  <2>8. VisitInv'
    BY <1>2, <1>4, <2>1, <2>4, <2>5 DEF VisitInv
  <2> QED
    BY <2>5, <2>7, <2>8
<1>11. CASE VisitEnds
  BY <1>2, <1>4, <1>11 DEF VisitEnds, visitVars, PrintedOnce, StackInv, VisitInv, Printed
<1> QED
  BY <1>7, <1>8, <1>9, <1>10, <1>11

LEMMA StepRcIInv == RcIInv /\ [RcNext]_rcVars => RcIInv'
<1>1. CASE UNCHANGED rcVars
  BY <1>1 DEF RcIInv, RcTypeOK, KeepCountCounts, PrintedOnce, TraversalInv, BothEnds,
     StackInv, VisitInv, Printed, rcVars, optionVars, scanVars, graphVars, visitVars
<1>2. CASE RcNext
  BY <1>2, ScanStep, VisitStep DEF RcNext
<1> QED
  BY <1>1, <1>2

-----------------------------------------------------------------------------
(* What a script leads to *)

\* A script leads to its children, and to the children of what it leads to;
\* nothing else is in Leads: any set closed under children holds it.
LEMMA LeadsChildren ==
  ASSUME children \in [Scripts -> SUBSET Scripts], NEW s \in Scripts
  PROVE  /\ children[s] \subseteq Leads(s)
         /\ \A t \in Leads(s) : t \in Scripts /\ children[t] \subseteq Leads(s)
         /\ \A closed \in SUBSET Scripts :
              (children[s] \subseteq closed /\ \A x \in closed : children[x] \subseteq closed)
                => Leads(s) \subseteq closed
<1>1. children[s] \subseteq Scripts /\ \A t \in Scripts : children[t] \subseteq Scripts
  OBVIOUS
<1>2. children[s] \subseteq Leads(s)
  BY <1>1 DEF Leads
<1>3. ASSUME NEW t \in Leads(s), NEW u \in children[t] PROVE u \in Leads(s)
  <2>1. t \in Scripts /\ u \in Scripts
    BY <1>1, <1>3 DEF Leads
  <2>2. ASSUME NEW closed \in SUBSET Scripts, children[s] \subseteq closed,
               \A x \in closed : children[x] \subseteq closed
        PROVE  u \in closed
    <3>1. t \in closed
      BY <1>3, <2>2 DEF Leads
    <3> QED
      BY <1>3, <2>2, <3>1
  <2> QED
    BY <2>1, <2>2 DEF Leads
<1>4. \A t \in Leads(s) : t \in Scripts
  BY DEF Leads
<1>5. \A closed \in SUBSET Scripts :
        (children[s] \subseteq closed /\ \A x \in closed : children[x] \subseteq closed)
          => Leads(s) \subseteq closed
  BY DEF Leads
<1> QED
  BY <1>2, <1>3, <1>4, <1>5

\* What a script leads to leads nowhere else.
LEMMA LeadsTransitive ==
  ASSUME children \in [Scripts -> SUBSET Scripts], NEW s \in Scripts, NEW t \in Leads(s)
  PROVE  Leads(t) \subseteq Leads(s)
<1>1. t \in Scripts /\ children[t] \subseteq Leads(s)
  BY LeadsChildren
<1>2. Leads(s) \in SUBSET Scripts /\ \A x \in Leads(s) : children[x] \subseteq Leads(s)
  BY LeadsChildren
<1> QED
  BY <1>1, <1>2, LeadsChildren

-----------------------------------------------------------------------------
(* What the options ask for *)

\* keep_script, that stops at the first keyword to skip and lets the last one
\* it read decide, keeps the scripts the options ask for: none of their keywords
\* is to be skipped and, if any is to be kept, one of theirs is.
LEMMA KeptIsWanted ==
  ASSUME RcTypeOK, KeepCountCounts, NEW s \in Scripts
  PROVE  Kept(s) <=> Wanted(s)
<1> DEFINE named == {i \in DOMAIN keywords[s] : ks[keywords[s][i]] # "NONE"}
           skips == {i \in DOMAIN keywords[s] : ks[keywords[s][i]] = "SKIP"}
           asked == [i \in DOMAIN keywords[s] |-> ks[keywords[s][i]]]
           read == {i \in DOMAIN asked :
                      asked[i] # "NONE" /\ \A j \in 1 .. i - 1 : asked[j] # "SKIP"}
           words == {keywords[s][i] : i \in DOMAIN keywords[s]}
           wanted == /\ \A k \in words : ks[k] # "SKIP"
                     /\ (\E k \in Keywords : ks[k] = "KEEP") => \E k \in words : ks[k] = "KEEP"
<1>1. /\ keywords[s] \in Seq(Keywords) /\ Len(keywords[s]) \in Nat
      /\ DOMAIN keywords[s] = 1 .. Len(keywords[s])
      /\ \A i \in DOMAIN keywords[s] : keywords[s][i] \in Keywords
      /\ \A k \in Keywords : ks[k] \in {"KEEP", "SKIP", "NONE"}
  BY LenProperties, ElementOfSeq DEF RcTypeOK, KsActions
<1>2. \A i \in DOMAIN keywords[s] : asked[i] = ks[keywords[s][i]] /\ asked[i] \in {"KEEP", "SKIP", "NONE"}
  BY <1>1
<1>3. DOMAIN asked = 1 .. Len(keywords[s])
  BY <1>1
<1>4. keep_count = 0 <=> KeepKeywords = {}
  <2>1. IsFiniteSet(KeepKeywords) /\ keep_count = Cardinality(KeepKeywords)
    BY ScriptsAssumption, FS_Subset DEF KeepKeywords, KeepCountCounts
  <2> QED
    BY <2>1, FS_EmptySet
<1>5. KeepScript(s) <=> IF read = {} THEN keep_count = 0
                        ELSE asked[CHOOSE i \in read : \A j \in read : j <= i] = "KEEP"
  BY Zenon DEF KeepScript
<1>6. named \in SUBSET Nat /\ skips \in SUBSET Nat /\ read \in SUBSET (0 .. Len(keywords[s]))
  BY <1>1, <1>3
<1>7. CASE read = {}
  <2>1. named = {}
    <3>1. SUFFICES ASSUME named # {} PROVE FALSE
      OBVIOUS
    <3>2. PICK i \in named : \A j \in named : i <= j
      BY <1>6, <3>1, LeastElement
    <3>3. \A j \in 1 .. i - 1 : asked[j] # "SKIP"
      BY <1>1, <1>2, <1>3, <3>2
    <3>4. i \in read
      BY <1>2, <1>3, <3>2, <3>3
    <3> QED
      BY <1>7, <3>4
  <2>2. \A k \in words : ks[k] = "NONE"
    BY <2>1
  <2>3. wanted <=> KeepKeywords = {}
    BY <2>2 DEF KeepKeywords
  <2> QED
    BY <1>4, <1>5, <1>7, <2>3 DEF Kept, Wanted
<1>8. CASE read # {}
  <2> DEFINE last == CHOOSE i \in read : \A j \in read : j <= i
  <2>1. last \in read /\ \A j \in read : j <= last
    <3>1. \E i \in read : \A j \in read : j <= i
      BY <1>1, <1>6, <1>8, GreatestElement
    <3> HIDE DEF read
    <3> QED
      BY <3>1
  <2> HIDE DEF last
  <2>2. last \in 1 .. Len(keywords[s]) /\ asked[last] # "NONE"
    BY <1>3, <2>1
  <2>3. CASE skips = {}
    <3>1. asked[last] = "KEEP"
      BY <1>1, <1>2, <2>2, <2>3
    <3>2. keywords[s][last] \in words /\ ks[keywords[s][last]] = "KEEP"
      BY <1>1, <1>2, <2>2, <3>1
    <3>3. wanted
      BY <2>3, <3>2
    <3> QED
      BY <1>5, <1>8, <3>1, <3>3 DEF Kept, Wanted, last
  <2>4. CASE skips # {}
    <3>1. PICK i \in skips : \A j \in skips : i <= j
      BY <1>6, <2>4, LeastElement
    <3>2. i \in 1 .. Len(keywords[s]) /\ asked[i] = "SKIP"
      BY <1>1, <1>2, <3>1
    <3>3. \A j \in 1 .. i - 1 : asked[j] # "SKIP"
      BY <1>1, <1>2, <1>3, <3>1, <3>2
    <3>4. i \in read
      BY <1>3, <3>2, <3>3
    <3>5. last = i
      <4>1. i <= last /\ ~(i \in 1 .. last - 1)
        BY <2>1, <3>2, <3>4
      <4> QED
        BY <2>2, <3>2, <4>1
    <3>6. ~wanted
      BY <1>1, <3>1
    <3> QED
      BY <1>5, <1>8, <3>2, <3>5, <3>6 DEF Kept, Wanted, last
  <2> QED
    BY <2>3, <2>4
<1> QED
  BY <1>7, <1>8

-----------------------------------------------------------------------------
(* The inductive invariant of the order *)

\* The scripts whose call is under way, and those whose call has returned
Active == {stack[i].script : i \in DOMAIN stack}
Finished == visited \ Active

FromRoots == Roots \cup UNION {Leads(r) : r \in Roots}

\* A call leads to every call above it.
PathInv ==
  \A s \in Scripts : \A i, j \in DOMAIN stack :
    stack[i].script = s /\ i < j => stack[j].script \in Leads(s)

\* The children a call no longer has before it were visited.
ChildrenInv ==
  /\ \A i \in DOMAIN stack : children[stack[i].script] \ stack[i].rest \subseteq visited
  /\ \A s \in Finished : children[s] \subseteq visited

PrintedInv == Printed = {s \in IF reverse THEN visited ELSE Finished : Kept(s)}

RootsInv ==
  /\ visited \subseteq FromRoots
  /\ pc \in {"visit", "done"} => todo \subseteq Roots /\ Roots \ todo \subseteq visited
  /\ pc = "done" => todo = {} /\ stack = <<>>

OrderInv == PathInv /\ ChildrenInv /\ PrintedInv /\ RootsInv /\ DependentsFirst

LEMMA InitOrderInv == RcInit => OrderInv
BY DEF RcInit, OrderInv, PathInv, ChildrenInv, PrintedInv, RootsInv, DependentsFirst,
       Active, Finished, Printed

\* With nothing visited nor printed there is nothing to order.
LEMMA ScanOrder ==
  ASSUME RcIInv, RcIInv', OrderInv,
         \/ \E k \in Keywords, act \in KsActions : AddKs(k, act)
         \/ SetReverse \/ SetIncludeOrphans \/ OptionsEnd \/ RcOrderFails
         \/ \E s \in Scripts :
              \/ RegisterScript(s)
              \/ \E n \in Names : HandleRequire(s, n) \/ HandleBefore(s, n)
              \/ \E k \in Keywords : HandleKeyword(s, k)
         \/ ScanFails \/ ScanEnds
         \/ \E s \in Scripts : Relate(s)
         \/ FindRoots
  PROVE  OrderInv'
<1>1. /\ pc \in {"options", "scan", "relate"} /\ UNCHANGED visitVars
      /\ pc' # "done"
      /\ pc' = "visit" => FindRoots
  BY DEF AddKs, SetReverse, SetIncludeOrphans, OptionsEnd, RcOrderFails,
         RegisterScript, Reading, HandleRequire, HandleBefore, HandleKeyword,
         ScanFails, ScanEnds, Relate, FindRoots
<1>2. visited' = {} /\ stack' = <<>> /\ Printed' = {}
  <2>1. stack = <<>> /\ visited = {} /\ Printed = {}
    BY <1>1 DEF RcIInv, TraversalInv, VisitInv
  <2> QED
    BY <1>1, <2>1 DEF visitVars, Printed
<1>3. PathInv' /\ ChildrenInv' /\ PrintedInv' /\ DependentsFirst'
  BY <1>2 DEF PathInv, ChildrenInv, PrintedInv, DependentsFirst, Finished
<1>4. RootsInv'
  <2>1. FindRoots => todo' = Roots'
    BY DEF FindRoots, Roots, scanVars, graphVars
  <2> QED
    BY <1>1, <1>2, <2>1 DEF RootsInv
<1> QED
  BY <1>3, <1>4 DEF OrderInv

\* The traversal leaves the graph and the options alone.
LEMMA SameGraph ==
  ASSUME scanned' = scanned
  PROVE  /\ \A s : Leads(s)' = Leads(s) /\ Kept(s)' = Kept(s)
         /\ Roots' = Roots /\ FromRoots' = FromRoots
         /\ children' = children /\ reverse' = reverse
<1>1. /\ children' = children /\ parents' = parents /\ scripts' = scripts
      /\ package' = package /\ keywords' = keywords /\ ks' = ks
      /\ keep_count' = keep_count /\ include_orphans' = include_orphans
      /\ reverse' = reverse
  BY DEF scanned, optionVars, scanVars, graphVars
<1>2. \A s : Leads(s)' = Leads(s)
  BY <1>1 DEF Leads
<1>3. \A s : Kept(s)' = Kept(s)
  BY <1>1 DEF Kept, KeepScript
<1>4. Roots' = Roots
  BY <1>1 DEF Roots
<1>5. FromRoots' = FromRoots
  BY <1>2, <1>4 DEF FromRoots
<1> QED
  BY <1>1, <1>2, <1>3, <1>4, <1>5

\* A script that is printed comes after those that were.
LEMMA DisplayPositions ==
  ASSUME printed \in Seq(Scripts), PrintedOnce, PrintedOnce',
         NEW s \in Scripts, NEW now \in BOOLEAN, Display(s, now)
  PROVE  /\ Printed' = IF now /\ Kept(s) THEN Printed \cup {s} ELSE Printed
         /\ \A t \in Printed : Position(t)' = Position(t) /\ Position(t) \in 1 .. Len(printed)
         /\ now /\ Kept(s) => Position(s)' = Len(printed) + 1
<1>1. Len(printed) \in Nat /\ DOMAIN printed = 1 .. Len(printed)
  BY LenProperties
<1>2. \A i \in DOMAIN printed : Position(printed[i]) = i
  <2> TAKE i \in DOMAIN printed
  <2>1. \A j \in DOMAIN printed : printed[j] = printed[i] => j = i
    BY DEF PrintedOnce
  <2> QED
    BY <2>1 DEF Position
<1>3. \A t : \A i \in DOMAIN printed' : printed'[i] = t => Position(t)' = i
  <2> SUFFICES ASSUME NEW t, NEW i \in DOMAIN printed', printed'[i] = t
               PROVE  Position(t)' = i
    OBVIOUS
  <2>1. \A j \in DOMAIN printed' : printed'[j] = t => j = i
    BY DEF PrintedOnce
  <2> QED
    BY <2>1 DEF Position
<1>4. CASE now /\ Kept(s)
  <2>1. printed' = Append(printed, s)
    BY <1>4 DEF Display
  <2>2. /\ DOMAIN printed' = 1 .. Len(printed) + 1
        /\ \A i \in 1 .. Len(printed) : printed'[i] = printed[i]
        /\ printed'[Len(printed) + 1] = s
    BY <2>1, AppendProperties, LenProperties
  <2>3. Len(printed) + 1 \in DOMAIN printed'
    BY <1>1, <2>2
  <2>4. \A i \in DOMAIN printed : i \in DOMAIN printed' /\ printed'[i] = printed[i]
    BY <1>1, <2>2
  <2>5. \A i \in DOMAIN printed' : i \in DOMAIN printed \/ i = Len(printed) + 1
    BY <1>1, <2>2
  <2>6. Printed' = Printed \cup {s}
    BY <2>2, <2>3, <2>4, <2>5 DEF Printed
  <2>7. Position(s)' = Len(printed) + 1
    BY <1>3, <2>2, <2>3
  <2>8. ASSUME NEW t \in Printed
        PROVE  Position(t)' = Position(t) /\ Position(t) \in 1 .. Len(printed)
    <3>1. PICK i \in DOMAIN printed : t = printed[i]
      BY DEF Printed
    <3>2. i \in DOMAIN printed' /\ printed'[i] = t
      BY <2>4, <3>1
    <3>3. Position(t)' = i
      BY <1>3, <3>2
    <3>4. Position(t) = i
      BY <1>2, <3>1
    <3> QED
      BY <1>1, <3>3, <3>4
  <2> QED
    BY <1>4, <2>6, <2>7, <2>8
<1>5. CASE ~(now /\ Kept(s))
  <2>1. printed' = printed
    BY <1>5 DEF Display
  <2>2. Printed' = Printed /\ \A t : Position(t)' = Position(t)
    BY <2>1 DEF Printed, Position
  <2>3. \A t \in Printed : Position(t) \in 1 .. Len(printed)
    BY <1>1, <1>2 DEF Printed
  <2> QED
    BY <1>5, <2>2, <2>3
<1> QED
  BY <1>4, <1>5

\* When a call has gone through all its children, one that does not lead back
\* to its script has been visited and left, and all it leads to as well: a
\* call still under way leads to that script.
LEMMA BelowIsFinished ==
  ASSUME RcIInv, PathInv, ChildrenInv, stack # <<>>, Top.rest = {},
         NEW c \in children[Top.script],
         Top.script \notin {c} \cup Leads(c)
  PROVE  {c} \cup Leads(c) \subseteq Finished
<1>1. /\ stack \in Seq(Calls) /\ children \in [Scripts -> SUBSET Scripts]
      /\ DOMAIN stack = 1 .. Len(stack) /\ Len(stack) \in 1 .. Len(stack)
      /\ Top \in Calls /\ visited \subseteq Scripts
  BY PopShape, LenProperties DEF RcIInv, RcTypeOK
<1>2. /\ Top.script \in Scripts /\ c \in Scripts
      /\ Top = stack[Len(stack)] /\ Len(stack) \in DOMAIN stack
  BY <1>1 DEF Calls, Top
<1>3. \A i \in DOMAIN stack : stack[i].script = Top.script \/ Top.script \in Leads(stack[i].script)
  <2> TAKE i \in DOMAIN stack
  <2>1. CASE i = Len(stack)
    BY <1>2, <2>1
  <2>2. CASE i # Len(stack)
    <3>1. i < Len(stack)
      BY <1>1, <2>2
    <3>2. stack[i].script \in Scripts
      <4>1. \A k \in 1 .. Len(stack) : stack[k] \in Calls
        BY <1>1, ElementOfSeq
      <4> QED
        BY <1>1, <4>1 DEF Calls
    <3> QED
      BY <1>2, <3>1, <3>2 DEF PathInv
  <2> QED
    BY <2>1, <2>2
<1> DEFINE below == Finished \cap ({c} \cup Leads(c))
<1>4. ASSUME NEW y \in visited, y \in {c} \cup Leads(c) PROVE y \in below
  <2>1. Top.script \notin {y} \cup Leads(y)
    BY <1>1, <1>2, <1>4, LeadsTransitive
  <2>2. y \notin Active
    BY <1>3, <2>1 DEF Active
  <2> QED
    BY <1>4, <2>2 DEF Finished
<1>5. c \in below
  <2>1. c \in visited
    BY <1>2 DEF ChildrenInv
  <2> QED
    BY <1>4, <2>1
<1>6. \A x \in below : children[x] \subseteq below
  <2> SUFFICES ASSUME NEW x \in below, NEW y \in children[x] PROVE y \in below
    OBVIOUS
  <2>1. y \in visited
    BY DEF ChildrenInv
  <2>2. y \in Leads(c)
    BY <1>1, <1>2, LeadsChildren
  <2> HIDE DEF below
  <2> QED
    BY <1>4, <2>1, <2>2
<1>7. below \in SUBSET Scripts
  BY <1>1 DEF Finished
<1> HIDE DEF below
<1>8. Leads(c) \subseteq below
  BY <1>1, <1>2, <1>5, <1>6, <1>7, LeadsChildren
<1> QED
  BY <1>5, <1>8 DEF below

\* One disjunct of the traversal after the other
LEMMA VisitOrder ==
  ASSUME RcIInv, RcIInv', OrderInv,
         \/ \E s \in Scripts : VisitRoot(s) \/ VisitChild(s) \/ SkipChild(s)
         \/ Leave \/ VisitEnds
  PROVE  OrderInv'
<1>1. scanned' = scanned
  BY VisitTypeOK DEF RcIInv
<1>2. /\ \A s : Leads(s)' = Leads(s) /\ Kept(s)' = Kept(s)
      /\ Roots' = Roots /\ FromRoots' = FromRoots
      /\ children' = children /\ reverse' = reverse
  BY <1>1, SameGraph
<1>3. /\ stack \in Seq(Calls) /\ printed \in Seq(Scripts)
      /\ DOMAIN stack = 1 .. Len(stack) /\ Len(stack) \in Nat
      /\ children \in [Scripts -> SUBSET Scripts] /\ visited \subseteq Scripts
      /\ PrintedOnce /\ PrintedOnce' /\ StackInv /\ VisitInv
  BY LenProperties DEF RcIInv, RcTypeOK, TraversalInv
<1>4. reverse \in BOOLEAN
  BY Zenon DEF RcIInv, RcTypeOK
<1>5. PathInv /\ ChildrenInv /\ PrintedInv /\ RootsInv /\ DependentsFirst
  BY DEF OrderInv
<1>6. ASSUME Printed' = Printed, printed' = printed PROVE DependentsFirst'
  <2>1. \A s : Position(s)' = Position(s)
    BY <1>6 DEF Position
  <2> QED
    BY <1>2, <1>5, <1>6, <2>1 DEF DependentsFirst
<1>7. reverse => DependentsFirst'
  BY <1>2 DEF DependentsFirst
<1>8. ASSUME NEW s \in Scripts, VisitRoot(s) PROVE OrderInv'
  <2>1. /\ pc = "visit" /\ pc' = "visit" /\ stack = <<>> /\ s \in todo
        /\ todo' = todo \ {s} /\ visited' = visited \cup {s}
        /\ stack' = <<Call(s)>> /\ Display(s, reverse)
    BY <1>8 DEF VisitRoot
  <2>2. DOMAIN stack' = {1} /\ stack'[1].script = s /\ stack'[1].rest = children[s]
    BY <2>1 DEF Call
  <2>3. s \notin visited /\ Active = {} /\ Active' = {s} /\ s \in Roots
    BY <1>3, <1>5, <2>1, <2>2 DEF VisitInv, Active, RootsInv
  <2>4. Finished' = Finished /\ Finished = visited
    BY <2>1, <2>3 DEF Finished
  <2>5. PathInv'
    BY <2>2 DEF PathInv
  <2>6. ChildrenInv'
    BY <1>2, <1>5, <2>1, <2>2, <2>4 DEF ChildrenInv
  <2>7. Printed' = IF reverse /\ Kept(s) THEN Printed \cup {s} ELSE Printed
    BY <1>3, <1>4, <2>1, DisplayPositions
  <2>8. PrintedInv'
    BY <1>2, <1>5, <2>1, <2>4, <2>7 DEF PrintedInv
  <2>9. RootsInv'
    BY <1>2, <1>5, <2>1, <2>3 DEF RootsInv, FromRoots
  <2>10. DependentsFirst'
    BY <1>6, <1>7, <2>1, <2>7 DEF Display
  <2> QED
    BY <2>5, <2>6, <2>8, <2>9, <2>10 DEF OrderInv
<1>9. ASSUME NEW c \in Scripts, VisitChild(c) PROVE OrderInv'
  <2> DEFINE calls == WithoutChild(c)
  <2>1. /\ pc = "visit" /\ pc' = "visit" /\ stack # <<>> /\ c \in Top.rest \ visited
        /\ todo' = todo /\ visited' = visited \cup {c}
        /\ stack' = Append(calls, Call(c)) /\ Display(c, reverse)
    BY <1>9 DEF VisitChild
  <2>2. Len(stack) \in 1 .. Len(stack) /\ Top \in Calls /\ Top = stack[Len(stack)]
    BY <1>3, <2>1, PopShape DEF Top
  <2>3. c \in children[Top.script] /\ Top.script \in Scripts /\ Top.script \in visited
    BY <1>3, <2>1, <2>2 DEF StackInv, Calls
  <2>4. /\ calls \in Seq(Calls) /\ Len(calls) = Len(stack)
        /\ \A i \in 1 .. Len(stack) :
             /\ calls[i].script = stack[i].script
             /\ stack[i].rest \ {c} \subseteq calls[i].rest
    <3>1. /\ calls \in Seq(Calls) /\ Len(calls) = Len(stack)
          /\ \A i \in 1 .. Len(stack) : calls[i].script = stack[i].script
      BY <1>3, <2>1, NextChildShape
    <3>2. \A i \in 1 .. Len(stack) : stack[i].rest \ {c} \subseteq calls[i].rest
      <4>1. \A i \in 1 .. Len(stack) : stack[i] \in Calls
        BY <1>3, ElementOfSeq
      <4> QED
        BY <1>3, <2>2, <4>1 DEF WithoutChild, Calls
    <3> QED
      BY <3>1, <3>2
  <2>5. Call(c) \in Calls /\ Call(c).script = c /\ Call(c).rest = children[c]
    BY <1>3 DEF Call, Calls
  <2> HIDE DEF calls
  <2>6. /\ DOMAIN stack' = 1 .. Len(stack) + 1
        /\ \A i \in 1 .. Len(stack) :
             stack'[i].script = stack[i].script /\ stack[i].rest \ {c} \subseteq stack'[i].rest
        /\ stack'[Len(stack) + 1].script = c
        /\ stack'[Len(stack) + 1].rest = children[c]
    BY <2>1, <2>4, <2>5, PushShape, LenProperties
  <2>7. \A i \in DOMAIN stack' : i \in DOMAIN stack \/ i = Len(stack) + 1
    BY <1>3, <2>6
  <2>8. Active' = Active \cup {c}
    BY <1>3, <2>6, <2>7 DEF Active
  <2>9. Finished' = Finished
    BY <2>1, <2>8 DEF Finished
  <2>10. \A i \in DOMAIN stack : c \in Leads(stack[i].script)
    <3> TAKE i \in DOMAIN stack
    <3>1. CASE i = Len(stack)
      BY <1>3, <2>2, <2>3, <3>1, LeadsChildren
    <3>2. CASE i # Len(stack)
      <4>1. stack[i].script \in Scripts
        BY <1>3 DEF StackInv
      <4>2. Top.script \in Leads(stack[i].script)
        BY <1>3, <1>5, <2>2, <3>2, <4>1 DEF PathInv
      <4>3. \A t \in Scripts : Top.script \in Leads(t) => c \in Leads(t)
        BY <1>3, <2>3, LeadsChildren
      <4> QED
        BY <4>1, <4>2, <4>3
    <3> QED
      BY <3>1, <3>2
  <2>11. PathInv'
    <3> SUFFICES ASSUME NEW s \in Scripts, NEW i \in DOMAIN stack', NEW j \in DOMAIN stack',
                        stack'[i].script = s, i < j
                 PROVE  stack'[j].script \in Leads(s)
      BY <1>2 DEF PathInv
    <3>1. i \in DOMAIN stack /\ stack[i].script = s
      BY <1>3, <2>6
    <3>3. CASE j \in DOMAIN stack
      BY <1>3, <1>5, <2>6, <3>1, <3>3 DEF PathInv
    <3>4. CASE j = Len(stack) + 1
      BY <2>6, <2>10, <3>1, <3>4
    <3> QED
      BY <2>7, <3>3, <3>4
  <2>12. ChildrenInv'
    <3>1. \A i \in DOMAIN stack' : children[stack'[i].script] \ stack'[i].rest \subseteq visited'
      BY <1>3, <1>5, <2>1, <2>6, <2>7 DEF ChildrenInv
    <3>2. \A s \in Finished' : children[s] \subseteq visited'
      BY <1>5, <2>1, <2>9 DEF ChildrenInv
    <3> QED
      BY <1>2, <3>1, <3>2 DEF ChildrenInv
  <2>13. Printed' = IF reverse /\ Kept(c) THEN Printed \cup {c} ELSE Printed
    BY <1>3, <1>4, <2>1, DisplayPositions
  <2>14. PrintedInv'
    BY <1>2, <1>5, <2>1, <2>9, <2>13 DEF PrintedInv
  <2>15. c \in FromRoots
    <3>1. Top.script \in FromRoots /\ \A r \in Roots : r \in Scripts
      BY <1>5, <2>3 DEF RootsInv, Roots, RcIInv, RcTypeOK
    <3>2. \A r \in Roots : (Top.script = r \/ Top.script \in Leads(r)) => c \in Leads(r)
      BY <1>3, <2>3, <3>1, LeadsChildren
    <3> QED
      BY <3>1, <3>2 DEF FromRoots
  <2>16. RootsInv'
    BY <1>2, <1>5, <2>1, <2>15 DEF RootsInv
  <2>17. DependentsFirst'
    BY <1>6, <1>7, <2>1, <2>13 DEF Display
  <2> QED
    BY <2>11, <2>12, <2>14, <2>16, <2>17 DEF OrderInv
<1>10. ASSUME NEW c \in Scripts, SkipChild(c) PROVE OrderInv'
  <2>1. /\ pc = "visit" /\ pc' = pc /\ stack # <<>> /\ stack' = WithoutChild(c)
        /\ todo' = todo /\ visited' = visited /\ printed' = printed /\ c \in visited
    BY <1>10 DEF SkipChild
  <2>2. /\ DOMAIN stack' = DOMAIN stack
        /\ \A i \in DOMAIN stack : stack'[i].script = stack[i].script
    BY <1>3, <2>1, NextChildShape, LenProperties
  <2>3. \A i \in DOMAIN stack : stack[i].rest \ {c} \subseteq stack'[i].rest
    <3>1. Len(stack) \in 1 .. Len(stack)
      BY <1>3, <2>1, PopShape
    <3>2. \A i \in 1 .. Len(stack) : stack[i] \in Calls
      BY <1>3, ElementOfSeq
    <3> QED
      BY <1>3, <2>1, <3>1, <3>2 DEF WithoutChild, Calls
  <2>4. Active' = Active /\ Finished' = Finished /\ Printed' = Printed
    BY <2>1, <2>2 DEF Active, Finished, Printed
  <2>5. PathInv'
    BY <1>2, <1>5, <2>2 DEF PathInv
  <2>6. ChildrenInv'
    BY <1>2, <1>5, <2>1, <2>2, <2>3, <2>4 DEF ChildrenInv
  <2>7. PrintedInv'
    BY <1>2, <1>5, <2>1, <2>4 DEF PrintedInv
  <2>8. RootsInv'
    BY <1>2, <1>5, <2>1 DEF RootsInv
  <2>9. DependentsFirst'
    BY <1>6, <2>1, <2>4
  <2> QED
    BY <2>5, <2>6, <2>7, <2>8, <2>9 DEF OrderInv
<1>11. CASE Leave
  <2>1. PICK s \in Scripts : s = Top.script
    BY <1>3, <1>11, PopShape DEF Leave, Calls
  <2>2. /\ pc = "visit" /\ pc' = pc /\ stack # <<>> /\ Top.rest = {}
        /\ stack' = SubSeq(stack, 1, Len(stack) - 1) /\ Display(s, ~reverse)
        /\ todo' = todo /\ visited' = visited
    BY <1>11, <2>1 DEF Leave
  <2>3. /\ Len(stack) \in 1 .. Len(stack) /\ Top = stack[Len(stack)]
        /\ DOMAIN stack' = 1 .. Len(stack) - 1
        /\ \A i \in 1 .. Len(stack) - 1 : stack'[i] = stack[i]
    BY <1>3, <2>2, PopShape, LenProperties DEF Top
  <2>4. \A i \in DOMAIN stack' : i \in DOMAIN stack /\ i # Len(stack) /\ stack'[i] = stack[i]
    BY <1>3, <2>3
  <2>5. \A i \in DOMAIN stack : i \in DOMAIN stack' \/ i = Len(stack)
    BY <1>3, <2>3
  <2>6. s \in Active /\ Active' = Active \ {s}
    <3>1. \A i \in DOMAIN stack : stack[i].script = s => i = Len(stack)
      BY <1>3, <2>1, <2>3 DEF StackInv
    <3>2. s = stack[Len(stack)].script /\ Len(stack) \in DOMAIN stack
      BY <1>3, <2>1, <2>3
    <3> QED
      BY <2>4, <2>5, <3>1, <3>2 DEF Active
  <2>7. s \in visited
    BY <1>3, <2>6 DEF StackInv, Active
  <2>8. Finished' = Finished \cup {s}
    BY <2>2, <2>6, <2>7 DEF Finished
  <2>9. PathInv'
    BY <1>2, <1>5, <2>4 DEF PathInv
  <2>10. children[s] \subseteq visited
    BY <1>3, <1>5, <2>1, <2>2, <2>3 DEF ChildrenInv
  <2>11. ChildrenInv'
    BY <1>2, <1>5, <2>2, <2>4, <2>8, <2>10 DEF ChildrenInv
  <2>12. PICK now \in BOOLEAN : now = ~reverse
    BY <1>4
  <2>13. Display(s, now)
    BY <2>2, <2>12 DEF Display
  <2>14. /\ Printed' = IF now /\ Kept(s) THEN Printed \cup {s} ELSE Printed
         /\ \A t \in Printed : Position(t)' = Position(t) /\ Position(t) \in 1 .. Len(printed)
         /\ now /\ Kept(s) => Position(s)' = Len(printed) + 1
    BY <1>3, <2>13, DisplayPositions
  <2>15. PrintedInv'
    BY <1>2, <1>5, <2>2, <2>8, <2>12, <2>14 DEF PrintedInv
  <2>16. RootsInv'
    BY <1>2, <1>5, <2>2 DEF RootsInv
  <2>17. ASSUME ~reverse, NEW a \in Printed', NEW c \in children[a], a \notin {c} \cup Leads(c),
                NEW t \in {c} \cup Leads(c), Kept(t)
         PROVE  t \in Printed' /\ Position(t)' < Position(a)'
    <3>1. \A x \in Printed : Position(x) \in Nat
      BY <2>14
    <3>2. CASE a \in Printed
      <4>1. t \in Printed /\ Position(t) < Position(a)
        BY <1>5, <2>17, <3>2 DEF DependentsFirst
      <4> QED
        BY <2>14, <3>2, <4>1
    <3>3. CASE a \notin Printed
      <4>1. a = s /\ Kept(s)
        BY <2>14, <3>3
      <4>2. t \in Finished
        BY <1>5, <2>1, <2>2, <2>17, <4>1, BelowIsFinished
      <4>3. t \in Printed
        BY <1>5, <2>17, <4>2 DEF PrintedInv
      <4>4. Position(s)' = Len(printed) + 1
        BY <2>12, <2>14, <2>17, <4>1
      <4> QED
        BY <1>3, <2>14, <4>1, <4>3, <4>4
    <3> QED
      BY <3>2, <3>3
  <2>18. DependentsFirst'
    BY <1>2, <2>17 DEF DependentsFirst
  <2> QED
    BY <2>9, <2>11, <2>15, <2>16, <2>18 DEF OrderInv
<1>12. CASE VisitEnds
  <2>1. /\ pc' = "done" /\ stack = <<>> /\ todo = {} /\ pc = "visit"
        /\ UNCHANGED <<todo, visited, stack, printed>>
    BY <1>12 DEF VisitEnds, visitVars
  <2>2. Active' = Active /\ Finished' = Finished /\ Printed' = Printed
    BY <2>1 DEF Active, Finished, Printed
  <2>3. PathInv' /\ ChildrenInv' /\ PrintedInv' /\ RootsInv'
    BY <1>2, <1>5, <2>1, <2>2 DEF PathInv, ChildrenInv, PrintedInv, RootsInv
  <2> QED
    BY <1>6, <2>1, <2>2, <2>3 DEF OrderInv
<1> QED
  BY <1>8, <1>9, <1>10, <1>11, <1>12

\* What is printed, and what was finished before what, for any graph
LEMMA StepOrderInv == RcIInv /\ RcIInv' /\ OrderInv /\ [RcNext]_rcVars => OrderInv'
<1>1. CASE UNCHANGED rcVars
  <2>1. scanned' = scanned /\ UNCHANGED <<todo, pc, visited, stack, printed>>
    BY <1>1 DEF rcVars, scanned, visitVars
  <2>2. /\ \A s : Leads(s)' = Leads(s) /\ Kept(s)' = Kept(s) /\ Position(s)' = Position(s)
        /\ Roots' = Roots /\ FromRoots' = FromRoots
        /\ children' = children /\ reverse' = reverse
    BY <2>1, SameGraph DEF Position
  <2>3. Active' = Active /\ Finished' = Finished /\ Printed' = Printed
    BY <2>1 DEF Active, Finished, Printed
  <2> QED
    BY <2>1, <2>2, <2>3 DEF OrderInv, PathInv, ChildrenInv, PrintedInv, RootsInv, DependentsFirst
<1>2. CASE RcNext
  BY <1>2, ScanOrder, VisitOrder DEF RcNext
<1> QED
  BY <1>1, <1>2

-----------------------------------------------------------------------------
(* The theorems *)

\* The conjunction is an invariant of pkg rcorder.
THEOREM RcInductiveInvariant == RcSpec => []RcIInv
<1>1. RcInit => RcIInv
  BY InitRcIInv
<1>2. RcIInv /\ [RcNext]_rcVars => RcIInv'
  BY StepRcIInv
<1> QED
  BY <1>1, <1>2, PTL DEF RcSpec

\* The options, the database and the traversal keep their types.
THEOREM RcTypeCorrect == RcSpec => []RcTypeOK
<1>1. RcIInv => RcTypeOK
  BY DEF RcIInv
<1> QED
  BY <1>1, RcInductiveInvariant, PTL

\* keep_count is the number of keywords to keep, after any options.
THEOREM KeepCountIsRight == RcSpec => []KeepCountCounts
<1>1. RcIInv => KeepCountCounts
  BY DEF RcIInv
<1> QED
  BY <1>1, RcInductiveInvariant, PTL

\* No graph of scripts makes the traversal print one of them twice.
THEOREM NothingPrintedTwice == RcSpec => []PrintedOnce
<1>1. RcIInv => PrintedOnce
  BY DEF RcIInv
<1> QED
  BY <1>1, RcInductiveInvariant, PTL

\* The order is an invariant of pkg rcorder.
THEOREM RcOrderInvariant == RcSpec => []OrderInv
<1>1. RcInit => OrderInv
  BY InitOrderInv
<1>2. RcIInv /\ RcIInv' /\ OrderInv /\ [RcNext]_rcVars => OrderInv'
  BY StepOrderInv
<1> QED
  BY <1>1, <1>2, RcInductiveInvariant, PTL DEF RcSpec

\* Whatever cycles there are, a script comes after each child that does not lead
\* back to it, and after all that child leads to.
THEOREM DependentsComeFirst == RcSpec => []DependentsFirst
<1>1. OrderInv => DependentsFirst
  BY DEF OrderInv
<1> QED
  BY <1>1, RcOrderInvariant, PTL

\* What is printed at the end is what the options ask for, of what roots lead to.
THEOREM WantedIsPrinted == RcSpec => []PrintsWhatIsWanted
<1>1. RcIInv /\ OrderInv => PrintsWhatIsWanted
  <2> SUFFICES ASSUME RcIInv, OrderInv, pc = "done"
               PROVE  Printed = {s \in FromRoots : Wanted(s)}
    BY DEF PrintsWhatIsWanted, FromRoots
  <2>1. /\ children \in [Scripts -> SUBSET Scripts] /\ visited \subseteq Scripts
        /\ Roots \subseteq Scripts /\ RcTypeOK /\ KeepCountCounts
    BY DEF RcIInv, RcTypeOK, Roots
  <2>2. Finished = visited /\ Roots \subseteq visited /\ visited \subseteq FromRoots
    BY DEF OrderInv, RootsInv, Finished, Active
  <2>3. \A s \in visited : children[s] \subseteq visited
    BY <2>2 DEF OrderInv, ChildrenInv
  <2>4. \A r \in Roots : Leads(r) \subseteq visited
    BY <2>1, <2>2, <2>3, LeadsChildren
  <2>5. visited = FromRoots
    BY <2>2, <2>4 DEF FromRoots
  <2>6. Printed = {s \in visited : Kept(s)}
    BY <2>2 DEF OrderInv, PrintedInv
  <2>7. \A s \in visited : Kept(s) <=> Wanted(s)
    BY <2>1, KeptIsWanted
  <2> QED
    BY <2>5, <2>6, <2>7
<1> QED
  BY <1>1, RcInductiveInvariant, RcOrderInvariant, PTL
=============================================================================

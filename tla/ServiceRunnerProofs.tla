------------------------ MODULE ServiceRunnerProofs ------------------------
(***************************************************************************)
(* Proofs about ServiceRunner for any finite set of services, any timeout  *)
(* and any number of failed calls, in three parts: type correctness, one   *)
(* outcome per service and no action on one that was not found enabled;    *)
(* the accounts, in which the outcomes are what the children did and the   *)
(* monitor knows of every child; and the two-stage promise, which each     *)
(* step keeps as long as no call fails (that services_selection_handle     *)
(* returns in the end, the fairness of the promise, is left to TLC).       *)
(***************************************************************************)
EXTENDS ServiceRunner, SequenceTheorems, FiniteSetTheorems, TLAPS

\* The pids are the two families Probe and Act, which are injective and
\* disjoint.
LEMMA PidShape ==
  /\ \A s \in Services : Probe(s) \in Pids /\ Act(s) \in Pids
  /\ \A s \in Services : Probe(s)[2] = s /\ Act(s)[2] = s
  /\ \A s, t \in Services : Probe(s) # Act(t)
  /\ \A c \in Pids : c[2] \in Services /\ (c = Probe(c[2]) \/ c = Act(c[2]))
BY ServicePidsAssumption DEF Probe, Act

\* services_result_add touches one service and appends at most one status.
LEMMA AddEffect ==
  ASSUME results \in [Services -> Seq(Statuses)],
         NEW s \in Services, NEW status \in Statuses, Add(s, status)
  PROVE  /\ results' \in [Services -> Seq(Statuses)]
         /\ \A t \in Services : t # s => results'[t] = results[t]
         /\ results[s] = <<>> => Len(results'[s]) <= 1
<1>1. Append(results[s], status) \in Seq(Statuses)
  OBVIOUS
<1>2. results[s] = <<>> => Len(Append(results[s], status)) = 1
  OBVIOUS
<1> QED
  BY <1>1, <1>2 DEF Add

\* A failed call counts as one more fault; the handler goes on or crashes.
LEMMA FaultEffect ==
  ASSUME faults \in 0 .. MaxFaults, NEW next \in Places, Fault(next)
  PROVE  /\ faults' \in 0 .. MaxFaults
         /\ error' \in BOOLEAN
         /\ pc' \in {next, "crashed"}
         /\ pc' \in Places
BY MaxFaultsAssumption DEF Fault, Places

\* Whatever process_monitor_exec manages to do once fork has succeeded, the
\* child runs, and at most it joins the table.
LEMMA ExecEffect ==
  ASSUME MonitorTypeOK, NEW c \in Pids,
         Exec(c) \/ ExecUnregistered(c) \/ ExecUncounted(c)
  PROVE  /\ MonitorTypeOK'
         /\ os[c] = "none"
         /\ os' = [os EXCEPT ![c] = "running"]
         /\ children' \in {children, children \cup {c}}
BY DEF MonitorTypeOK, Exec, ExecUnregistered, ExecUncounted, Fork, OsStates,
       kernelVars, tableVars, awaitVars

THEOREM InitIInv == Init => IInv
<1> SUFFICES ASSUME Init PROVE IInv
  OBVIOUS
<1> USE PidShape, TimeoutAssumption, MaxFaultsAssumption
        DEF Init, MonitorInit, SelectionInit, HandlerInit
<1>1. TypeOK
  <2>1. MonitorTypeOK
    BY DEF MonitorTypeOK, OsStates, Endings, Steps
  <2>2. results \in [Services -> Seq(Statuses)]
    BY EmptySeq
  <2>3. blocked \subseteq Services
    OBVIOUS
  <2>4. faults \in 0 .. MaxFaults
    OBVIOUS
  <2>5. /\ pc \in Places /\ todo \subseteq Services /\ enabled \subseteq Services
        /\ error \in BOOLEAN /\ action \in [Services -> Actions]
    BY DEF Places
  <2> QED
    BY <2>1, <2>2, <2>3, <2>4, <2>5 DEF TypeOK
<1>2. TableInv
  BY DEF TableInv
<1>3. StageInv
  BY DEF StageInv
<1>4. SelectionInv
  BY DEF SelectionInv
<1>5. EnabledInv /\ OpenInv
  BY DEF EnabledInv, OpenInv, Waiting, Live
<1>6. OneOutcome /\ ActsOnlyOnEnabled
  BY DEF OneOutcome, ActsOnlyOnEnabled
<1> QED
  BY <1>1, <1>2, <1>3, <1>4, <1>5, <1>6 DEF IInv

\* Every step preserves the inductive invariant.
THEOREM StepIInv == IInv /\ [Next]_vars => IInv'
<1> SUFFICES ASSUME IInv, [Next]_vars PROVE IInv'
  OBVIOUS
<1> USE PidShape, TimeoutAssumption, MaxFaultsAssumption
        DEF IInv, monitorVars, kernelVars, tableVars, awaitVars,
            selectionVars, handlerVars, faultVars, NoFault
<1>1. CASE Create
  <2>1. TypeOK'
    BY <1>1 DEF Create, TypeOK, MonitorTypeOK, OsStates, Endings, Steps, Places, Actions, Statuses, Selected
  <2>2. TableInv'
    BY <1>1 DEF Create, TypeOK, MonitorTypeOK, TableInv
  <2>3. StageInv'
    BY <1>1 DEF Create, TypeOK, MonitorTypeOK, StageInv, TableInv, Selected
  <2>4. SelectionInv'
    BY <1>1 DEF Create, TypeOK, MonitorTypeOK, SelectionInv, Selected
  <2>5. EnabledInv'
    BY <1>1 DEF Create, TypeOK, MonitorTypeOK, EnabledInv, Waiting, TableInv, StageInv
  <2>6. OpenInv'
    BY <1>1 DEF Create, TypeOK, MonitorTypeOK, OpenInv, Waiting, Live, TableInv, StageInv, EnabledInv, Selected
  <2>7. OneOutcome'
    BY <1>1 DEF Create, TypeOK, MonitorTypeOK, OneOutcome, OpenInv, Live, TableInv
  <2>8. ActsOnlyOnEnabled'
    BY <1>1 DEF Create, TypeOK, MonitorTypeOK, ActsOnlyOnEnabled, SelectionInv, Selected, Actions, EnabledInv, Waiting, StageInv
  <2> QED
    BY <2>1, <2>2, <2>3, <2>4, <2>5, <2>6, <2>7, <2>8
<1>2. CASE CreateFails
  <2>1. TypeOK'
    BY <1>2 DEF CreateFails, Fault, TypeOK, MonitorTypeOK, OsStates, Endings, Steps, Places, Actions, Statuses
  <2>2. TableInv'
    BY <1>2 DEF CreateFails, Fault, TypeOK, MonitorTypeOK, TableInv
  <2>3. StageInv'
    BY <1>2 DEF CreateFails, Fault, TypeOK, MonitorTypeOK, StageInv, TableInv
  <2>4. SelectionInv'
    BY <1>2 DEF CreateFails, Fault, TypeOK, MonitorTypeOK, SelectionInv, Selected
  <2>5. EnabledInv'
    BY <1>2 DEF CreateFails, Fault, TypeOK, MonitorTypeOK, EnabledInv, Waiting, TableInv, StageInv
  <2>6. OpenInv'
    BY <1>2 DEF CreateFails, Fault, TypeOK, MonitorTypeOK, OpenInv, Waiting, Live, TableInv, StageInv, EnabledInv
  <2>7. OneOutcome'
    BY <1>2 DEF CreateFails, Fault, TypeOK, MonitorTypeOK, OneOutcome, OpenInv, Live, TableInv
  <2>8. ActsOnlyOnEnabled'
    BY <1>2 DEF CreateFails, Fault, TypeOK, MonitorTypeOK, ActsOnlyOnEnabled, SelectionInv, Selected, Actions, EnabledInv, Waiting, StageInv
  <2> QED
    BY <2>1, <2>2, <2>3, <2>4, <2>5, <2>6, <2>7, <2>8
<1>3. ASSUME NEW s \in Services, SkipBlocked(s) PROVE IInv'
  <2>1. TypeOK'
    BY <1>3 DEF SkipBlocked, Add, TypeOK, MonitorTypeOK, OsStates, Endings, Steps, Places, Actions, Statuses
  <2>2. TableInv'
    BY <1>3 DEF SkipBlocked, Add, TypeOK, MonitorTypeOK, TableInv
  <2>3. StageInv'
    BY <1>3 DEF SkipBlocked, Add, TypeOK, MonitorTypeOK, StageInv, TableInv
  <2>4. SelectionInv'
    BY <1>3 DEF SkipBlocked, Add, TypeOK, MonitorTypeOK, SelectionInv, Selected
  <2>5. EnabledInv'
    BY <1>3 DEF SkipBlocked, Add, TypeOK, MonitorTypeOK, EnabledInv, Waiting, TableInv, StageInv
  <2>6. OpenInv'
    <3>1. \A c \in children : c[2] # s
      BY <1>3 DEF SkipBlocked, StageInv, TableInv, TypeOK, MonitorTypeOK
    <3>2. s \notin Waiting
      BY <1>3 DEF SkipBlocked, StageInv, EnabledInv, Waiting
    <3>3. \A t \in Services : t # s => results'[t] = results[t]
      BY <1>3, AddEffect DEF SkipBlocked, TypeOK, Statuses
    <3> QED
      BY <1>3, <3>1, <3>2, <3>3
      DEF SkipBlocked, TypeOK, MonitorTypeOK, OpenInv, Waiting, Live
  <2>7. OneOutcome'
    BY <1>3 DEF SkipBlocked, Add, TypeOK, MonitorTypeOK, OneOutcome, OpenInv, Live, TableInv
  <2>8. ActsOnlyOnEnabled'
    BY <1>3 DEF SkipBlocked, Add, TypeOK, MonitorTypeOK, ActsOnlyOnEnabled, SelectionInv, Selected, Actions, EnabledInv, Waiting, StageInv
  <2> QED
    BY <2>1, <2>2, <2>3, <2>4, <2>5, <2>6, <2>7, <2>8
<1>4. ASSUME NEW s \in Services, StartProbe(s) PROVE IInv'
  <2>1. TypeOK'
    <3>1. MonitorTypeOK'
      BY <1>4, ExecEffect DEF StartProbe, TypeOK
    <3>2. pc' \in Places /\ error' \in BOOLEAN /\ faults' \in 0 .. MaxFaults
      BY <1>4, FaultEffect DEF StartProbe, TypeOK, Places
    <3> QED
      BY <1>4, <3>1, <3>2 DEF StartProbe, TypeOK
  <2>2. TableInv'
    BY <1>4 DEF StartProbe, Exec, ExecUnregistered, ExecUncounted, Fork, Fault, TypeOK, MonitorTypeOK, TableInv
  <2>3. StageInv'
    BY <1>4 DEF StartProbe, Exec, ExecUnregistered, ExecUncounted, Fork, Fault, TypeOK, MonitorTypeOK, StageInv, TableInv
  <2>4. SelectionInv'
    BY <1>4 DEF StartProbe, Exec, ExecUnregistered, ExecUncounted, Fork, Fault, TypeOK, MonitorTypeOK, SelectionInv, Selected
  <2>5. EnabledInv'
    BY <1>4 DEF StartProbe, Exec, ExecUnregistered, ExecUncounted, Fork, Fault, TypeOK, MonitorTypeOK, EnabledInv, Waiting, TableInv, StageInv
  <2>6. OpenInv'
    BY <1>4 DEF StartProbe, Exec, ExecUnregistered, ExecUncounted, Fork, Fault, TypeOK, MonitorTypeOK, OpenInv, Waiting, Live, TableInv, StageInv, EnabledInv
  <2>7. OneOutcome'
    BY <1>4 DEF StartProbe, Exec, ExecUnregistered, ExecUncounted, Fork, Fault, TypeOK, MonitorTypeOK, OneOutcome, OpenInv, Live, TableInv
  <2>8. ActsOnlyOnEnabled'
    BY <1>4 DEF StartProbe, Exec, ExecUnregistered, ExecUncounted, Fork, Fault, TypeOK, MonitorTypeOK, ActsOnlyOnEnabled, SelectionInv, Selected, Actions, EnabledInv, Waiting, StageInv
  <2> QED
    BY <2>1, <2>2, <2>3, <2>4, <2>5, <2>6, <2>7, <2>8
<1>5. ASSUME NEW s \in Services, StartProbeFails(s) PROVE IInv'
  <2>1. TypeOK'
    BY <1>5 DEF StartProbeFails, Fault, TypeOK, MonitorTypeOK, OsStates, Endings, Steps, Places, Actions, Statuses
  <2>2. TableInv'
    BY <1>5 DEF StartProbeFails, Fault, TypeOK, MonitorTypeOK, TableInv
  <2>3. StageInv'
    BY <1>5 DEF StartProbeFails, Fault, TypeOK, MonitorTypeOK, StageInv, TableInv
  <2>4. SelectionInv'
    BY <1>5 DEF StartProbeFails, Fault, TypeOK, MonitorTypeOK, SelectionInv, Selected
  <2>5. EnabledInv'
    BY <1>5 DEF StartProbeFails, Fault, TypeOK, MonitorTypeOK, EnabledInv, Waiting, TableInv, StageInv
  <2>6. OpenInv'
    BY <1>5 DEF StartProbeFails, Fault, TypeOK, MonitorTypeOK, OpenInv, Waiting, Live, TableInv, StageInv, EnabledInv
  <2>7. OneOutcome'
    BY <1>5 DEF StartProbeFails, Fault, TypeOK, MonitorTypeOK, OneOutcome, OpenInv, Live, TableInv
  <2>8. ActsOnlyOnEnabled'
    BY <1>5 DEF StartProbeFails, Fault, TypeOK, MonitorTypeOK, ActsOnlyOnEnabled, SelectionInv, Selected, Actions, EnabledInv, Waiting, StageInv
  <2> QED
    BY <2>1, <2>2, <2>3, <2>4, <2>5, <2>6, <2>7, <2>8
<1>6. ASSUME NEW s \in Services, StartAct(s) PROVE IInv'
  <2>1. TypeOK'
    <3>1. MonitorTypeOK'
      BY <1>6, ExecEffect DEF StartAct, TypeOK
    <3>2. pc' \in Places /\ error' \in BOOLEAN /\ faults' \in 0 .. MaxFaults
      BY <1>6, FaultEffect DEF StartAct, TypeOK, Places
    <3> QED
      BY <1>6, <3>1, <3>2 DEF StartAct, TypeOK
  <2>2. TableInv'
    BY <1>6 DEF StartAct, Exec, ExecUnregistered, ExecUncounted, Fork, Fault, TypeOK, MonitorTypeOK, TableInv
  <2>3. StageInv'
    <3>1. os' = [os EXCEPT ![Act(s)] = "running"]
      BY <1>6, ExecEffect DEF StartAct, TypeOK
    <3>2. children' \in {children, children \cup {Act(s)}}
      BY <1>6, ExecEffect DEF StartAct, TypeOK
    <3>3. /\ pc = "act" /\ pc' \in {"act", "crashed"}
          /\ todo' = todo \ {s} /\ enabled' = enabled
      BY <1>6 DEF StartAct, Fault
    <3>4. \A t \in Services : t # s => Act(t) # Act(s)
      BY PidShape
    <3> QED
      BY <3>1, <3>2, <3>3, <3>4 DEF StageInv, TypeOK, MonitorTypeOK
  <2>4. SelectionInv'
    BY <1>6 DEF StartAct, Exec, ExecUnregistered, ExecUncounted, Fork, Fault, TypeOK, MonitorTypeOK, SelectionInv, Selected
  <2>5. EnabledInv'
    BY <1>6 DEF StartAct, Exec, ExecUnregistered, ExecUncounted, Fork, Fault, TypeOK, MonitorTypeOK, EnabledInv, Waiting, TableInv, StageInv
  <2>6. OpenInv'
    BY <1>6 DEF StartAct, Exec, ExecUnregistered, ExecUncounted, Fork, Fault, TypeOK, MonitorTypeOK, OpenInv, Waiting, Live, TableInv, StageInv, EnabledInv
  <2>7. OneOutcome'
    BY <1>6 DEF StartAct, Exec, ExecUnregistered, ExecUncounted, Fork, Fault, TypeOK, MonitorTypeOK, OneOutcome, OpenInv, Live, TableInv
  <2>8. ActsOnlyOnEnabled'
    BY <1>6 DEF StartAct, Exec, ExecUnregistered, ExecUncounted, Fork, Fault, TypeOK, MonitorTypeOK, ActsOnlyOnEnabled, SelectionInv, Selected, Actions, EnabledInv, Waiting, StageInv
  <2> QED
    BY <2>1, <2>2, <2>3, <2>4, <2>5, <2>6, <2>7, <2>8
<1>7. ASSUME NEW s \in Services, StartActFails(s) PROVE IInv'
  <2>1. TypeOK'
    BY <1>7 DEF StartActFails, Fault, TypeOK, MonitorTypeOK, OsStates, Endings, Steps, Places, Actions, Statuses
  <2>2. TableInv'
    BY <1>7 DEF StartActFails, Fault, TypeOK, MonitorTypeOK, TableInv
  <2>3. StageInv'
    BY <1>7 DEF StartActFails, Fault, TypeOK, MonitorTypeOK, StageInv, TableInv
  <2>4. SelectionInv'
    BY <1>7 DEF StartActFails, Fault, TypeOK, MonitorTypeOK, SelectionInv, Selected
  <2>5. EnabledInv'
    BY <1>7 DEF StartActFails, Fault, TypeOK, MonitorTypeOK, EnabledInv, Waiting, TableInv, StageInv
  <2>6. OpenInv'
    BY <1>7 DEF StartActFails, Fault, TypeOK, MonitorTypeOK, OpenInv, Waiting, Live, TableInv, StageInv, EnabledInv
  <2>7. OneOutcome'
    BY <1>7 DEF StartActFails, Fault, TypeOK, MonitorTypeOK, OneOutcome, OpenInv, Live, TableInv
  <2>8. ActsOnlyOnEnabled'
    BY <1>7 DEF StartActFails, Fault, TypeOK, MonitorTypeOK, ActsOnlyOnEnabled, SelectionInv, Selected, Actions, EnabledInv, Waiting, StageInv
  <2> QED
    BY <2>1, <2>2, <2>3, <2>4, <2>5, <2>6, <2>7, <2>8
<1>8. CASE AwaitProbes
  <2>1. TypeOK'
    BY <1>8 DEF AwaitProbes, Await, TypeOK, MonitorTypeOK, OsStates, Endings, Steps, Places, Actions, Statuses
  <2>2. TableInv'
    BY <1>8 DEF AwaitProbes, Await, TypeOK, MonitorTypeOK, TableInv
  <2>3. StageInv'
    BY <1>8 DEF AwaitProbes, Await, TypeOK, MonitorTypeOK, StageInv, TableInv
  <2>4. SelectionInv'
    BY <1>8 DEF AwaitProbes, Await, TypeOK, MonitorTypeOK, SelectionInv, Selected
  <2>5. EnabledInv'
    BY <1>8 DEF AwaitProbes, Await, TypeOK, MonitorTypeOK, EnabledInv, Waiting, TableInv, StageInv
  <2>6. OpenInv'
    BY <1>8 DEF AwaitProbes, Await, TypeOK, MonitorTypeOK, OpenInv, Waiting, Live, TableInv, StageInv, EnabledInv
  <2>7. OneOutcome'
    BY <1>8 DEF AwaitProbes, Await, TypeOK, MonitorTypeOK, OneOutcome, OpenInv, Live, TableInv
  <2>8. ActsOnlyOnEnabled'
    BY <1>8 DEF AwaitProbes, Await, TypeOK, MonitorTypeOK, ActsOnlyOnEnabled, SelectionInv, Selected, Actions, EnabledInv, Waiting, StageInv
  <2> QED
    BY <2>1, <2>2, <2>3, <2>4, <2>5, <2>6, <2>7, <2>8
<1>9. CASE Proceed
  <2>1. TypeOK'
    BY <1>9 DEF Proceed, Clear, TypeOK, MonitorTypeOK, OsStates, Endings, Steps, Places, Actions, Statuses
  <2>2. TableInv'
    BY <1>9 DEF Proceed, Clear, TypeOK, MonitorTypeOK, TableInv
  <2>3. StageInv'
    BY <1>9 DEF Proceed, Clear, TypeOK, MonitorTypeOK, StageInv, TableInv
  <2>4. SelectionInv'
    BY <1>9 DEF Proceed, Clear, TypeOK, MonitorTypeOK, SelectionInv, Selected
  <2>5. EnabledInv'
    BY <1>9 DEF Proceed, Clear, TypeOK, MonitorTypeOK, EnabledInv, Waiting, TableInv, StageInv
  <2>6. OpenInv'
    BY <1>9 DEF Proceed, Clear, TypeOK, MonitorTypeOK, OpenInv, Waiting, Live, TableInv, StageInv, EnabledInv
  <2>7. OneOutcome'
    BY <1>9 DEF Proceed, Clear, TypeOK, MonitorTypeOK, OneOutcome, OpenInv, Live, TableInv
  <2>8. ActsOnlyOnEnabled'
    BY <1>9 DEF Proceed, Clear, TypeOK, MonitorTypeOK, ActsOnlyOnEnabled, SelectionInv, Selected, Actions, EnabledInv, Waiting, StageInv
  <2> QED
    BY <2>1, <2>2, <2>3, <2>4, <2>5, <2>6, <2>7, <2>8
<1>10. CASE AwaitActs
  <2>1. TypeOK'
    BY <1>10 DEF AwaitActs, Await, TypeOK, MonitorTypeOK, OsStates, Endings, Steps, Places, Actions, Statuses
  <2>2. TableInv'
    BY <1>10 DEF AwaitActs, Await, TypeOK, MonitorTypeOK, TableInv
  <2>3. StageInv'
    BY <1>10 DEF AwaitActs, Await, TypeOK, MonitorTypeOK, StageInv, TableInv
  <2>4. SelectionInv'
    BY <1>10 DEF AwaitActs, Await, TypeOK, MonitorTypeOK, SelectionInv, Selected
  <2>5. EnabledInv'
    BY <1>10 DEF AwaitActs, Await, TypeOK, MonitorTypeOK, EnabledInv, Waiting, TableInv, StageInv
  <2>6. OpenInv'
    BY <1>10 DEF AwaitActs, Await, TypeOK, MonitorTypeOK, OpenInv, Waiting, Live, TableInv, StageInv, EnabledInv
  <2>7. OneOutcome'
    BY <1>10 DEF AwaitActs, Await, TypeOK, MonitorTypeOK, OneOutcome, OpenInv, Live, TableInv
  <2>8. ActsOnlyOnEnabled'
    BY <1>10 DEF AwaitActs, Await, TypeOK, MonitorTypeOK, ActsOnlyOnEnabled, SelectionInv, Selected, Actions, EnabledInv, Waiting, StageInv
  <2> QED
    BY <2>1, <2>2, <2>3, <2>4, <2>5, <2>6, <2>7, <2>8
<1>11. CASE Return
  <2>1. TypeOK'
    BY <1>11 DEF Return, Clear, TypeOK, MonitorTypeOK, OsStates, Endings, Steps, Places, Actions, Statuses
  <2>2. TableInv'
    BY <1>11 DEF Return, Clear, TypeOK, MonitorTypeOK, TableInv
  <2>3. StageInv'
    BY <1>11 DEF Return, Clear, TypeOK, MonitorTypeOK, StageInv, TableInv
  <2>4. SelectionInv'
    BY <1>11 DEF Return, Clear, TypeOK, MonitorTypeOK, SelectionInv, Selected
  <2>5. EnabledInv'
    BY <1>11 DEF Return, Clear, TypeOK, MonitorTypeOK, EnabledInv, Waiting, TableInv, StageInv
  <2>6. OpenInv'
    BY <1>11 DEF Return, Clear, TypeOK, MonitorTypeOK, OpenInv, Waiting, Live, TableInv, StageInv, EnabledInv
  <2>7. OneOutcome'
    BY <1>11 DEF Return, Clear, TypeOK, MonitorTypeOK, OneOutcome, OpenInv, Live, TableInv
  <2>8. ActsOnlyOnEnabled'
    BY <1>11 DEF Return, Clear, TypeOK, MonitorTypeOK, ActsOnlyOnEnabled, SelectionInv, Selected, Actions, EnabledInv, Waiting, StageInv
  <2> QED
    BY <2>1, <2>2, <2>3, <2>4, <2>5, <2>6, <2>7, <2>8
<1>12. CASE AwaitLoop
  <2>1. TypeOK'
    BY <1>12 DEF AwaitLoop, Check, Awaiting, TypeOK, MonitorTypeOK, OsStates, Endings, Steps, Places, Actions, Statuses
  <2>2. TableInv'
    BY <1>12 DEF AwaitLoop, Check, Awaiting, TypeOK, MonitorTypeOK, TableInv
  <2>3. StageInv'
    BY <1>12 DEF AwaitLoop, Check, Awaiting, TypeOK, MonitorTypeOK, StageInv, TableInv
  <2>4. SelectionInv'
    BY <1>12 DEF AwaitLoop, Check, Awaiting, TypeOK, MonitorTypeOK, SelectionInv, Selected
  <2>5. EnabledInv'
    BY <1>12 DEF AwaitLoop, Check, Awaiting, TypeOK, MonitorTypeOK, EnabledInv, Waiting, TableInv, StageInv
  <2>6. OpenInv'
    BY <1>12 DEF AwaitLoop, Check, Awaiting, TypeOK, MonitorTypeOK, OpenInv, Waiting, Live, TableInv, StageInv, EnabledInv
  <2>7. OneOutcome'
    BY <1>12 DEF AwaitLoop, Check, Awaiting, TypeOK, MonitorTypeOK, OneOutcome, OpenInv, Live, TableInv
  <2>8. ActsOnlyOnEnabled'
    BY <1>12 DEF AwaitLoop, Check, Awaiting, TypeOK, MonitorTypeOK, ActsOnlyOnEnabled, SelectionInv, Selected, Actions, EnabledInv, Waiting, StageInv
  <2> QED
    BY <2>1, <2>2, <2>3, <2>4, <2>5, <2>6, <2>7, <2>8
<1>13. CASE AwaitEnds
  <2>1. TypeOK'
    <3>1. MonitorTypeOK'
      BY <1>13 DEF AwaitEnds, WaitTimesOut, WaitFails, TypeOK, MonitorTypeOK, Steps
    <3>2. pc' \in Places /\ error' \in BOOLEAN /\ faults' \in 0 .. MaxFaults
      BY <1>13, FaultEffect DEF AwaitEnds, TypeOK
    <3> QED
      BY <1>13, <3>1, <3>2 DEF AwaitEnds, TypeOK
  <2>2. TableInv'
    BY <1>13 DEF AwaitEnds, WaitTimesOut, WaitFails, Fault, Awaiting, TypeOK, MonitorTypeOK, TableInv
  <2>3. StageInv'
    BY <1>13 DEF AwaitEnds, WaitTimesOut, WaitFails, Fault, Awaiting, TypeOK, MonitorTypeOK, StageInv, TableInv
  <2>4. SelectionInv'
    BY <1>13 DEF AwaitEnds, WaitTimesOut, WaitFails, Fault, Awaiting, TypeOK, MonitorTypeOK, SelectionInv, Selected
  <2>5. EnabledInv'
    BY <1>13 DEF AwaitEnds, WaitTimesOut, WaitFails, Fault, Awaiting, TypeOK, MonitorTypeOK, EnabledInv, Waiting, TableInv, StageInv
  <2>6. OpenInv'
    BY <1>13 DEF AwaitEnds, WaitTimesOut, WaitFails, Fault, Awaiting, TypeOK, MonitorTypeOK, OpenInv, Waiting, Live, TableInv, StageInv, EnabledInv
  <2>7. OneOutcome'
    BY <1>13 DEF AwaitEnds, WaitTimesOut, WaitFails, Fault, Awaiting, TypeOK, MonitorTypeOK, OneOutcome, OpenInv, Live, TableInv
  <2>8. ActsOnlyOnEnabled'
    BY <1>13 DEF AwaitEnds, WaitTimesOut, WaitFails, Fault, Awaiting, TypeOK, MonitorTypeOK, ActsOnlyOnEnabled, SelectionInv, Selected, Actions, EnabledInv, Waiting, StageInv
  <2> QED
    BY <2>1, <2>2, <2>3, <2>4, <2>5, <2>6, <2>7, <2>8
<1>14. CASE AwaitReturns
  <2>1. TypeOK'
    BY <1>14 DEF AwaitReturns, SweepEnds, Awaiting, TypeOK, MonitorTypeOK, OsStates, Endings, Steps, Places, Actions, Statuses
  <2>2. TableInv'
    BY <1>14 DEF AwaitReturns, SweepEnds, Awaiting, TypeOK, MonitorTypeOK, TableInv
  <2>3. StageInv'
    BY <1>14 DEF AwaitReturns, SweepEnds, Awaiting, TypeOK, MonitorTypeOK, StageInv, TableInv
  <2>4. SelectionInv'
    BY <1>14 DEF AwaitReturns, SweepEnds, Awaiting, TypeOK, MonitorTypeOK, SelectionInv, Selected
  <2>5. EnabledInv'
    BY <1>14 DEF AwaitReturns, SweepEnds, Awaiting, TypeOK, MonitorTypeOK, EnabledInv, Waiting, TableInv, StageInv
  <2>6. OpenInv'
    BY <1>14 DEF AwaitReturns, SweepEnds, Awaiting, TypeOK, MonitorTypeOK, OpenInv, Waiting, Live, TableInv, StageInv, EnabledInv
  <2>7. OneOutcome'
    BY <1>14 DEF AwaitReturns, SweepEnds, Awaiting, TypeOK, MonitorTypeOK, OneOutcome, OpenInv, Live, TableInv
  <2>8. ActsOnlyOnEnabled'
    BY <1>14 DEF AwaitReturns, SweepEnds, Awaiting, TypeOK, MonitorTypeOK, ActsOnlyOnEnabled, SelectionInv, Selected, Actions, EnabledInv, Waiting, StageInv
  <2> QED
    BY <2>1, <2>2, <2>3, <2>4, <2>5, <2>6, <2>7, <2>8
<1>15. ASSUME NEW c \in Pids, ChildExited(c) PROVE IInv'
  <2>a. c \in children => c \in Live /\ results[c[2]] = <<>>
    BY <1>15 DEF ChildExited, Unregister, Events, Live, TypeOK, MonitorTypeOK,
                 TableInv, OpenInv
  <2>b. \/ UNCHANGED results
        \/ /\ c \in children
           /\ \E status \in Statuses : Add(c[2], status)
    BY <1>15 DEF ChildExited, Exited, Statuses
  <2>c. /\ results' \in [Services -> Seq(Statuses)]
        /\ \A t \in Services : t # c[2] => results'[t] = results[t]
        /\ \A t \in Services : Len(results'[t]) <= 1
    BY <2>a, <2>b, AddEffect DEF TypeOK, OneOutcome
  <2>1. TypeOK'
    <3>1. MonitorTypeOK'
      BY <1>15 DEF ChildExited, Unregister, TypeOK, MonitorTypeOK, TableInv,
                   OsStates, Steps
    <3>2. enabled' \subseteq Services
      BY <1>15 DEF ChildExited, Exited, TypeOK
    <3> QED
      BY <1>15, <2>c, <3>1, <3>2 DEF ChildExited, TypeOK
  <2>2. TableInv'
    BY <1>15 DEF ChildExited, Unregister, Exited, Add, ExitStatusIsZero, Events, Awaiting, TypeOK, MonitorTypeOK, TableInv
  <2>3. StageInv'
    BY <1>15 DEF ChildExited, Unregister, Exited, Add, ExitStatusIsZero, Events, Awaiting, TypeOK, MonitorTypeOK, StageInv, TableInv
  <2>4. SelectionInv'
    BY <1>15 DEF ChildExited, Unregister, Exited, Add, ExitStatusIsZero, Events, Awaiting, TypeOK, MonitorTypeOK, SelectionInv, Selected
  <2>5. EnabledInv'
    BY <1>15 DEF ChildExited, Unregister, Exited, Add, ExitStatusIsZero, Events, Awaiting, TypeOK, MonitorTypeOK, EnabledInv, Waiting, TableInv, StageInv
  <2>6. OpenInv'
    <3>1. \A d \in children : d # c /\ c \in children => d[2] # c[2]
      BY <1>15 DEF ChildExited, Awaiting, StageInv, TypeOK, MonitorTypeOK
    <3>2. \A d \in (Live \ sigterm)' : d \in Live \ sigterm /\ d # c
      BY <1>15 DEF ChildExited, Unregister, Live, TypeOK, MonitorTypeOK
    <3>3. \A d \in (Live \ sigterm)' : results'[d[2]] = <<>>
      BY <1>15, <2>b, <2>c, <3>1, <3>2
      DEF ChildExited, Unregister, OpenInv, Live, TypeOK, MonitorTypeOK
    <3>4. \A s \in Waiting' : results'[s] = <<>>
      <4>1. CASE pc = "awaitProbe"
        BY <1>15, <2>a, <4>1 DEF ChildExited, Exited, OpenInv, Waiting
      <4>2. CASE pc = "awaitAct"
        BY <1>15, <4>2 DEF ChildExited, Exited, StageInv, Waiting
      <4> QED
        BY <1>15, <4>1, <4>2 DEF ChildExited, Awaiting
    <3> QED
      BY <1>15, <3>3, <3>4 DEF ChildExited, Awaiting, OpenInv
  <2>7. OneOutcome'
    BY <2>c DEF OneOutcome
  <2>8. ActsOnlyOnEnabled'
    BY <1>15 DEF ChildExited, Unregister, Exited, Add, ExitStatusIsZero, Events, Awaiting, TypeOK, MonitorTypeOK, ActsOnlyOnEnabled, SelectionInv, Selected, Actions, EnabledInv, Waiting, StageInv
  <2> QED
    BY <2>1, <2>2, <2>3, <2>4, <2>5, <2>6, <2>7, <2>8
<1>16. ASSUME NEW c \in Pids, ChildHangs(c) PROVE IInv'
  <2>a. /\ step = "sweep" /\ c \in Live \ sigterm
        /\ results[c[2]] = <<>>
        /\ UNCHANGED <<os, ending, kq, children, exited, todo, enabled>>
    BY <1>16 DEF ChildHangs, Kill, KillFails, OpenInv
  <2>b. \E status \in Statuses : Add(c[2], status)
    BY <1>16 DEF ChildHangs, Hanging, Statuses
  <2>c. /\ results' \in [Services -> Seq(Statuses)]
        /\ \A t \in Services : t # c[2] => results'[t] = results[t]
        /\ \A t \in Services : Len(results'[t]) <= 1
    <3>1. c[2] \in Services /\ results \in [Services -> Seq(Statuses)]
      BY PidShape DEF TypeOK
    <3>2. PICK status \in Statuses : Add(c[2], status)
      BY <2>b
    <3>3. /\ results' \in [Services -> Seq(Statuses)]
          /\ \A t \in Services : t # c[2] => results'[t] = results[t]
          /\ Len(results'[c[2]]) <= 1
      BY <2>a, <3>1, <3>2, AddEffect
    <3> QED
      BY <3>3 DEF OneOutcome
  <2>d. /\ pc' \in {pc, "crashed"} /\ pc' \in Places
        /\ error' \in BOOLEAN /\ faults' \in 0 .. MaxFaults
    BY <1>16, FaultEffect DEF ChildHangs, TypeOK
  <2>1. TypeOK'
    <3>1. MonitorTypeOK'
      <4>1. CASE Kill(c)
        BY <4>1 DEF Kill, TypeOK, MonitorTypeOK, Steps
      <4>2. CASE KillFails(c)
        BY <4>2 DEF KillFails, TypeOK, MonitorTypeOK, Steps
      <4> QED
        BY <1>16, <4>1, <4>2 DEF ChildHangs
    <3> QED
      BY <1>16, <2>a, <2>c, <2>d, <3>1 DEF ChildHangs, TypeOK
  <2>2. TableInv'
    <3>1. os[c] # "none"
      BY <2>a DEF TableInv, Live
    <3> QED
      BY <1>16, <3>1 DEF ChildHangs, Kill, KillFails, TypeOK, MonitorTypeOK, TableInv
  <2>3. StageInv'
    BY <1>16 DEF ChildHangs, Kill, KillFails, Hanging, Add, Fault, Awaiting, TypeOK, MonitorTypeOK, StageInv, TableInv
  <2>4. SelectionInv'
    BY <1>16 DEF ChildHangs, Kill, KillFails, Hanging, Add, Fault, Awaiting, TypeOK, MonitorTypeOK, SelectionInv, Selected
  <2>5. EnabledInv'
    BY <1>16 DEF ChildHangs, Kill, KillFails, Hanging, Add, Fault, Awaiting, TypeOK, MonitorTypeOK, EnabledInv, Waiting, TableInv, StageInv
  <2>6. OpenInv'
    <3>1. \A d \in children : d # c => d[2] # c[2]
      BY <1>16, <2>a DEF ChildHangs, Awaiting, StageInv, Live, TypeOK, MonitorTypeOK
    <3>2. step' # "returned" =>
            \A d \in (Live \ sigterm)' : d \in Live \ sigterm /\ d # c
      BY <1>16 DEF ChildHangs, Kill, KillFails, Live
    <3>3. step' # "returned" => \A d \in (Live \ sigterm)' : results'[d[2]] = <<>>
      BY <2>a, <2>c, <3>1, <3>2 DEF OpenInv, Live, TypeOK, MonitorTypeOK
    <3>4. \A s \in Waiting' : s \in Waiting /\ s # c[2]
      BY <1>16, <2>a, <2>d
      DEF ChildHangs, Awaiting, Waiting, Live, EnabledInv, StageInv, TableInv,
          TypeOK, MonitorTypeOK
    <3>5. \A s \in Waiting' : results'[s] = <<>>
      BY <2>a, <2>c, <3>4 DEF OpenInv, Waiting, TypeOK
    <3> QED
      BY <1>16, <2>d, <3>3, <3>5 DEF ChildHangs, Awaiting, OpenInv
  <2>7. OneOutcome'
    BY <2>c DEF OneOutcome
  <2>8. ActsOnlyOnEnabled'
    BY <1>16 DEF ChildHangs, Kill, KillFails, Hanging, Add, Fault, Awaiting, TypeOK, MonitorTypeOK, ActsOnlyOnEnabled, SelectionInv, Selected, Actions, EnabledInv, Waiting, StageInv
  <2> QED
    BY <2>1, <2>2, <2>3, <2>4, <2>5, <2>6, <2>7, <2>8
<1>17. CASE KernelChild
  <2>1. TypeOK'
    BY <1>17 DEF KernelChild, ChildEnds, TypeOK, MonitorTypeOK, OsStates, Endings, Steps, Places, Actions, Statuses
  <2>2. TableInv'
    BY <1>17 DEF KernelChild, ChildEnds, TypeOK, MonitorTypeOK, TableInv
  <2>3. StageInv'
    BY <1>17 DEF KernelChild, ChildEnds, TypeOK, MonitorTypeOK, StageInv, TableInv
  <2>4. SelectionInv'
    BY <1>17 DEF KernelChild, ChildEnds, TypeOK, MonitorTypeOK, SelectionInv, Selected
  <2>5. EnabledInv'
    BY <1>17 DEF KernelChild, ChildEnds, TypeOK, MonitorTypeOK, EnabledInv, Waiting, TableInv, StageInv
  <2>6. OpenInv'
    BY <1>17 DEF KernelChild, ChildEnds, TypeOK, MonitorTypeOK, OpenInv, Waiting, Live, TableInv, StageInv, EnabledInv
  <2>7. OneOutcome'
    BY <1>17 DEF KernelChild, ChildEnds, TypeOK, MonitorTypeOK, OneOutcome, OpenInv, Live, TableInv
  <2>8. ActsOnlyOnEnabled'
    BY <1>17 DEF KernelChild, ChildEnds, TypeOK, MonitorTypeOK, ActsOnlyOnEnabled, SelectionInv, Selected, Actions, EnabledInv, Waiting, StageInv
  <2> QED
    BY <2>1, <2>2, <2>3, <2>4, <2>5, <2>6, <2>7, <2>8
<1>18. CASE Clock
  <2>1. TypeOK'
    BY <1>18 DEF Clock, Tick, Awaiting, TypeOK, MonitorTypeOK, OsStates, Endings, Steps, Places, Actions, Statuses
  <2>2. TableInv'
    BY <1>18 DEF Clock, Tick, Awaiting, TypeOK, MonitorTypeOK, TableInv
  <2>3. StageInv'
    BY <1>18 DEF Clock, Tick, Awaiting, TypeOK, MonitorTypeOK, StageInv, TableInv
  <2>4. SelectionInv'
    BY <1>18 DEF Clock, Tick, Awaiting, TypeOK, MonitorTypeOK, SelectionInv, Selected
  <2>5. EnabledInv'
    BY <1>18 DEF Clock, Tick, Awaiting, TypeOK, MonitorTypeOK, EnabledInv, Waiting, TableInv, StageInv
  <2>6. OpenInv'
    BY <1>18 DEF Clock, Tick, Awaiting, TypeOK, MonitorTypeOK, OpenInv, Waiting, Live, TableInv, StageInv, EnabledInv
  <2>7. OneOutcome'
    BY <1>18 DEF Clock, Tick, Awaiting, TypeOK, MonitorTypeOK, OneOutcome, OpenInv, Live, TableInv
  <2>8. ActsOnlyOnEnabled'
    BY <1>18 DEF Clock, Tick, Awaiting, TypeOK, MonitorTypeOK, ActsOnlyOnEnabled, SelectionInv, Selected, Actions, EnabledInv, Waiting, StageInv
  <2> QED
    BY <2>1, <2>2, <2>3, <2>4, <2>5, <2>6, <2>7, <2>8
<1>19. CASE UNCHANGED vars
  <2>1. TypeOK'
    BY <1>19 DEF vars, TypeOK, MonitorTypeOK, OsStates, Endings, Steps, Places, Actions, Statuses
  <2>2. TableInv'
    BY <1>19 DEF vars, TypeOK, MonitorTypeOK, TableInv
  <2>3. StageInv'
    BY <1>19 DEF vars, TypeOK, MonitorTypeOK, StageInv, TableInv
  <2>4. SelectionInv'
    BY <1>19 DEF vars, TypeOK, MonitorTypeOK, SelectionInv, Selected
  <2>5. EnabledInv'
    BY <1>19 DEF vars, TypeOK, MonitorTypeOK, EnabledInv, Waiting, TableInv, StageInv
  <2>6. OpenInv'
    BY <1>19 DEF vars, TypeOK, MonitorTypeOK, OpenInv, Waiting, Live, TableInv, StageInv, EnabledInv
  <2>7. OneOutcome'
    BY <1>19 DEF vars, TypeOK, MonitorTypeOK, OneOutcome, OpenInv, Live, TableInv
  <2>8. ActsOnlyOnEnabled'
    BY <1>19 DEF vars, TypeOK, MonitorTypeOK, ActsOnlyOnEnabled, SelectionInv, Selected, Actions, EnabledInv, Waiting, StageInv
  <2> QED
    BY <2>1, <2>2, <2>3, <2>4, <2>5, <2>6, <2>7, <2>8
<1> QED
  BY <1>1, <1>2, <1>3, <1>4, <1>5, <1>6, <1>7, <1>8, <1>9, <1>10, <1>11, <1>12, <1>13, <1>14, <1>15, <1>16, <1>17, <1>18, <1>19
     DEF Next, Handler

-----------------------------------------------------------------------------
\* The inductive invariant holds in every state of the handler.
THEOREM InductiveInvariant == Spec => []IInv
<1> QED
  BY InitIInv, StepIInv, PTL DEF Spec

\* The handler's state, the process table and the results are well typed at
\* any time; in particular the child counter never becomes negative, which
\* would make "while (0 != active_children_count)" run until the deadline.
THEOREM TypeCorrect == Spec => []TypeOK
<1>1. IInv => TypeOK
  BY DEF IInv
<1> QED
  BY InductiveInvariant, <1>1, PTL

\* No service is ever given two outcomes, whatever fails and in whatever
\* order children end, events are delivered and the deadline passes.
THEOREM AtMostOneOutcome == Spec => []OneOutcome
<1>1. IInv => OneOutcome
  BY DEF IInv
<1> QED
  BY InductiveInvariant, <1>1, PTL

\* A stop or a restart is only ever run for a service that is not blocked
\* and whose probe was reaped without a failure.
THEOREM NoActionWithoutProbe == Spec => []ActsOnlyOnEnabled
<1>1. IInv => ActsOnlyOnEnabled
  BY DEF IInv
<1> QED
  BY InductiveInvariant, <1>1, PTL

-----------------------------------------------------------------------------
(* The accounts: outcomes are what the children did, and the counter, the *)
(* table and the kqueue of the monitor account for every child            *)

(***************************************************************************)
(* What was done to a child is not undone                                  *)
(***************************************************************************)

\* A child that was started stays so, one that was reaped stays as it ended, a
\* signal stays sent, a call that failed has failed.
HistoryGrows ==
  /\ blocked' = blocked
  /\ sigterm \subseteq sigterm'
  /\ faults' \in Nat /\ faults' >= faults
  /\ \A c \in Pids : os[c] # "none" => os'[c] # "none"
  /\ \A c \in Pids : os[c] = "reaped" => os'[c] = "reaped" /\ ending'[c] = ending[c]

\* What a status of services_result_add says of the children of its service.
Justified(s, status) ==
  CASE status = "success" -> os[Act(s)] = "reaped" /\ ending[Act(s)] # "failure"
    [] status = "failed" ->
         \/ os[Act(s)] = "reaped" /\ ending[Act(s)] = "failure"
         \/ Act(s) \in sigterm
         \/ faults > 0 /\ os[Act(s)] # "none"
    [] status = "probing_failed" -> Probe(s) \in sigterm \/ faults > 0
    [] OTHER -> s \in blocked

\* Steps of the handler, of a child or of the clock only add to the history.
LEMMA StepGrows == IInv /\ [Next]_vars => HistoryGrows
<1> SUFFICES ASSUME IInv, [Next]_vars PROVE HistoryGrows
  OBVIOUS
<1>0. /\ faults \in Nat /\ os \in [Pids -> OsStates] /\ ending \in [Pids -> Endings \cup {"none"}]
  BY MaxFaultsAssumption DEF IInv, TypeOK, MonitorTypeOK
<1> USE DEF HistoryGrows, monitorVars, kernelVars, tableVars, awaitVars,
            selectionVars, handlerVars, faultVars, NoFault
<1>1. CASE Create
  BY <1>0, <1>1 DEF Create
<1>2. CASE CreateFails
  BY <1>0, <1>2 DEF CreateFails, Fault
<1>3. ASSUME NEW s \in Services, SkipBlocked(s) PROVE HistoryGrows
  BY <1>0, <1>3 DEF SkipBlocked
<1>4. ASSUME NEW s \in Services, StartProbe(s) PROVE HistoryGrows
  BY <1>0, <1>4, PidShape
  DEF StartProbe, Exec, ExecUnregistered, ExecUncounted, Fork, Fault
<1>5. ASSUME NEW s \in Services, StartProbeFails(s) PROVE HistoryGrows
  BY <1>0, <1>5 DEF StartProbeFails, Fault
<1>6. ASSUME NEW s \in Services, StartAct(s) PROVE HistoryGrows
  BY <1>0, <1>6, PidShape
  DEF StartAct, Exec, ExecUnregistered, ExecUncounted, Fork, Fault
<1>7. ASSUME NEW s \in Services, StartActFails(s) PROVE HistoryGrows
  BY <1>0, <1>7 DEF StartActFails, Fault
<1>8. CASE AwaitProbes \/ AwaitActs
  BY <1>0, <1>8 DEF AwaitProbes, AwaitActs, Await
<1>9. CASE Proceed \/ Return
  BY <1>0, <1>9 DEF Proceed, Return, Clear
<1>10. CASE AwaitLoop
  BY <1>0, <1>10 DEF AwaitLoop, Check
<1>11. CASE AwaitEnds
  BY <1>0, <1>11 DEF AwaitEnds, WaitTimesOut, WaitFails, Fault
<1>12. CASE AwaitReturns
  BY <1>0, <1>12 DEF AwaitReturns, SweepEnds
<1>13. ASSUME NEW c \in Pids, ChildExited(c) PROVE HistoryGrows
  BY <1>0, <1>13 DEF ChildExited, Unregister, Events
<1>14. ASSUME NEW c \in Pids, ChildHangs(c) PROVE HistoryGrows
  BY <1>0, <1>14 DEF ChildHangs, Kill, KillFails, Fault
<1>15. CASE KernelChild
  BY <1>0, <1>15 DEF KernelChild, ChildEnds
<1>16. CASE Clock
  BY <1>0, <1>16 DEF Clock, Tick
<1>17. CASE UNCHANGED vars
  BY <1>0, <1>17 DEF vars
<1> QED
  BY <1>1, <1>2, <1>3, <1>4, <1>5, <1>6, <1>7, <1>8, <1>9, <1>10, <1>11, <1>12,
     <1>13, <1>14, <1>15, <1>16, <1>17 DEF Next, Handler

\* ... so that what justified an outcome goes on justifying it.
LEMMA StaysJustified ==
  ASSUME IInv, HistoryGrows, NEW s \in Services, NEW status, Justified(s, status)
  PROVE  Justified(s, status)'
<1>1. faults \in Nat
  BY MaxFaultsAssumption DEF IInv, TypeOK
<1>2. CASE status = "success"
  BY <1>2, PidShape DEF HistoryGrows, Justified
<1>3. CASE status = "failed"
  <2>1. faults > 0 => faults' > 0
    BY <1>1 DEF HistoryGrows
  <2>2. Act(s) \in Pids
    BY PidShape
  <2> QED
    BY <1>3, <2>1, <2>2 DEF HistoryGrows, Justified
<1>4. CASE status = "probing_failed"
  <2>1. faults > 0 => faults' > 0
    BY <1>1 DEF HistoryGrows
  <2> QED
    BY <1>4, <2>1 DEF HistoryGrows, Justified
<1>5. CASE status \notin {"success", "failed", "probing_failed"}
  BY <1>5 DEF HistoryGrows, Justified
<1> QED
  BY <1>2, <1>3, <1>4, <1>5

-----------------------------------------------------------------------------
(* Outcomes *)

\* A status is appended to those of one service, the others stay.
LEMMA AddAppends ==
  ASSUME results \in [Services -> Seq(Statuses)],
         NEW s \in Services, NEW status \in Statuses, Add(s, status),
         NEW t \in Services, NEW i \in DOMAIN results'[t]
  PROVE  \/ i \in DOMAIN results[t] /\ results'[t][i] = results[t][i]
         \/ t = s /\ results'[t][i] = status
<1>1. CASE results' = results
  BY <1>1
<1>2. CASE results' = [results EXCEPT ![s] = Append(@, status)]
  <2>1. CASE t # s
    BY <1>2, <2>1
  <2>2. CASE t = s
    <3>1. results'[t] = Append(results[t], status) /\ results[t] \in Seq(Statuses)
      BY <1>2, <2>2
    <3> QED
      BY <2>2, <3>1
  <2> QED
    BY <2>1, <2>2
<1> QED
  BY <1>1, <1>2 DEF Add

\* A step leaves a status as it was, or reports one that is justified.
LEMMA ReportsWhatHappened ==
  ASSUME IInv, [Next]_vars, NEW s \in Services, NEW i \in DOMAIN results'[s]
  PROVE  \/ i \in DOMAIN results[s] /\ results'[s][i] = results[s][i]
         \/ \E status \in Statuses : results'[s][i] = status /\ Justified(s, status)'
<1> DEFINE Goal == \/ i \in DOMAIN results[s] /\ results'[s][i] = results[s][i]
                   \/ \E status \in Statuses :
                        results'[s][i] = status /\ Justified(s, status)'
<1>0. /\ faults \in Nat /\ os \in [Pids -> OsStates] /\ ending \in [Pids -> Endings \cup {"none"}]
      /\ results \in [Services -> Seq(Statuses)]
  BY MaxFaultsAssumption DEF IInv, TypeOK, MonitorTypeOK
<1>1. CASE UNCHANGED results
  BY <1>1
<1>2. ASSUME NEW t \in Services, SkipBlocked(t) PROVE Goal
  <2>1. Add(t, "blocked") /\ "blocked" \in Statuses
    BY <1>2 DEF SkipBlocked, Statuses
  <2>2. Justified(t, "blocked")'
    BY <1>2 DEF SkipBlocked, selectionVars, Justified
  <2> QED
    BY <1>0, <2>1, <2>2, AddAppends
<1>3. ASSUME NEW c \in Pids, ChildExited(c), c \in children, pc # "awaitProbe" PROVE Goal
  <2>1. c = Act(c[2]) /\ c[2] \in Services
    BY <1>3, PidShape DEF ChildExited, Awaiting, IInv, StageInv
  <2>2. CASE ExitStatusIsZero(c)
    <3>1. Add(c[2], "success") /\ "success" \in Statuses
      BY <1>3, <2>2 DEF ChildExited, Exited, Statuses
    <3>2. Justified(c[2], "success")'
      BY <1>0, <1>3, <2>1, <2>2 DEF ChildExited, Unregister, ExitStatusIsZero, Justified
    <3> QED
      BY <1>0, <2>1, <3>1, <3>2, AddAppends
  <2>3. CASE ~ExitStatusIsZero(c)
    <3>1. Add(c[2], "failed") /\ "failed" \in Statuses
      BY <1>3, <2>3 DEF ChildExited, Exited, Statuses
    <3>2. Justified(c[2], "failed")'
      BY <1>0, <1>3, <2>1, <2>3 DEF ChildExited, Unregister, ExitStatusIsZero, Justified
    <3> QED
      BY <1>0, <2>1, <3>1, <3>2, AddAppends
  <2> QED
    BY <2>2, <2>3
<1>4. ASSUME NEW c \in Pids, ChildHangs(c) PROVE Goal
  <2>1. c[2] \in Services /\ c \in children /\ os[c] # "none"
    BY <1>4, PidShape DEF ChildHangs, Kill, KillFails, Live, IInv, TableInv
  <2>2. c \in sigterm' \/ faults' > 0
    BY <1>0, <1>4 DEF ChildHangs, Kill, KillFails, Fault
  <2>3. os' = os
    BY <1>4 DEF ChildHangs, Kill, KillFails, kernelVars
  <2>4. CASE pc = "awaitProbe"
    <3>1. c = Probe(c[2])
      BY <2>1, <2>4, PidShape DEF IInv, StageInv
    <3>2. Add(c[2], "probing_failed") /\ "probing_failed" \in Statuses
      BY <1>4, <2>4 DEF ChildHangs, Hanging, Statuses
    <3>3. Justified(c[2], "probing_failed")'
      BY <2>2, <3>1 DEF Justified
    <3> QED
      BY <1>0, <2>1, <3>2, <3>3, AddAppends
  <2>5. CASE pc # "awaitProbe"
    <3>1. c = Act(c[2])
      BY <1>4, <2>1, <2>5, PidShape DEF ChildHangs, Awaiting, IInv, StageInv
    <3>2. Add(c[2], "failed") /\ "failed" \in Statuses
      BY <1>4, <2>5 DEF ChildHangs, Hanging, Statuses
    <3>3. Justified(c[2], "failed")'
      BY <2>1, <2>2, <2>3, <3>1 DEF Justified
    <3> QED
      BY <1>0, <2>1, <3>2, <3>3, AddAppends
  <2> QED
    BY <2>4, <2>5
<1>5. ASSUME NEW c \in Pids, ChildExited(c), c \notin children \/ pc = "awaitProbe"
      PROVE  UNCHANGED results
  BY <1>5 DEF ChildExited, Exited
<1>6. ASSUME NEW t \in Services,
             \/ StartProbe(t) \/ StartProbeFails(t)
             \/ StartAct(t) \/ StartActFails(t)
      PROVE  UNCHANGED results
  BY <1>6 DEF StartProbe, StartProbeFails, StartAct, StartActFails
<1>7. CASE Create \/ CreateFails \/ AwaitProbes \/ AwaitActs \/ Proceed \/ Return
  <2>1. UNCHANGED results
    BY <1>7 DEF Create, CreateFails, AwaitProbes, AwaitActs, Proceed, Return
  <2> QED
    BY <1>1, <2>1
<1>8. CASE AwaitLoop \/ AwaitEnds \/ AwaitReturns \/ KernelChild \/ Clock \/ UNCHANGED vars
  <2>1. UNCHANGED results
    BY <1>8 DEF AwaitLoop, AwaitEnds, AwaitReturns, KernelChild, Clock, vars, handlerVars
  <2> QED
    BY <1>1, <2>1
<1> QED
  BY <1>1, <1>2, <1>3, <1>4, <1>5, <1>6, <1>7, <1>8 DEF Next, Handler

\* Outcomes stay justified.
LEMMA StepOutcomeJustified ==
  IInv /\ OutcomeJustified /\ [Next]_vars => OutcomeJustified'
<1> SUFFICES ASSUME IInv, OutcomeJustified, [Next]_vars,
                    NEW s \in Services, NEW i \in DOMAIN results'[s]
             PROVE  \E status : results'[s][i] = status /\ Justified(s, status)'
  BY DEF OutcomeJustified, Justified
<1>1. CASE i \in DOMAIN results[s] /\ results'[s][i] = results[s][i]
  <2>1. Justified(s, results[s][i])
    BY <1>1 DEF OutcomeJustified, Justified
  <2> DEFINE status == results[s][i]
  <2>2. PICK value : value = results[s][i]
    OBVIOUS
  <2>3. Justified(s, value)'
    BY <2>1, <2>2, StepGrows, StaysJustified
  <2> QED
    BY <1>1, <2>2, <2>3
<1>2. CASE \E status \in Statuses : results'[s][i] = status /\ Justified(s, status)'
  BY <1>2
<1> QED
  BY <1>1, <1>2, ReportsWhatHappened

-----------------------------------------------------------------------------
\* What services_result_t reports of a service is what its children did, or what
\* was done to them, whatever fails and in whatever order.
THEOREM OutcomesAreJustified == Spec => []OutcomeJustified
<1>1. Init => OutcomeJustified
  BY DEF Init, HandlerInit, OutcomeJustified
<1>2. IInv /\ OutcomeJustified /\ UNCHANGED vars => OutcomeJustified'
  BY StepOutcomeJustified
<1> QED
  BY <1>1, <1>2, StepOutcomeJustified, InductiveInvariant, PTL DEF Spec

-----------------------------------------------------------------------------
(***************************************************************************)
(* The accounts of the monitor                                             *)
(***************************************************************************)

FirstStage == pc \in {"create", "probe", "awaitProbe"}
ProbeGivenUp == \E s \in Services : Probe(s) \in sigterm

\* The monitor is only at work while the handler awaits.
IdleInv == pc \in {"create", "probe", "act", "done"} => step = "idle"

\* A registered child has not been reaped.
QueueInv == \A c \in kq : os[c] \in {"running", "zombie"}

(* Until a call fails ... *)

\* ... a child that was started was reaped, or is in the table (before the
\* handler returns), or was sent SIGTERM;
ChildrenKnown ==
  \A c \in Pids :
    os[c] \in {"none", "reaped"} \/ (c \in children /\ pc # "done") \/ c \in sigterm

\* ... the kqueue watches children of the table and, in the second stage, probes
\* that were given up in the first;
QueueKnown ==
  \A c \in kq :
    \/ c \in children
    \/ ~FirstStage /\ c \in sigterm /\ (pc = "done" \/ c = Probe(c[2]))

\* ... the sweep spares nobody;
SweepComplete == step = "returned" => Live \subseteq sigterm

\* ... the counter is exact, unless a probe was given up;
CountExact == FirstStage \/ ~ProbeGivenUp => active_children_count = Cardinality(Live)

\* ... and a wait that was cut short had nobody to wait for, or follows one.
WaitJustified ==
  step = "sweep" => Live = {} \/ elapsed = Timeout \/ (pc = "awaitAct" /\ ProbeGivenUp)

Accounted == ChildrenKnown /\ QueueKnown /\ SweepComplete /\ CountExact /\ WaitJustified

FaultFreeInv == faults = 0 => Accounted

AccountInv == CounterCoveredByTable /\ IdleInv /\ QueueInv /\ FaultFreeInv

\* The children the monitor believes to be running can be counted.
LEMMA LiveIsFinite ==
  ASSUME MonitorTypeOK
  PROVE  /\ IsFiniteSet(Live)
         /\ Cardinality(Live) \in Nat
         /\ Cardinality(Live) = 0 => Live = {}
<1>1. Live \subseteq Pids
  BY DEF MonitorTypeOK, Live
<1> QED
  BY <1>1, PidsAssumption, FS_Subset, FS_CardinalityType, FS_EmptySet

\* A child that joins the table, or that leaves those that run.
LEMMA LiveCounts ==
  ASSUME MonitorTypeOK, NEW c \in Pids
  PROVE  /\ c \notin Live => Cardinality(Live \cup {c}) = Cardinality(Live) + 1
         /\ c \in Live => Cardinality(Live \ {c}) = Cardinality(Live) - 1
BY LiveIsFinite, FS_AddElement, FS_RemoveElement

\* The operations of the monitor that leave the kernel, the table and the
\* counter alone.
LEMMA SameCounts ==
  ASSUME CounterCoveredByTable, QueueInv, UNCHANGED <<os, tableVars>>
  PROVE  CounterCoveredByTable' /\ QueueInv' /\ UNCHANGED <<Live, Cardinality(Live)>>
<1>1. UNCHANGED Live
  BY DEF tableVars, Live
<1> QED
  BY <1>1 DEF tableVars, CounterCoveredByTable, QueueInv

LEMMA InitAccountInv == Init => AccountInv
<1> SUFFICES ASSUME Init PROVE AccountInv
  OBVIOUS
<1>1. Live = {} /\ Cardinality(Live) = 0
  BY FS_EmptySet DEF Init, MonitorInit, Live
<1> QED
  BY <1>1 DEF Init, MonitorInit, HandlerInit, AccountInv, CounterCoveredByTable,
              IdleInv, QueueInv, FaultFreeInv, Accounted,
              ChildrenKnown, QueueKnown, SweepComplete, CountExact, WaitJustified

\* fork, and what register_pid manages to do: the counter follows the table.
LEMMA ExecAccount ==
  ASSUME IInv, AccountInv, NEW c \in Pids,
         pc \in {"probe", "act"}, pc' \in {pc, "crashed"},
         \/ Exec(c) /\ NoFault /\ UNCHANGED pc
         \/ ExecUnregistered(c) /\ faults' > 0
         \/ ExecUncounted(c) /\ faults' > 0
  PROVE  AccountInv'
<1>0. MonitorTypeOK
  BY DEF IInv, TypeOK
<1>1. c \notin children /\ c \notin Live
  BY DEF Exec, ExecUnregistered, ExecUncounted, Fork, IInv, TableInv, Live
<1>2. QueueInv'
  BY <1>0 DEF Exec, ExecUnregistered, ExecUncounted, Fork, tableVars, AccountInv,
              QueueInv, MonitorTypeOK
<1>3. step = "idle" /\ IdleInv'
  BY DEF Exec, ExecUnregistered, ExecUncounted, awaitVars, AccountInv, IdleInv
<1>4. CASE Exec(c) /\ NoFault /\ UNCHANGED pc
  <2>1. Live' = Live \cup {c}
    BY <1>0, <1>1, <1>4 DEF Exec, Live, MonitorTypeOK
  <2>2. Cardinality(Live') = Cardinality(Live) + 1
    BY <1>0, <1>1, <2>1, LiveCounts
  <2>3. CounterCoveredByTable'
    BY <1>0, <1>4, <2>2, LiveIsFinite
    DEF Exec, AccountInv, CounterCoveredByTable, MonitorTypeOK
  <2>4. FaultFreeInv'
    <3>1. ChildrenKnown => ChildrenKnown'
      BY <1>0, <1>4 DEF Exec, Fork, ChildrenKnown, MonitorTypeOK
    <3>2. QueueKnown => QueueKnown'
      BY <1>4 DEF Exec, Fork, QueueKnown, FirstStage
    <3>3. SweepComplete' /\ WaitJustified'
      BY <1>4, <1>3 DEF Exec, awaitVars, SweepComplete, WaitJustified
    <3>4. CountExact => CountExact'
      BY <1>4, <2>2 DEF Exec, Fork, CountExact, FirstStage, ProbeGivenUp
    <3>5. Accounted => Accounted'
      BY <3>1, <3>2, <3>3, <3>4 DEF Accounted
    <3> QED
      BY <1>4, <3>5 DEF NoFault, faultVars, AccountInv, FaultFreeInv
  <2> QED
    BY <1>2, <1>3, <2>3, <2>4 DEF AccountInv
<1>5. CASE faults' > 0 /\ UNCHANGED <<children, exited, active_children_count>>
  <2>1. CounterCoveredByTable'
    BY <1>5 DEF AccountInv, CounterCoveredByTable, Live
  <2>2. FaultFreeInv'
    BY <1>5 DEF FaultFreeInv
  <2> QED
    BY <1>2, <1>3, <2>1, <2>2 DEF AccountInv
<1> QED
  BY <1>4, <1>5 DEF ExecUnregistered, ExecUncounted, tableVars

\* process_monitor_clear after a complete sweep: what remains of the first stage
\* are registrations of probes that were sent SIGTERM.
LEMMA ClearAccount ==
  ASSUME IInv, AccountInv, Clear, NoFault,
         \/ pc = "awaitProbe" /\ pc' = "act"
         \/ pc = "awaitAct" /\ pc' = "done"
  PROVE  AccountInv'
<1>1. Live' = {} /\ Cardinality(Live') = 0
  BY FS_EmptySet DEF Clear, Live
<1>2. CounterCoveredByTable' /\ IdleInv' /\ QueueInv'
  BY <1>1 DEF Clear, kernelVars, AccountInv, CounterCoveredByTable, IdleInv, QueueInv
<1>3. Accounted => Accounted'
  <2> SUFFICES ASSUME Accounted PROVE Accounted'
    OBVIOUS
  <2>1. \A c \in children : os[c] = "reaped" \/ c \in sigterm
    BY DEF Clear, IInv, TableInv, Accounted, SweepComplete, Live
  <2>2. ChildrenKnown'
    BY <2>1 DEF Clear, kernelVars, Accounted, ChildrenKnown
  <2>3. QueueKnown'
    <3> SUFFICES ASSUME NEW c \in kq
                 PROVE  c \in sigterm /\ (pc' = "done" \/ c = Probe(c[2]))
      BY DEF Clear, kernelVars, QueueKnown, FirstStage
    <3>1. c \in Pids /\ os[c] # "reaped"
      BY DEF IInv, TypeOK, MonitorTypeOK, AccountInv, QueueInv
    <3>2. c \in sigterm
      BY <2>1, <3>1 DEF Accounted, QueueKnown
    <3>3. pc = "awaitProbe" => c \in children
      BY DEF Accounted, QueueKnown, FirstStage
    <3>4. pc = "awaitProbe" => c = Probe(c[2])
      BY <3>1, <3>3, PidShape DEF IInv, StageInv
    <3> QED
      BY <3>2, <3>4
  <2>4. SweepComplete' /\ CountExact' /\ WaitJustified'
    BY <1>1 DEF Clear, SweepComplete, CountExact, WaitJustified
  <2> QED
    BY <2>2, <2>3, <2>4 DEF Accounted
<1> QED
  BY <1>2, <1>3 DEF NoFault, faultVars, AccountInv, FaultFreeInv

\* unregister_pid: the event of a child of the table, or a stray one, which only
\* a probe given up leaves behind.
LEMMA UnregisterAccount ==
  ASSUME IInv, AccountInv, NEW c \in Pids, ChildExited(c)
  PROVE  AccountInv'
<1>0. MonitorTypeOK /\ Awaiting /\ active_children_count \in Nat
  BY DEF IInv, TypeOK, MonitorTypeOK, ChildExited
<1>1. /\ c \in kq /\ os[c] = "zombie" /\ c \notin exited
      /\ kq' = kq \ {c} /\ os' = [os EXCEPT ![c] = "reaped"]
      /\ active_children_count' = active_children_count - 1
      /\ step = "wait" /\ step' = "check"
      /\ UNCHANGED <<ending, sigterm, children, elapsed, pc, faults>>
  BY DEF ChildExited, Unregister, Events, NoFault, faultVars, IInv, TableInv,
         TypeOK, MonitorTypeOK
<1>2. Live' = Live \ {c} /\ (c \in children <=> c \in Live)
  BY <1>1 DEF ChildExited, Unregister, Live
<1>3. Cardinality(Live') = IF c \in children THEN Cardinality(Live) - 1 ELSE Cardinality(Live)
  <2>1. c \notin Live => Live \ {c} = Live
    OBVIOUS
  <2> QED
    BY <1>0, <1>2, <2>1, LiveCounts
<1>4. CounterCoveredByTable'
  BY <1>0, <1>1, <1>3, LiveIsFinite DEF AccountInv, CounterCoveredByTable
<1>5. IdleInv' /\ QueueInv'
  BY <1>0, <1>1 DEF AccountInv, IdleInv, QueueInv, Awaiting, MonitorTypeOK
<1>6. Accounted => Accounted'
  <2> SUFFICES ASSUME Accounted PROVE Accounted'
    OBVIOUS
  <2>1. ChildrenKnown'
    BY <1>0, <1>1 DEF Accounted, ChildrenKnown, MonitorTypeOK
  <2>2. QueueKnown'
    BY <1>1 DEF Accounted, QueueKnown, FirstStage
  <2>3. SweepComplete' /\ WaitJustified'
    BY <1>1 DEF SweepComplete, WaitJustified
  <2>4. CountExact'
    <3>1. FirstStage \/ ~ProbeGivenUp => c \in children
      BY <1>0, <1>1, PidShape
      DEF Accounted, QueueKnown, ProbeGivenUp, FirstStage, Awaiting
    <3> QED
      BY <1>1, <1>3, <3>1 DEF Accounted, CountExact, FirstStage, ProbeGivenUp
  <2> QED
    BY <2>1, <2>2, <2>3, <2>4 DEF Accounted
<1> QED
  BY <1>1, <1>4, <1>5, <1>6 DEF AccountInv, FaultFreeInv

\* Steps of await that change neither the kernel nor the table: the top of the
\* loop, the end of the wait, the sweep.
LEMMA AwaitAccount ==
  ASSUME IInv, AccountInv, Awaiting, UNCHANGED <<os, tableVars>>,
         sigterm \subseteq sigterm', pc' \in {pc, "crashed"},
         faults' = 0 => faults = 0 /\ pc' = pc,
         faults' = 0 /\ Accounted => SweepComplete' /\ WaitJustified'
  PROVE  AccountInv'
<1>1. CounterCoveredByTable' /\ QueueInv' /\ UNCHANGED <<Live, Cardinality(Live)>>
  BY SameCounts DEF AccountInv
<1>2. IdleInv'
  BY DEF Awaiting, IdleInv
<1>3. FaultFreeInv'
  <2> SUFFICES ASSUME faults' = 0 PROVE Accounted'
    BY DEF FaultFreeInv
  <2>1. Accounted /\ pc' = pc
    BY DEF AccountInv, FaultFreeInv
  <2>2. ChildrenKnown' /\ QueueKnown'
    BY <2>1 DEF tableVars, Accounted, ChildrenKnown, QueueKnown, FirstStage
  <2>3. CountExact'
    BY <1>1, <2>1 DEF tableVars, Accounted, CountExact, FirstStage, ProbeGivenUp
  <2> QED
    BY <2>1, <2>2, <2>3 DEF Accounted
<1> QED
  BY <1>1, <1>2, <1>3 DEF AccountInv

\* Steps in which nothing is asked of the monitor, or a call fails at once.
LEMMA QuietAccount ==
  ASSUME IInv, AccountInv, UNCHANGED monitorVars,
         \/ faults' > 0 /\ (pc' \in {"probe", "act"} => pc' = pc) /\ pc' # "create" /\ pc' # "done"
         \/ faults' = faults /\ (pc' = pc \/ (pc = "create" /\ pc' = "probe"))
  PROVE  AccountInv'
<1>1. CounterCoveredByTable' /\ QueueInv' /\ UNCHANGED <<Live, Cardinality(Live)>>
  BY SameCounts DEF AccountInv, monitorVars, kernelVars
<1>2. IdleInv'
  BY DEF AccountInv, IdleInv, monitorVars, awaitVars
<1>3. CASE faults' > 0
  BY <1>1, <1>2, <1>3 DEF AccountInv, FaultFreeInv
<1>4. CASE faults' = faults /\ (pc' = pc \/ (pc = "create" /\ pc' = "probe"))
  <2>1. Accounted => Accounted'
    BY <1>1, <1>4
    DEF monitorVars, kernelVars, tableVars, awaitVars, Accounted, ChildrenKnown,
        QueueKnown, SweepComplete, CountExact, WaitJustified, FirstStage, ProbeGivenUp
  <2> QED
    BY <1>1, <1>2, <1>4, <2>1 DEF AccountInv, FaultFreeInv
<1> QED
  BY <1>3, <1>4

\* ... or in which nothing happens.
LEMMA StutterAccount == IInv /\ AccountInv /\ UNCHANGED vars => AccountInv'
<1> SUFFICES ASSUME IInv, AccountInv, UNCHANGED vars PROVE AccountInv'
  OBVIOUS
<1>1. UNCHANGED monitorVars
  BY DEF vars
<1>2. faults' = faults /\ pc' = pc
  BY DEF vars, faultVars, handlerVars
<1> QED
  BY <1>1, <1>2, QuietAccount

\* Every step keeps the accounts.
LEMMA StepAccountInv == IInv /\ AccountInv /\ [Next]_vars => AccountInv'
<1> SUFFICES ASSUME IInv, AccountInv, [Next]_vars PROVE AccountInv'
  OBVIOUS
<1>0. MonitorTypeOK /\ faults \in Nat /\ (faults = 0 => Accounted)
  BY MaxFaultsAssumption DEF IInv, TypeOK, AccountInv, FaultFreeInv
<1> USE DEF NoFault, faultVars, handlerVars, monitorVars, kernelVars, awaitVars
<1>1. CASE Create
  BY <1>1, QuietAccount DEF Create
<1>2. CASE CreateFails
  <2>1. /\ UNCHANGED monitorVars /\ faults' > 0
        /\ (pc' \in {"probe", "act"} => pc' = pc) /\ pc' # "create" /\ pc' # "done"
    BY <1>0, <1>2 DEF CreateFails, Fault
  <2> QED
    BY <2>1, QuietAccount
<1>3. ASSUME NEW s \in Services, SkipBlocked(s) PROVE AccountInv'
  BY <1>3, QuietAccount DEF SkipBlocked
<1>4. ASSUME NEW s \in Services, StartProbe(s) PROVE AccountInv'
  <2>1. /\ Probe(s) \in Pids
        /\ pc = "probe" /\ pc' \in {pc, "crashed"}
        /\ \/ Exec(Probe(s)) /\ NoFault /\ UNCHANGED pc
           \/ ExecUnregistered(Probe(s)) /\ faults' > 0
           \/ ExecUncounted(Probe(s)) /\ faults' > 0
    BY <1>0, <1>4, PidShape DEF StartProbe, Fault
  <2> QED
    BY <2>1, ExecAccount
<1>5. ASSUME NEW s \in Services, StartProbeFails(s) PROVE AccountInv'
  <2>1. /\ UNCHANGED monitorVars /\ faults' > 0
        /\ (pc' \in {"probe", "act"} => pc' = pc) /\ pc' # "create" /\ pc' # "done"
    BY <1>0, <1>5 DEF StartProbeFails, Fault
  <2> QED
    BY <2>1, QuietAccount
<1>6. ASSUME NEW s \in Services, StartAct(s) PROVE AccountInv'
  <2>1. /\ Act(s) \in Pids
        /\ pc = "act" /\ pc' \in {pc, "crashed"}
        /\ \/ Exec(Act(s)) /\ NoFault /\ UNCHANGED pc
           \/ ExecUnregistered(Act(s)) /\ faults' > 0
           \/ ExecUncounted(Act(s)) /\ faults' > 0
    BY <1>0, <1>6, PidShape DEF StartAct, Fault
  <2> QED
    BY <2>1, ExecAccount
<1>7. ASSUME NEW s \in Services, StartActFails(s) PROVE AccountInv'
  <2>1. /\ UNCHANGED monitorVars /\ faults' > 0
        /\ (pc' \in {"probe", "act"} => pc' = pc) /\ pc' # "create" /\ pc' # "done"
    BY <1>0, <1>7 DEF StartActFails, Fault
  <2> QED
    BY <2>1, QuietAccount
<1>8. CASE AwaitProbes \/ AwaitActs
  <2>1. /\ UNCHANGED <<os, sigterm, tableVars, faults>> /\ step' = "check"
        /\ \/ pc = "probe" /\ pc' = "awaitProbe"
           \/ pc = "act" /\ pc' = "awaitAct"
    BY <1>8 DEF AwaitProbes, AwaitActs, Await
  <2>2. CounterCoveredByTable' /\ QueueInv' /\ UNCHANGED <<Live, Cardinality(Live)>>
    BY <2>1, SameCounts DEF AccountInv
  <2>3. Accounted => Accounted'
    BY <2>1, <2>2
    DEF tableVars, Accounted, ChildrenKnown, QueueKnown, SweepComplete, CountExact,
        WaitJustified, FirstStage, ProbeGivenUp
  <2> QED
    BY <1>0, <2>1, <2>2, <2>3 DEF AccountInv, IdleInv, FaultFreeInv
<1>9. CASE Proceed \/ Return
  BY <1>9, ClearAccount DEF Proceed, Return
<1>10. CASE AwaitLoop
  <2>1. /\ Awaiting /\ UNCHANGED <<os, tableVars, sigterm, pc, faults, elapsed>>
        /\ step' = IF active_children_count = 0 \/ elapsed = Timeout THEN "sweep" ELSE "wait"
    BY <1>10 DEF AwaitLoop, Check
  <2>2. UNCHANGED Live
    BY <2>1 DEF tableVars, Live
  <2>3. Accounted => WaitJustified'
    <3>1. Accounted /\ active_children_count = 0 =>
            Live = {} \/ (pc = "awaitAct" /\ ProbeGivenUp)
      BY <1>0, <2>1, LiveIsFinite DEF Accounted, CountExact, FirstStage, Awaiting
    <3> QED
      BY <2>1, <2>2, <3>1 DEF WaitJustified, ProbeGivenUp
  <2> QED
    BY <2>1, <2>3, AwaitAccount DEF SweepComplete
<1>11. CASE AwaitEnds
  <2>1. CASE WaitTimesOut /\ NoFault /\ UNCHANGED pc
    <3>1. Awaiting /\ step' = "sweep" /\ elapsed' = Timeout
          /\ UNCHANGED <<os, tableVars, sigterm>>
      BY <1>11, <2>1 DEF AwaitEnds, WaitTimesOut
    <3> QED
      BY <2>1, <3>1, AwaitAccount DEF SweepComplete, WaitJustified
  <2>2. CASE WaitFails /\ Fault(pc)
    BY <1>0, <1>11, <2>2, AwaitAccount DEF AwaitEnds, WaitFails, Fault
  <2> QED
    BY <1>11, <2>1, <2>2 DEF AwaitEnds
<1>12. CASE AwaitReturns
  <2>1. /\ Awaiting /\ step' = "returned" /\ Live \subseteq sigterm
        /\ UNCHANGED <<os, tableVars, sigterm, pc, faults>>
    BY <1>12 DEF AwaitReturns, SweepEnds
  <2>2. SweepComplete' /\ WaitJustified'
    BY <2>1 DEF tableVars, Live, SweepComplete, WaitJustified
  <2> QED
    BY <2>1, <2>2, AwaitAccount
<1>13. ASSUME NEW c \in Pids, ChildExited(c) PROVE AccountInv'
  BY <1>13, UnregisterAccount
<1>14. ASSUME NEW c \in Pids, ChildHangs(c) PROVE AccountInv'
  <2>1. CASE Kill(c) /\ NoFault /\ UNCHANGED pc
    <3>1. /\ Awaiting /\ step = "sweep" /\ UNCHANGED <<os, tableVars, step, elapsed>>
          /\ sigterm \subseteq sigterm'
      BY <1>14, <2>1 DEF ChildHangs, Kill
    <3>2. Accounted => SweepComplete' /\ WaitJustified'
      BY <2>1, <3>1
      DEF tableVars, Live, Accounted, SweepComplete, WaitJustified, ProbeGivenUp
    <3> QED
      BY <2>1, <3>1, <3>2, AwaitAccount
  <2>2. CASE KillFails(c) /\ Fault(pc)
    BY <1>0, <1>14, <2>2, AwaitAccount DEF ChildHangs, KillFails, Fault
  <2> QED
    BY <1>14, <2>1, <2>2 DEF ChildHangs
<1>15. CASE KernelChild
  <2> PICK c \in Pids : ChildEnds(c)
    BY <1>15 DEF KernelChild
  <2>1. /\ os[c] = "running" /\ os' = [os EXCEPT ![c] = "zombie"]
        /\ UNCHANGED <<sigterm, tableVars, awaitVars, pc, faults>>
    BY <1>15 DEF ChildEnds, KernelChild
  <2>2. UNCHANGED <<Live, Cardinality(Live)>>
    BY <2>1 DEF tableVars, Live
  <2>3. CounterCoveredByTable' /\ IdleInv' /\ QueueInv'
    BY <1>0, <2>1, <2>2
    DEF tableVars, AccountInv, CounterCoveredByTable, IdleInv, QueueInv, MonitorTypeOK
  <2>4. Accounted => Accounted'
    BY <1>0, <2>1, <2>2
    DEF tableVars, Accounted, ChildrenKnown, QueueKnown, SweepComplete, CountExact,
        WaitJustified, FirstStage, ProbeGivenUp, MonitorTypeOK
  <2> QED
    BY <1>0, <2>1, <2>3, <2>4 DEF AccountInv, FaultFreeInv
<1>16. CASE Clock
  <2>1. /\ Awaiting /\ step \in {"check", "wait"}
        /\ UNCHANGED <<os, tableVars, sigterm, step, pc, faults>>
    BY <1>16 DEF Clock, Tick
  <2> QED
    BY <2>1, AwaitAccount DEF SweepComplete, WaitJustified
<1>17. CASE UNCHANGED vars
  BY <1>17, StutterAccount
<1> QED
  BY <1>1, <1>2, <1>3, <1>4, <1>5, <1>6, <1>7, <1>8, <1>9, <1>10, <1>11, <1>12,
     <1>13, <1>14, <1>15, <1>16, <1>17 DEF Next, Handler

-----------------------------------------------------------------------------
\* The accounts are right in every state of the handler.
THEOREM AccountsAreKept == Spec => []AccountInv
<1>1. IInv /\ AccountInv /\ UNCHANGED vars => AccountInv'
  BY StepAccountInv
<1> QED
  BY <1>1, InitAccountInv, StepAccountInv, InductiveInvariant, PTL DEF Spec

\* The counter that ends the wait never exceeds the children still to be heard
\* of: once all of them have answered, await does not sit out its timeout.
THEOREM CounterIsCovered == Spec => []CounterCoveredByTable
<1>1. AccountInv => CounterCoveredByTable
  BY DEF AccountInv
<1> QED
  BY <1>1, AccountsAreKept, PTL

\* A command has all of its time, unless a call failed or, in the second stage, a
\* probe of the first one was given up.
THEOREM CutShortOnlyThen == Spec => []CutShortOnlyAfterHang
<1>1. IInv /\ AccountInv => CutShortOnlyAfterHang
  BY MaxFaultsAssumption, TimeoutAssumption
  DEF IInv, TypeOK, MonitorTypeOK, AccountInv, FaultFreeInv, Accounted, WaitJustified,
      ProbeGivenUp, CutShortOnlyAfterHang
<1> QED
  BY <1>1, InductiveInvariant, AccountsAreKept, PTL

\* When no call fails, each child was reaped or told to terminate before
\* services_selection_handle returns.
THEOREM NobodyIsLeftBehind == Spec => []NoChildLeftBehind
<1>1. IInv /\ AccountInv => NoChildLeftBehind
  BY DEF IInv, AccountInv, FaultFreeInv, Accounted, ChildrenKnown, NoChildLeftBehind
<1> QED
  BY <1>1, InductiveInvariant, AccountsAreKept, PTL

-----------------------------------------------------------------------------
(* The promise of ServiceOutcomes                                         *)

-----------------------------------------------------------------------------
(* What is known of the children that are done with *)

\* The loops are left when nothing remains to be visited; until a call fails,
\* a child that was sent SIGTERM and a command that was reaped are reported.
Reported ==
  /\ \A c \in sigterm : results[c[2]] # <<>>
  /\ \A s \in Services : os[Act(s)] = "reaped" => results[s] # <<>>

ReportInv ==
  /\ pc \in {"awaitProbe", "awaitAct", "done"} => todo = {}
  /\ faults = 0 => Reported

\* What a service was given as a status is not taken back.
LEMMA AddReports ==
  ASSUME results \in [Services -> Seq(Statuses)],
         NEW s \in Services, NEW status \in Statuses, Add(s, status)
  PROVE  /\ \A t \in Services : t # s => results'[t] = results[t]
         /\ \A t \in Services : results[t] # <<>> => results'[t] # <<>>
         /\ action[s] # "none" => results'[s] = Append(results[s], status) /\ results'[s] # <<>>
         /\ action[s] = "none" => results'[s] = results[s]
<1>1. Append(results[s], status) # <<>>
  <2>1. results[s] \in Seq(Statuses)
    OBVIOUS
  <2>2. Len(Append(results[s], status)) = Len(results[s]) + 1 /\ Len(results[s]) \in Nat
    BY <2>1
  <2> QED
    BY <2>2, EmptySeq
<1> QED
  BY <1>1 DEF Add

\* A child that runs is that of a selected service that is not blocked, hence of
\* one that has an action.
LEMMA ChildHasAction ==
  ASSUME IInv, NEW c \in children
  PROVE  action[c[2]] \in {"stop", "restart"} /\ c[2] \in Services
<1>1. c \in Pids /\ os[c] # "none"
  BY DEF IInv, TypeOK, MonitorTypeOK, TableInv
<1>2. CASE c = Probe(c[2])
  BY <1>1, <1>2, PidShape DEF IInv, TypeOK, SelectionInv, Selected, Actions
<1>3. CASE c = Act(c[2])
  BY <1>1, <1>3, PidShape DEF IInv, ActsOnlyOnEnabled
<1> QED
  BY <1>1, <1>2, <1>3, PidShape

\* The outcomes and the kernel as they are: nothing to report.
LEMMA SameReports ==
  ASSUME IInv, ReportInv, faults' = 0 => faults = 0, UNCHANGED <<results, sigterm>>,
         \A s \in Services : os'[Act(s)] = "reaped" => os[Act(s)] = "reaped",
         pc' \in {"awaitProbe", "awaitAct", "done"} => todo' = {}
  PROVE  ReportInv'
BY DEF ReportInv, Reported

LEMMA StepReportInv == IInv /\ AccountInv /\ ReportInv /\ [Next]_vars => ReportInv'
<1> SUFFICES ASSUME IInv, AccountInv, ReportInv, [Next]_vars PROVE ReportInv'
  OBVIOUS
<1>0. /\ MonitorTypeOK /\ faults \in Nat /\ results \in [Services -> Seq(Statuses)]
      /\ faults' \in Nat /\ (faults' = 0 => faults = 0)
      /\ (pc \in {"awaitProbe", "awaitAct", "done"} => todo = {})
      /\ (faults = 0 => Reported /\ Accounted)
  BY MaxFaultsAssumption, StepGrows
  DEF IInv, TypeOK, HistoryGrows, AccountInv, FaultFreeInv, ReportInv
<1> USE DEF NoFault, faultVars, handlerVars, monitorVars, kernelVars, awaitVars
<1>1. CASE Create \/ CreateFails
  BY <1>0, <1>1, SameReports DEF Create, CreateFails, Fault
<1>2. ASSUME NEW s \in Services, SkipBlocked(s) PROVE ReportInv'
  <2>1. \A t \in Services : results[t] # <<>> => results'[t] # <<>>
    BY <1>0, <1>2, AddReports DEF SkipBlocked, Statuses
  <2>2. \A c \in sigterm : c[2] \in Services
    BY <1>0, PidShape DEF MonitorTypeOK
  <2> QED
    BY <1>0, <1>2, <2>1, <2>2 DEF SkipBlocked, ReportInv, Reported
<1>3. ASSUME NEW s \in Services, StartProbe(s) \/ StartAct(s) PROVE ReportInv'
  <2>1. PICK c \in Pids : Fork(c)
    BY <1>3, PidShape
    DEF StartProbe, StartAct, Exec, ExecUnregistered, ExecUncounted
  <2>2. \A t \in Services : os'[Act(t)] = "reaped" => os[Act(t)] = "reaped"
    BY <1>0, <2>1, PidShape DEF Fork, MonitorTypeOK
  <2>3. UNCHANGED <<results, sigterm>> /\ pc' \in {"probe", "act", "crashed"}
    BY <1>3, <2>1 DEF StartProbe, StartAct, Fork, Fault
  <2> QED
    BY <1>0, <2>2, <2>3, SameReports
<1>4. ASSUME NEW s \in Services, StartProbeFails(s) \/ StartActFails(s) PROVE ReportInv'
  BY <1>0, <1>4, SameReports DEF StartProbeFails, StartActFails, Fault
<1>5. CASE AwaitProbes \/ AwaitActs
  BY <1>0, <1>5, SameReports DEF AwaitProbes, AwaitActs, Await
<1>6. CASE Proceed \/ Return
  BY <1>0, <1>6, SameReports DEF Proceed, Return, Clear
<1>7. CASE AwaitLoop \/ AwaitReturns
  BY <1>0, <1>7, SameReports DEF AwaitLoop, Check, AwaitReturns, SweepEnds
<1>8. CASE AwaitEnds
  BY <1>0, <1>8, SameReports DEF AwaitEnds, WaitTimesOut, WaitFails, Fault
<1>9. ASSUME NEW c \in Pids, ChildExited(c) PROVE ReportInv'
  <2>1. /\ os' = [os EXCEPT ![c] = "reaped"] /\ UNCHANGED <<pc, todo, sigterm, faults>>
        /\ Awaiting
    BY <1>9 DEF ChildExited, Unregister
  <2>2. CASE c \in children /\ pc = "awaitAct"
    <3>1. c[2] \in Services /\ action[c[2]] # "none"
      BY <1>0, <2>2, ChildHasAction
    <3>2. PICK status \in Statuses : Add(c[2], status)
      BY <1>9, <2>2 DEF ChildExited, Exited, Statuses
    <3>3. /\ \A t \in Services : results[t] # <<>> => results'[t] # <<>>
          /\ results'[c[2]] # <<>>
      BY <1>0, <3>1, <3>2, AddReports
    <3>4. \A d \in sigterm : d[2] \in Services
      BY <1>0, PidShape DEF MonitorTypeOK
    <3>5. \A s \in Services : Act(s) = c => s = c[2]
      BY PidShape
    <3>6. \A s \in Services : os'[Act(s)] = "reaped" => os[Act(s)] = "reaped" \/ s = c[2]
      BY <1>0, <2>1, <3>5, PidShape DEF MonitorTypeOK
    <3> QED
      BY <1>0, <2>1, <3>3, <3>4, <3>6 DEF ReportInv, Reported
  <2>3. CASE ~(c \in children /\ pc = "awaitAct")
    <3>1. UNCHANGED results
      BY <1>9, <2>1, <2>3 DEF ChildExited, Exited, Awaiting
    <3>2. faults = 0 => c = Probe(c[2])
      BY <1>0, <2>1, <1>9, <2>3, PidShape
      DEF ChildExited, Unregister, Events, Awaiting, Accounted, QueueKnown, FirstStage,
          IInv, StageInv
    <3>3. faults = 0 => \A s \in Services : os'[Act(s)] = "reaped" => os[Act(s)] = "reaped"
      BY <1>0, <2>1, <3>2, PidShape DEF MonitorTypeOK
    <3> QED
      BY <1>0, <2>1, <3>1, <3>3 DEF ReportInv, Reported
  <2> QED
    BY <2>2, <2>3
<1>10. ASSUME NEW c \in Pids, ChildHangs(c) PROVE ReportInv'
  <2>1. /\ os' = os /\ UNCHANGED todo /\ pc' \in {pc, "crashed"} /\ c \in children
        /\ sigterm' \subseteq sigterm \cup {c}
    BY <1>10 DEF ChildHangs, Kill, KillFails, Live, Fault
  <2>2. c[2] \in Services /\ action[c[2]] # "none"
    BY <1>0, <2>1, ChildHasAction
  <2>3. PICK status \in Statuses : Add(c[2], status)
    BY <1>10 DEF ChildHangs, Hanging, Statuses
  <2>4. /\ \A t \in Services : results[t] # <<>> => results'[t] # <<>>
        /\ results'[c[2]] # <<>>
    BY <1>0, <2>2, <2>3, AddReports
  <2>5. \A d \in sigterm : d[2] \in Services
    BY <1>0, PidShape DEF MonitorTypeOK
  <2> QED
    BY <1>0, <2>1, <2>4, <2>5 DEF ReportInv, Reported
<1>11. CASE KernelChild
  <2>1. PICK c \in Pids : ChildEnds(c)
    BY <1>11 DEF KernelChild
  <2>2. \A s \in Services : os'[Act(s)] = "reaped" => os[Act(s)] = "reaped"
    BY <1>0, <2>1, PidShape DEF ChildEnds, MonitorTypeOK
  <2> QED
    BY <1>0, <1>11, <2>1, <2>2, SameReports DEF KernelChild, ChildEnds
<1>12. CASE Clock
  BY <1>0, <1>12, SameReports DEF Clock, Tick
<1>13. CASE UNCHANGED vars
  BY <1>0, <1>13, SameReports DEF vars
<1> QED
  BY <1>1, <1>2, <1>3, <1>4, <1>5, <1>6, <1>7, <1>8, <1>9, <1>10, <1>11, <1>12,
     <1>13 DEF Next, Handler

-----------------------------------------------------------------------------
(* The mapping *)

Stage == IF faults > 0 THEN "broken"
         ELSE IF FirstStage THEN "probing"
         ELSE IF pc \in {"act", "awaitAct"} THEN "acting"
         ELSE "over"

\* What an outcome is made of.
LEMMA SameOutcome ==
  ASSUME NEW s \in Services,
         UNCHANGED <<action, faults>>,
         results'[s] = results[s],
         os'[Act(s)] = "none" <=> os[Act(s)] = "none",
         os'[Probe(s)] = "none" <=> os[Probe(s)] = "none",
         os'[Probe(s)] = "reaped" <=> os[Probe(s)] = "reaped",
         s \in Waiting' <=> s \in Waiting,
         s \in Selected /\ os[Probe(s)] = "none" =>
           (pc' # "create" /\ s \notin todo' <=> pc # "create" /\ s \notin todo)
  PROVE  Outcome(s)' = Outcome(s)
BY DEF Outcome, Waiting, Selected

\* Nothing changes for the promise.
LEMMA Nothing ==
  ASSUME UNCHANGED Stage, \A s \in Services : UNCHANGED Outcome(s)
  PROVE  UNCHANGED Promise!vars
BY DEF Promise!vars, Stage, FirstStage

\* One service gets on.
LEMMA GetsOn ==
  ASSUME UNCHANGED Stage, NEW s \in Services, NEW from, NEW to,
         Outcome(s) = from, Outcome(s)' = to,
         \A t \in Services : t # s => UNCHANGED Outcome(t)
  PROVE  Promise!Move(s, from, to)
BY DEF Promise!Move, Stage, FirstStage

\* A call fails: the first such step breaks the promise, after it nothing is
\* promised.
LEMMA Breaks ==
  ASSUME faults \in Nat, faults' \in Nat, faults' > 0,
         faults > 0 \/ FirstStage \/ pc \in {"act", "awaitAct"}
  PROVE  Promise!Break \/ UNCHANGED Promise!vars
<1>1. CASE faults > 0
  BY <1>1 DEF Promise!vars, Outcome
<1>2. CASE faults = 0
  BY <1>2 DEF Promise!Break, Outcome, FirstStage
<1> QED
  BY <1>1, <1>2

\* Calls fail before the handler returns only.
LEMMA FailsInStages ==
  ASSUME IInv, [Next]_vars, faults' # faults
  PROVE  FirstStage \/ pc \in {"act", "awaitAct"}
<1> USE DEF FirstStage, NoFault, faultVars
<1>1. CASE Create \/ CreateFails \/ Proceed \/ Return \/ KernelChild \/ Clock
  BY <1>1 DEF Create, CreateFails, Proceed, Return, KernelChild, Clock
<1>2. ASSUME NEW s \in Services,
             \/ SkipBlocked(s) \/ StartProbe(s) \/ StartProbeFails(s)
             \/ StartAct(s) \/ StartActFails(s)
      PROVE  FirstStage \/ pc \in {"act", "awaitAct"}
  BY <1>2 DEF SkipBlocked, StartProbe, StartProbeFails, StartAct, StartActFails
<1>3. CASE AwaitProbes \/ AwaitActs \/ AwaitLoop \/ AwaitEnds \/ AwaitReturns
  BY <1>3 DEF AwaitProbes, AwaitActs, AwaitLoop, AwaitEnds, AwaitReturns, Awaiting
<1>4. ASSUME NEW c \in Pids, ChildExited(c) \/ ChildHangs(c)
      PROVE  FirstStage \/ pc \in {"act", "awaitAct"}
  BY <1>4 DEF ChildExited, ChildHangs, Awaiting
<1>5. CASE UNCHANGED vars
  BY <1>5 DEF vars
<1> QED
  BY <1>1, <1>2, <1>3, <1>4, <1>5 DEF Next, Handler

-----------------------------------------------------------------------------
(* The steps, while no call fails *)

\* What the step lemmas assume: a state in order, and no failure.
NoFailure == faults = 0 /\ faults' = 0
InOrder == IInv /\ Accounted /\ Reported /\ (Awaiting \/ pc = "done" => todo = {})

\* A status that is the first one is the outcome.
LEMMA FirstStatus ==
  ASSUME NoFailure, NEW s \in Services, NEW status \in Statuses,
         results[s] = <<>>, results'[s] = Append(results[s], status),
         action'[s] # "absent"
  PROVE  Outcome(s)' = status
<1>1. results'[s] = <<status>>
  OBVIOUS
<1>2. <<status>> # <<>> /\ Head(<<status>>) = status
  OBVIOUS
<1> QED
  BY <1>1, <1>2 DEF NoFailure, Outcome

LEMMA SkipBlockedBlocks ==
  ASSUME InOrder, NoFailure, NEW s \in Services, SkipBlocked(s)
  PROVE  Promise!Block(s)
<1>1. /\ pc = "probe" /\ s \in todo \cap blocked /\ todo' = todo \ {s} /\ Add(s, "blocked")
      /\ UNCHANGED <<os, ending, action, blocked, pc, enabled, faults>>
  BY DEF SkipBlocked, NoFault, faultVars, monitorVars, kernelVars, selectionVars
<1>2. /\ results[s] = <<>> /\ os[Act(s)] = "none" /\ os[Probe(s)] = "none"
      /\ enabled = {} /\ s \in Selected /\ results \in [Services -> Seq(Statuses)]
  BY <1>1 DEF InOrder, IInv, TypeOK, OpenInv, StageInv, SelectionInv
<1>3. Outcome(s) = "pending"
  BY <1>1, <1>2 DEF NoFailure, Outcome, Selected
<1>4. Outcome(s)' = "blocked"
  <2>1. CASE action[s] = "none"
    BY <1>1, <1>2, <2>1, AddReports DEF NoFailure, Outcome, Statuses
  <2>2. CASE action[s] # "none"
    <3>1. results'[s] = Append(results[s], "blocked") /\ "blocked" \in Statuses
      BY <1>1, <1>2, <2>2, AddReports DEF Statuses
    <3> QED
      BY <1>1, <1>2, <3>1, FirstStatus DEF Selected
  <2> QED
    BY <2>1, <2>2
<1>5. ASSUME NEW t \in Services, t # s PROVE UNCHANGED Outcome(t)
  <2>1. results'[t] = results[t]
    BY <1>1, <1>2, <1>5, AddReports DEF Statuses
  <2> QED
    BY <1>1, <1>5, <2>1, SameOutcome DEF Waiting
<1>6. UNCHANGED Stage /\ Stage = "probing"
  BY <1>1 DEF NoFailure, Stage, FirstStage
<1> QED
  BY <1>3, <1>4, <1>5, <1>6, GetsOn DEF Promise!Block, Stage, FirstStage

LEMMA StartProbeProbes ==
  ASSUME InOrder, NoFailure, NEW s \in Services, StartProbe(s)
  PROVE  Promise!Probe(s)
<1>1. /\ pc = "probe" /\ s \in todo \ blocked /\ todo' = todo \ {s} /\ Exec(Probe(s))
      /\ UNCHANGED <<action, blocked, pc, enabled, results, faults>>
  BY DEF StartProbe, Fault, NoFailure, NoFault, faultVars, selectionVars
<1>2. /\ results[s] = <<>> /\ os[Act(s)] = "none" /\ os[Probe(s)] = "none"
      /\ enabled = {} /\ s \in Selected /\ MonitorTypeOK
  BY <1>1 DEF InOrder, IInv, TypeOK, OpenInv, StageInv, SelectionInv
<1>3. /\ os'[Probe(s)] = "running" /\ os'[Act(s)] = "none"
      /\ \A t \in Services : t # s =>
            os'[Probe(t)] = os[Probe(t)] /\ os'[Act(t)] = os[Act(t)]
  BY <1>1, <1>2, PidShape DEF Exec, Fork, MonitorTypeOK
<1>4. Outcome(s) = "pending"
  BY <1>1, <1>2 DEF NoFailure, Outcome, Selected
<1>5. Outcome(s)' = "probing"
  BY <1>1, <1>2, <1>3 DEF NoFailure, Outcome, Selected
<1>6. ASSUME NEW t \in Services, t # s PROVE UNCHANGED Outcome(t)
  BY <1>1, <1>3, <1>6, SameOutcome DEF Waiting
<1>7. UNCHANGED Stage /\ Stage = "probing"
  BY <1>1 DEF NoFailure, Stage, FirstStage
<1> QED
  BY <1>4, <1>5, <1>6, <1>7, GetsOn DEF Promise!Probe, Stage, FirstStage

LEMMA StartActActs ==
  ASSUME InOrder, NoFailure, NEW s \in Services, StartAct(s)
  PROVE  Promise!Act(s)
<1>1. /\ pc = "act" /\ s \in todo /\ todo' = todo \ {s} /\ Exec(Act(s))
      /\ UNCHANGED <<action, blocked, pc, enabled, results, faults>>
  BY DEF StartAct, Fault, NoFailure, NoFault, faultVars, selectionVars
<1>2. /\ s \in Waiting /\ results[s] = <<>> /\ os[Act(s)] = "none" /\ os[Probe(s)] = "reaped"
      /\ s \in Selected /\ MonitorTypeOK
  BY <1>1
  DEF InOrder, IInv, TypeOK, OpenInv, StageInv, SelectionInv, EnabledInv, Waiting
<1>3. /\ os'[Probe(s)] = "reaped" /\ os'[Act(s)] = "running"
      /\ \A t \in Services : t # s =>
            os'[Probe(t)] = os[Probe(t)] /\ os'[Act(t)] = os[Act(t)]
  BY <1>1, <1>2, PidShape DEF Exec, Fork, MonitorTypeOK
<1>4. Outcome(s) = "enabled"
  BY <1>1, <1>2 DEF NoFailure, Outcome, Selected
<1>5. Outcome(s)' = "acting"
  BY <1>1, <1>2, <1>3 DEF NoFailure, Outcome, Selected
<1>6. ASSUME NEW t \in Services, t # s PROVE UNCHANGED Outcome(t)
  BY <1>1, <1>3, <1>6, SameOutcome DEF Waiting
<1>7. UNCHANGED Stage /\ Stage = "acting"
  BY <1>1 DEF NoFailure, Stage, FirstStage
<1> QED
  BY <1>4, <1>5, <1>6, <1>7, GetsOn DEF Promise!Act, Stage, FirstStage

\* An exit event in the first await: the answer of a probe.
LEMMA ProbeAnswers ==
  ASSUME InOrder, NoFailure, NEW c \in Pids, ChildExited(c), pc = "awaitProbe"
  PROVE  Promise!ProbeEnds(c[2])
<1> DEFINE s == c[2]
<1>1. /\ os[c] = "zombie" /\ c \in kq /\ os' = [os EXCEPT ![c] = "reaped"] /\ step = "wait"
      /\ UNCHANGED <<ending, action, pc, todo, faults>>
  BY DEF ChildExited, Unregister, Events, NoFault, faultVars, selectionVars
<1>2. c \in children /\ c = Probe(s) /\ s \in Services /\ MonitorTypeOK
  BY <1>1, PidShape
  DEF InOrder, Accounted, QueueKnown, FirstStage, IInv, StageInv, TypeOK
<1>3. /\ enabled' = IF ExitStatusIsZero(c) THEN enabled \cup {s} ELSE enabled
      /\ UNCHANGED results
  BY <1>2 DEF ChildExited, Exited
<1>4. /\ results[s] = <<>> /\ os[Act(s)] = "none" /\ s \notin enabled /\ s \in Selected
  BY <1>1, <1>2
  DEF InOrder, IInv, TableInv, OpenInv, Live, StageInv, SelectionInv, EnabledInv, Waiting
<1>5. /\ os'[Probe(s)] = "reaped" /\ os'[Act(s)] = "none"
      /\ \A t \in Services : t # s =>
            os'[Probe(t)] = os[Probe(t)] /\ os'[Act(t)] = os[Act(t)]
  BY <1>1, <1>2, <1>4, PidShape DEF MonitorTypeOK
<1>6. Outcome(s) = "probing"
  BY <1>1, <1>2, <1>4 DEF NoFailure, Outcome, Selected
<1>7. Outcome(s)' = IF ExitStatusIsZero(c) THEN "enabled" ELSE "disabled"
  BY <1>1, <1>3, <1>4, <1>5 DEF NoFailure, Outcome, Selected
<1>8. ASSUME NEW t \in Services, t # s PROVE UNCHANGED Outcome(t)
  BY <1>1, <1>3, <1>5, <1>8, SameOutcome DEF Waiting
<1>9. UNCHANGED Stage /\ Stage = "probing"
  BY <1>1 DEF NoFailure, Stage, FirstStage
<1>10. CASE ExitStatusIsZero(c)
  BY <1>2, <1>6, <1>7, <1>8, <1>9, <1>10, GetsOn DEF Promise!ProbeEnds, Stage, FirstStage
<1>11. CASE ~ExitStatusIsZero(c)
  BY <1>2, <1>6, <1>7, <1>8, <1>9, <1>11, GetsOn DEF Promise!ProbeEnds, Stage, FirstStage
<1> QED
  BY <1>10, <1>11

\* An exit event in the second one: the end of a command, or that of a probe that
\* was given up, which changes nothing.
LEMMA ActAnswers ==
  ASSUME InOrder, NoFailure, NEW c \in Pids, ChildExited(c), pc = "awaitAct"
  PROVE  Promise!ActEnds(c[2]) \/ UNCHANGED Promise!vars
<1> DEFINE s == c[2]
<1>1. /\ os[c] = "zombie" /\ c \in kq /\ os' = [os EXCEPT ![c] = "reaped"] /\ step = "wait"
      /\ UNCHANGED <<ending, action, pc, todo, faults>>
      /\ s \in Services /\ MonitorTypeOK /\ results \in [Services -> Seq(Statuses)]
  BY PidShape
  DEF InOrder, IInv, TypeOK, ChildExited, Unregister, Events, NoFault, faultVars, selectionVars
<1>2. UNCHANGED Stage /\ Stage = "acting"
  BY <1>1 DEF NoFailure, Stage, FirstStage
<1>3. CASE c \in children
  <2>1. c = Act(s) /\ results[s] = <<>> /\ action[s] \in {"stop", "restart"}
    BY <1>1, <1>3, PidShape, ChildHasAction
    DEF InOrder, IInv, StageInv, TableInv, OpenInv, Live
  <2>2. UNCHANGED enabled /\ Add(s, IF ExitStatusIsZero(c) THEN "success" ELSE "failed")
    BY <1>3 DEF ChildExited, Exited
  <2>3. \A t \in Services : t # s =>
            os'[Probe(t)] = os[Probe(t)] /\ os'[Act(t)] = os[Act(t)]
    BY <1>1, <2>1, PidShape DEF MonitorTypeOK
  <2>4. Outcome(s) = "acting"
    BY <1>1, <2>1 DEF NoFailure, Outcome
  <2>5. ASSUME NEW status \in {"success", "failed"}, Add(s, status)
        PROVE  Promise!ActEnds(s)
    <3>1. status \in Statuses /\ results'[s] = Append(results[s], status)
      BY <1>1, <2>1, <2>5, AddReports DEF Statuses
    <3>2. Outcome(s)' = status
      BY <1>1, <2>1, <3>1, FirstStatus
    <3>3. ASSUME NEW t \in Services, t # s PROVE UNCHANGED Outcome(t)
      <4>1. results'[t] = results[t]
        BY <1>1, <2>5, <3>1, <3>3, AddReports
      <4> QED
        BY <1>1, <2>2, <2>3, <3>3, <4>1, SameOutcome DEF Waiting
    <3> QED
      BY <1>1, <1>2, <2>4, <3>2, <3>3, GetsOn DEF Promise!ActEnds, Stage, FirstStage
  <2> QED
    BY <2>2, <2>5
<1>4. CASE c \notin children
  <2>1. UNCHANGED <<enabled, results>>
    BY <1>4 DEF ChildExited
  <2>2. c = Probe(s) /\ results[s] # <<>>
    BY <1>1, <1>4 DEF InOrder, Accounted, QueueKnown, FirstStage, Reported
  <2>3. UNCHANGED Outcome(s)
    BY <1>1, <2>1, <2>2 DEF Outcome
  <2>4. ASSUME NEW t \in Services, t # s PROVE UNCHANGED Outcome(t)
    <3>1. os'[Probe(t)] = os[Probe(t)] /\ os'[Act(t)] = os[Act(t)]
      BY <1>1, <2>2, <2>4, PidShape DEF MonitorTypeOK
    <3> QED
      BY <1>1, <2>1, <3>1, SameOutcome DEF Waiting
  <2> QED
    BY <1>2, <2>3, <2>4, Nothing
<1> QED
  BY <1>3, <1>4

\* The sweep tells a child to terminate: its service gets its outcome there and then.
LEMMA HangingConcludes ==
  ASSUME InOrder, NoFailure, NEW c \in Pids, ChildHangs(c)
  PROVE  Promise!ProbeEnds(c[2]) \/ Promise!ActEnds(c[2])
<1> DEFINE s == c[2]
<1>1. /\ c \in Live \ sigterm /\ step = "sweep" /\ Awaiting
      /\ UNCHANGED <<os, action, enabled, pc, todo, faults>>
  BY DEF ChildHangs, Kill, KillFails, Fault, NoFailure, NoFault, faultVars, selectionVars
<1>2. /\ s \in Services /\ results[s] = <<>> /\ action[s] \in {"stop", "restart"}
      /\ os[c] # "none" /\ os[c] # "reaped" /\ results \in [Services -> Seq(Statuses)]
  BY <1>1, ChildHasAction DEF InOrder, IInv, TypeOK, TableInv, OpenInv, Live
<1>3. UNCHANGED Stage /\ Stage = IF pc = "awaitProbe" THEN "probing" ELSE "acting"
  BY <1>1 DEF NoFailure, Stage, FirstStage, Awaiting
<1>4. ASSUME NEW status \in Statuses, Add(s, status)
      PROVE  Outcome(s)' = status /\ \A t \in Services : t # s => UNCHANGED Outcome(t)
  <2>1. Outcome(s)' = status
    BY <1>1, <1>2, <1>4, AddReports, FirstStatus
  <2>2. ASSUME NEW t \in Services, t # s PROVE UNCHANGED Outcome(t)
    <3>1. results'[t] = results[t]
      BY <1>2, <1>4, <2>2, AddReports
    <3> QED
      BY <1>1, <2>2, <3>1, SameOutcome DEF Waiting
  <2> QED
    BY <2>1, <2>2
<1>5. CASE pc = "awaitProbe"
  <2>1. Add(s, "probing_failed") /\ "probing_failed" \in Statuses
    BY <1>5 DEF ChildHangs, Hanging, Statuses
  <2>2. c = Probe(s) /\ os[Act(s)] = "none" /\ s \notin enabled
    BY <1>1, <1>2, <1>5, PidShape
    DEF InOrder, IInv, StageInv, EnabledInv, Waiting, Live
  <2>3. Outcome(s) = "probing"
    BY <1>2, <1>5, <2>2 DEF NoFailure, Outcome
  <2> QED
    BY <1>2, <1>3, <1>4, <1>5, <2>1, <2>3, GetsOn DEF Promise!ProbeEnds, Stage, FirstStage
<1>6. CASE pc = "awaitAct"
  <2>1. Add(s, "failed") /\ "failed" \in Statuses
    BY <1>6 DEF ChildHangs, Hanging, Statuses
  <2>2. c = Act(s)
    BY <1>1, <1>2, <1>6, PidShape DEF InOrder, IInv, StageInv, Live
  <2>3. Outcome(s) = "acting"
    BY <1>2, <1>6, <2>2 DEF NoFailure, Outcome
  <2> QED
    BY <1>2, <1>3, <1>4, <1>6, <2>1, <2>3, GetsOn DEF Promise!ActEnds, Stage, FirstStage
<1> QED
  BY <1>1, <1>5, <1>6 DEF Awaiting

\* After a complete sweep every child of the stage was reaped or reported.
LEMMA SweepConcludes ==
  ASSUME InOrder, NoFailure, step = "returned", pc \in {"awaitProbe", "awaitAct"},
         NEW s \in Services
  PROVE  /\ Outcome(s) \in Promise!Concluded \cup {"enabled"}
         /\ pc = "awaitAct" => Outcome(s) \in Promise!Concluded
<1>1. /\ MonitorTypeOK /\ results \in [Services -> Seq(Statuses)] /\ todo = {}
      /\ (pc = "awaitAct" => enabled = {})
  BY DEF InOrder, IInv, TypeOK, StageInv, Awaiting
<1>2. CASE results[s] # <<>>
  <2>1. results[s] \in Seq(Statuses)
    BY <1>1
  <2>2. Head(results[s]) \in Statuses
    BY <1>2, <2>1
  <2> QED
    BY <1>2, <2>2 DEF NoFailure, Outcome, Promise!Concluded, Statuses
<1>3. CASE results[s] = <<>>
  <2>1. ASSUME NEW c \in Pids, c[2] = s PROVE os[c] \in {"none", "reaped"}
    <3>1. c \notin sigterm
      BY <1>3, <2>1 DEF InOrder, Reported
    <3>2. c \in children => os[c] = "reaped"
      BY <3>1 DEF InOrder, IInv, TableInv, Accounted, SweepComplete, Live
    <3> QED
      BY <3>1, <3>2 DEF InOrder, Accounted, ChildrenKnown
  <2>2. os[Act(s)] = "none" /\ os[Probe(s)] \in {"none", "reaped"}
    BY <1>3, <2>1, PidShape DEF InOrder, Reported
  <2> QED
    BY <1>1, <1>3, <2>2 DEF NoFailure, Outcome, Promise!Concluded
<1> QED
  BY <1>2, <1>3

LEMMA ProceedProceeds ==
  ASSUME InOrder, NoFailure, Proceed
  PROVE  Promise!Proceed
<1>1. /\ pc = "awaitProbe" /\ pc' = "act" /\ step = "returned" /\ todo = {} /\ todo' = enabled
      /\ enabled' = {} /\ UNCHANGED <<os, ending, action, results, faults>>
  BY DEF Proceed, Clear, NoFault, faultVars, selectionVars, kernelVars, InOrder, Awaiting
<1>2. \A s \in Services : Outcome(s) \in Promise!Concluded \cup {"enabled"}
  BY <1>1, SweepConcludes
<1>3. ASSUME NEW s \in Services PROVE UNCHANGED Outcome(s)
  <2>1. os[Probe(s)] = "none" => s \notin enabled
    BY DEF InOrder, IInv, EnabledInv, Waiting
  <2> QED
    BY <1>1, <2>1, SameOutcome DEF Waiting
<1> QED
  BY <1>1, <1>2, <1>3 DEF NoFailure, Promise!Proceed, FirstStage

LEMMA ReturnReturns ==
  ASSUME InOrder, NoFailure, Return
  PROVE  Promise!Return
<1>1. /\ pc = "awaitAct" /\ pc' = "done" /\ step = "returned"
      /\ UNCHANGED <<os, ending, action, results, enabled, todo, faults>>
  BY DEF Return, Clear, NoFault, faultVars, selectionVars, kernelVars
<1>2. \A s \in Services : Outcome(s) \in Promise!Concluded
  BY <1>1, SweepConcludes
<1>3. ASSUME NEW s \in Services PROVE UNCHANGED Outcome(s)
  BY <1>1, SameOutcome DEF Waiting
<1> QED
  BY <1>1, <1>2, <1>3 DEF NoFailure, Promise!Return, FirstStage

\* Create goes through the selection; no service has a child or an outcome yet.
LEMMA CreateIsSilent ==
  ASSUME InOrder, NoFailure, Create
  PROVE  UNCHANGED Promise!vars
<1>1. /\ pc = "create" /\ pc' = "probe" /\ todo' = Selected /\ enabled = {}
      /\ UNCHANGED <<os, action, enabled, results, faults>>
  BY DEF Create, NoFault, faultVars, selectionVars, monitorVars, kernelVars,
         InOrder, IInv, StageInv
<1>2. ASSUME NEW s \in Services PROVE UNCHANGED Outcome(s)
  BY <1>1, SameOutcome DEF Waiting
<1>3. UNCHANGED Stage
  BY <1>1 DEF Stage, FirstStage
<1> QED
  BY <1>2, <1>3, Nothing

\* Steps of the clock, of a child that ends, of the loop of await.
LEMMA OthersAreSilent ==
  ASSUME InOrder, UNCHANGED <<selectionVars, todo, enabled, results, faults>>,
         \/ UNCHANGED <<os, pc>>
         \/ UNCHANGED os /\ pc = "probe" /\ pc' = "awaitProbe"
         \/ UNCHANGED os /\ pc = "act" /\ pc' = "awaitAct" /\ todo = {}
         \/ KernelChild
  PROVE  UNCHANGED Promise!vars
<1>1. ASSUME NEW s \in Services
      PROVE  /\ os'[Act(s)] = "none" <=> os[Act(s)] = "none"
             /\ os'[Probe(s)] = "none" <=> os[Probe(s)] = "none"
             /\ os'[Probe(s)] = "reaped" <=> os[Probe(s)] = "reaped"
  <2>1. CASE KernelChild
    BY <2>1, PidShape DEF KernelChild, ChildEnds, InOrder, IInv, TypeOK, MonitorTypeOK
  <2> QED
    BY <2>1
<1>2. pc' = pc \/ (pc = "probe" /\ pc' = "awaitProbe")
      \/ (pc = "act" /\ pc' = "awaitAct" /\ todo = {})
  BY DEF KernelChild, handlerVars
<1>3. ASSUME NEW s \in Services PROVE UNCHANGED Outcome(s)
  BY <1>1, <1>2, SameOutcome DEF selectionVars, Waiting
<1>4. UNCHANGED Stage
  BY <1>2 DEF Stage, FirstStage
<1> QED
  BY <1>3, <1>4, Nothing

-----------------------------------------------------------------------------
(* The refinement *)

PromiseStep == Promise!Next \/ Promise!Break \/ UNCHANGED Promise!vars

LEMMA InitIsPromised == Init => Promise!Init
<1> SUFFICES ASSUME Init PROVE Promise!Init
  OBVIOUS
<1>1. \A s \in Services : Outcome(s) = IF action[s] = "absent" THEN "unselected" ELSE "pending"
  BY PidShape DEF Init, MonitorInit, HandlerInit, Outcome
<1> QED
  BY <1>1 DEF Init, HandlerInit, Promise!Init

LEMMA StepIsPromised ==
  IInv /\ AccountInv /\ ReportInv /\ [Next]_vars => PromiseStep
<1> SUFFICES ASSUME IInv, AccountInv, ReportInv, [Next]_vars PROVE PromiseStep
  OBVIOUS
<1>0. faults \in Nat /\ faults' \in Nat /\ faults' >= faults
  BY MaxFaultsAssumption, StepGrows DEF IInv, TypeOK, HistoryGrows
<1>1. CASE faults' > 0
  BY <1>0, <1>1, Breaks, FailsInStages DEF PromiseStep
<1>2. CASE faults' = 0
  <2>0. NoFailure /\ InOrder
    BY <1>0, <1>2 DEF NoFailure, InOrder, AccountInv, FaultFreeInv, ReportInv, Awaiting
  <2> USE DEF PromiseStep
  <2>1. CASE Create
    BY <2>0, <2>1, CreateIsSilent
  <2>2. CASE CreateFails
    BY <1>0, <1>2, <2>2 DEF CreateFails, Fault
  <2>3. ASSUME NEW s \in Services, SkipBlocked(s) PROVE PromiseStep
    BY <2>0, <2>3, SkipBlockedBlocks DEF Promise!Next
  <2>4. ASSUME NEW s \in Services, StartProbe(s) PROVE PromiseStep
    BY <2>0, <2>4, StartProbeProbes DEF Promise!Next
  <2>5. ASSUME NEW s \in Services, StartAct(s) PROVE PromiseStep
    BY <2>0, <2>5, StartActActs DEF Promise!Next
  <2>6. ASSUME NEW s \in Services, StartProbeFails(s) \/ StartActFails(s) PROVE PromiseStep
    BY <1>0, <1>2, <2>6 DEF StartProbeFails, StartActFails, Fault
  <2>7. ASSUME NEW c \in Pids, ChildExited(c) PROVE PromiseStep
    <3>1. c[2] \in Services /\ Awaiting
      BY <2>7, PidShape DEF ChildExited
    <3> QED
      BY <2>0, <2>7, <3>1, ProbeAnswers, ActAnswers DEF Promise!Next, Awaiting
  <2>8. ASSUME NEW c \in Pids, ChildHangs(c) PROVE PromiseStep
    <3>1. c[2] \in Services
      BY PidShape
    <3> QED
      BY <2>0, <2>8, <3>1, HangingConcludes DEF Promise!Next
  <2>9. CASE Proceed
    BY <2>0, <2>9, ProceedProceeds DEF Promise!Next
  <2>10. CASE Return
    BY <2>0, <2>10, ReturnReturns DEF Promise!Next
  <2>11. CASE AwaitProbes \/ AwaitActs
    <3>1. /\ UNCHANGED <<selectionVars, todo, enabled, results, faults, os>>
          /\ \/ pc = "probe" /\ pc' = "awaitProbe"
             \/ pc = "act" /\ pc' = "awaitAct" /\ todo = {}
      BY <2>11 DEF AwaitProbes, AwaitActs, Await, NoFault, faultVars, kernelVars
    <3> QED
      BY <2>0, <3>1, OthersAreSilent
  <2>12. CASE AwaitLoop \/ AwaitEnds \/ AwaitReturns \/ Clock \/ UNCHANGED vars
    <3>1. UNCHANGED <<selectionVars, todo, enabled, results, faults, os, pc>>
      BY <1>0, <1>2, <2>12
      DEF AwaitLoop, Check, AwaitEnds, WaitTimesOut, WaitFails, Fault, AwaitReturns,
          SweepEnds, Clock, Tick, NoFault, faultVars, handlerVars, kernelVars,
          monitorVars, vars
    <3> QED
      BY <2>0, <3>1, OthersAreSilent
  <2>13. CASE KernelChild
    <3>1. UNCHANGED <<selectionVars, todo, enabled, results, faults>>
      BY <2>13 DEF KernelChild, handlerVars, faultVars
    <3> QED
      BY <2>0, <2>13, <3>1, OthersAreSilent
  <2> QED
    BY <2>1, <2>2, <2>3, <2>4, <2>5, <2>6, <2>7, <2>8, <2>9, <2>10, <2>11, <2>12,
       <2>13 DEF Next, Handler
<1> QED
  BY <1>0, <1>1, <1>2

\* Until a call fails, each service goes through the two stages of the promise,
\* one move at a time, and ends with one outcome: services_selection_handle
\* implements ServiceOutcomes, but for the fairness of the latter.
THEOREM ImplementsThePromise ==
  Spec => Promise!Init /\ [][Promise!Next \/ Promise!Break]_(Promise!vars)
<1>1. Init => ReportInv
  BY PidShape DEF Init, MonitorInit, HandlerInit, ReportInv, Reported
<1>2. IInv /\ AccountInv /\ ReportInv /\ UNCHANGED vars => ReportInv'
  BY StepReportInv
<1>3. Spec => []ReportInv
  BY <1>1, <1>2, StepReportInv, InductiveInvariant, AccountsAreKept, PTL DEF Spec
<1>4. IInv /\ AccountInv /\ ReportInv /\ [Next]_vars =>
        [Promise!Next \/ Promise!Break]_(Promise!vars)
  BY StepIsPromised DEF PromiseStep
<1>5. Init => Promise!Init
  BY InitIsPromised
<1> QED
  BY <1>3, <1>4, <1>5, InductiveInvariant, AccountsAreKept, PTL DEF Spec
=============================================================================

----------------------- MODULE MCServiceRunnerAndTable -----------------------
(***************************************************************************)
(* The handler of a selection, and a hash table as those it keeps services *)
(* and children in: two instances that share no state, in one run.  The    *)
(* table is used once the handler gave up, for want of memory, with an     *)
(* empty selection: a state that is reached in one way, and that the       *)
(* handler does not leave.  The actions of Handler and of HashNext are     *)
(* named one by one, so that TLC counts each.                              *)
(***************************************************************************)
EXTENDS MCServiceRunner, MCHashTable

OfRunner == UNCHANGED hashVars
OfTable ==
  /\ pc = "null" /\ action = [s \in Services |-> "absent"]
  /\ UNCHANGED vars

BothInit == Init /\ HashInit

BothNext ==
  \/ Create /\ OfRunner
  \/ CreateFails /\ OfRunner
  \/ \E s \in Services : SkipBlocked(s) /\ OfRunner
  \/ \E s \in Services : StartProbe(s) /\ OfRunner
  \/ \E s \in Services : StartProbeFails(s) /\ OfRunner
  \/ \E s \in Services : StartAct(s) /\ OfRunner
  \/ \E s \in Services : StartActFails(s) /\ OfRunner
  \/ AwaitProbes /\ OfRunner
  \/ Proceed /\ OfRunner
  \/ AwaitActs /\ OfRunner
  \/ Return /\ OfRunner
  \/ AwaitLoop /\ OfRunner
  \/ AwaitEnds /\ OfRunner
  \/ AwaitReturns /\ OfRunner
  \/ \E pid \in Pids : ChildExited(pid) /\ OfRunner
  \/ \E pid \in Pids : ChildHangs(pid) /\ OfRunner
  \/ KernelChild /\ OfRunner
  \/ Clock /\ OfRunner
  \/ OfTable /\ \E k \in Keys, v \in Values : PutNew(k, v)
  \/ OfTable /\ \E k \in Keys, v \in Values : PutExisting(k, v)
  \/ OfTable /\ \E k \in Keys : DeleteKey(k)
  \/ OfTable /\ ClearTable
  \/ OfTable /\ IteratorFirst
  \/ OfTable /\ IteratorNext
  \/ OfTable /\ DeleteNode
  \/ OfTable /\ IteratorClose

BothSpec == BothInit /\ [][BothNext]_<<vars, hashVars>> /\ Fairness
=============================================================================

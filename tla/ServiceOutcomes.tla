-------------------------- MODULE ServiceOutcomes --------------------------
(***************************************************************************)
(* What services_selection_handle promises when no system call fails: the  *)
(* selected services are handled in two stages.  In the first one each     *)
(* service is either refused by the blocklist or probed ("service X        *)
(* enabled").  Once every probe is over, the services that were found      *)
(* enabled are acted on ("service X stop" or "service X restart").  Every  *)
(* service ends with exactly one outcome and the call always returns.      *)
(***************************************************************************)

CONSTANT Services

VARIABLES stage, outcome

vars == <<stage, outcome>>

Concluded == {"unselected", "blocked", "disabled", "probing_failed",
              "success", "failed"}

Init ==
  /\ stage = "probing"
  /\ outcome \in [Services -> {"unselected", "pending"}]

Move(s, from, to) ==
  /\ outcome[s] = from
  /\ outcome' = [outcome EXCEPT ![s] = to]
  /\ UNCHANGED stage

Block(s) == stage = "probing" /\ Move(s, "pending", "blocked")

Probe(s) == stage = "probing" /\ Move(s, "pending", "probing")

ProbeEnds(s) ==
  /\ stage = "probing"
  /\ \E answer \in {"enabled", "disabled", "probing_failed"} :
        Move(s, "probing", answer)

Act(s) == stage = "acting" /\ Move(s, "enabled", "acting")

ActEnds(s) ==
  /\ stage = "acting"
  /\ \E answer \in {"success", "failed"} : Move(s, "acting", answer)

\* The second stage starts when no probe is under way any more.
Proceed ==
  /\ stage = "probing"
  /\ \A s \in Services : outcome[s] \in Concluded \cup {"enabled"}
  /\ stage' = "acting"
  /\ UNCHANGED outcome

Return ==
  /\ stage = "acting"
  /\ \A s \in Services : outcome[s] \in Concluded
  /\ stage' = "over"
  /\ UNCHANGED outcome

\* A system call failed: nothing is promised from then on.
Break ==
  /\ stage \in {"probing", "acting"}
  /\ stage' = "broken"
  /\ outcome' = [s \in Services |-> "unknown"]

Next ==
  \/ \E s \in Services : \/ Block(s) \/ Probe(s) \/ ProbeEnds(s)
                         \/ Act(s)   \/ ActEnds(s)
  \/ Proceed
  \/ Return

\* Nobody has to fail.
Spec == Init /\ [][Next \/ Break]_vars /\ WF_vars(Next)

=============================================================================

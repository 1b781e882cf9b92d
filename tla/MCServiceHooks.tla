--------------------------- MODULE MCServiceHooks ---------------------------
(***************************************************************************)
(* A small system for ServiceHooks: two packages with a service each, the  *)
(* service of "app" linked to a library of "lib", a third service that     *)
(* belongs to "app" too and is in the blocklist, and one of the base       *)
(* system.                                                                 *)
(***************************************************************************)
EXTENDS ServiceHooks

CONSTANTS web, panel, agent, cron, app, lib, base

MCServices == {web, panel, agent, cron}
MCPackages == {app, lib}
MCOwner == [s \in MCServices |-> IF s = cron THEN base ELSE IF s = agent THEN lib ELSE app]
MCUses == [s \in MCServices |-> IF s \in {agent, cron} THEN {} ELSE {lib}]
MCBlocklist == {panel}

\* A bound: at first, either all services run or none does.
MCHookInit == HookInit /\ up \in {{}, Present(installed)}

MCHookSpec == MCHookInit /\ [][HookNext]_hookVars
=============================================================================

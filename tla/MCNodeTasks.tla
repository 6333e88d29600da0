---------------------------- MODULE MCNodeTasks ----------------------------
(***************************************************************************)
(* Instances of NodeTasks for TLC.  One tick is a quarter of an hour, as   *)
(* far as the constants go: a role install has two of them, Stale is       *)
(* three; a request takes less than a tick.                                *)
(***************************************************************************)
EXTENDS NodeTasks

CONSTANTS m1, m2

\* A daemon and an `odm-agent apply` on the same machine.
SameHost == [w \in Worker |-> m1]

\* A machine of its own for the process w2.
TwoHosts == [w \in Worker |-> IF w = "w2" THEN m2 ELSE m1]

\* timeoutFor in ticks.
Limits == [k \in Kind |-> IF k = "role-install" THEN 2 ELSE 1]

=============================================================================

----------------------------- MODULE TaskQueue -----------------------------
(***************************************************************************)
(* What the task queue promises the rest of the control plane, without     *)
(* polls, messages, clocks or passwords: a row is queued for a machine,    *)
(* taken in turn, and ends once, by a report of its machine or because it  *)
(* grew too old.  NodeTasks implements it (NodeTasksProofs); the           *)
(* modules about what waits for tasks are built on it.                     *)
(***************************************************************************)
EXTENDS Integers

CONSTANTS Machine, Kind, MaxTasks

VARIABLES state, node, kind

qvars    == <<state, node, kind>>
Id       == 1 .. MaxTasks
Live     == {"pending", "claimed"}

Init ==
  /\ state = [i \in Id |-> "none"]
  /\ node = [i \in Id |-> CHOOSE m \in Machine : TRUE]
  /\ kind = [i \in Id |-> CHOOSE k \in Kind : TRUE]

\* tasks.enqueue
Add(i, m, k) ==
  /\ state[i] = "none"
  /\ \A j \in Id : j < i => state[j] # "none"
  /\ state' = [state EXCEPT ![i] = "pending"]
  /\ node' = [node EXCEPT ![i] = m]
  /\ kind' = [kind EXCEPT ![i] = k]

\* tasks.claim: the oldest pending row of its machine.
Take(i) ==
  /\ state[i] = "pending"
  /\ \A j \in Id : j < i /\ node[j] = node[i] => state[j] # "pending"
  /\ state' = [state EXCEPT ![i] = "claimed"]
  /\ UNCHANGED <<node, kind>>

\* tasks.finish, when it finds the row claimed.
Finish(i, ok) ==
  /\ state[i] = "claimed"
  /\ state' = [state EXCEPT ![i] = IF ok THEN "done" ELSE "failed"]
  /\ UNCHANGED <<node, kind>>

\* The first statement of tasks.reap: among pending rows the older go first.
Expire(S) ==
  /\ S # {} /\ \A i \in S : state[i] \in Live
  /\ \A j \in S, i \in Id : i < j /\ state[i] = "pending" /\ state[j] = "pending" => i \in S
  /\ state' = [i \in Id |-> IF i \in S THEN "failed" ELSE state[i]]
  /\ UNCHANGED <<node, kind>>

Next ==
  \/ \E i \in Id, m \in Machine, k \in Kind : Add(i, m, k)
  \/ \E i \in Id : Take(i)
  \/ \E i \in Id, ok \in BOOLEAN : Finish(i, ok)
  \/ \E S \in SUBSET Id : Expire(S)

Spec == Init /\ [][Next]_qvars

=============================================================================

---------------------------- MODULE ServerRoles ----------------------------
(***************************************************************************)
(* Server roles (table server_role) and the tasks they wait for: the       *)
(* console's handlers of api/odm/routes_roles.py, the second halves of     *)
(* agent_task_result and tasks.reap, and each machine's serial agent.      *)
(*                                                                         *)
(* Every handler runs its SQL statements one by one on an autocommitting   *)
(* connection, so each statement is a step of its own and the control      *)
(* plane may stop between any two.  Queue and agents are TaskAgent.        *)
(***************************************************************************)
EXTENDS Integers, FiniteSets

CONSTANTS Machine,     \* machines with an agent
          Role,        \* rows of server_role: a role on a machine
          NodeOf,      \* the machine of each
          Request,     \* console requests that may be in progress at once
          Sleepers,    \* machines whose agent may be suspended past Stale
          MaxTasks,    \* bound: tasks ever queued
          MaxFaults,   \* bound: agent deaths and lost answers
          MaxCuts      \* bound: stops of the control plane

Kind == {"role-install", "role-remove"}

ASSUME RoleAssumption == /\ Role # {} /\ Machine # {}
                         /\ NodeOf \in [Role -> Machine]
                         /\ Sleepers \subseteq Machine
ASSUME CountAssumption == MaxTasks \in Nat /\ MaxFaults \in Nat /\ MaxCuts \in Nat

VARIABLES
  state, node, kind,   \* node_task, as in TaskQueue
  subject,   \* node_task.subject: the row of server_role a task is for
  role,      \* server_role.state ("none": no row)
  op,        \* where each console request is, and for which row
  held,      \* the task each machine's agent is on, 0 for none
  answers,   \* results recorded by finish, the row not updated yet
  released,  \* tasks failed by reap, the row not updated yet
  said,      \* history: the row's state as its machine's last report has it
  cut,       \* history: rows whose handler the control plane lost midway
  faults, cuts

agent == <<state, node, kind, held, answers, faults>>
vars  == <<agent, subject, role, op, released, said, cut, cuts>>

Agent == INSTANCE TaskAgent

Id   == Agent!Id
Live == Agent!Live

\* Where a request can be between two statements.
Doing == {"idle", "enqueue-install", "enqueue-remove", "mark-removing", "deregister"}
Idle(r) == [pc |-> "idle", row |-> r, task |-> 0]
AnyRole == CHOOSE r \in Role : TRUE

Init ==
  /\ Agent!Init
  /\ subject = [i \in Id |-> AnyRole]
  /\ role = [r \in Role |-> "none"]
  /\ op = [p \in Request |-> Idle(AnyRole)]
  /\ released = {}
  /\ said = [r \in Role |-> "none"]
  /\ cut = {} /\ cuts = 0

-----------------------------------------------------------------------------
(* The console: install and remove_instance.                               *)

At(p, where, r) == op' = [op EXCEPT ![p] = [pc |-> where, row |-> r, task |-> 0]]

\* The bound MaxTasks leaves a row for every task a request has yet to queue.
Room == Cardinality({p \in Request : op[p].pc \in {"enqueue-install", "enqueue-remove"}})
          < Cardinality({i \in Id : state[i] = "none"})

\* install: the row is written first, whatever it said before.
Install(p, r) ==
  /\ op[p].pc = "idle" /\ Room
  /\ role' = [role EXCEPT ![r] = "installing"]
  /\ At(p, "enqueue-install", r)
  /\ UNCHANGED <<agent, subject, released, said, cut, cuts>>

\* enqueue a task for the row request p is about, which goes on to next.
Queue(p, k, next) ==
  \E i \in Id : /\ Agent!Q!Add(i, NodeOf[op[p].row], k)
                /\ subject' = [subject EXCEPT ![i] = op[p].row]
                /\ op' = [op EXCEPT ![p] = [@ EXCEPT !.pc = next, !.task = i]]

EnqueueInstall(p) ==
  /\ op[p].pc = "enqueue-install"
  /\ Queue(p, "role-install", "idle")
  /\ UNCHANGED <<held, answers, faults, role, released, said, cut, cuts>>

\* remove_instance: the row is read, and what it says then decides.
Remove(p, r) ==
  /\ op[p].pc = "idle" /\ role[r] # "none"
  /\ role[r] = "active" => Room
  /\ At(p, IF role[r] = "active" THEN "enqueue-remove" ELSE "deregister", r)
  /\ UNCHANGED <<agent, subject, role, released, said, cut, cuts>>

EnqueueRemove(p) ==
  /\ op[p].pc = "enqueue-remove"
  /\ Queue(p, "role-remove", "mark-removing")
  /\ UNCHANGED <<held, answers, faults, role, released, said, cut, cuts>>

MarkRemoving(p) ==
  /\ op[p].pc = "mark-removing"
  /\ role' = [role EXCEPT ![op[p].row] = "removing"]
  /\ At(p, "idle", op[p].row)
  /\ UNCHANGED <<agent, subject, released, said, cut, cuts>>

Deregister(p) ==
  /\ op[p].pc = "deregister"
  /\ role' = [role EXCEPT ![op[p].row] = "removed"]
  /\ At(p, "idle", op[p].row)
  /\ UNCHANGED <<agent, subject, released, said, cut, cuts>>

-----------------------------------------------------------------------------
(* The agent of a machine, one task at a time, and its reports.            *)

\* Mutant: the task's own state is written to the role.
OutcomeOfTask(i, ok) == IF ok THEN "done" ELSE "failed"

\* What a report makes of the row.
Outcome(i, ok) ==
  IF kind[i] = "role-install" THEN IF ok THEN "active" ELSE "failed"
                              ELSE IF ok THEN "removed" ELSE "active"

\* agent_task_result, first statement: finish.
Report(m, ok) ==
  /\ Agent!Report(m, ok)
  /\ said' = [said EXCEPT ![subject[held[m]]] = Outcome(held[m], ok)]
  /\ UNCHANGED <<subject, role, op, released, cut, cuts>>

\* agent_task_result, second statement.
Settle(a) ==
  /\ Agent!Answered(a)
  /\ role' = [role EXCEPT ![subject[a.task]] = Outcome(a.task, a.ok)]
  /\ UNCHANGED <<subject, op, released, said, cut, cuts>>

\* What the agent does that leaves the control plane's rows alone.
AgentStep ==
  /\ \/ \E m \in Machine, i \in Id : Agent!Collect(m, i)
     \/ \E i \in Id : Agent!CollectLost(i)
     \/ \E m \in Machine : Agent!Refused(m) \/ Agent!AgentDies(m)
  /\ UNCHANGED <<subject, role, op, released, said, cut, cuts>>

-----------------------------------------------------------------------------
(* reap, and the control plane stopping.                                   *)

\* reap, first statement.  A request is over long before a task it queued
\* is stale.
Reap(S) ==
  /\ Agent!Reap(S)
  /\ \A p \in Request : op[p].pc # "idle" => op[p].task \notin S
  /\ released' = released \cup S
  /\ UNCHANGED <<subject, role, op, said, cut, cuts>>

\* Mutants: reap releases nothing; reap takes a lost removal for one that
\* failed.
ReleaseNothing(i) ==
  /\ i \in released
  /\ released' = released \ {i}
  /\ UNCHANGED <<agent, subject, role, op, said, cut, cuts>>
ReleaseRemovals(i) ==
  /\ i \in released
  /\ released' = released \ {i}
  /\ role' = [role EXCEPT ![subject[i]] =
                IF kind[i] = "role-remove" THEN "active"
                ELSE IF @ = "installing" THEN "failed" ELSE @]
  /\ UNCHANGED <<agent, subject, op, said, cut, cuts>>

\* reap's second statement for one task: only an install lets go of its row.
Release(i) ==
  /\ i \in released
  /\ released' = released \ {i}
  /\ role' = IF kind[i] = "role-install" /\ role[subject[i]] = "installing"
             THEN [role EXCEPT ![subject[i]] = "failed"]
             ELSE role
  /\ UNCHANGED <<agent, subject, op, said, cut, cuts>>

\* The control plane stops and every handler in progress with it.
Cut ==
  /\ cuts < MaxCuts /\ cuts' = cuts + 1
  /\ cut' = cut \cup {op[p].row : p \in {q \in Request : op[q].pc # "idle"}}
                \cup {subject[a.task] : a \in answers} \cup {subject[i] : i \in released}
  /\ op' = [p \in Request |-> Idle(op[p].row)]
  /\ Agent!HandlersStop
  /\ released' = {}
  /\ UNCHANGED <<subject, role, said>>

Next ==
  \/ \E p \in Request :
       \/ \E r \in Role : Install(p, r) \/ Remove(p, r)
       \/ EnqueueInstall(p) \/ EnqueueRemove(p) \/ MarkRemoving(p) \/ Deregister(p)
  \/ AgentStep
  \/ \E m \in Machine, ok \in BOOLEAN : Report(m, ok)
  \/ \E a \in answers : Settle(a)
  \/ \E i \in Id : Release(i)
  \/ \E S \in SUBSET Id : Reap(S)
  \/ Cut

Spec == Init /\ [][Next]_vars

\* A handler that has begun goes on to its next statement; an agent collects,
\* runs and reports; and reap comes round to every task that is left over,
\* since any machine's poll and any look at the roles page reaps for all.
Fairness ==
  /\ \A p \in Request : WF_vars(EnqueueInstall(p) \/ EnqueueRemove(p)
                                \/ MarkRemoving(p) \/ Deregister(p))
  /\ \A m \in Machine :
       /\ WF_vars(\E ok \in BOOLEAN : Report(m, ok))
       /\ WF_vars(AgentStep /\ (Agent!Refused(m) \/ \E i \in Id : Agent!Collect(m, i)))
  /\ WF_vars(\E a \in answers : Settle(a))
  /\ WF_vars(\E i \in Id : Release(i))
  /\ WF_vars(\E S \in SUBSET Id : Reap(S))

FairSpec == Spec /\ Fairness

-----------------------------------------------------------------------------
(* Properties.                                                             *)

\* Rows, tasks and handlers keep their types.
TypeOK ==
  /\ Agent!TypeOK
  /\ subject \in [Id -> Role]
  /\ role \in [Role -> {"none", "installing", "active", "failed", "removing", "removed"}]
  /\ op \in [Request -> [pc : Doing, row : Role, task : 0 .. MaxTasks]]
  /\ released \subseteq Id
  /\ said \in [Role -> {"none", "active", "failed", "removed"}]
  /\ cut \subseteq Role /\ cuts \in 0 .. MaxCuts

\* A task for row r of one of the kinds K whose end is still to reach the row.
Outstanding(r, K) ==
  \E i \in Id : /\ subject[i] = r /\ kind[i] \in K
                /\ \/ state[i] \in Live
                   \/ \E a \in answers : a.task = i
                   \/ i \in released

Quiet(r) == /\ ~ Outstanding(r, Kind)
            /\ \A p \in Request : op[p].pc = "idle" \/ op[p].row # r

\* A role that says "installing" is being installed: an install task of its is
\* live, or its end is on the way to the row, or install is about to queue one
\* - unless the control plane stopped in the middle of a handler of that row.
\* However requests, reports and reap interleave, no row is left saying it.
InstallingIsWaitedFor ==
  \A r \in Role : role[r] = "installing" =>
    \/ Outstanding(r, {"role-install"})
    \/ \E p \in Request : op[p].pc = "enqueue-install" /\ op[p].row = r
    \/ r \in cut

\* When nothing is under way for a role, it says "active" only if that is what
\* its machine last reported: results are applied in the order the machine
\* reported them, though record and row are two statements (unless the control
\* plane stopped between the two).
ActiveIsLastReport ==
  \A r \in Role \ cut : role[r] = "active" /\ Quiet(r) => said[r] = "active"

\* An install ends: "installing" gives way to active, failed or removed, with
\* agents dying and answers lost, unless the control plane stopped in the
\* middle of a handler of that row.
EveryInstallEnds ==
  \A r \in Role : role[r] = "installing" ~> role[r] # "installing" \/ r \in cut

\* "The record goes to "removing" and to "removed" when the node reports back"
\* (remove_instance): once the machine's last report is that the role is gone
\* and nothing is under way, the row does not say "removing".
RemovedIsRecorded ==
  \A r \in Role : role[r] = "removing" /\ Quiet(r) => said[r] # "removed"

=============================================================================

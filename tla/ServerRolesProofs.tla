-------------------------- MODULE ServerRolesProofs --------------------------
(***************************************************************************)
(* For any machines, roles and requests, any number of tasks, deaths, lost *)
(* answers and stops of the control plane: what a role's row says while    *)
(* its tasks are under way, and when they are through.                     *)
(***************************************************************************)
EXTENDS ServerRoles, TLAPS

\* A task is its row's and runs on its row's machine.  A result that waits to
\* be applied is that of the task its machine's agent is still on, so that a
\* row has one at most.
ResultsAreHeld ==
  /\ \A i \in Id : state[i] # "none" => node[i] = NodeOf[subject[i]]
  /\ \A m \in Machine : held[m] # 0 => /\ held[m] \in Id /\ node[held[m]] = m
                                       /\ state[held[m]] \notin {"none", "pending"}
  /\ \A a \in answers : state[a.task] \in {"done", "failed"} /\ held[node[a.task]] = a.task
  /\ \A a, b \in answers : a.task = b.task => a = b
  /\ \A i \in released : state[i] = "failed"

\* No result of row r waits to be applied.
Applied(r) == \A a \in answers : subject[a.task] # r

\* What waits to be applied is the machine's last word, and so is what the row
\* says once it has been.
SaidIsNewest ==
  /\ \A a \in answers : said[subject[a.task]] = Outcome(a.task, a.ok)
  /\ \A r \in Role \ cut : role[r] = "active" /\ Applied(r) => said[r] = "active"

IInv == TypeOK /\ ResultsAreHeld /\ SaidIsNewest /\ InstallingIsWaitedFor

LEMMA Ids == Id = 1 .. MaxTasks /\ Id \subseteq 0 .. MaxTasks /\ 0 \in 0 .. MaxTasks /\ 0 \notin Id
  BY CountAssumption DEF CountAssumption, Id, Agent!Id, Agent!Q!Id

LEMMA Lives == Live = {"pending", "claimed"}
  BY DEF Live, Agent!Live, Agent!Q!Live

LEMMA AnyRoleIsOne == AnyRole \in Role
  BY RoleAssumption DEF RoleAssumption, AnyRole

Types ==
  /\ state \in [Id -> {"none", "pending", "claimed", "done", "failed"}]
  /\ node \in [Id -> Machine] /\ kind \in [Id -> Kind]
  /\ held \in [Machine -> 0 .. MaxTasks]
  /\ answers \subseteq [task : Id, ok : BOOLEAN]
  /\ faults \in 0 .. MaxFaults
  /\ subject \in [Id -> Role]
  /\ role \in [Role -> {"none", "installing", "active", "failed", "removing", "removed"}]
  /\ op \in [Request -> [pc : Doing, row : Role, task : 0 .. MaxTasks]]
  /\ released \subseteq Id
  /\ said \in [Role -> {"none", "active", "failed", "removed"}]
  /\ cut \subseteq Role /\ cuts \in 0 .. MaxCuts

LEMMA TypesIsTypeOK == TypeOK <=> Types
  BY DEF TypeOK, Types, Agent!TypeOK, Id, Agent!Id

LEMMA InitTypes == Init => TypeOK
  <1> SUFFICES ASSUME Init PROVE Types
    BY TypesIsTypeOK
  <1>1. (CHOOSE m \in Machine : TRUE) \in Machine /\ (CHOOSE k \in Kind : TRUE) \in Kind
    BY RoleAssumption DEF RoleAssumption, Kind
  <1>2. \A r \in Role : Idle(r) \in [pc : Doing, row : Role, task : 0 .. MaxTasks]
    BY Ids DEF Idle, Doing
  <1> QED BY <1>1, <1>2, AnyRoleIsOne, Ids, CountAssumption
      DEF CountAssumption, Init, Agent!Init, Agent!Q!Init, Types, Id, Agent!Id

-----------------------------------------------------------------------------
(* Types.                                                                  *)

LEMMA AtTypes ==
  ASSUME Types, NEW p \in Request, NEW where \in Doing, NEW r \in Role, At(p, where, r)
  PROVE  op' \in [Request -> [pc : Doing, row : Role, task : 0 .. MaxTasks]]
  <1>1. [pc |-> where, row |-> r, task |-> 0] \in [pc : Doing, row : Role, task : 0 .. MaxTasks]
    BY Ids
  <1> QED BY <1>1 DEF At, Types

\* What queueing a task does, row by row.
Queued(p, i, k, next) ==
  /\ i \in Id /\ state[i] = "none"
  /\ state' = [state EXCEPT ![i] = "pending"]
  /\ node' = [node EXCEPT ![i] = NodeOf[op[p].row]]
  /\ kind' = [kind EXCEPT ![i] = k]
  /\ subject' = [subject EXCEPT ![i] = op[p].row]
  /\ op' = [op EXCEPT ![p] = [op[p] EXCEPT !.pc = next, !.task = i]]

LEMMA QueueIsQueued ==
  ASSUME NEW p \in Request, NEW k, NEW next, Queue(p, k, next)
  PROVE  \E i \in Id : Queued(p, i, k, next)
  BY DEF Queue, Queued, Agent!Q!Add, Id, Agent!Id

LEMMA QueueTypes ==
  ASSUME Types, NEW p \in Request, NEW k \in Kind, NEW next \in Doing, Queue(p, k, next)
  PROVE  /\ state' \in [Id -> {"none", "pending", "claimed", "done", "failed"}]
         /\ node' \in [Id -> Machine] /\ kind' \in [Id -> Kind]
         /\ subject' \in [Id -> Role]
         /\ op' \in [Request -> [pc : Doing, row : Role, task : 0 .. MaxTasks]]
  <1>1. PICK i \in Id : Queued(p, i, k, next)
    BY QueueIsQueued
  <1>2. op[p] \in [pc : Doing, row : Role, task : 0 .. MaxTasks]
    BY DEF Types
  <1>3. [op[p] EXCEPT !.pc = next, !.task = i] \in [pc : Doing, row : Role, task : 0 .. MaxTasks]
    BY <1>2, Ids
  <1>4. NodeOf[op[p].row] \in Machine
    BY <1>2, RoleAssumption DEF RoleAssumption
  <1> QED BY <1>1, <1>2, <1>3, <1>4 DEF Queued, Types

LEMMA OutcomeTypes ==
  ASSUME NEW i, NEW ok PROVE Outcome(i, ok) \in {"active", "failed", "removed"}
  BY DEF Outcome

LEMMA RequestTypes ==
  ASSUME Types, NEW p \in Request,
         \/ \E r \in Role : Install(p, r) \/ Remove(p, r)
         \/ EnqueueInstall(p) \/ EnqueueRemove(p) \/ MarkRemoving(p) \/ Deregister(p)
  PROVE  Types'
  <1>0. op[p].row \in Role
    BY DEF Types
  <1>1. ASSUME NEW r \in Role, Install(p, r) PROVE Types'
    <2>1. At(p, "enqueue-install", r)
      BY <1>1 DEF Install
    <2>2. op' \in [Request -> [pc : Doing, row : Role, task : 0 .. MaxTasks]]
      BY <2>1, AtTypes DEF Doing
    <2> QED BY <1>1, <2>2 DEF Install, Types, agent
  <1>2. ASSUME NEW r \in Role, Remove(p, r) PROVE Types'
    <2>1. At(p, "enqueue-remove", r) \/ At(p, "deregister", r)
      BY <1>2 DEF Remove
    <2>2. op' \in [Request -> [pc : Doing, row : Role, task : 0 .. MaxTasks]]
      BY <2>1, AtTypes DEF Doing
    <2> QED BY <1>2, <2>2 DEF Remove, Types, agent
  <1>3. CASE EnqueueInstall(p)
    BY <1>3, QueueTypes DEF EnqueueInstall, Types, Kind, Doing
  <1>4. CASE EnqueueRemove(p)
    BY <1>4, QueueTypes DEF EnqueueRemove, Types, Kind, Doing
  <1>5. CASE MarkRemoving(p) \/ Deregister(p)
    <2>1. At(p, "idle", op[p].row)
      BY <1>5 DEF MarkRemoving, Deregister
    <2>2. op' \in [Request -> [pc : Doing, row : Role, task : 0 .. MaxTasks]]
      BY <2>1, <1>0, AtTypes DEF Doing
    <2> QED BY <1>0, <1>5, <2>2 DEF MarkRemoving, Deregister, Types, agent
  <1> QED BY <1>1, <1>2, <1>3, <1>4, <1>5

\* The machine's task, when its agent has one.
LEMMA HeldTypes ==
  ASSUME Types, NEW m \in Machine, held[m] # 0
  PROVE  held[m] \in Id
  <1>1. held[m] \in 0 .. MaxTasks
    BY DEF Types
  <1> QED BY <1>1, Ids, CountAssumption DEF CountAssumption

LEMMA FaultTypes ==
  ASSUME Types, Agent!Fault PROVE faults' \in 0 .. MaxFaults
  BY CountAssumption DEF CountAssumption, Types, Agent!Fault

LEMMA AgentStepTypes ==
  ASSUME Types, AgentStep PROVE Types'
  <1>1. ASSUME NEW m \in Machine, NEW i \in Id, Agent!Collect(m, i) PROVE Types'
    BY <1>1, Ids DEF AgentStep, Agent!Collect, Agent!Q!Take, Types
  <1>2. ASSUME NEW i \in Id, Agent!CollectLost(i) PROVE Types'
    BY <1>2, FaultTypes DEF AgentStep, Agent!CollectLost, Agent!Q!Take, Types
  <1>3. ASSUME NEW m \in Machine, Agent!Refused(m) PROVE Types'
    BY <1>3, Ids DEF AgentStep, Agent!Refused, Agent!queue, Types
  <1>4. ASSUME NEW m \in Machine, Agent!AgentDies(m) PROVE Types'
    BY <1>4, Ids, FaultTypes DEF AgentStep, Agent!AgentDies, Agent!queue, Types
  <1> QED BY <1>1, <1>2, <1>3, <1>4 DEF AgentStep, Id

LEMMA CutTypes ==
  ASSUME Types, Cut PROVE Types'
  <1>1. op' \in [Request -> [pc : Doing, row : Role, task : 0 .. MaxTasks]]
    <2>1. ASSUME NEW p \in Request
          PROVE  Idle(op[p].row) \in [pc : Doing, row : Role, task : 0 .. MaxTasks]
      BY Ids DEF Types, Idle, Doing
    <2> QED BY <2>1 DEF Cut
  <1>2. cut' \subseteq Role
    BY DEF Types, Cut
  <1>3. cuts' \in 0 .. MaxCuts
    BY CountAssumption DEF CountAssumption, Types, Cut
  <1>4. /\ held' \in [Machine -> 0 .. MaxTasks] /\ answers' = {}
        /\ UNCHANGED <<state, node, kind, faults>>
    BY Ids DEF Types, Cut, Agent!HandlersStop, Agent!queue
  <1> QED BY <1>1, <1>2, <1>3, <1>4 DEF Types, Cut

LEMMA StepTypes ==
  ASSUME TypeOK, [Next]_vars PROVE TypeOK'
  <1> SUFFICES ASSUME Types PROVE Types'
    BY TypesIsTypeOK DEF TypeOK, Types, Agent!TypeOK, Id, Agent!Id
  <1>1. ASSUME NEW p \in Request,
               \/ \E r \in Role : Install(p, r) \/ Remove(p, r)
               \/ EnqueueInstall(p) \/ EnqueueRemove(p) \/ MarkRemoving(p) \/ Deregister(p)
        PROVE  Types'
    BY <1>1, RequestTypes
  <1>2. CASE AgentStep
    BY <1>2, AgentStepTypes
  <1>3. ASSUME NEW m \in Machine, NEW ok \in BOOLEAN, Report(m, ok) PROVE Types'
    <2>1. held[m] \in Id
      BY <1>3, HeldTypes DEF Report, Agent!Report
    <2>2. [task |-> held[m], ok |-> ok] \in [task : Id, ok : BOOLEAN]
      BY <2>1
    <2>3. Outcome(held[m], ok) \in {"active", "failed", "removed"}
      BY OutcomeTypes
    <2> QED BY <1>3, <2>1, <2>2, <2>3 DEF Report, Agent!Report, Agent!Q!Finish, Types
  <1>4. ASSUME NEW a \in answers, Settle(a) PROVE Types'
    <2>1. Outcome(a.task, a.ok) \in {"active", "failed", "removed"}
      BY OutcomeTypes
    <2> QED BY <1>4, <2>1, Ids DEF Settle, Agent!Answered, Agent!queue, Types
  <1>5. ASSUME NEW i \in Id, Release(i) PROVE Types'
    BY <1>5 DEF Release, agent, Types
  <1>6. ASSUME NEW S \in SUBSET Id, Reap(S) PROVE Types'
    BY <1>6 DEF Reap, Agent!Reap, Agent!Q!Expire, Types, Id, Agent!Id
  <1>7. CASE Cut
    BY <1>7, CutTypes
  <1>8. CASE UNCHANGED vars
    BY <1>8 DEF vars, agent, Types
  <1> QED BY <1>1, <1>2, <1>3, <1>4, <1>5, <1>6, <1>7, <1>8 DEF Next

\* Rows, tasks and handlers keep their types, for every number of each
\* (routes_roles, agent_task_result, tasks.reap).
THEOREM TypesKept == Spec => []TypeOK
  BY InitTypes, StepTypes, PTL DEF Spec

-----------------------------------------------------------------------------
(* Results and the agents that wait for them.                              *)

LEMMA InitHolds == Init => ResultsAreHeld /\ SaidIsNewest /\ InstallingIsWaitedFor
  BY Ids DEF Init, Agent!Init, Agent!Q!Init, Id, Agent!Id, ResultsAreHeld, SaidIsNewest,
             InstallingIsWaitedFor

\* A row's results come from one machine, whose agent is on one task.
LEMMA OneResult ==
  ASSUME Types, ResultsAreHeld, NEW a \in answers, NEW b \in answers,
         subject[a.task] = subject[b.task]
  PROVE  a = b
  <1>1. a.task \in Id /\ b.task \in Id
    BY DEF Types
  <1>2. state[a.task] # "none" /\ state[b.task] # "none"
    BY DEF ResultsAreHeld
  <1>3. node[a.task] = node[b.task]
    BY <1>1, <1>2 DEF ResultsAreHeld
  <1>4. a.task = b.task
    BY <1>3 DEF ResultsAreHeld
  <1> QED BY <1>4 DEF ResultsAreHeld

LEMMA QueueHeld ==
  ASSUME Types, ResultsAreHeld, NEW p \in Request, NEW k, NEW next, Queue(p, k, next),
         UNCHANGED <<held, answers, released>>
  PROVE  ResultsAreHeld'
  <1>1. PICK i \in Id : Queued(p, i, k, next)
    BY QueueIsQueued
  <1>2. \A a \in answers : a.task \in Id /\ a.task # i
    BY <1>1 DEF Types, Queued, ResultsAreHeld
  <1>3. \A m \in Machine : held[m] # i
    <2>1. ASSUME NEW m \in Machine, held[m] = i PROVE FALSE
      BY <1>1, <2>1, Ids DEF Queued, ResultsAreHeld
    <2> QED BY <2>1
  <1>4. \A j \in released : j # i
    BY <1>1 DEF Queued, ResultsAreHeld
  <1>5. \A j \in Id : j # i => /\ state'[j] = state[j] /\ node'[j] = node[j]
                               /\ subject'[j] = subject[j]
    BY <1>1 DEF Queued, Types
  <1>6. state'[i] = "pending" /\ node'[i] = NodeOf[subject'[i]]
    BY <1>1 DEF Queued, Types
  <1>7. \A j \in Id : state'[j] # "none" => node'[j] = NodeOf[subject'[j]]
    BY <1>5, <1>6 DEF ResultsAreHeld
  <1>8. \A m \in Machine : held[m] # 0 => /\ held[m] \in Id /\ node'[held[m]] = m
                                          /\ state'[held[m]] \notin {"none", "pending"}
    BY <1>3, <1>5 DEF ResultsAreHeld
  <1>9. \A a \in answers : state'[a.task] \in {"done", "failed"} /\ held[node'[a.task]] = a.task
    BY <1>2, <1>5 DEF ResultsAreHeld
  <1>10. \A j \in released : state'[j] = "failed"
    BY <1>4, <1>5 DEF ResultsAreHeld, Types
  <1> QED BY <1>7, <1>8, <1>9, <1>10 DEF ResultsAreHeld

LEMMA TakeHeld ==
  ASSUME Types, ResultsAreHeld, NEW i \in Id, Agent!Q!Take(i), UNCHANGED <<answers, released, subject>>,
         \/ UNCHANGED held
         \/ \E m \in Machine : held[m] = 0 /\ node[i] = m /\ held' = [held EXCEPT ![m] = i]
  PROVE  ResultsAreHeld'
  <1>1. /\ state[i] = "pending" /\ state' = [state EXCEPT ![i] = "claimed"]
        /\ UNCHANGED <<node, subject, answers, released>>
    BY DEF Agent!Q!Take
  <1>2. \A a \in answers : a.task \in Id /\ a.task # i
    BY <1>1 DEF Types, ResultsAreHeld
  <1>3. \A j \in released : j # i
    BY <1>1 DEF ResultsAreHeld
  <1>4. \A j \in Id : j # i => state'[j] = state[j]
    BY <1>1 DEF Types
  <1>5. state'[i] = "claimed" /\ node[i] = NodeOf[subject[i]]
    BY <1>1 DEF Types, ResultsAreHeld
  <1>6. \A m \in Machine : held'[m] # 0 => \/ held'[m] = held[m]
                                           \/ held[m] = 0 /\ held'[m] = i /\ node[i] = m
    <2>1. CASE UNCHANGED held
      BY <2>1
    <2>2. ASSUME NEW n \in Machine, held[n] = 0, node[i] = n, held' = [held EXCEPT ![n] = i],
                 NEW m \in Machine
          PROVE  held'[m] = held[m] \/ (held[m] = 0 /\ held'[m] = i /\ node[i] = m)
      BY <2>2 DEF Types
    <2> QED BY <2>1, <2>2
  <1>7. \A a \in answers : held'[node[a.task]] = held[node[a.task]]
    <2>1. ASSUME NEW a \in answers PROVE held'[node[a.task]] = held[node[a.task]]
      <3>1. node[a.task] \in Machine /\ held[node[a.task]] = a.task /\ a.task # 0
        BY <1>2, Ids DEF Types, ResultsAreHeld
      <3> QED BY <3>1 DEF Types
    <2> QED BY <2>1
  <1>8. \A j \in Id : state'[j] # "none" => node'[j] = NodeOf[subject'[j]]
    BY <1>1, <1>4, <1>5 DEF ResultsAreHeld
  <1>9. \A m \in Machine : held'[m] # 0 => /\ held'[m] \in Id /\ node[held'[m]] = m
                                           /\ state'[held'[m]] \notin {"none", "pending"}
    BY <1>4, <1>5, <1>6 DEF ResultsAreHeld
  <1>10. \A a \in answers : state'[a.task] \in {"done", "failed"} /\ held'[node[a.task]] = a.task
    BY <1>2, <1>4, <1>7 DEF ResultsAreHeld
  <1>11. \A j \in released : state'[j] = "failed"
    BY <1>3, <1>4 DEF ResultsAreHeld, Types
  <1> QED BY <1>1, <1>8, <1>9, <1>10, <1>11 DEF ResultsAreHeld

LEMMA AgentStepHeld ==
  ASSUME Types, ResultsAreHeld, AgentStep PROVE ResultsAreHeld'
  <1>1. ASSUME NEW m \in Machine, NEW i \in Id, Agent!Collect(m, i) PROVE ResultsAreHeld'
    BY <1>1, TakeHeld DEF AgentStep, Agent!Collect
  <1>2. ASSUME NEW i \in Id, Agent!CollectLost(i) PROVE ResultsAreHeld'
    BY <1>2, TakeHeld DEF AgentStep, Agent!CollectLost
  <1>3. ASSUME NEW m \in Machine, Agent!Refused(m) \/ Agent!AgentDies(m) PROVE ResultsAreHeld'
    <2>1. /\ held' = [held EXCEPT ![m] = 0]
          /\ UNCHANGED <<state, node, answers, released, subject>>
          /\ \A a \in answers : a.task # held[m]
      BY <1>3 DEF AgentStep, Agent!Refused, Agent!AgentDies, Agent!queue, ResultsAreHeld
    <2>2. \A a \in answers : node[a.task] \in Machine /\ node[a.task] # m
      BY <2>1 DEF Types, ResultsAreHeld
    <2> QED BY <2>1, <2>2 DEF Types, ResultsAreHeld
  <1> QED BY <1>1, <1>2, <1>3 DEF AgentStep, Id

LEMMA ReportHeld ==
  ASSUME Types, ResultsAreHeld, NEW m \in Machine, NEW ok \in BOOLEAN, Report(m, ok)
  PROVE  ResultsAreHeld'
  <1>1. held[m] \in Id /\ state[held[m]] = "claimed" /\ node[held[m]] = m
    BY HeldTypes DEF Report, Agent!Report, Agent!Q!Finish, ResultsAreHeld
  <1>2. state' = [state EXCEPT ![held[m]] = IF ok THEN "done" ELSE "failed"]
    BY DEF Report, Agent!Report, Agent!Q!Finish
  <1>3. answers' = answers \cup {[task |-> held[m], ok |-> ok]}
    BY DEF Report, Agent!Report
  <1>4. UNCHANGED <<node, held, subject, released>>
    BY DEF Report, Agent!Report, Agent!Q!Finish
  <1>5. state'[held[m]] \in {"done", "failed"} /\ \A j \in Id : j # held[m] => state'[j] = state[j]
    BY <1>1, <1>2 DEF Types
  <1>6. \A a \in answers : a.task \in Id /\ a.task # held[m]
    BY <1>1 DEF Types, ResultsAreHeld
  <1>7. \A i \in Id : state'[i] # "none" => node'[i] = NodeOf[subject'[i]]
    BY <1>1, <1>4, <1>5 DEF ResultsAreHeld
  <1>8. \A n \in Machine : held[n] # 0 => state'[held[n]] \notin {"none", "pending"}
    BY <1>5 DEF ResultsAreHeld
  <1>9. \A a \in answers' : state'[a.task] \in {"done", "failed"} /\ held[node[a.task]] = a.task
    BY <1>1, <1>3, <1>5, <1>6 DEF ResultsAreHeld
  <1>10. \A a, b \in answers' : a.task = b.task => a = b
    BY <1>3, <1>6 DEF ResultsAreHeld
  <1>11. \A j \in released : state'[j] = "failed"
    BY <1>1, <1>5 DEF Types, ResultsAreHeld
  <1> QED BY <1>4, <1>7, <1>8, <1>9, <1>10, <1>11 DEF ResultsAreHeld

LEMMA SettleHeld ==
  ASSUME Types, ResultsAreHeld, NEW a \in answers, Settle(a)
  PROVE  ResultsAreHeld'
  <1>1. /\ answers' = answers \ {a}
        /\ held' = [m \in Machine |-> IF held[m] = a.task THEN 0 ELSE held[m]]
        /\ UNCHANGED <<state, node, subject, released>>
    BY DEF Settle, Agent!Answered, Agent!queue
  <1>2. \A b \in answers' : b \in answers /\ b.task # a.task /\ node[b.task] \in Machine
    BY <1>1 DEF Types, ResultsAreHeld
  <1>3. \A b \in answers' : held'[node[b.task]] = b.task
    BY <1>1, <1>2 DEF ResultsAreHeld
  <1>4. \A m \in Machine : held'[m] # 0 => held'[m] = held[m]
    BY <1>1
  <1> QED BY <1>1, <1>2, <1>3, <1>4 DEF ResultsAreHeld

LEMMA ReapHeld ==
  ASSUME Types, ResultsAreHeld, NEW S \in SUBSET Id, Reap(S)
  PROVE  ResultsAreHeld'
  <1>1. /\ state' = [i \in Id |-> IF i \in S THEN "failed" ELSE state[i]]
        /\ \A i \in S : state[i] \in {"pending", "claimed"}
        /\ released' = released \cup S
        /\ UNCHANGED <<node, held, answers, subject>>
    BY Lives DEF Reap, Agent!Reap, Agent!Q!Expire, Id, Agent!Id, Live, Agent!Live, Agent!Q!Live
  <1>2. \A a \in answers : a.task \in Id /\ a.task \notin S
    BY <1>1 DEF Types, ResultsAreHeld
  <1>3. \A i \in Id : state'[i] # "none" => state[i] # "none"
    BY <1>1
  <1>4. \A a \in answers : state'[a.task] = state[a.task]
    BY <1>1, <1>2
  <1>5. \A i \in released' : state'[i] = "failed"
    BY <1>1 DEF Types, ResultsAreHeld
  <1>6. \A m \in Machine : held[m] # 0 => state'[held[m]] \notin {"none", "pending"}
    BY <1>1 DEF ResultsAreHeld
  <1> QED BY <1>1, <1>3, <1>4, <1>5, <1>6 DEF ResultsAreHeld

LEMMA CutHeld ==
  ASSUME Types, ResultsAreHeld, Cut PROVE ResultsAreHeld'
  <1>1. /\ answers' = {} /\ released' = {}
        /\ held' = [m \in Machine |-> IF \E a \in answers : a.task = held[m] THEN 0 ELSE held[m]]
        /\ UNCHANGED <<state, node, subject>>
    BY DEF Cut, Agent!HandlersStop, Agent!queue
  <1>2. \A m \in Machine : held'[m] # 0 => held'[m] = held[m]
    BY <1>1
  <1> QED BY <1>1, <1>2 DEF ResultsAreHeld

LEMMA StepHeld ==
  ASSUME Types, ResultsAreHeld, [Next]_vars PROVE ResultsAreHeld'
  <1>1. ASSUME NEW p \in Request, NEW r \in Role, Install(p, r) \/ Remove(p, r)
        PROVE  ResultsAreHeld'
    BY <1>1 DEF Install, Remove, agent, ResultsAreHeld
  <1>2. ASSUME NEW p \in Request, EnqueueInstall(p) \/ EnqueueRemove(p)
        PROVE  ResultsAreHeld'
    BY <1>2, QueueHeld DEF EnqueueInstall, EnqueueRemove
  <1>3. ASSUME NEW p \in Request, MarkRemoving(p) \/ Deregister(p)
        PROVE  ResultsAreHeld'
    BY <1>3 DEF MarkRemoving, Deregister, agent, ResultsAreHeld
  <1>4. CASE AgentStep
    BY <1>4, AgentStepHeld
  <1>5. ASSUME NEW m \in Machine, NEW ok \in BOOLEAN, Report(m, ok) PROVE ResultsAreHeld'
    BY <1>5, ReportHeld
  <1>6. ASSUME NEW a \in answers, Settle(a) PROVE ResultsAreHeld'
    BY <1>6, SettleHeld
  <1>7. ASSUME NEW i \in Id, Release(i) PROVE ResultsAreHeld'
    BY <1>7 DEF Release, agent, ResultsAreHeld
  <1>8. ASSUME NEW S \in SUBSET Id, Reap(S) PROVE ResultsAreHeld'
    BY <1>8, ReapHeld
  <1>9. CASE Cut
    BY <1>9, CutHeld
  <1>10. CASE UNCHANGED vars
    BY <1>10 DEF vars, agent, ResultsAreHeld
  <1> QED BY <1>1, <1>2, <1>3, <1>4, <1>5, <1>6, <1>7, <1>8, <1>9, <1>10 DEF Next

-----------------------------------------------------------------------------
(* Reports and the rows they are applied to, in the order they were made.  *)

\* A step that keeps results, reports and the tasks they are of, and makes no
\* row active, disturbs nothing.
LEMMA KeepsNewest ==
  ASSUME Types, SaidIsNewest, UNCHANGED <<answers, said>>, cut \subseteq cut',
         \A a \in answers : subject'[a.task] = subject[a.task] /\ kind'[a.task] = kind[a.task],
         \A r \in Role : role'[r] = "active" => role[r] = "active"
  PROVE  SaidIsNewest'
  <1>1. \A a \in answers : Outcome(a.task, a.ok)' = Outcome(a.task, a.ok)
    BY DEF Outcome
  <1>2. \A r \in Role : Applied(r)' => Applied(r)
    BY DEF Applied
  <1>3. \A a \in answers' : said'[subject'[a.task]] = Outcome(a.task, a.ok)'
    BY <1>1 DEF SaidIsNewest
  <1>4. \A r \in Role \ cut' : role'[r] = "active" /\ Applied(r)' => said'[r] = "active"
    BY <1>2 DEF SaidIsNewest
  <1> QED BY <1>3, <1>4 DEF SaidIsNewest

LEMMA QueueNewest ==
  ASSUME Types, ResultsAreHeld, SaidIsNewest, NEW p \in Request, NEW k, NEW next,
         Queue(p, k, next), UNCHANGED <<answers, role, said, cut>>
  PROVE  SaidIsNewest'
  <1>1. PICK i \in Id : Queued(p, i, k, next)
    BY QueueIsQueued
  <1>2. \A a \in answers : a.task \in Id /\ a.task # i
    BY <1>1 DEF Types, Queued, ResultsAreHeld
  <1>3. \A a \in answers : subject'[a.task] = subject[a.task] /\ kind'[a.task] = kind[a.task]
    BY <1>1, <1>2 DEF Queued, Types
  <1> QED BY <1>3, KeepsNewest

LEMMA ReportNewest ==
  ASSUME Types, ResultsAreHeld, SaidIsNewest, NEW m \in Machine, NEW ok \in BOOLEAN,
         Report(m, ok)
  PROVE  SaidIsNewest'
  <1> DEFINE h == held[m]
  <1>1. h \in Id /\ state[h] = "claimed" /\ node[h] = m /\ subject[h] \in Role
    BY HeldTypes DEF Report, Agent!Report, Agent!Q!Finish, ResultsAreHeld, Types
  <1>2. /\ answers' = answers \cup {[task |-> h, ok |-> ok]}
        /\ said' = [said EXCEPT ![subject[h]] = Outcome(h, ok)]
        /\ UNCHANGED <<node, kind, subject, role, cut>>
    BY DEF Report, Agent!Report, Agent!Q!Finish
  <1>3. ASSUME NEW a \in answers PROVE subject[a.task] # subject[h]
    <2>1. a.task \in Id /\ state[a.task] \in {"done", "failed"} /\ held[node[a.task]] = a.task
      BY DEF Types, ResultsAreHeld
    <2>2. node[a.task] = NodeOf[subject[a.task]] /\ m = NodeOf[subject[h]]
      BY <1>1, <2>1 DEF ResultsAreHeld
    <2> QED BY <1>1, <2>1, <2>2
  <1>4. \A i, o : Outcome(i, o)' = Outcome(i, o)
    BY <1>2 DEF Outcome
  <1>5. \A a \in answers' : said'[subject'[a.task]] = Outcome(a.task, a.ok)'
    <2>1. said'[subject[h]] = Outcome(h, ok)
      BY <1>1, <1>2 DEF Types
    <2>2. \A a \in answers : said'[subject[a.task]] = Outcome(a.task, a.ok)
      BY <1>2, <1>3 DEF Types, SaidIsNewest
    <2>3. \A a \in answers' : a \in answers \/ (a.task = h /\ a.ok = ok)
      BY <1>2
    <2> QED BY <1>2, <1>4, <2>1, <2>2, <2>3
  <1>6. ASSUME NEW r \in Role \ cut', role'[r] = "active", Applied(r)' PROVE said'[r] = "active"
    <2>1. r # subject[h] /\ Applied(r)
      <3>1. \A a \in answers' : subject[a.task] # r
        BY <1>2, <1>6 DEF Applied
      <3>2. [task |-> h, ok |-> ok] \in answers' /\ answers \subseteq answers'
        BY <1>2
      <3>3. [task |-> h, ok |-> ok].task = h
        OBVIOUS
      <3> QED BY <3>1, <3>2, <3>3 DEF Applied
    <2>2. said'[r] = said[r]
      BY <1>1, <1>2, <2>1 DEF Types
    <2> QED BY <1>2, <1>6, <2>1, <2>2 DEF SaidIsNewest
  <1> QED BY <1>5, <1>6 DEF SaidIsNewest

LEMMA SettleNewest ==
  ASSUME Types, ResultsAreHeld, SaidIsNewest, NEW a \in answers, Settle(a)
  PROVE  SaidIsNewest'
  <1>1. /\ answers' = answers \ {a}
        /\ role' = [role EXCEPT ![subject[a.task]] = Outcome(a.task, a.ok)]
        /\ UNCHANGED <<kind, subject, said, cut>>
    BY DEF Settle, Agent!Answered, Agent!queue
  <1>2. \A b \in answers : Outcome(b.task, b.ok)' = Outcome(b.task, b.ok)
    BY <1>1 DEF Outcome
  <1>3. \A b \in answers' : said'[subject'[b.task]] = Outcome(b.task, b.ok)'
    BY <1>1, <1>2 DEF SaidIsNewest
  <1>4. ASSUME NEW r \in Role \ cut', role'[r] = "active", Applied(r)' PROVE said'[r] = "active"
    <2>1. CASE r = subject[a.task]
      <3>1. role'[r] = Outcome(a.task, a.ok) /\ said[r] = Outcome(a.task, a.ok)
        BY <1>1, <2>1 DEF Types, SaidIsNewest
      <3> QED BY <1>1, <1>4, <3>1
    <2>2. CASE r # subject[a.task]
      <3>1. role'[r] = role[r]
        BY <1>1, <2>2 DEF Types
      <3>2. Applied(r)
        BY <1>1, <1>4, <2>2 DEF Applied
      <3> QED BY <1>1, <1>4, <3>1, <3>2 DEF SaidIsNewest
    <2> QED BY <2>1, <2>2
  <1> QED BY <1>3, <1>4 DEF SaidIsNewest

LEMMA CutNewest ==
  ASSUME Types, SaidIsNewest, Cut PROVE SaidIsNewest'
  <1>1. /\ answers' = {} /\ UNCHANGED <<role, said>> /\ cut \subseteq cut'
        /\ \A a \in answers : subject[a.task] \in cut'
    BY DEF Cut, Agent!HandlersStop
  <1>2. ASSUME NEW r \in Role \ cut' PROVE Applied(r)
    BY <1>1 DEF Applied
  <1> QED BY <1>1, <1>2 DEF SaidIsNewest

LEMMA StepNewest ==
  ASSUME Types, ResultsAreHeld, SaidIsNewest, [Next]_vars PROVE SaidIsNewest'
  <1>1. ASSUME NEW p \in Request, NEW r \in Role, Install(p, r) \/ Remove(p, r)
        PROVE  SaidIsNewest'
    BY <1>1, KeepsNewest DEF Install, Remove, agent, Types
  <1>2. ASSUME NEW p \in Request, EnqueueInstall(p) \/ EnqueueRemove(p)
        PROVE  SaidIsNewest'
    BY <1>2, QueueNewest DEF EnqueueInstall, EnqueueRemove
  <1>3. ASSUME NEW p \in Request, MarkRemoving(p) \/ Deregister(p)
        PROVE  SaidIsNewest'
    BY <1>3, KeepsNewest DEF MarkRemoving, Deregister, agent, Types
  <1>4. CASE AgentStep
    <2>1. UNCHANGED <<kind, subject, role, answers, said, cut>>
      BY <1>4 DEF AgentStep, Agent!Collect, Agent!CollectLost, Agent!Q!Take, Agent!Refused,
                  Agent!AgentDies, Agent!queue
    <2> QED BY <2>1, KeepsNewest
  <1>5. ASSUME NEW m \in Machine, NEW ok \in BOOLEAN, Report(m, ok) PROVE SaidIsNewest'
    BY <1>5, ReportNewest
  <1>6. ASSUME NEW a \in answers, Settle(a) PROVE SaidIsNewest'
    BY <1>6, SettleNewest
  <1>7. ASSUME NEW i \in Id, Release(i) PROVE SaidIsNewest'
    BY <1>7, KeepsNewest DEF Release, agent, Types
  <1>8. ASSUME NEW S \in SUBSET Id, Reap(S) PROVE SaidIsNewest'
    BY <1>8, KeepsNewest DEF Reap, Agent!Reap, Agent!Q!Expire
  <1>9. CASE Cut
    BY <1>9, CutNewest
  <1>10. CASE UNCHANGED vars
    BY <1>10, KeepsNewest DEF vars, agent
  <1> QED BY <1>1, <1>2, <1>3, <1>4, <1>5, <1>6, <1>7, <1>8, <1>9, <1>10 DEF Next

-----------------------------------------------------------------------------
(* What a row that says "installing" waits for.                            *)

\* Task i is to install row r, and its end has not reached the row.
Installs(i, r) ==
  /\ subject[i] = r /\ kind[i] = "role-install"
  /\ \/ state[i] \in {"pending", "claimed"}
     \/ \E a \in answers : a.task = i
     \/ i \in released

\* A request is about to queue one.
WillInstall(r) == \E p \in Request : op[p].pc = "enqueue-install" /\ op[p].row = r

WaitedFor(r) == role[r] = "installing" => \/ \E i \in Id : Installs(i, r)
                                         \/ WillInstall(r)
                                         \/ r \in cut

LEMMA WaitedForAll == InstallingIsWaitedFor <=> \A r \in Role : WaitedFor(r)
  BY Lives DEF InstallingIsWaitedFor, WaitedFor, WillInstall, Installs, Outstanding

\* A step that keeps the tasks of row r under way and the requests about to
\* queue one keeps what the row waits for.
LEMMA KeepsWaiting ==
  ASSUME NEW r \in Role, WaitedFor(r), cut \subseteq cut',
         role'[r] = "installing" => role[r] = "installing",
         \A i \in Id : Installs(i, r) => Installs(i, r)' \/ r \in cut',
         WillInstall(r) => WillInstall(r)' \/ (\E i \in Id : Installs(i, r)') \/ r \in cut'
  PROVE  WaitedFor(r)'
  BY DEF WaitedFor

LEMMA QueueWaiting ==
  ASSUME Types, ResultsAreHeld, NEW p \in Request, NEW k \in Kind, NEW next, Queue(p, k, next),
         UNCHANGED <<answers, released>>, NEW r \in Role
  PROVE  /\ \A i \in Id : Installs(i, r) => Installs(i, r)'
         /\ \A q \in Request : q # p => op'[q] = op[q]
         /\ k = "role-install" /\ op[p].row = r => \E i \in Id : Installs(i, r)'
  <1>1. PICK i \in Id : Queued(p, i, k, next)
    BY QueueIsQueued
  <1>2. \A a \in answers : a.task # i
    BY <1>1 DEF Types, Queued, ResultsAreHeld
  <1>3. i \notin released
    BY <1>1 DEF Queued, ResultsAreHeld
  <1>4. ~ Installs(i, r)
    BY <1>1, <1>2, <1>3 DEF Installs, Queued
  <1>5. ASSUME NEW j \in Id, Installs(j, r) PROVE Installs(j, r)'
    <2>1. j # i
      BY <1>4, <1>5
    <2>2. state'[j] = state[j] /\ kind'[j] = kind[j] /\ subject'[j] = subject[j]
      BY <1>1, <2>1 DEF Queued, Types
    <2> QED BY <1>5, <2>2 DEF Installs
  <1>6. \A q \in Request : q # p => op'[q] = op[q]
    BY <1>1 DEF Queued, Types
  <1>7. k = "role-install" /\ op[p].row = r => Installs(i, r)'
    BY <1>1 DEF Queued, Types, Installs
  <1> QED BY <1>5, <1>6, <1>7

\* A request that goes on to a statement other than the queueing of an install
\* takes nothing away from a row it is not about.
LEMMA RequestWaiting ==
  ASSUME Types, NEW p \in Request, NEW where \in Doing, NEW q \in Role, At(p, where, q),
         NEW r \in Role, op[p].pc # "enqueue-install" \/ (where = "enqueue-install" /\ q = r)
  PROVE  WillInstall(r) => WillInstall(r)'
  <1>1. \A o \in Request : o # p => op'[o] = op[o]
    BY DEF At, Types
  <1>2. op'[p].pc = where /\ op'[p].row = q
    BY DEF At, Types
  <1> QED BY <1>1, <1>2 DEF WillInstall

LEMMA StepWaiting ==
  ASSUME Types, ResultsAreHeld, InstallingIsWaitedFor, [Next]_vars
  PROVE  InstallingIsWaitedFor'
  <1> SUFFICES ASSUME NEW r \in Role PROVE WaitedFor(r)'
    BY Lives DEF InstallingIsWaitedFor, WaitedFor, WillInstall, Installs, Outstanding,
                 Live, Agent!Live, Agent!Q!Live, Id, Agent!Id, Agent!Q!Id
  <1>0. WaitedFor(r)
    BY WaitedForAll
  <1>1. ASSUME NEW p \in Request, NEW q \in Role, Install(p, q) PROVE WaitedFor(r)'
    <2>1. /\ op[p].pc = "idle" /\ At(p, "enqueue-install", q) /\ "enqueue-install" \in Doing
          /\ role' = [role EXCEPT ![q] = "installing"]
          /\ UNCHANGED <<state, kind, subject, answers, released, cut>>
      BY <1>1 DEF Install, agent, Doing
    <2>2. CASE r = q
      <3>1. op'[p].pc = "enqueue-install" /\ op'[p].row = r
        BY <2>1, <2>2 DEF At, Types
      <3> QED BY <3>1 DEF WaitedFor, WillInstall
    <2>3. CASE r # q
      <3>1. role'[r] = role[r]
        BY <2>1, <2>3 DEF Types
      <3>2. WillInstall(r) => WillInstall(r)'
        BY <2>1, RequestWaiting
      <3>3. \A i \in Id : Installs(i, r) => Installs(i, r)'
        BY <2>1 DEF Installs
      <3> QED BY <1>0, <2>1, <3>1, <3>2, <3>3, KeepsWaiting
    <2> QED BY <2>2, <2>3
  <1>2. ASSUME NEW p \in Request, NEW q \in Role, Remove(p, q) PROVE WaitedFor(r)'
    <2>1. /\ op[p].pc = "idle" /\ (At(p, "enqueue-remove", q) \/ At(p, "deregister", q))
          /\ UNCHANGED <<state, kind, subject, answers, released, cut, role>>
      BY <1>2 DEF Remove, agent
    <2>2. WillInstall(r) => WillInstall(r)'
      BY <2>1, RequestWaiting DEF Doing
    <2>3. \A i \in Id : Installs(i, r) => Installs(i, r)'
      BY <2>1 DEF Installs
    <2> QED BY <1>0, <2>1, <2>2, <2>3, KeepsWaiting
  <1>3. ASSUME NEW p \in Request, EnqueueInstall(p) PROVE WaitedFor(r)'
    <2>1. /\ Queue(p, "role-install", "idle") /\ "role-install" \in Kind
          /\ UNCHANGED <<answers, released, role, cut>>
      BY <1>3 DEF EnqueueInstall, Kind
    <2>2. \A i \in Id : Installs(i, r) => Installs(i, r)'
      BY <2>1, QueueWaiting
    <2>3. WillInstall(r) => WillInstall(r)' \/ \E i \in Id : Installs(i, r)'
      <3>1. /\ \A q \in Request : q # p => op'[q] = op[q]
            /\ op[p].row = r => \E i \in Id : Installs(i, r)'
        BY <2>1, QueueWaiting
      <3> QED BY <3>1 DEF WillInstall
    <2> QED BY <1>0, <2>1, <2>2, <2>3, KeepsWaiting
  <1>4. ASSUME NEW p \in Request, EnqueueRemove(p) PROVE WaitedFor(r)'
    <2>1. /\ Queue(p, "role-remove", "mark-removing") /\ "role-remove" \in Kind
          /\ op[p].pc = "enqueue-remove"
          /\ UNCHANGED <<answers, released, role, cut>>
      BY <1>4 DEF EnqueueRemove, Kind
    <2>2. /\ \A i \in Id : Installs(i, r) => Installs(i, r)'
          /\ \A q \in Request : q # p => op'[q] = op[q]
      BY <2>1, QueueWaiting
    <2>3. WillInstall(r) => WillInstall(r)'
      BY <2>1, <2>2 DEF WillInstall
    <2> QED BY <1>0, <2>1, <2>2, <2>3, KeepsWaiting
  <1>5. ASSUME NEW p \in Request, MarkRemoving(p) \/ Deregister(p) PROVE WaitedFor(r)'
    <2>1. /\ op[p].row \in Role /\ op[p].pc # "enqueue-install"
          /\ At(p, "idle", op[p].row) /\ "idle" \in Doing
          /\ UNCHANGED <<state, kind, subject, answers, released, cut>>
      BY <1>5 DEF MarkRemoving, Deregister, agent, Types, Doing
    <2>2. role'[r] = "installing" => role[r] = "installing"
      BY <1>5 DEF MarkRemoving, Deregister, Types
    <2>3. WillInstall(r) => WillInstall(r)'
      BY <2>1, RequestWaiting
    <2>4. \A i \in Id : Installs(i, r) => Installs(i, r)'
      BY <2>1 DEF Installs
    <2> QED BY <1>0, <2>1, <2>2, <2>3, <2>4, KeepsWaiting
  <1>6. CASE AgentStep
    <2>1. /\ UNCHANGED <<kind, subject, role, op, answers, released, cut>>
          /\ \A i \in Id : state[i] \in {"pending", "claimed"} => state'[i] \in {"pending", "claimed"}
      BY <1>6 DEF AgentStep, Agent!Collect, Agent!CollectLost, Agent!Q!Take, Agent!Refused,
                  Agent!AgentDies, Agent!queue, Types
    <2>2. \A i \in Id : Installs(i, r) => Installs(i, r)'
      BY <2>1 DEF Installs
    <2>3. WillInstall(r) => WillInstall(r)'
      BY <2>1 DEF WillInstall
    <2> QED BY <1>0, <2>1, <2>2, <2>3, KeepsWaiting
  <1>7. ASSUME NEW m \in Machine, NEW ok \in BOOLEAN, Report(m, ok) PROVE WaitedFor(r)'
    <2>1. /\ answers' = answers \cup {[task |-> held[m], ok |-> ok]}
          /\ state' = [state EXCEPT ![held[m]] = IF ok THEN "done" ELSE "failed"]
          /\ UNCHANGED <<kind, subject, role, op, released, cut>>
      BY <1>7 DEF Report, Agent!Report, Agent!Q!Finish
    <2>2. ASSUME NEW i \in Id, Installs(i, r) PROVE Installs(i, r)'
      <3>1. CASE i = held[m]
        <4>1. [task |-> held[m], ok |-> ok] \in answers' /\ [task |-> held[m], ok |-> ok].task = i
          BY <2>1, <3>1
        <4> QED BY <2>1, <2>2, <4>1 DEF Installs
      <3>2. CASE i # held[m]
        <4>1. state'[i] = state[i] /\ answers \subseteq answers'
          BY <2>1, <3>2 DEF Types
        <4> QED BY <2>1, <2>2, <4>1 DEF Installs
      <3> QED BY <3>1, <3>2
    <2>3. WillInstall(r) => WillInstall(r)'
      BY <2>1 DEF WillInstall
    <2> QED BY <1>0, <2>1, <2>2, <2>3, KeepsWaiting
  <1>8. ASSUME NEW a \in answers, Settle(a) PROVE WaitedFor(r)'
    <2>1. /\ answers' = answers \ {a}
          /\ role' = [role EXCEPT ![subject[a.task]] = Outcome(a.task, a.ok)]
          /\ UNCHANGED <<state, kind, subject, op, released, cut>>
      BY <1>8 DEF Settle, Agent!Answered, Agent!queue
    <2>2. CASE r = subject[a.task]
      <3>1. role'[r] \in {"active", "failed", "removed"}
        BY <2>1, <2>2, OutcomeTypes DEF Types
      <3> QED BY <3>1 DEF WaitedFor
    <2>3. CASE r # subject[a.task]
      <3>1. role'[r] = role[r]
        BY <2>1, <2>3 DEF Types
      <3>2. \A i \in Id : Installs(i, r) => Installs(i, r)'
        BY <2>1, <2>3 DEF Installs
      <3>3. WillInstall(r) => WillInstall(r)'
        BY <2>1 DEF WillInstall
      <3> QED BY <1>0, <2>1, <3>1, <3>2, <3>3, KeepsWaiting
    <2> QED BY <2>2, <2>3
  <1>9. ASSUME NEW i \in Id, Release(i) PROVE WaitedFor(r)'
    <2>1. /\ released' = released \ {i}
          /\ UNCHANGED <<state, kind, subject, answers, op, cut>>
      BY <1>9 DEF Release, agent
    <2>2. role'[r] = "installing" => role[r] = "installing"
      BY <1>9 DEF Release, Types
    <2>3. CASE role'[r] = "installing"
      <3>1. ~ (subject[i] = r /\ kind[i] = "role-install")
        BY <1>9, <2>2, <2>3 DEF Release, Types
      <3>2. \A j \in Id : Installs(j, r) => Installs(j, r)'
        BY <2>1, <3>1 DEF Installs
      <3>3. WillInstall(r) => WillInstall(r)'
        BY <2>1 DEF WillInstall
      <3> QED BY <1>0, <2>1, <2>2, <3>2, <3>3, KeepsWaiting
    <2> QED BY <2>3 DEF WaitedFor
  <1>10. ASSUME NEW S \in SUBSET Id, Reap(S) PROVE WaitedFor(r)'
    <2>1. /\ state' = [i \in Id |-> IF i \in S THEN "failed" ELSE state[i]]
          /\ released' = released \cup S
          /\ UNCHANGED <<kind, subject, role, op, answers, cut>>
      BY <1>10 DEF Reap, Agent!Reap, Agent!Q!Expire, Id, Agent!Id
    <2>2. \A i \in Id : Installs(i, r) => Installs(i, r)'
      BY <2>1 DEF Installs
    <2>3. WillInstall(r) => WillInstall(r)'
      BY <2>1 DEF WillInstall
    <2> QED BY <1>0, <2>1, <2>2, <2>3, KeepsWaiting
  <1>11. CASE Cut
    <2>1. /\ cut' = cut \cup {op[p].row : p \in {q \in Request : op[q].pc # "idle"}}
                      \cup {subject[a.task] : a \in answers} \cup {subject[i] : i \in released}
          /\ UNCHANGED <<state, kind, subject, role>>
      BY <1>11 DEF Cut, Agent!HandlersStop, Agent!queue
    <2>2. \A i \in Id : Installs(i, r) => Installs(i, r)' \/ r \in cut'
      BY <2>1 DEF Installs
    <2>3. WillInstall(r) => r \in cut'
      BY <2>1 DEF WillInstall
    <2> QED BY <1>0, <2>1, <2>2, <2>3, KeepsWaiting
  <1>12. CASE UNCHANGED vars
    BY <1>0, <1>12, KeepsWaiting DEF vars, agent, Installs, WillInstall
  <1> QED BY <1>1, <1>2, <1>3, <1>4, <1>5, <1>6, <1>7, <1>8, <1>9, <1>10, <1>11, <1>12 DEF Next

-----------------------------------------------------------------------------

LEMMA InvariantKept == Spec => []IInv
  <1>1. Init => IInv
    BY InitTypes, InitHolds DEF IInv
  <1>2. IInv /\ [Next]_vars => IInv'
    BY TypesIsTypeOK, StepTypes, StepHeld, StepNewest, StepWaiting DEF IInv
  <1> QED BY <1>1, <1>2, PTL DEF Spec

\* However requests, results, reap and stops interleave, a role that says
\* "installing" is being installed, or a handler of its was lost midway
\* (routes_roles.install, tasks.reap).
THEOREM NoInstallIsForgotten == Spec => []InstallingIsWaitedFor
  BY InvariantKept, PTL DEF IInv

\* Recording a result and applying it to its row are two statements, but a row
\* with nothing under way says "active" only after its machine's last report
\* (routes_agent.agent_task_result): the agent waits for the answer before it
\* goes on to the row's next task.
THEOREM ActiveIsTrue == Spec => []ActiveIsLastReport
  <1>1. IInv => ActiveIsLastReport
    <2> SUFFICES ASSUME IInv, NEW r \in Role \ cut, role[r] = "active", Quiet(r)
                 PROVE  said[r] = "active"
      BY DEF ActiveIsLastReport
    <2>1. Applied(r)
      BY TypesIsTypeOK DEF IInv, Types, Quiet, Outstanding, Applied
    <2> QED BY <2>1 DEF IInv, SaidIsNewest
  <1> QED BY <1>1, InvariantKept, PTL

=============================================================================

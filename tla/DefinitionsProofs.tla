-------------------------- MODULE DefinitionsProofs --------------------------
(***************************************************************************)
(* For any machines, names, tunnels and requests, any number of tasks,     *)
(* edits, deaths, lost answers and stops of the control plane: what a row  *)
(* that says "applying" waits for, and, where requests about one           *)
(* definition come one after another, that the machine serves what the row *)
(* says.                                                                   *)
(***************************************************************************)
EXTENDS Definitions, TLAPS

\* What running task i to its end leaves of its name on the machine.
Left(i) == about[i].stamp

\* The last task queued for n, and the last apply of the row that n has.
Newest(i, n)    == i \in TasksOf(n) /\ \A j \in TasksOf(n) : j <= i
LastApply(i, n) == i \in AppliesOf(n) /\ \A j \in AppliesOf(n) : j <= i

\* No definition has the id 0, and none that is not there says anything.
IdsAreReal ==
  /\ \A p \in Request : op[p].pc \notin {"idle", "insert"} => op[p].id # 0
  /\ \A i \in Id : state[i] # "none" => about[i].id # 0
  /\ \A n \in Name : row[n].id = 0 => row[n].st = "none"

\* A machine's tasks are taken in the order they were queued, and while its
\* agent is on one, no later one has been done.
InTurn ==
  /\ \A i \in Id : state[i] # "none" => node[i] = NodeOf[about[i].name]
  /\ \A i, j \in Id : i < j /\ state[i] = "none" => state[j] = "none"
  /\ \A i, j \in Id : i < j /\ node[i] = node[j] /\ state[i] = "pending"
                        => state[j] \in {"none", "pending"}
  /\ \A a \in answers : state[a.task] \in {"done", "failed"}
  /\ \A m \in Machine : held[m] # 0 =>
       /\ held[m] \in Id /\ node[held[m]] = m /\ state[held[m]] \notin {"none", "pending"}
       /\ \A j \in Id : j > held[m] /\ node[j] = m => state[j] # "done"

\* What the last task left is still there: nothing earlier runs after it.
NewestIsServed ==
  \A n \in Name, i \in Id : Newest(i, n) /\ state[i] = "done" => served[n] = Left(i)

\* A request that is about to queue an apply for the row there is.
Asking(p, n) == op[p].pc = "enqueue-apply" /\ op[p].name = n /\ op[p].id = row[n].id

\* The last apply of the row, and no earlier one, is what "applying" is about.
Waited(n) == row[n].st = "applying" =>
  \/ \E p \in Request : Asking(p, n)
  \/ \E i \in Id : LastApply(i, n) /\ (Outstanding(i) \/ state[i] = "failed")

\* A request that will queue an apply for a row that has been deleted.
Behind(p, n) == op[p].pc \in {"mark", "enqueue-apply"} /\ op[p].name = n /\ op[p].id # row[n].id

\* Only the control plane's stop leaves a row that is not waited for, and no
\* request from before it is left to take the name out of cut.
RowsAreWaitedFor ==
  \A n \in Name : Waited(n) \/ (n \in cut /\ \A p \in Request : ~ Behind(p, n))

\* The machine has been told last what the row says.
TaskTells(n) ==
  IF row[n].id = 0 THEN \A i \in Id : Newest(i, n) => about[i].stamp = 0
  ELSE \E i \in Id : Newest(i, n) /\ about[i].stamp = row[n].stamp

\* A request has changed the row and not yet queued its task, or queued the
\* task and not yet deleted the row.
Ahead(n) == \E p \in Request : /\ op[p].name = n
                               /\ op[p].pc \in {"read", "mark", "enqueue-apply", "delete"}

\* What request p has read of n is still so, and a removal carries nothing and
\* has its task queued.
HasRead(p, n) == op[p].name = n =>
  /\ op[p].pc \notin {"idle", "insert"} => row[n].id = op[p].id
  /\ op[p].pc \in {"read", "mark", "enqueue-apply"} => op[p].stamp = row[n].stamp
  /\ op[p].pc = "enqueue-remove" => op[p].stamp = 0
  /\ op[p].pc = "delete" => \A i \in Id : Newest(i, n) => about[i].stamp = 0

NameIsTold(n) ==
  /\ \A p \in Request : HasRead(p, n)
  /\ n \in cut \/ Ahead(n) \/ TaskTells(n)

AllAreTold == \A n \in Name : NameIsTold(n)

\* Requests about one definition come one after another.
OneEach ==
  \A p, q \in Request : op[p].pc # "idle" /\ op[q].pc # "idle" /\ op[p].name = op[q].name => p = q

-----------------------------------------------------------------------------
(* Types.                                                                  *)

Doing == {"idle", "insert", "update", "read", "mark", "enqueue-apply", "enqueue-remove", "delete"}
Step  == [pc : Doing, name : Name, id : 0 .. MaxStamps, stamp : 0 .. MaxStamps]
Brief == [name : Name, id : 0 .. MaxStamps, stamp : 0 .. MaxStamps]
RowType == [id : 0 .. MaxStamps, stamp : 0 .. MaxStamps,
            st : {"none", "pending", "applying", "active", "failed"}]

QueueTypes ==
  /\ state \in [Id -> {"none", "pending", "claimed", "done", "failed"}]
  /\ node \in [Id -> Machine] /\ kind \in [Id -> Kind]
  /\ about \in [Id -> Brief]

Types ==
  /\ QueueTypes
  /\ held \in [Machine -> 0 .. MaxTasks]
  /\ answers \subseteq [task : Id, ok : BOOLEAN]
  /\ faults \in 0 .. MaxFaults
  /\ row \in [Name -> RowType]
  /\ op \in [Request -> Step]
  /\ served \in [Name -> 0 .. MaxStamps]
  /\ stamps \in 0 .. MaxStamps /\ cut \subseteq Name /\ cuts \in 0 .. MaxCuts

LEMMA TypesIsTypeOK == TypeOK <=> Types
  BY DEF TypeOK, Types, QueueTypes, Agent!TypeOK, Id, Agent!Id, Doing, Step, Brief, RowType

LEMMA Ids == Id = 1 .. MaxTasks /\ Id \subseteq 0 .. MaxTasks /\ 0 \in 0 .. MaxTasks /\ 0 \notin Id
  BY CountAssumption DEF CountAssumption, Id, Agent!Id, Agent!Q!Id

LEMMA Lives == Live = {"pending", "claimed"}
  BY DEF Live, Agent!Live, Agent!Q!Live

LEMMA Stamps == 0 \in 0 .. MaxStamps
  BY CountAssumption DEF CountAssumption

LEMMA Nothing == Idle \in Step /\ NoTask \in Brief /\ NoRow \in RowType /\ Idle.pc = "idle"
  <1>1. (CHOOSE n \in Name : TRUE) \in Name
    BY NameAssumption DEF NameAssumption
  <1> QED BY <1>1, Stamps DEF Idle, NoTask, NoRow, Step, Brief, RowType, Doing

LEMMA InitTypes == Init => TypeOK
  <1> SUFFICES ASSUME Init PROVE Types
    BY TypesIsTypeOK
  <1>1. (CHOOSE m \in Machine : TRUE) \in Machine /\ (CHOOSE k \in Kind : TRUE) \in Kind
    BY NameAssumption DEF NameAssumption, Kind
  <1> QED BY <1>1, Nothing, Ids, Stamps, CountAssumption
      DEF CountAssumption, Init, Agent!Init, Agent!Q!Init, Types, QueueTypes, Id, Agent!Id

\* What queueing a task does, row by row.
Queued(p, i, k) ==
  /\ i \in Id /\ state[i] = "none" /\ \A j \in Id : j < i => state[j] # "none"
  /\ state' = [state EXCEPT ![i] = "pending"]
  /\ node' = [node EXCEPT ![i] = NodeOf[op[p].name]]
  /\ kind' = [kind EXCEPT ![i] = k]
  /\ about' = [about EXCEPT ![i] = [name |-> op[p].name, id |-> op[p].id, stamp |-> op[p].stamp]]

LEMMA QueueIsQueued ==
  ASSUME NEW p \in Request, NEW k, Queue(p, k)
  PROVE  (\E i \in Id : Queued(p, i, k)) /\ UNCHANGED <<held, answers, faults>>
  BY DEF Queue, Queued, Agent!Q!Add, Id, Agent!Id, Agent!Q!Id

LEMMA OpTypes ==
  ASSUME Types, NEW p \in Request
  PROVE  /\ op[p] \in Step /\ op[p].pc \in Doing /\ op[p].name \in Name
         /\ op[p].id \in 0 .. MaxStamps /\ op[p].stamp \in 0 .. MaxStamps
  BY DEF Types, Step

LEMMA OpStep ==
  ASSUME Types, NEW p \in Request,
         \/ End(p)
         \/ \E where \in Doing : Goto(p, where)
         \/ \E s \in Step : op' = [op EXCEPT ![p] = s]
  PROVE  op' \in [Request -> Step]
  <1>1. CASE End(p)
    BY <1>1, Nothing DEF End, Types
  <1>2. ASSUME NEW where \in Doing, Goto(p, where) PROVE op' \in [Request -> Step]
    <2>1. [op[p] EXCEPT !.pc = where] \in Step
      BY OpTypes DEF Step
    <2>2. op' = [op EXCEPT ![p] = [op[p] EXCEPT !.pc = where]]
      BY <1>2 DEF Goto
    <2> QED BY <2>1, <2>2 DEF Types
  <1>3. ASSUME NEW s \in Step, op' = [op EXCEPT ![p] = s] PROVE op' \in [Request -> Step]
    BY <1>3 DEF Types
  <1> QED BY <1>1, <1>2, <1>3

LEMMA QueueStep ==
  ASSUME Types, NEW p \in Request, NEW k \in Kind, Queue(p, k)
  PROVE  QueueTypes' /\ UNCHANGED <<held, answers, faults>>
  <1>1. PICK i \in Id : Queued(p, i, k)
    BY QueueIsQueued
  <1>2. [name |-> op[p].name, id |-> op[p].id, stamp |-> op[p].stamp] \in Brief
    BY OpTypes DEF Brief
  <1>3. NodeOf[op[p].name] \in Machine
    BY OpTypes, NameAssumption DEF NameAssumption
  <1> QED BY <1>1, <1>2, <1>3, QueueIsQueued DEF Queued, Types, QueueTypes, Id, Agent!Id, Agent!Q!Id

\* The bound MaxStamps.
LEMMA NextStamp ==
  ASSUME Types, stamps + 1 <= MaxStamps
  PROVE  stamps + 1 \in 0 .. MaxStamps /\ stamps + 1 # 0
  BY CountAssumption DEF CountAssumption, Types

LEMMA RowStep ==
  ASSUME Types, NEW n \in Name, NEW r \in RowType, row' = [row EXCEPT ![n] = r]
  PROVE  row' \in [Name -> RowType]
  BY DEF Types

LEMMA InsertTypes ==
  ASSUME Types, NEW p \in Request, Insert(p) PROVE Types'
  <1> DEFINE n == op[p].name
             s == stamps + 1
  <1>1. CASE row[n].id # 0
    <2>1. op' \in [Request -> Step]
      BY <1>1, OpStep DEF Insert
    <2> QED BY <1>1, <2>1 DEF Insert, agent, Types, QueueTypes
  <1>2. CASE row[n].id = 0
    <2>1. s \in 0 .. MaxStamps /\ n \in Name
      BY <1>2, NextStamp, OpTypes DEF Insert
    <2>2. Dispatch(n) \in Doing
      BY DEF Dispatch, Doing
    <2>3. /\ [id |-> s, stamp |-> s, st |-> "pending"] \in RowType
          /\ [pc |-> Dispatch(n), name |-> n, id |-> s, stamp |-> s] \in Step
      BY <2>1, <2>2 DEF RowType, Step
    <2>4. row' \in [Name -> RowType]
      BY <1>2, <2>1, <2>3, RowStep DEF Insert
    <2>5. op' \in [Request -> Step]
      BY <1>2, <2>3, OpStep DEF Insert
    <2> QED BY <1>2, <2>1, <2>4, <2>5 DEF Insert, agent, Types, QueueTypes
  <1> QED BY <1>1, <1>2

LEMMA UpdateTypes ==
  ASSUME Types, NEW p \in Request, Update(p) PROVE Types'
  <1> DEFINE n == op[p].name
             s == stamps + 1
  <1>1. CASE ~ StillThere(p)
    <2>1. op' \in [Request -> Step]
      BY <1>1, OpStep DEF Update
    <2> QED BY <1>1, <2>1 DEF Update, agent, Types, QueueTypes
  <1>2. CASE StillThere(p)
    <2>1. s \in 0 .. MaxStamps /\ n \in Name
      BY <1>2, NextStamp, OpTypes DEF Update
    <2>2. Dispatch(n) \in Doing /\ row[n] \in RowType
      BY <2>1 DEF Dispatch, Doing, Types
    <2>3. /\ [row[n] EXCEPT !.stamp = s] \in RowType
          /\ [op[p] EXCEPT !.pc = Dispatch(n), !.stamp = s] \in Step
      BY <2>1, <2>2, OpTypes DEF RowType, Step
    <2>4. /\ row' = [row EXCEPT ![n] = [row[n] EXCEPT !.stamp = s]]
          /\ op' = [op EXCEPT ![p] = [op[p] EXCEPT !.pc = Dispatch(n), !.stamp = s]]
      BY <1>2 DEF Update
    <2>5. row' \in [Name -> RowType]
      BY <2>1, <2>3, <2>4, RowStep
    <2>6. op' \in [Request -> Step]
      BY <2>3, <2>4, OpStep
    <2> QED BY <1>2, <2>1, <2>5, <2>6 DEF Update, agent, Types, QueueTypes
  <1> QED BY <1>1, <1>2

LEMMA ReadTypes ==
  ASSUME Types, NEW p \in Request, Read(p) PROVE Types'
  <1>1. op' \in [Request -> Step]
    <2>1. CASE StillThere(p)
      <3>1. row[op[p].name] \in RowType
        BY OpTypes DEF Types
      <3>2. [op[p] EXCEPT !.pc = "mark", !.stamp = row[op[p].name].stamp] \in Step
        BY <3>1, OpTypes DEF Step, RowType, Doing
      <3> QED BY <2>1, <3>2, OpStep DEF Read
    <2>2. CASE ~ StillThere(p)
      BY <2>2, OpStep DEF Read
    <2> QED BY <2>1, <2>2
  <1> QED BY <1>1 DEF Read, agent, Types, QueueTypes

LEMMA MarkTypes ==
  ASSUME Types, NEW p \in Request, Mark(p) PROVE Types'
  <1>1. op' \in [Request -> Step]
    BY OpStep DEF Mark, Doing
  <1>2. row' \in [Name -> RowType]
    <2>1. row[op[p].name] \in RowType
      BY OpTypes DEF Types
    <2>2. [row[op[p].name] EXCEPT !.st = "applying"] \in RowType
      BY <2>1 DEF RowType
    <2>3. row' = row \/ row' = [row EXCEPT ![op[p].name] = [row[op[p].name] EXCEPT !.st = "applying"]]
      BY DEF Mark
    <2> QED BY <2>2, <2>3, OpTypes, RowStep DEF Types
  <1> QED BY <1>1, <1>2 DEF Mark, agent, Types, QueueTypes

LEMMA RequestTypes ==
  ASSUME Types, NEW p \in Request,
         \/ \E n \in Name : Create(p, n) \/ Edit(p, n) \/ Delete(p, n)
         \/ Insert(p) \/ Update(p) \/ Read(p) \/ Mark(p) \/ EnqueueApply(p)
         \/ EnqueueRemove(p) \/ DeleteRow(p)
  PROVE  Types'
  <1>1. ASSUME NEW n \in Name, Create(p, n) \/ Edit(p, n) \/ Delete(p, n) PROVE Types'
    <2>1. row[n].id \in 0 .. MaxStamps
      BY DEF Types, RowType
    <2>2. /\ [pc |-> "insert", name |-> n, id |-> 0, stamp |-> 0] \in Step
          /\ [pc |-> "update", name |-> n, id |-> row[n].id, stamp |-> 0] \in Step
          /\ [pc |-> "enqueue-remove", name |-> n, id |-> row[n].id, stamp |-> 0] \in Step
      BY <2>1, Stamps DEF Step, Doing
    <2>3. op' \in [Request -> Step]
      BY <1>1, <2>2, OpStep DEF Create, Edit, Delete
    <2> QED BY <1>1, <2>3 DEF Create, Edit, Delete, agent, Types, QueueTypes
  <1>2. CASE Insert(p) \/ Update(p) \/ Read(p) \/ Mark(p)
    BY <1>2, InsertTypes, UpdateTypes, ReadTypes, MarkTypes
  <1>3. CASE EnqueueApply(p)
    <2>1. QueueTypes' /\ UNCHANGED <<held, answers, faults>>
      BY <1>3, QueueStep DEF EnqueueApply, Kind
    <2>2. op' \in [Request -> Step]
      BY <1>3, OpStep DEF EnqueueApply
    <2> QED BY <1>3, <2>1, <2>2 DEF EnqueueApply, Types
  <1>4. CASE EnqueueRemove(p)
    <2>1. QueueTypes' /\ UNCHANGED <<held, answers, faults>>
      BY <1>4, QueueStep DEF EnqueueRemove, Removal, Kind
    <2>2. op' \in [Request -> Step]
      BY <1>4, OpStep DEF EnqueueRemove, Doing
    <2> QED BY <1>4, <2>1, <2>2 DEF EnqueueRemove, Types
  <1>5. CASE DeleteRow(p)
    <2>1. op' \in [Request -> Step]
      BY <1>5, OpStep DEF DeleteRow
    <2>2. row' \in [Name -> RowType]
      BY <1>5, OpTypes, Nothing, RowStep DEF DeleteRow, Types
    <2> QED BY <1>5, <2>1, <2>2 DEF DeleteRow, agent, Types, QueueTypes
  <1> QED BY <1>1, <1>2, <1>3, <1>4, <1>5

\* The machine's task, when its agent has one.
LEMMA HeldTypes ==
  ASSUME Types, NEW m \in Machine, held[m] # 0
  PROVE  held[m] \in Id
  <1>1. held[m] \in 0 .. MaxTasks
    BY DEF Types
  <1> QED BY <1>1, Ids, CountAssumption DEF CountAssumption

\* Whatever a task leaves, it leaves it of its own name.
LEMMA EffectIs ==
  ASSUME Types, NEW i \in Id
  PROVE  /\ Effect(i) = [served EXCEPT ![about[i].name] = Left(i)]
         /\ Left(i) \in 0 .. MaxStamps /\ about[i].name \in Name
         /\ Effect(i) \in [Name -> 0 .. MaxStamps]
  <1>1. about[i] \in Brief
    BY DEF Types, QueueTypes
  <1>2. Left(i) \in 0 .. MaxStamps /\ about[i].name \in Name
    BY <1>1, Stamps DEF Brief, Left
  <1>3. Effect(i) = [served EXCEPT ![about[i].name] = Left(i)]
    BY DEF Effect, Left
  <1> QED BY <1>2, <1>3 DEF Types

LEMMA MachineTypes ==
  ASSUME Types, NEW m \in Machine,
         Unreported(m) \/ \E ok \in BOOLEAN : Report(m, ok)
  PROVE  Types'
  <1>1. held[m] # 0
    BY DEF Unreported, Report, Agent!AgentDies, Agent!Refused, Agent!Report
  <1>2. held[m] \in Id
    BY <1>1, HeldTypes
  <1>3. served' \in [Name -> 0 .. MaxStamps]
    <2>1. served' \in {served, Effect(held[m])}
      BY DEF Unreported, Report
    <2> QED BY <1>2, <2>1, EffectIs DEF Types
  <1>4. ASSUME Agent!AgentDies(m) \/ Agent!Refused(m), Unreported(m) PROVE Types'
    <2>1. faults' \in 0 .. MaxFaults
      BY <1>4, CountAssumption DEF CountAssumption, Agent!AgentDies, Agent!Refused, Agent!Fault, Types
    <2>2. held' = [held EXCEPT ![m] = 0] /\ UNCHANGED <<state, node, kind, answers>>
      BY <1>4 DEF Agent!AgentDies, Agent!Refused, Agent!queue
    <2>3. UNCHANGED <<about, row, op, stamps, cut, cuts>>
      BY <1>4 DEF Unreported
    <2> QED BY <1>3, <2>1, <2>2, <2>3, Ids DEF Types, QueueTypes
  <1>5. ASSUME NEW ok \in BOOLEAN, Report(m, ok) PROVE Types'
    <2>1. [task |-> held[m], ok |-> ok] \in [task : Id, ok : BOOLEAN]
      BY <1>2
    <2> QED BY <1>2, <1>3, <1>5, <2>1 DEF Report, Agent!Report, Agent!Q!Finish, Types, QueueTypes
  <1> QED BY <1>4, <1>5 DEF Unreported

LEMMA SettleTypes ==
  ASSUME Types, NEW a \in answers, Settle(a) PROVE Types'
  <1> DEFINE n == about[a.task].name
  <1>1. n \in Name
    BY DEF Types, QueueTypes, Brief
  <1>2. row' \in [Name -> RowType]
    <2>1. row[n] \in RowType
      BY <1>1 DEF Types
    <2>2. [row[n] EXCEPT !.st = "active"] \in RowType /\ [row[n] EXCEPT !.st = "failed"] \in RowType
      BY <2>1 DEF RowType
    <2>3. \/ row' = row
          \/ row' = [row EXCEPT ![n] = [row[n] EXCEPT !.st = "active"]]
          \/ row' = [row EXCEPT ![n] = [row[n] EXCEPT !.st = "failed"]]
      BY DEF Settle
    <2> QED BY <1>1, <2>2, <2>3, RowStep DEF Types
  <1> QED BY <1>2, Ids DEF Settle, Agent!Answered, Agent!queue, Types, QueueTypes

LEMMA StepTypes ==
  ASSUME TypeOK, [Next]_vars PROVE TypeOK'
  <1> SUFFICES ASSUME Types PROVE Types'
    BY TypesIsTypeOK DEF TypeOK, Types, QueueTypes, Agent!TypeOK, Id, Agent!Id, Doing, Step, Brief,
                         RowType
  <1>1. ASSUME NEW p \in Request,
               \/ \E n \in Name : Create(p, n) \/ Edit(p, n) \/ Delete(p, n)
               \/ Insert(p) \/ Update(p) \/ Read(p) \/ Mark(p) \/ EnqueueApply(p)
               \/ EnqueueRemove(p) \/ DeleteRow(p)
        PROVE  Types'
    BY <1>1, RequestTypes
  <1>2. ASSUME NEW m \in Machine, Unreported(m) \/ \E ok \in BOOLEAN : Report(m, ok)
        PROVE  Types'
    BY <1>2, MachineTypes
  <1>3. CASE Collect
    <2>1. ASSUME NEW m \in Machine, NEW i \in Id, Agent!Collect(m, i) PROVE Types'
      BY <1>3, <2>1, Ids DEF Collect, Agent!Collect, Agent!Q!Take, Types, QueueTypes
    <2>2. ASSUME NEW i \in Id, Agent!CollectLost(i) PROVE Types'
      <3>1. faults' \in 0 .. MaxFaults
        BY <2>2, CountAssumption DEF CountAssumption, Agent!CollectLost, Agent!Fault, Types
      <3> QED BY <1>3, <2>2, <3>1 DEF Collect, Agent!CollectLost, Agent!Q!Take, Types, QueueTypes
    <2> QED BY <1>3, <2>1, <2>2 DEF Collect, Id
  <1>4. ASSUME NEW a \in answers, Settle(a) PROVE Types'
    BY <1>4, SettleTypes
  <1>5. ASSUME NEW S \in SUBSET Id, Reap(S) PROVE Types'
    BY <1>5 DEF Reap, Agent!Reap, Agent!Q!Expire, Types, QueueTypes, Id, Agent!Id
  <1>6. CASE Cut
    <2>1. op' \in [Request -> Step]
      BY <1>6, Nothing DEF Cut
    <2>2. cut' \subseteq Name
      BY <1>6, OpTypes DEF Types, QueueTypes, Brief, Cut
    <2>3. cuts' \in 0 .. MaxCuts
      BY <1>6, CountAssumption DEF CountAssumption, Types, Cut
    <2> QED BY <1>6, <2>1, <2>2, <2>3, Ids DEF Types, QueueTypes, Cut, Agent!HandlersStop, Agent!queue
  <1>7. CASE UNCHANGED vars
    BY <1>7 DEF vars, agent, Types, QueueTypes
  <1> QED BY <1>1, <1>2, <1>3, <1>4, <1>5, <1>6, <1>7 DEF Next

\* Rows, tasks and requests keep their types, for every number of each.
THEOREM TypesKept == Spec => []TypeOK
  BY InitTypes, StepTypes, PTL DEF Spec

-----------------------------------------------------------------------------
(* Tasks: their order, and what the last of a name has left.               *)

LEMMA InitHolds ==
  Init => /\ IdsAreReal /\ InTurn /\ NewestIsServed /\ RowsAreWaitedFor
          /\ \A n \in Name : NameIsTold(n)
  BY Ids, Nothing DEF Init, Agent!Init, Agent!Q!Init, Id, Agent!Id, IdsAreReal, InTurn,
     NewestIsServed, Newest, TasksOf, RowsAreWaitedFor, Waited, NoRow, NameIsTold, HasRead,
     TaskTells

\* A step after which the same tasks have been queued for the same things.
LEMMA TasksKept ==
  ASSUME Types, UNCHANGED <<kind, about>>, \A i \in Id : state'[i] = "none" <=> state[i] = "none"
  PROVE  /\ \A n : TasksOf(n)' = TasksOf(n)
         /\ \A n, i : Newest(i, n)' <=> Newest(i, n)
         /\ \A i : Left(i)' = Left(i)
  <1>1. \A n : TasksOf(n)' = TasksOf(n)
    BY DEF TasksOf
  <1> QED BY <1>1 DEF Newest, Left

\* The task a request queues comes behind all others and is for the name the
\* request is about.
LEMMA QueueRows ==
  ASSUME Types, InTurn, NEW p \in Request, NEW k \in Kind, NEW i \in Id, Queued(p, i, k)
  PROVE  /\ state[i] = "none" /\ state'[i] = "pending" /\ kind'[i] = k
         /\ node'[i] = NodeOf[op[p].name] /\ about'[i].name = op[p].name
         /\ about'[i].id = op[p].id /\ about'[i].stamp = op[p].stamp
         /\ \A j \in Id : j # i => /\ state'[j] = state[j] /\ kind'[j] = kind[j]
                                   /\ node'[j] = node[j] /\ about'[j] = about[j]
         /\ \A j \in Id : state[j] # "none" => j < i
  <1>1. /\ state'[i] = "pending" /\ kind'[i] = k /\ node'[i] = NodeOf[op[p].name]
        /\ about'[i] = [name |-> op[p].name, id |-> op[p].id, stamp |-> op[p].stamp]
        /\ \A j \in Id : j # i => /\ state'[j] = state[j] /\ kind'[j] = kind[j]
                                  /\ node'[j] = node[j] /\ about'[j] = about[j]
    BY DEF Queued, Types, QueueTypes
  <1>2. ASSUME NEW j \in Id, state[j] # "none" PROVE j < i
    <2>1. i \in Int /\ j \in Int /\ i # j
      BY <1>2, Ids DEF Queued
    <2>2. ~ (i < j)
      BY <1>2 DEF Queued, InTurn
    <2> QED BY <2>1, <2>2
  <1> QED BY <1>1, <1>2 DEF Queued

\* It is the newest of its name, and no other name has another.
LEMMA QueueNewest ==
  ASSUME Types, InTurn, NEW p \in Request, NEW k \in Kind, NEW i \in Id, Queued(p, i, k),
         NEW n \in Name, NEW j \in Id
  PROVE  Newest(j, n)' <=> IF n = op[p].name THEN j = i ELSE Newest(j, n)
  <1>1. /\ state[i] = "none" /\ state'[i] = "pending" /\ about'[i].name = op[p].name
        /\ \A l \in Id : l # i => state'[l] = state[l] /\ about'[l] = about[l]
        /\ \A l \in Id : state[l] # "none" => l < i
    BY QueueRows
  <1>2. \A l \in Id : l \in TasksOf(n)' <=> l \in TasksOf(n) \/ (l = i /\ n = op[p].name)
    BY <1>1 DEF TasksOf
  <1>3. \A l \in TasksOf(n) : l \in Id /\ l < i
    BY <1>1 DEF TasksOf
  <1>4. TasksOf(n)' = TasksOf(n) \cup (IF n = op[p].name THEN {i} ELSE {})
    <2>1. TasksOf(n)' \subseteq Id /\ TasksOf(n) \subseteq Id
      BY DEF TasksOf
    <2> QED BY <1>2, <2>1
  <1>5. CASE n = op[p].name
    BY <1>3, <1>4, <1>5, Ids DEF Newest
  <1>6. CASE n # op[p].name
    BY <1>4, <1>6 DEF Newest
  <1> QED BY <1>5, <1>6

LEMMA QueueTurn ==
  ASSUME Types, InTurn, NEW p \in Request, NEW k \in Kind, Queue(p, k)
  PROVE  InTurn'
  <1>1. PICK i \in Id : Queued(p, i, k)
    BY QueueIsQueued
  <1>2. UNCHANGED <<held, answers>>
    BY QueueIsQueued
  <1>3. /\ state'[i] = "pending" /\ node'[i] = NodeOf[about'[i].name]
        /\ \A j \in Id : j # i => /\ state'[j] = state[j] /\ node'[j] = node[j]
                                  /\ about'[j] = about[j]
        /\ \A j \in Id : state[j] # "none" => j < i
    BY <1>1, QueueRows
  <1>4. state[i] = "none" /\ \A j \in Id : j < i => state[j] # "none"
    BY <1>1 DEF Queued
  <1>5. \A j \in Id : state'[j] # "none" => node'[j] = NodeOf[about'[j].name]
    BY <1>3 DEF InTurn
  <1>6. \A j, l \in Id : j < l /\ state'[j] = "none" => state'[l] = "none"
    BY <1>3, <1>4, Ids DEF InTurn
  <1>7. ASSUME NEW j \in Id, NEW l \in Id, j < l, node'[j] = node'[l], state'[j] = "pending"
        PROVE  state'[l] \in {"none", "pending"}
    <2>1. CASE l = i
      BY <1>3, <2>1
    <2>2. CASE l # i /\ j # i
      BY <1>3, <1>7, <2>2 DEF InTurn
    <2>3. CASE j = i /\ l # i
      <3>1. state[l] = "none"
        BY <1>3, <1>7, <2>3, Ids
      <3> QED BY <1>3, <2>3, <3>1
    <2> QED BY <2>1, <2>2, <2>3
  <1>8. \A a \in answers : a.task \in Id /\ state'[a.task] \in {"done", "failed"}
    BY <1>3, <1>4 DEF Types, InTurn
  <1>9. ASSUME NEW m \in Machine, held[m] # 0
        PROVE  /\ held[m] \in Id /\ node'[held[m]] = m /\ state'[held[m]] \notin {"none", "pending"}
               /\ \A j \in Id : j > held[m] /\ node'[j] = m => state'[j] # "done"
    <2>1. held[m] # i
      BY <1>4, <1>9 DEF InTurn
    <2> QED BY <1>3, <1>9, <2>1 DEF InTurn
  <1> QED BY <1>2, <1>5, <1>6, <1>7, <1>8, <1>9 DEF InTurn

LEMMA TakeTurn ==
  ASSUME Types, InTurn, NEW i \in Id, Agent!Q!Take(i), UNCHANGED <<answers, about>>,
         \/ UNCHANGED held
         \/ \E m \in Machine : held[m] = 0 /\ node[i] = m /\ held' = [held EXCEPT ![m] = i]
  PROVE  InTurn'
  <1>1. /\ state[i] = "pending" /\ state' = [state EXCEPT ![i] = "claimed"]
        /\ \A j \in Id : j < i /\ node[j] = node[i] => state[j] # "pending"
        /\ UNCHANGED <<node, about, answers>>
    BY DEF Agent!Q!Take, Id, Agent!Id
  <1>2. state'[i] = "claimed" /\ \A j \in Id : j # i => state'[j] = state[j]
    BY <1>1 DEF Types, QueueTypes
  <1>3. \A j \in Id : state'[j] # "none" => node[j] = NodeOf[about[j].name]
    BY <1>1, <1>2 DEF InTurn
  <1>4. \A j, l \in Id : j < l /\ state'[j] = "none" => state'[l] = "none"
    BY <1>1, <1>2 DEF InTurn
  <1>5. \A j, l \in Id : j < l /\ node[j] = node[l] /\ state'[j] = "pending"
                           => state'[l] \in {"none", "pending"}
    BY <1>1, <1>2 DEF InTurn
  <1>6. \A a \in answers : a.task \in Id /\ state'[a.task] \in {"done", "failed"}
    BY <1>1, <1>2 DEF Types, InTurn
  <1>7. \A j \in Id : j > i /\ node[j] = node[i] => state'[j] # "done"
    <2>1. ASSUME NEW j \in Id, j > i, node[j] = node[i] PROVE state'[j] # "done"
      <3>1. i < j /\ j # i
        BY <2>1, Ids
      <3>2. state[j] \in {"none", "pending"}
        BY <1>1, <2>1, <3>1 DEF InTurn
      <3> QED BY <1>2, <3>1, <3>2
    <2> QED BY <2>1
  <1>8. ASSUME NEW m \in Machine, held'[m] # 0
        PROVE  /\ held'[m] \in Id /\ node[held'[m]] = m /\ state'[held'[m]] \notin {"none", "pending"}
               /\ \A j \in Id : j > held'[m] /\ node[j] = m => state'[j] # "done"
    <2>1. held'[m] = held[m] \/ (held'[m] = i /\ node[i] = m)
      <3>1. CASE UNCHANGED held
        BY <3>1
      <3>2. ASSUME NEW n \in Machine, node[i] = n, held' = [held EXCEPT ![n] = i]
            PROVE  held'[m] = held[m] \/ (held'[m] = i /\ node[i] = m)
        BY <3>2 DEF Types
      <3> QED BY <3>1, <3>2
    <2>2. CASE held'[m] = i /\ node[i] = m
      BY <1>2, <1>7, <2>2
    <2>3. CASE held'[m] = held[m]
      BY <1>2, <1>8, <2>3 DEF InTurn
    <2> QED BY <2>1, <2>2, <2>3
  <1> QED BY <1>1, <1>3, <1>4, <1>5, <1>6, <1>8 DEF InTurn

\* An agent lets go of its task.
LEMMA DropTurn ==
  ASSUME InTurn, UNCHANGED <<state, node, about>>, answers' \subseteq answers,
         \A m \in Machine : held'[m] # 0 => held'[m] = held[m]
  PROVE  InTurn'
  <1>1. \A m \in Machine : held'[m] # 0 =>
          /\ held'[m] \in Id /\ node[held'[m]] = m /\ state[held'[m]] \notin {"none", "pending"}
          /\ \A j \in Id : j > held'[m] /\ node[j] = m => state[j] # "done"
    BY DEF InTurn
  <1> QED BY <1>1 DEF InTurn

LEMMA ReportTurn ==
  ASSUME Types, InTurn, NEW m \in Machine, NEW ok \in BOOLEAN, Report(m, ok)
  PROVE  InTurn'
  <1> DEFINE h == held[m]
  <1>1. h # 0 /\ h \in Id /\ state[h] = "claimed" /\ node[h] = m
    BY HeldTypes DEF Report, Agent!Report, Agent!Q!Finish, InTurn
  <1>2. /\ state' = [state EXCEPT ![h] = IF ok THEN "done" ELSE "failed"]
        /\ answers' = answers \cup {[task |-> h, ok |-> ok]}
        /\ UNCHANGED <<node, held, about>>
    BY DEF Report, Agent!Report, Agent!Q!Finish
  <1>3. state'[h] \in {"done", "failed"} /\ \A j \in Id : j # h => state'[j] = state[j]
    BY <1>1, <1>2 DEF Types, QueueTypes
  <1>4. \A j \in Id : state'[j] # "none" => node[j] = NodeOf[about[j].name]
    BY <1>1, <1>3 DEF InTurn
  <1>5. \A j, l \in Id : j < l /\ state'[j] = "none" => state'[l] = "none"
    BY <1>1, <1>3 DEF InTurn
  <1>6. \A j, l \in Id : j < l /\ node[j] = node[l] /\ state'[j] = "pending"
                           => state'[l] \in {"none", "pending"}
    BY <1>1, <1>3 DEF InTurn
  <1>7. \A a \in answers' : state'[a.task] \in {"done", "failed"}
    <2>1. \A a \in answers : a.task \in Id /\ state[a.task] \in {"done", "failed"}
      BY DEF Types, InTurn
    <2> QED BY <1>1, <1>2, <1>3, <2>1
  <1>8. ASSUME NEW n \in Machine, held[n] # 0
        PROVE  /\ held[n] \in Id /\ node[held[n]] = n /\ state'[held[n]] \notin {"none", "pending"}
               /\ \A j \in Id : j > held[n] /\ node[j] = n => state'[j] # "done"
    <2>1. held[n] \in Id /\ node[held[n]] = n /\ state'[held[n]] \notin {"none", "pending"}
      BY <1>3, <1>8 DEF InTurn
    <2>2. ASSUME NEW j \in Id, j > held[n], node[j] = n PROVE state'[j] # "done"
      <3>1. j # h
        BY <1>1, <2>1, <2>2, Ids
      <3> QED BY <1>3, <1>8, <2>2, <3>1 DEF InTurn
    <2> QED BY <2>1, <2>2
  <1> QED BY <1>2, <1>4, <1>5, <1>6, <1>7, <1>8 DEF InTurn

LEMMA ReapTurn ==
  ASSUME Types, InTurn, NEW S \in SUBSET Id, Reap(S)
  PROVE  InTurn'
  <1>1. /\ state' = [i \in Id |-> IF i \in S THEN "failed" ELSE state[i]]
        /\ \A i \in S : state[i] \in {"pending", "claimed"}
        /\ \A j \in S, i \in Id : i < j /\ state[i] = "pending" /\ state[j] = "pending" => i \in S
        /\ UNCHANGED <<node, held, answers, about>>
    BY DEF Reap, Agent!Reap, Agent!Q!Expire, Agent!Q!Live, Id, Agent!Id
  <1>2. \A j, l \in Id : j < l /\ state'[j] = "none" => state'[l] = "none"
    BY <1>1 DEF InTurn
  <1>3. ASSUME NEW j \in Id, NEW l \in Id, j < l, node[j] = node[l], state'[j] = "pending"
        PROVE  state'[l] \in {"none", "pending"}
    <2>1. j \notin S /\ state[j] = "pending"
      BY <1>1, <1>3
    <2>2. state[l] \in {"none", "pending"}
      BY <1>3, <2>1 DEF InTurn
    <2>3. l \notin S
      BY <1>1, <1>3, <2>1, <2>2
    <2> QED BY <1>1, <2>2, <2>3
  <1>4. \A i \in Id : state'[i] # "none" => state[i] # "none"
    BY <1>1
  <1>5. \A a \in answers : a.task \in Id /\ state'[a.task] = state[a.task]
    BY <1>1 DEF Types, InTurn
  <1>6. \A i \in Id : (state'[i] = "done" => state[i] = "done")
                      /\ (state'[i] = "pending" => state[i] = "pending")
    BY <1>1
  <1>7. \A m \in Machine : held[m] # 0 =>
          /\ held[m] \in Id /\ node[held[m]] = m /\ state'[held[m]] \notin {"none", "pending"}
          /\ \A j \in Id : j > held[m] /\ node[j] = m => state'[j] # "done"
    BY <1>1, <1>6 DEF InTurn
  <1> QED BY <1>1, <1>2, <1>3, <1>4, <1>5, <1>7 DEF InTurn

LEMMA StepTurn ==
  ASSUME Types, InTurn, [Next]_vars PROVE InTurn'
  <1>1. ASSUME NEW p \in Request, NEW n \in Name, Create(p, n) \/ Edit(p, n) \/ Delete(p, n)
        PROVE  InTurn'
    BY <1>1 DEF Create, Edit, Delete, agent, InTurn
  <1>2. ASSUME NEW p \in Request, Insert(p) \/ Update(p) \/ Read(p) \/ Mark(p) \/ DeleteRow(p)
        PROVE  InTurn'
    <2>1. UNCHANGED <<agent, about>>
      BY <1>2 DEF Insert, Update, Read, Mark, DeleteRow
    <2> QED BY <2>1 DEF agent, InTurn
  <1>3. ASSUME NEW p \in Request, EnqueueApply(p) \/ EnqueueRemove(p) PROVE InTurn'
    BY <1>3, QueueTurn DEF EnqueueApply, EnqueueRemove, Removal, Kind
  <1>4. ASSUME NEW m \in Machine, Unreported(m) PROVE InTurn'
    <2>1. held' = [held EXCEPT ![m] = 0] /\ UNCHANGED <<state, node, answers, about>>
      BY <1>4 DEF Unreported, Agent!AgentDies, Agent!Refused, Agent!queue
    <2> QED BY <2>1, DropTurn DEF Types
  <1>5. ASSUME NEW m \in Machine, NEW ok \in BOOLEAN, Report(m, ok) PROVE InTurn'
    BY <1>5, ReportTurn
  <1>6. CASE Collect
    BY <1>6, TakeTurn DEF Collect, Agent!Collect, Agent!CollectLost, Id
  <1>7. ASSUME NEW a \in answers, Settle(a) PROVE InTurn'
    <2>1. /\ answers' \subseteq answers /\ UNCHANGED <<state, node, about>>
          /\ \A m \in Machine : held'[m] # 0 => held'[m] = held[m]
      BY <1>7 DEF Settle, Agent!Answered, Agent!queue
    <2> QED BY <2>1, DropTurn
  <1>8. ASSUME NEW S \in SUBSET Id, Reap(S) PROVE InTurn'
    BY <1>8, ReapTurn
  <1>9. CASE Cut
    <2>1. /\ answers' \subseteq answers /\ UNCHANGED <<state, node, about>>
          /\ \A m \in Machine : held'[m] # 0 => held'[m] = held[m]
      BY <1>9 DEF Cut, Agent!HandlersStop, Agent!queue
    <2> QED BY <2>1, DropTurn
  <1>10. CASE UNCHANGED vars
    BY <1>10 DEF vars, agent, InTurn
  <1> QED BY <1>1, <1>2, <1>3, <1>4, <1>5, <1>6, <1>7, <1>8, <1>9, <1>10 DEF Next

-----------------------------------------------------------------------------
(* What a request's statement does to it and to the row it is about.       *)

LEMMA EndIs ==
  ASSUME Types, NEW p \in Request, End(p)
  PROVE  op'[p].pc = "idle" /\ \A q \in Request : q # p => op'[q] = op[q]
  BY Nothing DEF End, Types

LEMMA GotoIs ==
  ASSUME Types, NEW p \in Request, NEW where, Goto(p, where)
  PROVE  /\ op'[p].pc = where /\ op'[p].name = op[p].name
         /\ op'[p].id = op[p].id /\ op'[p].stamp = op[p].stamp
         /\ \A q \in Request : q # p => op'[q] = op[q]
  BY DEF Goto, Types, Step

LEMMA StartIs ==
  ASSUME Types, NEW p \in Request, NEW n \in Name, Create(p, n) \/ Edit(p, n) \/ Delete(p, n)
  PROVE  /\ op[p].pc = "idle" /\ op'[p].name = n /\ op'[p].id = row[n].id /\ op'[p].stamp = 0
         /\ op'[p].pc = "insert" \/ (op'[p].pc \in {"update", "enqueue-remove"} /\ row[n].id # 0)
         /\ \A q \in Request : q # p => op'[q] = op[q]
         /\ UNCHANGED <<agent, about, row, served, stamps, cut, cuts>>
  BY DEF Create, Edit, Delete, Types

LEMMA InsertIs ==
  ASSUME Types, NEW p \in Request, Insert(p), NEW n \in Name, n = op[p].name
  PROVE  /\ op[p].pc = "insert" /\ \A q \in Request : q # p => op'[q] = op[q]
         /\ \A l \in Name : l # n => row'[l] = row[l]
         /\ \/ op'[p].pc = "idle" /\ row' = row
            \/ /\ op'[p].pc \in {"read", "mark"} /\ op'[p].name = n
               /\ op'[p].id = row'[n].id /\ op'[p].stamp = row'[n].stamp
               /\ row[n].id = 0 /\ row'[n].id # 0 /\ row'[n].st = "pending"
         /\ UNCHANGED <<agent, about, served, cut, cuts>>
  <1>1. CASE row[n].id # 0
    BY <1>1, EndIs DEF Insert
  <1>2. CASE row[n].id = 0
    <2> DEFINE s == stamps + 1
    <2>1. /\ s <= MaxStamps
          /\ row' = [row EXCEPT ![n] = [id |-> s, stamp |-> s, st |-> "pending"]]
          /\ op' = [op EXCEPT ![p] = [pc |-> Dispatch(n), name |-> n, id |-> s, stamp |-> s]]
      BY <1>2 DEF Insert
    <2>2. s # 0 /\ Dispatch(n) \in {"read", "mark"}
      BY <2>1, NextStamp DEF Dispatch
    <2> HIDE DEF s
    <2>3. row'[n] = [id |-> s, stamp |-> s, st |-> "pending"] /\ \A l \in Name : l # n => row'[l] = row[l]
      BY <2>1 DEF Types
    <2>4. op'[p] = [pc |-> Dispatch(n), name |-> n, id |-> s, stamp |-> s]
          /\ \A q \in Request : q # p => op'[q] = op[q]
      BY <2>1 DEF Types
    <2> QED BY <1>2, <2>2, <2>3, <2>4 DEF Insert
  <1> QED BY <1>1, <1>2

LEMMA UpdateIs ==
  ASSUME Types, NEW p \in Request, Update(p), NEW n \in Name, n = op[p].name
  PROVE  /\ op[p].pc = "update" /\ \A q \in Request : q # p => op'[q] = op[q]
         /\ \A l \in Name : l # n => row'[l] = row[l]
         /\ \/ op'[p].pc = "idle" /\ row' = row
            \/ /\ op'[p].pc \in {"read", "mark"} /\ op'[p].name = n /\ op'[p].id = op[p].id
               /\ row'[n].id = row[n].id /\ row[n].id = op[p].id
               /\ op'[p].stamp = row'[n].stamp /\ row'[n].st = row[n].st
         /\ UNCHANGED <<agent, about, served, cut, cuts>>
  <1>1. CASE ~ StillThere(p)
    BY <1>1, EndIs DEF Update
  <1>2. CASE StillThere(p)
    <2> DEFINE s == stamps + 1
    <2>1. /\ row' = [row EXCEPT ![n].stamp = s]
          /\ op' = [op EXCEPT ![p] = [op[p] EXCEPT !.pc = Dispatch(n), !.stamp = s]]
      BY <1>2 DEF Update
    <2>2. Dispatch(n) \in {"read", "mark"}
      BY DEF Dispatch
    <2> HIDE DEF s
    <2>3. row'[n] = [row[n] EXCEPT !.stamp = s] /\ \A l \in Name : l # n => row'[l] = row[l]
      BY <2>1 DEF Types
    <2>4. op'[p] = [op[p] EXCEPT !.pc = Dispatch(n), !.stamp = s]
          /\ \A q \in Request : q # p => op'[q] = op[q]
      BY <2>1 DEF Types
    <2>5. op[p] \in Step /\ row[n] \in RowType
      BY OpTypes DEF Types
    <2>6. row'[n].stamp = s /\ row'[n].id = row[n].id /\ row'[n].st = row[n].st
      BY <2>3, <2>5 DEF RowType
    <2>7. op'[p].pc = Dispatch(n) /\ op'[p].stamp = s /\ op'[p].id = op[p].id /\ op'[p].name = op[p].name
      BY <2>4, <2>5 DEF Step
    <2> QED BY <1>2, <2>2, <2>3, <2>4, <2>6, <2>7 DEF Update, StillThere
  <1> QED BY <1>1, <1>2

LEMMA ReadIs ==
  ASSUME Types, NEW p \in Request, Read(p), NEW n \in Name, n = op[p].name
  PROVE  /\ op[p].pc = "read" /\ \A q \in Request : q # p => op'[q] = op[q]
         /\ \/ op'[p].pc = "idle" /\ row[n].id # op[p].id
            \/ /\ op'[p].pc = "mark" /\ op'[p].name = n /\ op'[p].id = op[p].id
               /\ row[n].id = op[p].id /\ op'[p].stamp = row[n].stamp
         /\ UNCHANGED <<agent, about, row, served, cut, cuts>>
  <1>1. CASE ~ StillThere(p)
    BY <1>1, EndIs DEF Read, StillThere
  <1>2. CASE StillThere(p)
    <2>1. op' = [op EXCEPT ![p] = [op[p] EXCEPT !.pc = "mark", !.stamp = row[n].stamp]]
      BY <1>2 DEF Read
    <2>2. op'[p] = [op[p] EXCEPT !.pc = "mark", !.stamp = row[n].stamp]
          /\ \A q \in Request : q # p => op'[q] = op[q]
      BY <2>1 DEF Types
    <2>3. op[p] \in Step
      BY OpTypes
    <2>4. op'[p].pc = "mark" /\ op'[p].name = n /\ op'[p].id = op[p].id /\ op'[p].stamp = row[n].stamp
      BY <2>2, <2>3 DEF Step
    <2> QED BY <1>2, <2>2, <2>4 DEF Read, StillThere
  <1> QED BY <1>1, <1>2

LEMMA MarkIs ==
  ASSUME Types, NEW p \in Request, Mark(p), NEW n \in Name, n = op[p].name
  PROVE  /\ op[p].pc = "mark" /\ \A q \in Request : q # p => op'[q] = op[q]
         /\ op'[p].pc = "enqueue-apply" /\ op'[p].name = n /\ op'[p].id = op[p].id
         /\ op'[p].stamp = op[p].stamp
         /\ \A l \in Name : l # n => row'[l] = row[l]
         /\ row'[n].id = row[n].id /\ row'[n].stamp = row[n].stamp
         /\ row'[n].st = row[n].st \/ row[n].id = op[p].id
         /\ UNCHANGED <<agent, about, served, cut, cuts>>
  <1>1. /\ op'[p].pc = "enqueue-apply" /\ op'[p].name = op[p].name /\ op'[p].id = op[p].id
        /\ op'[p].stamp = op[p].stamp /\ \A q \in Request : q # p => op'[q] = op[q]
    BY GotoIs DEF Mark
  <1>2. row[n] \in RowType
    BY DEF Types
  <1>3. row' = row \/ (row[n].id = op[p].id /\ row' = [row EXCEPT ![n].st = "applying"])
    BY DEF Mark, StillThere
  <1>4. /\ \A l \in Name : l # n => row'[l] = row[l]
        /\ row'[n].id = row[n].id /\ row'[n].stamp = row[n].stamp
        /\ row'[n].st = row[n].st \/ row[n].id = op[p].id
    BY <1>2, <1>3 DEF Types, RowType
  <1> QED BY <1>1, <1>4 DEF Mark

LEMMA DeleteRowIs ==
  ASSUME Types, NEW p \in Request, DeleteRow(p), NEW n \in Name, n = op[p].name
  PROVE  /\ op[p].pc = "delete" /\ op'[p].pc = "idle" /\ \A q \in Request : q # p => op'[q] = op[q]
         /\ \A l \in Name : l # n => row'[l] = row[l]
         /\ IF row[n].id = op[p].id THEN row'[n].id = 0 /\ row'[n].st = "none"
                                    ELSE row' = row
         /\ UNCHANGED <<agent, about, served, cut, cuts>>
  BY EndIs DEF DeleteRow, StillThere, NoRow, Types

\* A result changes what a row says, of the row it is about and no other.
LEMMA SettleIs ==
  ASSUME Types, NEW a \in answers, Settle(a)
  PROVE  /\ UNCHANGED <<state, node, kind, about, op, served, cut, cuts>>
         /\ \A n \in Name : row'[n].id = row[n].id /\ row'[n].stamp = row[n].stamp
         /\ \A n \in Name : row'[n].st \in {row[n].st, "active", "failed"}
         /\ \A n \in Name : row'[n].st # row[n].st =>
              kind[a.task] = "apply" /\ n = about[a.task].name /\ row[n].id = about[a.task].id
         /\ \A n \in Name : /\ kind[a.task] = "apply" /\ n = about[a.task].name
                            /\ row[n].id = about[a.task].id
                            => row'[n].st \in {"active", "failed"}
         /\ answers' = answers \ {a}
  <1> DEFINE n == about[a.task].name
  <1>1. n \in Name /\ row[n] \in RowType
    BY DEF Types, QueueTypes, Brief
  <1>2. /\ UNCHANGED <<state, node, kind, about, op, served, cut, cuts>> /\ answers' = answers \ {a}
        /\ IF kind[a.task] = "apply" /\ row[n].id = about[a.task].id
           THEN \E s \in {"active", "failed"} : row' = [row EXCEPT ![n].st = s]
           ELSE row' = row
    BY DEF Settle, Agent!Answered, Agent!queue
  <1> HIDE DEF n
  <1>3. CASE row' = row /\ ~ (kind[a.task] = "apply" /\ row[n].id = about[a.task].id)
    BY <1>2, <1>3 DEF n
  <1>4. ASSUME NEW s \in {"active", "failed"}, row' = [row EXCEPT ![n].st = s],
               kind[a.task] = "apply" /\ row[n].id = about[a.task].id
        PROVE  /\ \A l \in Name : row'[l].id = row[l].id /\ row'[l].stamp = row[l].stamp
               /\ row'[n].st = s /\ \A l \in Name : l # n => row'[l].st = row[l].st
    BY <1>1, <1>4 DEF Types, RowType
  <1>5. CASE kind[a.task] = "apply" /\ row[n].id = about[a.task].id
    BY <1>2, <1>4, <1>5 DEF n
  <1> QED BY <1>2, <1>3, <1>5

LEMMA StepReal ==
  ASSUME Types, InTurn, IdsAreReal, [Next]_vars PROVE IdsAreReal'
  <1>1. ASSUME NEW p \in Request, NEW n \in Name, Create(p, n) \/ Edit(p, n) \/ Delete(p, n)
        PROVE  IdsAreReal'
    BY <1>1, StartIs DEF IdsAreReal, agent
  <1>2. ASSUME NEW p \in Request, Insert(p) \/ Update(p) \/ Read(p) \/ Mark(p) \/ DeleteRow(p)
        PROVE  IdsAreReal'
    <2>1. PICK n \in Name : n = op[p].name
      BY OpTypes
    <2>2. CASE Insert(p)
      BY <2>1, <2>2, InsertIs DEF IdsAreReal, agent
    <2>3. CASE Update(p)
      BY <2>1, <2>3, UpdateIs DEF IdsAreReal, agent
    <2>4. CASE Read(p)
      BY <2>1, <2>4, ReadIs DEF IdsAreReal, agent
    <2>5. CASE Mark(p)
      BY <2>1, <2>5, MarkIs DEF IdsAreReal, agent
    <2>6. CASE DeleteRow(p)
      BY <2>1, <2>6, DeleteRowIs DEF IdsAreReal, agent
    <2> QED BY <1>2, <2>2, <2>3, <2>4, <2>5, <2>6
  <1>3. ASSUME NEW p \in Request, EnqueueApply(p) \/ EnqueueRemove(p) PROVE IdsAreReal'
    <2>1. PICK k \in Kind, i \in Id : Queued(p, i, k)
      BY <1>3, QueueIsQueued DEF EnqueueApply, EnqueueRemove, Removal, Kind
    <2>2. op[p].id # 0 /\ UNCHANGED row
      BY <1>3 DEF EnqueueApply, EnqueueRemove, IdsAreReal
    <2>3. about'[i].id # 0 /\ \A j \in Id : j # i => state'[j] = state[j] /\ about'[j] = about[j]
      BY <2>1, <2>2 DEF Queued, Types, QueueTypes
    <2>4. \A q \in Request : op'[q].pc \notin {"idle", "insert"} => op'[q].id # 0
      <3>1. CASE EnqueueApply(p)
        BY <3>1, EndIs DEF EnqueueApply, IdsAreReal
      <3>2. CASE EnqueueRemove(p)
        BY <2>2, <3>2, GotoIs DEF EnqueueRemove, IdsAreReal
      <3> QED BY <1>3, <3>1, <3>2
    <2> QED BY <2>2, <2>3, <2>4 DEF IdsAreReal
  <1>4. ASSUME NEW m \in Machine, Unreported(m) PROVE IdsAreReal'
    BY <1>4 DEF Unreported, Agent!AgentDies, Agent!Refused, Agent!queue, IdsAreReal
  <1>5. ASSUME NEW m \in Machine, NEW ok \in BOOLEAN, Report(m, ok) PROVE IdsAreReal'
    <2>1. \A i \in Id : state'[i] # "none" => state[i] # "none"
      BY <1>5 DEF Report, Agent!Report, Agent!Q!Finish, Types, QueueTypes
    <2> QED BY <1>5, <2>1 DEF Report, IdsAreReal
  <1>6. CASE Collect
    <2>1. \A i \in Id : state'[i] # "none" => state[i] # "none"
      BY <1>6 DEF Collect, Agent!Collect, Agent!CollectLost, Agent!Q!Take, Types, QueueTypes
    <2> QED BY <1>6, <2>1 DEF Collect, IdsAreReal
  <1>7. ASSUME NEW a \in answers, Settle(a) PROVE IdsAreReal'
    <2>1. about[a.task].id # 0
      BY DEF Types, InTurn, IdsAreReal
    <2> QED BY <1>7, <2>1, SettleIs DEF IdsAreReal
  <1>8. ASSUME NEW S \in SUBSET Id, Reap(S) PROVE IdsAreReal'
    <2>1. \A i \in Id : state'[i] # "none" => state[i] # "none"
      BY <1>8 DEF Reap, Agent!Reap, Agent!Q!Expire, Agent!Q!Live, Id, Agent!Id
    <2> QED BY <1>8, <2>1 DEF Reap, IdsAreReal
  <1>9. CASE Cut
    BY <1>9, Nothing DEF Cut, Agent!HandlersStop, Agent!queue, IdsAreReal
  <1>10. CASE UNCHANGED vars
    BY <1>10 DEF vars, agent, IdsAreReal
  <1> QED BY <1>1, <1>2, <1>3, <1>4, <1>5, <1>6, <1>7, <1>8, <1>9, <1>10 DEF Next

-----------------------------------------------------------------------------
(* What the last task has left.                                            *)

\* While an agent is on a task, the last one of the task's name, if it is
\* another, has not been done.
LEMMA NewestIsLater ==
  ASSUME Types, InTurn, NEW m \in Machine, held[m] # 0, NEW n \in Name, n = about[held[m]].name,
         NEW i \in Id, Newest(i, n), i # held[m]
  PROVE  state[i] # "done"
  <1>1. held[m] \in Id /\ node[held[m]] = m /\ state[held[m]] # "none"
    BY DEF InTurn
  <1>2. held[m] \in TasksOf(n) /\ i \in TasksOf(n)
    BY <1>1 DEF TasksOf, Newest
  <1>3. held[m] <= i /\ state[i] # "none" /\ about[i].name = n
    BY <1>2 DEF TasksOf, Newest
  <1>4. held[m] < i
    BY <1>1, <1>3, Ids
  <1>5. node[i] = m
    BY <1>1, <1>3 DEF InTurn
  <1> QED BY <1>4, <1>5 DEF InTurn

LEMMA RunServed ==
  ASSUME Types, InTurn, NewestIsServed, NEW m \in Machine, held[m] # 0,
         UNCHANGED <<kind, about>>, \A i \in Id : state'[i] = "none" <=> state[i] = "none",
         \A i \in Id : state'[i] = "done" => state[i] = "done" \/ (i = held[m] /\ served' = Effect(i)),
         served' \in {served, Effect(held[m])}
  PROVE  NewestIsServed'
  <1> SUFFICES ASSUME NEW n \in Name, NEW i \in Id, Newest(i, n)', state'[i] = "done"
               PROVE  served'[n] = Left(i)'
    BY DEF NewestIsServed
  <1>1. Newest(i, n) /\ Left(i)' = Left(i)
    BY TasksKept
  <1>2. i \in TasksOf(n) /\ about[i].name = n
    BY <1>1 DEF Newest, TasksOf
  <1>3. PICK l \in Name : l = about[held[m]].name
    BY HeldTypes DEF Types, QueueTypes, Brief
  <1>4. /\ Effect(held[m]) = [served EXCEPT ![l] = Left(held[m])]
        /\ Effect(i) = [served EXCEPT ![n] = Left(i)]
    BY <1>2, <1>3, HeldTypes, EffectIs
  <1>5. CASE i = held[m]
    <2>1. l = n
      BY <1>2, <1>3, <1>5
    <2>2. served[n] = Left(i) \/ served' = Effect(i)
      BY <1>1, <1>5 DEF NewestIsServed
    <2>3. served' = served \/ served' = Effect(i)
      BY <1>5
    <2>4. Effect(i)[n] = Left(i)
      BY <1>4 DEF Types
    <2> QED BY <1>1, <2>2, <2>3, <2>4
  <1>6. CASE i # held[m]
    <2>1. state[i] = "done"
      BY <1>6
    <2>2. l # n
      BY <1>1, <1>3, <1>6, <2>1, NewestIsLater
    <2>3. served'[n] = served[n]
      BY <1>4, <2>2 DEF Types
    <2> QED BY <1>1, <2>1, <2>3 DEF NewestIsServed
  <1> QED BY <1>5, <1>6

\* The rest of the steps do none of the tasks.
LEMMA KeepsServed ==
  ASSUME Types, NewestIsServed, UNCHANGED <<kind, about, served>>,
         \A i \in Id : state'[i] = "none" <=> state[i] = "none",
         \A i \in Id : state'[i] = "done" => state[i] = "done"
  PROVE  NewestIsServed'
  BY TasksKept DEF NewestIsServed

LEMMA QueueServed ==
  ASSUME Types, InTurn, NewestIsServed, NEW p \in Request, NEW k \in Kind, Queue(p, k),
         UNCHANGED served
  PROVE  NewestIsServed'
  <1>1. PICK i \in Id : Queued(p, i, k)
    BY QueueIsQueued
  <1>2. /\ state'[i] = "pending"
        /\ \A j \in Id : j # i => state'[j] = state[j] /\ kind'[j] = kind[j] /\ about'[j] = about[j]
    BY <1>1, QueueRows
  <1> SUFFICES ASSUME NEW n \in Name, NEW j \in Id, Newest(j, n)', state'[j] = "done"
               PROVE  served'[n] = Left(j)'
    BY DEF NewestIsServed
  <1>3. j # i
    BY <1>2
  <1>4. Newest(j, n)
    BY <1>1, <1>3, QueueNewest
  <1>5. state[j] = "done" /\ Left(j)' = Left(j)
    BY <1>2, <1>3 DEF Left
  <1> QED BY <1>4, <1>5 DEF NewestIsServed

LEMMA StepServed ==
  ASSUME Types, InTurn, NewestIsServed, [Next]_vars PROVE NewestIsServed'
  <1>1. ASSUME NEW p \in Request, NEW n \in Name, Create(p, n) \/ Edit(p, n) \/ Delete(p, n)
        PROVE  NewestIsServed'
    BY <1>1, StartIs, KeepsServed DEF agent
  <1>2. ASSUME NEW p \in Request, Insert(p) \/ Update(p) \/ Read(p) \/ Mark(p) \/ DeleteRow(p)
        PROVE  NewestIsServed'
    <2>1. UNCHANGED <<agent, about, served>>
      BY <1>2 DEF Insert, Update, Read, Mark, DeleteRow
    <2> QED BY <2>1, KeepsServed DEF agent
  <1>3. ASSUME NEW p \in Request, EnqueueApply(p) \/ EnqueueRemove(p) PROVE NewestIsServed'
    BY <1>3, QueueServed DEF EnqueueApply, EnqueueRemove, Removal, Kind
  <1>4. ASSUME NEW m \in Machine, Unreported(m) PROVE NewestIsServed'
    <2>1. /\ held[m] # 0 /\ UNCHANGED <<state, kind, about>>
          /\ served' \in {served, Effect(held[m])}
      BY <1>4 DEF Unreported, Agent!AgentDies, Agent!Refused, Agent!queue
    <2> QED BY <2>1, RunServed
  <1>5. ASSUME NEW m \in Machine, NEW ok \in BOOLEAN, Report(m, ok) PROVE NewestIsServed'
    <2>1. /\ held[m] # 0 /\ held[m] \in Id /\ state[held[m]] = "claimed" /\ UNCHANGED <<kind, about>>
          /\ state' = [state EXCEPT ![held[m]] = IF ok THEN "done" ELSE "failed"]
          /\ served' \in {served, Effect(held[m])} /\ (ok => served' = Effect(held[m]))
      BY <1>5, HeldTypes DEF Report, Agent!Report, Agent!Q!Finish
    <2>2. /\ \A i \in Id : state'[i] = "none" <=> state[i] = "none"
          /\ \A i \in Id : state'[i] = "done" => state[i] = "done" \/ (i = held[m] /\ ok)
      BY <2>1 DEF Types, QueueTypes
    <2> QED BY <2>1, <2>2, RunServed
  <1>6. CASE Collect
    <2>1. /\ \A i \in Id : state'[i] = "none" <=> state[i] = "none"
          /\ \A i \in Id : state'[i] = "done" => state[i] = "done"
          /\ UNCHANGED kind
      BY <1>6 DEF Collect, Agent!Collect, Agent!CollectLost, Agent!Q!Take, Types, QueueTypes
    <2> QED BY <1>6, <2>1, KeepsServed DEF Collect
  <1>7. ASSUME NEW a \in answers, Settle(a) PROVE NewestIsServed'
    BY <1>7, SettleIs, KeepsServed
  <1>8. ASSUME NEW S \in SUBSET Id, Reap(S) PROVE NewestIsServed'
    <2>1. /\ \A i \in Id : state'[i] = "none" <=> state[i] = "none"
          /\ \A i \in Id : state'[i] = "done" => state[i] = "done"
          /\ UNCHANGED kind
      BY <1>8 DEF Reap, Agent!Reap, Agent!Q!Expire, Agent!Q!Live, Id, Agent!Id
    <2> QED BY <1>8, <2>1, KeepsServed DEF Reap
  <1>9. CASE Cut
    BY <1>9, KeepsServed DEF Cut, Agent!HandlersStop, Agent!queue
  <1>10. CASE UNCHANGED vars
    BY <1>10, KeepsServed DEF vars, agent
  <1> QED BY <1>1, <1>2, <1>3, <1>4, <1>5, <1>6, <1>7, <1>8, <1>9, <1>10 DEF Next

-----------------------------------------------------------------------------
(* What a row that says "applying" waits for.                              *)

RowWaits(n) == Waited(n) \/ (n \in cut /\ \A p \in Request : ~ Behind(p, n))

\* The end of task i is to come, or was to fail it.
Ending(i) == Outstanding(i) \/ state[i] = "failed"

\* A step of one request that queues nothing.
LEMMA RequestKeeps ==
  ASSUME Types, NEW p \in Request, NEW n \in Name, RowWaits(n),
         UNCHANGED <<state, kind, about, answers, cut>>,
         \A q \in Request : q # p => op'[q] = op[q],
         row'[n].id = row[n].id, row'[n].st = "applying" => row[n].st = "applying",
         ~ Asking(p, n), Behind(p, n)' => Behind(p, n)
  PROVE  RowWaits(n)'
  <1>1. AppliesOf(n)' = AppliesOf(n)
    BY DEF AppliesOf, TasksOf
  <1>2. \A i \in Id : LastApply(i, n) => LastApply(i, n)'
    BY <1>1 DEF LastApply
  <1>3. \A i \in Id : Outstanding(i) => Outstanding(i)'
    BY DEF Outstanding
  <1>4. Waited(n) => Waited(n)'
    BY <1>2, <1>3 DEF Waited, Asking
  <1>5. (\A q \in Request : ~ Behind(q, n)) => (\A q \in Request : ~ Behind(q, n))'
    BY DEF Behind
  <1> QED BY <1>4, <1>5 DEF RowWaits

\* A step of a machine or of reap, which no row and no request has part in.
LEMMA MachineKeeps ==
  ASSUME Types, NEW n \in Name, RowWaits(n),
         UNCHANGED <<kind, about, row, op, cut>>,
         \A i \in Id : state'[i] = "none" <=> state[i] = "none",
         \A i \in Id : Ending(i) => Ending(i)'
  PROVE  RowWaits(n)'
  <1>1. AppliesOf(n)' = AppliesOf(n)
    BY DEF AppliesOf, TasksOf
  <1>2. \A i \in Id : LastApply(i, n) => LastApply(i, n)'
    BY <1>1 DEF LastApply
  <1>3. Waited(n) => Waited(n)'
    BY <1>2 DEF Waited, Asking, Ending
  <1> QED BY <1>3 DEF RowWaits, Behind

\* A task that is queued is the last apply of the row, or leaves it the one it
\* had.
LEMMA QueueApplies ==
  ASSUME Types, InTurn, NEW p \in Request, NEW k \in Kind, NEW i \in Id, Queued(p, i, k),
         UNCHANGED <<row, answers>>, NEW n \in Name
  PROVE  IF k = "apply" /\ n = op[p].name /\ op[p].id = row[n].id
         THEN LastApply(i, n)' /\ Ending(i)'
         ELSE \A j \in Id : LastApply(j, n) /\ Ending(j) => LastApply(j, n)' /\ Ending(j)'
  <1>1. /\ state[i] = "none" /\ state'[i] = "pending" /\ about'[i].name = op[p].name
        /\ kind'[i] = k /\ about'[i].id = op[p].id
        /\ \A l \in Id : l # i => state'[l] = state[l] /\ kind'[l] = kind[l] /\ about'[l] = about[l]
        /\ \A l \in Id : state[l] # "none" => l < i
    BY QueueRows
  <1>2. \A l \in Id : l \in AppliesOf(n)' <=>
          l \in AppliesOf(n) \/ (l = i /\ k = "apply" /\ n = op[p].name /\ op[p].id = row[n].id)
    BY <1>1 DEF AppliesOf, TasksOf
  <1>3. /\ \A l \in AppliesOf(n) : l \in Id /\ l < i
        /\ AppliesOf(n)' \subseteq Id
    BY <1>1 DEF AppliesOf, TasksOf
  <1>4. CASE k = "apply" /\ n = op[p].name /\ op[p].id = row[n].id
    <2>1. i \in AppliesOf(n)' /\ \A l \in AppliesOf(n)' : l <= i
      BY <1>2, <1>3, <1>4, Ids
    <2>2. Ending(i)'
      BY <1>1, Lives DEF Ending, Outstanding
    <2> QED BY <1>4, <2>1, <2>2 DEF LastApply
  <1>5. ASSUME ~ (k = "apply" /\ n = op[p].name /\ op[p].id = row[n].id),
               NEW j \in Id, LastApply(j, n), Ending(j)
        PROVE  LastApply(j, n)' /\ Ending(j)'
    <2>1. AppliesOf(n)' = AppliesOf(n)
      BY <1>2, <1>3, <1>5
    <2>2. j # i
      BY <1>3, <1>5, Ids DEF LastApply
    <2>3. Ending(j)'
      BY <1>1, <1>5, <2>2 DEF Ending, Outstanding
    <2> QED BY <1>5, <2>1, <2>3 DEF LastApply
  <1> QED BY <1>4, <1>5

LEMMA EnqueueApplyWaits ==
  ASSUME Types, InTurn, NEW p \in Request, EnqueueApply(p), NEW n \in Name, RowWaits(n)
  PROVE  RowWaits(n)'
  <1>1. PICK i \in Id : Queued(p, i, "apply")
    BY QueueIsQueued DEF EnqueueApply
  <1>2. /\ UNCHANGED <<row, answers>> /\ cut' = cut \ {op[p].name} /\ op[p].pc = "enqueue-apply"
        /\ op'[p].pc = "idle" /\ \A q \in Request : q # p => op'[q] = op[q]
    BY QueueIsQueued, EndIs DEF EnqueueApply
  <1>3. "apply" \in Kind
    BY DEF Kind
  <1>4. \A q \in Request : Behind(q, n)' => Behind(q, n)
    BY <1>2 DEF Behind
  <1>5. CASE n = op[p].name /\ op[p].id = row[n].id
    <2>1. LastApply(i, n)' /\ Ending(i)'
      BY <1>1, <1>2, <1>3, <1>5, QueueApplies
    <2> QED BY <2>1 DEF RowWaits, Waited, Ending
  <1>6. CASE ~ (n = op[p].name /\ op[p].id = row[n].id)
    <2>1. \A j \in Id : LastApply(j, n) /\ Ending(j) => LastApply(j, n)' /\ Ending(j)'
      BY <1>1, <1>2, <1>3, <1>6, QueueApplies
    <2>2. \A q \in Request : Asking(q, n) => q # p /\ Asking(q, n)'
      BY <1>2, <1>6 DEF Asking
    <2>3. Waited(n) => Waited(n)'
      BY <1>2, <2>1, <2>2 DEF Waited, Ending
    <2>4. n = op[p].name => Behind(p, n)
      BY <1>2, <1>6 DEF Behind
    <2>5. Waited(n) \/ (n # op[p].name /\ n \in cut /\ \A q \in Request : ~ Behind(q, n))
      BY <2>4 DEF RowWaits
    <2> QED BY <1>2, <1>4, <2>3, <2>5 DEF RowWaits
  <1> QED BY <1>5, <1>6

LEMMA EnqueueRemoveWaits ==
  ASSUME Types, InTurn, NEW p \in Request, EnqueueRemove(p), NEW n \in Name, RowWaits(n)
  PROVE  RowWaits(n)'
  <1>1. PICK i \in Id : Queued(p, i, Removal(op[p].name))
    BY QueueIsQueued DEF EnqueueRemove
  <1>2. /\ UNCHANGED <<row, answers, cut>> /\ op[p].pc = "enqueue-remove"
        /\ op'[p].pc = "delete" /\ \A q \in Request : q # p => op'[q] = op[q]
    BY QueueIsQueued, GotoIs DEF EnqueueRemove
  <1>3. Removal(op[p].name) \in Kind
    BY DEF Removal, Kind
  <1>4. \A q \in Request : Behind(q, n)' => Behind(q, n)
    BY <1>2 DEF Behind
  <1>5. \/ LastApply(i, n)' /\ Ending(i)'
        \/ \A j \in Id : LastApply(j, n) /\ Ending(j) => LastApply(j, n)' /\ Ending(j)'
    BY <1>1, <1>2, <1>3, QueueApplies
  <1>6. \A q \in Request : Asking(q, n) => Asking(q, n)'
    BY <1>2 DEF Asking
  <1>7. Waited(n) => Waited(n)'
    BY <1>2, <1>5, <1>6 DEF Waited, Ending
  <1> QED BY <1>2, <1>4, <1>7 DEF RowWaits

LEMMA SettleWaits ==
  ASSUME Types, NEW a \in answers, Settle(a), NEW n \in Name, RowWaits(n)
  PROVE  RowWaits(n)'
  <1>1. /\ UNCHANGED <<state, kind, about, op, cut>> /\ answers' = answers \ {a}
        /\ row'[n].id = row[n].id /\ row'[n].st \in {row[n].st, "active", "failed"}
        /\ kind[a.task] = "apply" /\ n = about[a.task].name /\ row[n].id = about[a.task].id
           => row'[n].st \in {"active", "failed"}
    BY SettleIs
  <1>2. CASE row'[n].st # "applying"
    BY <1>2 DEF RowWaits, Waited
  <1>3. CASE row'[n].st = "applying"
    <2>1. ~ (kind[a.task] = "apply" /\ n = about[a.task].name /\ row[n].id = about[a.task].id)
          /\ row[n].st = "applying"
      BY <1>1, <1>3
    <2>2. AppliesOf(n)' = AppliesOf(n)
      BY <1>1 DEF AppliesOf, TasksOf
    <2>3. a.task \notin AppliesOf(n)
      BY <2>1 DEF AppliesOf, TasksOf
    <2>4. \A i \in Id : LastApply(i, n) => i # a.task /\ LastApply(i, n)'
      BY <2>2, <2>3 DEF LastApply
    <2>5. \A i \in Id : i # a.task /\ Outstanding(i) => Outstanding(i)'
      BY <1>1 DEF Outstanding
    <2>6. Waited(n) => Waited(n)'
      BY <1>1, <2>1, <2>4, <2>5 DEF Waited, Asking
    <2> QED BY <1>1, <2>6 DEF RowWaits, Behind
  <1> QED BY <1>2, <1>3

LEMMA CutWaits ==
  ASSUME Types, Cut, NEW n \in Name, RowWaits(n)
  PROVE  RowWaits(n)'
  <1>1. /\ cut' = cut \cup {op[p].name : p \in {q \in Request : op[q].pc # "idle"}}
                      \cup {about[a.task].name : a \in answers}
        /\ op' = [p \in Request |-> Idle] /\ UNCHANGED <<state, kind, about, row>>
    BY DEF Cut, Agent!HandlersStop, Agent!queue
  <1>2. CASE n \in cut'
    BY <1>1, <1>2, Nothing DEF RowWaits, Behind
  <1>3. CASE n \notin cut'
    <2>1. Waited(n) /\ \A p \in Request : ~ Asking(p, n)
      BY <1>1, <1>3 DEF RowWaits, Asking
    <2>2. AppliesOf(n)' = AppliesOf(n)
      BY <1>1 DEF AppliesOf, TasksOf
    <2>3. \A i \in Id : LastApply(i, n) => LastApply(i, n)' /\ about[i].name = n
      BY <2>2 DEF LastApply, AppliesOf, TasksOf
    <2>4. \A i \in Id : about[i].name = n /\ Outstanding(i) => Outstanding(i)'
      BY <1>1, <1>3 DEF Outstanding
    <2>5. Waited(n)'
      BY <1>1, <2>1, <2>3, <2>4 DEF Waited
    <2> QED BY <2>5 DEF RowWaits
  <1> QED BY <1>2, <1>3

LEMMA StatementWaits ==
  ASSUME Types, NEW p \in Request, NEW n \in Name, RowWaits(n),
         Insert(p) \/ Update(p) \/ Read(p) \/ Mark(p) \/ DeleteRow(p)
  PROVE  RowWaits(n)'
  <1>1. PICK l \in Name : l = op[p].name
    BY OpTypes
  <1>2. CASE Insert(p)
    <2>1. CASE row'[n].st = "pending"
      BY <2>1 DEF RowWaits, Waited
    <2>2. CASE row'[n].st # "pending"
      <3>1. row'[n] = row[n] /\ ~ Asking(p, n) /\ ~ Behind(p, n)'
        BY <1>1, <1>2, <2>2, InsertIs DEF Asking, Behind
      <3> QED BY <1>1, <1>2, <3>1, InsertIs, RequestKeeps DEF agent
    <2> QED BY <2>1, <2>2
  <1>3. CASE Update(p)
    <2>1. /\ row'[n].id = row[n].id /\ row'[n].st = row[n].st /\ ~ Asking(p, n)
      BY <1>1, <1>3, UpdateIs DEF Asking
    <2>2. ~ Behind(p, n)'
      BY <1>1, <1>3, UpdateIs DEF Behind
    <2> QED BY <1>1, <1>3, <2>1, <2>2, UpdateIs, RequestKeeps DEF agent
  <1>4. CASE Read(p)
    <2>1. ~ Asking(p, n) /\ ~ Behind(p, n)' /\ row' = row
      BY <1>1, <1>4, ReadIs DEF Asking, Behind
    <2> QED BY <1>1, <1>4, <2>1, ReadIs, RequestKeeps DEF agent
  <1>5. CASE Mark(p)
    <2>1. CASE n = l /\ row[n].id = op[p].id
      <3>1. Asking(p, n)'
        BY <1>1, <1>5, <2>1, MarkIs DEF Asking
      <3> QED BY <3>1 DEF RowWaits, Waited
    <2>2. CASE ~ (n = l /\ row[n].id = op[p].id)
      <3>1. row'[n].id = row[n].id /\ row'[n].st = row[n].st /\ ~ Asking(p, n)
        BY <1>1, <1>5, <2>2, MarkIs DEF Asking
      <3>2. Behind(p, n)' => Behind(p, n)
        BY <1>1, <1>5, <3>1, MarkIs DEF Behind
      <3> QED BY <1>1, <1>5, <3>1, <3>2, MarkIs, RequestKeeps DEF agent
    <2> QED BY <2>1, <2>2
  <1>6. CASE DeleteRow(p)
    <2>1. CASE row'[n].st = "none"
      BY <2>1 DEF RowWaits, Waited
    <2>2. CASE row'[n].st # "none"
      <3>1. row'[n] = row[n] /\ ~ Asking(p, n) /\ ~ Behind(p, n)'
        BY <1>1, <1>6, <2>2, DeleteRowIs DEF Asking, Behind
      <3> QED BY <1>1, <1>6, <3>1, DeleteRowIs, RequestKeeps DEF agent
    <2> QED BY <2>1, <2>2
  <1> QED BY <1>2, <1>3, <1>4, <1>5, <1>6

LEMMA StepWaits ==
  ASSUME Types, InTurn, RowsAreWaitedFor, [Next]_vars PROVE RowsAreWaitedFor'
  <1> SUFFICES ASSUME NEW n \in Name PROVE RowWaits(n)'
    BY DEF RowsAreWaitedFor, RowWaits
  <1>0. RowWaits(n)
    BY DEF RowsAreWaitedFor, RowWaits
  <1>1. ASSUME NEW p \in Request, NEW l \in Name, Create(p, l) \/ Edit(p, l) \/ Delete(p, l)
        PROVE  RowWaits(n)'
    <2>1. ~ Asking(p, n) /\ ~ Behind(p, n)'
      BY <1>1, StartIs DEF Asking, Behind
    <2> QED BY <1>0, <1>1, <2>1, StartIs, RequestKeeps DEF agent
  <1>2. ASSUME NEW p \in Request, Insert(p) \/ Update(p) \/ Read(p) \/ Mark(p) \/ DeleteRow(p)
        PROVE  RowWaits(n)'
    BY <1>0, <1>2, StatementWaits
  <1>3. ASSUME NEW p \in Request, EnqueueApply(p) \/ EnqueueRemove(p) PROVE RowWaits(n)'
    BY <1>0, <1>3, EnqueueApplyWaits, EnqueueRemoveWaits
  <1>4. ASSUME NEW m \in Machine, Unreported(m) PROVE RowWaits(n)'
    <2>1. UNCHANGED <<state, kind, answers>>
      BY <1>4 DEF Unreported, Agent!AgentDies, Agent!Refused, Agent!queue
    <2>2. \A i \in Id : Ending(i) => Ending(i)'
      BY <2>1 DEF Ending, Outstanding
    <2> QED BY <1>0, <1>4, <2>1, <2>2, MachineKeeps DEF Unreported
  <1>5. ASSUME NEW m \in Machine, NEW ok \in BOOLEAN, Report(m, ok) PROVE RowWaits(n)'
    <2>1. /\ answers' = answers \cup {[task |-> held[m], ok |-> ok]} /\ UNCHANGED kind
          /\ held[m] \in Id /\ state[held[m]] = "claimed"
          /\ state' = [state EXCEPT ![held[m]] = IF ok THEN "done" ELSE "failed"]
      BY <1>5, HeldTypes DEF Report, Agent!Report, Agent!Q!Finish
    <2>2. \A i \in Id : state'[i] = "none" <=> state[i] = "none"
      BY <2>1 DEF Types, QueueTypes
    <2>3. ASSUME NEW i \in Id, Ending(i) PROVE Ending(i)'
      <3>1. CASE i = held[m]
        <4>1. [task |-> held[m], ok |-> ok] \in answers' /\ [task |-> held[m], ok |-> ok].task = i
          BY <2>1, <3>1
        <4> QED BY <4>1 DEF Ending, Outstanding
      <3>2. CASE i # held[m]
        <4>1. state'[i] = state[i] /\ answers \subseteq answers'
          BY <2>1, <3>2 DEF Types, QueueTypes
        <4> QED BY <2>3, <4>1 DEF Ending, Outstanding
      <3> QED BY <3>1, <3>2
    <2> QED BY <1>0, <1>5, <2>1, <2>2, <2>3, MachineKeeps DEF Report
  <1>6. CASE Collect
    <2>1. /\ \A i \in Id : state'[i] = "none" <=> state[i] = "none"
          /\ \A i \in Id : state'[i] = state[i] \/ state'[i] = "claimed"
          /\ UNCHANGED <<kind, answers>>
      BY <1>6 DEF Collect, Agent!Collect, Agent!CollectLost, Agent!Q!Take, Types, QueueTypes
    <2>2. \A i \in Id : Ending(i) => Ending(i)'
      BY <2>1, Lives DEF Ending, Outstanding
    <2> QED BY <1>0, <1>6, <2>1, <2>2, MachineKeeps DEF Collect
  <1>7. ASSUME NEW a \in answers, Settle(a) PROVE RowWaits(n)'
    BY <1>0, <1>7, SettleWaits
  <1>8. ASSUME NEW S \in SUBSET Id, Reap(S) PROVE RowWaits(n)'
    <2>1. /\ \A i \in Id : state'[i] = "none" <=> state[i] = "none"
          /\ \A i \in Id : state'[i] = state[i] \/ state'[i] = "failed"
          /\ UNCHANGED <<kind, answers>>
      BY <1>8 DEF Reap, Agent!Reap, Agent!Q!Expire, Agent!Q!Live, Id, Agent!Id
    <2>2. \A i \in Id : Ending(i) => Ending(i)'
      BY <2>1 DEF Ending, Outstanding
    <2> QED BY <1>0, <1>8, <2>1, <2>2, MachineKeeps DEF Reap
  <1>9. CASE Cut
    BY <1>0, <1>9, CutWaits
  <1>10. CASE UNCHANGED vars
    <2>1. \A i \in Id : Ending(i) => Ending(i)'
      BY <1>10 DEF vars, agent, Ending, Outstanding
    <2> QED BY <1>0, <1>10, <2>1, MachineKeeps DEF vars, agent
  <1> QED BY <1>1, <1>2, <1>3, <1>4, <1>5, <1>6, <1>7, <1>8, <1>9, <1>10 DEF Next

-----------------------------------------------------------------------------
(* Requests that come one after another: what the row says is what the     *)
(* machine was told last.                                                  *)

\* A step that keeps the row, its last task, and every request it changes as
\* the row has it.
LEMMA KeepsTold ==
  ASSUME NEW n \in Name, NameIsTold(n),
         row'[n].id = row[n].id, row'[n].stamp = row[n].stamp,
         \A i \in Id : Newest(i, n)' <=> Newest(i, n),
         \A i \in Id : Newest(i, n) => kind'[i] = kind[i] /\ about'[i] = about[i],
         n \in cut => n \in cut',
         \A q \in Request : op'[q] = op[q] \/ HasRead(q, n)',
         Ahead(n) => Ahead(n)'
  PROVE  NameIsTold(n)'
  <1>1. ASSUME NEW q \in Request PROVE HasRead(q, n)'
    <2>1. HasRead(q, n)
      BY DEF NameIsTold
    <2>2. CASE op'[q] = op[q]
      BY <2>1, <2>2 DEF HasRead
    <2> QED BY <2>2
  <1>2. TaskTells(n) => TaskTells(n)'
    BY DEF TaskTells
  <1> QED BY <1>1, <1>2 DEF NameIsTold

\* Two requests are never about n at once: the others have nothing to lose.
LEMMA OthersHaveRead ==
  ASSUME OneEach, NEW p \in Request, op[p].pc # "idle", NEW n \in Name, n = op[p].name,
         \A q \in Request : q # p => op'[q] = op[q],
         NEW q \in Request, q # p
  PROVE  HasRead(q, n)'
  BY DEF OneEach, HasRead

LEMMA StatementTold ==
  ASSUME Types, OneEach, NEW p \in Request, NEW n \in Name, NameIsTold(n),
         Insert(p) \/ Update(p) \/ Read(p) \/ Mark(p) \/ DeleteRow(p)
  PROVE  NameIsTold(n)'
  <1>1. PICK l \in Name : l = op[p].name
    BY OpTypes
  <1>2. /\ UNCHANGED <<state, kind, about, cut>> /\ op[p].pc # "idle"
        /\ \A q \in Request : q # p => op'[q] = op[q]
        /\ \A k \in Name : k # l => row'[k] = row[k]
    BY <1>1, InsertIs, UpdateIs, ReadIs, MarkIs, DeleteRowIs DEF agent
  <1>3. \A i \in Id : Newest(i, n)' <=> Newest(i, n)
    BY <1>2, TasksKept
  <1>4. HasRead(p, n)
    BY DEF NameIsTold
  <1>5. CASE op'[p].pc = "idle" /\ row' = row /\ op[p].pc \notin {"read", "mark", "enqueue-apply", "delete"}
    <2>1. HasRead(p, n)' /\ (Ahead(n) => Ahead(n)')
      BY <1>2, <1>5 DEF HasRead, Ahead
    <2> QED BY <1>2, <1>3, <1>5, <2>1, KeepsTold
  <1>6. CASE n # l
    <2>1. op'[p].name = l \/ op'[p].pc = "idle"
      BY <1>1, InsertIs, UpdateIs, ReadIs, MarkIs, DeleteRowIs
    <2>2. HasRead(p, n)'
      BY <1>6, <2>1 DEF HasRead
    <2>3. Ahead(n) => Ahead(n)'
      BY <1>1, <1>2, <1>6 DEF Ahead
    <2> QED BY <1>2, <1>3, <1>6, <2>2, <2>3, KeepsTold
  <1>7. ASSUME n = l, op'[p].pc \in {"read", "mark", "enqueue-apply"}, op'[p].name = n,
               op'[p].id = row'[n].id, op'[p].stamp = row'[n].stamp
        PROVE  NameIsTold(n)'
    <2>1. Ahead(n)' /\ HasRead(p, n)'
      BY <1>7 DEF Ahead, HasRead
    <2>2. \A q \in Request : q # p => HasRead(q, n)'
      BY <1>1, <1>2, <1>7, OthersHaveRead
    <2> QED BY <2>1, <2>2 DEF NameIsTold
  <1>8. CASE Insert(p)
    BY <1>1, <1>5, <1>6, <1>7, <1>8, InsertIs
  <1>9. CASE Update(p)
    BY <1>1, <1>5, <1>6, <1>7, <1>9, UpdateIs
  <1>10. CASE Read(p) /\ n = l
    <2>1. row[n].id = op[p].id
      BY <1>1, <1>4, <1>10, ReadIs DEF HasRead
    <2> QED BY <1>1, <1>7, <1>10, <2>1, ReadIs
  <1>11. CASE Mark(p) /\ n = l
    <2>1. row[n].id = op[p].id /\ op[p].stamp = row[n].stamp
      BY <1>1, <1>4, <1>11, MarkIs DEF HasRead
    <2> QED BY <1>1, <1>7, <1>11, <2>1, MarkIs
  <1>12. CASE DeleteRow(p) /\ n = l
    <2>1. row[n].id = op[p].id /\ \A i \in Id : Newest(i, n) => about[i].stamp = 0
      BY <1>1, <1>4, <1>12, DeleteRowIs DEF HasRead
    <2>2. row'[n].id = 0 /\ op'[p].pc = "idle"
      BY <1>1, <1>12, <2>1, DeleteRowIs
    <2>3. TaskTells(n)'
      BY <1>2, <1>3, <2>1, <2>2 DEF TaskTells
    <2>4. \A q \in Request : HasRead(q, n)'
      <3>1. HasRead(p, n)'
        BY <2>2 DEF HasRead
      <3>2. \A q \in Request : q # p => HasRead(q, n)'
        BY <1>1, <1>2, <1>12, OthersHaveRead
      <3> QED BY <3>1, <3>2
    <2> QED BY <2>3, <2>4 DEF NameIsTold
  <1> QED BY <1>6, <1>8, <1>9, <1>10, <1>11, <1>12

LEMMA EnqueueTold ==
  ASSUME Types, InTurn, IdsAreReal, OneEach, NEW p \in Request, NEW n \in Name, NameIsTold(n),
         EnqueueApply(p) \/ EnqueueRemove(p)
  PROVE  NameIsTold(n)'
  <1>1. PICK k \in Kind, i \in Id : Queued(p, i, k)
    BY QueueIsQueued DEF EnqueueApply, EnqueueRemove, Removal, Kind
  <1>2. /\ UNCHANGED row /\ op[p].pc \in {"enqueue-apply", "enqueue-remove"}
        /\ \A q \in Request : q # p => op'[q] = op[q]
        /\ n \in cut /\ n # op[p].name => n \in cut'
    BY EndIs, GotoIs DEF EnqueueApply, EnqueueRemove
  <1>3. /\ kind'[i] = k /\ about'[i].stamp = op[p].stamp /\ state[i] = "none"
        /\ \A j \in Id : j # i => kind'[j] = kind[j] /\ about'[j] = about[j]
    BY <1>1, QueueRows
  <1>4. \A j \in Id : Newest(j, n)' <=> IF n = op[p].name THEN j = i ELSE Newest(j, n)
    BY <1>1, QueueNewest
  <1>5. CASE n # op[p].name
    <2>1. \A j \in Id : Newest(j, n) => j # i
      BY <1>3 DEF Newest, TasksOf
    <2>2. op'[p].pc = "idle" \/ op'[p].name = op[p].name
      BY EndIs, GotoIs DEF EnqueueApply, EnqueueRemove
    <2>3. HasRead(p, n)' /\ (Ahead(n) => Ahead(n)')
      BY <1>2, <1>5, <2>2 DEF HasRead, Ahead
    <2> QED BY <1>2, <1>3, <1>4, <1>5, <2>1, <2>3, KeepsTold
  <1>6. CASE n = op[p].name
    <2>1. row[n].id = op[p].id /\ op[p].id # 0
      BY <1>2, <1>6 DEF NameIsTold, HasRead, IdsAreReal
    <2>2. \A q \in Request : q # p => HasRead(q, n)'
      BY <1>2, <1>6, OthersHaveRead
    <2>3. CASE EnqueueApply(p)
      <3>1. op[p].pc = "enqueue-apply" /\ op'[p].pc = "idle"
        BY <2>3, EndIs DEF EnqueueApply
      <3>2. op[p].stamp = row[n].stamp
        BY <1>6, <3>1 DEF NameIsTold, HasRead
      <3>3. TaskTells(n)'
        BY <1>2, <1>3, <1>4, <1>6, <2>1, <2>3, <3>2 DEF TaskTells
      <3>4. HasRead(p, n)'
        BY <3>1 DEF HasRead
      <3> QED BY <2>2, <3>3, <3>4 DEF NameIsTold
    <2>4. CASE EnqueueRemove(p)
      <3>1. op'[p].pc = "delete" /\ op'[p].name = n /\ op'[p].id = op[p].id
        BY <1>6, <2>4, GotoIs DEF EnqueueRemove
      <3>2. op[p].stamp = 0
        BY <1>6, <2>4 DEF NameIsTold, HasRead, EnqueueRemove
      <3>3. \A j \in Id : Newest(j, n)' => about'[j].stamp = 0
        BY <1>3, <1>4, <1>6, <3>2
      <3>4. HasRead(p, n)'
        BY <1>2, <2>1, <3>1, <3>3 DEF HasRead
      <3>5. Ahead(n)'
        BY <3>1 DEF Ahead
      <3> QED BY <2>2, <3>4, <3>5 DEF NameIsTold
    <2> QED BY <2>3, <2>4
  <1> QED BY <1>5, <1>6

\* What machines do changes no definition and queues nothing.
LEMMA OtherStepTold ==
  ASSUME Types, NEW n \in Name, NameIsTold(n), UNCHANGED <<kind, about, op, cut>>,
         row'[n].id = row[n].id, row'[n].stamp = row[n].stamp,
         \A i \in Id : state'[i] = "none" <=> state[i] = "none"
  PROVE  NameIsTold(n)'
  <1>1. \A i \in Id : Newest(i, n)' <=> Newest(i, n)
    BY TasksKept
  <1>2. Ahead(n) => Ahead(n)'
    BY DEF Ahead
  <1> QED BY <1>1, <1>2, KeepsTold

LEMMA StepTold ==
  ASSUME Types, InTurn, IdsAreReal, OneEach, [Next]_vars, NEW n \in Name, NameIsTold(n)
  PROVE  NameIsTold(n)'
  <1>1. ASSUME NEW p \in Request, NEW l \in Name, Create(p, l) \/ Edit(p, l) \/ Delete(p, l)
        PROVE  NameIsTold(n)'
    <2>1. /\ op'[p].pc \in {"insert", "update", "enqueue-remove"} /\ op'[p].name = l
          /\ op'[p].id = row[l].id /\ op'[p].stamp = 0 /\ op[p].pc = "idle"
          /\ UNCHANGED <<state, kind, about, row, cut>>
          /\ \A q \in Request : q # p => op'[q] = op[q]
      BY <1>1, StartIs DEF agent
    <2>2. HasRead(p, n)'
      BY <2>1 DEF HasRead
    <2>3. Ahead(n) => Ahead(n)'
      BY <2>1 DEF Ahead
    <2>4. \A i \in Id : Newest(i, n)' <=> Newest(i, n)
      BY <2>1, TasksKept
    <2> QED BY <2>1, <2>2, <2>3, <2>4, KeepsTold
  <1>2. ASSUME NEW p \in Request, Insert(p) \/ Update(p) \/ Read(p) \/ Mark(p) \/ DeleteRow(p)
        PROVE  NameIsTold(n)'
    BY <1>2, StatementTold
  <1>3. ASSUME NEW p \in Request, EnqueueApply(p) \/ EnqueueRemove(p) PROVE NameIsTold(n)'
    BY <1>3, EnqueueTold
  <1>4. ASSUME NEW m \in Machine, Unreported(m) PROVE NameIsTold(n)'
    BY <1>4, OtherStepTold DEF Unreported, Agent!AgentDies, Agent!Refused, Agent!queue
  <1>5. ASSUME NEW m \in Machine, NEW ok \in BOOLEAN, Report(m, ok) PROVE NameIsTold(n)'
    <2>1. /\ \A i \in Id : state'[i] = "none" <=> state[i] = "none"
          /\ UNCHANGED <<kind, about, op, cut, row>>
      BY <1>5 DEF Report, Agent!Report, Agent!Q!Finish, Types, QueueTypes
    <2> QED BY <2>1, OtherStepTold
  <1>6. CASE Collect
    <2>1. /\ \A i \in Id : state'[i] = "none" <=> state[i] = "none"
          /\ UNCHANGED <<kind, about, op, cut, row>>
      BY <1>6 DEF Collect, Agent!Collect, Agent!CollectLost, Agent!Q!Take, Types, QueueTypes
    <2> QED BY <2>1, OtherStepTold
  <1>7. ASSUME NEW a \in answers, Settle(a) PROVE NameIsTold(n)'
    BY <1>7, SettleIs, OtherStepTold
  <1>8. ASSUME NEW S \in SUBSET Id, Reap(S) PROVE NameIsTold(n)'
    <2>1. /\ \A i \in Id : state'[i] = "none" <=> state[i] = "none"
          /\ UNCHANGED <<kind, about, op, cut, row>>
      BY <1>8 DEF Reap, Agent!Reap, Agent!Q!Expire, Agent!Q!Live, Id, Agent!Id
    <2> QED BY <2>1, OtherStepTold
  <1>9. CASE Cut
    <2>1. /\ \A q \in Request : op'[q].pc = "idle"
          /\ UNCHANGED <<state, kind, about, row>> /\ cut \subseteq cut'
          /\ n \notin cut' => \A q \in Request : op[q].pc = "idle" \/ op[q].name # n
      BY <1>9, Nothing DEF Cut, Agent!HandlersStop, Agent!queue
    <2>2. \A q \in Request : HasRead(q, n)'
      BY <2>1 DEF HasRead
    <2>3. \A i \in Id : Newest(i, n)' <=> Newest(i, n)
      BY <2>1, TasksKept
    <2>4. TaskTells(n) => TaskTells(n)'
      BY <2>1, <2>3 DEF TaskTells
    <2>5. n \in cut' \/ TaskTells(n)
      BY <2>1 DEF NameIsTold, Ahead
    <2> QED BY <2>2, <2>4, <2>5 DEF NameIsTold
  <1>10. CASE UNCHANGED vars
    BY <1>10, OtherStepTold DEF vars, agent
  <1> QED BY <1>1, <1>2, <1>3, <1>4, <1>5, <1>6, <1>7, <1>8, <1>9, <1>10 DEF Next

-----------------------------------------------------------------------------

IInv == TypeOK /\ IdsAreReal /\ InTurn /\ NewestIsServed /\ RowsAreWaitedFor

LEMMA InvariantKept == Spec => []IInv
  <1>1. Init => IInv
    BY InitTypes, InitHolds DEF IInv
  <1>2. IInv /\ [Next]_vars => IInv'
    BY TypesIsTypeOK, StepTypes, StepReal, StepTurn, StepServed, StepWaits DEF IInv
  <1> QED BY <1>1, <1>2, PTL DEF Spec

LEMMA ToldInTurn == Spec /\ []OneEach => []AllAreTold
  <1>1. Init => AllAreTold
    BY InitHolds DEF AllAreTold
  <1>2. IInv /\ OneEach /\ AllAreTold /\ [Next]_vars => AllAreTold'
    BY TypesIsTypeOK, StepTold DEF IInv, AllAreTold
  <1> QED BY <1>1, <1>2, InvariantKept, PTL DEF Spec

\* However requests, deletions, new rows of the same name and late results
\* interleave, a share, printer or tunnel that says "applying" has a task that
\* reports to it to wait for, unless the last one was reaped or the control plane
\* stopped in a handler of it (_dispatch, agent_task_result).
THEOREM NoApplyIsForgotten == Spec => []ApplyingIsWaitedFor
  <1>1. IInv => ApplyingIsWaitedFor
    <2> SUFFICES ASSUME IInv, NEW n \in Name \ cut, row[n].st = "applying", ~ Awaited(n)
                 PROVE  \E i \in AppliesOf(n) : state[i] = "failed" /\ \A j \in AppliesOf(n) : j <= i
      BY DEF ApplyingIsWaitedFor
    <2>1. Waited(n)
      BY DEF IInv, RowsAreWaitedFor
    <2>2. \A p \in Request : ~ Asking(p, n)
      BY DEF Awaited, Asking
    <2>3. PICK i \in Id : LastApply(i, n) /\ (Outstanding(i) \/ state[i] = "failed")
      BY <2>1, <2>2 DEF Waited
    <2>4. ~ Outstanding(i)
      BY <2>3 DEF Awaited, LastApply
    <2> QED BY <2>3, <2>4 DEF LastApply
  <1> QED BY <1>1, InvariantKept, PTL

\* The last task queued for n is the newest.
LEMMA LastIsNewest ==
  ASSUME NEW n \in Name, LastDone(n)
  PROVE  \E i \in Id : Newest(i, n) /\ state[i] = "done"
  BY DEF LastDone, Newest, TasksOf

\* With nothing under way for it, a name's last task tells what the row says.
LEMMA QuietIsTold ==
  ASSUME NEW n \in Name, AllAreTold, Quiet(n)
  PROVE  TaskTells(n)
  <1>1. n \notin cut /\ ~ Ahead(n)
    BY DEF Quiet, Ahead
  <1> QED BY <1>1 DEF AllAreTold, NameIsTold

\* Where no two requests are about one definition at a time, any number of
\* them about different ones, a row that says "active" is what its machine
\* serves, once nothing is under way and the last task ran through, edit by
\* edit, through losses, deaths, late wake-ups, deletions and new rows
\* (_dispatch).  Two edits at a time may break it: their tasks may be queued in
\* the other order.
THEOREM ServedInTurn == Spec /\ []OneEach => []ActiveIsServed
  <1>1. IInv /\ AllAreTold => ActiveIsServed
    <2> SUFFICES ASSUME IInv, AllAreTold, NEW n \in Name, row[n].st = "active", Quiet(n), LastDone(n)
                 PROVE  served[n] = row[n].stamp
      BY DEF ActiveIsServed
    <2>1. row[n].id # 0
      BY DEF IInv, IdsAreReal
    <2>2. PICK i \in Id : Newest(i, n) /\ about[i].stamp = row[n].stamp
      BY <2>1, QuietIsTold DEF TaskTells
    <2>3. PICK j \in Id : Newest(j, n) /\ state[j] = "done"
      BY LastIsNewest
    <2>4. i = j
      BY <2>2, <2>3, Ids DEF Newest
    <2>5. served[n] = Left(i)
      BY <2>3, <2>4 DEF IInv, NewestIsServed
    <2> QED BY <2>2, <2>5 DEF Left
  <1> QED BY <1>1, InvariantKept, ToldInTurn, PTL

\* Under the same condition, what has no row is not served once nothing is
\* under way and the last task ran through (delete_share and its like): the
\* removal is queued before the row goes.
THEOREM GoneInTurn == Spec /\ []OneEach => []WithdrawnIsGone
  <1>1. IInv /\ AllAreTold => WithdrawnIsGone
    <2> SUFFICES ASSUME IInv, AllAreTold, NEW n \in Name, row[n].id = 0, Quiet(n), LastDone(n)
                 PROVE  served[n] = 0
      BY DEF WithdrawnIsGone
    <2>1. PICK j \in Id : Newest(j, n) /\ state[j] = "done"
      BY LastIsNewest
    <2>2. about[j].stamp = 0
      BY <2>1, QuietIsTold DEF TaskTells
    <2>3. served[n] = Left(j)
      BY <2>1 DEF IInv, NewestIsServed
    <2> QED BY <2>2, <2>3 DEF Left
  <1> QED BY <1>1, InvariantKept, ToldInTurn, PTL

=============================================================================

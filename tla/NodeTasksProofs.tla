-------------------------- MODULE NodeTasksProofs --------------------------
(***************************************************************************)
(* Proofs about NodeTasks, for any number of machines, processes, rows and *)
(* faults.  The inductive invariant is the conjunction of TypeOK with the  *)
(* parts below; each theorem then reads its property off one of them.      *)
(***************************************************************************)
EXTENDS NodeTasks, TLAPS

Busy == {"running", "reporting", "retrying"}

\* Who holds a row: exactly the processes with an answer on its way to them
\* or at work on it; a row that somebody holds has left the queue, and no two
\* processes hold the same one.
Holding ==
  /\ \A w \in Worker : handler[w] # "none" <=> pc[w] = "polling"
  /\ \A w \in Worker : job[w] # 0 <=> (handler[w] = "answered" \/ pc[w] \in Busy)
  /\ \A w \in Worker : job[w] # 0 => state[job[w]] \notin {"none", "pending"}
  /\ \A v, w \in Worker : job[v] = job[w] /\ job[v] # 0 => v = w

\* What has been run and said of each row: a row is started by the process
\* that received it, its outcome is fixed when that run ends, and every result
\* on the wire repeats that outcome.
History ==
  /\ \A i \in Id : state[i] \in {"none", "pending"} => runs[i] = 0
  /\ \A i \in Id : runs[i] \in {0, 1}
  /\ \A i \in Id : outcome[i] # "none" => runs[i] = 1
  /\ \A w \in Worker : handler[w] = "answered" => runs[job[w]] = 0
  /\ \A w \in Worker : pc[w] \in Busy => runs[job[w]] = 1
  /\ \A w \in Worker : pc[w] = "running" => outcome[job[w]] = "none"
  /\ \A w \in Worker : pc[w] \in {"reporting", "retrying"} => outcome[job[w]] # "none"
  /\ \A msg \in wire : outcome[msg.task] = IF msg.ok THEN "ok" ELSE "error"
  /\ \A i \in Id : state[i] = "done" => outcome[i] = "ok"

\* The order of the queue: rows are inserted one after the other, an older
\* pending row has waited at least as long, and claims go by age.
Ordered ==
  /\ \A i, j \in Id : i < j /\ state[j] # "none" => state[i] # "none"
  /\ \A i, j \in Id : i < j /\ state[i] = "pending" /\ state[j] = "pending"
                        => age[j] <= age[i]
  /\ InOrder

\* w has been in its phase for at most limit ticks, and spent before it.
Within(w, spent, limit) == clock[w] <= limit /\ age[job[w]] <= spent + clock[w]

\* A process that stays awake is inside its time limits, phase by phase, so
\* the row it holds is never old enough for reap.
InTime(w) ==
  LET most == Timeout[kind[job[w]]] IN
  /\ pc[w] = "polling" => clock[w] <= Http
  /\ handler[w] = "answered" => Within(w, 0, Http)
  /\ pc[w] = "running" => Within(w, Http, most)
  /\ pc[w] = "reporting" => Within(w, Http + most, Http)
  /\ pc[w] = "retrying" => Within(w, Http + most + Http, Http)

Timely == \A w \in Worker \ Sleepers : InTime(w)

IInv == TypeOK /\ Holding /\ History /\ Ordered /\ Timely
        /\ NoSecretOutlives /\ HeldIsNotReaped

-----------------------------------------------------------------------------
(* The parts of the invariant, one lemma each.                              *)

\* A process that was handed a row holds one of the table's.
LEMMA HeldRow ==
  ASSUME IInv, NEW w \in Worker, handler[w] = "answered" \/ pc[w] \in Busy
  PROVE  job[w] \in Id /\ job[w] # 0
  BY BoundAssumption DEF IInv, TypeOK, AgentType, Holding, Id

\* A result sent again is a result.
LEMMA ResentType ==
  ASSUME NEW w \in Worker, job[w] \in Id
  PROVE  Resent(w) \subseteq Message
<1> DEFINE good == outcome[job[w]] = "ok"
<1>1. good \in BOOLEAN
  OBVIOUS
<1>2. Result(job[w], good, 2) \in Message
  <2> HIDE DEF good
  <2> QED BY <1>1 DEF Result, Message, Attempt
<1> QED
  BY <1>2 DEF Resent

\* What reap does to each row.
LEMMA ReapRows ==
  ASSUME TableType, Reap, NEW i \in Id
  PROVE  /\ i \in Overdue => state'[i] = "failed" /\ ~ secret'[i]
         /\ i \notin Overdue => state'[i] = state[i] /\ secret'[i] = secret[i]
         /\ state[i] \notin Live => state'[i] = state[i]
         /\ age'[i] = age[i] /\ node'[i] = node[i] /\ kind'[i] = kind[i]
  BY DEF Reap, Overdue, TableType, Id

\* What finish does to each row: only a claimed row is touched.
LEMMA FinishRows ==
  ASSUME TableType, NEW i \in Id, NEW ok \in BOOLEAN, FinishRow(i, ok), NEW j \in Id
  PROVE  /\ state'[j] # state[j] =>
              j = i /\ state[j] = "claimed" /\ state'[j] = IF ok THEN "done" ELSE "failed"
         /\ state'[j] # state[j] => ~ secret'[j]
         /\ state'[j] = state[j] => secret'[j] = secret[j]
         /\ age'[j] = age[j] /\ node'[j] = node[j] /\ kind'[j] = kind[j]
  BY DEF FinishRow, table, TableType, Id

\* A result sent again says what the first one said.
LEMMA ResentSays ==
  ASSUME IInv, NEW w \in Worker, NEW m \in Resent(w)
  PROVE  outcome[m.task] = IF m.ok THEN "ok" ELSE "error"
<1>1. pc[w] = "reporting" /\ m = Result(job[w], outcome[job[w]] = "ok", 2)
  BY DEF Resent
<1>2. job[w] \in Id /\ outcome[job[w]] # "none"
  BY <1>1, HeldRow DEF Busy, IInv, History
<1> QED
  BY <1>1, <1>2 DEF Result, IInv, TypeOK, ReportType

\* The three statements that change rows keep the queue in order.
LEMMA ReapOrdered ==
  ASSUME TableType, Ordered, Reap
  PROVE  Ordered'
<1> USE BoundAssumption DEF Id, Finished
<1>1. \A i \in Id : /\ i \in Overdue => state'[i] = "failed"
                    /\ i \notin Overdue => state'[i] = state[i]
                    /\ age'[i] = age[i] /\ node'[i] = node[i]
  BY ReapRows
<1>2. \A i, j \in Id : i < j /\ state[i] = "pending" /\ state[j] = "pending" /\ j \in Overdue
                           => i \in Overdue
  BY TimeAssumption DEF Overdue, Ordered, TableType, Live, Id
<1>3. \A i \in Overdue : i \in Id /\ state[i] \in Live
  BY DEF Overdue
<1>4. (\A i, j \in Id : i < j /\ state[j] # "none" => state[i] # "none")'
  BY <1>1, <1>3 DEF Ordered, Live
<1>5. (\A i, j \in Id : i < j /\ state[i] = "pending" /\ state[j] = "pending"
                            => age[j] <= age[i])'
  BY <1>1 DEF Ordered
<1>6. InOrder'
  <2> SUFFICES ASSUME NEW i \in Id, NEW j \in Id, i < j, node[i] = node[j],
                      state'[j] \in {"claimed"} \cup Finished, state'[i] = "pending"
               PROVE  FALSE
    BY <1>1 DEF InOrder
  <2>1. state[i] = "pending" /\ i \notin Overdue
    BY <1>1
  <2>2. state[j] \notin {"claimed"} \cup Finished
    BY <2>1 DEF Ordered, InOrder
  <2>3. j \in Overdue /\ state[j] = "pending"
    BY <1>1, <1>3, <2>2 DEF Live
  <2> QED
    BY <1>2, <2>1, <2>3
<1> QED
  BY <1>4, <1>5, <1>6 DEF Ordered

LEMMA ClaimOrdered ==
  ASSUME TableType, Ordered, NEW m \in Machine, NEW i \in Id, IsNext(i, m), ClaimRow(i)
  PROVE  Ordered'
<1> USE BoundAssumption DEF Id, Finished
<1>1. /\ state[i] = "pending" /\ node[i] = m /\ node' = node
      /\ \A j \in Id : state'[j] = IF j = i THEN "claimed" ELSE state[j]
      /\ \A j \in Id : j # i => age'[j] = age[j]
      /\ \A j \in Id : j < i /\ node[j] = m => state[j] # "pending"
  BY DEF IsNext, ClaimRow, TableType
<1> QED
  BY <1>1 DEF Ordered, InOrder, Finished

LEMMA FinishOrdered ==
  ASSUME TableType, Ordered, NEW i \in Id, NEW ok \in BOOLEAN, FinishRow(i, ok)
  PROVE  Ordered'
<1> USE BoundAssumption DEF Id, Finished
<1>1. \A j \in Id : /\ state'[j] # state[j] => state[j] = "claimed" /\ state'[j] \in Finished
                    /\ age'[j] = age[j] /\ node'[j] = node[j]
  BY FinishRows DEF Finished
<1> QED
  BY <1>1 DEF Ordered, InOrder, Finished

\* A row that an awake process holds is too young for reap.
LEMMA Young ==
  ASSUME IInv, NEW w \in Worker \ Sleepers, job[w] # 0
  PROVE  job[w] \notin Overdue
<1>1. job[w] \in Id /\ (handler[w] = "answered" \/ pc[w] \in Busy)
  BY BoundAssumption DEF IInv, TypeOK, AgentType, Holding, Id
<1>2. kind[job[w]] \in Kind /\ age[job[w]] \in Int /\ clock[w] \in Nat
  BY <1>1, TimeAssumption DEF IInv, TypeOK, TableType, AgentType
<1>3. Timeout[kind[job[w]]] \in Nat /\ Timeout[kind[job[w]]] + 3 * Http <= Stale
  BY <1>2, StaleAssumption, TimeAssumption
<1>4. age[job[w]] <= Stale
  BY <1>1, <1>2, <1>3, TimeAssumption DEF IInv, Timely, InTime, Within, Busy
<1> QED
  BY <1>2, <1>4, TimeAssumption DEF Overdue

\* A process whose own state and row stay as they are stays in time.
LEMMA StillInTime ==
  ASSUME IInv, NEW v \in Worker \ Sleepers,
         pc'[v] = pc[v], handler'[v] = handler[v], job'[v] = job[v], clock'[v] = clock[v],
         job[v] # 0 => age'[job[v]] = age[job[v]] /\ kind'[job[v]] = kind[job[v]]
  PROVE  InTime(v)'
<1>1. job[v] # 0 <=> (handler[v] = "answered" \/ pc[v] \in Busy)
  BY DEF IInv, Holding
<1> QED
  BY <1>1 DEF IInv, Timely, InTime, Within, Busy

\* Every action keeps the types.
LEMMA TypeStep == IInv /\ [Next]_vars => TypeOK'
<1> SUFFICES ASSUME IInv, [Next]_vars PROVE TypeOK'
  OBVIOUS
<1> TableType /\ AgentType /\ ReportType
  BY DEF IInv, TypeOK
<1> USE HostAssumption, KindAssumption, TimeAssumption, BoundAssumption DEF Id
<1>1. ASSUME NEW m \in Machine, NEW k \in Kind, Enqueue(m, k) PROVE TypeOK'
  <2>1. TableType'
    BY <1>1 DEF Enqueue, TableType, Live
  <2>2. AgentType'
    BY <1>1 DEF Enqueue, agents, AgentType
  <2>3. ReportType'
    BY <1>1 DEF Enqueue, ReportType
  <2> QED
    BY <2>1, <2>2, <2>3 DEF TypeOK
<1>2. ASSUME ConsoleReap PROVE TypeOK'
  <2>1. TableType'
    BY <1>2 DEF ConsoleReap, Reap, TableType, Finished
  <2>2. AgentType'
    BY <1>2 DEF ConsoleReap, agents, AgentType
  <2>3. ReportType'
    BY <1>2 DEF ConsoleReap, ReportType
  <2> QED
    BY <2>1, <2>2, <2>3 DEF TypeOK
<1>3. ASSUME NEW w \in Worker, StartPoll(w) PROVE TypeOK'
  <2>1. TableType'
    BY <1>3 DEF StartPoll, Reap, TableType, Finished
  <2>2. AgentType'
    BY <1>3 DEF StartPoll, AgentType
  <2>3. ReportType'
    BY <1>3 DEF StartPoll, ReportType
  <2> QED
    BY <2>1, <2>2, <2>3 DEF TypeOK
<1>4. ASSUME NEW w \in Worker, Claim(w) PROVE TypeOK'
  <2>1. TableType'
    BY <1>4 DEF Claim, IsNext, ClaimRow, TableType, Live
  <2>2. AgentType'
    BY <1>4 DEF Claim, AgentType
  <2>3. ReportType'
    BY <1>4 DEF Claim, ReportType
  <2> QED
    BY <2>1, <2>2, <2>3 DEF TypeOK
<1>5. ASSUME NEW w \in Worker, EmptyPoll(w) PROVE TypeOK'
  <2>1. TableType'
    BY <1>5 DEF EmptyPoll, table, TableType
  <2>2. AgentType'
    BY <1>5 DEF EmptyPoll, AgentType
  <2>3. ReportType'
    BY <1>5 DEF EmptyPoll, ReportType
  <2> QED
    BY <2>1, <2>2, <2>3 DEF TypeOK
<1>6. ASSUME NEW w \in Worker, Receive(w) PROVE TypeOK'
  <2>0. job[w] \in Id
    BY <1>6, HeldRow DEF Receive, Busy, AgentType
  <2>1. TableType'
    BY <1>6 DEF Receive, table, TableType
  <2>2. AgentType'
    BY <1>6, <2>0 DEF Receive, AgentType
  <2>3. ReportType'
    BY <1>6, <2>0 DEF Receive, ReportType
  <2> QED
    BY <2>1, <2>2, <2>3 DEF TypeOK
<1>7. ASSUME NEW w \in Worker, PollFails(w) PROVE TypeOK'
  <2>1. TableType'
    BY <1>7 DEF PollFails, table, TableType
  <2>2. AgentType'
    BY <1>7 DEF PollFails, Abandon, AgentType
  <2>3. ReportType'
    BY <1>7 DEF PollFails, Fault, ReportType
  <2> QED
    BY <2>1, <2>2, <2>3 DEF TypeOK
<1>8. ASSUME NEW w \in Worker, NEW ok \in BOOLEAN, RunEnds(w, ok) PROVE TypeOK'
  <2>0. job[w] \in Id
    BY <1>8, HeldRow DEF RunEnds, Busy, AgentType
  <2>1. TableType'
    BY <1>8 DEF RunEnds, table, TableType
  <2>2. AgentType'
    BY <1>8, <2>0 DEF RunEnds, AgentType
  <2>3. ReportType'
    BY <1>8, <2>0 DEF RunEnds, Result, ReportType, Message, Attempt
  <2> QED
    BY <2>1, <2>2, <2>3 DEF TypeOK
<1>9. ASSUME NEW w \in Worker, NEW msg \in wire, HandleResult(msg, w) PROVE TypeOK'
  <2>0. job[w] \in Id
    BY <1>9, HeldRow DEF HandleResult, Waiting, Busy, AgentType
  <2>1. TableType'
    BY <1>9, <2>0 DEF HandleResult, FinishRow, table, TableType, Finished, ReportType, Message
  <2>2. AgentType'
    BY <1>9, <2>0 DEF HandleResult, ReportFailed, AgentType
  <2>3. ReportType'
    BY <1>9, <2>0, ResentType DEF HandleResult, ReportType
  <2> QED
    BY <2>1, <2>2, <2>3 DEF TypeOK
<1>10. ASSUME NEW w \in Worker, GiveUp(w) PROVE TypeOK'
  <2>0. job[w] \in Id
    BY <1>10, HeldRow DEF GiveUp, Busy, AgentType
  <2>1. TableType'
    BY <1>10 DEF GiveUp, table, TableType
  <2>2. AgentType'
    BY <1>10, <2>0 DEF GiveUp, ReportFailed, AgentType
  <2>3. ReportType'
    BY <1>10, <2>0, ResentType DEF GiveUp, Fault, ReportType
  <2> QED
    BY <2>1, <2>2, <2>3 DEF TypeOK
<1>11. ASSUME NEW w \in Worker, Crash(w) PROVE TypeOK'
  <2>1. TableType'
    BY <1>11 DEF Crash, table, TableType
  <2>2. AgentType'
    BY <1>11 DEF Crash, Abandon, AgentType
  <2>3. ReportType'
    BY <1>11 DEF Crash, Fault, ReportType
  <2> QED
    BY <2>1, <2>2, <2>3 DEF TypeOK
<1>12. ASSUME NEW w \in Worker, Restart(w) PROVE TypeOK'
  <2>1. TableType'
    BY <1>12 DEF Restart, table, TableType
  <2>2. AgentType'
    BY <1>12 DEF Restart, AgentType
  <2>3. ReportType'
    BY <1>12 DEF Restart, ReportType
  <2> QED
    BY <2>1, <2>2, <2>3 DEF TypeOK
<1>13. ASSUME NEW m \in Machine, OrphanClaims(m) PROVE TypeOK'
  <2>1. TableType'
    BY <1>13 DEF OrphanClaims, IsNext, ClaimRow, TableType, Live
  <2>2. AgentType'
    BY <1>13 DEF OrphanClaims, AgentType
  <2>3. ReportType'
    BY <1>13 DEF OrphanClaims, ReportType
  <2> QED
    BY <2>1, <2>2, <2>3 DEF TypeOK
<1>14. ASSUME NEW m \in Machine, OrphanEnds(m) PROVE TypeOK'
  <2>1. TableType'
    BY <1>14 DEF OrphanEnds, table, TableType
  <2>2. AgentType'
    BY <1>14 DEF OrphanEnds, AgentType
  <2>3. ReportType'
    BY <1>14 DEF OrphanEnds, ReportType
  <2> QED
    BY <2>1, <2>2, <2>3 DEF TypeOK
<1>15. ASSUME NEW msg \in wire, HandleLate(msg) PROVE TypeOK'
  <2>1. TableType'
    BY <1>15 DEF HandleLate, FinishRow, table, TableType, Finished, ReportType, Message
  <2>2. AgentType'
    BY <1>15 DEF HandleLate, agents, AgentType
  <2>3. ReportType'
    BY <1>15 DEF HandleLate, ReportType
  <2> QED
    BY <2>1, <2>2, <2>3 DEF TypeOK
<1>16. ASSUME NEW msg \in wire, DropResult(msg) PROVE TypeOK'
  <2>1. TableType'
    BY <1>16 DEF DropResult, table, TableType
  <2>2. AgentType'
    BY <1>16 DEF DropResult, agents, AgentType
  <2>3. ReportType'
    BY <1>16 DEF DropResult, ReportType
  <2> QED
    BY <2>1, <2>2, <2>3 DEF TypeOK
<1>17. ASSUME NEW asleep \in SUBSET Sleepers, Tick(asleep) PROVE TypeOK'
  <2>1. TableType'
    BY <1>17 DEF Tick, TableType
  <2>2. AgentType'
    BY <1>17 DEF Tick, AgentType
  <2>3. ReportType'
    BY <1>17 DEF Tick, ReportType
  <2> QED
    BY <2>1, <2>2, <2>3 DEF TypeOK
<1>18. CASE UNCHANGED vars
  BY <1>18 DEF vars, table, agents, TypeOK, TableType, AgentType, ReportType
<1> QED
  BY <1>1, <1>2, <1>3, <1>4, <1>5, <1>6, <1>7, <1>8, <1>9, <1>10, <1>11, <1>12, <1>13, <1>14, <1>15, <1>16, <1>17, <1>18 DEF Next, Step

\* Every action keeps track of who holds what.
LEMMA HoldingStep == IInv /\ [Next]_vars => Holding'
<1> SUFFICES ASSUME IInv, [Next]_vars PROVE Holding'
  OBVIOUS
<1> TableType /\ AgentType /\ ReportType /\ Holding
  BY DEF IInv, TypeOK
<1> USE HostAssumption, BoundAssumption DEF Id
<1>1. ASSUME NEW m \in Machine, NEW k \in Kind, Enqueue(m, k) PROVE Holding'
  BY <1>1 DEF Enqueue, agents, Holding, Busy, TableType, AgentType
<1>2. ASSUME ConsoleReap PROVE Holding'
  <2>1. \A v \in Worker : job[v] # 0 => state'[job[v]] \notin {"none", "pending"}
    <3>1. Reap
      BY <1>2 DEF ConsoleReap
    <3>2. \A i \in Id : state'[i] = state[i] \/ state'[i] = "failed"
      BY <3>1, ReapRows
    <3> QED
      BY <3>2 DEF Holding, AgentType
  <2> QED
    BY <1>2, <2>1 DEF ConsoleReap, agents, Holding, Busy, AgentType
<1>3. ASSUME NEW w \in Worker, StartPoll(w) PROVE Holding'
  <2>1. \A v \in Worker : job[v] # 0 => state'[job[v]] \notin {"none", "pending"}
    <3>1. Reap
      BY <1>3 DEF StartPoll
    <3>2. \A i \in Id : state'[i] = state[i] \/ state'[i] = "failed"
      BY <3>1, ReapRows
    <3> QED
      BY <3>2 DEF Holding, AgentType
  <2> QED
    BY <1>3, <2>1 DEF StartPoll, Holding, Busy, AgentType
<1>4. ASSUME NEW w \in Worker, Claim(w) PROVE Holding'
  <2>1. PICK i \in Id : IsNext(i, HostOf[w]) /\ ClaimRow(i) /\ job' = [job EXCEPT ![w] = i]
    BY <1>4 DEF Claim
  <2>2. state[i] = "pending" /\ \A v \in Worker : job[v] # i
    BY <2>1 DEF IsNext, Holding
  <2>3. \A v \in Worker : job'[v] # 0 => state'[job'[v]] \notin {"none", "pending"}
    BY <2>1 DEF ClaimRow, Holding, AgentType, TableType
  <2>4. \A u, v \in Worker : job'[u] = job'[v] /\ job'[u] # 0 => u = v
    BY <2>1, <2>2 DEF Holding, AgentType
  <2> QED
    BY <1>4, <2>1, <2>3, <2>4 DEF Claim, Holding, Busy, AgentType
<1>5. ASSUME NEW w \in Worker, EmptyPoll(w) PROVE Holding'
  BY <1>5 DEF EmptyPoll, table, Holding, Busy, TableType, AgentType
<1>6. ASSUME NEW w \in Worker, Receive(w) PROVE Holding'
  BY <1>6 DEF Receive, table, Holding, Busy, TableType, AgentType
<1>7. ASSUME NEW w \in Worker, PollFails(w) PROVE Holding'
  BY <1>7 DEF PollFails, Abandon, table, Holding, Busy, TableType, AgentType
<1>8. ASSUME NEW w \in Worker, NEW ok \in BOOLEAN, RunEnds(w, ok) PROVE Holding'
  BY <1>8 DEF RunEnds, table, Holding, Busy, TableType, AgentType
<1>9. ASSUME NEW w \in Worker, NEW msg \in wire, HandleResult(msg, w) PROVE Holding'
  <2>0. msg.task \in Id /\ msg.ok \in BOOLEAN
    BY DEF ReportType, Message
  <2>1. \A v \in Worker : job[v] # 0 => state'[job[v]] \notin {"none", "pending"}
    <3>1. FinishRow(msg.task, msg.ok)
      BY <1>9 DEF HandleResult
    <3>2. \A i \in Id : state'[i] = state[i] \/ state'[i] \in Finished
      BY <2>0, <3>1, FinishRows DEF Finished
    <3> QED
      BY <3>2 DEF Finished, Holding, AgentType
  <2>2. /\ pc' = [pc EXCEPT ![w] = "idle"] \/ pc' = [pc EXCEPT ![w] = "retrying"]
        /\ pc'[w] = "idle" => job' = [job EXCEPT ![w] = 0]
        /\ pc'[w] = "retrying" => job' = job
        /\ pc[w] \in {"reporting", "retrying"} /\ handler' = handler
    BY <1>9 DEF HandleResult, Waiting, ReportFailed, AgentType
  <2> QED
    BY <2>1, <2>2 DEF Holding, Busy, AgentType
<1>10. ASSUME NEW w \in Worker, GiveUp(w) PROVE Holding'
  BY <1>10 DEF GiveUp, ReportFailed, table, Holding, Busy, TableType, AgentType
<1>11. ASSUME NEW w \in Worker, Crash(w) PROVE Holding'
  BY <1>11 DEF Crash, Abandon, table, Holding, Busy, TableType, AgentType
<1>12. ASSUME NEW w \in Worker, Restart(w) PROVE Holding'
  BY <1>12 DEF Restart, table, Holding, Busy, TableType, AgentType
<1>13. ASSUME NEW m \in Machine, OrphanClaims(m) PROVE Holding'
  BY <1>13 DEF OrphanClaims, IsNext, ClaimRow, Holding, Busy, TableType, AgentType
<1>14. ASSUME NEW m \in Machine, OrphanEnds(m) PROVE Holding'
  BY <1>14 DEF OrphanEnds, table, Holding, Busy, TableType, AgentType
<1>15. ASSUME NEW msg \in wire, HandleLate(msg) PROVE Holding'
  <2>0. msg.task \in Id /\ msg.ok \in BOOLEAN
    BY DEF ReportType, Message
  <2>1. \A v \in Worker : job[v] # 0 => state'[job[v]] \notin {"none", "pending"}
    <3>1. FinishRow(msg.task, msg.ok)
      BY <1>15 DEF HandleLate
    <3>2. \A i \in Id : state'[i] = state[i] \/ state'[i] \in Finished
      BY <2>0, <3>1, FinishRows DEF Finished
    <3> QED
      BY <3>2 DEF Finished, Holding, AgentType
  <2> QED
    BY <1>15, <2>1 DEF HandleLate, agents, Holding, Busy, AgentType
<1>16. ASSUME NEW msg \in wire, DropResult(msg) PROVE Holding'
  BY <1>16 DEF DropResult, table, agents, Holding, Busy, TableType, AgentType
<1>17. ASSUME NEW asleep \in SUBSET Sleepers, Tick(asleep) PROVE Holding'
  BY <1>17 DEF Tick, Holding, Busy, TableType, AgentType
<1>18. CASE UNCHANGED vars
  BY <1>18 DEF vars, table, agents, Holding, Busy, TableType, AgentType
<1> QED
  BY <1>1, <1>2, <1>3, <1>4, <1>5, <1>6, <1>7, <1>8, <1>9, <1>10, <1>11, <1>12, <1>13, <1>14, <1>15, <1>16, <1>17, <1>18 DEF Next, Step


\* Every action keeps the history of runs and results.
LEMMA HistoryStep == IInv /\ [Next]_vars => History'
<1> SUFFICES ASSUME IInv, [Next]_vars PROVE History'
  OBVIOUS
<1> TableType /\ AgentType /\ ReportType /\ Holding /\ History
  BY DEF IInv, TypeOK
<1> USE HostAssumption, BoundAssumption DEF Id
<1>1. ASSUME NEW m \in Machine, NEW k \in Kind, Enqueue(m, k) PROVE History'
  BY <1>1 DEF Enqueue, agents, History, Holding, Busy, TableType, AgentType, ReportType
<1>2. ASSUME ConsoleReap PROVE History'
  <2>1. Reap
    BY <1>2 DEF ConsoleReap
  <2>2. \A i \in Id : state'[i] = state[i] \/ state'[i] = "failed"
    BY <2>1, ReapRows
  <2> QED
    BY <1>2, <2>2 DEF ConsoleReap, agents, History, Busy, AgentType
<1>3. ASSUME NEW w \in Worker, StartPoll(w) PROVE History'
  <2>1. Reap
    BY <1>3 DEF StartPoll
  <2>2. \A i \in Id : state'[i] = state[i] \/ state'[i] = "failed"
    BY <2>1, ReapRows
  <2> QED
    BY <1>3, <2>2 DEF StartPoll, History, Busy, AgentType
<1>4. ASSUME NEW w \in Worker, Claim(w) PROVE History'
  <2>1. PICK i \in Id : IsNext(i, HostOf[w]) /\ ClaimRow(i) /\ job' = [job EXCEPT ![w] = i]
    BY <1>4 DEF Claim
  <2>2. state[i] = "pending" /\ runs[i] = 0
    BY <2>1 DEF IsNext, History
  <2>3. pc' = pc /\ runs' = runs /\ outcome' = outcome /\ wire' = wire
    BY <1>4 DEF Claim
  <2>4. \A v \in Worker : handler'[v] = "answered" => runs[job'[v]] = 0
    BY <1>4, <2>1, <2>2 DEF Claim, History, AgentType
  <2>5. \A v \in Worker : pc[v] \in Busy => job'[v] = job[v]
    BY <1>4, <2>1 DEF Claim, Busy, AgentType
  <2>6. \A j \in Id : state'[j] = IF j = i THEN "claimed" ELSE state[j]
    BY <2>1 DEF ClaimRow, TableType
  <2> QED
    BY <2>3, <2>4, <2>5, <2>6 DEF History, Busy
<1>5. ASSUME NEW w \in Worker, EmptyPoll(w) PROVE History'
  BY <1>5 DEF EmptyPoll, table, History, Holding, Busy, TableType, AgentType, ReportType
<1>6. ASSUME NEW w \in Worker, Receive(w) PROVE History'
  <2>1. job[w] \in Id /\ handler[w] = "answered" /\ runs[job[w]] = 0
    BY <1>6, HeldRow DEF Receive, History
  <2>2. \A v \in Worker : v # w => job[v] # job[w]
    BY <2>1, HeldRow DEF Holding
  <2>3. state[job[w]] \notin {"none", "pending"} /\ outcome[job[w]] = "none"
    BY <2>1, HeldRow DEF Holding, History
  <2> QED
    BY <1>6, <2>1, <2>2, <2>3 DEF Receive, table, History, Busy, AgentType, ReportType, Holding
<1>7. ASSUME NEW w \in Worker, PollFails(w) PROVE History'
  <2>1. /\ state' = state /\ runs' = runs /\ outcome' = outcome /\ wire' = wire
        /\ pc' = [pc EXCEPT ![w] = "idle"] /\ job' = [job EXCEPT ![w] = 0]
    BY <1>7 DEF PollFails, table
  <2>2. \A v \in Worker : handler'[v] = "answered" => v # w /\ handler[v] = "answered"
    BY <1>7 DEF PollFails, Abandon, AgentType, Holding
  <2> QED
    BY <2>1, <2>2 DEF History, Busy, AgentType
<1>8. ASSUME NEW w \in Worker, NEW ok \in BOOLEAN, RunEnds(w, ok) PROVE History'
  <2>1. job[w] \in Id /\ pc[w] = "running" /\ outcome[job[w]] = "none" /\ runs[job[w]] = 1
    BY <1>8, HeldRow DEF RunEnds, Busy, History
  <2>2. \A v \in Worker : v # w => job[v] # job[w]
    BY <2>1 DEF Holding
  <2>3. state[job[w]] # "done" /\ \A m \in wire : m.task # job[w]
    BY <2>1 DEF History
  <2>4. \A m \in wire' : outcome'[m.task] = IF m.ok THEN "ok" ELSE "error"
    BY <1>8, <2>1, <2>3 DEF RunEnds, Result, History, ReportType, Message
  <2> QED
    BY <1>8, <2>1, <2>2, <2>3, <2>4 DEF RunEnds, table, History, Busy, AgentType, ReportType, Holding
<1>9. ASSUME NEW w \in Worker, NEW msg \in wire, HandleResult(msg, w) PROVE History'
  <2>1. msg.task \in Id /\ msg.ok \in BOOLEAN /\ FinishRow(msg.task, msg.ok)
    BY <1>9 DEF HandleResult, ReportType, Message
  <2>2. outcome[msg.task] = IF msg.ok THEN "ok" ELSE "error"
    BY DEF History
  <2>3. \A i \in Id : state'[i] # state[i] => state'[i] = "failed" \/
                         (state'[i] = "done" /\ outcome[i] = "ok")
    BY <2>1, <2>2, FinishRows
  <2>4. /\ pc' = [pc EXCEPT ![w] = "idle"] \/ pc' = [pc EXCEPT ![w] = "retrying"]
        /\ pc'[w] = "retrying" => job' = job
        /\ \A v \in Worker : v # w => job'[v] = job[v]
        /\ pc[w] \in {"reporting", "retrying"} /\ handler' = handler
        /\ wire' \subseteq wire \cup Resent(w)
        /\ runs' = runs /\ outcome' = outcome
    BY <1>9 DEF HandleResult, Waiting, ReportFailed, AgentType
  <2>5. \A m \in wire' : outcome[m.task] = IF m.ok THEN "ok" ELSE "error"
    BY <2>4, ResentSays DEF History
  <2> QED
    BY <2>3, <2>4, <2>5 DEF History, Holding, Busy, AgentType
<1>10. ASSUME NEW w \in Worker, GiveUp(w) PROVE History'
  <2>4. /\ pc' = [pc EXCEPT ![w] = "idle"] \/ pc' = [pc EXCEPT ![w] = "retrying"]
        /\ pc'[w] = "retrying" => job' = job
        /\ \A v \in Worker : v # w => job'[v] = job[v]
        /\ pc[w] \in {"reporting", "retrying"} /\ handler' = handler
        /\ wire' = wire \cup Resent(w)
        /\ runs' = runs /\ outcome' = outcome /\ state' = state
    BY <1>10 DEF GiveUp, ReportFailed, AgentType, table
  <2>5. \A m \in wire' : outcome[m.task] = IF m.ok THEN "ok" ELSE "error"
    BY <2>4, ResentSays DEF History
  <2> QED
    BY <2>4, <2>5 DEF History, Holding, Busy, AgentType
<1>11. ASSUME NEW w \in Worker, Crash(w) PROVE History'
  <2>1. /\ state' = state /\ runs' = runs /\ outcome' = outcome /\ wire' = wire
        /\ pc' = [pc EXCEPT ![w] = "down"] /\ job' = [job EXCEPT ![w] = 0]
    BY <1>11 DEF Crash, table
  <2>2. \A v \in Worker : handler'[v] = "answered" => v # w /\ handler[v] = "answered"
    BY <1>11 DEF Crash, Abandon, AgentType, Holding
  <2> QED
    BY <2>1, <2>2 DEF History, Busy, AgentType
<1>12. ASSUME NEW w \in Worker, Restart(w) PROVE History'
  BY <1>12 DEF Restart, table, History, Holding, Busy, TableType, AgentType, ReportType
<1>13. ASSUME NEW m \in Machine, OrphanClaims(m) PROVE History'
  BY <1>13 DEF OrphanClaims, IsNext, ClaimRow, History, Holding, Busy, TableType, AgentType, ReportType
<1>14. ASSUME NEW m \in Machine, OrphanEnds(m) PROVE History'
  BY <1>14 DEF OrphanEnds, table, History, Holding, Busy, TableType, AgentType, ReportType
<1>15. ASSUME NEW msg \in wire, HandleLate(msg) PROVE History'
  <2>1. msg.task \in Id /\ msg.ok \in BOOLEAN /\ FinishRow(msg.task, msg.ok)
    BY <1>15 DEF HandleLate, ReportType, Message
  <2>2. outcome[msg.task] = IF msg.ok THEN "ok" ELSE "error"
    BY DEF History
  <2>3. \A i \in Id : state'[i] # state[i] => state'[i] = "failed" \/
                         (state'[i] = "done" /\ outcome[i] = "ok")
    BY <2>1, <2>2, FinishRows
  <2> QED
    BY <1>15, <2>3 DEF HandleLate, agents, History, Busy
<1>16. ASSUME NEW msg \in wire, DropResult(msg) PROVE History'
  BY <1>16 DEF DropResult, table, agents, History, Holding, Busy, TableType, AgentType, ReportType
<1>17. ASSUME NEW asleep \in SUBSET Sleepers, Tick(asleep) PROVE History'
  BY <1>17 DEF Tick, History, Holding, Busy, TableType, AgentType, ReportType
<1>18. CASE UNCHANGED vars
  BY <1>18 DEF vars, table, agents, History, Holding, Busy, TableType, AgentType, ReportType
<1> QED
  BY <1>1, <1>2, <1>3, <1>4, <1>5, <1>6, <1>7, <1>8, <1>9, <1>10, <1>11, <1>12, <1>13, <1>14, <1>15, <1>16, <1>17, <1>18 DEF Next, Step

\* Every action keeps the queue in order.
LEMMA OrderedStep == IInv /\ [Next]_vars => Ordered'
<1> SUFFICES ASSUME IInv, [Next]_vars PROVE Ordered'
  OBVIOUS
<1> TableType /\ ReportType /\ Ordered
  BY DEF IInv, TypeOK
<1> USE BoundAssumption DEF Id
<1>1. ASSUME NEW m \in Machine, NEW k \in Kind, Enqueue(m, k) PROVE Ordered'
  <2>1. PICK i \in Id : /\ state[i] = "none" /\ \A j \in Id : j < i => state[j] # "none"
                        /\ state' = [state EXCEPT ![i] = "pending"]
                        /\ node' = [node EXCEPT ![i] = m]
                        /\ age' = [age EXCEPT ![i] = 0]
    BY <1>1 DEF Enqueue
  <2>2. /\ \A j \in Id : state'[j] = IF j = i THEN "pending" ELSE state[j]
        /\ \A j \in Id : node'[j] = IF j = i THEN m ELSE node[j]
        /\ \A j \in Id : age'[j] = IF j = i THEN 0 ELSE age[j]
        /\ \A j \in Id : age[j] >= 0
    BY <2>1, TimeAssumption DEF TableType
  <2>3. \A j \in Id : i < j => state[j] = "none"
    BY <2>1 DEF Ordered
  <2>4. (\A j, k1 \in Id : j < k1 /\ state[k1] # "none" => state[j] # "none")'
    BY <2>1, <2>2, <2>3 DEF Ordered
  <2>5. (\A j, k1 \in Id : j < k1 /\ state[j] = "pending" /\ state[k1] = "pending"
                               => age[k1] <= age[j])'
    BY <2>2, <2>3 DEF Ordered
  <2>6. InOrder'
    BY <2>2, <2>3 DEF Ordered, InOrder, Finished
  <2> QED
    BY <2>4, <2>5, <2>6 DEF Ordered
<1>2. ASSUME ConsoleReap PROVE Ordered'
  BY <1>2, ReapOrdered DEF ConsoleReap
<1>3. ASSUME NEW w \in Worker, StartPoll(w) PROVE Ordered'
  BY <1>3, ReapOrdered DEF StartPoll
<1>4. ASSUME NEW w \in Worker, Claim(w) PROVE Ordered'
  BY <1>4, ClaimOrdered, HostAssumption DEF Claim
<1>5. ASSUME NEW w \in Worker, EmptyPoll(w) PROVE Ordered'
  BY <1>5 DEF EmptyPoll, table, Ordered, InOrder
<1>6. ASSUME NEW w \in Worker, Receive(w) PROVE Ordered'
  BY <1>6 DEF Receive, table, Ordered, InOrder
<1>7. ASSUME NEW w \in Worker, PollFails(w) PROVE Ordered'
  BY <1>7 DEF PollFails, table, Ordered, InOrder
<1>8. ASSUME NEW w \in Worker, NEW ok \in BOOLEAN, RunEnds(w, ok) PROVE Ordered'
  BY <1>8 DEF RunEnds, table, Ordered, InOrder
<1>9. ASSUME NEW w \in Worker, NEW msg \in wire, HandleResult(msg, w) PROVE Ordered'
  BY <1>9, FinishOrdered DEF HandleResult, ReportType, Message
<1>10. ASSUME NEW w \in Worker, GiveUp(w) PROVE Ordered'
  BY <1>10 DEF GiveUp, table, Ordered, InOrder
<1>11. ASSUME NEW w \in Worker, Crash(w) PROVE Ordered'
  BY <1>11 DEF Crash, table, Ordered, InOrder
<1>12. ASSUME NEW w \in Worker, Restart(w) PROVE Ordered'
  BY <1>12 DEF Restart, table, Ordered, InOrder
<1>13. ASSUME NEW m \in Machine, OrphanClaims(m) PROVE Ordered'
  BY <1>13, ClaimOrdered DEF OrphanClaims
<1>14. ASSUME NEW m \in Machine, OrphanEnds(m) PROVE Ordered'
  BY <1>14 DEF OrphanEnds, table, Ordered, InOrder
<1>15. ASSUME NEW msg \in wire, HandleLate(msg) PROVE Ordered'
  BY <1>15, FinishOrdered DEF HandleLate, ReportType, Message
<1>16. ASSUME NEW msg \in wire, DropResult(msg) PROVE Ordered'
  BY <1>16 DEF DropResult, table, Ordered, InOrder
<1>17. ASSUME NEW asleep \in SUBSET Sleepers, Tick(asleep) PROVE Ordered'
  <2>1. \A i \in Id : age'[i] = IF state[i] \in Live /\ age[i] <= Stale THEN age[i] + 1 ELSE age[i]
    BY <1>17 DEF Tick
  <2>2. state' = state /\ node' = node
    BY <1>17 DEF Tick
  <2>3. (\A i, j \in Id : i < j /\ state[i] = "pending" /\ state[j] = "pending"
                              => age[j] <= age[i])'
    <3> SUFFICES ASSUME NEW i \in Id, NEW j \in Id, i < j,
                        state[i] = "pending", state[j] = "pending"
                 PROVE  age'[j] <= age'[i]
      BY <2>2
    <3>1. age[i] \in 0 .. Stale + 1 /\ age[j] \in 0 .. Stale + 1 /\ age[j] <= age[i]
      BY DEF Ordered, TableType
    <3>2. state[i] \in Live /\ state[j] \in Live
      BY DEF Live
    <3> QED
      BY <2>1, <3>1, <3>2, TimeAssumption
  <2> QED
    BY <2>2, <2>3 DEF Ordered, InOrder
<1>18. CASE UNCHANGED vars
  BY <1>18 DEF vars, table, agents, Ordered, InOrder
<1> QED
  BY <1>1, <1>2, <1>3, <1>4, <1>5, <1>6, <1>7, <1>8, <1>9, <1>10, <1>11, <1>12, <1>13, <1>14, <1>15, <1>16, <1>17, <1>18 DEF Next, Step


\* Every action that ends a row drops its password.
LEMMA SecretStep == IInv /\ [Next]_vars => NoSecretOutlives'
<1> SUFFICES ASSUME IInv, [Next]_vars PROVE NoSecretOutlives'
  OBVIOUS
<1> TableType /\ ReportType /\ NoSecretOutlives
  BY DEF IInv, TypeOK
<1> USE BoundAssumption DEF Id
<1>1. ASSUME NEW m \in Machine, NEW k \in Kind, Enqueue(m, k) PROVE NoSecretOutlives'
  BY <1>1 DEF Enqueue, NoSecretOutlives, TableType, Live
<1>2. ASSUME ConsoleReap PROVE NoSecretOutlives'
  <2>1. Reap
    BY <1>2 DEF ConsoleReap
  <2> QED
    BY <2>1, ReapRows DEF NoSecretOutlives
<1>3. ASSUME NEW w \in Worker, StartPoll(w) PROVE NoSecretOutlives'
  <2>1. Reap
    BY <1>3 DEF StartPoll
  <2> QED
    BY <2>1, ReapRows DEF NoSecretOutlives
<1>4. ASSUME NEW w \in Worker, Claim(w) PROVE NoSecretOutlives'
  BY <1>4 DEF Claim, ClaimRow, NoSecretOutlives, TableType, Live
<1>5. ASSUME NEW w \in Worker, EmptyPoll(w) PROVE NoSecretOutlives'
  BY <1>5 DEF EmptyPoll, table, NoSecretOutlives
<1>6. ASSUME NEW w \in Worker, Receive(w) PROVE NoSecretOutlives'
  BY <1>6 DEF Receive, table, NoSecretOutlives
<1>7. ASSUME NEW w \in Worker, PollFails(w) PROVE NoSecretOutlives'
  BY <1>7 DEF PollFails, table, NoSecretOutlives
<1>8. ASSUME NEW w \in Worker, NEW ok \in BOOLEAN, RunEnds(w, ok) PROVE NoSecretOutlives'
  BY <1>8 DEF RunEnds, table, NoSecretOutlives
<1>9. ASSUME NEW w \in Worker, NEW msg \in wire, HandleResult(msg, w) PROVE NoSecretOutlives'
  <2>1. msg.task \in Id /\ msg.ok \in BOOLEAN /\ FinishRow(msg.task, msg.ok)
    BY <1>9 DEF HandleResult, ReportType, Message
  <2> QED
    BY <2>1, FinishRows DEF NoSecretOutlives
<1>10. ASSUME NEW w \in Worker, GiveUp(w) PROVE NoSecretOutlives'
  BY <1>10 DEF GiveUp, table, NoSecretOutlives
<1>11. ASSUME NEW w \in Worker, Crash(w) PROVE NoSecretOutlives'
  BY <1>11 DEF Crash, table, NoSecretOutlives
<1>12. ASSUME NEW w \in Worker, Restart(w) PROVE NoSecretOutlives'
  BY <1>12 DEF Restart, table, NoSecretOutlives
<1>13. ASSUME NEW m \in Machine, OrphanClaims(m) PROVE NoSecretOutlives'
  BY <1>13 DEF OrphanClaims, ClaimRow, NoSecretOutlives, TableType, Live
<1>14. ASSUME NEW m \in Machine, OrphanEnds(m) PROVE NoSecretOutlives'
  BY <1>14 DEF OrphanEnds, table, NoSecretOutlives
<1>15. ASSUME NEW msg \in wire, HandleLate(msg) PROVE NoSecretOutlives'
  <2>1. msg.task \in Id /\ msg.ok \in BOOLEAN /\ FinishRow(msg.task, msg.ok)
    BY <1>15 DEF HandleLate, ReportType, Message
  <2> QED
    BY <2>1, FinishRows DEF NoSecretOutlives
<1>16. ASSUME NEW msg \in wire, DropResult(msg) PROVE NoSecretOutlives'
  BY <1>16 DEF DropResult, table, NoSecretOutlives
<1>17. ASSUME NEW asleep \in SUBSET Sleepers, Tick(asleep) PROVE NoSecretOutlives'
  BY <1>17 DEF Tick, NoSecretOutlives
<1>18. CASE UNCHANGED vars
  BY <1>18 DEF vars, table, agents, NoSecretOutlives
<1> QED
  BY <1>1, <1>2, <1>3, <1>4, <1>5, <1>6, <1>7, <1>8, <1>9, <1>10, <1>11, <1>12, <1>13, <1>14, <1>15, <1>16, <1>17, <1>18 DEF Next, Step


\* Every action leaves the awake processes inside their limits.
LEMMA TimelyStep == IInv /\ [Next]_vars => Timely'
<1> SUFFICES ASSUME IInv, [Next]_vars PROVE Timely'
  OBVIOUS
<1> TableType /\ AgentType /\ Holding /\ Timely
  BY DEF IInv, TypeOK
<1> USE HostAssumption, BoundAssumption DEF Id
<1>1. ASSUME NEW m \in Machine, NEW k \in Kind, Enqueue(m, k) PROVE Timely'
  <2>1. PICK i \in Id : /\ state[i] = "none"
                        /\ kind' = [kind EXCEPT ![i] = k]
                        /\ age' = [age EXCEPT ![i] = 0]
    BY <1>1 DEF Enqueue
  <2>2. agents' = agents
    BY <1>1 DEF Enqueue
  <2>3. \A v \in Worker : job[v] # 0 => job[v] \in Id /\ job[v] # i
    BY <2>1 DEF Holding, AgentType
  <2>4. \A v \in Worker : job[v] # 0 => age'[job[v]] = age[job[v]] /\ kind'[job[v]] = kind[job[v]]
    BY <2>1, <2>3 DEF TableType
  <2> QED
    BY <2>2, <2>4, StillInTime DEF agents, Timely
<1>2. ASSUME ConsoleReap PROVE Timely'
  BY <1>2, StillInTime DEF ConsoleReap, Reap, agents, Timely
<1>3. ASSUME NEW w \in Worker, StartPoll(w) PROVE Timely'
  <2>1. /\ age' = age /\ kind' = kind
        /\ \A v \in Worker : v # w => /\ pc'[v] = pc[v] /\ handler'[v] = handler[v]
                                       /\ job'[v] = job[v] /\ clock'[v] = clock[v]
    BY <1>3 DEF StartPoll, Reap, AgentType
  <2>2. \A v \in Worker \ Sleepers : v # w => InTime(v)'
    BY <2>1, StillInTime
  <2>3. w \notin Sleepers => InTime(w)'
    BY <1>3, TimeAssumption DEF StartPoll, InTime, AgentType
  <2> QED
    BY <2>2, <2>3 DEF Timely
<1>4. ASSUME NEW w \in Worker, Claim(w) PROVE Timely'
  <2>1. PICK i \in Id : IsNext(i, HostOf[w]) /\ ClaimRow(i) /\ job' = [job EXCEPT ![w] = i]
    BY <1>4 DEF Claim
  <2>2. \A v \in Worker : job[v] # 0 => job[v] # i /\ job[v] \in Id
    BY <2>1 DEF IsNext, Holding, AgentType
  <2>3. \A v \in Worker : job[v] # 0 => age'[job[v]] = age[job[v]] /\ kind'[job[v]] = kind[job[v]]
    BY <2>1, <2>2 DEF ClaimRow, TableType
  <2>4. \A v \in Worker : v # w => /\ pc'[v] = pc[v] /\ handler'[v] = handler[v]
                                   /\ job'[v] = job[v] /\ clock'[v] = clock[v]
    BY <1>4, <2>1 DEF Claim, AgentType
  <2>5. \A v \in Worker \ Sleepers : v # w => InTime(v)'
    BY <2>3, <2>4, StillInTime
  <2>6. w \notin Sleepers => InTime(w)'
    <3>1. /\ pc'[w] = "polling" /\ pc[w] = "polling" /\ handler'[w] = "answered"
          /\ clock'[w] = clock[w] /\ job'[w] = i /\ age'[i] = 0 /\ clock[w] \in Nat
      BY <1>4, <2>1 DEF Claim, ClaimRow, AgentType, TableType
    <3> QED
      BY <3>1 DEF Timely, InTime, Within
  <2> QED
    BY <2>5, <2>6 DEF Timely
<1>5. ASSUME NEW w \in Worker, EmptyPoll(w) PROVE Timely'
  <2>1. /\ age' = age /\ kind' = kind
        /\ \A v \in Worker : v # w => /\ pc'[v] = pc[v] /\ handler'[v] = handler[v]
                                       /\ job'[v] = job[v] /\ clock'[v] = clock[v]
    BY <1>5 DEF EmptyPoll, table, AgentType
  <2>2. \A v \in Worker \ Sleepers : v # w => InTime(v)'
    BY <2>1, StillInTime
  <2>3. w \notin Sleepers => InTime(w)'
    BY <1>5 DEF EmptyPoll, InTime, AgentType
  <2> QED
    BY <2>2, <2>3 DEF Timely
<1>6. ASSUME NEW w \in Worker, Receive(w) PROVE Timely'
  <2>1. /\ age' = age /\ kind' = kind
        /\ \A v \in Worker : v # w => /\ pc'[v] = pc[v] /\ handler'[v] = handler[v]
                                       /\ job'[v] = job[v] /\ clock'[v] = clock[v]
    BY <1>6 DEF Receive, table, AgentType
  <2>2. \A v \in Worker \ Sleepers : v # w => InTime(v)'
    BY <2>1, StillInTime
  <2>3. w \notin Sleepers => InTime(w)'
    <3> SUFFICES ASSUME w \notin Sleepers PROVE InTime(w)'
      OBVIOUS
    <3>1. job[w] \in Id
      BY <1>6, HeldRow DEF Receive, Busy
    <3>2. age[job[w]] \in Int /\ clock[w] \in Nat /\ Timeout[kind[job[w]]] \in Nat
      BY <3>1, TimeAssumption DEF TableType, AgentType
    <3>3. age[job[w]] <= Http
      BY <1>6, <3>2, TimeAssumption DEF Receive, Timely, InTime, Within
    <3>4. /\ pc'[w] = "running" /\ handler'[w] = "none" /\ clock'[w] = 0 /\ job'[w] = job[w]
          /\ age'[job[w]] = age[job[w]] /\ kind'[job[w]] = kind[job[w]]
      BY <1>6, <2>1 DEF Receive, AgentType
    <3> QED
      BY <3>2, <3>3, <3>4, TimeAssumption DEF InTime, Within
  <2> QED
    BY <2>2, <2>3 DEF Timely
<1>7. ASSUME NEW w \in Worker, PollFails(w) PROVE Timely'
  <2>1. /\ age' = age /\ kind' = kind
        /\ \A v \in Worker : v # w => /\ pc'[v] = pc[v] /\ handler'[v] = handler[v]
                                       /\ job'[v] = job[v] /\ clock'[v] = clock[v]
    BY <1>7 DEF PollFails, Abandon, table, AgentType
  <2>2. \A v \in Worker \ Sleepers : v # w => InTime(v)'
    BY <2>1, StillInTime
  <2>3. w \notin Sleepers => InTime(w)'
    BY <1>7 DEF PollFails, Abandon, InTime, AgentType
  <2> QED
    BY <2>2, <2>3 DEF Timely
<1>8. ASSUME NEW w \in Worker, NEW ok \in BOOLEAN, RunEnds(w, ok) PROVE Timely'
  <2>1. /\ age' = age /\ kind' = kind
        /\ \A v \in Worker : v # w => /\ pc'[v] = pc[v] /\ handler'[v] = handler[v]
                                       /\ job'[v] = job[v] /\ clock'[v] = clock[v]
    BY <1>8 DEF RunEnds, table, AgentType
  <2>2. \A v \in Worker \ Sleepers : v # w => InTime(v)'
    BY <2>1, StillInTime
  <2>3. w \notin Sleepers => InTime(w)'
    <3> SUFFICES ASSUME w \notin Sleepers PROVE InTime(w)'
      OBVIOUS
    <3>1. job[w] \in Id
      BY <1>8, HeldRow DEF RunEnds, Busy
    <3>2. age[job[w]] \in Int /\ clock[w] \in Nat /\ Timeout[kind[job[w]]] \in Nat
      BY <3>1, TimeAssumption DEF TableType, AgentType
    <3>3. age[job[w]] <= Http + Timeout[kind[job[w]]]
      BY <1>8, <3>2, TimeAssumption DEF RunEnds, Timely, InTime, Within
    <3>4. /\ pc'[w] = "reporting" /\ handler'[w] = "none" /\ clock'[w] = 0 /\ job'[w] = job[w]
          /\ age'[job[w]] = age[job[w]] /\ kind'[job[w]] = kind[job[w]]
      BY <1>8, <2>1 DEF RunEnds, AgentType, Holding
    <3> QED
      BY <3>2, <3>3, <3>4, TimeAssumption DEF InTime, Within
  <2> QED
    BY <2>2, <2>3 DEF Timely
<1>9. ASSUME NEW w \in Worker, NEW msg \in wire, HandleResult(msg, w) PROVE Timely'
  <2>1. /\ age' = age /\ kind' = kind
        /\ \A v \in Worker : v # w => /\ pc'[v] = pc[v] /\ handler'[v] = handler[v]
                                       /\ job'[v] = job[v] /\ clock'[v] = clock[v]
    BY <1>9 DEF HandleResult, FinishRow, ReportFailed, table, AgentType
  <2>2. \A v \in Worker \ Sleepers : v # w => InTime(v)'
    BY <2>1, StillInTime
  <2>3. w \notin Sleepers => InTime(w)'
    <3> SUFFICES ASSUME w \notin Sleepers PROVE InTime(w)'
      OBVIOUS
    <3>1. job[w] \in Id
      BY <1>9, HeldRow DEF HandleResult, Waiting, Busy
    <3>2. age[job[w]] \in Int /\ clock[w] \in Nat /\ Timeout[kind[job[w]]] \in Nat
      BY <3>1, TimeAssumption DEF TableType, AgentType
    <3>3. /\ handler'[w] = "none" /\ clock'[w] = 0
          /\ \/ pc'[w] = "idle"
             \/ pc[w] = "reporting" /\ pc'[w] = "retrying" /\ job'[w] = job[w]
      BY <1>9 DEF HandleResult, Waiting, ReportFailed, AgentType, Holding
    <3>4. pc[w] = "reporting" => age[job[w]] <= Http + Timeout[kind[job[w]]] + Http
      BY <3>2, TimeAssumption DEF Timely, InTime, Within
    <3> QED
      BY <2>1, <3>2, <3>3, <3>4, TimeAssumption DEF InTime, Within
  <2> QED
    BY <2>2, <2>3 DEF Timely
<1>10. ASSUME NEW w \in Worker, GiveUp(w) PROVE Timely'
  <2>1. /\ age' = age /\ kind' = kind
        /\ \A v \in Worker : v # w => /\ pc'[v] = pc[v] /\ handler'[v] = handler[v]
                                       /\ job'[v] = job[v] /\ clock'[v] = clock[v]
    BY <1>10 DEF GiveUp, ReportFailed, table, AgentType
  <2>2. \A v \in Worker \ Sleepers : v # w => InTime(v)'
    BY <2>1, StillInTime
  <2>3. w \notin Sleepers => InTime(w)'
    <3> SUFFICES ASSUME w \notin Sleepers PROVE InTime(w)'
      OBVIOUS
    <3>1. job[w] \in Id
      BY <1>10, HeldRow DEF GiveUp, Busy
    <3>2. age[job[w]] \in Int /\ clock[w] \in Nat /\ Timeout[kind[job[w]]] \in Nat
      BY <3>1, TimeAssumption DEF TableType, AgentType
    <3>3. /\ handler'[w] = "none" /\ clock'[w] = 0
          /\ \/ pc'[w] = "idle"
             \/ pc[w] = "reporting" /\ pc'[w] = "retrying" /\ job'[w] = job[w]
      BY <1>10 DEF GiveUp, ReportFailed, AgentType, Holding
    <3>4. pc[w] = "reporting" => age[job[w]] <= Http + Timeout[kind[job[w]]] + Http
      BY <3>2, TimeAssumption DEF Timely, InTime, Within
    <3> QED
      BY <2>1, <3>2, <3>3, <3>4, TimeAssumption DEF InTime, Within
  <2> QED
    BY <2>2, <2>3 DEF Timely
<1>11. ASSUME NEW w \in Worker, Crash(w) PROVE Timely'
  <2>1. /\ age' = age /\ kind' = kind
        /\ \A v \in Worker : v # w => /\ pc'[v] = pc[v] /\ handler'[v] = handler[v]
                                       /\ job'[v] = job[v] /\ clock'[v] = clock[v]
    BY <1>11 DEF Crash, Abandon, table, AgentType
  <2>2. \A v \in Worker \ Sleepers : v # w => InTime(v)'
    BY <2>1, StillInTime
  <2>3. w \notin Sleepers => InTime(w)'
    BY <1>11 DEF Crash, Abandon, InTime, AgentType, Holding
  <2> QED
    BY <2>2, <2>3 DEF Timely
<1>12. ASSUME NEW w \in Worker, Restart(w) PROVE Timely'
  <2>1. /\ age' = age /\ kind' = kind
        /\ \A v \in Worker : v # w => /\ pc'[v] = pc[v] /\ handler'[v] = handler[v]
                                       /\ job'[v] = job[v] /\ clock'[v] = clock[v]
    BY <1>12 DEF Restart, table, AgentType
  <2>2. \A v \in Worker \ Sleepers : v # w => InTime(v)'
    BY <2>1, StillInTime
  <2>3. w \notin Sleepers => InTime(w)'
    BY <1>12 DEF Restart, InTime, AgentType, Holding
  <2> QED
    BY <2>2, <2>3 DEF Timely
<1>13. ASSUME NEW m \in Machine, OrphanClaims(m) PROVE Timely'
  <2>1. PICK i \in Id : IsNext(i, m) /\ ClaimRow(i)
    BY <1>13 DEF OrphanClaims
  <2>2. \A v \in Worker : job[v] # 0 => job[v] # i /\ job[v] \in Id
    BY <2>1 DEF IsNext, Holding, AgentType
  <2>3. \A v \in Worker : job[v] # 0 => age'[job[v]] = age[job[v]] /\ kind'[job[v]] = kind[job[v]]
    BY <2>1, <2>2 DEF ClaimRow, TableType
  <2> QED
    BY <1>13, <2>3, StillInTime DEF OrphanClaims, Timely
<1>14. ASSUME NEW m \in Machine, OrphanEnds(m) PROVE Timely'
  BY <1>14, StillInTime DEF OrphanEnds, table, Timely
<1>15. ASSUME NEW msg \in wire, HandleLate(msg) PROVE Timely'
  BY <1>15, StillInTime DEF HandleLate, FinishRow, agents, table, Timely
<1>16. ASSUME NEW msg \in wire, DropResult(msg) PROVE Timely'
  BY <1>16, StillInTime DEF DropResult, agents, table, Timely
<1>17. ASSUME NEW asleep \in SUBSET Sleepers, Tick(asleep) PROVE Timely'
  <2> SUFFICES ASSUME NEW v \in Worker \ Sleepers PROVE InTime(v)'
    BY DEF Timely
  <2>1. /\ pc' = pc /\ handler' = handler /\ job' = job /\ kind' = kind
        /\ pc[v] # "down" => clock[v] < Limit(v) /\ clock'[v] = clock[v] + 1
    BY <1>17 DEF Tick
  <2>2. \A i \in Id : age'[i] <= age[i] + 1 /\ age[i] \in Int /\ age'[i] \in Int
    BY <1>17, TimeAssumption DEF Tick, TableType
  <2>3. job[v] # 0 => job[v] \in Id /\ Timeout[kind[job[v]]] \in Nat
    BY TimeAssumption DEF AgentType, TableType
  <2>4. /\ job[v] # 0 <=> (handler[v] = "answered" \/ pc[v] \in Busy)
        /\ handler[v] # "none" <=> pc[v] = "polling"
        /\ clock[v] \in Nat
    BY DEF Holding, AgentType
  <2>5. /\ pc[v] = "running" => Limit(v) = Timeout[kind[job[v]]]
        /\ pc[v] \in {"polling", "reporting", "retrying"} => Limit(v) = Http
    BY DEF Limit
  <2>6. InTime(v)
    BY DEF Timely
  <2> QED
    BY <2>1, <2>2, <2>3, <2>4, <2>5, <2>6, TimeAssumption DEF InTime, Within, Busy
<1>18. CASE UNCHANGED vars
  BY <1>18 DEF vars, table, agents, Timely, InTime, Within
<1> QED
  BY <1>1, <1>2, <1>3, <1>4, <1>5, <1>6, <1>7, <1>8, <1>9, <1>10, <1>11, <1>12, <1>13, <1>14, <1>15, <1>16, <1>17, <1>18 DEF Next, Step


\* No action fails a row under an awake process that holds it.
LEMMA HeldStep == IInv /\ [Next]_vars => HeldIsNotReaped'
<1> SUFFICES ASSUME IInv, [Next]_vars PROVE HeldIsNotReaped'
  OBVIOUS
<1> TableType /\ AgentType /\ ReportType /\ Holding /\ History /\ HeldIsNotReaped
  BY DEF IInv, TypeOK
<1> USE HostAssumption, BoundAssumption DEF Id
<1>1. ASSUME NEW m \in Machine, NEW k \in Kind, Enqueue(m, k) PROVE HeldIsNotReaped'
  <2>1. PICK i \in Id : state[i] = "none" /\ state' = [state EXCEPT ![i] = "pending"]
    BY <1>1 DEF Enqueue
  <2>2. \A v \in Worker : job[v] # 0 => state'[job[v]] = state[job[v]]
    BY <2>1 DEF Holding, AgentType, TableType
  <2> QED
    BY <1>1, <2>2 DEF Enqueue, agents, HeldIsNotReaped
<1>2. ASSUME ConsoleReap PROVE HeldIsNotReaped'
  <2>1. Reap
    BY <1>2 DEF ConsoleReap
  <2>2. \A v \in Worker \ Sleepers : job[v] # 0 => state'[job[v]] = state[job[v]]
    BY <2>1, Young, ReapRows DEF AgentType
  <2> QED
    BY <1>2, <2>2 DEF ConsoleReap, agents, HeldIsNotReaped
<1>3. ASSUME NEW w \in Worker, StartPoll(w) PROVE HeldIsNotReaped'
  <2>1. Reap
    BY <1>3 DEF StartPoll
  <2>2. \A v \in Worker \ Sleepers : job[v] # 0 => state'[job[v]] = state[job[v]]
    BY <2>1, Young, ReapRows DEF AgentType
  <2> QED
    BY <1>3, <2>2 DEF StartPoll, HeldIsNotReaped
<1>4. ASSUME NEW w \in Worker, Claim(w) PROVE HeldIsNotReaped'
  <2>1. PICK i \in Id : IsNext(i, HostOf[w]) /\ ClaimRow(i) /\ job' = [job EXCEPT ![w] = i]
    BY <1>4 DEF Claim
  <2>2. \A v \in Worker : job'[v] # 0 =>
          state'[job'[v]] = "claimed" \/ (job'[v] = job[v] /\ state'[job'[v]] = state[job[v]])
    BY <2>1 DEF ClaimRow, Holding, AgentType, TableType
  <2> QED
    BY <1>4, <2>2 DEF Claim, HeldIsNotReaped
<1>5. ASSUME NEW w \in Worker, EmptyPoll(w) PROVE HeldIsNotReaped'
  BY <1>5 DEF EmptyPoll, table, HeldIsNotReaped, AgentType
<1>6. ASSUME NEW w \in Worker, Receive(w) PROVE HeldIsNotReaped'
  BY <1>6 DEF Receive, table, HeldIsNotReaped, AgentType
<1>7. ASSUME NEW w \in Worker, PollFails(w) PROVE HeldIsNotReaped'
  BY <1>7 DEF PollFails, table, HeldIsNotReaped, AgentType
<1>8. ASSUME NEW w \in Worker, NEW ok \in BOOLEAN, RunEnds(w, ok) PROVE HeldIsNotReaped'
  <2>1. job[w] \in Id /\ outcome[job[w]] = "none" /\ \A v \in Worker : v # w => job[v] # job[w]
    BY <1>8, HeldRow DEF RunEnds, Busy, History, Holding
  <2>2. w \notin Sleepers => state[job[w]] = "claimed"
    BY <1>8, <2>1, HeldRow DEF RunEnds, Busy, HeldIsNotReaped
  <2>3. \A v \in Worker : v # w => outcome'[job[v]] = outcome[job[v]]
    BY <1>8, <2>1 DEF RunEnds
  <2> QED
    BY <1>8, <2>2, <2>3 DEF RunEnds, table, HeldIsNotReaped
<1>9. ASSUME NEW w \in Worker, NEW msg \in wire, HandleResult(msg, w) PROVE HeldIsNotReaped'
  <2>1. msg.task \in Id /\ msg.ok \in BOOLEAN /\ FinishRow(msg.task, msg.ok)
    BY <1>9 DEF HandleResult, ReportType, Message
  <2>2. outcome[msg.task] = IF msg.ok THEN "ok" ELSE "error"
    BY DEF History
  <2>3. \A i \in Id : state'[i] # state[i] =>
          \/ state'[i] = "done" /\ outcome[i] = "ok"
          \/ state'[i] = "failed" /\ outcome[i] = "error"
    BY <2>1, <2>2, FinishRows
  <2>4. outcome' = outcome /\ \A v \in Worker : job'[v] \in {0, job[v]}
    BY <1>9 DEF HandleResult, ReportFailed, AgentType
  <2> QED
    BY <2>3, <2>4 DEF HeldIsNotReaped, AgentType
<1>10. ASSUME NEW w \in Worker, GiveUp(w) PROVE HeldIsNotReaped'
  BY <1>10 DEF GiveUp, ReportFailed, table, HeldIsNotReaped, AgentType
<1>11. ASSUME NEW w \in Worker, Crash(w) PROVE HeldIsNotReaped'
  BY <1>11 DEF Crash, table, HeldIsNotReaped, AgentType
<1>12. ASSUME NEW w \in Worker, Restart(w) PROVE HeldIsNotReaped'
  BY <1>12 DEF Restart, table, HeldIsNotReaped, AgentType
<1>13. ASSUME NEW m \in Machine, OrphanClaims(m) PROVE HeldIsNotReaped'
  <2>1. PICK i \in Id : IsNext(i, m) /\ ClaimRow(i)
    BY <1>13 DEF OrphanClaims
  <2>2. \A v \in Worker : job[v] # 0 => state'[job[v]] = state[job[v]]
    BY <2>1 DEF ClaimRow, IsNext, Holding, AgentType, TableType
  <2> QED
    BY <1>13, <2>2 DEF OrphanClaims, HeldIsNotReaped
<1>14. ASSUME NEW m \in Machine, OrphanEnds(m) PROVE HeldIsNotReaped'
  BY <1>14 DEF OrphanEnds, table, HeldIsNotReaped, AgentType
<1>15. ASSUME NEW msg \in wire, HandleLate(msg) PROVE HeldIsNotReaped'
  <2>1. msg.task \in Id /\ msg.ok \in BOOLEAN /\ FinishRow(msg.task, msg.ok)
    BY <1>15 DEF HandleLate, ReportType, Message
  <2>2. outcome[msg.task] = IF msg.ok THEN "ok" ELSE "error"
    BY DEF History
  <2>3. \A i \in Id : state'[i] # state[i] =>
          \/ state'[i] = "done" /\ outcome[i] = "ok"
          \/ state'[i] = "failed" /\ outcome[i] = "error"
    BY <2>1, <2>2, FinishRows
  <2>4. outcome' = outcome /\ job' = job
    BY <1>15 DEF HandleLate, agents, AgentType
  <2> QED
    BY <2>3, <2>4 DEF HeldIsNotReaped, AgentType
<1>16. ASSUME NEW msg \in wire, DropResult(msg) PROVE HeldIsNotReaped'
  BY <1>16 DEF DropResult, table, agents, HeldIsNotReaped, AgentType
<1>17. ASSUME NEW asleep \in SUBSET Sleepers, Tick(asleep) PROVE HeldIsNotReaped'
  BY <1>17 DEF Tick, HeldIsNotReaped
<1>18. CASE UNCHANGED vars
  BY <1>18 DEF vars, table, agents, HeldIsNotReaped
<1> QED
  BY <1>1, <1>2, <1>3, <1>4, <1>5, <1>6, <1>7, <1>8, <1>9, <1>10, <1>11, <1>12, <1>13, <1>14, <1>15, <1>16, <1>17, <1>18 DEF Next, Step


-----------------------------------------------------------------------------
(* The invariant and what follows from it.                                 *)

\* The empty queue with idle processes satisfies the invariant.
LEMMA InitInv == Init => IInv
<1> SUFFICES ASSUME Init PROVE IInv
  OBVIOUS
<1> USE HostAssumption, KindAssumption, TimeAssumption, BoundAssumption DEF Init, Id
<1>1. AnyHost \in Machine /\ AnyKind \in Kind
  BY DEF AnyHost, AnyKind
<1>2. TableType
  BY <1>1 DEF TableType
<1>3. AgentType
  BY DEF AgentType
<1>4. ReportType
  BY DEF ReportType
<1>5. Holding /\ History
  BY DEF Holding, History, Busy
<1>6. Ordered /\ NoSecretOutlives
  BY DEF Ordered, InOrder, NoSecretOutlives, Finished
<1>7. Timely /\ HeldIsNotReaped
  BY DEF Timely, InTime, HeldIsNotReaped
<1> QED
  BY <1>2, <1>3, <1>4, <1>5, <1>6, <1>7 DEF IInv, TypeOK

\* The conjunction of the parts is inductive, so it always holds.
THEOREM Invariance == Spec => []IInv
<1>1. IInv /\ [Next]_vars => IInv'
  BY TypeStep, HoldingStep, HistoryStep, OrderedStep, SecretStep, TimelyStep, HeldStep DEF IInv
<1> QED
  BY InitInv, <1>1, PTL DEF Spec

\* Types are kept by every handler and every agent step, for any fleet.
THEOREM TypeCorrect == Spec => []TypeOK
<1>1. IInv => TypeOK
  BY DEF IInv
<1> QED
  BY Invariance, <1>1, PTL

\* "A task is claimed by exactly one poll" (tasks.py): no task is ever started
\* twice or held by two agent processes, for any number of overlapping,
\* abandoned and orphaned polls, crashes and restarts.
THEOREM TasksStartOnce == Spec => []StartedOnce
<1>1. IInv => StartedOnce
  BY DEF IInv, History, Holding, StartedOnce
<1> QED
  BY Invariance, <1>1, PTL

\* STALE_MINUTES is long enough (StaleAssumption): reap never fails a task
\* under an agent that is awake and still at it.
THEOREM ReapSparesTheWorking == Spec => []HeldIsNotReaped
<1>1. IInv => HeldIsNotReaped
  BY DEF IInv
<1> QED
  BY Invariance, <1>1, PTL

\* A task reads done only when its one run succeeded, whatever reports were
\* lost, repeated or late.
THEOREM DoneIsTrue == Spec => []DoneMeansRan
<1>1. IInv => DoneMeansRan
  BY DEF IInv, History, DoneMeansRan
<1> QED
  BY Invariance, <1>1, PTL

\* Neither finish nor reap leaves a password in a finished row.
THEOREM SecretsEnd == Spec => []NoSecretOutlives
<1>1. IInv => NoSecretOutlives
  BY DEF IInv
<1> QED
  BY Invariance, <1>1, PTL

\* Claims and reap together serve each machine's queue first in, first out.
THEOREM QueueInOrder == Spec => []InOrder
<1>1. IInv => InOrder
  BY DEF IInv, Ordered
<1> QED
  BY Invariance, <1>1, PTL

\* No step, of a late report least of all, changes a finished row.
LEMMA FinalStep ==
  IInv /\ [Next]_vars => \A i \in Id : state[i] \in Finished => state'[i] = state[i]
<1> SUFFICES ASSUME IInv, [Next]_vars
             PROVE  \A i \in Id : state[i] \in Finished => state'[i] = state[i]
  OBVIOUS
<1> TableType /\ ReportType
  BY DEF IInv, TypeOK
<1> DEFINE Kept == \A i \in Id : state[i] \in Finished => state'[i] = state[i]
<1>1. Reap => Kept
  BY ReapRows DEF Live, Finished
<1>2. ASSUME NEW j \in Id, state[j] \notin Finished, NEW s, state' = [state EXCEPT ![j] = s]
      PROVE  Kept
  BY <1>2 DEF TableType
<1>3. ASSUME NEW msg \in wire, FinishRow(msg.task, msg.ok) PROVE Kept
  <2>1. msg.task \in Id /\ msg.ok \in BOOLEAN
    BY DEF ReportType, Message
  <2> QED
    BY <1>3, <2>1, FinishRows DEF Finished
<1>4. ASSUME NEW m \in Machine, NEW k \in Kind, Enqueue(m, k) PROVE Kept
  BY <1>2, <1>4 DEF Enqueue, Finished
<1>5. ASSUME NEW j \in Id, NEW m, IsNext(j, m), ClaimRow(j) PROVE Kept
  BY <1>2, <1>5 DEF IsNext, ClaimRow, Finished
<1>6. ASSUME NEW w \in Worker, Step(w) PROVE Kept
  <2>1. CASE StartPoll(w)
    BY <2>1, <1>1 DEF StartPoll
  <2>2. CASE Claim(w)
    BY <2>2, <1>5 DEF Claim
  <2>3. CASE \E msg \in wire : HandleResult(msg, w)
    BY <2>3, <1>3 DEF HandleResult
  <2>4. CASE state' = state
    BY <2>4
  <2> QED
    BY <1>6, <2>1, <2>2, <2>3, <2>4
       DEF Step, EmptyPoll, Receive, PollFails, RunEnds, GiveUp, Crash, Restart, table
<1>7. CASE ConsoleReap
  BY <1>7, <1>1 DEF ConsoleReap
<1>8. ASSUME NEW m \in Machine, OrphanClaims(m) \/ OrphanEnds(m) PROVE Kept
  BY <1>8, <1>5 DEF OrphanClaims, OrphanEnds, table
<1>9. ASSUME NEW msg \in wire, HandleLate(msg) \/ DropResult(msg) PROVE Kept
  BY <1>9, <1>3 DEF HandleLate, DropResult, table
<1>10. ASSUME NEW asleep \in SUBSET Sleepers, Tick(asleep) PROVE Kept
  BY <1>10 DEF Tick
<1>11. CASE UNCHANGED vars
  BY <1>11 DEF vars, table
<1> QED
  BY <1>4, <1>6, <1>7, <1>8, <1>9, <1>10, <1>11 DEF Next

\* A finished task stays as it was finished.
THEOREM FinishedStays == Spec => FinishedIsFinal
<1>1. IInv /\ [Next]_vars => [\A i \in Id : state[i] \in Finished => state'[i] = state[i]]_vars
  BY FinalStep
<1> QED
  BY Invariance, <1>1, PTL DEF Spec, FinishedIsFinal

(***************************************************************************)
(* NodeTasks implements TaskQueue, with the table's columns mapped to      *)
(* themselves.                                                             *)
(***************************************************************************)

\* Rows nobody touches: a stuttering step of the abstract queue.
LEMMA TableKept ==
  UNCHANGED <<state, node, kind>> => [Queue!Next]_(Queue!qvars)
  BY DEF Queue!qvars

\* enqueue inserts a row behind all others.
LEMMA EnqueueAdds ==
  ASSUME NEW m \in Machine, NEW k \in Kind, Enqueue(m, k)
  PROVE  Queue!Next
<1>1. PICK i \in Id : /\ state[i] = "none"
                      /\ \A j \in Id : j < i => state[j] # "none"
                      /\ state' = [state EXCEPT ![i] = "pending"]
                      /\ node' = [node EXCEPT ![i] = m]
                      /\ kind' = [kind EXCEPT ![i] = k]
  BY DEF Enqueue
<1>2. Queue!Add(i, m, k)
  BY <1>1 DEF Queue!Add, Queue!Id, Id
<1> QED
  BY <1>2 DEF Queue!Next, Queue!Id, Id

\* claim takes the oldest pending row of its machine.
LEMMA ClaimTakes ==
  ASSUME NEW m \in Machine, NEW i \in Id, IsNext(i, m), ClaimRow(i)
  PROVE  Queue!Next
<1>1. Queue!Take(i)
  BY DEF IsNext, ClaimRow, Queue!Take, Queue!Id, Id
<1> QED
  BY <1>1 DEF Queue!Next, Queue!Id, Id

\* finish ends a claimed row, or changes nothing.
LEMMA FinishEnds ==
  ASSUME NEW i \in Id, NEW ok \in BOOLEAN, FinishRow(i, ok)
  PROVE  [Queue!Next]_(Queue!qvars)
<1>1. CASE state[i] = "claimed"
  <2>1. Queue!Finish(i, ok)
    BY <1>1 DEF FinishRow, Queue!Finish
  <2> QED
    BY <2>1 DEF Queue!Next, Queue!Id, Id
<1>2. CASE state[i] # "claimed"
  BY <1>2, TableKept DEF FinishRow, table
<1> QED
  BY <1>1, <1>2

\* reap fails live rows only, and with a pending row every older pending one:
\* they have waited at least as long.
LEMMA ReapExpires ==
  ASSUME TableType, Ordered, Reap
  PROVE  [Queue!Next]_(Queue!qvars)
<1>1. Overdue \in SUBSET Id /\ \A i \in Overdue : state[i] \in Live
  BY DEF Overdue
<1>2. \A j \in Overdue, i \in Id :
         i < j /\ state[i] = "pending" /\ state[j] = "pending" => i \in Overdue
  BY TimeAssumption, BoundAssumption DEF Overdue, Ordered, TableType, Live, Id
<1>3. CASE Overdue = {}
  <2>1. state' = state
    BY <1>3 DEF Reap, TableType
  <2> QED
    BY <2>1, TableKept DEF Reap
<1>4. CASE Overdue # {}
  <2>1. Queue!Expire(Overdue)
    BY <1>1, <1>2, <1>4 DEF Reap, Queue!Expire, Queue!Id, Queue!Live, Id, Live
  <2> QED
    BY <1>1, <2>1 DEF Queue!Next, Queue!Id, Id
<1> QED
  BY <1>3, <1>4

\* Every step of the detailed specification is a step of the abstract one or
\* leaves its variables alone.
LEMMA StepMaps == IInv /\ [Next]_vars => [Queue!Next]_(Queue!qvars)
<1> SUFFICES ASSUME IInv, [Next]_vars PROVE [Queue!Next]_(Queue!qvars)
  OBVIOUS
<1> TableType /\ ReportType /\ Ordered
  BY DEF IInv, TypeOK
<1>1. ASSUME NEW msg \in wire, FinishRow(msg.task, msg.ok) PROVE [Queue!Next]_(Queue!qvars)
  <2>1. msg.task \in Id /\ msg.ok \in BOOLEAN
    BY DEF ReportType, Message
  <2> QED
    BY <1>1, <2>1, FinishEnds
<1>2. ASSUME NEW w \in Worker, Step(w) PROVE [Queue!Next]_(Queue!qvars)
  <2>1. CASE StartPoll(w)
    BY <2>1, ReapExpires DEF StartPoll
  <2>2. CASE Claim(w)
    <3>1. HostOf[w] \in Machine
      BY HostAssumption
    <3> QED
      BY <2>2, <3>1, ClaimTakes DEF Claim
  <2>3. CASE \E msg \in wire : HandleResult(msg, w)
    BY <2>3, <1>1 DEF HandleResult
  <2>4. CASE UNCHANGED table
    BY <2>4, TableKept DEF table
  <2> QED
    BY <1>2, <2>1, <2>2, <2>3, <2>4
       DEF Step, EmptyPoll, Receive, PollFails, RunEnds, GiveUp, Crash, Restart
<1>3. CASE ConsoleReap
  BY <1>3, ReapExpires DEF ConsoleReap
<1>4. ASSUME NEW m \in Machine, OrphanClaims(m) \/ OrphanEnds(m)
      PROVE  [Queue!Next]_(Queue!qvars)
  BY <1>4, ClaimTakes, TableKept DEF OrphanClaims, OrphanEnds, table
<1>5. ASSUME NEW msg \in wire, HandleLate(msg) \/ DropResult(msg)
      PROVE  [Queue!Next]_(Queue!qvars)
  BY <1>5, <1>1, TableKept DEF HandleLate, DropResult, table
<1>6. ASSUME NEW asleep \in SUBSET Sleepers, Tick(asleep) PROVE [Queue!Next]_(Queue!qvars)
  BY <1>6, TableKept DEF Tick
<1>7. CASE UNCHANGED vars
  BY <1>7, TableKept DEF vars, table
<1>8. ASSUME NEW m \in Machine, NEW k \in Kind, Enqueue(m, k) PROVE [Queue!Next]_(Queue!qvars)
  BY <1>8, EnqueueAdds
<1> QED
  BY <1>2, <1>3, <1>4, <1>5, <1>6, <1>7, <1>8 DEF Next

\* The queue with its polls, reports, clocks, crashes and losses implements
\* the queue the rest of the control plane relies on.
THEOREM QueueImplemented == Spec => ImplementsQueue
<1>1. Init => Queue!Init
  BY DEF Init, Queue!Init, AnyHost, AnyKind, Id, Queue!Id
<1>2. IInv /\ [Next]_vars => [Queue!Next]_(Queue!qvars)
  BY StepMaps
<1> QED
  BY Invariance, <1>1, <1>2, PTL DEF Spec, ImplementsQueue, Queue!Spec

=============================================================================

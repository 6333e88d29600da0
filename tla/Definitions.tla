---------------------------- MODULE Definitions ----------------------------
(***************************************************************************)
(* Things a machine serves from a definition kept in the database: file    *)
(* shares, printers and VPN tunnels (api/odm/routes_shares.py,             *)
(* routes_printers.py, routes_vpn.py).  A definition is created, edited    *)
(* and deleted in the console; a task carries it to the machine's agent,   *)
(* and the result says on the row how it went.                             *)
(*                                                                         *)
(* Every handler runs its SQL statements one by one on an autocommitting   *)
(* connection: each is a step of its own.  What a definition says is       *)
(* abstracted to a stamp, new with every INSERT and UPDATE; the stamp of   *)
(* its INSERT is the row's id.  A task that is to withdraw the thing       *)
(* carries the stamp 0.                                                    *)
(***************************************************************************)
EXTENDS Integers, FiniteSets

CONSTANTS Machine,     \* machines with an agent
          Name,        \* what may be defined: a share, printer or tunnel
          NodeOf,      \* the machine it is defined for
          Tunnels,     \* names whose handlers read the row again: VPN tunnels
          Request,     \* console requests that may be in progress at once
          Sleepers,    \* machines whose agent may be suspended past Stale
          MaxStamps,   \* bound: INSERTs and UPDATEs of definitions
          MaxTasks,    \* bound: tasks ever queued
          MaxFaults,   \* bound: agent deaths and lost answers
          MaxCuts      \* bound: stops of the control plane

Kind == {"apply", "remove"}

ASSUME NameAssumption == /\ Name # {} /\ Machine # {} /\ Tunnels \subseteq Name
                         /\ NodeOf \in [Name -> Machine]
                         /\ Sleepers \subseteq Machine
ASSUME CountAssumption == /\ MaxStamps \in Nat /\ MaxTasks \in Nat
                          /\ MaxFaults \in Nat /\ MaxCuts \in Nat

VARIABLES
  state, node, kind, held, answers, faults,   \* queue and agents (TaskAgent)
  about,     \* the payload and subject of each task
  row,       \* the definition's row; id 0 for none
  op,        \* where each console request is, and what it has read
  served,    \* the stamp of what the machine really serves, 0 for nothing
  stamps,    \* stamps given out
  cut,       \* history: names whose handler the control plane lost midway
  cuts

agent == <<state, node, kind, held, answers, faults>>
vars  == <<agent, about, row, op, served, stamps, cut, cuts>>

Agent == INSTANCE TaskAgent

Id   == Agent!Id
Live == Agent!Live

NoRow    == [id |-> 0, stamp |-> 0, st |-> "none"]
Idle     == [pc |-> "idle", name |-> CHOOSE n \in Name : TRUE, id |-> 0, stamp |-> 0]
NoTask   == [name |-> CHOOSE n \in Name : TRUE, id |-> 0, stamp |-> 0]

Init ==
  /\ Agent!Init
  /\ about = [i \in Id |-> NoTask]
  /\ row = [n \in Name |-> NoRow]
  /\ op = [p \in Request |-> Idle]
  /\ served = [n \in Name |-> 0]
  /\ stamps = 0 /\ cut = {} /\ cuts = 0

-----------------------------------------------------------------------------
(* The console's handlers.                                                 *)

Goto(p, where) == op' = [op EXCEPT ![p].pc = where]
End(p) == op' = [op EXCEPT ![p] = Idle]

\* The row a request read is still there.
StillThere(p) == row[op[p].name].id = op[p].id

\* create and update: the first SELECT.  A name already taken, or a row that
\* is not there, ends the request at once.
Create(p, n) ==
  /\ op[p].pc = "idle" /\ row[n].id = 0
  /\ op' = [op EXCEPT ![p] = [pc |-> "insert", name |-> n, id |-> 0, stamp |-> 0]]
  /\ UNCHANGED <<agent, about, row, served, stamps, cut, cuts>>

Edit(p, n) ==
  /\ op[p].pc = "idle" /\ row[n].id # 0
  /\ op' = [op EXCEPT ![p] = [pc |-> "update", name |-> n, id |-> row[n].id, stamp |-> 0]]
  /\ UNCHANGED <<agent, about, row, served, stamps, cut, cuts>>

\* What _dispatch begins with: a tunnel is read again.
Dispatch(n) == IF n \in Tunnels THEN "read" ELSE "mark"

\* INSERT ... RETURNING *; the UNIQUE constraint refuses a second row.
Insert(p) ==
  LET n == op[p].name
      s == stamps + 1 IN
  /\ op[p].pc = "insert"
  /\ IF row[n].id # 0
     THEN End(p) /\ UNCHANGED <<row, stamps>>
     ELSE /\ s <= MaxStamps /\ stamps' = s
          /\ row' = [row EXCEPT ![n] = [id |-> s, stamp |-> s, st |-> "pending"]]
          /\ op' = [op EXCEPT ![p] = [pc |-> Dispatch(n), name |-> n, id |-> s, stamp |-> s]]
  /\ UNCHANGED <<agent, about, served, cut, cuts>>

\* Mutant: the task carries the row as it was read before the UPDATE.
UpdateSendsBefore(p) ==
  LET n == op[p].name
      s == stamps + 1 IN
  /\ op[p].pc = "update" /\ StillThere(p)
  /\ s <= MaxStamps /\ stamps' = s
  /\ row' = [row EXCEPT ![n].stamp = s]
  /\ op' = [op EXCEPT ![p] = [@ EXCEPT !.pc = Dispatch(n), !.stamp = row[n].stamp]]
  /\ UNCHANGED <<agent, about, served, cut, cuts>>

\* UPDATE ... RETURNING *; nothing is returned if the row has gone meanwhile
\* and the request fails.
Update(p) ==
  LET n == op[p].name
      s == stamps + 1 IN
  /\ op[p].pc = "update"
  /\ IF ~ StillThere(p)
     THEN End(p) /\ UNCHANGED <<row, stamps>>
     ELSE /\ s <= MaxStamps /\ stamps' = s
          /\ row' = [row EXCEPT ![n].stamp = s]
          /\ op' = [op EXCEPT ![p] = [@ EXCEPT !.pc = Dispatch(n), !.stamp = s]]
  /\ UNCHANGED <<agent, about, served, cut, cuts>>

\* _dispatch of a tunnel: SELECT it, with its peers.
Read(p) ==
  /\ op[p].pc = "read"
  /\ IF StillThere(p)
     THEN op' = [op EXCEPT ![p] = [@ EXCEPT !.pc = "mark", !.stamp = row[op[p].name].stamp]]
     ELSE End(p)
  /\ UNCHANGED <<agent, about, row, served, stamps, cut, cuts>>

\* _dispatch: SET state = 'applying' WHERE id = ...
Mark(p) ==
  /\ op[p].pc = "mark"
  /\ row' = IF StillThere(p) THEN [row EXCEPT ![op[p].name].st = "applying"] ELSE row
  /\ Goto(p, "enqueue-apply")
  /\ UNCHANGED <<agent, about, served, stamps, cut, cuts>>

\* tasks.enqueue for what request p has read.
Queue(p, k) ==
  /\ \E i \in Id :
       /\ Agent!Q!Add(i, NodeOf[op[p].name], k)
       /\ about' = [about EXCEPT ![i] = [name |-> op[p].name, id |-> op[p].id,
                                         stamp |-> op[p].stamp]]
  /\ UNCHANGED <<held, answers, faults>>

\* _dispatch: the definition that was read goes to the machine, whether or
\* not it is still the row's.
EnqueueApply(p) ==
  /\ op[p].pc = "enqueue-apply"
  /\ Queue(p, "apply")
  /\ End(p)
  /\ cut' = cut \ {op[p].name}
  /\ UNCHANGED <<row, served, stamps, cuts>>

\* Mutant: the row is deleted and the machine is not told.
DeleteRowOnly(p, n) ==
  /\ op[p].pc = "idle" /\ row[n].id # 0
  /\ op' = [op EXCEPT ![p] = [pc |-> "delete", name |-> n, id |-> row[n].id, stamp |-> 0]]
  /\ UNCHANGED <<agent, about, row, served, stamps, cut, cuts>>

\* delete: SELECT, queue the removal, DELETE.
Delete(p, n) ==
  /\ op[p].pc = "idle" /\ row[n].id # 0
  /\ op' = [op EXCEPT ![p] = [pc |-> "enqueue-remove", name |-> n, id |-> row[n].id, stamp |-> 0]]
  /\ UNCHANGED <<agent, about, row, served, stamps, cut, cuts>>

\* A tunnel's removal is a vpn-apply that says so in its payload; shares and
\* printers have a kind for it.
Removal(n) == IF n \in Tunnels THEN "apply" ELSE "remove"

EnqueueRemove(p) ==
  /\ op[p].pc = "enqueue-remove"
  /\ Queue(p, Removal(op[p].name))
  /\ Goto(p, "delete")
  /\ UNCHANGED <<row, served, stamps, cut, cuts>>

DeleteRow(p) ==
  /\ op[p].pc = "delete"
  /\ row' = IF StillThere(p) THEN [row EXCEPT ![op[p].name] = NoRow] ELSE row
  /\ End(p)
  /\ UNCHANGED <<agent, about, served, stamps, cut, cuts>>

-----------------------------------------------------------------------------
(* The machine, and what its results do to the rows.                       *)

\* What running task i leaves on the machine.
Effect(i) == [served EXCEPT ![about[i].name] = about[i].stamp]

\* The task is run and reported; one that fails may have gone any way.
Report(m, ok) ==
  /\ Agent!Report(m, ok)
  /\ served' \in IF ok THEN {Effect(held[m])} ELSE {served, Effect(held[m])}
  /\ UNCHANGED <<about, row, op, stamps, cut, cuts>>

\* The agent dies at its task, or reports one that was reaped.
Unreported(m) ==
  /\ Agent!AgentDies(m) \/ Agent!Refused(m)
  /\ served' \in {served, Effect(held[m])}
  /\ UNCHANGED <<about, row, op, stamps, cut, cuts>>

Collect ==
  /\ \/ \E m \in Machine, i \in Id : Agent!Collect(m, i)
     \/ \E i \in Id : Agent!CollectLost(i)
  /\ UNCHANGED <<about, row, op, served, stamps, cut, cuts>>

\* Mutants: no entry for this kind; the task's own state goes to the row.
SettleNothing(a) ==
  /\ Agent!Answered(a)
  /\ UNCHANGED <<about, row, op, served, stamps, cut, cuts>>
SettleTaskState(a) ==
  /\ Agent!Answered(a)
  /\ row' = [row EXCEPT ![about[a.task].name].st = IF a.ok THEN "done" ELSE "failed"]
  /\ UNCHANGED <<about, op, served, stamps, cut, cuts>>

\* FINISHED_BY_TASK: the result of a task of the kind "apply" goes to the row
\* with the subject's id, if it is still there - that of a tunnel's removal
\* too; those of share-remove and printer-remove go nowhere.
Settle(a) ==
  LET n == about[a.task].name IN
  /\ Agent!Answered(a)
  /\ row' = IF kind[a.task] = "apply" /\ row[n].id = about[a.task].id
            THEN [row EXCEPT ![n].st = IF a.ok THEN "active" ELSE "failed"]
            ELSE row
  /\ UNCHANGED <<about, op, served, stamps, cut, cuts>>

\* reap: its second statement names these rows only where they say
\* "installing", which none ever does.
Reap(S) ==
  /\ Agent!Reap(S)
  /\ UNCHANGED <<about, row, op, served, stamps, cut, cuts>>

\* The control plane stops and every handler in progress with it.
Cut ==
  /\ cuts < MaxCuts /\ cuts' = cuts + 1
  /\ cut' = cut \cup {op[p].name : p \in {q \in Request : op[q].pc # "idle"}}
                \cup {about[a.task].name : a \in answers}
  /\ op' = [p \in Request |-> Idle]
  /\ Agent!HandlersStop
  /\ UNCHANGED <<about, row, served, stamps>>

Next ==
  \/ \E p \in Request :
       \/ \E n \in Name : Create(p, n) \/ Edit(p, n) \/ Delete(p, n)
       \/ Insert(p) \/ Update(p) \/ Read(p) \/ Mark(p) \/ EnqueueApply(p)
       \/ EnqueueRemove(p) \/ DeleteRow(p)
  \/ \E m \in Machine : Unreported(m) \/ \E ok \in BOOLEAN : Report(m, ok)
  \/ Collect
  \/ \E a \in answers : Settle(a)
  \/ \E S \in SUBSET Id : Reap(S)
  \/ Cut

Spec == Init /\ [][Next]_vars

-----------------------------------------------------------------------------
(* Properties.                                                             *)

\* Rows, tasks and requests keep their types.
TypeOK ==
  /\ Agent!TypeOK
  /\ about \in [Id -> [name : Name, id : 0 .. MaxStamps, stamp : 0 .. MaxStamps]]
  /\ row \in [Name -> [id : 0 .. MaxStamps, stamp : 0 .. MaxStamps,
                       st : {"none", "pending", "applying", "active", "failed"}]]
  /\ op \in [Request -> [pc : {"idle", "insert", "update", "read", "mark", "enqueue-apply",
                               "enqueue-remove", "delete"},
                         name : Name, id : 0 .. MaxStamps, stamp : 0 .. MaxStamps]]
  /\ served \in [Name -> 0 .. MaxStamps]
  /\ stamps \in 0 .. MaxStamps /\ cut \subseteq Name /\ cuts \in 0 .. MaxCuts

TasksOf(n) == {i \in Id : state[i] # "none" /\ about[i].name = n}

\* The end of task i is still to come.
Outstanding(i) == state[i] \in Live \/ \E a \in answers : a.task = i

\* Nothing is under way for n, and the control plane lost nothing of it.
Quiet(n) ==
  /\ \A i \in TasksOf(n) : ~ Outstanding(i)
  /\ \A p \in Request : op[p].pc = "idle" \/ op[p].name # n
  /\ n \notin cut

\* The last task queued for n was run to its end with the result "done".
LastDone(n) == \E i \in TasksOf(n) : state[i] = "done" /\ \A j \in TasksOf(n) : j <= i

\* "Queue the node's agent to make the stored definition real" (_dispatch):
\* when nothing is under way and the last task ran through, a row that says
\* "active" is what the machine serves, edit by edit, through losses, agent
\* deaths, late wake-ups, deletions and new rows of the same name.
ActiveIsServed ==
  \A n \in Name : row[n].st = "active" /\ Quiet(n) /\ LastDone(n)
                    => served[n] = row[n].stamp

\* "Stop sharing the directory" (delete_share): when nothing is under way and
\* the last task ran through, what has no row is not served.
WithdrawnIsGone ==
  \A n \in Name : row[n].id = 0 /\ Quiet(n) /\ LastDone(n) => served[n] = 0

\* The tasks whose result the row that n has now would be given.
AppliesOf(n) == {i \in TasksOf(n) : kind[i] = "apply" /\ about[i].id = row[n].id}

\* Waiting for n: such a task that is still to end, or a request that is
\* about to queue one.
Awaited(n) ==
  \/ \E i \in AppliesOf(n) : Outstanding(i)
  \/ \E p \in Request : op[p].pc = "enqueue-apply" /\ op[p].name = n /\ op[p].id = row[n].id

\* A row that says "applying" is waited for, however requests, deletions, new
\* rows of the same name and late results interleave - unless the last task
\* that reports to it was reaped or the control plane stopped in a handler of
\* it.
ApplyingIsWaitedFor ==
  \A n \in Name \ cut : row[n].st = "applying" /\ ~ Awaited(n) =>
    \E i \in AppliesOf(n) : state[i] = "failed" /\ \A j \in AppliesOf(n) : j <= i

\* reap is to "release what waited on" the tasks it fails: a row does not say
\* "applying" once nothing is left that could change it.
ReapReleasesRows ==
  \A n \in Name : row[n].st = "applying" => ~ Quiet(n)

=============================================================================

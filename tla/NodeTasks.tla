----------------------------- MODULE NodeTasks -----------------------------
(***************************************************************************)
(* The queue of work for managed machines, table node_task, with its two   *)
(* sides: the control plane's handlers (api/odm/tasks.py and the task      *)
(* endpoints of api/odm/routes_agent.py) and the agent processes that      *)
(* collect, run and report the work (agent/main.go,                        *)
(* agent/internal/client, agent/internal/tasks).                           *)
(*                                                                         *)
(* Rows are numbered in the order of created_at.  A machine may have more  *)
(* than one agent process: the daemon and an `odm-agent apply` started by  *)
(* hand.  Time is counted in ticks; ages are capped just past Stale.       *)
(* Requests and answers may be lost or handled late, processes crash and   *)
(* restart, machines in Sleepers may be suspended (their own clock stands  *)
(* still while the control plane's goes on).                               *)
(***************************************************************************)
EXTENDS Integers, FiniteSets

CONSTANTS Machine,     \* managed machines (node_fqdn)
          Worker,      \* agent processes
          HostOf,      \* the machine of each process
          Sleepers,    \* processes on machines that may be suspended
          Kind,        \* task kinds in use, a part of tasks.KINDS
          Session,     \* kinds run beside the loop: shell-session
          Secret,      \* kinds whose payload carries a password
          Timeout,     \* timeoutFor(kind), in ticks
          Http,        \* the agent's limit on one request, in ticks
          Pause,       \* the longest an agent goes without polling, in ticks
          Stale,       \* STALE_MINUTES, in ticks
          MaxTasks,    \* bound: rows ever inserted
          MaxFaults    \* bound: crashes and lost or abandoned messages

ASSUME HostAssumption == /\ Machine # {}
                         /\ HostOf \in [Worker -> Machine]
                         /\ Sleepers \subseteq Worker
ASSUME KindAssumption == Kind # {} /\ Session \subseteq Kind /\ Secret \subseteq Kind
ASSUME TimeAssumption == /\ Timeout \in [Kind -> Nat]
                         /\ Http \in Nat
                         /\ Pause \in Nat
                         /\ Stale \in Nat
\* The bound STALE_MINUTES is chosen for: the longest task, with the answer
\* that hands it out and the two attempts to report it, is over before Stale.
ASSUME StaleAssumption == \A k \in Kind : Timeout[k] + 3 * Http <= Stale
ASSUME BoundAssumption == MaxTasks \in Nat /\ MaxFaults \in Nat

VARIABLES
  state,     \* node_task.state of each row ("none": not inserted yet)
  node,      \* node_task.node_fqdn
  kind,      \* node_task.kind
  secret,    \* whether payload still holds a password
  age,       \* ticks since coalesce(claimed_at, created_at), capped
  pc,        \* what each agent process is doing
  job,       \* the row a process was handed, 0 for none
  clock,     \* ticks a process has spent in its current phase, by its clock
  handler,   \* the server's side of a process's poll
  orphans,   \* polls per machine whose client is gone but whose handler runs
  wire,      \* results sent and not yet handled by the control plane
  runs,      \* history: how often each row was started
  outcome,   \* history: how the run of each row went
  faults     \* crashes and losses so far

table  == <<state, node, kind, secret, age>>
agents == <<pc, job, clock, handler, orphans>>
vars   == <<table, agents, wire, runs, outcome, faults>>

Id       == 1 .. MaxTasks
Live     == {"pending", "claimed"}
Finished == {"done", "failed"}
Attempt  == 1 .. 2
Message  == [task : Id, ok : BOOLEAN, attempt : Attempt]
\* The columns of a row not inserted yet.
AnyHost  == CHOOSE m \in Machine : TRUE
AnyKind  == CHOOSE k \in Kind : TRUE

-----------------------------------------------------------------------------
(* The table: the statements of tasks.py.                                  *)

Init ==
  /\ state = [i \in Id |-> "none"]
  /\ node = [i \in Id |-> AnyHost]
  /\ kind = [i \in Id |-> AnyKind]
  /\ secret = [i \in Id |-> FALSE]
  /\ age = [i \in Id |-> 0]
  /\ pc = [w \in Worker |-> "idle"]
  /\ job = [w \in Worker |-> 0]
  /\ clock = [w \in Worker |-> 0]
  /\ handler = [w \in Worker |-> "none"]
  /\ orphans = [m \in Machine |-> 0]
  /\ wire = {}
  /\ runs = [i \in Id |-> 0]
  /\ outcome = [i \in Id |-> "none"]
  /\ faults = 0

\* enqueue: INSERT a pending row, the newest one.
Enqueue(m, k) ==
  \E i \in Id :
    /\ state[i] = "none"
    /\ \A j \in Id : j < i => state[j] # "none"
    /\ state' = [state EXCEPT ![i] = "pending"]
    /\ node' = [node EXCEPT ![i] = m]
    /\ kind' = [kind EXCEPT ![i] = k]
    /\ secret' = [secret EXCEPT ![i] = k \in Secret]
    /\ age' = [age EXCEPT ![i] = 0]
    /\ UNCHANGED <<agents, wire, runs, outcome, faults>>

\* Mutant: reap forgets the claimed rows.
OverduePendingOnly == {i \in Id : state[i] = "pending" /\ age[i] > Stale}

\* The rows reap fails.
Overdue == {i \in Id : state[i] \in Live /\ age[i] > Stale}

\* Mutant: reap leaves the payload alone.
ReapKeepsPayload ==
  /\ state' = [i \in Id |-> IF i \in Overdue THEN "failed" ELSE state[i]]
  /\ UNCHANGED <<node, kind, secret, age>>

\* reap: one UPDATE over every overdue row of every machine.
Reap ==
  /\ state' = [i \in Id |-> IF i \in Overdue THEN "failed" ELSE state[i]]
  /\ secret' = [i \in Id |-> IF i \in Overdue THEN FALSE ELSE secret[i]]
  /\ UNCHANGED <<node, kind, age>>

\* Mutants: claim without ORDER BY created_at; claim without state = 'pending'.
IsAnyPending(i, m) == state[i] = "pending" /\ node[i] = m
IsAnyLive(i, m) ==
  /\ state[i] \in Live /\ node[i] = m
  /\ \A j \in Id : j < i /\ node[j] = m => state[j] \notin Live

\* The row claim takes for machine m: its oldest pending one.
IsNext(i, m) ==
  /\ state[i] = "pending" /\ node[i] = m
  /\ \A j \in Id : j < i /\ node[j] = m => state[j] # "pending"

\* Mutant: claimed_at is not set, so the age stays that of created_at.
ClaimKeepsAge(i) ==
  /\ state' = [state EXCEPT ![i] = "claimed"]
  /\ UNCHANGED <<node, kind, secret, age>>

\* claim: one UPDATE, so one poll gets the row.
ClaimRow(i) ==
  /\ state' = [state EXCEPT ![i] = "claimed"]
  /\ age' = [age EXCEPT ![i] = 0]
  /\ UNCHANGED <<node, kind, secret>>

\* Mutants: finish stores the agent's own word; takes any result for a
\* success; updates the row whatever its state.
FinishStoresWord(i, ok) ==
  IF state[i] = "claimed"
  THEN /\ state' = [state EXCEPT ![i] = IF ok THEN "ok" ELSE "error"]
       /\ secret' = [secret EXCEPT ![i] = FALSE]
       /\ UNCHANGED <<node, kind, age>>
  ELSE UNCHANGED table
FinishIgnoresOk(i, ok) ==
  IF state[i] = "claimed"
  THEN /\ state' = [state EXCEPT ![i] = "done"]
       /\ secret' = [secret EXCEPT ![i] = FALSE]
       /\ UNCHANGED <<node, kind, age>>
  ELSE UNCHANGED table
FinishAnyState(i, ok) ==
  /\ state' = [state EXCEPT ![i] = IF ok THEN "done" ELSE "failed"]
  /\ secret' = [secret EXCEPT ![i] = FALSE]
  /\ UNCHANGED <<node, kind, age>>

\* finish: only a claimed row takes a result; any other is answered 404.
FinishRow(i, ok) ==
  IF state[i] = "claimed"
  THEN /\ state' = [state EXCEPT ![i] = IF ok THEN "done" ELSE "failed"]
       /\ secret' = [secret EXCEPT ![i] = FALSE]
       /\ UNCHANGED <<node, kind, age>>
  ELSE UNCHANGED table

\* A page that lists roles reaps before it reads (routes_roles.list_roles).
ConsoleReap ==
  /\ Overdue # {}
  /\ Reap
  /\ UNCHANGED <<agents, wire, runs, outcome, faults>>

-----------------------------------------------------------------------------
(* One poll: agent_tasks on the server, tasks() in the agent's client.     *)

\* The agent asks for work; the handler reaps first.
StartPoll(w) ==
  /\ pc[w] = "idle"
  /\ pc' = [pc EXCEPT ![w] = "polling"]
  /\ handler' = [handler EXCEPT ![w] = "open"]
  /\ clock' = [clock EXCEPT ![w] = 0]
  /\ Reap
  /\ UNCHANGED <<job, orphans, wire, runs, outcome, faults>>

\* The handler finds a row and answers with it.
Claim(w) ==
  /\ pc[w] = "polling" /\ handler[w] = "open"
  /\ \E i \in Id : /\ IsNext(i, HostOf[w])
                   /\ ClaimRow(i)
                   /\ job' = [job EXCEPT ![w] = i]
  /\ handler' = [handler EXCEPT ![w] = "answered"]
  /\ UNCHANGED <<pc, clock, orphans, wire, runs, outcome, faults>>

\* The handler's wait ends and its last look found nothing.
EmptyPoll(w) ==
  /\ pc[w] = "polling" /\ handler[w] = "open"
  /\ \A i \in Id : ~ IsNext(i, HostOf[w])
  /\ pc' = [pc EXCEPT ![w] = "idle"]
  /\ handler' = [handler EXCEPT ![w] = "none"]
  /\ clock' = [clock EXCEPT ![w] = 0]
  /\ UNCHANGED <<table, job, orphans, wire, runs, outcome, faults>>

\* The answer arrives and runQueued starts the task.
Receive(w) ==
  /\ pc[w] = "polling" /\ handler[w] = "answered"
  /\ pc' = [pc EXCEPT ![w] = "running"]
  /\ handler' = [handler EXCEPT ![w] = "none"]
  /\ clock' = [clock EXCEPT ![w] = 0]
  /\ runs' = [runs EXCEPT ![job[w]] = @ + 1]
  /\ UNCHANGED <<table, job, orphans, wire, outcome, faults>>

\* What becomes of a poll whose client stops listening: a handler still
\* looking goes on without it, an answer already given is lost and its row
\* stays claimed.
Abandon(w) ==
  /\ handler' = [handler EXCEPT ![w] = "none"]
  /\ orphans' = IF handler[w] = "open"
                THEN [orphans EXCEPT ![HostOf[w]] = @ + 1]
                ELSE orphans

Fault == faults < MaxFaults /\ faults' = faults + 1

\* The request fails or times out on the agent's side.
PollFails(w) ==
  /\ pc[w] = "polling"
  /\ Fault
  /\ Abandon(w)
  /\ pc' = [pc EXCEPT ![w] = "idle"]
  /\ job' = [job EXCEPT ![w] = 0]
  /\ clock' = [clock EXCEPT ![w] = 0]
  /\ UNCHANGED <<table, wire, runs, outcome>>

\* A handler without a client claims a row for nobody.
OrphanClaims(m) ==
  /\ orphans[m] > 0
  /\ \E i \in Id : IsNext(i, m) /\ ClaimRow(i)
  /\ orphans' = [orphans EXCEPT ![m] = @ - 1]
  /\ UNCHANGED <<pc, job, clock, handler, wire, runs, outcome, faults>>

\* Its wait ends first, or the control plane restarts.
OrphanEnds(m) ==
  /\ orphans[m] > 0
  /\ orphans' = [orphans EXCEPT ![m] = @ - 1]
  /\ UNCHANGED <<table, pc, job, clock, handler, wire, runs, outcome, faults>>

-----------------------------------------------------------------------------
(* Running and reporting: runQueued in the agent.                          *)

Result(i, ok, n) == [task |-> i, ok |-> ok, attempt |-> n]

\* The task returns, or its context's deadline makes it; the result is sent.
\* A session is reported as opened without waiting for it.
RunEnds(w, ok) ==
  /\ pc[w] = "running"
  /\ kind[job[w]] \in Session => ok
  /\ pc' = [pc EXCEPT ![w] = "reporting"]
  /\ clock' = [clock EXCEPT ![w] = 0]
  /\ outcome' = [outcome EXCEPT ![job[w]] = IF ok THEN "ok" ELSE "error"]
  /\ wire' = wire \cup {Result(job[w], ok, 1)}
  /\ UNCHANGED <<table, job, handler, orphans, runs, faults>>

\* A result the agent could not deliver, or that was refused: said once more,
\* briefly, except for a session; after that the agent goes on.
ReportFailed(w) ==
  LET again == pc[w] = "reporting" /\ kind[job[w]] \notin Session IN
  /\ pc' = [pc EXCEPT ![w] = IF again THEN "retrying" ELSE "idle"]
  /\ job' = [job EXCEPT ![w] = IF again THEN @ ELSE 0]
  /\ clock' = [clock EXCEPT ![w] = 0]

AttemptOf(w) == IF pc[w] = "reporting" THEN 1 ELSE 2

Waiting(w, msg) ==
  /\ pc[w] \in {"reporting", "retrying"}
  /\ job[w] = msg.task /\ AttemptOf(w) = msg.attempt

\* The result goes out a second time when the first attempt failed.
Resent(w) ==
  IF pc[w] = "reporting" /\ kind[job[w]] \notin Session
  THEN {Result(job[w], outcome[job[w]] = "ok", 2)} ELSE {}

\* agent_task_result handles a result and its answer, 204 or 404, arrives.
HandleResult(msg, w) ==
  /\ msg \in wire /\ Waiting(w, msg)
  /\ FinishRow(msg.task, msg.ok)
  /\ IF state[msg.task] = "claimed"
     THEN /\ wire' = wire \ {msg}
          /\ pc' = [pc EXCEPT ![w] = "idle"]
          /\ job' = [job EXCEPT ![w] = 0]
          /\ clock' = [clock EXCEPT ![w] = 0]
     ELSE /\ wire' = (wire \ {msg}) \cup Resent(w)
          /\ ReportFailed(w)
  /\ UNCHANGED <<handler, orphans, runs, outcome, faults>>

\* The agent hears nothing and stops waiting; the result may be handled yet.
GiveUp(w) ==
  /\ pc[w] \in {"reporting", "retrying"}
  /\ Fault
  /\ wire' = wire \cup Resent(w)
  /\ ReportFailed(w)
  /\ UNCHANGED <<table, handler, orphans, runs, outcome>>

\* A result whose sender is no longer waiting is handled late, or never.
HandleLate(msg) ==
  /\ msg \in wire /\ \A w \in Worker : ~ Waiting(w, msg)
  /\ FinishRow(msg.task, msg.ok)
  /\ wire' = wire \ {msg}
  /\ UNCHANGED <<agents, runs, outcome, faults>>

DropResult(msg) ==
  /\ msg \in wire /\ \A w \in Worker : ~ Waiting(w, msg)
  /\ wire' = wire \ {msg}
  /\ UNCHANGED <<table, agents, runs, outcome, faults>>

\* The process dies, at any point; a run is cut off and nothing remembers it.
Crash(w) ==
  /\ pc[w] # "down"
  /\ Fault
  /\ IF pc[w] = "polling" THEN Abandon(w) ELSE UNCHANGED <<handler, orphans>>
  /\ pc' = [pc EXCEPT ![w] = "down"]
  /\ job' = [job EXCEPT ![w] = 0]
  /\ clock' = [clock EXCEPT ![w] = 0]
  /\ UNCHANGED <<table, wire, runs, outcome>>

\* systemd starts it again (Restart=on-failure), or the machine boots.
Restart(w) ==
  /\ pc[w] = "down"
  /\ pc' = [pc EXCEPT ![w] = "idle"]
  /\ UNCHANGED <<table, job, clock, handler, orphans, wire, runs, outcome, faults>>

\* How long a process stays in a phase by its own clock.
Limit(w) ==
  CASE pc[w] = "running" -> Timeout[kind[job[w]]]
    [] pc[w] \in {"polling", "reporting", "retrying"} -> Http
    [] OTHER -> Pause

\* A tick of the control plane's clock.  A process that is awake counts it
\* too, and its own timers fire before they are exceeded.
Tick(asleep) ==
  /\ \E i \in Id : state[i] \in Live /\ age[i] <= Stale
  /\ \A w \in Worker \ asleep : pc[w] # "down" => clock[w] < Limit(w)
  /\ age' = [i \in Id |-> IF state[i] \in Live /\ age[i] <= Stale
                          THEN age[i] + 1 ELSE age[i]]
  /\ clock' = [w \in Worker |-> IF pc[w] = "down" \/ w \in asleep
                                THEN clock[w] ELSE clock[w] + 1]
  /\ UNCHANGED <<state, node, kind, secret, pc, job, handler, orphans,
                 wire, runs, outcome, faults>>

Step(w) ==
  \/ StartPoll(w) \/ Claim(w) \/ EmptyPoll(w) \/ Receive(w) \/ PollFails(w)
  \/ \E ok \in BOOLEAN : RunEnds(w, ok)
  \/ \E msg \in wire : HandleResult(msg, w)
  \/ GiveUp(w) \/ Crash(w) \/ Restart(w)

Next ==
  \/ \E m \in Machine, k \in Kind : Enqueue(m, k)
  \/ ConsoleReap
  \/ \E w \in Worker : Step(w)
  \/ \E m \in Machine : OrphanClaims(m) \/ OrphanEnds(m)
  \/ \E msg \in wire : HandleLate(msg) \/ DropResult(msg)
  \/ \E asleep \in SUBSET Sleepers : Tick(asleep)

Spec == Init /\ [][Next]_vars

\* Everybody who is up keeps going: the daemon loops, a request is answered
\* or times out, a task returns or reaches its deadline, systemd restarts a
\* process that died.  Time passes for ever: that an agent polls again and
\* again, which stops Tick for an instant each time, does not hold it up.
Fairness ==
  /\ SF_vars(\E asleep \in SUBSET Sleepers : Tick(asleep))
  /\ \A w \in Worker :
       /\ WF_vars(Restart(w))
       /\ WF_vars(StartPoll(w))
       /\ WF_vars(Claim(w) \/ EmptyPoll(w) \/ Receive(w))
       /\ WF_vars(\E ok \in BOOLEAN : RunEnds(w, ok))
       /\ WF_vars(\E msg \in wire : HandleResult(msg, w))
       /\ WF_vars(GiveUp(w))

FairSpec == Spec /\ Fairness

-----------------------------------------------------------------------------
(* Properties.                                                             *)

\* Types of the table's columns, of the processes and polls, of the rest.
TableType ==
  /\ state \in [Id -> {"none"} \cup Live \cup Finished]
  /\ node \in [Id -> Machine]
  /\ kind \in [Id -> Kind]
  /\ secret \in [Id -> BOOLEAN]
  /\ age \in [Id -> 0 .. Stale + 1]

AgentType ==
  /\ pc \in [Worker -> {"down", "idle", "polling", "running", "reporting", "retrying"}]
  /\ job \in [Worker -> 0 .. MaxTasks]
  /\ clock \in [Worker -> Nat]
  /\ handler \in [Worker -> {"none", "open", "answered"}]
  /\ orphans \in [Machine -> Nat]

ReportType ==
  /\ wire \subseteq Message
  /\ runs \in [Id -> Nat]
  /\ outcome \in [Id -> {"none", "ok", "error"}]
  /\ faults \in 0 .. MaxFaults

\* The columns, the processes and the messages keep their types: no handler
\* leaves a row or a process in a state the code does not know.
TypeOK == TableType /\ AgentType /\ ReportType

\* "A task is claimed by exactly one poll, so a slow install is not started
\* twice" (tasks.py): whatever polls overlap, time out, crash or go on without
\* a client, a row is started at most once and two processes never hold one.
StartedOnce ==
  /\ \A i \in Id : runs[i] <= 1
  /\ \A v, w \in Worker : job[v] = job[w] /\ job[v] # 0 => v = w

\* "a claimed task older than this is not still running" (the comment on
\* STALE_MINUTES): while a process that is awake holds a row - its answer on
\* the way, running, reporting or reporting once more - reap has not failed
\* it, so work is never called abandoned under the agent that is doing it and
\* a success is never refused because its report came too late.
HeldIsNotReaped ==
  \A w \in Worker \ Sleepers : job[w] # 0 =>
    \/ state[job[w]] = "claimed"
    \/ state[job[w]] = "done" /\ outcome[job[w]] = "ok"
    \/ state[job[w]] = "failed" /\ outcome[job[w]] = "error"

\* A row says done only if its run returned without an error: neither a reaped
\* row nor a lost, repeated or late report can make work that failed, or never
\* ran, read as done.
DoneMeansRan == \A i \in Id : state[i] = "done" => runs[i] = 1 /\ outcome[i] = "ok"

\* A password in the payload "does not outlive the task in the queue"
\* (finish), whichever way the row ends, the reaper's included.
NoSecretOutlives == \A i \in Id : secret[i] => state[i] \in Live

\* Work is handed out in the order it was queued: once a row has been claimed
\* or failed, no older row of the same machine is still waiting.
InOrder ==
  \A i, j \in Id :
    i < j /\ node[i] = node[j] /\ state[j] \in {"claimed"} \cup Finished
      => state[i] # "pending"

\* A row that was finished, by a report or by reap, is never changed again:
\* a report that comes after the reaper does not bring it back.
FinishedIsFinal ==
  [][\A i \in Id : state[i] \in Finished => state'[i] = state[i]]_vars

\* Every queued row is finished in the end, by a report or by reap, as long
\* as crashes and losses stop.
EveryTaskSettles ==
  \A i \in Id : state[i] = "pending" ~> state[i] \in Finished

Queue == INSTANCE TaskQueue

\* What other modules build on: seen without polls, reports, clocks and
\* passwords, the table goes through the steps of TaskQueue and no others.
ImplementsQueue == Queue!Spec

=============================================================================

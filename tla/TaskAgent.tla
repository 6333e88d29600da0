----------------------------- MODULE TaskAgent -----------------------------
(***************************************************************************)
(* The task queue (TaskQueue) with the agents at its other end, as the     *)
(* modules about what waits for tasks see them: every machine has one      *)
(* agent, which does one task at a time, and a result is handled in two    *)
(* statements of agent_task_result: finish, then what the result means for *)
(* the task's subject.  The agent waits for the answer, so it starts       *)
(* nothing new between the two (each statement is over within the agent's  *)
(* limit on a request).                                                    *)
(***************************************************************************)
EXTENDS Integers

CONSTANTS Machine, Kind, MaxTasks,
          Sleepers,    \* machines whose agent may be suspended past Stale
          MaxFaults    \* bound: agent deaths and lost answers

VARIABLES
  state, node, kind,   \* node_task, as in TaskQueue
  held,      \* the task each machine's agent is on, 0 for none
  answers,   \* results recorded by finish and not yet acted upon
  faults     \* agent deaths and lost answers so far

Q == INSTANCE TaskQueue

Id    == Q!Id
Live  == Q!Live
queue == <<state, node, kind>>

Init ==
  /\ Q!Init
  /\ held = [m \in Machine |-> 0]
  /\ answers = {} /\ faults = 0

Fault == faults < MaxFaults /\ faults' = faults + 1

\* A poll of machine m gets the next task and its agent starts it.
Collect(m, i) ==
  /\ held[m] = 0 /\ node[i] = m
  /\ Q!Take(i)
  /\ held' = [held EXCEPT ![m] = i]
  /\ UNCHANGED <<answers, faults>>

\* A poll claims a task and its answer never arrives.
CollectLost(i) ==
  /\ Fault
  /\ Q!Take(i)
  /\ UNCHANGED <<held, answers>>

\* agent_task_result, first statement: finish.
Report(m, ok) ==
  /\ held[m] # 0
  /\ Q!Finish(held[m], ok)
  /\ answers' = answers \cup {[task |-> held[m], ok |-> ok]}
  /\ UNCHANGED <<held, faults>>

\* finish finds the task no longer claimed: 404, twice, and the agent goes on.
Refused(m) ==
  /\ held[m] # 0 /\ state[held[m]] \notin Live
  /\ \A a \in answers : a.task # held[m]
  /\ held' = [held EXCEPT ![m] = 0]
  /\ UNCHANGED <<queue, answers, faults>>

\* agent_task_result is through and the agent has its answer.
Answered(a) ==
  /\ a \in answers
  /\ answers' = answers \ {a}
  /\ held' = [m \in Machine |-> IF held[m] = a.task THEN 0 ELSE held[m]]
  /\ UNCHANGED <<queue, faults>>

\* The agent dies at its task; the task stays claimed.
AgentDies(m) ==
  /\ held[m] # 0 /\ state[held[m]] = "claimed"
  /\ Fault
  /\ held' = [held EXCEPT ![m] = 0]
  /\ UNCHANGED <<queue, answers>>

\* reap, first statement.  A task in the hands of an agent that is awake is
\* never among them (ReapSparesTheWorking in NodeTasksProofs).
Reap(S) ==
  /\ Q!Expire(S)
  /\ \A m \in Machine \ Sleepers : held[m] \notin S
  /\ UNCHANGED <<held, answers, faults>>

\* The control plane stops and every handler in progress with it.  An agent
\* waiting for an answer asks again, is refused and goes on.
HandlersStop ==
  /\ held' = [m \in Machine |-> IF \E a \in answers : a.task = held[m] THEN 0 ELSE held[m]]
  /\ answers' = {}
  /\ UNCHANGED <<queue, faults>>

TypeOK ==
  /\ state \in [Id -> {"none", "pending", "claimed", "done", "failed"}]
  /\ node \in [Id -> Machine] /\ kind \in [Id -> Kind]
  /\ held \in [Machine -> 0 .. MaxTasks]
  /\ answers \subseteq [task : Id, ok : BOOLEAN]
  /\ faults \in 0 .. MaxFaults

=============================================================================

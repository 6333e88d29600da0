------------------------------- MODULE Leader -------------------------------
(***************************************************************************)
(* One replica of the control plane runs the scheduled work: backups,      *)
(* retention sweep, alert rules, dynamic groups, vault reconciliation      *)
(* (run_while_leader in api/odm/leader.py).  The right to is a PostgreSQL  *)
(* advisory lock, held by the session of a connection taken from the pool. *)
(* A connection may be lost at any time; PostgreSQL then drops the session *)
(* and the lock with it, and the replica finds out when it next uses it.   *)
(* Time is counted in ticks; a statement takes less than a tick.           *)
(***************************************************************************)
EXTENDS Integers, FiniteSets

CONSTANTS Replica,
          Retry,       \* RETRY_SECONDS, in ticks
          Check,       \* CHECK_SECONDS, in ticks
          MaxLosses,   \* bound: connections lost
          MaxStops     \* bound: replicas shut down or killed

ASSUME ReplicaAssumption == Replica # {}
ASSUME TickAssumption == /\ Retry \in Nat \ {0} /\ Check \in Nat \ {0}
                         /\ MaxLosses \in Nat /\ MaxStops \in Nat

VARIABLES
  pc,        \* where run_while_leader is in each replica
  conn,      \* its connection: none, open or lost
  lock,      \* the replicas whose session holds the advisory lock
  running,   \* the replicas whose scheduled tasks are running
  timer,     \* ticks spent in the current sleep
  astray,    \* history: ticks the tasks have run without the lock
  told,      \* history: the replicas whose loop has been told to stop
  losses, stops

vars == <<pc, conn, lock, running, timer, astray, told, losses, stops>>

Init ==
  /\ pc = [r \in Replica |-> "asking"]
  /\ conn = [r \in Replica |-> "none"]
  /\ lock = {} /\ running = {}
  /\ timer = [r \in Replica |-> 0]
  /\ astray = [r \in Replica |-> 0]
  /\ told = {} /\ losses = 0 /\ stops = 0

Goto(r, where) == /\ pc' = [pc EXCEPT ![r] = where]
                  /\ timer' = [timer EXCEPT ![r] = 0]

-----------------------------------------------------------------------------

\* pool.acquire
Acquire(r) ==
  /\ pc[r] = "asking" /\ conn[r] = "none"
  /\ conn' = [conn EXCEPT ![r] = "open"]
  /\ UNCHANGED <<pc, lock, running, timer, astray, told, losses, stops>>

\* pg_try_advisory_lock: the tasks are started, or the connection goes back
\* and the replica asks again later; a lost connection is an error.
Ask(r) ==
  /\ pc[r] = "asking" /\ conn[r] # "none"
  /\ \/ /\ conn[r] = "open" /\ lock = {}
        /\ lock' = {r} /\ running' = running \cup {r}
        /\ Goto(r, "leading")
        /\ UNCHANGED conn
     \/ /\ conn[r] = "open" /\ lock # {}
        /\ conn' = [conn EXCEPT ![r] = "none"]
        /\ Goto(r, "waiting")
        /\ UNCHANGED <<lock, running>>
     \/ /\ conn[r] = "lost"
        /\ Goto(r, "backoff")
        /\ UNCHANGED <<conn, lock, running>>
  /\ UNCHANGED <<astray, told, losses, stops>>

\* A sleep is over.
WaitOver(r) ==
  /\ pc[r] = "waiting" /\ timer[r] = Retry
  /\ Goto(r, "asking")
  /\ UNCHANGED <<conn, lock, running, astray, told, losses, stops>>

\* Every Check the leader asks its connection for a sign of life; an error
\* is logged and slept on before anything else is done about it.
Probe(r) ==
  /\ pc[r] = "leading" /\ timer[r] = Check
  /\ Goto(r, IF conn[r] = "open" THEN "leading" ELSE "backoff")
  /\ UNCHANGED <<conn, lock, running, astray, told, losses, stops>>

BackedOff(r) ==
  /\ pc[r] = "backoff" /\ timer[r] = Retry
  /\ Goto(r, "finally")
  /\ UNCHANGED <<conn, lock, running, astray, told, losses, stops>>

\* finally: the tasks are cancelled and awaited,
Cancel(r) ==
  /\ pc[r] \in {"finally", "stopping"} /\ r \in running
  /\ running' = running \ {r}
  /\ astray' = [astray EXCEPT ![r] = 0]
  /\ UNCHANGED <<pc, conn, lock, timer, told, losses, stops>>

\* Mutant: the lock is given back first.
UnlockFirst(r) ==
  /\ pc[r] \in {"finally", "stopping"} /\ conn[r] # "none"
  /\ lock' = IF conn[r] = "open" THEN lock \ {r} ELSE lock
  /\ conn' = [conn EXCEPT ![r] = "none"]
  /\ UNCHANGED <<pc, running, timer, astray, told, losses, stops>>

\* Mutant: the connection is given back and the lock is not.
UnlockForgotten(r) ==
  /\ pc[r] \in {"finally", "stopping"} /\ r \notin running /\ conn[r] # "none"
  /\ conn' = [conn EXCEPT ![r] = "none"]
  /\ UNCHANGED <<pc, lock, running, timer, astray, told, losses, stops>>

\* then the lock and the connection are given back,
Unlock(r) ==
  /\ pc[r] \in {"finally", "stopping"} /\ r \notin running /\ conn[r] # "none"
  /\ lock' = IF conn[r] = "open" THEN lock \ {r} ELSE lock
  /\ conn' = [conn EXCEPT ![r] = "none"]
  /\ UNCHANGED <<pc, running, timer, astray, told, losses, stops>>

\* Mutant: the loop goes round with the old tasks still there.
LoopUncancelled(r) ==
  /\ pc[r] = "finally"
  /\ Goto(r, "asking")
  /\ conn' = [conn EXCEPT ![r] = "none"]
  /\ UNCHANGED <<lock, running, astray, told, losses, stops>>

\* and the loop goes round, or the replica is gone.
Loop(r) ==
  /\ pc[r] = "finally" /\ r \notin running /\ conn[r] = "none"
  /\ Goto(r, "asking")
  /\ UNCHANGED <<conn, lock, running, astray, told, losses, stops>>

Gone(r) ==
  /\ pc[r] = "stopping" /\ r \notin running /\ conn[r] = "none"
  /\ Goto(r, "down")
  /\ told' = told \ {r}
  /\ UNCHANGED <<conn, lock, running, astray, losses, stops>>

\* The application shuts down: the loop is cancelled wherever it is.  While
\* finally awaits the tasks the cancellation is suppressed with theirs.
Shutdown(r) ==
  /\ pc[r] \notin {"down", "stopping"}
  /\ stops < MaxStops /\ stops' = stops + 1
  /\ told' = told \cup {r}
  /\ IF pc[r] = "finally" /\ r \in running
     THEN UNCHANGED <<pc, timer>>
     ELSE Goto(r, "stopping")
  /\ UNCHANGED <<conn, lock, running, astray, losses>>

\* The process is killed: tasks, connection and session go with it.
Kill(r) ==
  /\ pc[r] # "down"
  /\ stops < MaxStops /\ stops' = stops + 1
  /\ Goto(r, "down")
  /\ conn' = [conn EXCEPT ![r] = "none"]
  /\ lock' = lock \ {r} /\ running' = running \ {r}
  /\ astray' = [astray EXCEPT ![r] = 0]
  /\ told' = told \ {r}
  /\ UNCHANGED losses

Start(r) ==
  /\ pc[r] = "down"
  /\ Goto(r, "asking")
  /\ UNCHANGED <<conn, lock, running, astray, told, losses, stops>>

\* The connection breaks: PostgreSQL ends the session.
Lose(r) ==
  /\ conn[r] = "open"
  /\ losses < MaxLosses /\ losses' = losses + 1
  /\ conn' = [conn EXCEPT ![r] = "lost"]
  /\ lock' = lock \ {r}
  /\ UNCHANGED <<pc, running, timer, astray, told, stops>>

\* Mutant: a retry is waited for on top of a check.
SleepBoth(r) == IF pc[r] \in {"leading", "waiting", "backoff"} THEN Check + Retry ELSE 0

Sleep(r) == CASE pc[r] = "leading" -> Check
              [] pc[r] \in {"waiting", "backoff"} -> Retry
              [] OTHER -> 0

\* A tick: nobody is in the middle of a statement and no sleep is overdue.
Tick ==
  /\ \A r \in Replica : pc[r] = "down" \/ timer[r] < Sleep(r)
  /\ timer' = [r \in Replica |-> IF pc[r] = "down" THEN 0 ELSE timer[r] + 1]
  /\ astray' = [r \in Replica |-> IF r \in running \ lock THEN astray[r] + 1 ELSE 0]
  /\ UNCHANGED <<pc, conn, lock, running, told, losses, stops>>

Step(r) ==
  \/ Acquire(r) \/ Ask(r) \/ WaitOver(r) \/ Probe(r) \/ BackedOff(r)
  \/ Cancel(r) \/ Unlock(r) \/ Loop(r) \/ Gone(r) \/ Start(r)

Next ==
  \/ \E r \in Replica : Step(r) \/ Shutdown(r) \/ Kill(r) \/ Lose(r)
  \/ Tick

Spec == Init /\ [][Next]_vars

\* Every replica that is up goes on, is started again when it is down, and
\* time passes.
FairSpec == Spec /\ WF_vars(Tick) /\ \A r \in Replica : WF_vars(Step(r))

-----------------------------------------------------------------------------
(* Properties.                                                             *)

\* Replicas, connections and timers keep their types.
TypeOK ==
  /\ pc \in [Replica -> {"asking", "waiting", "leading", "backoff", "finally",
                         "stopping", "down"}]
  /\ conn \in [Replica -> {"none", "open", "lost"}]
  /\ lock \subseteq Replica /\ running \subseteq Replica /\ told \subseteq Replica
  /\ timer \in [Replica -> 0 .. IF Retry > Check THEN Retry ELSE Check]
  /\ astray \in [Replica -> Nat]
  /\ losses \in 0 .. MaxLosses /\ stops \in 0 .. MaxStops

\* The scheduled tasks "each assume they are the only one doing it" (leader):
\* as long as no connection is lost, two replicas never run them at a time,
\* through shutdowns, kills and restarts.
OneRuns == losses = 0 => Cardinality(running) <= 1

\* A replica that has lost its lock runs on for at most one check and one
\* retry: that bounds how long the work can be done twice.
StraysStop == \A r \in Replica : astray[r] <= Check + Retry

\* Once connections and replicas stay up, one replica runs the work for good.
OneLeads == <>[](\E r \in Replica : running = {r} /\ lock = {r})

\* "Never returns; cancel it to stop" (run_while_leader): a replica that is
\* shut down stops, whatever its loop was doing.
CancelStops == \A r \in Replica : r \in told ~> pc[r] = "down"

=============================================================================

----------------------------- MODULE LeaderProofs -----------------------------
(***************************************************************************)
(* For every set of replicas, every retry and check time and every number  *)
(* of lost connections and stopped replicas: how many replicas run the     *)
(* scheduled work at a time, and for how long one goes on without the lock.*)
(***************************************************************************)
EXTENDS Leader, FiniteSetTheorems, TLAPS

\* The replicas whose tasks run although their session no longer has the lock.
Strays == running \ lock

\* A session has the lock for as long as its connection is open; the tasks of
\* a replica run from the moment it gets the lock until finally, under the
\* lock unless its connection has been lost since.
LockIsHeld ==
  /\ \A r, s \in lock : r = s
  /\ \A r \in lock : conn[r] = "open"
  /\ \A r \in running : \/ conn[r] = "open" /\ r \in lock
                        \/ conn[r] = "lost"
  /\ \A r \in running \cup lock : pc[r] \in {"leading", "backoff", "finally", "stopping"}
  /\ \A r \in Replica : pc[r] = "leading" => r \in running

\* Each stray has cost a connection.
StraysAreCounted == IsFiniteSet(running) /\ Cardinality(Strays) <= losses

\* A stray is found out by the next check and stopped after one retry.
Timed(r) ==
  /\ astray[r] # 0 => r \in Strays
  /\ pc[r] = "leading" => astray[r] <= timer[r]
  /\ pc[r] = "backoff" => astray[r] <= Check + timer[r]
  /\ astray[r] <= Check + Retry

StraysAreTimed == \A r \in Replica : Timed(r)

IInv == TypeOK /\ LockIsHeld /\ StraysAreCounted /\ StraysAreTimed

\* However many connections are lost, each lets at most one more replica do
\* the work at the same time as the one that has the lock.
OverlapIsBounded == IsFiniteSet(running) /\ Cardinality(running) <= losses + 1

-----------------------------------------------------------------------------
(* Types.                                                                  *)

Phase == {"asking", "waiting", "leading", "backoff", "finally", "stopping", "down"}
SleepTime == 0 .. IF Retry > Check THEN Retry ELSE Check

Types == /\ pc \in [Replica -> Phase] /\ conn \in [Replica -> {"none", "open", "lost"}]
         /\ lock \subseteq Replica /\ running \subseteq Replica /\ told \subseteq Replica
         /\ timer \in [Replica -> SleepTime] /\ astray \in [Replica -> Nat]
         /\ losses \in 0 .. MaxLosses /\ stops \in 0 .. MaxStops

LEMMA TypesIsTypeOK == TypeOK <=> Types
  BY DEF TypeOK, Types, Phase, SleepTime

LEMMA SleepTimes ==
  /\ SleepTime \subseteq Nat /\ 0 \in SleepTime
  /\ \A n \in Nat : n < Check \/ n < Retry => n + 1 \in SleepTime
  <1>1. CASE Retry > Check
    BY <1>1, TickAssumption DEF TickAssumption, SleepTime
  <1>2. CASE ~(Retry > Check)
    BY <1>2, TickAssumption DEF TickAssumption, SleepTime
  <1> QED BY <1>1, <1>2

LEMMA GotoTypes ==
  ASSUME Types, NEW r \in Replica, NEW where \in Phase, Goto(r, where)
  PROVE  pc' \in [Replica -> Phase] /\ timer' \in [Replica -> SleepTime]
  BY SleepTimes DEF Types, Goto

LEMMA TickTypes ==
  ASSUME Types, Tick PROVE Types'
  <1>1. ASSUME NEW r \in Replica PROVE timer'[r] \in SleepTime
    <2>1. timer[r] \in Nat /\ timer'[r] = IF pc[r] = "down" THEN 0 ELSE timer[r] + 1
      BY SleepTimes DEF Tick, Types
    <2>2. pc[r] # "down" => timer[r] < Sleep(r)
      BY DEF Tick
    <2>3. Sleep(r) \in {Check, Retry, 0}
      BY DEF Sleep
    <2>4. CASE pc[r] = "down"
      BY <2>1, <2>4, SleepTimes
    <2>5. CASE pc[r] # "down"
      BY <2>1, <2>2, <2>3, <2>5, SleepTimes
    <2> QED BY <2>4, <2>5
  <1>2. timer' \in [Replica -> SleepTime]
    BY <1>1 DEF Tick
  <1>3. ASSUME NEW r \in Replica PROVE astray'[r] \in Nat
    <2>1. astray[r] \in Nat
      BY DEF Types
    <2> QED BY <2>1 DEF Tick
  <1>4. astray' \in [Replica -> Nat]
    BY <1>3 DEF Tick
  <1> QED BY <1>2, <1>4 DEF Tick, Types

LEMMA StepTypes ==
  ASSUME TypeOK, [Next]_vars PROVE TypeOK'
  <1>1. Types
    BY TypesIsTypeOK
  <1>2. Types' => TypeOK'
    BY DEF TypeOK, Types, Phase, SleepTime
  <1>3. ASSUME NEW r \in Replica, Step(r) PROVE Types'
    <2>1. CASE Acquire(r)
      BY <1>1, <2>1 DEF Acquire, Types
    <2>2. CASE Ask(r)
      <3>1. Goto(r, "leading") \/ Goto(r, "waiting") \/ Goto(r, "backoff")
        BY <2>2 DEF Ask
      <3>2. pc' \in [Replica -> Phase] /\ timer' \in [Replica -> SleepTime]
        BY <1>1, <3>1, GotoTypes DEF Phase
      <3> QED BY <1>1, <2>2, <3>2 DEF Ask, Types
    <2>3. CASE WaitOver(r)
      BY <1>1, <2>3, GotoTypes DEF WaitOver, Types, Phase
    <2>4. CASE Probe(r)
      <3>1. Goto(r, "leading") \/ Goto(r, "backoff")
        BY <2>4 DEF Probe
      <3>2. pc' \in [Replica -> Phase] /\ timer' \in [Replica -> SleepTime]
        BY <1>1, <3>1, GotoTypes DEF Phase
      <3> QED BY <1>1, <2>4, <3>2 DEF Probe, Types
    <2>5. CASE BackedOff(r)
      BY <1>1, <2>5, GotoTypes DEF BackedOff, Types, Phase
    <2>6. CASE Cancel(r)
      BY <1>1, <2>6 DEF Cancel, Types
    <2>7. CASE Unlock(r)
      BY <1>1, <2>7 DEF Unlock, Types
    <2>8. CASE Loop(r)
      BY <1>1, <2>8, GotoTypes DEF Loop, Types, Phase
    <2>9. CASE Gone(r)
      BY <1>1, <2>9, GotoTypes DEF Gone, Types, Phase
    <2>10. CASE Start(r)
      BY <1>1, <2>10, GotoTypes DEF Start, Types, Phase
    <2> QED
      BY <1>3, <2>1, <2>2, <2>3, <2>4, <2>5, <2>6, <2>7, <2>8, <2>9, <2>10 DEF Step
  <1>4. ASSUME NEW r \in Replica, Shutdown(r) PROVE Types'
    <2>1. pc' \in [Replica -> Phase] /\ timer' \in [Replica -> SleepTime]
      BY <1>1, <1>4, GotoTypes DEF Shutdown, Phase, Types
    <2>2. stops' \in 0 .. MaxStops
      BY <1>1, <1>4, TickAssumption DEF TickAssumption, Shutdown, Types
    <2> QED BY <1>1, <1>4, <2>1, <2>2 DEF Shutdown, Types
  <1>5. ASSUME NEW r \in Replica, Kill(r) PROVE Types'
    <2>1. pc' \in [Replica -> Phase] /\ timer' \in [Replica -> SleepTime]
      BY <1>1, <1>5, GotoTypes DEF Kill, Phase
    <2>2. stops' \in 0 .. MaxStops
      BY <1>1, <1>5, TickAssumption DEF TickAssumption, Kill, Types
    <2> QED BY <1>1, <1>5, <2>1, <2>2 DEF Kill, Types
  <1>6. ASSUME NEW r \in Replica, Lose(r) PROVE Types'
    <2>1. losses' \in 0 .. MaxLosses
      BY <1>1, <1>6, TickAssumption DEF TickAssumption, Lose, Types
    <2> QED BY <1>1, <1>6, <2>1 DEF Lose, Types
  <1>7. CASE UNCHANGED vars
    <2>1. /\ UNCHANGED <<pc, conn, lock, running, timer>>
          /\ UNCHANGED <<astray, told, losses, stops>>
      BY <1>7 DEF vars
    <2> QED BY <1>1, <1>2, <2>1 DEF Types
  <1> QED BY <1>1, <1>2, <1>3, <1>4, <1>5, <1>6, <1>7, TickTypes DEF Next

-----------------------------------------------------------------------------
(* Who holds the lock and who runs.                                        *)

LEMMA StepHeld ==
  ASSUME TypeOK, LockIsHeld, [Next]_vars PROVE LockIsHeld'
  <1>1. Types
    BY TypesIsTypeOK
  <1> USE <1>1 DEF Types, Phase, LockIsHeld, Goto
  <1>2. ASSUME NEW r \in Replica, Step(r) PROVE LockIsHeld'
    <2>1. CASE Acquire(r)
      BY <2>1 DEF Acquire
    <2>2. CASE Ask(r)
      <3>1. CASE conn[r] = "open" /\ lock = {}
        BY <2>2, <3>1 DEF Ask
      <3>2. CASE conn[r] = "open" /\ lock # {}
        BY <2>2, <3>2 DEF Ask
      <3>3. CASE conn[r] = "lost"
        BY <2>2, <3>3 DEF Ask
      <3> QED BY <2>2, <3>1, <3>2, <3>3 DEF Ask
    <2>3. CASE WaitOver(r)
      BY <2>3 DEF WaitOver
    <2>4. CASE Probe(r)
      BY <2>4 DEF Probe
    <2>5. CASE BackedOff(r)
      BY <2>5 DEF BackedOff
    <2>6. CASE Cancel(r)
      BY <2>6 DEF Cancel
    <2>7. CASE Unlock(r)
      BY <2>7 DEF Unlock
    <2>8. CASE Loop(r)
      BY <2>8 DEF Loop
    <2>9. CASE Gone(r)
      BY <2>9 DEF Gone
    <2>10. CASE Start(r)
      BY <2>10 DEF Start
    <2> QED
      BY <1>2, <2>1, <2>2, <2>3, <2>4, <2>5, <2>6, <2>7, <2>8, <2>9, <2>10 DEF Step
  <1>3. ASSUME NEW r \in Replica, Shutdown(r) PROVE LockIsHeld'
    BY <1>3 DEF Shutdown
  <1>4. ASSUME NEW r \in Replica, Kill(r) PROVE LockIsHeld'
    BY <1>4 DEF Kill
  <1>5. ASSUME NEW r \in Replica, Lose(r) PROVE LockIsHeld'
    BY <1>5 DEF Lose
  <1>6. CASE Tick
    BY <1>6 DEF Tick
  <1>7. CASE UNCHANGED vars
    BY <1>7 DEF vars
  <1> QED BY <1>2, <1>3, <1>4, <1>5, <1>6, <1>7 DEF Next

-----------------------------------------------------------------------------
(* How many stray.                                                         *)

\* Unless a connection is lost no replica goes astray, and at most one starts.
LEMMA NewStrays ==
  ASSUME TypeOK, LockIsHeld, [Next]_vars
  PROVE  \/ /\ Strays' \subseteq Strays /\ losses' = losses
            /\ running' \subseteq running \/ \E r \in Replica : running' = running \cup {r}
         \/ \E r \in Replica : /\ Strays' \subseteq Strays \cup {r}
                               /\ running' = running /\ losses' = losses + 1
  <1> USE DEF LockIsHeld, Strays
  <1>1. ASSUME NEW r \in Replica, Step(r)
        PROVE /\ Strays' \subseteq Strays /\ losses' = losses
              /\ running' \subseteq running \/ running' = running \cup {r}
    <2>1. CASE Ask(r)
      BY <2>1 DEF Ask
    <2>2. CASE Cancel(r)
      BY <2>2 DEF Cancel
    <2>3. CASE Unlock(r)
      BY <2>3 DEF Unlock
    <2>4. CASE ~(Ask(r) \/ Cancel(r) \/ Unlock(r))
      BY <1>1, <2>4 DEF Step, Acquire, WaitOver, Probe, BackedOff, Loop, Gone, Start
    <2> QED BY <2>1, <2>2, <2>3, <2>4
  <1>2. ASSUME NEW r \in Replica, Shutdown(r) \/ Kill(r)
        PROVE  Strays' \subseteq Strays /\ losses' = losses /\ running' \subseteq running
    BY <1>2 DEF Shutdown, Kill
  <1>3. ASSUME NEW r \in Replica, Lose(r)
        PROVE  Strays' \subseteq Strays \cup {r} /\ running' = running /\ losses' = losses + 1
    BY <1>3 DEF Lose
  <1>4. CASE Tick \/ UNCHANGED vars
    BY <1>4 DEF Tick, vars
  <1> QED BY <1>1, <1>2, <1>3, <1>4 DEF Next

LEMMA StraysAreFinite ==
  ASSUME TypeOK, StraysAreCounted
  PROVE  /\ IsFiniteSet(running) /\ Cardinality(Strays) <= losses /\ losses \in Nat
         /\ IsFiniteSet(Strays) /\ Cardinality(Strays) \in Nat
  <1>1. IsFiniteSet(running) /\ Cardinality(Strays) <= losses /\ losses \in Nat
    BY TypesIsTypeOK DEF StraysAreCounted, Types
  <1>2. IsFiniteSet(Strays)
    BY <1>1, FS_Subset DEF Strays
  <1> QED BY <1>1, <1>2, FS_CardinalityType

LEMMA StepCounted ==
  ASSUME TypeOK, LockIsHeld, StraysAreCounted, [Next]_vars PROVE StraysAreCounted'
  <1>1. CASE /\ Strays' \subseteq Strays /\ losses' = losses
             /\ running' \subseteq running \/ \E r \in Replica : running' = running \cup {r}
    <2>1. IsFiniteSet(running')
      BY <1>1, StraysAreFinite, FS_Subset, FS_AddElement
    <2>2. Cardinality(Strays') \in Nat /\ Cardinality(Strays') <= Cardinality(Strays)
      BY <1>1, StraysAreFinite, FS_Subset, FS_CardinalityType
    <2> QED BY <1>1, <2>1, <2>2, StraysAreFinite DEF StraysAreCounted
  <1>2. ASSUME NEW r \in Replica, Strays' \subseteq Strays \cup {r}, running' = running,
               losses' = losses + 1
        PROVE  StraysAreCounted'
    <2> DEFINE S == Strays \cup {r}
    <2>1. IsFiniteSet(S) /\ Cardinality(S) \in {Cardinality(Strays), Cardinality(Strays) + 1}
      BY StraysAreFinite, FS_AddElement
    <2>2. IsFiniteSet(Strays') /\ Cardinality(Strays') <= Cardinality(S)
      BY <1>2, <2>1, FS_Subset
    <2>3. Cardinality(Strays') \in Nat
      BY <2>2, FS_CardinalityType
    <2> HIDE DEF S
    <2>4. Cardinality(Strays') <= losses + 1
      BY <2>1, <2>2, <2>3, StraysAreFinite
    <2> QED BY <1>2, <2>4, StraysAreFinite DEF StraysAreCounted
  <1> QED BY <1>1, <1>2, NewStrays

\* At most one of those that run has the lock.
LEMMA CountedMeansBounded ==
  ASSUME TypeOK, LockIsHeld, StraysAreCounted PROVE OverlapIsBounded
  <1>1. CASE running \cap lock = {}
    <2>1. running = Strays
      BY <1>1 DEF Strays
    <2> QED BY <2>1, StraysAreFinite DEF OverlapIsBounded
  <1>2. CASE running \cap lock # {}
    <2>1. PICK r : r \in running \cap lock
      BY <1>2
    <2>2. running = Strays \cup {r}
      BY <2>1 DEF Strays, LockIsHeld
    <2>3. Cardinality(running) \in {Cardinality(Strays), Cardinality(Strays) + 1}
      BY <2>2, StraysAreFinite, FS_AddElement
    <2> QED BY <2>3, StraysAreFinite DEF OverlapIsBounded
  <1> QED BY <1>1, <1>2

-----------------------------------------------------------------------------
(* For how long they stray.                                                *)

LEMMA StepTimed ==
  ASSUME TypeOK, LockIsHeld, StraysAreTimed, [Next]_vars PROVE StraysAreTimed'
  <1> SUFFICES ASSUME NEW q \in Replica PROVE Timed(q)'
    BY DEF StraysAreTimed
  <1>1. /\ pc \in [Replica -> Phase] /\ timer \in [Replica -> Nat]
        /\ astray \in [Replica -> Nat] /\ timer' \in [Replica -> Nat]
        /\ Check \in Nat /\ Retry \in Nat
    <2>1. Types /\ Types'
      BY TypesIsTypeOK, StepTypes DEF TypeOK, Types, Phase, SleepTime
    <2> QED BY <2>1, SleepTimes, TickAssumption DEF TickAssumption, Types
  <1>2. /\ pc[q] = "leading" => q \in running
        /\ q \in running => pc[q] \in {"leading", "backoff", "finally", "stopping"}
        /\ q \in running => (q \in lock /\ conn[q] = "open") \/ conn[q] = "lost"
    BY DEF LockIsHeld
  <1>3. Timed(q)
    BY DEF StraysAreTimed
  <1> USE DEF Strays, Timed
  <1>4. ASSUME NEW r \in Replica, Step(r) PROVE Timed(q)'
    <2>1. CASE Ask(r)
      <3>1. astray' = astray /\ (lock' \subseteq lock \/ lock' = {r})
        BY <2>1 DEF Ask
      <3>2. CASE q = r
        <4>1. astray[q] = 0
          BY <1>2, <1>3, <2>1, <3>2 DEF Ask
        <4> QED BY <1>1, <3>1, <4>1
      <3>3. CASE q # r
        <4>1. pc'[q] = pc[q] /\ timer'[q] = timer[q]
          BY <1>1, <2>1, <3>3 DEF Ask, Goto
        <4>2. q \in running \ lock => q \in running' \ lock'
          BY <2>1, <3>1, <3>3 DEF Ask
        <4> QED BY <1>3, <3>1, <4>1, <4>2
      <3> QED BY <3>2, <3>3
    <2>2. CASE Probe(r)
      <3>1. astray' = astray /\ running' = running /\ lock' = lock
        BY <2>2 DEF Probe
      <3>2. CASE q # r
        <4>1. pc'[q] = pc[q] /\ timer'[q] = timer[q]
          BY <1>1, <2>2, <3>2 DEF Probe, Goto
        <4> QED BY <1>3, <3>1, <4>1
      <3>3. CASE q = r
        <4>1. timer[q] = Check /\ pc[q] = "leading" /\ timer'[q] = 0
          BY <1>1, <2>2, <3>3 DEF Probe, Goto
        <4>2. CASE conn[q] = "open"
          <5>1. astray[q] = 0
            BY <1>2, <1>3, <4>1, <4>2
          <5> QED BY <1>1, <3>1, <5>1
        <4>3. CASE conn[q] # "open"
          <5>1. pc'[q] = "backoff"
            BY <1>1, <2>2, <3>3, <4>3 DEF Probe, Goto
          <5> QED BY <1>1, <1>3, <3>1, <4>1, <5>1
        <4> QED BY <4>2, <4>3
      <3> QED BY <3>2, <3>3
    <2>3. CASE Cancel(r)
      <3>1. CASE q = r
        <4>1. astray'[q] = 0
          BY <1>1, <2>3, <3>1 DEF Cancel
        <4> QED BY <1>1, <4>1
      <3>2. CASE q # r
        BY <1>1, <1>3, <2>3, <3>2 DEF Cancel
      <3> QED BY <3>1, <3>2
    <2>4. CASE Acquire(r) \/ Unlock(r)
      BY <1>3, <2>4 DEF Acquire, Unlock
    <2>5. CASE WaitOver(r) \/ BackedOff(r) \/ Loop(r) \/ Gone(r) \/ Start(r)
      <3>1. astray' = astray /\ running' = running /\ lock' = lock
        BY <2>5 DEF WaitOver, BackedOff, Loop, Gone, Start
      <3>2. q = r => pc'[q] \notin {"leading", "backoff"}
        BY <1>1, <2>5 DEF WaitOver, BackedOff, Loop, Gone, Start, Goto
      <3>3. q # r => pc'[q] = pc[q] /\ timer'[q] = timer[q]
        BY <1>1, <2>5 DEF WaitOver, BackedOff, Loop, Gone, Start, Goto
      <3> QED BY <1>3, <3>1, <3>2, <3>3
    <2> QED BY <1>4, <2>1, <2>2, <2>3, <2>4, <2>5 DEF Step
  <1>5. ASSUME NEW r \in Replica, Shutdown(r) PROVE Timed(q)'
    <2>1. astray' = astray /\ running' = running /\ lock' = lock
      BY <1>5 DEF Shutdown
    <2>2. \/ pc'[q] = pc[q] /\ timer'[q] = timer[q]
          \/ pc'[q] = "stopping"
      BY <1>1, <1>5 DEF Shutdown, Goto
    <2> QED BY <1>3, <2>1, <2>2
  <1>6. ASSUME NEW r \in Replica, Kill(r) PROVE Timed(q)'
    <2>1. CASE q = r
      <3>1. astray'[q] = 0
        BY <1>1, <1>6, <2>1 DEF Kill
      <3> QED BY <1>1, <3>1
    <2>2. CASE q # r
      <3>1. pc'[q] = pc[q] /\ timer'[q] = timer[q] /\ astray'[q] = astray[q]
        BY <1>1, <1>6, <2>2 DEF Kill, Goto
      <3>2. q \in running \ lock => q \in running' \ lock'
        BY <1>6, <2>2 DEF Kill
      <3> QED BY <1>3, <3>1, <3>2
    <2> QED BY <2>1, <2>2
  <1>7. ASSUME NEW r \in Replica, Lose(r) PROVE Timed(q)'
    BY <1>3, <1>7 DEF Lose
  <1>8. CASE Tick
    <2>1. CASE q \in running \ lock
      <3>1. pc[q] # "down" /\ timer[q] < Sleep(q)
        BY <1>2, <1>8, <2>1 DEF Tick
      <3>2. timer'[q] = timer[q] + 1 /\ astray'[q] = astray[q] + 1 /\ pc' = pc
        BY <1>8, <2>1, <3>1 DEF Tick
      <3>3. q \in running' \ lock'
        BY <1>8, <2>1 DEF Tick
      <3>4. CASE pc[q] = "leading"
        <4>1. Sleep(q) = Check
          BY <3>4 DEF Sleep
        <4> QED BY <1>1, <1>3, <3>1, <3>2, <3>3, <3>4, <4>1
      <3>5. CASE pc[q] = "backoff"
        <4>1. Sleep(q) = Retry
          BY <3>5 DEF Sleep
        <4> QED BY <1>1, <1>3, <3>1, <3>2, <3>3, <3>5, <4>1
      <3>6. CASE pc[q] \in {"finally", "stopping"}
        <4>1. Sleep(q) = 0
          BY <3>6 DEF Sleep
        <4> QED BY <1>1, <3>1, <4>1
      <3> QED BY <1>2, <2>1, <3>4, <3>5, <3>6
    <2>2. CASE q \notin running \ lock
      <3>1. astray'[q] = 0
        BY <1>8, <2>2 DEF Tick
      <3> QED BY <1>1, <3>1
    <2> QED BY <2>1, <2>2
  <1>9. CASE UNCHANGED vars
    BY <1>3, <1>9 DEF vars
  <1> QED BY <1>4, <1>5, <1>6, <1>7, <1>8, <1>9 DEF Next

-----------------------------------------------------------------------------

LEMMA InitInv == Init => IInv
  <1> SUFFICES ASSUME Init PROVE IInv
    OBVIOUS
  <1>1. TypeOK
    <2>1. Types
      BY SleepTimes, TickAssumption DEF TickAssumption, Init, Types, Phase
    <2> QED BY <2>1, TypesIsTypeOK
  <1>2. LockIsHeld
    BY DEF Init, LockIsHeld
  <1>3. StraysAreCounted
    <2>1. Strays = {} /\ running = {} /\ losses = 0
      BY DEF Init, Strays
    <2> QED BY <2>1, FS_EmptySet DEF StraysAreCounted
  <1>4. StraysAreTimed
    BY TickAssumption DEF TickAssumption, Init, StraysAreTimed, Timed
  <1> QED BY <1>1, <1>2, <1>3, <1>4 DEF IInv

LEMMA Invariance == Spec => []IInv
  <1>1. IInv /\ [Next]_vars => IInv'
    BY StepTypes, StepHeld, StepCounted, StepTimed DEF IInv
  <1> QED BY <1>1, InitInv, PTL DEF Spec

\* The loop of run_while_leader, its connections, sleeps and counters keep
\* their types.
THEOREM TypesKept == Spec => []TypeOK
  <1>1. IInv => TypeOK
    BY DEF IInv
  <1> QED BY <1>1, Invariance, PTL

\* The work of the scheduler (run_while_leader) is done by at most one replica
\* more than connections have been lost.
THEOREM OverlapBounded == Spec => []OverlapIsBounded
  <1>1. IInv => OverlapIsBounded
    BY CountedMeansBounded DEF IInv
  <1> QED BY <1>1, Invariance, PTL

\* As long as no connection is lost one replica does it, whichever replicas
\* are shut down, killed and started.
THEOREM OnlyOneRuns == Spec => []OneRuns
  <1>1. IInv => OneRuns
    BY CountedMeansBounded DEF IInv, OneRuns, OverlapIsBounded
  <1> QED BY <1>1, Invariance, PTL

\* A replica that lost the lock goes on with the work for one check and one
\* retry at most: the probe that fails, the sleep after it, then finally.
THEOREM StraysStopInTime == Spec => []StraysStop
  <1>1. IInv => StraysStop
    BY DEF IInv, StraysAreTimed, Timed, StraysStop
  <1> QED BY <1>1, Invariance, PTL

=============================================================================

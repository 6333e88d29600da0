--------------------------- MODULE AgentLoopProofs ---------------------------
(***************************************************************************)
(* For every set of policies and schedules and every number of releases,   *)
(* failures and refreshes: what the agent remembers of the machine it has  *)
(* configured is true, and it waits as long as the domain says.            *)
(***************************************************************************)
EXTENDS AgentLoop, TLAPS

\* What a type does not say of the counts follows from FaultsAreCounted and
\* TasksAreFew.
ServerTypes ==
  /\ policy \in Doc /\ pushing \in {"no", "look", "queue"}
  /\ schedule \in Schedules /\ offered \in 0 .. MaxVersion
  /\ pending \in Nat /\ stuck \in Nat

DaemonTypes ==
  /\ pc \in {"start", "applying", "tasks", "tasking", "unchanged", "failed",
             "report", "waiting", "refreshing", "down"}
  /\ after \in {"none", "unchanged", "failed", "report"}
  /\ forced \in BOOLEAN /\ clean \in BOOLEAN /\ holding \in BOOLEAN /\ again \in BOOLEAN
  /\ doc \in Doc \cup {"none"} /\ offer \in 0 .. MaxVersion /\ failures \in Nat

FileTypes ==
  /\ saved \in State /\ inForce \in State
  /\ version \in 1 .. MaxVersion /\ installed \in 1 .. MaxVersion
  /\ due \in BOOLEAN /\ faults \in 0 .. MaxFaults

WaitRange == 0 .. 2 * MaxRefreshMinutes

Types == ServerTypes /\ DaemonTypes /\ FileTypes /\ wait \in WaitRange

\* What is written down is about a policy and by a release.
RecordIsFormed == saved = NoSaved \/ (saved.doc \in Doc /\ saved.by \in 1 .. MaxVersion)

\* Where the pass is, its document and where it goes after its tasks, its offer
\* and the task it holds.
PassIsFormed ==
  /\ after # "none" <=> pc \in {"tasks", "tasking"}
  /\ pc = "applying" \/ "report" \in {pc, after} => doc # "none"
  /\ offer # 0 => pc = "applying"
  /\ holding <=> pc \in {"tasking", "refreshing"}

\* The pass has failed already.
PassFailed == "failed" \in {pc, after} \/ ("report" \in {pc, after} /\ ~ clean)

\* Each failure in a row was one of the bounded ones, and so was the withdrawal
\* of the release that the pass under way counts on.
FaultsAreCounted ==
  /\ failures <= faults
  /\ PassFailed \/ (offer # 0 /\ offered = 0) => failures + 1 <= faults

\* A push is queued only when there was no task, and a click may come between.
TasksAreFew == Queued + Coming <= MaxQueued + 1

\* What the file says the domain stated, and how long the daemon waits.
WaitIsSettled ==
  /\ minutes = told /\ told \in {0, 1, 5, 15, 30}
  /\ pc = "waiting" => wait = AfterFailures(RefreshInterval(minutes), failures)

\* While the appliers run the machine is in between; a clean pass has left the
\* machine at its document.
ApplyIsTrue ==
  /\ pc = "applying" => inForce = Mixed
  /\ clean /\ "report" \in {pc, after} => inForce = [doc |-> doc, by |-> version]

\* What the record of this release says was in force still is, or it will not
\* be skipped: an update waits, or the policy is another by now.
RecordIsTrue ==
  saved.by = version =>
    inForce = saved \/ Waits(saved.doc, offered) \/ saved.doc # policy

\* Until the pass has skipped, and gone on to its tasks.
SkipIsTrue == after = "unchanged" => inForce = [doc |-> doc, by |-> version]

MemoryIsTrue == ApplyIsTrue /\ (again \/ (RecordIsTrue /\ SkipIsTrue))

IInv == /\ Types /\ RecordIsFormed /\ PassIsFormed /\ FaultsAreCounted /\ TasksAreFew
        /\ WaitIsSettled /\ MemoryIsTrue

-----------------------------------------------------------------------------
(* The intervals.                                                          *)

LEMMA Powers == \A n \in 0 .. 8 : 2 ^ n \in Nat \ {0}
  <1> DEFINE P(n) == 2 ^ n
  <1>1. /\ P(0) = 1 /\ P(1) = 2 /\ P(2) = 4 /\ P(3) = 8 /\ P(4) = 16
        /\ P(5) = 32 /\ P(6) = 64 /\ P(7) = 128 /\ P(8) = 256
    OBVIOUS
  <1> HIDE DEF P
  <1>2. ASSUME NEW n \in 0 .. 8 PROVE P(n) \in Nat \ {0}
    <2>1. n \in {0, 1, 2, 3, 4, 5, 6, 7, 8}
      OBVIOUS
    <2> QED BY <1>1, <2>1
  <1> QED BY <1>2 DEF P

\* sensibleRefresh returns none or an interval in its range.
LEMMA SensibleBounds ==
  ASSUME NEW m \in Int
  PROVE  /\ SensibleRefresh(m) \in 0 .. MaxRefreshMinutes
         /\ m \in {1, 5, 15, 30} => SensibleRefresh(m) = m
  <1>1. CASE m <= 0
    BY <1>1 DEF SensibleRefresh, MaxRefreshMinutes
  <1>2. CASE m > MaxRefreshMinutes
    BY <1>2 DEF SensibleRefresh, MinRefreshMinutes, MaxRefreshMinutes
  <1>3. CASE m > 0 /\ m <= MaxRefreshMinutes
    BY <1>3 DEF SensibleRefresh, MinRefreshMinutes, MaxRefreshMinutes
  <1> QED BY <1>1, <1>2, <1>3 DEF MaxRefreshMinutes

\* "Never zero and never absurd."
LEMMA IntervalBounds ==
  ASSUME NEW m \in Int
  PROVE  RefreshInterval(m) \in Nat \ {0} /\ RefreshInterval(m) <= 2 * MaxRefreshMinutes
  <1> DEFINE file == SensibleRefresh(m)
             join == SensibleRefresh(Joined)
             chosen == IF file # 0 THEN file ELSE IF join # 0 THEN join ELSE DefaultRefreshMinutes
  <1>1. file \in 0 .. MaxRefreshMinutes /\ join \in 0 .. MaxRefreshMinutes
    BY SensibleBounds, NumberAssumption DEF NumberAssumption
  <1>2. RefreshInterval(m) = 2 * chosen
    BY DEF RefreshInterval
  <1> HIDE DEF file, join
  <1>3. chosen \in 1 .. MaxRefreshMinutes
    BY <1>1 DEF DefaultRefreshMinutes, MaxRefreshMinutes
  <1> HIDE DEF chosen
  <1> QED BY <1>2, <1>3 DEF MaxRefreshMinutes

\* The wait after failures is between the floor and the ordinary interval.
LEMMA BackoffBounds ==
  ASSUME NEW usual \in Nat \ {0}, NEW n \in Nat
  PROVE  /\ AfterFailures(usual, n) \in RetryFloor .. usual
         /\ n = 0 => AfterFailures(usual, n) = usual
  <1> DEFINE doublings == IF n - 1 < 8 THEN n - 1 ELSE 8
             backoff == RetryFloor * 2 ^ doublings
  <1>1. AfterFailures(usual, n) = IF n <= 0 THEN usual ELSE IF backoff < usual THEN backoff ELSE usual
    BY DEF AfterFailures
  <1>2. CASE n = 0
    BY <1>1, <1>2 DEF RetryFloor
  <1>3. CASE n # 0
    <2>1. doublings \in 0 .. 8
      BY <1>3
    <2>2. 2 ^ doublings \in Nat \ {0}
      BY <2>1, Powers
    <2>3. backoff \in Nat \ {0}
      <3> DEFINE p == 2 ^ doublings
      <3>1. p \in Nat \ {0} /\ backoff = 1 * p
        BY <2>2 DEF RetryFloor
      <3> HIDE DEF p
      <3> QED BY <3>1
    <2> HIDE DEF backoff
    <2> QED BY <1>1, <1>3, <2>3 DEF RetryFloor
  <1> QED BY <1>2, <1>3

-----------------------------------------------------------------------------
(* Types.                                                                  *)

LEMMA FaultCounts ==
  ASSUME faults \in 0 .. MaxFaults, Fault
  PROVE  faults' \in 0 .. MaxFaults /\ faults' = faults + 1
  BY NumberAssumption DEF NumberAssumption, Fault

\* What EndPass leaves behind.
LEMMA PassEnds ==
  ASSUME DaemonTypes, NEW ok \in BOOLEAN, EndPass(ok)
  PROVE  /\ pc' = "waiting" /\ forced' = FALSE /\ doc' = "none" /\ clean' = FALSE
         /\ failures' \in Nat
         /\ ok => failures' = 0
         /\ ~ ok => failures' = failures + 1
         /\ wait' = AfterFailures(RefreshInterval(minutes), failures')
  <1>1. CASE ok
    BY <1>1 DEF DaemonTypes, EndPass
  <1>2. CASE ~ ok
    <2>1. failures' = failures + 1
      BY <1>2 DEF EndPass
    <2>2. wait' = AfterFailures(RefreshInterval(minutes), failures + 1)
      BY <1>2 DEF EndPass
    <2>3. pc' = "waiting" /\ forced' = FALSE /\ doc' = "none" /\ clean' = FALSE
      BY DEF EndPass
    <2>4. failures + 1 \in Nat
      <3>1. failures \in Nat
        BY DEF DaemonTypes
      <3> QED BY <3>1
    <2> QED BY <1>2, <2>1, <2>2, <2>3, <2>4
  <1> QED BY <1>1, <1>2

LEMMA StateRecords ==
  /\ Mixed \in State /\ NoSaved \in State
  /\ \A d \in Doc \cup {"none"}, v \in 1 .. MaxVersion : [doc |-> d, by |-> v] \in State
  <1>1. 0 \in 0 .. MaxVersion /\ 1 .. MaxVersion \subseteq 0 .. MaxVersion
    BY NumberAssumption DEF NumberAssumption
  <1> QED BY <1>1 DEF State, Mixed, NoSaved

LEMMA ThisState ==
  ASSUME DaemonTypes, FileTypes
  PROVE  [doc |-> doc, by |-> version] \in State
  <1>1. doc \in Doc \cup {"none"} /\ version \in 1 .. MaxVersion
    BY DEF DaemonTypes, FileTypes
  <1> QED BY <1>1, StateRecords

LEMMA StepServerTypes ==
  ASSUME ServerTypes, [Next]_vars PROVE ServerTypes'
  <1> USE NumberAssumption DEF NumberAssumption, ServerTypes
  <1>1. ASSUME NEW d \in Doc, Edit(d) PROVE ServerTypes'
    BY <1>1 DEF Edit, server, queue, files, daemon, rest
  <1>2. CASE PushLook \/ PushQueue \/ Ask \/ Reap
    BY <1>2 DEF PushLook, PushQueue, Ask, Reap, server, queue,
       files, daemon, rest
  <1>3. ASSUME NEW s \in Schedules, Schedule(s) PROVE ServerTypes'
    BY <1>3 DEF Schedule, server, queue, files, daemon, rest
  <1>4. CASE Skip \/ BeginApply \/ TakeTask \/ NoTask \/ TaskDone \/ PassOver
    BY <1>4 DEF Skip, Fetch, BeginApply, TakeTask, NoTask, Fault, TaskDone, PassOver,
       EndPass, server, queue, files, daemon, rest
  <1>5. ASSUME NEW ok \in BOOLEAN, EndApply(ok) PROVE ServerTypes'
    BY <1>5 DEF EndApply, Fault, server, queue, files, daemon, rest
  <1>6. CASE Report \/ WaitEnds \/ Poll \/ Refresh \/ Start \/ CannotStart
    BY <1>6 DEF Report, EndPass, WaitEnds, Poll, Refresh, Start, Runs, CannotStart, Fault,
       server, queue, files, daemon, rest
  <1>7. CASE FetchFails \/ ReportFails
    BY <1>7 DEF FetchFails, Fault, ReportFails, EndPass, server, queue, files,
       daemon, rest
  <1>8. CASE Crash
    <2>1. stuck' \in {stuck, stuck + 1}
      BY <1>8 DEF Crash, Dies
    <2>2. UNCHANGED <<policy, pushing, schedule, offered, pending>>
      BY <1>8 DEF Crash, Dies, server
    <2> QED BY <2>1, <2>2
  <1>9. CASE Restart
    <2>1. stuck' \in {stuck, stuck + 1}
      BY <1>9 DEF Restart, Dies
    <2>2. UNCHANGED <<policy, pushing, schedule, offered, pending>>
      BY <1>9 DEF Restart, Dies, server
    <2> QED BY <2>1, <2>2
  <1>10. CASE UNCHANGED vars
    BY <1>10 DEF vars, server, queue, files, daemon, rest
  <1>50. ASSUME NEW release \in 0 .. MaxVersion, Publish(release) PROVE ServerTypes'
    BY <1>50 DEF Publish, Fault, server, queue, files, daemon, rest
  <1> QED BY <1>50, <1>1, <1>2, <1>3, <1>4, <1>5, <1>6, <1>7, <1>8, <1>9, <1>10 DEF Next,
       Step

LEMMA StepDaemonTypes ==
  ASSUME ServerTypes, DaemonTypes, PassIsFormed, [Next]_vars PROVE DaemonTypes'
  <1> USE DEF ServerTypes, DaemonTypes
  <1>0. 0 \in 0 .. MaxVersion
    BY NumberAssumption DEF NumberAssumption
  <1>1. ASSUME NEW d \in Doc, Edit(d) PROVE DaemonTypes'
    BY <1>1 DEF Edit, server, queue, files, daemon, rest
  <1>2. CASE PushLook \/ PushQueue \/ Ask \/ Reap
    BY <1>2 DEF PushLook, PushQueue, Ask, Reap, server, queue,
       files, daemon, rest
  <1>3. ASSUME NEW s \in Schedules, Schedule(s) PROVE DaemonTypes'
    BY <1>3 DEF Schedule, server, queue, files, daemon, rest
  <1>4. CASE Skip \/ BeginApply
    BY <1>4 DEF Skip, BeginApply, Fetch, server, queue, files, daemon, rest
  <1>20. CASE TakeTask \/ WaitEnds \/ Poll \/ Refresh
    BY <1>20 DEF TakeTask, WaitEnds, Poll, Refresh, server, queue, files, daemon, rest
  <1>5. ASSUME NEW ok \in BOOLEAN, EndApply(ok) PROVE DaemonTypes'
    BY <1>0, <1>5 DEF EndApply, Fault, server, queue, files, daemon, rest
  <1>6. CASE NoTask
    <2>1. pc' \in {"unchanged", "failed", "report"} /\ after' = "none"
      BY <1>6 DEF NoTask, PassIsFormed
    <2> QED BY <1>6, <2>1 DEF NoTask, server, queue, files, daemon, rest
  <1>7. CASE TaskDone
    <2>1. pc' \in {"unchanged", "failed", "report"} /\ after' = "none"
      BY <1>7 DEF TaskDone, PassIsFormed
    <2> QED BY <1>7, <2>1 DEF TaskDone, server, queue, files, daemon, rest
  <1>8. CASE PassOver
    <2>1. EndPass(pc = "unchanged")
      BY <1>8 DEF PassOver
    <2>2. pc' = "waiting" /\ forced' = FALSE /\ doc' = "none" /\ clean' = FALSE /\ failures' \in Nat
      BY <2>1, PassEnds
    <2> QED BY <1>8, <2>1, <2>2 DEF PassOver, server, queue, files, daemon, rest
  <1>9. CASE Report
    <2>1. EndPass(clean) /\ again' = (again /\ ~ clean)
      BY <1>9 DEF Report
    <2>2. pc' = "waiting" /\ forced' = FALSE /\ doc' = "none" /\ clean' = FALSE /\ failures' \in Nat
      BY <2>1, PassEnds
    <2> QED BY <1>9, <2>1, <2>2 DEF Report, server, queue, files, daemon, rest
  <1>10. CASE Start \/ FetchFails
    BY <1>10 DEF Start, Runs, FetchFails, Fault, server, queue, files, daemon, rest
  <1>11. CASE CannotStart
    <2>1. EndPass(FALSE)
      BY <1>11 DEF CannotStart
    <2>2. pc' = "waiting" /\ forced' = FALSE /\ doc' = "none" /\ clean' = FALSE /\ failures' \in Nat
      BY <2>1, PassEnds
    <2> QED BY <1>11, <2>1, <2>2 DEF CannotStart, server, queue, files, daemon, rest
  <1>12. CASE ReportFails
    <2>1. EndPass(FALSE)
      BY <1>12 DEF ReportFails
    <2>2. pc' = "waiting" /\ forced' = FALSE /\ doc' = "none" /\ clean' = FALSE /\ failures' \in Nat
      BY <2>1, PassEnds
    <2> QED BY <1>12, <2>1, <2>2 DEF ReportFails, server, queue, files, daemon, rest
  <1>13. CASE Crash
    BY <1>0, <1>13 DEF Crash, Fault, Dies, server, queue, files, daemon, rest
  <1>14. CASE Restart
    BY <1>0, <1>14 DEF Restart, Runs, Dies, server, queue, files, daemon, rest
  <1>15. CASE UNCHANGED vars
    BY <1>15 DEF vars, server, queue, files, daemon, rest
  <1>50. ASSUME NEW release \in 0 .. MaxVersion, Publish(release) PROVE DaemonTypes'
    BY <1>50 DEF Publish, Fault, server, queue, files, daemon, rest
  <1> QED BY <1>50, <1>20, <1>1, <1>2, <1>3, <1>4, <1>5, <1>6, <1>7, <1>8, <1>9, <1>10, <1>11,
       <1>12, <1>13, <1>14, <1>15 DEF Next, Step

LEMMA StepFileTypes ==
  ASSUME ServerTypes, DaemonTypes, FileTypes, [Next]_vars PROVE FileTypes'
  <1> USE NumberAssumption DEF NumberAssumption, ServerTypes, DaemonTypes, FileTypes
  <1>1. ASSUME NEW d \in Doc, Edit(d) PROVE FileTypes'
    BY <1>1 DEF Edit, server, queue, files, daemon, rest
  <1>2. CASE PushLook \/ PushQueue \/ Ask \/ Reap
    BY <1>2 DEF PushLook, PushQueue, Ask, Reap, server, queue,
       files, daemon, rest
  <1>3. ASSUME NEW s \in Schedules, Schedule(s) PROVE FileTypes'
    BY <1>3 DEF Schedule, server, queue, files, daemon, rest
  <1>4. CASE Skip \/ TakeTask \/ TaskDone \/ PassOver \/ WaitEnds \/ Poll
    BY <1>4 DEF Skip, Fetch, TakeTask, TaskDone, PassOver, EndPass, WaitEnds, Poll, server,
       queue, files, daemon, rest
  <1>5. CASE BeginApply
    BY <1>5, StateRecords DEF BeginApply, Fetch, server, queue, files, daemon, rest
  <1>6. ASSUME NEW ok \in BOOLEAN, EndApply(ok) PROVE FileTypes'
    <2>1. faults' \in 0 .. MaxFaults
      BY <1>6, FaultCounts DEF EndApply
    <2>2. inForce' \in {[doc |-> doc, by |-> version], Mixed}
      BY <1>6 DEF EndApply
    <2>3. inForce' \in State
      BY <2>2, ThisState, StateRecords
    <2>4. installed' \in 1 .. MaxVersion /\ due' \in BOOLEAN
      <3>1. CASE UNCHANGED <<installed, due>>
        BY <3>1
      <3>2. CASE WantsUpdate /\ ~ (WantsUpdate /\ offered = 0) /\ installed' = offered /\ due' \in {TRUE, ok \/ due}
        <4>1. offered \in 1 .. MaxVersion
          BY <3>2
        <4> QED BY <3>2, <4>1
      <3> QED BY <1>6, <3>1, <3>2 DEF EndApply
    <2>5. UNCHANGED <<saved, version>>
      BY <1>6 DEF EndApply
    <2> QED BY <2>1, <2>3, <2>4, <2>5
  <1>7. CASE NoTask
    <2>1. faults' \in 0 .. MaxFaults
      BY <1>7, FaultCounts DEF NoTask
    <2> QED BY <1>7, <2>1 DEF NoTask, server, queue, files, daemon, rest
  <1>8. CASE Report
    <2>1. saved' \in {[doc |-> doc, by |-> version], saved}
      BY <1>8 DEF Report
    <2>2. saved' \in State
      BY <2>1, ThisState
    <2> QED BY <1>8, <2>1, <2>2 DEF Report, server, queue, files, daemon, rest
  <1>9. CASE Refresh \/ Start
    BY <1>9 DEF Refresh, Start, Runs, server, queue, files, daemon, rest
  <1>10. CASE CannotStart
    <2>1. faults' \in 0 .. MaxFaults
      BY <1>10, FaultCounts DEF CannotStart
    <2> QED BY <1>10, <2>1 DEF CannotStart, server, queue, files, daemon, rest
  <1>11. CASE FetchFails
    <2>1. faults' \in 0 .. MaxFaults
      BY <1>11, FaultCounts DEF FetchFails
    <2> QED BY <1>11, <2>1 DEF FetchFails, server, queue, files, daemon, rest
  <1>12. CASE ReportFails
    <2>1. faults' \in 0 .. MaxFaults
      BY <1>12, FaultCounts DEF ReportFails
    <2> QED BY <1>12, <2>1 DEF ReportFails, server, queue, files, daemon, rest
  <1>13. CASE Crash
    <2>1. faults' \in 0 .. MaxFaults
      BY <1>13, FaultCounts DEF Crash
    <2> QED BY <1>13, <2>1 DEF Crash, Dies, server, queue, files, daemon, rest
  <1>14. CASE Restart
    BY <1>14 DEF Restart, Runs, Dies, server, queue, files, daemon, rest
  <1>15. CASE UNCHANGED vars
    BY <1>15 DEF vars, server, queue, files, daemon, rest
  <1>50. ASSUME NEW release \in 0 .. MaxVersion, Publish(release) PROVE FileTypes'
    BY <1>50 DEF Publish, Fault, server, queue, files, daemon, rest
  <1> QED BY <1>50, <1>1, <1>2, <1>3, <1>4, <1>5, <1>6, <1>7, <1>8, <1>9, <1>10, <1>11,
       <1>12, <1>13, <1>14, <1>15 DEF Next, Step
-----------------------------------------------------------------------------
(* Versions, records, the shape of a pass, and the counts.                 *)

LEMMA Numbers ==
  ASSUME ServerTypes, DaemonTypes, FileTypes
  PROVE  failures \in Nat /\ faults \in Nat /\ stuck \in Nat /\ pending \in Nat
  <1>1. failures \in Nat /\ stuck \in Nat /\ pending \in Nat
    BY DEF ServerTypes, DaemonTypes
  <1>2. faults \in Nat
    BY NumberAssumption DEF NumberAssumption, FileTypes
  <1> QED BY <1>1, <1>2

LEMMA StepRecorded ==
  ASSUME DaemonTypes, FileTypes, RecordIsFormed, PassIsFormed, [Next]_vars
  PROVE  RecordIsFormed'
  <1> USE DEF RecordIsFormed
  <1>1. saved' = saved => RecordIsFormed'
    OBVIOUS
  <1>2. ASSUME NEW d \in Doc, Edit(d) PROVE saved' = saved
    BY <1>2 DEF Edit, files
  <1>3. CASE PushLook \/ PushQueue \/ Ask \/ Reap \/ Skip \/ BeginApply
    BY <1>1, <1>3 DEF PushLook, PushQueue, Ask, Reap, Skip, BeginApply, rest, files
  <1>4. ASSUME NEW s \in Schedules, Schedule(s) PROVE saved' = saved
    BY <1>4 DEF Schedule, rest, files
  <1>5. ASSUME NEW release \in 0 .. MaxVersion, Publish(release) PROVE saved' = saved
    BY <1>5 DEF Publish, files
  <1>6. ASSUME NEW ok \in BOOLEAN, EndApply(ok) PROVE saved' = saved
    BY <1>6 DEF EndApply
  <1>7. CASE TakeTask \/ NoTask \/ TaskDone \/ PassOver \/ WaitEnds \/ Poll
    BY <1>1, <1>7 DEF TakeTask, NoTask, TaskDone, PassOver, WaitEnds, Poll, rest, files
  <1>8. CASE Refresh \/ Start \/ CannotStart \/ FetchFails \/ ReportFails
    BY <1>1, <1>8 DEF Refresh, Start, CannotStart, FetchFails, ReportFails, rest, files
  <1>9. CASE Report
    <2>1. saved' = saved \/ saved' = [doc |-> doc, by |-> version]
      BY <1>9 DEF Report
    <2>2. doc \in Doc /\ version \in 1 .. MaxVersion
      BY <1>9 DEF Report, PassIsFormed, DaemonTypes, FileTypes
    <2> QED BY <2>1, <2>2
  <1>10. CASE Crash \/ Restart
    BY <1>1, <1>10 DEF Crash, Restart, Dies
  <1>11. CASE UNCHANGED vars
    BY <1>1, <1>11 DEF vars, files
  <1> QED BY <1>1, <1>2, <1>3, <1>4, <1>5, <1>6, <1>7, <1>8, <1>9, <1>10, <1>11
          DEF Next, Step

LEMMA StepFormed ==
  ASSUME ServerTypes, DaemonTypes, PassIsFormed, [Next]_vars PROVE PassIsFormed'
  <1> USE DEF PassIsFormed
  <1>1. ASSUME NEW d \in Doc, Edit(d) PROVE PassIsFormed'
    BY <1>1 DEF Edit, server, queue, files, daemon, rest
  <1>2. CASE PushLook \/ PushQueue \/ Ask \/ Reap \/ Skip
    BY <1>2 DEF PushLook, PushQueue, Ask, Reap, Skip, Fetch, server, queue, files,
       daemon, rest
  <1>3. ASSUME NEW s \in Schedules, Schedule(s) PROVE PassIsFormed'
    BY <1>3 DEF Schedule, server, queue, files, daemon, rest
  <1>4. CASE BeginApply
    <2>1. doc' = policy /\ policy # "none" /\ pc = "start"
      BY <1>4, DocAssumption DEF DocAssumption, ServerTypes, BeginApply, Fetch
    <2> QED BY <1>4, <2>1 DEF BeginApply, server, queue, files, daemon, rest
  <1>5. CASE TakeTask \/ PassOver \/ Report \/ WaitEnds \/ Poll
    BY <1>5 DEF TakeTask, PassOver, EndPass, Report, WaitEnds, Poll,
       server, queue, files, daemon, rest
  <1>6. ASSUME NEW ok \in BOOLEAN, EndApply(ok) PROVE PassIsFormed'
    BY <1>6 DEF EndApply, Fault, server, queue, files, daemon, rest
  <1>7. CASE NoTask
    <2>1. pc = "tasks" /\ pc' = after /\ after' = "none" /\ UNCHANGED <<doc, offer, holding>>
      BY <1>7 DEF NoTask, server, daemon
    <2>2. after \in {"unchanged", "failed", "report"}
      BY <2>1 DEF DaemonTypes
    <2> QED BY <2>1, <2>2
  <1>8. CASE TaskDone
    <2>1. pc \in {"tasks", "tasking"} /\ pc' = after /\ after' = "none" /\ UNCHANGED <<doc, offer>> /\ holding' = FALSE
      BY <1>8 DEF TaskDone, server, daemon
    <2>2. after \in {"unchanged", "failed", "report"}
      BY <2>1 DEF DaemonTypes
    <2> QED BY <2>1, <2>2
  <1>9. CASE Refresh \/ Start \/ CannotStart \/ FetchFails \/ ReportFails
    BY <1>9 DEF Refresh, Start, Runs, CannotStart, Fault, EndPass, FetchFails,
       ReportFails, server, queue, files, daemon, rest
  <1>10. CASE Crash
    BY <1>10 DEF Crash, Fault, Dies, server, queue, files, daemon, rest
  <1>11. CASE Restart
    BY <1>11 DEF Restart, Runs, Dies, server, queue, files, daemon, rest
  <1>12. CASE UNCHANGED vars
    BY <1>12 DEF vars, server, queue, files, daemon, rest
  <1>50. ASSUME NEW release \in 0 .. MaxVersion, Publish(release) PROVE PassIsFormed'
    BY <1>50 DEF Publish, Fault, server, queue, files, daemon, rest
  <1> QED BY <1>50, <1>1, <1>2, <1>3, <1>4, <1>5, <1>6, <1>7, <1>8, <1>9, <1>10, <1>11,
       <1>12 DEF Next, Step

LEMMA StepCounted ==
  ASSUME ServerTypes, DaemonTypes, FileTypes, RecordIsFormed, PassIsFormed, FaultsAreCounted,
         [Next]_vars
  PROVE  FaultsAreCounted'
  <1> USE DEF FaultsAreCounted
  <1>0. failures \in Nat /\ faults \in Nat
    BY Numbers
  <1>1. ASSUME NEW d \in Doc, Edit(d) PROVE FaultsAreCounted'
    BY <1>1 DEF Edit, server, queue, files, daemon, rest, PassFailed
  <1>2. CASE PushLook \/ PushQueue \/ Ask \/ Reap \/ Skip
    BY <1>2 DEF PushLook, PushQueue, Ask, Reap, Skip, Fetch, server, queue,
       files, daemon, rest, PassFailed
  <1>3. ASSUME NEW release \in 0 .. MaxVersion, Publish(release) PROVE FaultsAreCounted'
    <2>1. UNCHANGED <<pc, after, clean, failures, offer>> /\ offered' = release
      BY <1>3 DEF Publish, daemon
    <2>2. PassFailed' <=> PassFailed
      BY <2>1 DEF PassFailed
    <2>3. CASE release = 0 /\ offer # 0
      <3>1. faults' = faults + 1
        BY <1>3, <2>3, FaultCounts DEF Publish, FileTypes
      <3> QED BY <1>0, <2>1, <2>2, <3>1
    <2>4. CASE ~ (release = 0 /\ offer # 0)
      <3>1. faults' = faults
        BY <1>3, <2>4 DEF Publish
      <3> QED BY <2>1, <2>2, <2>4, <3>1
    <2> QED BY <2>3, <2>4
  <1>4. ASSUME NEW s \in Schedules, Schedule(s) PROVE FaultsAreCounted'
    BY <1>4 DEF Schedule, server, queue, files, daemon, rest, PassFailed
  <1>5. CASE TakeTask \/ TaskDone \/ WaitEnds \/ Poll \/ Refresh \/ Start
    BY <1>5 DEF TakeTask, TaskDone, WaitEnds, Poll, Refresh, Start, server,
       queue, files, daemon, rest, PassFailed, PassIsFormed
  <1>10. CASE BeginApply
    <2>1. UNCHANGED <<failures, faults, offered>> /\ offer' = offered /\ pc' = "applying" /\ after' = "none"
      BY <1>10 DEF BeginApply, Fetch, PassIsFormed, server
    <2>2. ~ PassFailed'
      BY <2>1 DEF PassFailed
    <2> QED BY <2>1, <2>2
  <1>6. ASSUME NEW ok \in BOOLEAN, EndApply(ok) PROVE FaultsAreCounted'
    <2>1. failures' = failures /\ clean' = ok /\ after' = "report" /\ pc' = "tasks" /\ offer' = 0
      BY <1>6 DEF EndApply
    <2>2. CASE ok
      <3>1. faults' = faults /\ ~ PassFailed'
        BY <1>6, <2>1, <2>2 DEF EndApply, PassFailed
      <3> QED BY <2>1, <3>1
    <2>3. CASE WantsUpdate /\ offered = 0
      <3>1. offer # 0 /\ faults' = faults
        BY <1>6, <2>3 DEF EndApply, WantsUpdate
      <3> QED BY <2>1, <2>3, <3>1
    <2>4. CASE ~ ok /\ ~ (WantsUpdate /\ offered = 0)
      <3>1. faults' = faults + 1
        BY <1>6, <2>4, FaultCounts DEF EndApply, FileTypes
      <3> QED BY <1>0, <2>1, <3>1
    <2> QED BY <2>2, <2>3, <2>4
  <1>7. CASE NoTask
    <2>1. pc' = after /\ after' = "none" /\ UNCHANGED <<clean, failures, offer, offered>>
      BY <1>7 DEF NoTask, server, queue, files, daemon, rest
    <2>2. PassFailed' => PassFailed
      BY <2>1 DEF PassFailed
    <2>3. faults' = faults \/ faults' = faults + 1
      BY <1>7, FaultCounts DEF NoTask, FileTypes
    <2> QED BY <1>0, <2>1, <2>2, <2>3
  <1>8. CASE PassOver
    <2>1. (pc = "unchanged" /\ EndPass(TRUE)) \/ (pc = "failed" /\ EndPass(FALSE))
      BY <1>8 DEF PassOver
    <2>2. pc' = "waiting" /\ (failures' = 0 \/ (pc = "failed" /\ failures' = failures + 1))
      BY <2>1, PassEnds
    <2>3. failures' <= faults
      BY <1>0, <2>1, <2>2 DEF PassFailed
    <2>4. after' = "none" /\ offer' = 0 /\ faults' = faults
      BY <1>8 DEF PassOver, PassIsFormed, server, queue, files, daemon, rest
    <2>5. ~ PassFailed'
      BY <2>2, <2>4 DEF PassFailed
    <2> QED BY <1>0, <2>1, <2>2, <2>3, <2>4, <2>5
  <1>9. CASE Report
    <2>1. pc = "report" /\ ((clean = TRUE /\ EndPass(TRUE)) \/ (clean = FALSE /\ EndPass(FALSE)))
      BY <1>9 DEF Report, DaemonTypes
    <2>2. pc' = "waiting" /\ (failures' = 0 \/ (clean = FALSE /\ failures' = failures + 1))
      BY <2>1, PassEnds
    <2>3. failures' <= faults
      BY <1>0, <2>1, <2>2 DEF PassFailed
    <2>4. after' = "none" /\ offer' = 0 /\ faults' = faults
      BY <1>9 DEF Report, PassIsFormed, server, queue, files, daemon, rest
    <2>5. ~ PassFailed'
      BY <2>2, <2>4 DEF PassFailed
    <2> QED BY <1>0, <2>1, <2>2, <2>3, <2>4, <2>5
  <1>11. CASE CannotStart
    <2>1. EndPass(FALSE) /\ faults' = faults + 1
      BY <1>11, FaultCounts DEF CannotStart, FileTypes
    <2>2. failures' = failures + 1 /\ pc' = "waiting"
      BY <2>1, PassEnds
    <2>3. after' = "none" /\ offer' = 0
      BY <1>11 DEF CannotStart, PassIsFormed, server, queue, files, daemon, rest
    <2>4. ~ PassFailed'
      BY <2>2, <2>3 DEF PassFailed
    <2> QED BY <1>0, <2>1, <2>2, <2>3, <2>4
  <1>12. CASE FetchFails
    <2>1. faults' = faults + 1
      BY <1>12, FaultCounts DEF FetchFails, FileTypes
    <2>2. UNCHANGED <<failures, offer, offered>>
      BY <1>12 DEF FetchFails, server, queue, files, daemon, rest
    <2> QED BY <1>0, <2>1, <2>2
  <1>13. CASE ReportFails
    <2>1. EndPass(FALSE) /\ faults' = faults + 1
      BY <1>13, FaultCounts DEF ReportFails, FileTypes
    <2>2. failures' = failures + 1 /\ pc' = "waiting"
      BY <2>1, PassEnds
    <2>3. after' = "none" /\ offer' = 0
      BY <1>13 DEF ReportFails, PassIsFormed, server, queue, files, daemon, rest
    <2>4. ~ PassFailed'
      BY <2>2, <2>3 DEF PassFailed
    <2> QED BY <1>0, <2>1, <2>2, <2>3, <2>4
  <1>14. CASE Crash
    <2>1. faults' = faults + 1 /\ offer' = 0
      BY <1>14, FaultCounts DEF Crash, Dies, FileTypes
    <2>2. failures' = 0 /\ after' = "none" /\ pc' = "down"
      BY <1>14 DEF Crash, Dies
    <2>4. ~ PassFailed'
      BY <2>2 DEF PassFailed
    <2> QED BY <1>0, <2>1, <2>2, <2>4
  <1>15. CASE Restart
    <2>1. faults' = faults /\ offer' = 0
      BY <1>15 DEF Restart, Dies
    <2>2. failures' = 0 /\ after' = "none" /\ pc' = "start"
      BY <1>15 DEF Restart, Runs, Dies
    <2>4. ~ PassFailed'
      BY <2>2 DEF PassFailed
    <2> QED BY <1>0, <2>1, <2>2, <2>4
  <1>16. CASE UNCHANGED vars
    BY <1>16 DEF vars, server, queue, files, daemon, rest, PassFailed
  <1> QED BY <1>1, <1>2, <1>3, <1>4, <1>5, <1>6, <1>7, <1>8, <1>9, <1>10, <1>11,
       <1>12, <1>13, <1>14, <1>15, <1>16 DEF Next, Step

\* What a step does to the tasks.
LEMMA TasksMove ==
  ASSUME ServerTypes, DaemonTypes, PassIsFormed, TasksAreFew,
         /\ UNCHANGED <<pending, stuck, holding>> \/ (pending' = pending - 1 /\ ~ holding /\ holding' /\ stuck' = stuck)
            \/ (holding' = FALSE /\ pending' = pending /\ stuck' \in {stuck, IF holding THEN stuck + 1 ELSE stuck})
            \/ (UNCHANGED <<pending, holding>> /\ stuck' = stuck - 1),
         pushing' = pushing, holding' \in BOOLEAN
  PROVE  TasksAreFew'
  <1>1. pending \in Nat /\ stuck \in Nat /\ MaxQueued \in Nat /\ holding \in BOOLEAN
    BY NumberAssumption DEF NumberAssumption, ServerTypes, DaemonTypes
  <1> QED BY <1>1 DEF TasksAreFew, Queued, Coming

LEMMA StepFew ==
  ASSUME ServerTypes, DaemonTypes, PassIsFormed, TasksAreFew, [Next]_vars PROVE TasksAreFew'
  <1>0. pending \in Nat /\ stuck \in Nat /\ MaxQueued \in Nat /\ holding \in BOOLEAN
    BY NumberAssumption DEF NumberAssumption, ServerTypes, DaemonTypes
  <1>1. ASSUME NEW d \in Doc, Edit(d) PROVE TasksAreFew'
    <2>1. pushing = "no" /\ pushing' = "look" /\ UNCHANGED <<pending, stuck, holding>>
      BY <1>1 DEF Edit, queue, daemon
    <2> QED BY <2>1 DEF TasksAreFew, Queued, Coming
  <1>2. CASE PushLook
    <2>1. UNCHANGED <<pending, stuck, holding>> /\ (pushing' = "no" \/ Queued = 0)
      BY <1>2 DEF PushLook, queue, daemon
    <2>2. Queued' = Queued
      BY <2>1 DEF Queued
    <2>3. Queued \in Nat /\ pushing = "look"
      BY <1>0, <1>2 DEF Queued, PushLook
    <2> QED BY <1>0, <2>1, <2>2, <2>3 DEF TasksAreFew, Coming
  <1>3. CASE PushQueue
    <2>1. pushing = "queue" /\ pushing' = "no" /\ pending' = pending + 1 /\ UNCHANGED <<stuck, holding>>
      BY <1>3 DEF PushQueue, daemon
    <2> QED BY <1>0, <2>1 DEF TasksAreFew, Queued, Coming
  <1>4. CASE Ask
    <2>1. Queued + Coming < MaxQueued /\ pending' = pending + 1 /\ UNCHANGED <<pushing, stuck, holding>>
      BY <1>4 DEF Ask, server, daemon
    <2> QED BY <1>0, <2>1 DEF TasksAreFew, Queued, Coming
  <1>5. CASE Reap \/ Skip \/ BeginApply \/ NoTask \/ PassOver \/ Report \/ WaitEnds \/ Start
    BY <1>0, <1>5, TasksMove DEF Reap, Skip, BeginApply, NoTask, PassOver, Report, WaitEnds, Start,
       server, queue, daemon
  <1>6. CASE CannotStart \/ FetchFails \/ ReportFails
    BY <1>0, <1>6, TasksMove DEF CannotStart, FetchFails, ReportFails, server, queue
  <1>7. ASSUME NEW s \in Schedules, Schedule(s) PROVE TasksAreFew'
    BY <1>0, <1>7, TasksMove DEF Schedule, queue, daemon
  <1>8. ASSUME NEW release \in 0 .. MaxVersion, Publish(release) PROVE TasksAreFew'
    BY <1>0, <1>8, TasksMove DEF Publish, queue, daemon
  <1>9. ASSUME NEW ok \in BOOLEAN, EndApply(ok) PROVE TasksAreFew'
    BY <1>0, <1>9, TasksMove DEF EndApply, server, queue
  <1>10. CASE TakeTask \/ Poll
    <2>1. pending' = pending - 1 /\ ~ holding /\ holding' = TRUE /\ UNCHANGED <<stuck, pushing>>
      BY <1>10 DEF TakeTask, Poll, PassIsFormed, server
    <2> QED BY <2>1, TasksMove
  <1>11. CASE TaskDone \/ Refresh
    <2>1. holding' = FALSE /\ UNCHANGED <<pending, stuck, pushing>>
      BY <1>11 DEF TaskDone, Refresh, server, queue
    <2> QED BY <2>1, TasksMove
  <1>12. CASE Crash \/ Restart
    <2>1. /\ holding' = FALSE /\ UNCHANGED <<pending, pushing>>
          /\ stuck' = IF holding THEN stuck + 1 ELSE stuck
      BY <1>12 DEF Crash, Restart, Dies, server
    <2> QED BY <2>1, TasksMove
  <1>13. CASE UNCHANGED vars
    BY <1>0, <1>13, TasksMove DEF vars, server, queue
  <1> QED BY <1>1, <1>2, <1>3, <1>4, <1>5, <1>6, <1>7, <1>8, <1>9, <1>10, <1>11, <1>12, <1>13
          DEF Next, Step

-----------------------------------------------------------------------------
(* The wait.                                                               *)

LEMMA StepSettled ==
  ASSUME ServerTypes, DaemonTypes, PassIsFormed, WaitIsSettled, [Next]_vars
  PROVE  WaitIsSettled'
  <1> USE DEF WaitIsSettled
  <1>1. ASSUME NEW d \in Doc, Edit(d) PROVE WaitIsSettled'
    BY <1>1 DEF Edit, server, queue, files, daemon, rest
  <1>2. CASE PushLook \/ PushQueue \/ Ask \/ Reap
    BY <1>2 DEF PushLook, PushQueue, Ask, Reap, server, queue, files,
       daemon, rest
  <1>3. ASSUME NEW s \in Schedules, Schedule(s) PROVE WaitIsSettled'
    BY <1>3 DEF Schedule, server, queue, files, daemon, rest
  <1>4. CASE BeginApply \/ Skip
    <2>1. schedule.minutes \in {1, 5, 15, 30}
      BY NumberAssumption DEF NumberAssumption, ServerTypes
    <2>2. SensibleRefresh(schedule.minutes) = schedule.minutes
      BY <2>1, SensibleBounds
    <2>3. told' = schedule.minutes /\ minutes' = schedule.minutes
      BY <1>4, <2>1, <2>2 DEF BeginApply, Skip, Fetch
    <2>4. pc' # "waiting"
      BY <1>4 DEF BeginApply, Skip
    <2> QED BY <2>1, <2>3, <2>4
  <1>5. CASE TakeTask \/ WaitEnds \/ Poll \/ Refresh \/ Start
    BY <1>5 DEF TakeTask, WaitEnds, Poll, Refresh, Start, server, queue,
       files, daemon, rest
  <1>6. ASSUME NEW ok \in BOOLEAN, EndApply(ok) PROVE WaitIsSettled'
    BY <1>6 DEF EndApply, Fault, server, queue, files, daemon, rest
  <1>7. CASE NoTask
    <2>1. pc \in {"tasks", "tasking"} /\ pc' = after /\ UNCHANGED <<wait, failures, minutes, told>>
      BY <1>7 DEF NoTask, daemon, rest, files
    <2>2. after \in {"unchanged", "failed", "report"}
      BY <2>1 DEF DaemonTypes, PassIsFormed
    <2> QED BY <2>1, <2>2
  <1>8. CASE TaskDone
    <2>1. pc \in {"tasks", "tasking"} /\ pc' = after /\ UNCHANGED <<wait, failures, minutes, told>>
      BY <1>8 DEF TaskDone, daemon, rest, files
    <2>2. after \in {"unchanged", "failed", "report"}
      BY <2>1 DEF DaemonTypes, PassIsFormed
    <2> QED BY <2>1, <2>2
  <1>9. CASE PassOver
    <2>1. EndPass(TRUE) \/ EndPass(FALSE)
      BY <1>9 DEF PassOver
    <2>2. wait' = AfterFailures(RefreshInterval(minutes), failures')
      BY <2>1, PassEnds
    <2>3. UNCHANGED <<minutes, told>>
      BY <1>9 DEF PassOver, server, queue, files, daemon, rest
    <2> QED BY <2>2, <2>3
  <1>10. CASE Report
    <2>1. EndPass(TRUE) \/ EndPass(FALSE)
      BY <1>10 DEF Report, DaemonTypes
    <2>2. wait' = AfterFailures(RefreshInterval(minutes), failures')
      BY <2>1, PassEnds
    <2>3. UNCHANGED <<minutes, told>>
      BY <1>10 DEF Report, server, queue, files, daemon, rest
    <2> QED BY <2>2, <2>3
  <1>11. CASE CannotStart
    <2>1. EndPass(FALSE)
      BY <1>11 DEF CannotStart
    <2>2. wait' = AfterFailures(RefreshInterval(minutes), failures')
      BY <2>1, PassEnds
    <2>3. UNCHANGED <<minutes, told>>
      BY <1>11 DEF CannotStart, server, queue, files, daemon, rest
    <2> QED BY <2>2, <2>3
  <1>12. CASE FetchFails
    BY <1>12 DEF FetchFails, Fault, server, queue, files, daemon, rest
  <1>13. CASE ReportFails
    <2>1. EndPass(FALSE)
      BY <1>13 DEF ReportFails
    <2>2. wait' = AfterFailures(RefreshInterval(minutes), failures')
      BY <2>1, PassEnds
    <2>3. UNCHANGED <<minutes, told>>
      BY <1>13 DEF ReportFails, server, queue, files, daemon, rest
    <2> QED BY <2>2, <2>3
  <1>14. CASE Crash
    BY <1>14 DEF Crash, Fault, Dies, server, queue, files, daemon, rest
  <1>15. CASE Restart
    BY <1>15 DEF Restart, Runs, Dies, server, queue, files, daemon, rest
  <1>16. CASE UNCHANGED vars
    BY <1>16 DEF vars, server, queue, files, daemon, rest
  <1>50. ASSUME NEW release \in 0 .. MaxVersion, Publish(release) PROVE WaitIsSettled'
    BY <1>50 DEF Publish, Fault, server, queue, files, daemon, rest
  <1> QED BY <1>50, <1>1, <1>2, <1>3, <1>4, <1>5, <1>6, <1>7, <1>8, <1>9, <1>10, <1>11,
       <1>12, <1>13, <1>14, <1>15, <1>16 DEF Next, Step

\* What is settled is in range.
LEMMA SettledMeansBounded ==
  ASSUME DaemonTypes, WaitIsSettled
  PROVE  /\ minutes \in 0 .. MaxRefreshMinutes /\ told \in Int
         /\ WaitIsTheDomains
         /\ pc = "waiting" => wait \in 0 .. 2 * MaxRefreshMinutes
  <1>1. minutes \in 0 .. MaxRefreshMinutes /\ told \in Int
    BY DEF WaitIsSettled, MaxRefreshMinutes
  <1>2. RefreshInterval(told) \in Nat \ {0} /\ RefreshInterval(told) <= 2 * MaxRefreshMinutes
    BY <1>1, IntervalBounds
  <1>3. failures \in Nat
    BY DEF DaemonTypes
  <1>4. /\ AfterFailures(RefreshInterval(told), failures) \in RetryFloor .. RefreshInterval(told)
        /\ failures = 0 => AfterFailures(RefreshInterval(told), failures) = RefreshInterval(told)
    BY <1>2, <1>3, BackoffBounds
  <1>5. pc = "waiting" => wait = AfterFailures(RefreshInterval(told), failures)
    BY DEF WaitIsSettled
  <1>6. WaitIsTheDomains
    BY <1>4, <1>5 DEF WaitIsTheDomains
  <1>7. pc = "waiting" => wait \in 0 .. 2 * MaxRefreshMinutes
    <2> DEFINE usual == RefreshInterval(told)
               waited == AfterFailures(usual, failures)
    <2>1. usual \in Nat /\ usual <= 2 * MaxRefreshMinutes /\ waited \in 1 .. usual
      BY <1>2, <1>4 DEF RetryFloor
    <2> HIDE DEF usual, waited
    <2>2. waited \in 0 .. 2 * MaxRefreshMinutes
      BY <2>1 DEF MaxRefreshMinutes
    <2> QED BY <1>5, <2>2 DEF usual, waited
  <1> QED BY <1>1, <1>6, <1>7

LEMMA PassWaits ==
  ASSUME DaemonTypes, WaitIsSettled, NEW ok \in BOOLEAN, EndPass(ok)
  PROVE  wait' \in 0 .. 2 * MaxRefreshMinutes
  <1> DEFINE usual == RefreshInterval(minutes)
             waited == AfterFailures(usual, failures')
  <1>1. wait' = waited /\ failures' \in Nat
    BY PassEnds
  <1>2. minutes \in Int
    BY DEF WaitIsSettled
  <1>3. usual \in Nat \ {0} /\ usual <= 2 * MaxRefreshMinutes
    BY <1>2, IntervalBounds
  <1>4. waited \in 1 .. usual
    BY <1>1, <1>3, BackoffBounds DEF RetryFloor
  <1> HIDE DEF usual, waited
  <1>5. waited \in 0 .. 2 * MaxRefreshMinutes
    BY <1>3, <1>4 DEF MaxRefreshMinutes
  <1> QED BY <1>1, <1>5

LEMMA StepWaitType ==
  ASSUME DaemonTypes, WaitIsSettled, wait \in WaitRange, [Next]_vars
  PROVE  wait' \in WaitRange
  <1>0. 0 \in WaitRange
    BY DEF WaitRange, MaxRefreshMinutes
  <1>1. ASSUME NEW d \in Doc, Edit(d) PROVE wait' \in WaitRange
    BY <1>0, <1>1 DEF Edit, server, queue, files, daemon, rest
  <1>2. CASE PushLook \/ PushQueue \/ Ask \/ Reap
    BY <1>0, <1>2 DEF PushLook, PushQueue, Ask, Reap, server, queue,
       files, daemon, rest
  <1>3. ASSUME NEW s \in Schedules, Schedule(s) PROVE wait' \in WaitRange
    BY <1>0, <1>3 DEF Schedule, server, queue, files, daemon, rest
  <1>4. CASE Skip \/ BeginApply \/ TakeTask \/ NoTask \/ TaskDone \/ WaitEnds
    BY <1>0, <1>4 DEF Skip, Fetch, BeginApply, TakeTask, NoTask, Fault, TaskDone, WaitEnds,
       server, queue, files, daemon, rest
  <1>5. ASSUME NEW ok \in BOOLEAN, EndApply(ok) PROVE wait' \in WaitRange
    BY <1>0, <1>5 DEF EndApply, Fault, server, queue, files, daemon, rest
  <1>6. CASE PassOver
    <2>1. EndPass(TRUE) \/ EndPass(FALSE)
      BY <1>6 DEF PassOver
    <2>2. wait' \in WaitRange
      BY <2>1, PassWaits DEF WaitRange
    <2> QED BY <2>2
  <1>7. CASE Report
    <2>1. EndPass(TRUE) \/ EndPass(FALSE)
      BY <1>7 DEF Report, DaemonTypes
    <2>2. wait' \in WaitRange
      BY <2>1, PassWaits DEF WaitRange
    <2> QED BY <2>2
  <1>8. CASE Poll \/ Refresh \/ Start \/ FetchFails
    BY <1>0, <1>8 DEF Poll, Refresh, Start, Runs, FetchFails, Fault, server, queue, files,
       daemon, rest
  <1>9. CASE CannotStart
    <2>1. EndPass(TRUE) \/ EndPass(FALSE)
      BY <1>9 DEF CannotStart
    <2>2. wait' \in WaitRange
      BY <2>1, PassWaits DEF WaitRange
    <2> QED BY <2>2
  <1>10. CASE ReportFails
    <2>1. EndPass(TRUE) \/ EndPass(FALSE)
      BY <1>10 DEF ReportFails
    <2>2. wait' \in WaitRange
      BY <2>1, PassWaits DEF WaitRange
    <2> QED BY <2>2
  <1>11. CASE Crash
    BY <1>0, <1>11 DEF Crash, Fault, Dies, server, queue, files, daemon, rest
  <1>12. CASE Restart
    BY <1>0, <1>12 DEF Restart, Runs, Dies, server, queue, files, daemon, rest
  <1>13. CASE UNCHANGED vars
    BY <1>0, <1>13 DEF vars, server, queue, files, daemon, rest
  <1>50. ASSUME NEW release \in 0 .. MaxVersion, Publish(release) PROVE wait' \in WaitRange
    BY <1>50 DEF Publish, Fault, server, queue, files, daemon, rest
  <1> QED BY <1>50, <1>1, <1>2, <1>3, <1>4, <1>5, <1>6, <1>7, <1>8, <1>9, <1>10, <1>11,
       <1>12, <1>13 DEF Next, Step

-----------------------------------------------------------------------------
(* What the agent remembers.                                               *)

\* A record of this release is of a policy.
LEMMA Recorded ==
  ASSUME FileTypes, RecordIsFormed, saved.by = version
  PROVE  saved.doc \in Doc /\ saved.doc # "none" /\ saved = [doc |-> saved.doc, by |-> version]
  <1>1. version # 0
    BY NumberAssumption DEF NumberAssumption, FileTypes
  <1>2. saved # NoSaved
    BY <1>1 DEF NoSaved
  <1>3. saved = [doc |-> saved.doc, by |-> saved.by]
    BY DEF FileTypes, State
  <1> QED BY <1>2, <1>3, DocAssumption DEF DocAssumption, RecordIsFormed

LEMMA StepApplyTrue ==
  ASSUME ServerTypes, DaemonTypes, FileTypes, RecordIsFormed, PassIsFormed, ApplyIsTrue, [Next]_vars
  PROVE  ApplyIsTrue'
  <1> USE DEF ApplyIsTrue
  <1>1. ASSUME NEW d \in Doc, Edit(d) PROVE ApplyIsTrue'
    BY <1>1 DEF Edit, server, queue, files, daemon, rest
  <1>2. CASE PushLook \/ PushQueue \/ Ask \/ Reap \/ Skip
    BY <1>2 DEF PushLook, PushQueue, Ask, Reap, Skip, Fetch, server, queue, files,
       daemon, rest
  <1>3. ASSUME NEW s \in Schedules, Schedule(s) PROVE ApplyIsTrue'
    BY <1>3 DEF Schedule, server, queue, files, daemon, rest
  <1>5. CASE BeginApply
    <2>1. after' = "none" /\ pc' = "applying" /\ inForce' = Mixed
      BY <1>5 DEF BeginApply, Fetch, PassIsFormed, server, queue, files, daemon, rest
    <2> QED BY <2>1
  <1>6. ASSUME NEW ok \in BOOLEAN, EndApply(ok) PROVE ApplyIsTrue'
    BY <1>6 DEF EndApply, Fault, server, queue, files, daemon, rest
  <1>7. CASE TakeTask \/ PassOver \/ Report \/ WaitEnds \/ Poll \/ Refresh
    BY <1>7 DEF TakeTask, PassOver, EndPass, Report, WaitEnds, Poll, Refresh,
       server, queue, files, daemon, rest
  <1>8. CASE NoTask
    <2>1. pc' = after /\ after \in {"unchanged", "failed", "report"} /\ after' = "none"
      BY <1>8 DEF NoTask, PassIsFormed, DaemonTypes
    <2>2. UNCHANGED <<clean, inForce, doc, version>>
      BY <1>8 DEF NoTask, server, queue, files, daemon, rest
    <2> QED BY <2>1, <2>2
  <1>9. CASE TaskDone
    <2>1. pc' = after /\ after \in {"unchanged", "failed", "report"} /\ after' = "none"
      BY <1>9 DEF TaskDone, PassIsFormed, DaemonTypes
    <2>2. UNCHANGED <<clean, inForce, doc, version>>
      BY <1>9 DEF TaskDone, server, queue, files, daemon, rest
    <2> QED BY <2>1, <2>2
  <1>10. CASE Start
    <2>1. after' = "none" /\ pc' \notin {"applying", "report"}
      BY <1>10 DEF Start, Runs, PassIsFormed, server, queue, files, daemon, rest
    <2> QED BY <2>1
  <1>11. CASE CannotStart \/ FetchFails \/ ReportFails
    BY <1>11 DEF CannotStart, Fault, EndPass, FetchFails, ReportFails, server,
       queue, files, daemon, rest
  <1>12. CASE Crash
    BY <1>12 DEF Crash, Fault, Dies, server, queue, files, daemon, rest
  <1>13. CASE Restart
    BY <1>13 DEF Restart, Runs, Dies, server, queue, files, daemon, rest
  <1>14. CASE UNCHANGED vars
    BY <1>14 DEF vars, server, queue, files, daemon, rest
  <1>50. ASSUME NEW release \in 0 .. MaxVersion, Publish(release) PROVE ApplyIsTrue'
    BY <1>50 DEF Publish, Fault, server, queue, files, daemon, rest
  <1> QED BY <1>50, <1>1, <1>2, <1>3, <1>5, <1>6, <1>7, <1>8, <1>9, <1>10, <1>11,
       <1>12, <1>13, <1>14 DEF Next, Step

LEMMA StepRecordTrue ==
  ASSUME ServerTypes, DaemonTypes, FileTypes, RecordIsFormed, PassIsFormed, ApplyIsTrue,
         RecordIsTrue, [Next]_vars
  PROVE  again' \/ RecordIsTrue'
  <1> USE DEF RecordIsTrue, Waits
  <1>0. UNCHANGED <<saved, version, inForce, offered, policy>> => RecordIsTrue'
    OBVIOUS
  <1>1. ASSUME NEW d \in Doc, Edit(d) PROVE again' \/ RecordIsTrue'
    <2>1. d = saved.doc => again'
      BY <1>1 DEF Edit
    <2>2. policy' = d /\ UNCHANGED <<saved, version, inForce, offered>>
      BY <1>1 DEF Edit, files
    <2> QED BY <2>1, <2>2
  <1>2. CASE PushLook \/ PushQueue \/ Ask \/ Reap \/ Skip
    BY <1>0, <1>2 DEF PushLook, PushQueue, Ask, Reap, Skip, server, files, rest
  <1>3. ASSUME NEW release \in 0 .. MaxVersion, Publish(release) PROVE again' \/ RecordIsTrue'
    <2>1. UNCHANGED <<saved, version, inForce, policy>> /\ offered' = release
      BY <1>3 DEF Publish, files
    <2>2. saved.doc # "none" /\ Waits(saved.doc, offered) /\ ~ Waits(saved.doc, release) => again'
      BY <1>3 DEF Publish
    <2>3. saved.by = version => saved.doc # "none"
      BY Recorded
    <2> QED BY <2>1, <2>2, <2>3
  <1>4. ASSUME NEW s \in Schedules, Schedule(s) PROVE RecordIsTrue'
    BY <1>0, <1>4 DEF Schedule, files, rest
  <1>5. CASE BeginApply
    <2>1. UNCHANGED <<saved, version, offered, policy>>
      BY <1>5 DEF BeginApply, server
    <2>2. saved.by = version => LastSerial = saved.doc
      BY DEF LastSerial
    <2>3. saved.by = version => again' \/ policy # saved.doc \/ Waits(policy, offered)
      BY <1>5, <2>2 DEF BeginApply, Unchanged
    <2> QED BY <2>1, <2>3
  <1>6. ASSUME NEW ok \in BOOLEAN, EndApply(ok) PROVE RecordIsTrue'
    <2>1. UNCHANGED <<saved, version, offered, policy>>
      BY <1>6 DEF EndApply, server
    <2>2. inForce = Mixed
      BY <1>6 DEF EndApply, ApplyIsTrue
    <2>3. saved.by = version => inForce # saved
      <3>1. version # 0
        BY NumberAssumption DEF NumberAssumption, FileTypes
      <3> QED BY <2>2, <3>1 DEF Mixed
    <2> QED BY <2>1, <2>3
  <1>7. CASE TakeTask \/ NoTask \/ TaskDone \/ PassOver \/ WaitEnds \/ Poll \/ Refresh
    BY <1>0, <1>7 DEF TakeTask, NoTask, TaskDone, PassOver, WaitEnds, Poll, Refresh, server, files, rest
  <1>8. CASE CannotStart \/ FetchFails \/ ReportFails
    BY <1>0, <1>8 DEF CannotStart, FetchFails, ReportFails, server, files, rest
  <1>9. CASE Report
    <2>1. UNCHANGED <<version, inForce, offered, policy>>
      BY <1>9 DEF Report, server
    <2>2. saved' = saved \/ (clean /\ saved' = [doc |-> doc, by |-> version])
      BY <1>9 DEF Report
    <2>3. clean => inForce = [doc |-> doc, by |-> version]
      BY <1>9 DEF Report, ApplyIsTrue
    <2> QED BY <2>1, <2>2, <2>3
  <1>10. CASE Start \/ Restart
    <2>1. version' = installed /\ UNCHANGED <<saved, inForce, offered, policy>>
      BY <1>10 DEF Start, Restart, Runs, Dies, server, files
    <2>2. version' # version /\ saved.by = version' => again'
      BY <1>10, <2>1 DEF Start, Restart, Runs
    <2> QED BY <2>1, <2>2
  <1>11. CASE Crash
    BY <1>0, <1>11 DEF Crash, Dies, server
  <1>12. CASE UNCHANGED vars
    BY <1>0, <1>12 DEF vars, server, files
  <1> QED BY <1>1, <1>2, <1>3, <1>4, <1>5, <1>6, <1>7, <1>8, <1>9, <1>10, <1>11, <1>12
          DEF Next, Step

\* A clean report leaves a true record, whatever was met before.
LEMMA ReportRecords ==
  ASSUME PassIsFormed, ApplyIsTrue, again, [Next]_vars
  PROVE  again' \/ (RecordIsTrue' /\ SkipIsTrue')
  <1>1. CASE Report
    <2>1. version' = version /\ inForce' = inForce /\ after' = "none"
      BY <1>1 DEF Report, PassIsFormed
    <2>2. ~ again' => saved' = [doc |-> doc, by |-> version] /\ inForce = [doc |-> doc, by |-> version]
      BY <1>1 DEF Report, ApplyIsTrue
    <2> QED BY <2>1, <2>2 DEF RecordIsTrue, SkipIsTrue
  <1>2. ASSUME NEW d \in Doc, Edit(d) PROVE again'
    BY <1>2 DEF Edit
  <1>3. CASE PushLook \/ PushQueue \/ Ask \/ Reap \/ Skip \/ BeginApply
    BY <1>3 DEF PushLook, PushQueue, Ask, Reap, Skip, BeginApply, rest
  <1>4. ASSUME NEW s \in Schedules, Schedule(s) PROVE again'
    BY <1>4 DEF Schedule, rest
  <1>5. ASSUME NEW release \in 0 .. MaxVersion, Publish(release) PROVE again'
    BY <1>5 DEF Publish
  <1>6. ASSUME NEW ok \in BOOLEAN, EndApply(ok) PROVE again'
    BY <1>6 DEF EndApply
  <1>7. CASE TakeTask \/ NoTask \/ TaskDone \/ PassOver \/ WaitEnds \/ Poll \/ Refresh
    BY <1>7 DEF TakeTask, NoTask, TaskDone, PassOver, WaitEnds, Poll, Refresh, rest
  <1>8. CASE CannotStart \/ FetchFails \/ ReportFails \/ Start \/ Crash \/ Restart
    BY <1>8 DEF CannotStart, FetchFails, ReportFails, Start, Crash, Restart, Runs, rest
  <1>9. CASE UNCHANGED vars
    BY <1>9 DEF vars
  <1> QED BY <1>1, <1>2, <1>3, <1>4, <1>5, <1>6, <1>7, <1>8, <1>9 DEF Next, Step

LEMMA StepSkipTrue ==
  ASSUME ServerTypes, DaemonTypes, FileTypes, RecordIsFormed, PassIsFormed,
         RecordIsTrue, SkipIsTrue, [Next]_vars
  PROVE  SkipIsTrue'
  <1> USE DEF SkipIsTrue
  <1>1. ASSUME NEW d \in Doc, Edit(d) PROVE SkipIsTrue'
    BY <1>1 DEF Edit, server, queue, files, daemon, rest
  <1>2. CASE PushLook \/ PushQueue \/ Ask \/ Reap \/ TakeTask
    BY <1>2 DEF PushLook, PushQueue, Ask, Reap, TakeTask, server, queue,
       files, daemon, rest
  <1>3. ASSUME NEW s \in Schedules, Schedule(s) PROVE SkipIsTrue'
    BY <1>3 DEF Schedule, server, queue, files, daemon, rest
  <1>5. CASE Skip
    <2>1. UNCHANGED <<inForce, version>> /\ doc' = policy /\ policy = LastSerial /\ ~ Waits(policy, offered)
      BY <1>5 DEF Skip, Unchanged, Fetch
    <2>2. policy # "none"
      BY DocAssumption DEF DocAssumption, ServerTypes
    <2>3. saved.by = version /\ saved.doc = policy
      BY <2>1, <2>2 DEF LastSerial
    <2>4. inForce = saved /\ saved = [doc |-> policy, by |-> version]
      BY <2>1, <2>3, Recorded DEF RecordIsTrue
    <2> QED BY <2>1, <2>4
  <1>6. CASE BeginApply
    <2>1. after' = "none"
      BY <1>6 DEF BeginApply, Fetch, PassIsFormed, server, queue, files, daemon, rest
    <2> QED BY <2>1
  <1>7. ASSUME NEW ok \in BOOLEAN, EndApply(ok) PROVE SkipIsTrue'
    BY <1>7 DEF EndApply, Fault, server, queue, files, daemon, rest
  <1>8. CASE NoTask \/ TaskDone \/ WaitEnds \/ Poll \/ Refresh \/ FetchFails
    BY <1>8 DEF NoTask, Fault, TaskDone, WaitEnds, Poll, Refresh, FetchFails,
       server, queue, files, daemon, rest
  <1>9. CASE PassOver
    <2>1. after' = "none"
      BY <1>9 DEF PassOver, PassIsFormed, server, queue, files, daemon, rest
    <2> QED BY <2>1
  <1>10. CASE Report
    <2>1. after' = "none"
      BY <1>10 DEF Report, PassIsFormed, server, queue, files, daemon, rest
    <2> QED BY <2>1
  <1>11. CASE Start
    <2>1. after' = "none"
      BY <1>11 DEF Start, Runs, PassIsFormed, server, queue, files, daemon, rest
    <2> QED BY <2>1
  <1>12. CASE CannotStart
    <2>1. after' = "none"
      BY <1>12 DEF CannotStart, PassIsFormed, server, queue, files, daemon, rest
    <2> QED BY <2>1
  <1>13. CASE ReportFails
    <2>1. after' = "none"
      BY <1>13 DEF ReportFails, PassIsFormed, server, queue, files, daemon, rest
    <2> QED BY <2>1
  <1>14. CASE Crash
    BY <1>14 DEF Crash, Fault, Dies, server, queue, files, daemon, rest
  <1>15. CASE Restart
    BY <1>15 DEF Restart, Runs, Dies, server, queue, files, daemon, rest
  <1>16. CASE UNCHANGED vars
    BY <1>16 DEF vars, server, queue, files, daemon, rest
  <1>50. ASSUME NEW release \in 0 .. MaxVersion, Publish(release) PROVE SkipIsTrue'
    BY <1>50 DEF Publish, Fault, server, queue, files, daemon, rest
  <1> QED BY <1>50, <1>1, <1>2, <1>3, <1>5, <1>6, <1>7, <1>8, <1>9, <1>10, <1>11,
       <1>12, <1>13, <1>14, <1>15, <1>16 DEF Next, Step

LEMMA StepMemory ==
  ASSUME ServerTypes, DaemonTypes, FileTypes, RecordIsFormed, PassIsFormed, MemoryIsTrue, [Next]_vars
  PROVE  MemoryIsTrue'
  <1>1. ApplyIsTrue /\ ApplyIsTrue'
    BY StepApplyTrue DEF MemoryIsTrue
  <1>2. CASE again
    BY <1>1, <1>2, ReportRecords DEF MemoryIsTrue
  <1>3. CASE ~ again
    <2>1. RecordIsTrue /\ SkipIsTrue
      BY <1>3 DEF MemoryIsTrue
    <2>2. (again' \/ RecordIsTrue') /\ SkipIsTrue'
      BY <1>1, <2>1, StepRecordTrue, StepSkipTrue
    <2> QED BY <1>1, <2>2 DEF MemoryIsTrue
  <1> QED BY <1>2, <1>3

-----------------------------------------------------------------------------

LEMMA InitInv == Init => IInv
  <1> SUFFICES ASSUME Init PROVE IInv
    OBVIOUS
  <1> USE DEF Init
  <1>1. /\ 1 \in 1 .. MaxVersion /\ {0, 1} \subseteq 0 .. MaxVersion /\ 0 \in 0 .. MaxFaults
        /\ MaxQueued \in Nat /\ First \in Doc
    BY NumberAssumption, DocAssumption DEF NumberAssumption, DocAssumption
  <1>2. ServerTypes
    BY <1>1 DEF ServerTypes
  <1>3. DaemonTypes
    BY <1>1 DEF DaemonTypes
  <1>4. FileTypes
    BY <1>1, StateRecords DEF FileTypes
  <1>5. wait \in WaitRange
    BY DEF WaitRange, MaxRefreshMinutes
  <1>6. RecordIsFormed /\ PassIsFormed
    BY DEF RecordIsFormed, PassIsFormed
  <1>7. FaultsAreCounted /\ WaitIsSettled
    BY DEF FaultsAreCounted, PassFailed, WaitIsSettled
  <1>8. TasksAreFew
    BY <1>1 DEF TasksAreFew, Queued, Coming
  <1>9. ApplyIsTrue /\ SkipIsTrue
    BY DEF ApplyIsTrue, SkipIsTrue
  <1>10. RecordIsTrue
    BY DEF RecordIsTrue, NoSaved
  <1> QED BY <1>2, <1>3, <1>4, <1>5, <1>6, <1>7, <1>8, <1>9, <1>10 DEF IInv, Types, MemoryIsTrue

LEMMA StepInv == IInv /\ [Next]_vars => IInv'
  <1> SUFFICES ASSUME IInv, [Next]_vars PROVE IInv'
    OBVIOUS
  <1>1. /\ ServerTypes /\ DaemonTypes /\ FileTypes /\ wait \in WaitRange /\ RecordIsFormed
        /\ PassIsFormed /\ FaultsAreCounted /\ TasksAreFew /\ WaitIsSettled /\ MemoryIsTrue
    BY DEF IInv, Types
  <1>2. Types'
    BY <1>1, StepServerTypes, StepDaemonTypes, StepFileTypes, StepWaitType DEF Types
  <1>3. RecordIsFormed' /\ PassIsFormed'
    BY <1>1, StepRecorded, StepFormed
  <1>4. FaultsAreCounted' /\ TasksAreFew' /\ WaitIsSettled'
    BY <1>1, StepCounted, StepFew, StepSettled
  <1>5. MemoryIsTrue'
    BY <1>1, StepMemory
  <1> QED BY <1>2, <1>3, <1>4, <1>5 DEF IInv

LEMMA Invariance == Spec => []IInv
  BY InitInv, StepInv, PTL DEF Spec

LEMMA InvTypes == IInv => TypeOK
  <1> SUFFICES ASSUME IInv PROVE TypeOK
    OBVIOUS
  <1>1. /\ ServerTypes /\ DaemonTypes /\ FileTypes /\ wait \in WaitRange
        /\ FaultsAreCounted /\ TasksAreFew /\ WaitIsSettled
    BY DEF IInv, Types
  <1>2. failures \in 0 .. MaxFaults
    BY <1>1, NumberAssumption DEF NumberAssumption, FaultsAreCounted, DaemonTypes, FileTypes
  <1>3. {pending, stuck} \subseteq 0 .. MaxQueued + 1
    BY <1>1, NumberAssumption DEF NumberAssumption, TasksAreFew, Queued, Coming, ServerTypes, DaemonTypes
  <1>4. minutes \in 0 .. MaxRefreshMinutes /\ told \in Int
    BY <1>1, SettledMeansBounded
  <1> QED BY <1>1, <1>2, <1>3, <1>4 DEF TypeOK, ServerTypes, DaemonTypes, FileTypes, WaitRange

\* The variables of runDaemon and applyOnce, the files the agent keeps and the
\* tasks of the machine keep their types; in particular failures in a row are no
\* more than faults explain, and pushes do not pile up behind other refreshes.
THEOREM TypesKept == Spec => []TypeOK
  BY Invariance, InvTypes, PTL

\* "Never zero and never absurd" (refreshInterval, afterFailures), for whatever
\* number the join wrote: the agent waits what the domain last stated, across
\* restarts and failed fetches, and after failures no more than that.
THEOREM WaitIsTheDomainsAlways == Spec => []WaitIsTheDomains
  <1>1. IInv => WaitIsTheDomains
    BY SettledMeansBounded DEF IInv, Types
  <1> QED BY <1>1, Invariance, PTL

\* What applyOnce writes to last-serial is what it brought the machine to, and
\* unless the serial on record has been met again a pass skipped as unchanged
\* leaves out nothing: not after failures, crashes, lost reports, edits or updates,
\* installed, declined or pinned, from whatever releases the console hands out.
THEOREM NothingNewIsSkipped == Spec => []NewIsApplied
  <1>1. IInv => NewIsApplied
    <2> SUFFICES ASSUME IInv, ~ again, pc = "tasks" /\ after = "unchanged"
                 PROVE  inForce = [doc |-> doc, by |-> version]
      BY DEF NewIsApplied, UnchangedIsApplied
    <2> QED BY DEF IInv, MemoryIsTrue, SkipIsTrue
  <1> QED BY <1>1, Invariance, PTL

=============================================================================

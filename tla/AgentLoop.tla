----------------------------- MODULE AgentLoop -----------------------------
(***************************************************************************)
(* How a policy reaches a machine: an edit and push_policy on the control  *)
(* plane (api/odm/tasks.py), and the agent's loop of passes and waits      *)
(* (runDaemon, applyOnce and waitAndPoll in agent/main.go), with the files *)
(* it keeps across restarts and releases of itself.                        *)
(*                                                                         *)
(* One machine: machines share nothing here.  A document is known by its   *)
(* serial, a fingerprint of what it says, so going back to an earlier      *)
(* policy brings back its serial.  Of the queued tasks only policy-refresh *)
(* is modelled, not an agent-update.  Waits are counted in half minutes.   *)
(***************************************************************************)
EXTENDS Integers, FiniteSets

CONSTANTS Doc,         \* effective policies, by serial
          First,       \* the one at the start
          Update,      \* what each policy says of agent updates (agent_update):
                       \* a mode, and the release it is pinned to, 0 for none
          Schedules,   \* what agent_schedule may be set to: the interval in
                       \* minutes, and whether changes are pushed
          Joined,      \* the interval domain join wrote, any number
          MaxVersion,  \* bound: releases of the agent
          MaxQueued,   \* bound: refreshes queued, or about to be, after a click
          MaxFaults    \* bound: failures and crashes, and releases withdrawn
                       \* while a pass counts on them

RetryFloor == 1                 \* retryFloor: half a minute
DefaultRefreshMinutes == 15
MinRefreshMinutes == 1
MaxRefreshMinutes == 1440

\* A serial is a digest in hexadecimal; the empty string, written "none" here,
\* is never one: lastSerial returns it when there is none.
ASSUME DocAssumption == First \in Doc /\ "none" \notin Doc
ASSUME UpdateAssumption ==
  Update \in [Doc -> [mode : {"off", "notify", "install"}, pin : 0 .. MaxVersion]]
ASSUME NumberAssumption == /\ Schedules \subseteq [minutes : {1, 5, 15, 30}, push : BOOLEAN]
                           /\ Joined \in Int
                           /\ MaxVersion \in Nat \ {0} /\ MaxQueued \in Nat /\ MaxFaults \in Nat

VARIABLES
  policy,    \* the policy in effect for the machine
  pushing,   \* where push_policy is
  schedule,  \* agent_schedule: poll_minutes and push_enabled
  offered,   \* the agent release the console hands out, 0 for none
  pending,   \* policy-refresh tasks waiting
  stuck,     \* policy-refresh tasks claimed by a process that died
  pc, after, \* where the daemon is, and where it goes after its tasks
  forced, doc, clean, holding, failures, wait,   \* its variables
  offer,     \* the release that was on offer with it, while that matters
  saved, minutes,   \* its files last-serial and refresh-minutes
  version, installed,   \* the running agent, and the one on disk
  due,       \* whether systemd is to restart the agent in a moment
  inForce,   \* what the machine was really brought to, and by which agent
  again,     \* history: since a pass last recorded what it applied, the serial
             \* on record has been met again; see the end of the module
  told,      \* history: the last interval a document stated, 0 for none
  faults

server == <<policy, pushing, schedule, offered>>
queue  == <<pending, stuck>>
files  == <<saved, minutes, installed, due>>
vars   == <<server, queue, pc, after, forced, doc, offer, clean, holding, failures, wait,
            files, version, inForce, again, told, faults>>

Mixed   == [doc |-> "mixed", by |-> 0]
NoSaved == [doc |-> "none", by |-> 0]

-----------------------------------------------------------------------------
(* Intervals.                                                              *)

\* sensibleRefresh: 0 when nothing was stated, else pulled into the range.
SensibleRefresh(m) ==
  CASE m <= 0 -> 0
    [] m > 0 /\ m < MinRefreshMinutes -> MinRefreshMinutes
    [] m > MaxRefreshMinutes -> MaxRefreshMinutes
    [] OTHER -> m

\* refreshInterval: the file, then what the join wrote, then the default.
RefreshInterval(m) ==
  LET file == SensibleRefresh(m)
      join == SensibleRefresh(Joined) IN
  2 * (IF file # 0 THEN file ELSE IF join # 0 THEN join ELSE DefaultRefreshMinutes)

\* Mutant: doubling without the limit of the ordinary interval.
AfterFailuresUnbounded(usual, n) == IF n <= 0 THEN usual ELSE RetryFloor * 2 ^ (n + 4)

\* afterFailures: doubling from the floor, eight times at most.
AfterFailures(usual, n) ==
  LET doublings == IF n - 1 < 8 THEN n - 1 ELSE 8
      backoff == RetryFloor * 2 ^ doublings IN
  IF n <= 0 THEN usual ELSE IF backoff < usual THEN backoff ELSE usual

-----------------------------------------------------------------------------
(* The control plane.                                                      *)

Init ==
  /\ policy = First /\ pushing = "no"
  /\ schedule \in Schedules
  /\ offered \in {0, 1}
  /\ pending = 0 /\ stuck = 0
  /\ pc = "start" /\ after = "none" /\ forced = FALSE /\ doc = "none" /\ offer = 0
  /\ clean = FALSE /\ holding = FALSE /\ failures = 0 /\ wait = 0
  /\ saved = NoSaved /\ minutes = 0 /\ installed = 1 /\ due = FALSE
  /\ version = 1 /\ inForce = Mixed
  /\ again = FALSE /\ told = 0 /\ faults = 0

daemon == <<pc, after, forced, doc, offer, clean, holding, failures, wait>>
rest   == <<files, version, inForce, again, told>>

\* An edit of a policy object changes what the machine should have.
Edit(d) ==
  /\ pushing = "no" /\ d # policy
  /\ policy' = d
  /\ again' = (again \/ d = saved.doc)
  /\ pushing' = "look"
  /\ UNCHANGED <<schedule, offered, queue, daemon, files, version, inForce, told, faults>>

\* Refresh tasks queued or claimed.
Queued == pending + stuck + (IF holding THEN 1 ELSE 0)

\* One that a push has decided on.
Coming == IF pushing = "queue" THEN 1 ELSE 0

\* push_policy: are changes pushed, and is no refresh waiting or claimed?
PushLook ==
  /\ pushing = "look"
  /\ pushing' = IF schedule.push /\ Queued = 0 THEN "queue" ELSE "no"
  /\ UNCHANGED <<policy, schedule, offered, queue, daemon, rest, faults>>

PushQueue ==
  /\ pushing = "queue"
  /\ pushing' = "no" /\ pending' = pending + 1
  /\ UNCHANGED <<policy, schedule, offered, stuck, daemon, rest, faults>>

\* Refresh in the console (routes_servers): queued whatever is waiting.
Ask ==
  /\ Queued + Coming < MaxQueued
  /\ pending' = pending + 1
  /\ UNCHANGED <<server, stuck, daemon, rest, faults>>

\* write_agent_schedule
Schedule(s) ==
  /\ s # schedule /\ schedule' = s
  /\ UNCHANGED <<policy, pushing, offered, queue, daemon, rest, faults>>

Fault == faults < MaxFaults /\ faults' = faults + 1

\* updateWaiting: an offer to consider, whatever comes of it.
Waits(d, release) == Update[d].mode # "off" /\ release \notin {0, version}

\* The binary this console hands out is replaced, by an older one perhaps, or
\* taken away (agentupdate.available); a pass that counts on it then fails.
Publish(release) ==
  /\ release # offered /\ offered' = release
  /\ IF release = 0 /\ offer # 0 THEN Fault ELSE UNCHANGED faults
  /\ again' = (again \/ (saved.doc # "none" /\ Waits(saved.doc, offered) /\ ~ Waits(saved.doc, release)))
  /\ UNCHANGED <<policy, pushing, schedule, queue, daemon, files, version, inForce, told>>

\* tasks.reap fails a claimed refresh nobody reported.
Reap ==
  /\ stuck > 0 /\ stuck' = stuck - 1
  /\ UNCHANGED <<server, pending, daemon, rest, faults>>

-----------------------------------------------------------------------------
(* One pass: applyOnce.                                                    *)

\* Mutant: the version that recorded the serial is not looked at.
LastSerialAnyVersion == saved.doc

\* lastSerial: a serial recorded by another version reads as none.
LastSerial == IF saved.by = version THEN saved.doc ELSE "none"

\* The document that would be fetched is the one on record, nobody asked for it
\* to be applied again and no update is waiting.
Unchanged == ~ forced /\ policy = LastSerial /\ ~ Waits(policy, offered)

\* WantsUpdate: an offer is taken in mode install only, the pinned release in
\* either direction and any other only if it is newer (Newer).
WantsUpdate ==
  LET wanted == Update[doc] IN
  /\ wanted.mode = "install" /\ offer # 0
  /\ IF wanted.pin # 0 THEN wanted.pin # version /\ wanted.pin = offer ELSE offer > version

\* The pass returns, its variables are gone, and runDaemon settles how long to
\* wait.
EndPass(ok) ==
  LET n == IF ok THEN 0 ELSE failures + 1 IN
  /\ failures' = n
  /\ wait' = AfterFailures(RefreshInterval(minutes), n)
  /\ pc' = "waiting" /\ forced' = FALSE /\ doc' = "none" /\ clean' = FALSE

\* The configuration or the client cannot be had: the pass fails at once.
CannotStart ==
  /\ pc = "start" /\ Fault
  /\ EndPass(FALSE)
  /\ UNCHANGED <<server, queue, after, offer, holding, rest>>

\* Mutant: the interval is written down in seconds.
FetchKeepsSeconds ==
  /\ pc = "start"
  /\ doc' = policy
  /\ minutes' = 60 * schedule.minutes
  /\ told' = schedule.minutes

\* The document is fetched and the interval it states is kept (saveRefresh).
\* What follows is decided by what came with it.
Fetch ==
  LET stated == SensibleRefresh(schedule.minutes) IN
  /\ pc = "start"
  /\ doc' = policy
  /\ minutes' = IF stated = 0 THEN minutes ELSE stated
  /\ told' = schedule.minutes

\* The fetch fails; the machine's tasks are still collected.
FetchFails ==
  /\ pc = "start" /\ Fault
  /\ pc' = "tasks" /\ after' = "failed"
  /\ UNCHANGED <<server, queue, forced, doc, offer, clean, holding, failures, wait, rest>>

\* "policy unchanged"
Skip ==
  /\ Fetch /\ Unchanged
  /\ pc' = "tasks" /\ after' = "unchanged"
  /\ UNCHANGED <<server, queue, forced, clean, offer, holding, failures, wait,
                 saved, installed, due, version, inForce, again, faults>>

\* The appliers start on the machine, one after the other.
BeginApply ==
  /\ Fetch /\ ~ Unchanged
  /\ pc' = "applying" /\ offer' = offered /\ inForce' = Mixed
  /\ again' = (again \/ (forced /\ policy = LastSerial))
  /\ UNCHANGED <<server, queue, after, forced, clean, holding, failures, wait,
                 saved, installed, due, version, faults>>

\* They end, all of them well or some of them failed.  A wanted update installs
\* what the console hands out by now and has systemd restart the agent
\* (InstallAgent); it fails if there is nothing any more.
EndApply(ok) ==
  LET gone == WantsUpdate /\ offered = 0 IN
  /\ pc = "applying"
  /\ ~ (ok /\ gone)
  /\ IF ok \/ gone THEN UNCHANGED faults ELSE Fault
  /\ clean' = ok
  /\ inForce' = IF ok THEN [doc |-> doc, by |-> version] ELSE Mixed
  /\ \/ (WantsUpdate /\ ~ gone) /\ installed' = offered /\ due' \in {TRUE, ok \/ due}
     \/ ~ (ok /\ WantsUpdate) /\ UNCHANGED <<installed, due>>
  /\ pc' = "tasks" /\ after' = "report" /\ offer' = 0
  /\ UNCHANGED <<server, queue, forced, doc, holding, failures, wait,
                 saved, minutes, version, again, told>>

\* runTasks: one task is collected, run and reported; that it was a refresh
\* is returned by runQueued and not looked at by applyOnce.
TakeTask ==
  /\ pc = "tasks" /\ pending > 0
  /\ pending' = pending - 1 /\ holding' = TRUE
  /\ pc' = "tasking"
  /\ UNCHANGED <<server, stuck, after, forced, doc, offer, clean, failures, wait, rest, faults>>

NoTask ==
  /\ pc = "tasks"
  /\ IF pending = 0 THEN UNCHANGED faults ELSE Fault
  /\ pc' = after /\ after' = "none"
  /\ UNCHANGED <<server, queue, forced, doc, offer, clean, holding, failures, wait, rest>>

TaskDone ==
  /\ pc = "tasking"
  /\ holding' = FALSE
  /\ pc' = after /\ after' = "none"
  /\ UNCHANGED <<server, queue, forced, doc, offer, clean, failures, wait,
                 rest, faults>>

PassOver ==
  /\ pc \in {"unchanged", "failed"}
  /\ EndPass(pc = "unchanged")
  /\ UNCHANGED <<server, queue, after, offer, holding, rest, faults>>

\* Mutant: the serial is written down though something failed.
ReportSavesAlways ==
  /\ pc = "report"
  /\ saved' = [doc |-> doc, by |-> version]
  /\ again' = (again /\ ~ clean)
  /\ EndPass(clean)
  /\ UNCHANGED <<server, queue, after, offer, holding, minutes, installed, due,
                 version, inForce, told, faults>>

\* The report is taken; the serial is written down if everything applied.
Report ==
  /\ pc = "report"
  /\ saved' = IF clean THEN [doc |-> doc, by |-> version] ELSE saved
  /\ again' = (again /\ ~ clean)
  /\ EndPass(clean)
  /\ UNCHANGED <<server, queue, after, offer, holding, minutes, installed, due,
                 version, inForce, told, faults>>

ReportFails ==
  /\ pc = "report" /\ Fault
  /\ EndPass(FALSE)
  /\ UNCHANGED <<server, queue, after, offer, holding, rest>>

-----------------------------------------------------------------------------
(* Between passes: waitAndPoll; and the process itself.                    *)

\* A refresh arrives, is reported, and ends the wait.
Poll ==
  /\ pc = "waiting" /\ pending > 0
  /\ pending' = pending - 1 /\ holding' = TRUE
  /\ pc' = "refreshing"
  /\ UNCHANGED <<server, stuck, after, forced, doc, offer, clean, failures, wait, rest, faults>>

Refresh ==
  /\ pc = "refreshing"
  /\ holding' = FALSE /\ forced' = TRUE
  /\ pc' = "start" /\ wait' = 0
  /\ UNCHANGED <<server, queue, after, doc, offer, clean, failures, rest, faults>>

WaitEnds ==
  /\ pc = "waiting"
  /\ pc' = "start" /\ wait' = 0
  /\ UNCHANGED <<server, queue, after, forced, doc, offer, clean, holding, failures, rest, faults>>

\* The process ends, whatever it was doing; a task it held stays claimed.
Dies(next) ==
  /\ pc # "down" /\ pc' = next
  /\ stuck' = IF holding THEN stuck + 1 ELSE stuck
  /\ holding' = FALSE /\ forced' = FALSE /\ failures' = 0
  /\ after' = "none" /\ doc' = "none" /\ offer' = 0 /\ clean' = FALSE /\ wait' = 0
  /\ UNCHANGED <<server, pending, saved, minutes, installed, inForce, told>>

Crash == Dies("down") /\ Fault /\ UNCHANGED <<version, again, due>>

\* The agent on disk runs; it may be the release that wrote last-serial, back
\* after another one.
Runs == /\ version' = installed
        /\ again' = (again \/ (installed # version /\ installed = saved.by))

Start ==
  /\ pc = "down" /\ pc' = "start" /\ Runs
  /\ UNCHANGED <<server, queue, after, forced, doc, offer, clean, holding, failures, wait,
                 files, inForce, told, faults>>

\* systemd restarts the agent that has been replaced.
Restart == due /\ due' = FALSE /\ Dies("start") /\ Runs /\ UNCHANGED faults

Step ==
  \/ Skip \/ BeginApply \/ (\E ok \in BOOLEAN : EndApply(ok))
  \/ TakeTask \/ NoTask \/ TaskDone \/ PassOver \/ Report \/ WaitEnds
  \/ Poll \/ Refresh \/ Start

Next ==
  \/ \E d \in Doc : Edit(d)
  \/ PushLook \/ PushQueue \/ Ask \/ Reap
  \/ \E release \in 0 .. MaxVersion : Publish(release)
  \/ \E s \in Schedules : Schedule(s)
  \/ Step
  \/ CannotStart \/ FetchFails \/ ReportFails \/ Crash \/ Restart

Spec == Init /\ [][Next]_vars

\* The daemon keeps going: a pass returns, a wait ends, systemd starts the
\* process again.  How an apply ends is not up to the scheduler.
FairSpec == Spec /\ WF_vars(Step) /\ WF_vars(PushLook \/ PushQueue) /\ WF_vars(Restart)

-----------------------------------------------------------------------------
(* Properties.                                                             *)

State == [doc : Doc \cup {"none", "mixed"}, by : 0 .. MaxVersion]

\* Variables, files and tasks keep their types.
TypeOK ==
  /\ policy \in Doc /\ pushing \in {"no", "look", "queue"}
  /\ schedule \in Schedules /\ offered \in 0 .. MaxVersion
  /\ {pending, stuck} \subseteq 0 .. MaxQueued + 1
  /\ pc \in {"start", "applying", "tasks", "tasking", "unchanged", "failed",
             "report", "waiting", "refreshing", "down"}
  /\ after \in {"none", "unchanged", "failed", "report"}
  /\ {forced, clean, holding, again, due} \subseteq BOOLEAN
  /\ doc \in Doc \cup {"none"} /\ offer \in 0 .. MaxVersion
  /\ failures \in 0 .. MaxFaults /\ wait \in 0 .. 2 * MaxRefreshMinutes
  /\ saved \in State /\ inForce \in State
  /\ minutes \in 0 .. MaxRefreshMinutes /\ told \in Int
  /\ version \in 1 .. MaxVersion /\ installed \in 1 .. MaxVersion
  /\ faults \in 0 .. MaxFaults

\* "Recording the serial after a failure means the next run says "policy
\* unchanged" and skips it, so a setting that failed for a passing reason is
\* never tried again" (applyOnce): when a pass is skipped as unchanged, this
\* version of the agent brought the machine to that very policy, in full.
UnchangedIsApplied ==
  pc = "tasks" /\ after = "unchanged" => inForce = [doc |-> doc, by |-> version]

\* The same unless the serial on record has been met again since it was
\* written: an unchanged policy was applied by force, an edit brought the recorded
\* policy back, a release that waited was withdrawn or became the running one's
\* number again, or the release that wrote the record was put back.  Failures,
\* crashes, lost reports, new edits and updates, taken or declined, in any order
\* do not make the agent skip a policy it has not applied in full.
NewIsApplied == again \/ UnchangedIsApplied

\* The machine is where its policy wants it, by the agent that runs.
Settled == inForce = [doc |-> policy, by |-> version]

\* An offer is there that the policy does not let the agent take: in mode notify,
\* another release than the pinned one, or none that is newer.
Declined ==
  LET wanted == Update[policy] IN
  /\ Waits(policy, offered)
  /\ wanted.mode = "install" =>
       IF wanted.pin # 0 THEN wanted.pin # offered \/ wanted.pin = version ELSE offered < version

\* Once edits and releases have ceased the policy in effect is brought into
\* force again and again, through failures and restarts; and it stays in force,
\* except where the agent applies it in every pass over an offer it declines.
PolicyArrives ==
  \/ []<><<policy' # policy \/ offered' # offered>>_vars
  \/ []<>(again \/ Settled) /\ <>[](again \/ Settled \/ Declined)

\* "Never zero and never absurd" (refreshInterval), and across restarts and
\* fetches that fail still the interval the domain last stated: that is what
\* the agent waits after a pass that succeeded, and at most that, and at
\* least the floor, after one that failed.
WaitIsTheDomains ==
  LET usual == RefreshInterval(told) IN
  pc = "waiting" => /\ wait \in RetryFloor .. usual
                    /\ failures = 0 => wait = usual

=============================================================================

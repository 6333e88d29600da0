# Open Directory Manager: TLA+ specifications

Open Directory Manager (ODM) manages a Samba domain and the machines joined to
it: a control plane (Python, `api/odm/`, PostgreSQL), an agent on every machine
(Go, `agent/`), a join client (`client-join/`) and a web console (`web/`).
These modules specify the parts in which several processes act on shared state:
the work queue between control plane and agents, what waits for that work, the
agent's own loop, the choice of the replica that does scheduled work, and the
web console - its live updates, its sessions in several tabs, every page with
every form it sends changes by, and the editor of policy objects. They are
checked with TLC, and their safety properties are proved with TLAPS.

## The system and its parts

| Part | State it keeps | Operations | Hard because |
|---|---|---|---|
| Node task queue (`tasks.py`) | table `node_task` | `enqueue`, `claim`, `finish`, `reap`, `push_policy`, `run_now` | polls overlap and outlive their client; a clock ends tasks other processes are working on |
| Agent task endpoints (`routes_agent.py`) | none of their own | `agent_tasks` (long poll), `agent_task_progress`, `agent_task_result` | each handler is several autocommitted statements |
| Agent task runner (`main.go`, `internal/tasks`, `internal/client`) | the task in hand | `waitAndPoll`, `runQueued`, `TaskResult` (said twice) | answers lost, results late or repeated, the process dies, the machine sleeps |
| Agent policy loop (`main.go`, `internal/apply/selfupdate.go`) | files `last-serial`, `refresh-minutes`, its own binary | `runDaemon`, `applyOnce`, `waitAndPoll`, `InstallAgent` | what the files say and what the machine is in can part at every failure |
| Server roles (`routes_roles.py`) | table `server_role` | `install`, `remove_instance`, results, `reap` | row and task are written by separate statements |
| Shares, printers, VPN tunnels (`routes_shares.py`, `routes_printers.py`, `routes_vpn.py`) | `file_share`, `printer`, `vpn_tunnel` | create, update, delete, `_dispatch`, results | two requests about one row interleave; rows are deleted while tasks for them live |
| Scheduler leadership (`leader.py`, `main.py`) | a PostgreSQL advisory lock | `run_while_leader` | connections break under the holder; cancellation arrives anywhere |
| Remote desktop, backups and operations, password vault | rows and tasks as above | dispatch to several hosts; scheduled and manual backups; reconciliation | several tasks share one row |
| Console live updates (`live.ts`, `events.py`, `0037_live_updates.sql`) | the one EventSource, its retry count and timer; a queue per console | `useLive`, `open`, `close`, `onerror`, `subscribe`, `_on_notify` | the stream breaks while parts of the console come and go; a slow console's queue overflows |
| Console sign-in and sessions (`App.tsx`, `Login.tsx`, `api.ts`; `auth.py`, `sessions.py`, `security.py`) | `admin_session`, the cookie, the account and token of each tab | sign in, sign out, reload, expire | tabs share a cookie, each remembers its own token; answers are late or lost |
| Console pages (`pages/*.tsx`, panels of `components/`) | what a page shows, its dialogs, the requests it has sent | read, re-read, poll, submit, close | answers come in any order, to a dialog or a page that is gone; machines and other administrators change what is shown |
| Policy editor (`Policy.tsx`, `SettingsEditor.tsx`, `FileInput.tsx`, `uploadTracker.ts`; `routes_policy.py`) | a copy of the settings, files being read, a module-wide count of uploads; `gpo`, `gpo_revision` | edit, pick a file, save, roll back, remove | a file is put into the copy as it was when it was picked; two writers keep the same revision |
| Second factors, federated sign-in; enrolment and join tokens | codes, tokens | check, use, expire | check and use are two statements |
| Policy resolution; authorization; dynamic groups | policy objects, links, roles | pure functions of rows and directory | precedence, enforcement, blocking |
| Monitoring; recycle bin; terminals, replicas | alerts, deleted objects, sessions | loops under the leader; sessions that cross replicas | long sequences of events |
| CA, DNS, DHCP, RADIUS, sites, directory objects, appliers, client join, console wiki and widgets, deployment | files and other daemons | rendering and I/O | - |

The parts meet in the queue. A console request writes a row ("installing",
"applying") and queues a task; the machine's agent collects it in a poll that
waits up to 25 seconds, does it, and reports; the report moves the row. Tasks
nobody finishes are failed by `reap`, which any poll and any look at the roles
page runs for the whole fleet. Policy edits queue `policy-refresh` tasks, which
end an agent's wait. Triggers on the tables the pages show notify the control
plane, which tells every open console; a page that watches the table reads
again, and so shows another administrator's change or a machine's report.
`PROJECT.json` lists every part with its status, and under "hazards" what in
this code is hard to test, each at its line.

## Modules

| Module | Models | Built on |
|---|---|---|
| `NodeTasks` | the queue with its polls, agent processes, reports, clocks, crashes and losses | - |
| `TaskQueue` | what the queue promises: abstract rows added, taken in turn, ended once | - |
| `NodeTasksProofs` | the inductive invariant of `NodeTasks`, the theorems, and the proof that it implements `TaskQueue` | `NodeTasks` |
| `TaskAgent` | one serial agent per machine on the abstract queue | `TaskQueue` |
| `ServerRoles` | role rows, console requests, results and `reap`'s second statement | `TaskAgent` |
| `ServerRolesProofs` | the proof that no install is forgotten and that "active" is the machine's last word | `ServerRoles` |
| `Definitions` | shares, printers and tunnels: rows, requests, and what the machine really serves | `TaskAgent` |
| `DefinitionsProofs` | the proof that no apply is forgotten, and that what is shown is served when requests come in turn | `Definitions` |
| `AgentLoop` | how a policy edit reaches a machine | - |
| `AgentLoopProofs` | the proof that nothing new is skipped and that the agent waits as long as the domain says | `AgentLoop` |
| `Leader` | leadership among the replicas of the control plane | - |
| `LeaderProofs` | the proof that one replica does the work, and how far losses of connections weaken that | `Leader` |
| `EventStream` | what the live updates promise a page: a change of what it watches makes it read again, unless the connection is lost or newer changes crowd it out | - |
| `LiveStream` | `live.ts`, the broadcaster and its queue; implements `EventStream` (`INSTANCE ... WITH`) | `EventStream` |
| `SignIn` | sessions, cookie, tabs and their requests | - |
| `SignInProofs` | the proof that changes are made as the account shown | `SignIn` |
| `ConsoleApi` | the calls of the console's client: what asks and what changes | - |
| `PageForms` | how a page and a form are written down; the tables whose changes are told (`Told`), `WATCH` | `ConsoleApi` |
| `ServicePages`, `AdminPages`, `ChoicePanels` | every page, tab, panel and form of the console, in that notation | `PageForms` |
| `PageTable` | all of them, and the assumption that between them they make every call of the client | the three |
| `ConsolePage` | a page of the table at work, with one of its forms, on the live updates of `EventStream` | `PageTable`, `EventStream` |
| `ConsoleProofs` | the proofs about the pages (why one may be stale, one request at a time, whose answer is shown), and about the stream: its invariant and the refinement | `ConsolePage`, `LiveStream` |
| `SettingsTable` | the settings of a policy object: how each is kept, edited and given a file | - |
| `PolicyEditor` | one policy object in the console and behind it | `SettingsTable` |
| `PolicyEditorProofs` | the proof that edits survive and that Save waits | `PolicyEditor` |
| `MCNodeTasks`, `MCServerRoles`, `MCDefinitions`, `MCAgentLoop`, `MCLiveStream`, `MCConsolePage` | instances for TLC | |

Definitions whose comment begins with *Mutant* are not part of a specification:
each is a wrong version of the definition after it, kept to show that the
properties notice.

### NodeTasks

Variables `state`, `node`, `kind`, `secret`, `age` are the columns of
`node_task` (rows are numbered by `created_at`; `age` counts from
`coalesce(claimed_at, created_at)` and is capped just past `Stale`; `secret`
says whether the payload still holds a password). `pc`, `job` and `clock` are
the agent processes, of which a machine may have two (the daemon and an
`odm-agent apply`); `handler` and `orphans` are the server's side of polls,
which go on after their client has left; `wire` holds results under way. `runs`
and `outcome` are history.

`StartPoll` is `agent_tasks` up to its first look (it calls `reap`), `Claim` and
`EmptyPoll` how it ends, `Receive` the answer's arrival, `PollFails` a lost
answer. `RunEnds` is a task's end, by itself or by `timeoutFor`; `HandleResult`
is `agent_task_result` reached by a report whose sender still waits, with the
agent's reaction (a refusal or an error is said once more), `HandleLate` one
whose sender has given up. `ConsoleReap` is `list_roles`. `Tick` advances the
control plane's clock; the processes in `asleep` do not notice (a suspended
machine). A `shell-session` runs beside the loop and its process goes on at once.

### TaskAgent, ServerRoles, Definitions

Handlers run on autocommitting connections (asyncpg without a transaction), so
every statement is an action. `answers` holds the results `finish` has recorded
and the handler has not yet carried over to the row; `cut` remembers rows whose
handler was stopped with the control plane, which nothing repairs. Two
assumptions tie the agent's side to the detailed queue: a statement of
`agent_task_result` is over within the agent's limit on a request, so the agent
starts its next task after the last one's result has been carried over; and one
agent process works for a machine (a second one, started by hand, is in
`NodeTasks`). That `reap` never takes a task from an awake agent is
`ReapSparesTheWorking`, proved.

In `Definitions`, what a row says is a stamp, new with every INSERT and UPDATE;
`served` is the stamp the machine really has. Shares and printers pass the row
`UPDATE ... RETURNING` gave them to `_dispatch`; tunnels (`Tunnels`) read the
row again, which also is how a peer's creation or deletion dispatches. A share's
or printer's removal is a task of its own kind, whose result goes nowhere; a
tunnel's is one more `vpn-apply`, with `remove` in its payload and the row as its
subject (`Removal`), so its result is written to the row as long as there is one:
before the `DELETE`, or after a stop that came between the two. A removal
carries the stamp 0, and leaves that to be served.

### AgentLoop

A document is its serial, a fingerprint: going back to an earlier policy brings
its serial back. It also says what becomes of agent releases (`Update`: off,
notify or install, and a pinned release). `offered` is the binary the console
hands out, which `Publish` replaces by any other, older ones included, or takes
away. `Waits` is `updateWaiting`: it keeps a pass from being skipped in every
mode but "off". `WantsUpdate` decides whether the offer is taken, and may
decline it; an agent that stays with a declined offer applies its policy in
every pass, which `PolicyArrives` says (`Declined`). An installed release runs
when systemd restarts the agent (`due`). `inForce` is what the machine was
really brought to, and by which version of the agent; an apply in progress or
failed leaves it `Mixed`. `pending` and `stuck` are the `policy-refresh` tasks;
`pushing` is where `push_policy` stands between its look and its INSERT. Waits
are in half minutes; the jitter added to a wait is left out, and so is an update
asked for as a task (`agent-update`).

### Leader

The lock belongs to the session of a connection; `Lose` ends the session while
the replica learns of it at its next statement. `astray` counts the ticks for
which tasks run without the lock; `told` remembers who was shut down.

### EventStream, LiveStream

`listeners` are the mounted `useLive` effects; `Listen` and `Unmount` mount and
unmount one; `source`, `retry` and `reconnect` are the variables of `live.ts`;
`pending` says of each listener whether its 400 ms timer is set and which one it
is, for every matching name clears it and sets another (`Deliver`); `queue` is
this console's queue in the broadcaster. `Change` is a trigger's NOTIFY and
`_on_notify`; `GoDeaf` is the loss of the connection `Broadcaster.start` took,
which nothing takes again. Under the mapping `up` is "open and listening" and
`owed` is who has a timer or a watched name under way.

### SignIn

`tab` is what a tab shows and the token it remembers (`csrfToken`); a request
carries the cookie the browser has when it is sent. Every sign-in draws a new
session. `Remembered` is what `session()` and `login()` do with an answer,
`SignedOut` what `App.signOut` does whatever the answer is. `ServeLogin` may
refuse for any reason; that stands for the directory, the lock-out and the
second factor.

### The pages

Pages and panels are alike in what they do: they load, watch tables, poll while
something is under way, and open dialogs from slots of their state. What differs
is kept in a table. A page (`Part`) says what it asks for, what it watches,
whether it polls, which tables a machine's result writes, and its forms; a form
(`Dialog`, `Row`) says which calls it sends, whether its button is disabled by a
flag, whose flag that is, what it does with a refusal, whether it closes and
reads again, and the tables its handler writes before and after. Modifiers name
the exceptions: `Swallowed` is `.catch(() => undefined)`, `Telling` a dialog
that shows what it did, `TaskFirst` a handler that queues its task before it
changes its row, `OfThePage` a flag that outlives the dialog, `Shared` one that
other requests of the page set and clear without looking at it. A page polls
always, while something waits for a machine, or in a chain: the dialog of a test
page sets its next timer when an answer has come, so one failed read ends it,
and it says "waiting" until it is closed.

`ConsolePage` runs one of them. `truth` is what the control plane has, with the
machine's work that waits; `shown` the version on the screen; `asked`, `served`
and `writes` what is under way; `busy` is the flag, set when a request is sent
and cleared by every answer that has hold of it (`Clears`). Where a page is
given keys - a zone, a folder, a search - another key is another version, and
what was asked under the earlier one goes on under that: reads already sent, and
the read after a change, which is the function of the render that sent it
(`Dns.tsx`, `Vpn.tsx`, the disks of `RemoteDesktop.tsx`, `moveTo` of
`Directory.tsx`). What they bring is `Foreign`, and is shown all the same unless
the panel drops it (`Careful`). `excuse` remembers what last went wrong since a
read was served. Pages with the same columns behave the same, so `View` runs
each combination once: the 74 parts with their forms are 80 views.

### PolicyEditor

`draft` is `GpoDetail`'s copy, `wanted` what the administrator last made of each
setting; `reading` holds the files being read, each with the copy its callback
was rendered with; `pending` is `uploadTracker`'s count, `astray` the files
whose dialog is gone. `Begin` and `Update` are the two statements of
`update_gpo` and `rollback_gpo`. `SettingsTable` says of each setting whether
its file is awaited, and whether it goes to the copy or to an entry's dialog.

## Runs

| Run | Shows |
|---|---|
| `tasks_fleet` | two machines, one suspended now and then, with terminal sessions and a task that carries a password: no task starts twice, none is reaped under an awake agent, "done" means the run succeeded, passwords end with their task, order is kept, finished rows stay; the table takes only the steps of `TaskQueue`; every task ends |
| `roles_requests` | two requests at a time on one role: no row says "installing" without something to wait for, "active" is the machine's last word, an install ends |
| `defs_single` | a share and a tunnel, one request at a time: what reads "active" is what is served, what has no row is not served |
| `defs_races` | two requests at a time on a share and a tunnel: no row is left "applying" for another reason than a reaped task or a stopped control plane |
| `loop` | the agent waits the domain's interval or a bounded back-off; through failures and restarts, and releases taken, declined, pinned and withdrawn, it skips only a policy it has applied in full, but for the four cases `again` names; every new policy comes into force |
| `leader` | without lost connections the work is never done twice at a time; after a loss for at most one check and one retry; in the end one replica leads |
| `live` | the sidebar and a page on one stream: it is kept exactly while somebody listens, it comes back, what is owed is read where changes pause, and a change is lost only with a connection or behind more changes than the queue holds, never the newest |
| `pages` | every page with each of its forms: a page at rest that is stale lost a read, was overtaken by an older answer, shows what was read for a key that was left, was without its stream, or shows what no event tells of; a button disabled by its flag has one request out at most, where nothing else clears the flag; a careful panel shows its own key; polling pages end up showing that work is over, a chain unless it lost a read |
| `signin` | two tabs, two accounts, one cookie: a change is made by the account the tab showed, a tab that shows an account holds its token, no tab waits for ever |
| `policy` | what the administrator made of a setting is what Save would send, but for files that arrive late; Save waits for every file it is told of, and comes back |

Two runs end in a counterexample, each to a sentence of the code (quoted under
"findings"):

| Run | Shows |
|---|---|
| `loop_forced` | a forced pass that fails leaves the current serial recorded, so the next pass is "unchanged" and what failed is not tried again |
| `policy_gap` | fonts and custom packages are read by a promise nobody awaits: the count of uploads is given back at once, and Save sends the policy without the file, the very gap `Policy.tsx` and `FileInput.tsx` say is closed |

### Other configurations

These are kept for whoever works on the code they are about, and are run by
hand (`tlc -config X.cfg M`). All but the first end in a counterexample.

| Configuration, module | Shows |
|---|---|
| `NodeTasks_shared.cfg`, `MCNodeTasks` | two processes of one machine on one queue: the safety properties of `tasks_fleet` |
| `ServerRoles_overtaken.cfg`, `MCServerRoles` | `remove_instance` queues `role-remove` before it marks the row (`routes_roles.py:272`); a report in between sets "removed", which the mark overwrites with "removing" |
| `Definitions_stale.cfg`, `MCDefinitions` | of two edits the one written first can be queued last (`routes_shares.py:69`): the row shows the second as "active", the machine serves the first |
| `Definitions_reaped.cfg`, `MCDefinitions` | `reap` releases shares in state "installing", which they never have (`tasks.py:162`): a share whose apply is reaped says "applying" for ever |
| `Leader_cancelled.cfg`, `Leader` | a shutdown that arrives while the tasks of a lost lock are awaited is suppressed with theirs (`leader.py:72`) |
| `ConsolePage_untold.cfg`, `MCConsolePage` | `NetworkAccess.tsx:56` says "Re-read when the domain changes, so the page is never stale." and watches the tables of the tunnels; with no RADIUS server to dispatch to, a change of another administrator reaches it by no event |
| `PolicyEditor_overlap.cfg`, `PolicyEditor` | "Every save keeps what was there before it" (`Policy.tsx:884`): two saves, or a save and a rollback, that overlap read the same state before either writes, and what the first wrote is in no revision |

The same models also hold behaviours no run is spent on, and their properties
make room for them by name: a pending task is reaped as uncollected while its
agent is busy with older ones; a `role-remove` that is reaped leaves "removing";
an apply queued after the removal of the same share brings it back
(`WithdrawnIsGone` is checked with one request at a time only); a policy taken
back after a failed pass meets its old serial, and so does one whose re-apply
was only made because a release waited, failed, and found the release withdrawn
(`again`); a `policy-refresh` collected inside a pass forces nothing
(`TaskDone`); a leader that has seen its connection fail sleeps before it stops
its tasks (inside the bound of `StraysStop`); a page that has lost its stream
does not read again when it is back, and one whose reads overlap shows whichever
answer came last, be it that of a key that was left (`StaleForAReason` names all
three); the buttons of `Passwords.tsx`, of a computer's tabs and of the import
share a flag with requests that ignore it, so that one request's answer frees
the button of another (`shared`); the dialog of a test page that has lost one
read waits for good (`SettledIsShown`); a save from a copy made before another
administrator's save, or before a rollback, overwrites it, since neither the
page nor `update_gpo` compares (`EditsSurvive` is about this page's own edits);
a file that is read while editing goes on takes back what was edited meanwhile
(`overrun`); a dialog that is closed with its request out leaves an answer that
closes the next one.

What modelling the console brought up, without a run: the triggers of
`0037_live_updates.sql` and `WATCH` of `live.ts` name tables no migration
creates (`share`, `rd_host`, `certificate`, `dhcp_scope`), so nothing is ever
told of them.

### Bounds

Two rows, or three, are what the order of a queue, a repeated name or an
overtaken result need; two processes or requests are what a race needs. One or
two faults suffice for a lost answer followed by a crash. `Stale` is one tick
more than the longest task (45 against 30 minutes), `Http` is 0: a request takes
less than a tick of a quarter of an hour. In `Leader` the two sleeps, equal in
the code's defaults, differ, so that a bound that took one for the other would
show. In `LiveStream`, two listeners with one table in common tell the last one
from another, a queue of two names overflows, and two faults are a stream that
breaks again while it comes back. In `ConsolePage`, every page and form of the
table is an initial state; one change besides what a machine reports makes an
older and a newer version, and one change of key besides it lets either happen
while the other is under way; two answers under way overtake each other, two
changes under way are a double submit or a dialog closed and opened again (where
there are keys, one is under way at a time, `KeyedWrites`, besides what others
change), one fault is a lost stream, read or answer. In `SignIn`, two sessions
in two tabs give each account one, or one account two. In `PolicyEditor`, a
wallpaper (awaited, straight into the copy) and a web application (awaited, into
its dialog) are the two ways a file goes; the third, awaited by nobody, is
`policy_gap`'s. In `AgentLoop`, two documents tell an edit from a revert, and
one takes every newer release while the other pins the first; two releases, each
of which may be offered or withdrawn at any time, give upgrades, downgrades and
declined offers; one fault is a failed pass, report or fetch, a crash, or a
release withdrawn under a pass. `MaxQueued` = 1 keeps a click on Refresh from
adding a second task to one that waits or is about to be pushed; the proofs have
any number of both. In `Definitions`, the races take a share and a tunnel, two
stamps, three tasks and one stop of the control plane. Deadlock is checked in
the runs of `NodeTasks`, `AgentLoop`, `Leader` and `PolicyEditor`; `ServerRoles`
and `Definitions` have bounded supplies of tasks and stamps that end, and a
console may be left alone for ever.

### Fairness

`NodeTasks`: a process that is up goes on (the daemon loops, a request is
answered or times out in the HTTP client, a task returns or meets its context
deadline), systemd restarts it, and time passes; the last is strong fairness,
because a `Tick` waits for every timer that is due and polls begin again and
again. `ServerRoles`: a handler reaches its next statement, an agent collects
and reports, and `reap` comes round. `AgentLoop`: the daemon loops and is
restarted, after a crash or an update by systemd; nothing is assumed of how an
apply ends except that failures are bounded. `Leader`: loops go on and a replica
that is down is started again by the orchestrator. `LiveStream`: timers fire,
requests are answered or fail, frames arrive; the fairness of a listener's timer
is that of each timer by itself, so one that is set anew again and again need
never fire: a table that never stops changing keeps its page from reading, and
`OwedIsRead` excepts that. `ConsolePage`: timers fire, some read asked for is
answered, and answers are shown; writes, administrators, machines and the stream
may stay away. `SignIn`: what a tab has asked is answered, or its connection
fails. `PolicyEditor`: the request sent first is served and its answer heard, or
the browser gives it up; nothing is assumed of how long a file takes to read.

## Proofs

`NodeTasksProofs` proves, for every number of machines, processes, rows and
faults, that each safety property of the queue holds. Assumed are only the
types of the constants and `StaleAssumption`: `Timeout[k] + 3 * Http <= Stale`,
the condition `STALE_MINUTES` is chosen for (30 minutes and three requests are
less than 45 minutes).

None of the properties is inductive. The invariant `IInv` adds:
- `Holding`: which phases of a process hold a row, and that no two hold one;
  without it `StartedOnce` could not exclude that a row is handed out again;
- `History`: what each phase says about `runs` and `outcome`, and that every
  result on the wire repeats the outcome of its row's only run - so a repeated
  or late result cannot make a failed row "done";
- `Ordered`: rows are inserted one after the other and of two pending rows the
  older has waited at least as long, so `reap` cannot take a younger one first;
- `Timely`: phase by phase, the age of the row an awake process holds is at
  most the limits it has passed plus its clock; at the end of the last phase
  that is `Http + Timeout + 2 * Http`, hence `HeldIsNotReaped`.

The proof has one lemma per part (`TypeStep`, `HoldingStep`, ...), one step per
action in each, and lemmas about the three statements that change rows
(`ReapRows`, `FinishRows`, `ReapOrdered`, ...).

`QueueImplemented`, in the same module, is `Spec => ImplementsQueue`: `state`,
`node` and `kind` map to themselves; `Enqueue` is `Add`, a claim is `Take`, a
result `Finish`, a reap `Expire` - the condition of `Expire` that older pending
rows go first follows from `Ordered` - and everything else, including a poll
that reaps nothing, stutters. So what `ServerRoles` and `Definitions` assume of
the queue is proved of the detailed one.

`ConsoleProofs` proves for any listeners, tables, queue depth and faults
that the stream is kept exactly while somebody listens (`StreamKept`) and that
`LiveStream` implements `EventStream` (`StreamImplemented`). The invariant adds
that the queue is bounded and empty without a stream, and that only mounted
listeners have a timer set, whichever it is; the step that needs care is
`Change` on a full queue, where a name is dropped and those who watched only it
are owed less: that is `Flood`, and `SetOfPut` shows that the newest name is
always in the queue. This module extends both
`ConsolePage` and `LiveStream`, which is why the names of the latter that the
two would share carry the prefix `Live`.

Of the pages the same module proves every safety property, for any page and form
that satisfies `TableAssumption` and any number of changes, reads, requests and
faults. `TableAssumption`, which TLC evaluates for all of the table, says what
the proof uses of it: a page that watches the audit log hears of every form's
change, a panel that drops answers to an earlier key has no form but one whose
answer it shows, and the flag of a row's button is the page's. `NewestIsComing`
strengthens `StaleForAReason` to every state: as long as nothing went wrong,
what there is is shown, or has been read, or will be. It rests on
`VersionsInOrder` - nothing shown or under way is newer than the truth - so that
an answer which comes after the newest is an older one, and an excuse;
`NoOtherKey` adds that without keys nothing foreign is ever under way, and
`OnlyItsKey` that a careful panel has nothing else under way than its key's.
`OneAtATime` speaks of requests, the code only of flags. `FlagIsTrue` joins the
two: of the requests whose end clears the flag there is at most one (`Sole`),
and while there is one the flag is set (`Taken`). It has to survive a dialog
that is closed with its request out, opened again, and closed by the first one's
late answer: where the flag is the dialog's own the new one starts with a flag
of its own, and where it is the page's the request of the closed dialog still
holds it. The lemmas about sending, ending and abandoning requests
(`RemovedKeeps`, `OrphanedKeeps`, ...) are shared by both.

`SignInProofs` proves `ActsAsShown` and `TokenIsShown` for any number of tabs,
accounts and sessions. Neither is inductive: the invariant `Inv` says that what
a tab shows it can prove (`TabsKnow`), that so can every request and every
answer on its way (`RequestsKnow`), and that a live session has an owner
(`SessionsKnow`); the owner of a session never changes. The point of the
argument is that a change goes through only if the token it carries is that of
the session its cookie names, so the cookie another tab has set meanwhile makes
a change fail and never lets it act for somebody else.

`PolicyEditorProofs` proves `EditsSurvive` and `SaveWaits` for every choice of
settings and every bound. What it assumes of the settings is read off their
table and evaluated with it: a file goes to the copy or to a dialog
(`SettingAssumption`). `Counted` says that `uploadTracker`'s count is exactly the
number of files that are being read and waited for, those included whose dialog
or page is gone; so when Save finds it 0, none of them is missing. `Coming`
strengthens `EditsSurvive`: a setting that differs from what was made of it
waits for a file that will bring just that value, not merely for some file - of
two files picked for one setting the earlier may bring the value that has been
replaced since. `OnlySaveSends` shows that no other step, an answer least of
all, adds a save of this page to what is under way.

`LeaderProofs` proves `OneRuns` and `StraysStop` for any number of replicas,
losses and shutdowns and any two intervals, and a bound no run states: `n` lost
connections let at most `n + 1` replicas do the work at a time
(`OverlapIsBounded`). `LockIsHeld` says that tasks run under the lock or over a
connection that is lost, and from which phases only - without the phases of a
lock's holder it is not inductive, for a holder that asked again would give its
connection back and keep the lock. `StraysAreCounted` has a lost connection
for each replica that runs without the lock; `StraysAreTimed` adds, phase by
phase, what is left of the sleep to the time astray, as `Timely` does for tasks.

`AgentLoopProofs` proves `WaitIsTheDomains` and `NewIsApplied` for any set of
policies, whatever each says of updates, and any number of edits, releases,
withdrawals, failures and crashes. It assumes that there is a release
(`NumberAssumption`), that a policy pins none that will never be
(`UpdateAssumption`), and that no policy has the serial "none", which stands for
the missing one (`DocAssumption`; a serial is a SHA-256 in hexadecimal). The
first needs that `refresh-minutes` always repeats what was told
(`WaitIsSettled`) and `BackoffBounds`, a lemma about the doubling. For the
second, `MemoryIsTrue` follows `last-serial` through a pass: what this release
recorded is in force, or an offer waits that keeps it from being skipped, or the
policy has moved on from it (`RecordIsTrue`). The last two are why
`NewIsApplied` has its four exceptions (`again`): each is a way in which a
record that is no longer true becomes one that is compared again - a forced pass
on an unchanged policy, an edit back to the recorded policy, an offer that
waited and is withdrawn or is the running release's number again, and a restart
into the release that wrote the record. `again` is reset by the next pass that
applies everything. `PassIsFormed` says what each phase of a pass holds.
`FaultsAreCounted` is what bounds the failures in a row: each is one of the
bounded faults, the withdrawal of a release under the pass among them;
`TasksAreFew` bounds the tasks, for a push is queued only when there was none
and one click may come between.

`ServerRolesProofs` proves `InstallingIsWaitedFor` and `ActiveIsLastReport` for
any machines, roles and requests. The first is inductive beside the types. The
second needs `ResultsAreHeld`: a result that waits to be applied is that of the
task its machine's agent is still on, so of one row at most one waits and a row
cannot be set by an older one after a newer; `SaidIsNewest` then says that the
machine's last word is the outcome of that result, or what the row says once it
has been applied. This is where the first of the assumptions on the agent's side
(see "TaskAgent" above) is used.

`DefinitionsProofs` proves `ApplyingIsWaitedFor` of all behaviours, with any
number of requests about one definition under way. `RowsAreWaitedFor` is the
stronger statement: "applying" waits for a request that has yet to queue its
task or for the *last* apply of the row's id, a tunnel's removal counted among
those, and where a stop has cut a handler off, no request from before the row
was created is left to hide that again. `ActiveIsServed` and `WithdrawnIsGone`
are not true of all behaviours: with two edits of one share at a time the second
written may be queued first (`Definitions_stale.cfg`). They are proved for the
behaviours in which requests about one definition come one after another, `Spec
/\ []OneEach`; requests about different definitions overlap as they like (a
peer's creation or deletion is a request about its tunnel). (The run
`defs_single` has one request altogether, and so satisfies `OneEach`.) The
argument is in two halves. `InTurn` and `NewestIsServed`, of all behaviours:
tasks of a machine run in the order they were queued, so what the last one left
is what is served - also when an agent died in between or its answer was lost.
`AllAreTold`, of those with `OneEach`: the last task queued carries what the row
says, or a request is under way that will queue one or has yet to delete the row
it has queued the removal of, or a stop cut one off. So a row that a tunnel's
removal has just made "active" is about to be deleted, or its handler was cut
off, which `ActiveIsServed` excepts.

The theorems about roles and definitions rest on `TaskAgent`, whose queue is
`TaskQueue`; that the detailed queue implements it is `QueueImplemented`. That
a machine has one agent, and that a result is carried over before the next task
begins, remain assumptions.

Only model-checked are
- liveness (`EveryTaskSettles`, `EveryInstallEnds`, `PolicyArrives`, `OneLeads`,
  `OwedIsRead`, `StreamComesBack`, `SettledIsShown`, `LoadingEnds`,
  `SaveComesBack`): fairness and `ENABLED` are out of the prover's reach;
- what the tables of pages, calls and settings are assumed to satisfy
  (`CallAssumption`, `TableAssumption`, `SettingAssumption`): TLC evaluates them.

## Not modelled

What a task does on the machine is a success, a failure or a death; texts,
progress lines and audit records change nothing that is decided on (that a row
of the audit log notifies the console is modelled). Rendering of configuration,
LDAP, X.509 and Kerberos are I/O. Of the console: the wiki, which is
documentation text, a quarter of the console's lines; what a page draws, sorts,
filters or checks before it sends; the widgets; the terminal and the shared
screen, which draw a stream of bytes (their sessions are planned); type
declarations. Of a setting of a policy object only the shape, the fields and
the file are kept, not what its values mean. The parts without a module are
listed in `PROJECT.json` with the reason.

## Plan

1. Done: the queue, its refinement and proofs; roles; definitions; the agent's
   loop; leadership; the console's live updates with their refinement and
   proofs; sessions in several tabs with their proofs; the pages; the policy
   editor with its proofs.
2. Next, in this order: enrolment and join tokens (a use counted after the
   check); one-time codes and push approvals; scheduled backups on `TaskAgent`
   and `Leader`; remote desktop collections (several tasks, one row) as an
   extension of `Definitions`; alert rules; the recycle bin; sessions that cross
   replicas; policy resolution and authorization as operators against reference
   definitions.
3. Proofs: done for every safety property a run checks. Next: the modules of
   2, each with its own; that each step of `ConsolePage` treats the stream as
   `EventStream` allows.

----------------------------- MODULE ConsolePage -----------------------------
(***************************************************************************)
(* One part of the console at work (PageTable): it reads what it shows,    *)
(* reads it again when it is told of a change, on a timer, and after what  *)
(* its administrator did; its forms send changes.  Requests are answered   *)
(* in any order, long after the dialog or the page that sent them is gone. *)
(* The live updates are those EventStream promises.                        *)
(*                                                                         *)
(* What the page shows is a version of it: every accepted change counts,   *)
(* by whomever it is made.  A version may have a machine's work before it, *)
(* which ends when the machine reports (routes_agent.agent_task_result:    *)
(* the task's row first, then the row the page shows).  What belongs to    *)
(* another key of a panel (the zone, the folder or the words searched for) *)
(* counts as a version too, and a change may be to what any key shows.     *)
(* What is read for a key that was left is Foreign.  Messages are left     *)
(* out, but not what they keep open.                                       *)
(***************************************************************************)
EXTENDS PageTable, Integers, SequencesExt

CONSTANTS Name,         \* the pages looked at, of those of the table
          MaxChanges,   \* bound: versions
          MaxKeys,      \* bound: more of them, where there are keys
          MaxReads,     \* bound: answers to reads on their way
          MaxWrites,    \* bound: changes under way at a time
          KeyedWrites,  \* bound: of those, where there are keys
          MaxFaults     \* bound: reads failed, streams lost, answers lost

ASSUME NameAssumption == Name \subseteq DOMAIN Page
ASSUME BoundAssumption ==
  /\ MaxChanges \in Nat /\ MaxKeys \in Nat /\ MaxFaults \in Nat
  /\ MaxReads \in Nat \ {0} /\ MaxWrites \in Nat \ {0} /\ KeyedWrites \in 1 .. MaxWrites

VARIABLES
  page,       \* the page the administrator goes to, with the form used there
  here, up, owed,   \* its live updates: EventStream
  truth,      \* the version there is, and the machine's work before it
  shown,      \* the version the page shows, or NotRead
  asked,      \* reads sent and not yet served: for the key "here", or one "left"
  served,     \* versions on their way to the page
  dialog,     \* closed, open, or done: it shows what it did
  busy,       \* the flag that disables the form's button
  writes,     \* changes under way, in the order they were sent
  excuse,     \* history: what last went wrong since a read was served
  faults

pageVars == <<shown, asked, served>>
formVars == <<dialog, busy, writes>>
vars == <<page, here, up, owed, truth, pageVars, formVars, excuse, faults>>

\* Whether a page hears of statements on the tables T: the page is told of
\* "news", and no matter which.
Heard(p, T) == IF T \cap Told \cap p.watch = {} THEN {} ELSE {"news"}

\* A page with one of its forms, as far as its behaviour goes: pages that
\* hear, poll and offer the same are one.
Seen(p, f) ==
  [polls |-> p.polls, audited |-> "audit_log" \in p.watch,
   reported |-> Heard(p, {"node_task"}), settled |-> Heard(p, p.result),
   keyed |-> p.keyed, forgets |-> p.forgets,
   form |-> [f EXCEPT !.calls = {}, !.slot = IF @ \in {"row", "none"} THEN @ ELSE "dialog",
                      !.flag = IF f.guarded THEN @ ELSE "page",
                      !.early = Heard(p, @), !.late = Heard(p, @)]]

View == UNION {{Seen(Page[n], f) : f \in Page[n].forms \cup {NoForm}} : n \in Name}

\* What the table says of every page: a page that watches the audit log hears
\* of each form's change, one that drops the answers to an earlier key has no
\* form but one whose answer it shows, and the flag of a row is the page's.
ASSUME TableAssumption ==
  \A v \in View : /\ v.audited => v.form.late # {}
                  /\ v.keyed = "careful" => v.form.slot = "none" \/ v.form.rereads = "answer"
                  /\ v.form.slot = "row" => v.form.flag = "page"

Stream == INSTANCE EventStream
            WITH Listener <- {"page"}, Table <- {"news"}, Watch <- [l \in {"page"} |-> {"news"}],
                 changes <- 0, latest <- {}

NotRead == [n |-> -2, working |-> FALSE]
Foreign == [n |-> -1, working |-> FALSE]

Init ==
  /\ page \in View
  /\ Stream!Init
  /\ truth = [n |-> 0, work |-> "none"]
  /\ shown = NotRead /\ asked = {} /\ served = {}
  /\ dialog = "closed" /\ busy = FALSE /\ writes = <<>>
  /\ excuse = "none" /\ faults = 0

Mounted == here # {}

\* Bound.
NewVersion == truth.n < MaxChanges + (IF page.keyed = "no" THEN 0 ELSE MaxKeys)

\* Bound.
Room == Len(writes) < (IF page.keyed = "no" THEN MaxWrites ELSE KeyedWrites)

\* A change under way: who sent it, how far it is, and whether the page was
\* given another key since.
Request(by, stage) == [by |-> by, stage |-> stage, left |-> FALSE]

\* What a page shows of a version: the machine's task is not in it.
Picture == [n |-> truth.n, working |-> truth.work # "none"]

-----------------------------------------------------------------------------
\* Reads.

\* Mutant: not while another answer is awaited.
AskUnlessReading(key) ==
  asked' = (IF served = {} THEN asked \cup {key} ELSE asked) /\ UNCHANGED <<shown, served>>

Ask(key) == asked' = asked \cup {key} /\ UNCHANGED <<shown, served>>

\* The page is opened: its effects run for the first time.
Mount ==
  /\ ~Mounted /\ Stream!Join("page")
  /\ shown' = NotRead /\ asked' = {"here"} /\ served' = {}
  /\ excuse' = "none"
  /\ UNCHANGED <<page, truth, formVars, faults>>

\* The administrator goes elsewhere.  What was sent is not called back, and
\* its answer finds nobody: a change half made is from here on another's.
Leave ==
  /\ Mounted /\ Stream!Leave("page")
  /\ shown' = NotRead /\ asked' = {} /\ served' = {} /\ dialog' = "closed" /\ busy' = FALSE
  /\ writes' = LET half == {i \in DOMAIN writes : writes[i].stage = "begun"}
               IN [i \in 1 .. Cardinality(half) |-> Request("other", "begun")]
  /\ excuse' = "none"
  /\ UNCHANGED <<page, truth, faults>>

\* useLive: the listener reads again.
Reread ==
  /\ Stream!Reload("page") /\ Ask("here")
  /\ UNCHANGED <<page, truth, formVars, excuse, faults>>

\* Mutant: the timer is not set again once the page has shown anything.
PollDueUnread == shown = NotRead

\* setInterval, for as long as its effect holds.
PollDue == \/ page.polls = "always"
           \/ page.polls = "working" /\ shown.working

Poll ==
  /\ Mounted /\ PollDue /\ "here" \notin asked
  /\ Ask("here")
  /\ UNCHANGED <<page, here, up, owed, truth, formVars, excuse, faults>>

\* The control plane reads its tables.
Serve(key) ==
  /\ key \in asked /\ Cardinality(served) < MaxReads
  /\ asked' = asked \ {key}
  /\ \/ key = "here" /\ served' = served \cup {Picture} /\ excuse' = "none"
     \/ key = "left" /\ served' = served \cup {Foreign} /\ UNCHANGED excuse
  /\ UNCHANGED <<page, here, up, owed, truth, shown, formVars, faults>>

Older(v, w) == v.n < w.n \/ (v.n = w.n /\ v.working /\ ~w.working)

\* An answer arrives; nothing compares it with what is shown already, or
\* with the key the page has by now.  A chain goes on from here.
Show(v) ==
  /\ v \in served /\ served' = served \ {v}
  /\ shown' = v
  /\ asked' = IF page.polls = "chain" /\ v.working THEN asked \cup {"here"} ELSE asked
  /\ excuse' = IF ~Older(v, shown) THEN excuse
               ELSE IF v = Foreign THEN "foreign" ELSE "overtaken"
  /\ UNCHANGED <<page, here, up, owed, truth, formVars, faults>>

\* A read is refused or its answer lost; the page keeps what it shows, or
\* shows nothing.
FailRead(key) ==
  /\ key \in asked /\ faults < MaxFaults
  /\ faults' = faults + 1 /\ asked' = asked \ {key}
  /\ shown' = IF page.forgets THEN NotRead ELSE shown
  /\ excuse' = "failed"
  /\ UNCHANGED <<page, here, up, owed, truth, served, formVars>>

\* Mutant: the effect has no cleanup.
StillWantedAlways == served

\* What is on its way and will be shown, when another key is given.
StillWanted == IF page.keyed = "careful" THEN {} ELSE served

\* Another key is given, and asked for (a search: some time after the last
\* letter); what belongs to it is another version.  What was asked and sent
\* under the earlier key goes on under that one.
Choose ==
  /\ Mounted /\ page.keyed # "no" /\ NewVersion /\ truth.work = "none"
  /\ truth' = [truth EXCEPT !.n = @ + 1]
  /\ asked' = {"here"} \cup (IF page.keyed = "careful" \/ asked = {} THEN {} ELSE {"left"})
  /\ served' = StillWanted
  /\ writes' = [i \in DOMAIN writes |-> [writes[i] EXCEPT !.left = TRUE]]
  /\ UNCHANGED <<page, here, up, owed, shown, dialog, busy, excuse, faults>>

-----------------------------------------------------------------------------
\* Live updates.

Connect ==
  /\ Stream!Connect
  /\ UNCHANGED <<page, truth, pageVars, formVars, excuse, faults>>

\* What was under way is lost with the stream; nobody reads again when it is
\* back.
StreamLost ==
  /\ up /\ faults < MaxFaults
  /\ Stream!Drop
  /\ excuse' = IF owed' # owed THEN "stream" ELSE excuse
  /\ faults' = faults + 1
  /\ UNCHANGED <<page, truth, pageVars, formVars>>

\* Statements that notify the console, if there is news in them.
Tell(news) == IF up /\ news # {} THEN Stream!Tell("news") ELSE UNCHANGED <<here, up, owed>>

\* A change, and what is told of it; nobody may read again because of it.
Become(n, work, news) ==
  /\ truth' = [n |-> n, work |-> work]
  /\ Tell(news)
  /\ excuse' = IF ~Mounted THEN excuse
               ELSE IF news = {} THEN "untold" ELSE IF up THEN excuse ELSE "stream"

\* A machine reports: finish, and then the row the page shows.
Report ==
  /\ truth.work = "running"
  /\ truth' = [truth EXCEPT !.work = "reported"]
  /\ Tell(page.reported)
  /\ UNCHANGED <<page, pageVars, formVars, excuse, faults>>

Settle ==
  /\ truth.work = "reported"
  /\ Become(truth.n, "none", page.settled)
  /\ UNCHANGED <<page, pageVars, formVars, faults>>

-----------------------------------------------------------------------------
\* Changes.

form == page.form

Open ==
  /\ Mounted /\ dialog = "closed" /\ form.slot = "dialog"
  /\ dialog' = "open"
  /\ UNCHANGED <<page, here, up, owed, truth, pageVars, busy, writes, excuse, faults>>

\* The flag after the dialog is gone: a new one has its own, not set.
Outlived(b) == b /\ form.flag = "page"

\* Mutant: they are still taken for the dialog's.
OrphanedNever(ws) == ws

\* The dialog is gone; the requests it sent are not.
Orphaned(ws) == [i \in DOMAIN ws |-> IF ws[i].by = "dialog" THEN [ws[i] EXCEPT !.by = "gone"]
                                                             ELSE ws[i]]

\* Escape, the backdrop, the cross or Cancel: also while a request is out.
Close ==
  /\ dialog # "closed" /\ dialog' = "closed"
  /\ writes' = Orphaned(writes) /\ busy' = Outlived(busy)
  /\ UNCHANGED <<page, here, up, owed, truth, pageVars, excuse, faults>>

\* The button of a dialog that tells what it did.
Finish ==
  /\ dialog = "done" /\ dialog' = "closed"
  /\ writes' = Orphaned(writes) /\ busy' = Outlived(busy) /\ Ask("here")
  /\ UNCHANGED <<page, here, up, owed, truth, excuse, faults>>

Send(by) ==
  /\ form.guarded => ~busy
  /\ Room
  /\ writes' = Append(writes, Request(by, "sent")) /\ busy' = (busy \/ form.guarded)
  /\ UNCHANGED <<page, here, up, owed, truth, pageVars, dialog, excuse, faults>>

Submit == dialog = "open" /\ Send("dialog")

\* An action of a row, a menu or a button of the page itself.
Click == Mounted /\ form.slot = "row" /\ Send("row")

\* Another request of the page that uses the flag, and was sent whether or
\* not it was set, is answered.
ClearFlag ==
  /\ form.shared /\ busy /\ busy' = FALSE
  /\ UNCHANGED <<page, here, up, owed, truth, pageVars, dialog, writes, excuse, faults>>

Mine(w) == w.by # "other"

\* Mutant: the answer clears the flag of the dialog that is open by now.
ClearsAlways(w) == TRUE

\* Whether the flag the answer clears is that of the button there is now: a
\* dialog that is gone clears its own.
Clears(w) == w.by # "gone" \/ form.flag = "page"

\* A handler that queues its tasks before it changes its row.
Begin(i) ==
  /\ writes[i].stage = "sent" /\ form.early # {}
  /\ writes' = [writes EXCEPT ![i].stage = "begun"]
  /\ Tell(form.early)
  /\ UNCHANGED <<page, truth, pageVars, dialog, busy, excuse, faults>>

Make ==
  /\ NewVersion
  /\ Become(truth.n + 1, IF form.work THEN "running" ELSE truth.work, form.late)

\* The change is made, and the statements after it announce it.  The answer
\* may be what the page shows next, and it may be lost: the console then
\* takes the change for refused.
Accept(i) ==
  LET w == writes[i] IN
  /\ w.stage = (IF form.early = {} THEN "sent" ELSE "begun")
  /\ Make
  /\ \/ /\ Mine(w)
        /\ writes' = [writes EXCEPT ![i].stage = "accepted"]
        /\ served' = IF form.rereads # "answer" THEN served
                     ELSE served \cup {IF w.left THEN Foreign ELSE Picture'}
        /\ faults' = faults
     \/ /\ Mine(w) /\ faults < MaxFaults
        /\ writes' = [writes EXCEPT ![i].stage = "lost"]
        /\ served' = served /\ faults' = faults + 1
     \/ /\ ~Mine(w)
        /\ writes' = RemoveAt(writes, i) /\ UNCHANGED <<served, faults>>
  /\ UNCHANGED <<page, shown, asked, dialog, busy>>

\* Another administrator does what this page offers; only what a handler
\* does in two steps is ever seen under way.
Elsewhere ==
  /\ form.slot # "none" /\ UNCHANGED <<page, pageVars, dialog, busy, faults>>
  /\ \/ form.early = {} /\ Make /\ writes' = writes
     \/ /\ form.early # {} /\ Room
        /\ writes' = Append(writes, Request("other", "begun"))
        /\ Tell(form.early) /\ UNCHANGED <<truth, excuse>>

\* An answer is handled: the request is over, and the slot is left as it is
\* or given another content, whatever dialog is in it by now.  (Some clear
\* the flag only when the page is read again.)
Answered(i, content) ==
  /\ dialog' = IF dialog = "closed" THEN "closed" ELSE content
  /\ writes' = IF dialog' = "closed" THEN Orphaned(RemoveAt(writes, i)) ELSE RemoveAt(writes, i)
  /\ busy' = /\ busy /\ ~Clears(writes[i])
             /\ dialog' = "closed" => Outlived(busy)

\* The answer to an accepted change, or to a refused one whose refusal the
\* page does not look at.  What reads again is the function of the render
\* that sent the change, which asks for the key there was then.
HearAccepted(i) ==
  /\ Mine(writes[i])
  /\ \/ writes[i].stage = "accepted"
     \/ writes[i].stage \in {"sent", "lost"} /\ form.refusal = "swallowed"
  /\ Answered(i, IF form.closes THEN "closed"
                 ELSE IF form.rereads = "done" /\ writes[i].by = "dialog" THEN "done"
                 ELSE dialog)
  /\ IF form.rereads = "asks" THEN Ask(IF writes[i].left THEN "left" ELSE "here")
                              ELSE UNCHANGED pageVars
  /\ UNCHANGED <<page, here, up, owed, truth, excuse, faults>>

\* A refusal is told where the change was asked for; the dialog stays, with
\* what was typed, or is closed and the page tells.
HearRefused(i) ==
  /\ Mine(writes[i]) /\ writes[i].stage \in {"sent", "lost"} /\ form.refusal # "swallowed"
  /\ Answered(i, IF form.refusal = "closes" THEN "closed" ELSE dialog)
  /\ UNCHANGED <<page, here, up, owed, truth, pageVars, excuse, faults>>

Next ==
  \/ Mount \/ Leave \/ Reread \/ Poll \/ Choose
  \/ \E key \in asked : Serve(key) \/ FailRead(key)
  \/ \E v \in served : Show(v)
  \/ Connect \/ StreamLost \/ Report \/ Settle
  \/ Open \/ Close \/ Finish \/ Submit \/ Click \/ ClearFlag \/ Elsewhere
  \/ \E i \in DOMAIN writes : Begin(i) \/ Accept(i) \/ HearAccepted(i) \/ HearRefused(i)

Spec == Init /\ [][Next]_vars

\* Timers fire, reads are answered and the answers arrive, in whatever order;
\* live updates, machines and administrators may do nothing.
Fairness ==
  WF_vars(Poll) /\ WF_vars(\E key \in asked : Serve(key)) /\ WF_vars(\E v \in served : Show(v))

FairSpec == Spec /\ Fairness

-----------------------------------------------------------------------------

Versions == [n : -2 .. MaxChanges + MaxKeys, working : BOOLEAN]

TypeOK ==
  /\ page \in View /\ here \subseteq {"page"} /\ up \in BOOLEAN /\ owed \subseteq here
  /\ truth \in [n : 0 .. MaxChanges + MaxKeys, work : {"none", "running", "reported"}]
  /\ shown \in Versions /\ served \subseteq Versions /\ asked \subseteq {"here", "left"}
  /\ dialog \in {"closed", "open", "done"} /\ busy \in BOOLEAN
  /\ writes \in Seq([by : {"dialog", "gone", "row", "other"},
                     stage : {"sent", "begun", "accepted", "lost"}, left : BOOLEAN])
  /\ Len(writes) <= MaxWrites /\ faults \in 0 .. MaxFaults
  /\ excuse \in {"none", "overtaken", "foreign", "failed", "stream", "untold"}
  /\ dialog = "closed" => \A i \in DOMAIN writes : writes[i].by # "dialog"

Quiet == asked = {} /\ served = {} /\ owed = {} /\ writes = <<>>

\* A page at rest that does not show what there is has lost a read, had an
\* older answer arrive after a newer one, shows what was read for a key that
\* was left, has been without its stream, or shows something no event tells
\* of: there is no sixth way for it to be stale.  Only a page that is given
\* keys shows what belongs to another.  Every change made through the
\* console ends with a row of the audit log (audit.audited), so that for a
\* page that watches it only a machine's report is of the last kind.
StaleForAReason ==
  /\ Mounted /\ Quiet /\ shown # Picture => excuse # "none"
  /\ excuse = "foreign" => page.keyed # "no"
  /\ page.audited /\ truth.work = "none" /\ ~form.work => excuse # "untold"

\* A button that is disabled while its request is out has one out at most,
\* through refusals, lost answers and the answers to dialogs closed before:
\* the late answer never counts for the dialog that is open by then.  (Not
\* so where other requests clear the same flag.)
OneAtATime ==
  form.guarded /\ ~form.shared => \A i, j \in DOMAIN writes :
    i # j /\ writes[i].by = writes[j].by => writes[i].by \in {"gone", "other"}

\* What drops the answers to an earlier key never shows one after the answer
\* to its own; the answer to a form of it is looked at by nobody.
CarefulShowsItsKey ==
  page.keyed = "careful" /\ form.rereads # "answer" => excuse \notin {"overtaken", "foreign"}

\* A page that polls while a machine works does not go on for ever showing the
\* work as under way when it has ended, also without its stream; a chain
\* does, once something of it was lost.
SettledIsShown ==
  LET behind == Mounted /\ truth.work = "none" /\ shown.working
      polled == page.polls = "always" \/ page.polls = "working"
                  \/ (page.polls = "chain" /\ faults = 0)
  IN  []<>~(behind /\ polled)

\* "Re-read when the domain changes, so the page is never stale": at rest,
\* connected, and without anything lost or overtaken, a page shows what
\* there is (NetworkAccess.tsx, and twelve more pages).
NeverStale ==
  Mounted /\ up /\ Quiet /\ excuse \notin {"overtaken", "foreign", "failed", "stream"}
    => shown = Picture

=============================================================================

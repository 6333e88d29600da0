---------------------------- MODULE PolicyEditor ----------------------------
(***************************************************************************)
(* One policy object in the console (GpoDetail and HistoryTab of           *)
(* web/src/pages/Policy.tsx, the editors of SettingsTable, FileInput and   *)
(* uploadTracker) and behind it (api/odm/routes_policy.py).  The detail    *)
(* page takes a copy of the settings when it is opened; editors change the *)
(* copy, Save sends all of it, and what is read after a save replaces what *)
(* the page shows of the object but not the copy.  A file is read while    *)
(* editing goes on, and what it brings is put into the copy as it was when *)
(* the file was picked.  The handlers read the object, keep what they read *)
(* as a revision, and write, in statements of their own.                   *)
(***************************************************************************)
EXTENDS SettingsTable, Integers, SequencesExt

CONSTANTS Chosen,        \* the settings looked at
          MaxWrites,     \* bound: saves sent
          MaxUnderWay,   \* bound: requests sent and files being read
          MaxFaults      \* bound: requests or their answers lost

ASSUME ChosenAssumption == Chosen \subseteq DOMAIN Setting
\* A setting that takes a file takes it into the copy or into a dialog.
ASSUME SettingAssumption ==
  \A s \in DOMAIN Setting : s # "none" /\ Setting[s].where \in {"draft", "dialog"}
ASSUME BoundAssumption ==
  MaxWrites \in Nat /\ MaxUnderWay \in Nat \ {0} /\ MaxFaults \in Nat

\* What can be told apart of a setting: as it is first found, or another.
Other(v) == IF v = "old" THEN "new" ELSE "old"
Start == [s \in Chosen |-> "old"]

VARIABLES
  now,        \* the object's settings
  there,      \* "yes" until it is deleted
  kept,       \* gpo_revision: what it has been
  page,       \* list or detail
  draft,      \* the detail's copy of the settings
  busy,       \* a save or the removal this detail sent is under way
  entry,      \* the setting whose entry dialog is open, and its picked file
  pending,    \* uploadTracker's count
  reading,    \* files being read, each with the copy it will be put into
  astray,     \* how many FileInput still waits for that nobody will take
  calls,      \* requests under way
  writes, faults,
  wanted,     \* history: what the administrator last made of each setting
  overrun     \* history: settings a file took back by arriving late, or
              \* is missing from, its dialog saved before it arrived

store == <<now, there, kept>>
copies == <<draft, wanted, overrun>>
files == <<entry, pending, reading, astray>>
bounds == <<writes, faults>>
vars == <<store, page, busy, copies, files, calls, bounds>>

Shut == [of |-> "none", file |-> "none"]

Init ==
  /\ now = Start /\ there = "yes" /\ kept = {}
  /\ page = "list" /\ busy = "no"
  /\ draft = Start /\ wanted = Start /\ overrun = {}
  /\ entry = Shut /\ pending = 0 /\ reading = {} /\ astray = 0
  /\ calls = <<>>
  /\ writes = 0 /\ faults = 0

-----------------------------------------------------------------------------
\* Editing.

\* No dialog covers the page.
Editing == page = "detail" /\ entry = Shut

\* An editor's control: its own part of the copy, the rest as it is.
Edit(s) ==
  /\ Editing
  /\ draft' = [draft EXCEPT ![s] = Other(@)]
  /\ wanted' = [wanted EXCEPT ![s] = draft'[s]] /\ overrun' = overrun \ {s}
  /\ UNCHANGED <<store, page, busy, files, calls, bounds>>

\* The dialog of a new entry, or of one there is.
OpenEntry(s) ==
  /\ Editing /\ Setting[s].where = "dialog" /\ entry' = [Shut EXCEPT !.of = s]
  /\ UNCHANGED <<store, page, busy, copies, pending, reading, astray, calls, bounds>>

\* Mutant: FileInput does not wait for the file it hands on.
CountsNothing(s) == 0

\* What FileInput adds to the count for as long as onChoose takes; where
\* nobody awaits the file, onChoose has returned by then.
Counts(s) == IF Setting[s].file = "awaited" THEN 1 ELSE 0

Room == Len(calls) + Cardinality(reading) + astray < MaxUnderWay

\* Nobody is left to take what is read for these.
Abandon(R) ==
  /\ reading' = reading \ R
  /\ astray' = astray + Cardinality({r \in R : Counts(r.of) > 0})

\* Cancel, or Save: the entry as the dialog has it is put into the copy.
CloseEntry ==
  /\ entry # Shut /\ entry' = Shut /\ Abandon({r \in reading : r.to = "dialog"})
  /\ UNCHANGED <<store, page, busy, pending, calls, bounds>>

CancelEntry == CloseEntry /\ UNCHANGED copies

SaveEntry ==
  /\ CloseEntry
  /\ LET s == entry.of IN
     /\ wanted' = [wanted EXCEPT ![s] = Other(draft[s])]
     /\ IF entry.file = "reading" THEN draft' = draft /\ overrun' = overrun \cup {s}
        ELSE draft' = [draft EXCEPT ![s] = Other(@)] /\ overrun' = overrun \ {s}

-----------------------------------------------------------------------------
\* Files.

\* A file is picked.  The editor's callback keeps the copy it was rendered
\* with, and the page may be left, or another setting shown, while it reads.
Pick(s) ==
  /\ page = "detail" /\ Setting[s].file # "none" /\ Room
  /\ entry = IF Setting[s].where = "dialog" THEN [of |-> s, file |-> "none"] ELSE Shut
  /\ LET r == [of |-> s, to |-> Setting[s].where, base |-> IF entry = Shut THEN draft ELSE Start]
     IN r \notin reading /\ reading' = reading \cup {r}
  /\ pending' = pending + Counts(s)
  /\ entry' = IF entry = Shut THEN Shut ELSE [entry EXCEPT !.file = "reading"]
  /\ wanted' = IF entry = Shut THEN [wanted EXCEPT ![s] = Other(draft[s])] ELSE wanted
  /\ UNCHANGED <<store, page, busy, draft, overrun, astray, calls, bounds>>

\* Mutant: the count is given back only by a file that was read.
EndUploadIfRead(n, how) == pending' = IF how = "read" THEN pending - n ELSE pending

\* endUpload, in a finally.
EndUpload(n, how) == pending' = pending - n

\* What a file brings: its own setting, in the copy as it was.
Brought(r) == [r.base EXCEPT ![r.of] = Other(@)]

Read(r) ==
  /\ r \in reading /\ reading' = reading \ {r} /\ EndUpload(Counts(r.of), "read")
  /\ draft' = IF r.to = "draft" THEN Brought(r) ELSE draft
  /\ overrun' = {s \in Chosen : draft'[s] # wanted[s] /\ (draft[s] = wanted[s] \/ s \in overrun)}
  /\ entry' = IF r.to = "dialog" THEN [entry EXCEPT !.file = "read"] ELSE entry
  /\ UNCHANGED <<store, page, busy, wanted, astray, calls, bounds>>

\* It cannot be read; the editor leaves everything as it is.
ReadFails(r) ==
  /\ r \in reading /\ reading' = reading \ {r} /\ EndUpload(Counts(r.of), "failed")
  /\ entry' = IF r.to = "dialog" THEN [entry EXCEPT !.file = "none"] ELSE entry
  /\ IF r.to = "draft"
     THEN wanted' = [wanted EXCEPT ![r.of] = draft[r.of]] /\ overrun' = overrun \ {r.of}
     ELSE UNCHANGED <<wanted, overrun>>
  /\ UNCHANGED <<store, page, busy, draft, astray, calls, bounds>>

\* Read or not, nobody looks.
AstrayEnds(how) ==
  /\ astray > 0 /\ astray' = astray - 1 /\ EndUpload(1, how)
  /\ UNCHANGED <<store, page, busy, copies, entry, reading, calls, bounds>>

-----------------------------------------------------------------------------
\* Requests.

\* from: this page, one that is closed, or another administrator's.
Call(kind, what) ==
  [kind |-> kind, what |-> what, from |-> IF kind = "open" THEN "list" ELSE "page",
   stage |-> "sent"]

Send(c) == Room /\ calls' = Append(calls, c)

\* open(): from the list.
Open ==
  /\ page = "list" /\ Send(Call("open", Start))
  /\ UNCHANGED <<store, page, busy, copies, files, bounds>>

\* The button is disabled while anything is under way it knows of.
CanSave == busy = "no" /\ pending = 0

Save ==
  /\ Editing /\ CanSave
  /\ writes < MaxWrites /\ writes' = writes + 1
  /\ Send(Call("save", draft)) /\ busy' = "yes"
  /\ UNCHANGED <<store, page, copies, files, faults>>

\* Another administrator saves, with a copy of his own.
SaveElsewhere ==
  /\ writes < MaxWrites /\ writes' = writes + 1
  /\ Send([Call("save", [s \in Chosen |-> "new"]) EXCEPT !.from = "elsewhere"])
  /\ UNCHANGED <<store, page, busy, copies, files, faults>>

\* HistoryTab: its dialog may be submitted again before it is answered.
Rollback(what) ==
  /\ Editing /\ what \in kept /\ Send(Call("rollback", what))
  /\ UNCHANGED <<store, page, busy, copies, files, bounds>>

RemoveObject ==
  /\ Editing /\ busy = "no" /\ Send(Call("remove", Start)) /\ busy' = "yes"
  /\ UNCHANGED <<store, page, copies, files, bounds>>

Staged(i, stage) == calls' = [calls EXCEPT ![i].stage = stage]

Writes(c) == c.kind \in {"save", "rollback"}

\* update_gpo, rollback_gpo: SELECT, and the revision made of what it found.
Begin(i) ==
  /\ Writes(calls[i]) /\ calls[i].stage = "sent"
  /\ kept' = IF there = "yes" THEN kept \cup {now} ELSE kept
  /\ Staged(i, IF there = "yes" THEN "begun" ELSE "gone")
  /\ UNCHANGED <<now, there, page, busy, copies, files, bounds>>

\* The UPDATE, which finds no row when the object was deleted meanwhile.
Update(i) ==
  /\ Writes(calls[i]) /\ calls[i].stage = "begun"
  /\ now' = IF there = "yes" THEN calls[i].what ELSE now
  /\ Staged(i, IF there = "yes" THEN "ok" ELSE "failed")
  /\ UNCHANGED <<there, kept, page, busy, copies, files, bounds>>

\* delete_gpo; the revisions go with the object.
Delete(i) ==
  /\ calls[i].kind = "remove" /\ calls[i].stage = "sent"
  /\ there' = "no" /\ kept' = {} /\ now' = Start
  /\ Staged(i, IF there = "yes" THEN "ok" ELSE "gone")
  /\ UNCHANGED <<page, busy, copies, files, bounds>>

Fetch(i) ==
  /\ calls[i].kind = "open" /\ calls[i].stage = "sent"
  /\ calls' = [calls EXCEPT ![i].stage = IF there = "yes" THEN "ok" ELSE "gone",
                            ![i].what = now]
  /\ UNCHANGED <<store, page, busy, copies, files, bounds>>

\* The request does not get there, its handler ends halfway, or its answer
\* is lost.
Lose(i) ==
  /\ calls[i].stage \in {"sent", "begun", "ok"} /\ faults < MaxFaults /\ faults' = faults + 1
  /\ Staged(i, "failed")
  /\ UNCHANGED <<store, page, busy, copies, files, writes>>

Serve(i) == Begin(i) \/ Update(i) \/ Delete(i) \/ Fetch(i)

-----------------------------------------------------------------------------
\* Answers.

Answered(i) == calls[i].stage \in {"ok", "gone", "failed"}

\* The calls of a page that is closed.
Orphans(S) == [k \in DOMAIN S |-> [S[k] EXCEPT !.from = IF @ = "page" THEN "closed" ELSE @]]

\* setSelected(null): the page is unmounted, with all its state.
Closed(rest) ==
  /\ page' = "list" /\ busy' = "no" /\ entry' = Shut
  /\ draft' = Start /\ wanted' = Start /\ overrun' = {}
  /\ Abandon(reading) /\ calls' = Orphans(rest)
  /\ UNCHANGED pending

Back ==
  /\ page = "detail" /\ Closed(calls)
  /\ UNCHANGED <<store, bounds>>

\* Mutant: the copy is made again of what was read.
DraftAnew(what) == draft' = what

\* GpoDetail's state has its first value from what it is given first, and
\* keeps it.
DraftAfterReload(what) == UNCHANGED draft

\* setSelected(what was read): opens the page, if it is not open by now.
OpenAnswered(i) ==
  /\ calls[i].kind = "open" /\ Answered(i) /\ calls' = RemoveAt(calls, i)
  /\ IF calls[i].stage # "ok" THEN UNCHANGED <<page, busy, copies>>
     ELSE IF page = "detail"
     THEN DraftAfterReload(calls[i].what) /\ UNCHANGED <<page, busy, wanted, overrun>>
     ELSE /\ page' = "detail" /\ busy' = "no" /\ draft' = calls[i].what /\ wanted' = draft'
          /\ overrun' = {}
  /\ UNCHANGED <<store, files, bounds>>

\* onReload, whoever is there to see it; another administrator's is his.
WriteAnswered(i) ==
  /\ Writes(calls[i]) /\ Answered(i)
  /\ busy' = IF calls[i].kind = "save" /\ calls[i].from = "page" THEN "no" ELSE busy
  /\ calls' = IF calls[i].stage = "ok" /\ calls[i].from # "elsewhere"
              THEN [calls EXCEPT ![i] = Call("open", Start)]
              ELSE RemoveAt(calls, i)
  /\ UNCHANGED <<store, page, copies, files, bounds>>

\* Gone already is the outcome that was asked for.
RemoveAnswered(i) ==
  /\ calls[i].kind = "remove" /\ Answered(i)
  /\ IF calls[i].stage \in {"ok", "gone"} THEN Closed(RemoveAt(calls, i))
     ELSE /\ calls' = RemoveAt(calls, i)
          /\ busy' = IF calls[i].from = "page" THEN "no" ELSE busy
          /\ UNCHANGED <<page, copies, files>>
  /\ UNCHANGED <<store, bounds>>

Hear(i) == OpenAnswered(i) \/ WriteAnswered(i) \/ RemoveAnswered(i)

-----------------------------------------------------------------------------

Next ==
  \/ \E s \in Chosen : Edit(s) \/ OpenEntry(s) \/ Pick(s)
  \/ CancelEntry \/ SaveEntry
  \/ \E r \in reading : Read(r) \/ ReadFails(r)
  \/ \E how \in {"read", "failed"} : AstrayEnds(how)
  \/ Open \/ Save \/ SaveElsewhere \/ RemoveObject \/ Back
  \/ \E what \in kept : Rollback(what)
  \/ \E i \in DOMAIN calls : Serve(i) \/ Lose(i) \/ Hear(i)

\* The control plane answers, and a browser gives up on what is not answered:
\* of what is under way the request sent first gets its answer, in the end.
Fairness == WF_vars(calls # <<>> /\ (Serve(1) \/ Hear(1)))

Spec == Init /\ [][Next]_vars /\ Fairness

-----------------------------------------------------------------------------
\* Properties.

\* What the administrator made of a setting is what the page has of it and a
\* save would send, whatever was saved, read again, rolled back or answered
\* late meanwhile, but for files: one still being read, one that came after a
\* later edit and took it back, or one whose dialog did not wait for it.
EditsSurvive ==
  \A s \in Chosen : draft[s] # wanted[s] =>
    s \in overrun \/ \E r \in reading : r.of = s /\ r.to = "draft"

SaveSent ==
  Len(calls') > Len(calls) /\ Last(calls').kind = "save" /\ Last(calls').from = "page"

\* Save waits for every file FileInput was told to wait for, so none of them
\* is missing from what is sent (uploadTracker, and the disabled of Save).
SaveWaits ==
  [][SaveSent => \A r \in reading : Setting[r.of].file # "awaited"]_vars

NothingRead == reading = {} /\ astray = 0

\* Save is not disabled for good: when no file is being read, the button
\* comes back with the answer to what was sent, or the page is closed.
SaveComesBack ==
  page = "detail" /\ NothingRead /\ ~CanSave ~> CanSave \/ page = "list" \/ ~NothingRead

\* "Save must not fire in that gap": between picking a file and having it in
\* the settings (Policy.tsx, FileInput.tsx).
NoSaveInTheGap == [][SaveSent => \A r \in reading : r.to = "dialog"]_vars

\* "Every save keeps the state before it": what an update overwrites is in
\* the object's history (Policy.tsx, routes_policy.rollback_gpo).
OverwrittenIsKept == [][now' # now /\ there' = "yes" => now \in kept']_vars

=============================================================================

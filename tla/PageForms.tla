----------------------------- MODULE PageForms -----------------------------
(***************************************************************************)
(* How the tables of the console's pages are written down.  A page of the  *)
(* table is a part of the console that reads what it shows by itself: a    *)
(* page, one of its tabs, or a panel beside its list.  A form is whatever  *)
(* sends a change: a dialog, a button of a row, an entry of a menu.        *)
(***************************************************************************)
EXTENDS ConsoleApi, FiniteSets

\* The tables whose changes are told: those of the array of 0037_live_updates
\* that exist.  It also names share, rd_host, certificate and dhcp_scope,
\* which no migration creates (they are file_share, rd_collection_host,
\* ca_certificate, and nothing: Kea keeps its scopes).
Told == {"audit_log", "node_task", "server_role", "rd_collection", "printer", "gpo",
         "gpo_link", "computer_fact", "agent_report", "vpn_peer", "deleted_object",
         "rbac_assignment", "totp_enrolment", "password_policy"}

\* WATCH of live.ts.
Watched(part) ==
  CASE part = "directory"     -> {"audit_log", "computer_fact", "rbac_assignment"}
    [] part = "policy"        -> {"gpo", "gpo_link", "audit_log"}
    [] part = "roles"         -> {"server_role", "node_task"}
    [] part = "servers"       -> {"computer_fact", "agent_report", "node_task", "server_role"}
    [] part = "shares"        -> {"share", "node_task"}
    [] part = "printers"      -> {"printer", "node_task"}
    [] part = "remoteDesktop" -> {"rd_collection", "rd_host", "node_task", "computer_fact"}
    [] part = "vpn"           -> {"vpn_peer", "node_task"}
    [] part = "certificates"  -> {"certificate", "audit_log"}
    [] part = "recycleBin"    -> {"deleted_object"}
    [] part = "dhcp"          -> {"dhcp_scope", "node_task", "audit_log"}
    [] part = "overview"      -> {"computer_fact", "server_role", "audit_log", "agent_report"}
    [] part = "delegation"    -> {"rbac_assignment", "audit_log"}
    [] part = "nothing"       -> {}

\* A page: what it asks for, what it watches, its timer ("never", "always",
\* "working": while a row waits for a machine, or "chain": set by an answer
\* that shows one still waiting, and by nothing else), the tables written
\* when a machine's result reaches such a row, and its forms.
Part(asks, part, polls, result, forms) ==
  [asks |-> asks, watch |-> Watched(part), polls |-> polls, result |-> result, forms |-> forms,
   keyed |-> "no", forgets |-> FALSE]

\* It reads again for each key it is given, and shows whatever answer is the
\* last to arrive; a careful one drops the answer for an earlier key.
Keyed(p)      == [p EXCEPT !.keyed = "yes"]
Careful(p)    == [p EXCEPT !.keyed = "careful"]
\* A failed read leaves it empty, as if there were nothing.
Forgetting(p) == [p EXCEPT !.forgets = TRUE]

\* A dialog in a slot of the page's state (slots are the variables that say
\* which dialog is open), sending one of the calls; the handler writes the
\* tables and then the audit log.  It is disabled while its busy flag is set
\* (guarded): from its call to the answer.  The flag is the dialog's own,
\* and gone with it.  It tells a refusal and stays, and after the answer is
\* closed and the page read again.
Dialog(slot, calls, tables) ==
  [slot |-> slot, calls |-> calls, guarded |-> TRUE, flag |-> "own", shared |-> FALSE,
   refusal |-> "stays", closes |-> TRUE, rereads |-> "asks",
   early |-> {}, late |-> tables \cup {"audit_log"}, work |-> FALSE]

\* A button of a row or a menu: nothing is disabled, nothing is closed, and
\* the page tells the refusal.
Row(calls, tables) ==
  [Dialog("row", calls, tables) EXCEPT !.guarded = FALSE, !.flag = "page", !.closes = FALSE]

NoForm == [Row({}, {}) EXCEPT !.slot = "none"]

\* What a form does otherwise than these two.
Guarded(f)   == [f EXCEPT !.guarded = TRUE]
Unguarded(f) == [f EXCEPT !.guarded = FALSE]
OfThePage(f) == [f EXCEPT !.flag = "page"]           \* the page keeps the flag, and outlives it
\* Other requests of the page set and clear the flag without looking at it.
Shared(f)    == [Guarded(f) EXCEPT !.shared = TRUE]
Swallowed(f) == [f EXCEPT !.refusal = "swallowed"]   \* .catch(() => undefined)
Dismissed(f) == [f EXCEPT !.refusal = "closes"]      \* closed by a refusal too
StaysOpen(f) == [f EXCEPT !.closes = FALSE]
NotReread(f) == [f EXCEPT !.rereads = "no"]
Answering(f) == [f EXCEPT !.rereads = "answer"]      \* the answer is what is shown
\* The dialog then shows what was done, and is closed by its button or by
\* the cross; the page is read again by the button.
Telling(f)   == [f EXCEPT !.closes = FALSE, !.rereads = "done"]

\* The handler queues a task behind its row: the row waits for the machine.
Queued(f)  == [f EXCEPT !.late = @ \cup {"node_task"}, !.work = TRUE]
\* It queues a task no row waits for.
Tasked(f)  == [f EXCEPT !.late = @ \cup {"node_task"}]
\* It queues the task first, and then changes the row.
TaskFirst(f) == [f EXCEPT !.early = {"node_task"}]

=============================================================================

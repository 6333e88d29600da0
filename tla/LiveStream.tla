----------------------------- MODULE LiveStream -----------------------------
(***************************************************************************)
(* Live updates of the console.  A trigger on a watched table notifies a   *)
(* channel (api/odm/migrations/0037_live_updates.sql); one connection of   *)
(* the control plane listens to it and puts the table's name into a        *)
(* bounded queue for every console that is connected (events.py,           *)
(* routes_events.py); the console opens one EventSource while any part of  *)
(* it is mounted that listens (web/src/live.ts), and a listener re-reads   *)
(* 400 ms after the last change of a table it watches: every such change   *)
(* clears the timer there is and sets another.                             *)
(***************************************************************************)
EXTENDS Integers, Sequences, SequencesExt

CONSTANTS Listener, Table, Watch,
          Depth,         \* QUEUE_DEPTH
          MaxRetry,      \* the most retry is counted to
          MaxBreaks      \* bound: streams broken and listening connections lost

ASSUME WatchAssumption == Watch \in [Listener -> SUBSET Table]
ASSUME LiveBoundAssumption ==
  Depth \in Nat \ {0} /\ MaxRetry \in Nat \ {0} /\ MaxBreaks \in Nat

VARIABLES
  listeners,   \* the mounted listeners
  source,      \* the EventSource: none, connecting or open
  retry,
  reconnect,   \* the timer that opens the stream again is set
  pending,     \* each listener's 400 ms timer: off, or which one it is
  queue,       \* table names on their way to this console
  listening,   \* the control plane's own connection hears the triggers
  changes,     \* history: turns with every change of a watched table,
  latest,      \* and the last of them
  breaks

liveVars == <<listeners, source, retry, reconnect, pending, queue, listening, changes, latest, breaks>>

LiveInit ==
  /\ listeners = {} /\ source = "none" /\ retry = 0 /\ reconnect = "off"
  /\ pending = [l \in Listener |-> "off"] /\ queue = <<>> /\ listening = "yes"
  /\ changes = 0 /\ latest = {} /\ breaks = 0

-----------------------------------------------------------------------------

\* Mutant: the stream is given up after so many failures.
OpenedUntilGivenUp(there) ==
  IF source = "none" /\ there # {} /\ retry < MaxRetry THEN "connecting" ELSE source

\* open: nothing to do while there is a source, or nobody to listen.
Opened(there) == IF source = "none" /\ there # {} THEN "connecting" ELSE source

\* useLive's effect: the listener is added and the stream opened.
Listen(l) ==
  /\ l \notin listeners
  /\ listeners' = listeners \cup {l}
  /\ source' = Opened(listeners')
  /\ UNCHANGED <<retry, reconnect, pending, queue, listening, changes, latest, breaks>>

\* Mutant: the reconnect timer outlives the last listener.
TimerKept(there) == reconnect

\* close, in so far as it is about the reconnect timer.
TimerLeft(there) == IF there = {} THEN "off" ELSE reconnect

\* Its cleanup: the listener's own timer is cleared, and the last listener
\* closes the stream and clears the reconnect timer (close).
Unmount(l) ==
  /\ l \in listeners
  /\ listeners' = listeners \ {l} /\ pending' = [pending EXCEPT ![l] = "off"]
  /\ reconnect' = TimerLeft(listeners')
  /\ IF listeners' = {} THEN source' = "none" /\ queue' = <<>> ELSE UNCHANGED <<source, queue>>
  /\ UNCHANGED <<retry, listening, changes, latest, breaks>>

\* The request for the stream is answered: the server subscribes a queue.
Subscribe ==
  /\ source = "connecting"
  /\ source' = "open" /\ queue' = <<>>
  /\ UNCHANGED <<listeners, retry, reconnect, pending, listening, changes, latest, breaks>>

\* source.onerror, from a stream that breaks or a request that fails.
Break ==
  /\ source # "none" /\ breaks < MaxBreaks
  /\ breaks' = breaks + 1
  /\ source' = "none" /\ queue' = <<>>
  /\ retry' = IF retry < MaxRetry THEN retry + 1 ELSE MaxRetry
  /\ reconnect' = "set"
  /\ UNCHANGED <<listeners, pending, listening, changes, latest>>

Reconnect ==
  /\ reconnect = "set"
  /\ reconnect' = "off" /\ source' = Opened(listeners)
  /\ UNCHANGED <<listeners, retry, pending, queue, listening, changes, latest, breaks>>

\* Mutant: a full queue keeps what it has.
PutUnlessFull(q, t) == IF Len(q) < Depth THEN Append(q, t) ELSE q

\* A full queue drops its oldest name.
Put(q, t) == Append(IF Len(q) < Depth THEN q ELSE Tail(q), t)

\* odm_notify and _on_notify: a queue exists only for a subscribed console.
Change(t) ==
  /\ changes' = 1 - changes /\ latest' = {t}
  /\ queue' = IF source = "open" /\ listening = "yes" THEN Put(queue, t) ELSE queue
  /\ UNCHANGED <<listeners, source, retry, reconnect, pending, listening, breaks>>

\* The connection Broadcaster.start took is lost; nothing takes another.
GoDeaf ==
  /\ listening = "yes" /\ breaks < MaxBreaks
  /\ listening' = "lost" /\ breaks' = breaks + 1
  /\ UNCHANGED <<listeners, source, retry, reconnect, pending, queue, changes, latest>>

\* clearTimeout and setTimeout: never the timer it was.
Another(timer) == IF timer = "one" THEN "other" ELSE "one"

\* source.onmessage, in every listener that watches the table: its timer is
\* set, or set anew.
Deliver ==
  /\ source = "open" /\ queue # <<>>
  /\ queue' = Tail(queue) /\ retry' = 0
  /\ pending' = [l \in Listener |-> IF l \in listeners /\ Head(queue) \in Watch[l]
                                     THEN Another(pending[l]) ELSE pending[l]]
  /\ UNCHANGED <<listeners, source, reconnect, listening, changes, latest, breaks>>

\* Mutant: an interval in the place of the timeout.
StillPending(l) == pending

\* A timeout that has fired is no longer set.
PendingAfter(l) == [pending EXCEPT ![l] = "off"]

\* The 400 ms are over of the timer there is: the listener reads again.
Fire(l, timer) ==
  /\ pending[l] = timer /\ timer # "off"
  /\ pending' = PendingAfter(l)
  /\ UNCHANGED <<listeners, source, retry, reconnect, queue, listening, changes, latest, breaks>>

Timer == {"one", "other"}

LiveNext ==
  \/ \E l \in Listener : Listen(l) \/ Unmount(l) \/ \E timer \in Timer : Fire(l, timer)
  \/ Subscribe \/ Break \/ Reconnect \/ GoDeaf \/ Deliver
  \/ \E t \in Table : Change(t)

LiveSpec == LiveInit /\ [][LiveNext]_liveVars

\* Timers that are left alone fire, requests are answered and frames arrive;
\* nothing has to change, break or be looked at.  A listener's timer that is
\* set anew again and again need never fire.
LiveFairness ==
  /\ WF_liveVars(Subscribe) /\ WF_liveVars(Reconnect) /\ WF_liveVars(Deliver)
  /\ \A l \in Listener : \A timer \in Timer : WF_liveVars(Fire(l, timer))

LiveFairSpec == LiveSpec /\ LiveFairness

-----------------------------------------------------------------------------

LiveTypeOK ==
  /\ listeners \subseteq Listener /\ pending \in [Listener -> Timer \cup {"off"}]
  /\ source \in {"none", "connecting", "open"}
  /\ retry \in 0 .. MaxRetry /\ reconnect \in {"off", "set"} /\ listening \in {"yes", "lost"}
  /\ queue \in Seq(Table)
  /\ changes \in {0, 1} /\ latest \subseteq Table /\ breaks \in 0 .. MaxBreaks

\* The listeners whose timer is set.
Set == {l \in Listener : pending[l] # "off"}

\* There is a stream, or a timer that will open one, exactly while somebody
\* listens: open, close, onerror and the reconnect timer never leave a
\* listener without either, nor a stream or a timer behind the last one.
StreamIsKept ==
  /\ listeners = {} => source = "none" /\ reconnect = "off" /\ Set = {}
  /\ listeners # {} => source # "none" \/ reconnect = "set"

\* No name waits for a console that is not subscribed, and no more names
\* than the queue holds.
QueueIsBounded == Len(queue) <= Depth /\ (source # "open" => queue = <<>>)

\* A listener will read again: its timer is set, or a name it watches is
\* under way.
Owed == Set \cup {l \in listeners : ToSet(queue) \cap Watch[l] # {}}

Promise == INSTANCE EventStream
             WITH here <- listeners, up <- (source = "open" /\ listening = "yes"), owed <- Owed

\* The stream of the console keeps what EventStream promises: a change is
\* lost only with a connection or behind more changes than the queue holds,
\* and then never the newest.
ImplementsPromise == Promise!Spec

\* What a listener is owed it gets, or loses with the stream or by leaving,
\* unless the tables it watches never stop changing: the timer counts from
\* the last change, with no limit from the first.
OwedIsRead ==
  \A l \in Listener : \/ []<>(l \notin Owed)
                      \/ []<><<\E t \in Watch[l] : Change(t)>>_liveVars

\* A console in which somebody goes on listening is in the end subscribed,
\* however often the stream broke: the back-off always has a timer behind it.
StreamComesBack == <>[](listeners # {}) => <>[](source = "open")

=============================================================================

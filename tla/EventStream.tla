---------------------------- MODULE EventStream ----------------------------
(***************************************************************************)
(* What the live updates of the console promise a part of it that shows    *)
(* some tables: while the console can be told of changes (up), a change of *)
(* a table it watches makes it owed a re-read.  A re-read it is owed may   *)
(* be lost when the connection is, or in a flood of changes, in which the  *)
(* oldest are forgotten and never the newest.  LiveStream implements it.   *)
(***************************************************************************)

EXTENDS Integers

CONSTANTS Listener,   \* parts of the console that watch tables
          Table,
          Watch       \* Watch[l]: the tables l watches

VARIABLES here,       \* the listeners that are mounted
          up,         \* the console can be told of changes
          owed,       \* the listeners that will re-read
          changes,    \* history: turns with every change,
          latest      \* and the table of the last one

streamVars == <<here, up, owed, changes, latest>>

Watchers(t) == {l \in here : t \in Watch[l]}

Init == here = {} /\ up = FALSE /\ owed = {} /\ changes = 0 /\ latest = {}

\* A mounted listener may find news of others' changes still under way.
Join(l) ==
  /\ l \notin here
  /\ here' = here \cup {l} /\ owed' \in {owed, owed \cup {l}}
  /\ UNCHANGED <<up, changes, latest>>

\* The last listener closes the connection behind it.
Leave(l) ==
  /\ l \in here
  /\ here' = here \ {l} /\ owed' = owed \ {l}
  /\ up' = (up /\ here' # {})
  /\ UNCHANGED <<changes, latest>>

Connect == ~up /\ here # {} /\ up' = TRUE /\ UNCHANGED <<here, owed, changes, latest>>

\* What was under way may be lost with the connection, then or later.
Drop == up' = FALSE /\ owed' \in SUBSET owed /\ UNCHANGED <<here, changes, latest>>

Changed(t) == changes' = 1 - changes /\ latest' = {t}

\* All who watch the table are owed a re-read, and nobody less than before.
Tell(t) == up /\ owed' = owed \cup Watchers(t) /\ UNCHANGED <<here, up>>

Announce(t) == Tell(t) /\ Changed(t)

\* More changes at a time than are kept: older ones may be forgotten.
Flood(t) ==
  /\ up /\ Changed(t)
  /\ \E S \in SUBSET owed : owed' = S \cup Watchers(t)
  /\ UNCHANGED <<here, up>>

Unheard(t) == ~up /\ Changed(t) /\ UNCHANGED <<here, up, owed>>

Reload(l) == l \in owed /\ owed' = owed \ {l} /\ UNCHANGED <<here, up, changes, latest>>

Next ==
  \/ \E l \in Listener : Join(l) \/ Leave(l) \/ Reload(l)
  \/ \E t \in Table : Announce(t) \/ Flood(t) \/ Unheard(t)
  \/ Connect \/ Drop

Spec == Init /\ [][Next]_streamVars

=============================================================================

--------------------------- MODULE ConsoleProofs ---------------------------
(***************************************************************************)
(* Pages and the stream that tells them.                                   *)
(*                                                                         *)
(* ConsolePage, for any page and form of the table (what is used of it is  *)
(* TableAssumption), and any number of changes, reads, requests and        *)
(* faults: why a page at rest may be stale, how many requests a dialog has *)
(* out, and whose answer a panel shows.                                    *)
(*                                                                         *)
(* LiveStream, for any listeners, tables and bounds: the stream is kept    *)
(* exactly while somebody listens, its queue is bounded, and it implements *)
(* EventStream, on which ConsolePage is built.                             *)
(***************************************************************************)
EXTENDS ConsolePage, LiveStream, FiniteSetTheorems, TLAPS

Write == [by : {"dialog", "gone", "row", "other"},
          stage : {"sent", "begun", "accepted", "lost"}, left : BOOLEAN]

\* The request whose end clears the flag of the button there is now, by who
\* keeps the flag.
Held(flag, w) == w.by = "dialog" \/ (w.by \in {"gone", "row"} /\ flag = "page")

Taken(flag, ws) == \E i \in DOMAIN ws : Held(flag, ws[i])

\* At most one such.
Sole(flag, ws) == \A i, j \in DOMAIN ws : Held(flag, ws[i]) /\ Held(flag, ws[j]) => i = j

\* Nobody waits for an answer in a closed dialog, only a page's own flag
\* has rows, and only a page that is given keys has left one.
Fit(w, d, flag, keyed) ==
  /\ d = "closed" => w.by # "dialog"
  /\ flag # "page" => w.by # "row"
  /\ keyed = "no" => ~ w.left

AllFit(ws, d, flag, keyed) == \A i \in DOMAIN ws : Fit(ws[i], d, flag, keyed)

\* The parts of a page: its live updates, what it reads, what it sends.
StreamType == here \subseteq {"page"} /\ up \in BOOLEAN /\ owed \subseteq here

ReadType ==
  /\ truth \in [n : 0 .. MaxChanges + MaxKeys, work : {"none", "running", "reported"}]
  /\ shown \in Versions /\ served \subseteq Versions /\ asked \subseteq {"here", "left"}
  /\ faults \in 0 .. MaxFaults
  /\ excuse \in {"none", "overtaken", "foreign", "failed", "stream", "untold"}

SendType ==
  /\ dialog \in {"closed", "open", "done"} /\ busy \in BOOLEAN
  /\ writes \in Seq(Write) /\ Len(writes) <= MaxWrites

\* While a request is out whose button is disabled meanwhile, its flag is set.
FlagIsTrue ==
  form.guarded /\ ~ form.shared =>
    Sole(form.flag, writes) /\ (Taken(form.flag, writes) => busy)

WriteType == SendType /\ AllFit(writes, dialog, form.flag, page.keyed) /\ FlagIsTrue

Types == page \in View /\ StreamType /\ ReadType /\ WriteType

\* Versions only get newer; a form that asks no machine leaves it no work.
VersionsInOrder ==
  /\ \A v \in served \cup {shown} : v = Picture \/ Older(v, Picture)
  /\ ~ form.work => truth.work = "none"

\* As long as nothing went wrong, what there is is shown or will be.
NewestIsComing ==
  Mounted /\ excuse = "none" =>
    "here" \in asked \/ owed # {} \/ Picture \in served \/ shown = Picture

\* A page that hears of the audit log hears of every change made by a form.
AuditIsHeard == page.audited /\ ~ form.work => excuse # "untold"

\* A panel that drops the answers to an earlier key, and shows no answer to a
\* form, waits for its key's only.
OnlyItsKey ==
  page.keyed = "careful" /\ form.rereads # "answer" =>
    /\ dialog = "closed" /\ writes = <<>> /\ truth.work = "none"
    /\ served \subseteq {Picture} /\ asked \subseteq {"here"}
    /\ excuse \notin {"overtaken", "foreign"}

\* Where no keys are given, nothing is read for another.
NoOtherKey ==
  page.keyed = "no" => Foreign \notin served /\ "left" \notin asked /\ excuse # "foreign"

IInv ==
  Types /\ VersionsInOrder /\ NewestIsComing /\ AuditIsHeard /\ OnlyItsKey /\ NoOtherKey

-----------------------------------------------------------------------------
(* What is under way.                                                      *)

\* A request that is over.
LEMMA Removed ==
  ASSUME NEW ws \in Seq(Write), NEW i \in DOMAIN ws
  PROVE  /\ RemoveAt(ws, i) \in Seq(Write) /\ Len(RemoveAt(ws, i)) = Len(ws) - 1
         /\ \A j \in DOMAIN RemoveAt(ws, i) :
              LET k == IF j < i THEN j ELSE j + 1
              IN  k \in DOMAIN ws /\ RemoveAt(ws, i)[j] = ws[k]
  <1> DEFINE a == SubSeq(ws, 1, i - 1)
             b == SubSeq(ws, i + 1, Len(ws))
  <1>1. i \in 1 .. Len(ws) /\ Len(ws) \in Nat /\ DOMAIN ws = 1 .. Len(ws)
    OBVIOUS
  <1>2. a \in Seq(Write) /\ Len(a) = i - 1 /\ \A j \in 1 .. (i - 1) : a[j] = ws[j]
    BY <1>1
  <1>3. b \in Seq(Write) /\ Len(b) = Len(ws) - i /\ \A j \in 1 .. (Len(ws) - i) : b[j] = ws[i + j]
    BY <1>1
  <1> HIDE DEF a, b
  <1>4. /\ a \o b \in Seq(Write) /\ Len(a \o b) = Len(a) + Len(b)
        /\ \A j \in 1 .. (Len(a) + Len(b)) :
             (a \o b)[j] = IF j <= Len(a) THEN a[j] ELSE b[j - Len(a)]
    <2>1. a \in Seq(Write) /\ b \in Seq(Write)
      BY <1>2, <1>3
    <2> QED BY <2>1, SMTT(30)
  <1>5. RemoveAt(ws, i) = a \o b
    BY DEF RemoveAt, a, b
  <1> DEFINE rs == a \o b  n == Len(ws)
  <1>6. rs \in Seq(Write) /\ Len(rs) = n - 1 /\ DOMAIN rs = 1 .. (n - 1)
    <2>1. Len(a) + Len(b) = n - 1
      BY <1>1, <1>2, <1>3
    <2> QED BY <1>4, <2>1
  <1>7. ASSUME NEW j \in 1 .. (n - 1)
        PROVE  LET k == IF j < i THEN j ELSE j + 1
               IN  k \in DOMAIN ws /\ rs[j] = ws[k]
    <2>1. CASE j < i
      <3>1. j \in 1 .. (i - 1) /\ j \in 1 .. (Len(a) + Len(b)) /\ j <= Len(a)
        BY <1>1, <1>2, <1>3, <2>1
      <3>2. rs[j] = a[j]
        BY <1>4, <3>1
      <3> QED BY <1>1, <1>2, <2>1, <3>1, <3>2
    <2>2. CASE ~ (j < i)
      <3>1. /\ j - Len(a) \in 1 .. (n - i) /\ i + (j - Len(a)) = j + 1
            /\ j \in 1 .. (Len(a) + Len(b)) /\ ~ (j <= Len(a))
        BY <1>1, <1>2, <1>3, <2>2
      <3>2. rs[j] = b[j - Len(a)]
        BY <1>4, <3>1
      <3>3. b[j - Len(a)] = ws[j + 1]
        BY <1>3, <3>1
      <3> QED BY <1>1, <2>2, <3>2, <3>3
    <2> QED BY <2>1, <2>2
  <1> HIDE DEF rs
  <1>8. RemoveAt(ws, i) = rs
    BY <1>5 DEF rs
  <1> QED BY <1>6, <1>7, <1>8

LEMMA RemovedKeeps ==
  ASSUME NEW ws \in Seq(Write), NEW i \in DOMAIN ws, NEW flag, NEW d, NEW keyed
  PROVE  /\ Sole(flag, ws) => Sole(flag, RemoveAt(ws, i))
         /\ Taken(flag, RemoveAt(ws, i)) => Taken(flag, ws)
         /\ Taken(flag, RemoveAt(ws, i)) /\ Sole(flag, ws) => ~ Held(flag, ws[i])
         /\ AllFit(ws, d, flag, keyed) => AllFit(RemoveAt(ws, i), d, flag, keyed)
  <1> DEFINE rs == RemoveAt(ws, i)
             k(j) == IF j < i THEN j ELSE j + 1
  <1>1. \A j \in DOMAIN rs : k(j) \in DOMAIN ws /\ rs[j] = ws[k(j)]
    BY Removed
  <1>2. DOMAIN rs \subseteq Int /\ i \in Int
    BY Removed
  <1>3. /\ \A j, l \in DOMAIN rs : j # l => k(j) # k(l)
        /\ \A j \in DOMAIN rs : k(j) # i
    BY <1>2
  <1> HIDE DEF rs, k
  <1>4. Sole(flag, ws) => Sole(flag, rs)
    BY <1>1, <1>3 DEF Sole
  <1>5. Taken(flag, rs) => Taken(flag, ws)
    BY <1>1 DEF Taken
  <1>6. Taken(flag, rs) /\ Sole(flag, ws) => ~ Held(flag, ws[i])
    BY <1>1, <1>3 DEF Taken, Sole
  <1>7. AllFit(ws, d, flag, keyed) => AllFit(rs, d, flag, keyed)
    BY <1>1 DEF AllFit
  <1> QED BY <1>4, <1>5, <1>6, <1>7 DEF rs

\* The dialog that sent it is gone.
LEMMA OrphanedKeeps ==
  ASSUME NEW ws \in Seq(Write), NEW flag, NEW d, NEW keyed
  PROVE  /\ Orphaned(ws) \in Seq(Write) /\ Len(Orphaned(ws)) = Len(ws)
         /\ Sole(flag, ws) => Sole(flag, Orphaned(ws))
         /\ Taken(flag, Orphaned(ws)) => flag = "page" /\ Taken(flag, ws)
         /\ AllFit(ws, d, flag, keyed) => AllFit(Orphaned(ws), "closed", flag, keyed)
  <1> DEFINE os == Orphaned(ws)
  <1>1. DOMAIN os = 1 .. Len(ws) /\ DOMAIN ws = 1 .. Len(ws) /\ Len(ws) \in Nat
    BY DEF Orphaned
  <1>2. \A j \in DOMAIN ws : /\ os[j] \in Write /\ ws[j] \in Write
                             /\ os[j].by = IF ws[j].by = "dialog" THEN "gone" ELSE ws[j].by
                             /\ os[j].left = ws[j].left
    <2>1. ASSUME NEW j \in DOMAIN ws PROVE ws[j] \in Write
      OBVIOUS
    <2>2. ASSUME NEW j \in DOMAIN ws
          PROVE  os[j] = IF ws[j].by = "dialog" THEN [ws[j] EXCEPT !.by = "gone"] ELSE ws[j]
      BY DEF Orphaned
    <2>3. ASSUME NEW w \in Write
          PROVE  /\ [w EXCEPT !.by = "gone"] \in Write /\ [w EXCEPT !.by = "gone"].by = "gone"
                 /\ [w EXCEPT !.by = "gone"].left = w.left
      BY DEF Write
    <2> HIDE DEF os
    <2> SUFFICES ASSUME NEW j \in DOMAIN ws
                 PROVE  /\ os[j] \in Write /\ ws[j] \in Write
                        /\ os[j].by = IF ws[j].by = "dialog" THEN "gone" ELSE ws[j].by
                        /\ os[j].left = ws[j].left
      OBVIOUS
    <2>4. CASE ws[j].by = "dialog"
      <3>1. os[j] = [ws[j] EXCEPT !.by = "gone"]
        BY <2>2, <2>4
      <3> QED BY <2>1, <2>3, <2>4, <3>1
    <2>5. CASE ws[j].by # "dialog"
      BY <2>1, <2>2, <2>5
    <2> QED BY <2>4, <2>5
  <1>3. os \in [1 .. Len(ws) -> Write]
    BY <1>1, <1>2 DEF Orphaned
  <1> HIDE DEF os
  <1>4. os \in Seq(Write) /\ Len(os) = Len(ws)
    BY <1>1, <1>3
  <1>5. \A j \in DOMAIN os : /\ j \in DOMAIN ws
                             /\ Held(flag, os[j]) => flag = "page" /\ Held(flag, ws[j])
                             /\ Fit(ws[j], d, flag, keyed) => Fit(os[j], "closed", flag, keyed)
    BY <1>1, <1>2 DEF Held, Fit
  <1>6. Sole(flag, ws) => Sole(flag, os)
    BY <1>5 DEF Sole
  <1>7. Taken(flag, os) => flag = "page" /\ Taken(flag, ws)
    BY <1>5 DEF Taken
  <1>8. AllFit(ws, d, flag, keyed) => AllFit(os, "closed", flag, keyed)
    BY <1>1, <1>5 DEF AllFit
  <1> QED BY <1>4, <1>6, <1>7, <1>8 DEF os

\* It gets on.
LEMMA RestagedKeeps ==
  ASSUME NEW ws \in Seq(Write), NEW rs \in Seq(Write), Len(rs) = Len(ws),
         NEW flag, NEW d, NEW keyed,
         \A j \in DOMAIN ws : rs[j].by = ws[j].by /\ (keyed = "no" => rs[j].left = ws[j].left)
  PROVE  /\ Sole(flag, ws) => Sole(flag, rs)
         /\ Taken(flag, rs) => Taken(flag, ws)
         /\ AllFit(ws, d, flag, keyed) => AllFit(rs, d, flag, keyed)
  <1>1. DOMAIN rs = DOMAIN ws
    OBVIOUS
  <1>2. \A j \in DOMAIN ws : /\ Held(flag, rs[j]) => Held(flag, ws[j])
                             /\ Fit(ws[j], d, flag, keyed) => Fit(rs[j], d, flag, keyed)
    BY DEF Held, Fit
  <1>3. Sole(flag, ws) => Sole(flag, rs)
    BY <1>1, <1>2 DEF Sole
  <1>4. Taken(flag, rs) => Taken(flag, ws)
    BY <1>1, <1>2 DEF Taken
  <1>5. AllFit(ws, d, flag, keyed) => AllFit(rs, d, flag, keyed)
    BY <1>1, <1>2 DEF AllFit
  <1> QED BY <1>3, <1>4, <1>5

\* Another one is sent.
LEMMA AppendedKeeps ==
  ASSUME NEW ws \in Seq(Write), NEW w \in Write, NEW flag, NEW d, NEW keyed
  PROVE  /\ Append(ws, w) \in Seq(Write) /\ Len(Append(ws, w)) = Len(ws) + 1
         /\ Sole(flag, ws) /\ (Taken(flag, ws) => ~ Held(flag, w)) => Sole(flag, Append(ws, w))
         /\ Taken(flag, Append(ws, w)) => Taken(flag, ws) \/ Held(flag, w)
         /\ AllFit(ws, d, flag, keyed) /\ Fit(w, d, flag, keyed)
              => AllFit(Append(ws, w), d, flag, keyed)
  <1> DEFINE n == Len(ws)  as == Append(ws, w)
  <1>1. /\ n \in Nat /\ DOMAIN ws = 1 .. n /\ DOMAIN as = 1 .. (n + 1) /\ as[n + 1] = w
        /\ as \in Seq(Write) /\ Len(as) = n + 1 /\ \A j \in 1 .. n : as[j] = ws[j]
    OBVIOUS
  <1>2. \A j \in DOMAIN as : (j = n + 1 /\ as[j] = w) \/ (j \in DOMAIN ws /\ as[j] = ws[j])
    BY <1>1
  <1> HIDE DEF as, n
  <1>3. Sole(flag, ws) /\ (Taken(flag, ws) => ~ Held(flag, w)) => Sole(flag, as)
    BY <1>2 DEF Sole, Taken
  <1>4. Taken(flag, as) => Taken(flag, ws) \/ Held(flag, w)
    BY <1>2 DEF Taken
  <1>5. AllFit(ws, d, flag, keyed) /\ Fit(w, d, flag, keyed) => AllFit(as, d, flag, keyed)
    BY <1>2 DEF AllFit
  <1> QED BY <1>1, <1>3, <1>4, <1>5 DEF as, n

-----------------------------------------------------------------------------
(* Types.                                                                  *)

USE BoundAssumption DEF BoundAssumption

LEMMA TypesMean == Types => TypeOK /\ OneAtATime
  <1> SUFFICES ASSUME Types PROVE TypeOK /\ OneAtATime
    OBVIOUS
  <1>1. TypeOK
    BY DEF Types, TypeOK, StreamType, ReadType, WriteType, SendType, Write, AllFit, Fit
  <1>2. ASSUME form.guarded, ~ form.shared, NEW i \in DOMAIN writes, NEW j \in DOMAIN writes,
               i # j, writes[i].by = writes[j].by
        PROVE  writes[i].by \in {"gone", "other"}
    <2>1. writes[i] \in Write /\ writes[j] \in Write
      BY DEF Types, WriteType, SendType
    <2>2. ~ (Held(form.flag, writes[i]) /\ Held(form.flag, writes[j]))
      BY <1>2 DEF Types, WriteType, FlagIsTrue, Sole
    <2>3. form.flag # "page" => writes[i].by # "row"
      BY DEF Types, WriteType, AllFit, Fit
    <2> QED BY <1>2, <2>1, <2>2, <2>3 DEF Held, Write
  <1> QED BY <1>1, <1>2 DEF OneAtATime

LEMMA NotReadType ==
  /\ NotRead \in Versions /\ NotRead.n = -2 /\ ~ NotRead.working
  /\ Foreign \in Versions /\ Foreign.n = -1 /\ ~ Foreign.working
  <1>1. -2 \in -2 .. MaxChanges + MaxKeys /\ -1 \in -2 .. MaxChanges + MaxKeys
    OBVIOUS
  <1> QED BY <1>1 DEF NotRead, Foreign, Versions

LEMMA InitTypes == Init => Types
  <1> SUFFICES ASSUME Init PROVE Types
    OBVIOUS
  <1>1. page \in View /\ StreamType
    BY DEF Init, StreamType, Stream!Init
  <1>2. ReadType
    <2>1. shown \in Versions /\ served \subseteq Versions /\ asked = {}
      BY NotReadType DEF Init
    <2>2. /\ truth \in [n : 0 .. MaxChanges + MaxKeys, work : {"none", "running", "reported"}]
          /\ faults \in 0 .. MaxFaults /\ excuse = "none"
      BY DEF Init
    <2> QED BY <2>1, <2>2 DEF ReadType
  <1>3. WriteType
    <2>0. writes = <<>>
      BY DEF Init
    <2>1. dialog = "closed" /\ busy = FALSE
      BY DEF Init
    <2>2. writes \in Seq(Write) /\ Len(writes) = 0 /\ DOMAIN writes = {}
      BY <2>0
    <2>3. SendType
      <3>1. busy \in BOOLEAN
        BY <2>1
      <3>2. 0 <= MaxWrites
        OBVIOUS
      <3>3. Len(writes) <= MaxWrites
        BY <2>2, <3>2
      <3> QED BY <2>1, <2>2, <3>1, <3>3 DEF SendType
    <2>4. AllFit(writes, dialog, form.flag, page.keyed) /\ FlagIsTrue
      BY <2>2 DEF FlagIsTrue, AllFit, Sole, Taken
    <2> QED BY <2>3, <2>4 DEF WriteType
  <1> QED BY <1>1, <1>2, <1>3 DEF Types

\* What a statement tells, and to whom.
LEMMA TellsPage ==
  ASSUME Types, NEW news, Tell(news)
  PROVE  /\ here' = here /\ up' = up /\ owed \subseteq owed' /\ owed' \subseteq here
         /\ up /\ news # {} /\ here # {} => owed' # {}
  <1>1. CASE up /\ news # {}
    <2>1. Stream!Watchers("news") = here
      BY DEF Stream!Watchers, Types, StreamType
    <2> QED BY <1>1, <2>1 DEF Tell, Stream!Tell, Types, StreamType
  <1>2. CASE ~ (up /\ news # {})
    BY <1>2 DEF Tell, Types, StreamType
  <1> QED BY <1>1, <1>2

LEMMA ToldType ==
  ASSUME Types, NEW news, Tell(news), page' = page
  PROVE  StreamType'
  BY TellsPage DEF Types, StreamType

LEMMA PageKept == [Next]_vars => page' = page
  BY DEF Next, vars, Mount, Leave, Reread, Poll, Serve, FailRead, Choose, Show, Connect,
         StreamLost, Report, Settle, Open, Close, Finish, Submit, Click, Send, ClearFlag,
         Elsewhere, Begin, Accept, HearAccepted, HearRefused

LEMMA StreamStep == Types /\ [Next]_vars => StreamType'
  <1> SUFFICES ASSUME Types, [Next]_vars PROVE StreamType'
    OBVIOUS
  <1> page' = page
    BY PageKept
  <1>1. ASSUME UNCHANGED <<here, up, owed>> PROVE StreamType'
    BY <1>1 DEF Types, StreamType
  <1>2. CASE Mount
    BY <1>2 DEF Mount, Stream!Join, Types, StreamType
  <1>3. CASE Leave
    BY <1>3 DEF Leave, Stream!Leave, Types, StreamType
  <1>4. CASE Reread
    BY <1>4 DEF Reread, Stream!Reload, Types, StreamType
  <1>5. CASE Connect
    BY <1>5 DEF Connect, Stream!Connect, Types, StreamType
  <1>6. CASE StreamLost
    BY <1>6 DEF StreamLost, Stream!Drop, Types, StreamType
  <1>7. CASE Report
    BY <1>7, ToldType DEF Report
  <1>8. CASE Settle
    BY <1>8, ToldType DEF Settle, Become
  <1>9. CASE Elsewhere
    BY <1>9, ToldType DEF Elsewhere, Make, Become
  <1>10. ASSUME NEW i \in DOMAIN writes, Begin(i) \/ Accept(i) PROVE StreamType'
    BY <1>10, ToldType DEF Begin, Accept, Make, Become
  <1>11. ASSUME NEW i \in DOMAIN writes, HearAccepted(i) \/ HearRefused(i) PROVE StreamType'
    BY <1>11, <1>1 DEF HearAccepted, HearRefused
  <1>12. CASE \/ Poll \/ Choose \/ (\E v \in served : Show(v))
              \/ \E key \in asked : Serve(key) \/ FailRead(key)
    BY <1>12, <1>1 DEF Poll, Serve, FailRead, Choose, Show
  <1>13. CASE Open \/ Close \/ Finish \/ Submit \/ Click \/ ClearFlag \/ UNCHANGED vars
    BY <1>13, <1>1 DEF Open, Close, Finish, Submit, Click, ClearFlag, Send, vars
  <1> QED BY <1>2, <1>3, <1>4, <1>5, <1>6, <1>7, <1>8, <1>9, <1>10, <1>11, <1>12, <1>13 DEF Next

\* A change that is made, with what is told of it.
LEMMA BecomeType ==
  ASSUME ReadType, NEW n \in 0 .. MaxChanges + MaxKeys, NEW work \in {"none", "running", "reported"},
         NEW news, Become(n, work, news)
  PROVE  /\ truth' \in [n : 0 .. MaxChanges + MaxKeys, work : {"none", "running", "reported"}]
         /\ excuse' \in {"none", "overtaken", "foreign", "failed", "stream", "untold"}
         /\ truth' = [n |-> n, work |-> work]
  BY DEF Become, ReadType

LEMMA MakeType ==
  ASSUME ReadType, Make
  PROVE  /\ truth' \in [n : 0 .. MaxChanges + MaxKeys, work : {"none", "running", "reported"}]
         /\ excuse' \in {"none", "overtaken", "foreign", "failed", "stream", "untold"}
         /\ truth' = [n |-> truth.n + 1, work |-> IF form.work THEN "running" ELSE truth.work]
  <1>1. truth.n + 1 \in 0 .. MaxChanges + MaxKeys
    BY DEF Make, NewVersion, ReadType
  <1>2. (IF form.work THEN "running" ELSE truth.work) \in {"none", "running", "reported"}
    BY DEF ReadType
  <1> QED BY <1>1, <1>2, BecomeType DEF Make

LEMMA PictureType ==
  ASSUME truth \in [n : 0 .. MaxChanges + MaxKeys, work : {"none", "running", "reported"}]
  PROVE  Picture \in Versions /\ Picture.n = truth.n /\ Picture.working = (truth.work # "none")
  BY DEF Picture, Versions

LEMMA NextPictureType ==
  ASSUME truth' \in [n : 0 .. MaxChanges + MaxKeys, work : {"none", "running", "reported"}]
  PROVE  /\ Picture' \in Versions
         /\ Picture' = [n |-> truth'.n, working |-> truth'.work # "none"]
  BY DEF Picture, Versions

LEMMA ReadStep == Types /\ [Next]_vars => ReadType'
  <1> SUFFICES ASSUME ReadType, [Next]_vars PROVE ReadType'
    BY DEF Types
  <1>1. CASE UNCHANGED <<truth, shown, served, asked, excuse, faults>>
    BY <1>1 DEF ReadType
  <1>2. CASE Mount \/ Leave
    BY <1>2, NotReadType DEF Mount, Leave, ReadType
  <1>3. CASE Reread \/ Poll \/ Finish
    BY <1>3 DEF Reread, Poll, Finish, Ask, ReadType
  <1>4. ASSUME NEW key \in asked, Serve(key) PROVE ReadType'
    BY <1>4, PictureType, NotReadType DEF Serve, ReadType
  <1>5. ASSUME NEW v \in served, Show(v) PROVE ReadType'
    <2>1. excuse' \in {excuse, "foreign", "overtaken"} /\ asked' \subseteq asked \cup {"here"}
      BY <1>5 DEF Show
    <2>2. shown' = v /\ served' \subseteq served /\ UNCHANGED <<truth, faults>>
      BY <1>5 DEF Show
    <2> QED BY <2>1, <2>2 DEF ReadType
  <1>6. ASSUME NEW key \in asked, FailRead(key) PROVE ReadType'
    <2>1. shown' \in Versions
      BY <1>6, NotReadType DEF FailRead, ReadType
    <2>2. UNCHANGED <<truth, served>> /\ asked' \subseteq asked /\ excuse' = "failed"
          /\ faults' \in 0 .. MaxFaults
      BY <1>6 DEF FailRead, ReadType
    <2> QED BY <2>1, <2>2 DEF ReadType
  <1>7. CASE Choose
    <2>1. truth' \in [n : 0 .. MaxChanges + MaxKeys, work : {"none", "running", "reported"}]
      BY <1>7 DEF Choose, NewVersion, ReadType
    <2>2. asked' \subseteq {"here", "left"} /\ served' \subseteq served
          /\ UNCHANGED <<shown, excuse, faults>>
      BY <1>7 DEF Choose, StillWanted
    <2> QED BY <2>1, <2>2 DEF ReadType
  <1>8. CASE StreamLost
    BY <1>8 DEF StreamLost, pageVars, ReadType
  <1>9. CASE Report
    BY <1>9 DEF Report, pageVars, ReadType
  <1>10. CASE Settle
    <2>1. truth.n \in 0 .. MaxChanges + MaxKeys
      BY DEF ReadType
    <2> QED BY <1>10, <2>1, BecomeType DEF Settle, pageVars, ReadType
  <1>11. CASE Elsewhere
    <2>1. CASE Make
      BY <1>11, <2>1, MakeType DEF Elsewhere, pageVars, ReadType
    <2>2. CASE UNCHANGED <<truth, excuse>>
      BY <1>11, <2>2 DEF Elsewhere, pageVars, ReadType
    <2> QED BY <1>11, <2>1, <2>2 DEF Elsewhere
  <1>12. ASSUME NEW i \in DOMAIN writes, Accept(i) PROVE ReadType'
    <2>1. Make
      BY <1>12 DEF Accept
    <2>2. Picture' \in Versions
      BY <2>1, MakeType, NextPictureType
    <2>3. served' \subseteq served \cup {Picture', Foreign} /\ faults' \in 0 .. MaxFaults
          /\ shown' = shown /\ asked' = asked
      BY <1>12 DEF Accept, ReadType
    <2> QED BY <2>1, <2>2, <2>3, MakeType, NotReadType DEF ReadType
  <1>13. ASSUME NEW i \in DOMAIN writes, HearAccepted(i) PROVE ReadType'
    BY <1>13 DEF HearAccepted, Ask, pageVars, ReadType
  <1>14. CASE Connect \/ Open \/ Close \/ Submit \/ Click \/ ClearFlag \/ UNCHANGED vars
    BY <1>1, <1>14 DEF Connect, Open, Close, Submit, Click, ClearFlag, Send, vars, pageVars
  <1>15. ASSUME NEW i \in DOMAIN writes, Begin(i) \/ HearRefused(i) PROVE ReadType'
    BY <1>1, <1>15 DEF Begin, HearRefused, pageVars
  <1> QED BY <1>2, <1>3, <1>4, <1>5, <1>6, <1>7, <1>8, <1>9, <1>10, <1>11, <1>12, <1>13, <1>14,
             <1>15 DEF Next

\* What is left of the requests of a page that is gone.
LEMMA LeftWrites ==
  ASSUME WriteType, Leave
  PROVE  writes' \in Seq(Write) /\ Len(writes') <= Len(writes) /\ Len(writes') <= MaxWrites
         /\ \A i \in DOMAIN writes' : writes'[i].by = "other" /\ ~ writes'[i].left
  <1> DEFINE half == {i \in DOMAIN writes : writes[i].stage = "begun"}
             w == Request("other", "begun")
             n == Cardinality(half)
  <1>1. Len(writes) \in Nat /\ DOMAIN writes = 1 .. Len(writes) /\ Len(writes) <= MaxWrites
    BY DEF WriteType, SendType
  <1>2. IsFiniteSet(1 .. Len(writes)) /\ Cardinality(1 .. Len(writes)) = Len(writes)
    <2>1. 1 \in Int /\ Len(writes) \in Int
      BY <1>1
    <2>2. IsFiniteSet(1 .. Len(writes))
      BY <2>1, FS_Interval
    <2>3. Cardinality(1 .. Len(writes)) = IF 1 > Len(writes) THEN 0 ELSE Len(writes) - 1 + 1
      BY <2>1, FS_Interval
    <2> QED BY <1>1, <2>2, <2>3
  <1>3. half \subseteq 1 .. Len(writes)
    BY <1>1
  <1>4. n \in Nat /\ n <= Len(writes)
    <2> HIDE DEF half
    <2>1. IsFiniteSet(half) /\ Cardinality(half) <= Cardinality(1 .. Len(writes))
      BY <1>2, <1>3, FS_Subset
    <2> QED BY <1>2, <2>1, FS_CardinalityType
  <1>5. writes' = [i \in 1 .. n |-> w]
    BY DEF Leave
  <1>6. w \in Write /\ w.by = "other" /\ ~ w.left
    BY DEF Write, Request
  <1> HIDE DEF n, w
  <1>7. writes' \in Seq(Write) /\ Len(writes') = n /\ DOMAIN writes' = 1 .. n
    BY <1>4, <1>5, <1>6
  <1> QED BY <1>1, <1>4, <1>5, <1>6, <1>7

\* A request is over, and with its dialog what waited in it.
LEMMA AnsweredType ==
  ASSUME WriteType, NEW i \in DOMAIN writes, NEW content \in {"closed", "open", "done"},
         Mine(writes[i]), Answered(i, content), page' = page
  PROVE  WriteType'
  <1> DEFINE ws == RemoveAt(writes, i)  f == form.flag
  <1>1. writes \in Seq(Write) /\ Len(writes) <= MaxWrites /\ Len(writes) \in Nat
        /\ busy \in BOOLEAN /\ writes[i] \in Write
    BY DEF WriteType, SendType
  <1>2. ws \in Seq(Write) /\ Len(ws) <= MaxWrites
    BY <1>1, Removed
  <1>3. /\ Sole(f, writes) => Sole(f, ws)
        /\ Taken(f, ws) => Taken(f, writes)
        /\ Taken(f, ws) /\ Sole(f, writes) => ~ Held(f, writes[i])
        /\ AllFit(ws, dialog, f, page.keyed)
    BY <1>1, RemovedKeeps DEF WriteType
  <1>4. dialog' \in {"closed", "open", "done"} /\ form' = form /\ (dialog = "closed" => dialog' = "closed")
    BY DEF Answered, form
  <1>5. ASSUME ~ Held(f, writes[i]) PROVE ~ Clears(writes[i])
    <2>1. f # "page" => writes[i].by # "row"
      BY DEF WriteType, AllFit, Fit
    <2> QED BY <1>1, <1>5, <2>1 DEF Held, Clears, Mine, Write
  <1>6. /\ busy' \in BOOLEAN
        /\ busy /\ ~ Clears(writes[i]) /\ (dialog' = "closed" => f = "page") => busy'
    BY <1>1 DEF Answered, Outlived
  <1> HIDE DEF ws
  <1>7. ASSUME NEW rs, writes' = rs, rs \in Seq(Write), Len(rs) <= MaxWrites,
               Sole(f, ws) => Sole(f, rs),
               Taken(f, rs) => Taken(f, ws) /\ (dialog' = "closed" => f = "page"),
               AllFit(rs, dialog', f, page.keyed)
        PROVE  WriteType'
    <2>1. SendType'
      BY <1>4, <1>6, <1>7 DEF SendType
    <2>2. AllFit(writes', dialog', f, page.keyed)
      BY <1>7
    <2>3. ASSUME form.guarded, ~ form.shared
          PROVE  Sole(f, writes') /\ (Taken(f, writes') => busy')
      <3>1. Sole(f, writes) /\ (Taken(f, writes) => busy)
        BY <2>3 DEF WriteType, FlagIsTrue
      <3> QED BY <1>3, <1>5, <1>6, <1>7, <3>1
    <2>4. (form.guarded /\ ~ form.shared => Sole(form.flag, writes') /\ (Taken(form.flag, writes') => busy'))
      BY <2>3
    <2> QED BY <1>4, <2>1, <2>2, <2>4 DEF WriteType, FlagIsTrue, AllFit, Sole, Taken
  <1>8. CASE dialog' = "closed"
    <2>1. writes' = Orphaned(ws)
      BY <1>8 DEF Answered, ws
    <2>2. /\ Orphaned(ws) \in Seq(Write) /\ Len(Orphaned(ws)) <= MaxWrites
          /\ Sole(f, ws) => Sole(f, Orphaned(ws))
          /\ Taken(f, Orphaned(ws)) => f = "page" /\ Taken(f, ws)
          /\ AllFit(Orphaned(ws), "closed", f, page.keyed)
      BY <1>2, <1>3, OrphanedKeeps
    <2> QED BY <1>7, <1>8, <2>1, <2>2
  <1>9. CASE dialog' # "closed"
    <2>1. writes' = ws
      BY <1>9 DEF Answered, ws
    <2>2. AllFit(ws, dialog', f, page.keyed)
      BY <1>3, <1>4, <1>9 DEF AllFit, Fit
    <2> QED BY <1>2, <1>7, <1>9, <2>1, <2>2
  <1> QED BY <1>8, <1>9

\* Keys or none, there is room for MaxWrites at most.
LEMMA RoomBound ==
  ASSUME WriteType, Room PROVE Len(writes) < MaxWrites
  <1>1. Len(writes) \in Nat
    BY DEF WriteType, SendType
  <1> QED BY <1>1 DEF Room

\* One more is under way, that may be.
LEMMA AddedType ==
  ASSUME WriteType, NEW w \in Write, writes' = Append(writes, w), Len(writes) < MaxWrites,
         dialog' = dialog, busy' \in BOOLEAN, page' = page,
         Fit(w, dialog, form.flag, page.keyed), ~ Held(form.flag, w) => busy' = busy,
         form.guarded /\ Held(form.flag, w) => ~ busy /\ busy'
  PROVE  WriteType'
  <1> DEFINE f == form.flag
  <1>1. writes \in Seq(Write) /\ form' = form
    BY DEF WriteType, SendType, form
  <1>2. /\ writes' \in Seq(Write) /\ Len(writes') = Len(writes) + 1
        /\ Sole(f, writes) /\ (Taken(f, writes) => ~ Held(f, w)) => Sole(f, writes')
        /\ Taken(f, writes') => Taken(f, writes) \/ Held(f, w)
        /\ AllFit(writes', dialog, f, page.keyed)
    BY <1>1, AppendedKeeps DEF WriteType
  <1>3. SendType'
    BY <1>1, <1>2 DEF WriteType, SendType
  <1>4. ASSUME form.guarded, ~ form.shared
        PROVE  Sole(form.flag, writes') /\ (Taken(form.flag, writes') => busy')
    <2>1. Sole(f, writes) /\ (Taken(f, writes) => busy)
      BY <1>4 DEF WriteType, FlagIsTrue
    <2> QED BY <1>2, <1>4, <2>1
  <1>5. AllFit(writes', dialog', form.flag, page.keyed)
    BY <1>2
  <1> QED BY <1>1, <1>3, <1>4, <1>5 DEF WriteType, FlagIsTrue, AllFit, Sole, Taken

LEMMA SentType ==
  ASSUME WriteType, NEW by \in {"dialog", "row"}, Send(by), by = "dialog" => dialog # "closed",
         by = "row" => form.flag = "page", page' = page
  PROVE  WriteType'
  <1> DEFINE w == Request(by, "sent")
  <1>1. w \in Write /\ w.by = by /\ ~ w.left
    BY DEF Write, Request
  <1>2. /\ writes' = Append(writes, w) /\ dialog' = dialog /\ Room
        /\ form.guarded => ~ busy
        /\ busy' = (busy \/ form.guarded)
    BY DEF Send
  <1>4. Len(writes) < MaxWrites
    BY <1>2, RoomBound
  <1> HIDE DEF w
  <1>3. Fit(w, dialog, form.flag, page.keyed) /\ Held(form.flag, w)
    BY <1>1 DEF Fit, Held
  <1> QED BY <1>1, <1>2, <1>3, <1>4, AddedType

\* One gets on, or the page is given another key.
LEMMA StagedType ==
  ASSUME WriteType, writes' \in Seq(Write), Len(writes') = Len(writes),
         \A j \in DOMAIN writes :
            writes'[j].by = writes[j].by /\ (page.keyed = "no" => writes'[j].left = writes[j].left),
         dialog' = dialog, busy' = busy, page' = page
  PROVE  WriteType'
  <1> DEFINE f == form.flag
  <1>1. writes \in Seq(Write) /\ form' = form
    BY DEF WriteType, SendType, form
  <1>2. /\ Sole(f, writes) => Sole(f, writes')
        /\ Taken(f, writes') => Taken(f, writes)
        /\ AllFit(writes', dialog, f, page.keyed)
    BY <1>1, RestagedKeeps DEF WriteType
  <1>3. SendType'
    BY <1>1 DEF WriteType, SendType
  <1> QED BY <1>1, <1>2, <1>3 DEF WriteType, FlagIsTrue, AllFit, Sole, Taken

LEMMA StageType ==
  ASSUME WriteType, NEW i \in DOMAIN writes, NEW stage \in {"sent", "begun", "accepted", "lost"},
         writes' = [writes EXCEPT ![i].stage = stage], dialog' = dialog, busy' = busy, page' = page
  PROVE  WriteType'
  <1>1. writes \in Seq(Write)
    BY DEF WriteType, SendType
  <1>2. \A j \in DOMAIN writes : writes[j] \in Write
    BY <1>1
  <1>3. /\ writes' \in Seq(Write) /\ Len(writes') = Len(writes)
        /\ \A j \in DOMAIN writes : writes'[j].by = writes[j].by /\ writes'[j].left = writes[j].left
    BY <1>1, <1>2 DEF Write
  <1> QED BY <1>3, StagedType

LEMMA ClosedType ==
  ASSUME WriteType, dialog' = "closed", writes' = Orphaned(writes), busy' = Outlived(busy),
         page' = page
  PROVE  WriteType'
  <1> DEFINE f == form.flag
  <1>1. writes \in Seq(Write) /\ form' = form /\ busy \in BOOLEAN
    BY DEF WriteType, SendType, form
  <1>2. /\ writes' \in Seq(Write) /\ Len(writes') = Len(writes)
        /\ Sole(f, writes) => Sole(f, writes')
        /\ Taken(f, writes') => f = "page" /\ Taken(f, writes)
        /\ AllFit(writes', "closed", f, page.keyed)
    BY <1>1, OrphanedKeeps DEF WriteType
  <1>3. busy' \in BOOLEAN /\ (busy /\ f = "page" => busy')
    BY <1>1 DEF Outlived
  <1>4. SendType'
    BY <1>2, <1>3 DEF WriteType, SendType
  <1>5. ASSUME form.guarded, ~ form.shared
        PROVE  Sole(form.flag, writes') /\ (Taken(form.flag, writes') => busy')
    <2>1. Sole(f, writes) /\ (Taken(f, writes) => busy)
      BY <1>5 DEF WriteType, FlagIsTrue
    <2> QED BY <1>2, <1>3, <2>1
  <1>6. AllFit(writes', dialog', form.flag, page.keyed)
    BY <1>2
  <1> QED BY <1>1, <1>4, <1>5, <1>6 DEF WriteType, FlagIsTrue, AllFit, Sole, Taken

LEMMA WriteStep == Types /\ [Next]_vars => WriteType'
  <1> SUFFICES ASSUME WriteType, page \in View, [Next]_vars PROVE WriteType'
    BY DEF Types
  <1> page' = page
    BY PageKept
  <1>0. writes \in Seq(Write) /\ form' = form /\ busy \in BOOLEAN
        /\ \A j \in DOMAIN writes : writes[j] \in Write
    BY DEF WriteType, SendType, form
  <1>1. CASE UNCHANGED <<dialog, busy, writes>>
    BY <1>0, <1>1 DEF WriteType, SendType, FlagIsTrue, AllFit, Sole, Taken
  <1>2. CASE Leave
    <2>1. dialog' = "closed" /\ busy' = FALSE
      BY <1>2 DEF Leave
    <2>2. writes' \in Seq(Write) /\ Len(writes') <= MaxWrites
          /\ \A i \in DOMAIN writes' : writes'[i].by = "other" /\ ~ writes'[i].left
      BY <1>2, LeftWrites
    <2>3. /\ \A i \in DOMAIN writes' : ~ Held(form.flag, writes'[i])
          /\ \A i \in DOMAIN writes' : Fit(writes'[i], "closed", form.flag, page.keyed)
      BY <2>2 DEF Held, Fit
    <2> QED BY <1>0, <2>1, <2>2, <2>3 DEF WriteType, SendType, FlagIsTrue, AllFit, Sole, Taken
  <1>3. CASE Open
    <2>1. dialog' = "open" /\ dialog = "closed" /\ writes' = writes /\ busy' = busy
      BY <1>3 DEF Open
    <2>2. AllFit(writes, "open", form.flag, page.keyed)
      BY DEF WriteType, AllFit, Fit
    <2> QED BY <1>0, <2>1, <2>2 DEF WriteType, SendType, FlagIsTrue, AllFit, Sole, Taken
  <1>4. CASE Close \/ Finish
    BY <1>4, ClosedType DEF Close, Finish
  <1>5. CASE Submit
    BY <1>5, SentType DEF Submit
  <1>6. CASE Click
    <2>1. form.flag = "page"
      BY <1>6, TableAssumption DEF Click, TableAssumption, form
    <2> QED BY <1>6, <2>1, SentType DEF Click
  <1>7. CASE Elsewhere
    <2>1. ASSUME writes' = Append(writes, Request("other", "begun")), Len(writes) < MaxWrites
          PROVE  WriteType'
      <3> DEFINE w == Request("other", "begun")
      <3>1. w \in Write /\ w.by = "other" /\ ~ w.left
        BY DEF Write, Request
      <3>2. dialog' = dialog /\ busy' = busy
        BY <1>7 DEF Elsewhere
      <3> HIDE DEF w
      <3>3. Fit(w, dialog, form.flag, page.keyed) /\ ~ Held(form.flag, w)
        BY <3>1 DEF Fit, Held
      <3>4. writes' = Append(writes, w)
        BY <2>1 DEF w
      <3> QED BY <1>0, <2>1, <3>1, <3>2, <3>3, <3>4, AddedType
    <2> QED BY <1>1, <1>7, <2>1, RoomBound DEF Elsewhere
  <1>8. ASSUME NEW i \in DOMAIN writes, Begin(i) PROVE WriteType'
    BY <1>8, StageType DEF Begin
  <1>9. ASSUME NEW i \in DOMAIN writes, Accept(i) PROVE WriteType'
    <2>1. CASE writes' = RemoveAt(writes, i)
      <3> DEFINE f == form.flag
      <3>1. dialog' = dialog /\ busy' = busy
        BY <1>9 DEF Accept
      <3>2. /\ writes' \in Seq(Write) /\ Len(writes') <= MaxWrites
            /\ Sole(f, writes) => Sole(f, writes')
            /\ Taken(f, writes') => Taken(f, writes)
            /\ AllFit(writes', dialog, f, page.keyed)
        BY <1>0, <2>1, Removed, RemovedKeeps DEF WriteType, SendType
      <3> QED BY <1>0, <3>1, <3>2 DEF WriteType, SendType, FlagIsTrue, AllFit, Sole, Taken
    <2>2. CASE writes' = [writes EXCEPT ![i].stage = "accepted"]
      BY <1>9, <2>2, StageType DEF Accept
    <2>3. CASE writes' = [writes EXCEPT ![i].stage = "lost"]
      BY <1>9, <2>3, StageType DEF Accept
    <2> QED BY <1>9, <2>1, <2>2, <2>3 DEF Accept
  <1>10. ASSUME NEW i \in DOMAIN writes, HearAccepted(i) PROVE WriteType'
    <2>1. (IF form.closes THEN "closed"
           ELSE IF form.rereads = "done" /\ writes[i].by = "dialog" THEN "done"
           ELSE dialog) \in {"closed", "open", "done"}
      BY DEF WriteType, SendType
    <2> QED BY <1>10, <2>1, AnsweredType DEF HearAccepted
  <1>11. ASSUME NEW i \in DOMAIN writes, HearRefused(i) PROVE WriteType'
    <2>1. (IF form.refusal = "closes" THEN "closed" ELSE dialog) \in {"closed", "open", "done"}
      BY DEF WriteType, SendType
    <2> QED BY <1>11, <2>1, AnsweredType DEF HearRefused
  <1>12. CASE ClearFlag
    <2>1. form.shared /\ busy' = FALSE /\ UNCHANGED <<dialog, writes>>
      BY <1>12 DEF ClearFlag
    <2> QED BY <1>0, <2>1 DEF WriteType, SendType, FlagIsTrue, AllFit
  <1>13. CASE Mount \/ Reread \/ Poll
    BY <1>1, <1>13 DEF Mount, Reread, Poll, formVars
  <1>14. CASE Choose
    <2>1. /\ writes' = [i \in DOMAIN writes |-> [writes[i] EXCEPT !.left = TRUE]]
          /\ dialog' = dialog /\ busy' = busy /\ page.keyed # "no"
      BY <1>14 DEF Choose
    <2>2. \A j \in DOMAIN writes : /\ [writes[j] EXCEPT !.left = TRUE] \in Write
                                   /\ [writes[j] EXCEPT !.left = TRUE].by = writes[j].by
      BY <1>0 DEF Write
    <2>3. DOMAIN writes = 1 .. Len(writes) /\ Len(writes) \in Nat
      BY <1>0
    <2>4. writes' \in [1 .. Len(writes) -> Write] /\ \A j \in DOMAIN writes : writes'[j].by = writes[j].by
      BY <2>1, <2>2, <2>3
    <2>5. writes' \in Seq(Write) /\ Len(writes') = Len(writes)
      BY <2>3, <2>4
    <2> QED BY <2>1, <2>4, <2>5, StagedType
  <1>15. ASSUME \/ \E key \in asked : Serve(key) \/ FailRead(key)
                \/ \E v \in served : Show(v)
         PROVE  WriteType'
    BY <1>1, <1>15 DEF Serve, FailRead, Show, formVars
  <1>16. CASE Connect \/ StreamLost \/ Report \/ Settle \/ UNCHANGED vars
    BY <1>1, <1>16 DEF Connect, StreamLost, Report, Settle, vars, formVars
  <1> QED BY <1>2, <1>3, <1>4, <1>5, <1>6, <1>7, <1>8, <1>9, <1>10, <1>11, <1>12, <1>13, <1>14,
             <1>15, <1>16 DEF Next

LEMMA StepTypes == Types /\ [Next]_vars => Types'
  BY PageKept, StreamStep, ReadStep, WriteStep DEF Types

-----------------------------------------------------------------------------
(* What is shown, and what there is.                                       *)

\* Being older, or the same.
LEMMA OlderOrSame ==
  ASSUME NEW u \in Versions, NEW v \in Versions, NEW w \in Versions
  PROVE  /\ (u = v \/ Older(u, v)) /\ Older(v, w) => Older(u, w)
         /\ (u = v \/ Older(u, v)) /\ ~ Older(u, v) => u = v
         /\ ~ Older(v, v)
  BY DEF Older, Versions

LEMMA Versioned ==
  ASSUME Types
  PROVE  /\ Picture \in Versions /\ shown \in Versions /\ served \subseteq Versions
         /\ Picture = [n |-> truth.n, working |-> truth.work # "none"]
  BY PictureType DEF Types, ReadType, Picture

LEMMA ForeignOlder ==
  /\ Types => Older(Foreign, Picture) /\ Older(NotRead, Picture) /\ Foreign # Picture
  /\ Types' => Older(Foreign, Picture') /\ Foreign # Picture'
  <1>1. ASSUME Types PROVE Older(Foreign, Picture) /\ Older(NotRead, Picture) /\ Foreign # Picture
    <2>1. Picture.n = truth.n /\ truth.n \in Nat
      BY <1>1 DEF Picture, Types, ReadType
    <2> QED BY <2>1, NotReadType DEF Older
  <1>2. ASSUME Types' PROVE Older(Foreign, Picture') /\ Foreign # Picture'
    <2>1. Picture'.n = truth'.n /\ truth'.n \in Nat
      BY <1>2 DEF Picture, Types, ReadType
    <2> QED BY <2>1, NotReadType DEF Older
  <1> QED BY <1>1, <1>2

\* A change, and what is told of it, while no panel of the careful kind is
\* shown: who is told will read it.
LEMMA BecomeKeeps ==
  ASSUME IInv, Types', NEW n, NEW work, NEW news, Become(n, work, news),
         page' = page, shown' = shown, served' \subseteq served \cup {Picture', Foreign},
         Picture = Picture' \/ Older(Picture, Picture')
  PROVE  (\A v \in served' \cup {shown'} : v = Picture' \/ Older(v, Picture')) /\ NewestIsComing'
  <1>1. /\ Picture \in Versions /\ shown \in Versions /\ served \subseteq Versions
        /\ Types
    BY Versioned DEF IInv
  <1>2. Picture' \in Versions
    BY NextPictureType DEF Types, ReadType
  <1>3. \A v \in served \cup {shown} : v = Picture \/ Older(v, Picture)
    BY DEF IInv, VersionsInOrder
  <1>4. \A v \in served \cup {shown, Foreign} : v = Picture' \/ Older(v, Picture')
    BY <1>1, <1>2, <1>3, OlderOrSame, ForeignOlder
  <1>5. NewestIsComing'
    <2>1. here' = here /\ (up /\ news # {} /\ here # {} => owed' # {})
      BY <1>1, TellsPage DEF Become
    <2>2. CASE here = {}
      BY <2>1, <2>2 DEF NewestIsComing, Mounted
    <2>3. CASE here # {} /\ ~ (up /\ news # {})
      <3>1. excuse' # "none"
        BY <2>3 DEF Become, Mounted
      <3> QED BY <3>1 DEF NewestIsComing
    <2>4. CASE here # {} /\ up /\ news # {}
      BY <2>1, <2>4 DEF NewestIsComing
    <2> QED BY <2>2, <2>3, <2>4
  <1> QED BY <1>4, <1>5

\* A panel of that kind has no form that changes anything.
LEMMA CarefulChangesNothing ==
  ASSUME IInv, page.keyed = "careful", form.rereads # "answer"
  PROVE  /\ form.slot = "none" /\ DOMAIN writes = {} /\ truth.work = "none"
         /\ dialog = "closed" /\ Len(writes) = 0
  BY TableAssumption DEF TableAssumption, IInv, Types, OnlyItsKey, form

LEMMA MakeKeeps ==
  ASSUME IInv, Types', Make, page' = page, shown' = shown, served' \subseteq served \cup {Picture', Foreign},
         form.slot # "none" \/ writes # <<>>
  PROVE  VersionsInOrder' /\ NewestIsComing' /\ AuditIsHeard' /\ OnlyItsKey'
  <1>1. truth' = [n |-> truth.n + 1, work |-> IF form.work THEN "running" ELSE truth.work]
    BY MakeType DEF Make, IInv, Types
  <1>2. form' = form
    BY DEF form
  <1>3. Older(Picture, Picture')
    <2>1. truth.n \in Int
      BY DEF IInv, Types, ReadType
    <2> QED BY <1>1, <2>1 DEF Older, Picture
  <1>4. /\ \A v \in served' \cup {shown'} : v = Picture' \/ Older(v, Picture')
        /\ NewestIsComing'
    BY <1>3, BecomeKeeps DEF Make
  <1>5. ~ form'.work => truth'.work = "none"
    BY <1>1, <1>2 DEF IInv, VersionsInOrder
  <1>6. AuditIsHeard'
    <2>1. page.audited => form.late # {}
      BY TableAssumption DEF TableAssumption, IInv, Types, form
    <2>2. page.audited => excuse' \in {excuse, "stream"}
      BY <2>1 DEF Make, Become
    <2> QED BY <1>2, <2>2 DEF IInv, AuditIsHeard
  <1>7. OnlyItsKey'
    BY <1>2, CarefulChangesNothing DEF OnlyItsKey, IInv
  <1> QED BY <1>4, <1>5, <1>6, <1>7 DEF VersionsInOrder

\* A request is heard or sent: nothing but a read comes of it.
LEMMA OnlyAsked ==
  ASSUME IInv, page' = page, UNCHANGED <<truth, served, shown, excuse, here, up, owed>>,
         asked \subseteq asked',
         \/ form.slot # "none" \/ writes # <<>>
         \/ asked' \subseteq asked \cup {"here"} /\ UNCHANGED <<writes, dialog>>
  PROVE  VersionsInOrder' /\ NewestIsComing' /\ AuditIsHeard' /\ OnlyItsKey'
  <1>1. form' = form /\ Picture' = Picture
    BY DEF form, Picture
  <1>2. VersionsInOrder' /\ NewestIsComing' /\ AuditIsHeard'
    BY <1>1 DEF IInv, VersionsInOrder, NewestIsComing, AuditIsHeard, Mounted
  <1>3. OnlyItsKey'
    BY <1>1, CarefulChangesNothing DEF OnlyItsKey, IInv
  <1> QED BY <1>2, <1>3

\* An answer arrives.
LEMMA ShowKeeps ==
  ASSUME IInv, NEW v \in served, Show(v)
  PROVE  VersionsInOrder' /\ NewestIsComing' /\ AuditIsHeard' /\ OnlyItsKey'
  <1>1. /\ Picture \in Versions /\ shown \in Versions /\ served \subseteq Versions
    BY Versioned DEF IInv
  <1>2. \A u \in served \cup {shown} : u = Picture \/ Older(u, Picture)
    BY DEF IInv, VersionsInOrder
  <1>3. /\ page' = page /\ form' = form /\ Picture' = Picture /\ shown' = v
        /\ served' = served \ {v} /\ UNCHANGED <<here, owed, truth, writes, dialog>>
        /\ asked \subseteq asked' /\ asked' \subseteq asked \cup {"here"}
        /\ excuse' # excuse => Older(v, shown) /\ excuse' \in {"overtaken", "foreign"}
        /\ Older(v, shown) => excuse' # "none"
    <2>1. /\ excuse' # excuse => Older(v, shown) /\ excuse' \in {"overtaken", "foreign"}
          /\ Older(v, shown) => excuse' # "none"
      BY DEF Show
    <2>2. asked \subseteq asked' /\ asked' \subseteq asked \cup {"here"}
      BY DEF Show
    <2>3. /\ page' = page /\ form' = form /\ Picture' = Picture /\ shown' = v
          /\ served' = served \ {v} /\ UNCHANGED <<here, owed, truth, writes, dialog>>
      BY DEF Show, form, formVars, Picture
    <2> QED BY <2>1, <2>2, <2>3
  <1>4. VersionsInOrder'
    BY <1>2, <1>3 DEF IInv, VersionsInOrder
  <1>5. NewestIsComing'
    <2> SUFFICES ASSUME Mounted', excuse' = "none"
                 PROVE  "here" \in asked' \/ owed' # {} \/ Picture' \in served' \/ shown' = Picture'
      BY DEF NewestIsComing
    <2>1. Mounted /\ excuse = "none" /\ ~ Older(v, shown)
      BY <1>3 DEF Mounted
    <2>2. "here" \in asked \/ owed # {} \/ Picture \in served \/ shown = Picture
      BY <2>1 DEF IInv, NewestIsComing
    <2>3. shown = Picture => v = Picture
      BY <1>1, <1>2, <2>1
    <2> QED BY <1>3, <2>2, <2>3
  <1>6. AuditIsHeard'
    BY <1>3 DEF IInv, AuditIsHeard
  <1>7. ASSUME page.keyed = "careful", form.rereads # "answer" PROVE ~ Older(v, shown)
    <2>1. v = Picture
      BY <1>7 DEF IInv, OnlyItsKey
    <2>2. shown = Picture \/ Older(shown, Picture)
      BY <1>2
    <2> QED BY <1>1, <2>1, <2>2, OlderOrSame
  <1>8. OnlyItsKey'
    BY <1>3, <1>7 DEF IInv, OnlyItsKey
  <1> QED BY <1>4, <1>5, <1>6, <1>8

\* What belongs to another key is another version.
LEMMA ChooseKeeps ==
  ASSUME IInv, Choose
  PROVE  VersionsInOrder' /\ NewestIsComing' /\ AuditIsHeard' /\ OnlyItsKey'
  <1>1. /\ Picture \in Versions /\ shown \in Versions /\ served \subseteq Versions
        /\ truth \in [n : 0 .. MaxChanges + MaxKeys, work : {"none", "running", "reported"}]
    BY Versioned DEF IInv, Types, ReadType
  <1>2. /\ form' = form /\ truth' = [truth EXCEPT !.n = @ + 1] /\ truth.work = "none"
        /\ truth.n \in Nat /\ "here" \in asked' /\ (page.keyed = "careful" => asked' = {"here"})
        /\ served' = StillWanted /\ UNCHANGED <<page, here, owed, shown, dialog, excuse>>
    BY <1>1 DEF Choose, form
  <1>3. Picture' \in Versions /\ Older(Picture, Picture') /\ truth'.work = "none"
    <2>1. Types'
      BY StepTypes DEF IInv, Next
    <2>2. Picture' \in Versions
      BY <2>1, NextPictureType DEF Types, ReadType
    <2>3. truth' = [n |-> truth.n + 1, work |-> "none"]
      BY <1>1, <1>2
    <2>4. Older(Picture, Picture')
      BY <1>2, <2>3 DEF Picture, Older
    <2> QED BY <2>2, <2>3, <2>4
  <1>4. \A v \in served \cup {shown} : v = Picture \/ Older(v, Picture)
    BY DEF IInv, VersionsInOrder
  <1>5. \A v \in served \cup {shown} : v = Picture' \/ Older(v, Picture')
    BY <1>1, <1>3, <1>4, OlderOrSame
  <1>6. served' \subseteq served /\ (page.keyed = "careful" => served' = {})
    BY <1>2 DEF StillWanted
  <1>7. VersionsInOrder' /\ NewestIsComing' /\ AuditIsHeard'
    BY <1>2, <1>3, <1>5, <1>6 DEF IInv, VersionsInOrder, NewestIsComing, AuditIsHeard
  <1>8. ASSUME page.keyed = "careful", form.rereads # "answer" PROVE writes' = <<>>
    <2>1. writes = <<>>
      BY <1>8 DEF IInv, OnlyItsKey
    <2>2. writes' \in Seq(Write) /\ DOMAIN writes' = {}
      <3>1. Types'
        BY StepTypes DEF IInv, Next
      <3>2. DOMAIN writes = {}
        BY <2>1
      <3> QED BY <3>1, <3>2 DEF Choose, Types, WriteType, SendType
    <2>3. Len(writes') = 0
      BY <2>2
    <2> QED BY <2>2, <2>3
  <1>9. OnlyItsKey'
    BY <1>2, <1>3, <1>6, <1>8 DEF IInv, OnlyItsKey
  <1> QED BY <1>7, <1>9

\* The page is opened and left.
LEMMA MountKeeps ==
  ASSUME IInv, Mount \/ Leave
  PROVE  VersionsInOrder' /\ NewestIsComing' /\ AuditIsHeard' /\ OnlyItsKey'
  <1>1. /\ page' = page /\ form' = form /\ Picture' = Picture /\ truth' = truth
        /\ served' = {} /\ shown' = NotRead /\ excuse' = "none"
    BY DEF Mount, Leave, form, formVars, Picture
  <1>2. Older(NotRead, Picture)
    BY NotReadType, Versioned DEF IInv, Older, Types, ReadType
  <1>3. VersionsInOrder' /\ AuditIsHeard'
    BY <1>1, <1>2 DEF IInv, VersionsInOrder, AuditIsHeard
  <1>4. (asked' = {"here"} \/ here' = {}) /\ asked' \subseteq {"here"}
    BY DEF Mount, Leave, Stream!Leave, IInv, Types, StreamType
  <1>5. NewestIsComing'
    BY <1>4 DEF NewestIsComing, Mounted
  <1>6. ASSUME page.keyed = "careful", form.rereads # "answer"
        PROVE  dialog' = "closed" /\ writes' = <<>> /\ truth.work = "none"
    <2>1. dialog = "closed" /\ writes = <<>> /\ truth.work = "none"
      BY <1>6 DEF IInv, OnlyItsKey
    <2>2. CASE Mount
      BY <2>1, <2>2 DEF Mount, formVars
    <2>3. CASE Leave
      <3>1. writes' \in Seq(Write) /\ Len(writes') <= 0
        BY <2>1, <2>3, LeftWrites DEF IInv, Types
      <3>2. Len(writes') = 0
        BY <3>1
      <3>3. writes' = <<>>
        BY <3>1, <3>2
      <3> QED BY <2>1, <2>3, <3>3 DEF Leave
    <2> QED BY <2>2, <2>3
  <1>7. OnlyItsKey'
    BY <1>1, <1>4, <1>6 DEF OnlyItsKey
  <1> QED BY <1>3, <1>5, <1>7

LEMMA StepShown ==
  IInv /\ [Next]_vars => VersionsInOrder' /\ NewestIsComing' /\ AuditIsHeard' /\ OnlyItsKey'
  <1> DEFINE Kept == VersionsInOrder' /\ NewestIsComing' /\ AuditIsHeard' /\ OnlyItsKey'
  <1> SUFFICES ASSUME IInv, [Next]_vars PROVE Kept
    OBVIOUS
  <1>1. Types /\ Types' /\ page' = page /\ form' = form
    BY StepTypes, PageKept DEF IInv, form
  <1> HIDE DEF Kept
  <1>2. CASE Mount \/ Leave
    BY <1>2, MountKeeps DEF Kept
  <1>3. CASE Reread
    <2>1. /\ asked' = asked \cup {"here"} /\ Picture' = Picture
          /\ UNCHANGED <<truth, served, shown, excuse, here, writes, dialog>>
      BY <1>3 DEF Reread, Ask, formVars, Picture, Stream!Reload
    <2> QED BY <1>1, <2>1
           DEF Kept, IInv, VersionsInOrder, NewestIsComing, AuditIsHeard, OnlyItsKey
  <1>4. CASE Poll
    BY <1>1, <1>4, OnlyAsked DEF Poll, Ask, formVars, Kept
  <1>5. ASSUME NEW key \in asked, Serve(key) PROVE Kept
    <2>1. /\ Picture' = Picture /\ asked' = asked \ {key}
          /\ UNCHANGED <<truth, shown, writes, dialog, here, owed>>
      BY <1>5 DEF Serve, formVars, Picture
    <2>2. CASE key = "here"
      <3>1. served' = served \cup {Picture} /\ excuse' = "none"
        BY <1>5, <2>2 DEF Serve
      <3> QED BY <1>1, <2>1, <3>1
             DEF Kept, IInv, VersionsInOrder, NewestIsComing, AuditIsHeard, OnlyItsKey
    <2>3. CASE key # "here"
      <3>1. served' = served \cup {Foreign} /\ excuse' = excuse /\ key = "left"
        BY <1>5, <2>3 DEF Serve
      <3>2. ~ (page.keyed = "careful" /\ form.rereads # "answer")
        BY <3>1 DEF IInv, OnlyItsKey
      <3>3. Older(Foreign, Picture)
        BY <1>1, ForeignOlder
      <3>4. VersionsInOrder' /\ AuditIsHeard' /\ OnlyItsKey'
        BY <1>1, <2>1, <3>1, <3>2, <3>3 DEF IInv, VersionsInOrder, AuditIsHeard, OnlyItsKey
      <3>5. NewestIsComing'
        BY <2>1, <3>1 DEF IInv, NewestIsComing, Mounted
      <3> QED BY <3>4, <3>5 DEF Kept
    <2> QED BY <2>2, <2>3
  <1>6. ASSUME NEW key \in asked, FailRead(key) PROVE Kept
    <2>1. /\ shown' \in {shown, NotRead} /\ Picture' = Picture /\ excuse' = "failed"
          /\ asked' \subseteq asked /\ UNCHANGED <<truth, served, writes, dialog>>
      BY <1>6 DEF FailRead, formVars, Picture
    <2>2. Older(NotRead, Picture)
      BY <1>1, ForeignOlder
    <2> QED BY <1>1, <2>1, <2>2
           DEF Kept, IInv, VersionsInOrder, NewestIsComing, AuditIsHeard, OnlyItsKey
  <1>7. CASE Choose
    BY <1>7, ChooseKeeps DEF Kept
  <1>8. ASSUME NEW v \in served, Show(v) PROVE Kept
    BY <1>8, ShowKeeps DEF Kept
  <1>9. CASE Connect
    BY <1>1, <1>9, OnlyAsked DEF Connect, Stream!Connect, pageVars, formVars, Kept, IInv, VersionsInOrder,
       NewestIsComing, AuditIsHeard, OnlyItsKey, Picture, Mounted
  <1>10. CASE StreamLost
    <2>1. /\ here' = here /\ Picture' = Picture
          /\ UNCHANGED <<truth, shown, asked, served, writes, dialog>>
          /\ excuse' = IF owed' # owed THEN "stream" ELSE excuse
      BY <1>10 DEF StreamLost, Stream!Drop, pageVars, formVars, Picture
    <2> QED BY <1>1, <2>1
           DEF Kept, IInv, VersionsInOrder, NewestIsComing, AuditIsHeard, OnlyItsKey, Mounted
  <1>11. CASE Report
    <2>1. /\ truth.work = "running" /\ truth' = [truth EXCEPT !.work = "reported"]
          /\ UNCHANGED <<shown, asked, served, excuse, writes, dialog>>
      BY <1>11 DEF Report, pageVars, formVars
    <2>2. Picture' = Picture
      BY <2>1 DEF Picture, IInv, Types, ReadType
    <2>3. here' = here /\ owed \subseteq owed'
      BY <1>1, <1>11, TellsPage DEF Report
    <2> QED BY <1>1, <2>1, <2>2, <2>3
           DEF Kept, IInv, VersionsInOrder, NewestIsComing, AuditIsHeard, OnlyItsKey, Mounted
  <1>12. CASE Settle
    <2>1. /\ truth.work = "reported" /\ Become(truth.n, "none", page.settled)
          /\ UNCHANGED <<shown, asked, served, writes, dialog>>
          /\ truth' = [n |-> truth.n, work |-> "none"]
      BY <1>12 DEF Settle, Become, pageVars, formVars
    <2>2. Older(Picture, Picture')
      <3>1. truth.n \in Int
        BY <1>1 DEF Types, ReadType
      <3> QED BY <2>1, <3>1 DEF Older, Picture
    <2>3. /\ \A v \in served' \cup {shown'} : v = Picture' \/ Older(v, Picture')
          /\ NewestIsComing'
      BY <1>1, <2>1, <2>2, BecomeKeeps
    <2>4. form.work /\ ~ (page.keyed = "careful" /\ form.rereads # "answer")
      BY <2>1 DEF IInv, VersionsInOrder, OnlyItsKey
    <2> QED BY <1>1, <2>1, <2>3, <2>4 DEF Kept, VersionsInOrder, AuditIsHeard, OnlyItsKey
  <1>13. CASE Open
    BY <1>1, <1>13, OnlyAsked DEF Open, pageVars, Kept
  <1>14. CASE Close
    <2>1. Picture' = Picture /\ UNCHANGED <<truth, served, shown, excuse, here, up, owed, asked>>
      BY <1>14 DEF Close, pageVars, Picture
    <2>2. ~ (page.keyed = "careful" /\ form.rereads # "answer")
      BY <1>14, CarefulChangesNothing DEF Close
    <2> QED BY <1>1, <2>1, <2>2
           DEF Kept, IInv, VersionsInOrder, NewestIsComing, AuditIsHeard, OnlyItsKey, Mounted
  <1>15. CASE Finish
    <2>1. /\ Picture' = Picture /\ asked' = asked \cup {"here"}
          /\ UNCHANGED <<truth, served, shown, excuse, here, up, owed>>
      BY <1>15 DEF Finish, Ask, Picture
    <2>2. ~ (page.keyed = "careful" /\ form.rereads # "answer")
      BY <1>15, CarefulChangesNothing DEF Finish
    <2> QED BY <1>1, <2>1, <2>2
           DEF Kept, IInv, VersionsInOrder, NewestIsComing, AuditIsHeard, OnlyItsKey, Mounted
  <1>16. CASE Submit
    <2>1. /\ Picture' = Picture
          /\ UNCHANGED <<truth, served, shown, excuse, here, up, owed, asked>>
      BY <1>16 DEF Submit, Send, pageVars, Picture
    <2>2. ~ (page.keyed = "careful" /\ form.rereads # "answer")
      BY <1>16, CarefulChangesNothing DEF Submit
    <2> QED BY <1>1, <2>1, <2>2
           DEF Kept, IInv, VersionsInOrder, NewestIsComing, AuditIsHeard, OnlyItsKey, Mounted
  <1>17. CASE Click
    BY <1>1, <1>17, OnlyAsked DEF Click, Send, pageVars, Kept
  <1>18. CASE Elsewhere
    <2>1. CASE Make
      BY <1>1, <1>18, <2>1, MakeKeeps DEF Elsewhere, pageVars, Kept
    <2>2. CASE Tell(form.early) /\ UNCHANGED <<truth, excuse>>
      <3>1. here' = here /\ owed \subseteq owed' /\ form.slot # "none" /\ Picture' = Picture
            /\ UNCHANGED <<truth, excuse, shown, asked, served>>
        BY <1>1, <1>18, <2>2, TellsPage DEF Elsewhere, pageVars, Picture
      <3>2. ~ (page.keyed = "careful" /\ form.rereads # "answer")
        BY <3>1, CarefulChangesNothing
      <3> QED BY <1>1, <3>1, <3>2
             DEF Kept, IInv, VersionsInOrder, NewestIsComing, AuditIsHeard, OnlyItsKey, Mounted
    <2> QED BY <1>18, <2>1, <2>2 DEF Elsewhere
  <1>19. ASSUME NEW i \in DOMAIN writes, Begin(i) PROVE Kept
    <2>1. here' = here /\ owed \subseteq owed' /\ Picture' = Picture
          /\ UNCHANGED <<truth, excuse, shown, asked, served>>
      BY <1>1, <1>19, TellsPage DEF Begin, pageVars, Picture
    <2>2. ~ (page.keyed = "careful" /\ form.rereads # "answer")
      BY CarefulChangesNothing
    <2> QED BY <1>1, <2>1, <2>2
           DEF Kept, IInv, VersionsInOrder, NewestIsComing, AuditIsHeard, OnlyItsKey, Mounted
  <1>20. ASSUME NEW i \in DOMAIN writes, Accept(i) PROVE Kept
    <2>1. /\ Make /\ shown' = shown /\ served' \subseteq served \cup {Picture', Foreign}
          /\ writes # <<>>
      BY <1>20 DEF Accept
    <2> QED BY <1>1, <2>1, MakeKeeps DEF Kept
  <1>21. ASSUME NEW i \in DOMAIN writes, HearAccepted(i) \/ HearRefused(i) PROVE Kept
    <2>1. /\ asked \subseteq asked' /\ UNCHANGED <<truth, served, shown, excuse, here, up, owed>>
          /\ writes # <<>>
      BY <1>21 DEF HearAccepted, HearRefused, Ask, pageVars
    <2> QED BY <1>1, <2>1, OnlyAsked DEF Kept
  <1>22. CASE UNCHANGED vars
    BY <1>1, <1>22, OnlyAsked DEF vars, pageVars, formVars, Kept
  <1>23. CASE ClearFlag
    BY <1>1, <1>23, OnlyAsked DEF ClearFlag, pageVars, Kept
  <1> QED BY <1>2, <1>3, <1>4, <1>5, <1>6, <1>7, <1>8, <1>9, <1>10, <1>11, <1>12, <1>13, <1>14,
             <1>15, <1>16, <1>17, <1>18, <1>19, <1>20, <1>21, <1>22, <1>23 DEF Next, Kept

\* What is read is for the key there is, where there is one only.
LEMMA StepKey == IInv /\ [Next]_vars => NoOtherKey'
  <1> SUFFICES ASSUME IInv, [Next]_vars, page.keyed = "no"
               PROVE  Foreign \notin served' /\ "left" \notin asked' /\ excuse' # "foreign"
    BY PageKept DEF NoOtherKey
  <1>1. Foreign \notin served /\ "left" \notin asked /\ excuse # "foreign"
    BY DEF IInv, NoOtherKey
  <1>2. Foreign # Picture /\ Foreign # Picture'
    BY StepTypes, ForeignOlder DEF IInv
  <1>3. \A i \in DOMAIN writes : ~ writes[i].left
    BY DEF IInv, Types, WriteType, AllFit, Fit
  <1>4. CASE UNCHANGED <<served, asked, excuse>>
    BY <1>1, <1>4
  <1>5. CASE Mount \/ Leave
    BY <1>5 DEF Mount, Leave
  <1>6. CASE Reread \/ Poll \/ Finish
    BY <1>1, <1>6 DEF Reread, Poll, Finish, Ask
  <1>7. ASSUME NEW key \in asked, Serve(key) \/ FailRead(key)
        PROVE  Foreign \notin served' /\ "left" \notin asked' /\ excuse' # "foreign"
    BY <1>1, <1>2, <1>7 DEF Serve, FailRead
  <1>8. ASSUME NEW v \in served, Show(v)
        PROVE  Foreign \notin served' /\ "left" \notin asked' /\ excuse' # "foreign"
    BY <1>1, <1>8 DEF Show
  <1>9. ASSUME NEW n, NEW work, NEW news, Become(n, work, news)
        PROVE  excuse' # "foreign"
    BY <1>1, <1>9 DEF Become
  <1>10. CASE StreamLost \/ Settle \/ Elsewhere
    BY <1>1, <1>9, <1>10 DEF StreamLost, Settle, Elsewhere, Make, pageVars
  <1>11. ASSUME NEW i \in DOMAIN writes, Accept(i)
         PROVE  Foreign \notin served' /\ "left" \notin asked' /\ excuse' # "foreign"
    <2>1. excuse' # "foreign" /\ asked' = asked
      BY <1>9, <1>11 DEF Accept, Make
    <2>2. served' \subseteq served \cup {Picture'}
      BY <1>3, <1>11 DEF Accept
    <2> QED BY <1>1, <1>2, <2>1, <2>2
  <1>12. ASSUME NEW i \in DOMAIN writes, HearAccepted(i)
         PROVE  Foreign \notin served' /\ "left" \notin asked' /\ excuse' # "foreign"
    BY <1>1, <1>3, <1>12 DEF HearAccepted, Ask, pageVars
  <1>13. ASSUME NEW i \in DOMAIN writes, Begin(i) \/ HearRefused(i)
         PROVE  UNCHANGED <<served, asked, excuse>>
    BY <1>13 DEF Begin, HearRefused, pageVars
  <1>14. CASE \/ Connect \/ Report \/ Open \/ Close \/ Submit \/ Click \/ ClearFlag
              \/ UNCHANGED vars
    BY <1>4, <1>14 DEF Connect, Report, Open, Close, Submit, Click, ClearFlag, Send, vars, pageVars
  <1>15. ~ Choose
    BY DEF Choose
  <1> QED BY <1>4, <1>5, <1>6, <1>7, <1>8, <1>10, <1>11, <1>12, <1>13, <1>14, <1>15 DEF Next

LEMMA InitInv == Init => IInv
  <1> SUFFICES ASSUME Init PROVE IInv
    OBVIOUS
  <1>1. Types /\ truth = [n |-> 0, work |-> "none"] /\ shown = NotRead /\ served = {}
        /\ here = {} /\ excuse = "none" /\ writes = <<>> /\ dialog = "closed" /\ asked = {}
    BY InitTypes DEF Init, Stream!Init
  <1>2. Older(NotRead, Picture)
    BY <1>1, NotReadType DEF Older, Picture
  <1> QED BY <1>1, <1>2
         DEF IInv, VersionsInOrder, NewestIsComing, AuditIsHeard, OnlyItsKey, NoOtherKey, Mounted

LEMMA StepInv == IInv /\ [Next]_vars => IInv'
  BY StepTypes, StepShown, StepKey DEF IInv

LEMMA Invariance == Spec => []IInv
  BY InitInv, StepInv, PTL DEF Spec

\* A page, its dialog, its stream and what is under way keep their types, for
\* every part of the console.
THEOREM TypesKept == Spec => []TypeOK
  <1>1. IInv => TypeOK
    BY TypesMean DEF IInv
  <1> QED BY <1>1, Invariance, PTL

\* A page at rest is stale only after it lost a read, an older answer or one
\* for a key that was left came last, its stream was away, or of what no event
\* tells (useLive, the triggers of 0037_live_updates.sql, the closures the
\* forms of Dns.tsx and Vpn.tsx read again with); a page without keys shows
\* nothing for another, and for one that watches the audit log what no event
\* tells can only be a machine's report.
THEOREM StaleOnlyForAReason == Spec => []StaleForAReason
  <1>1. IInv => StaleForAReason
    <2> SUFFICES ASSUME IInv PROVE StaleForAReason
      OBVIOUS
    <2>1. Mounted /\ Quiet /\ shown # Picture => excuse # "none"
      BY DEF IInv, NewestIsComing, Quiet
    <2>2. page.audited /\ ~ form.work => excuse # "untold"
      BY DEF IInv, AuditIsHeard
    <2>3. excuse = "foreign" => page.keyed # "no"
      BY DEF IInv, NoOtherKey
    <2> QED BY <2>1, <2>2, <2>3 DEF StaleForAReason
  <1> QED BY <1>1, Invariance, PTL

\* A button that is disabled while its flag is set has one request out at most:
\* the flag outlives every answer but its own request's, that of a dialog of
\* its own is gone with it, and a page keeps one for all its dialogs (setBusy,
\* where no other request of the page clears it).
THEOREM OneRequestAtATime == Spec => []OneAtATime
  <1>1. IInv => OneAtATime
    BY TypesMean DEF IInv
  <1> QED BY <1>1, Invariance, PTL

\* A panel that looks whether an answer is still the one it waits for shows no
\* earlier key's after its own (LocalAccountPicker, Membership).
THEOREM CarefulShowsItsKeyAlways == Spec => []CarefulShowsItsKey
  <1>1. IInv => CarefulShowsItsKey
    BY DEF IInv, OnlyItsKey, CarefulShowsItsKey
  <1> QED BY <1>1, Invariance, PTL

-----------------------------------------------------------------------------
(* The stream.                                                             *)

USE WatchAssumption, LiveBoundAssumption DEF WatchAssumption, LiveBoundAssumption

\* Who listens, through what, and what may be under way.
LiveInv == LiveTypeOK /\ StreamIsKept /\ QueueIsBounded /\ Set \subseteq listeners

LEMMA PutBounds ==
  ASSUME NEW q \in Seq(Table), NEW t \in Table, Len(q) <= Depth
  PROVE  Put(q, t) \in Seq(Table) /\ Len(Put(q, t)) <= Depth /\ Put(q, t) # <<>>
  <1>1. CASE Len(q) < Depth
    BY <1>1 DEF Put
  <1>2. CASE ~(Len(q) < Depth)
    <2>1. Len(q) = Depth /\ q # <<>>
      BY <1>2
    <2>2. Tail(q) \in Seq(Table) /\ Len(Tail(q)) = Depth - 1
      BY <2>1
    <2> QED BY <1>2, <2>2 DEF Put
  <1> QED BY <1>1, <1>2

LEMMA LiveInitInv == LiveInit => LiveInv
  BY DEF LiveInit, LiveInv, LiveTypeOK, StreamIsKept, QueueIsBounded, Set, Timer

LEMMA LiveStepInv == LiveInv /\ [LiveNext]_liveVars => LiveInv'
  <1> SUFFICES ASSUME LiveInv, [LiveNext]_liveVars PROVE LiveInv'
    OBVIOUS
  <1> USE DEF LiveInv, LiveTypeOK, StreamIsKept, QueueIsBounded, Set, Timer
  <1>1. ASSUME NEW l \in Listener, Listen(l) PROVE LiveInv'
    BY <1>1 DEF Listen, Opened
  <1>2. ASSUME NEW l \in Listener, Unmount(l) PROVE LiveInv'
    <2>1. CASE listeners' = {}
      <3>1. pending' \in [Listener -> {"one", "other", "off"}] /\ Set' = {}
        BY <1>2, <2>1 DEF Unmount, TimerLeft
      <3>2. /\ source' = "none" /\ reconnect' = "off" /\ queue' = <<>>
            /\ UNCHANGED <<retry, listening, changes, latest, breaks>>
        BY <1>2, <2>1 DEF Unmount, TimerLeft
      <3> QED BY <2>1, <3>1, <3>2
    <2>2. CASE listeners' # {}
      BY <1>2, <2>2 DEF Unmount, TimerLeft
    <2> QED BY <2>1, <2>2
  <1>3. ASSUME NEW l \in Listener, NEW timer \in Timer, Fire(l, timer) PROVE LiveInv'
    BY <1>3 DEF Fire, PendingAfter
  <1>4. CASE Subscribe
    BY <1>4 DEF Subscribe
  <1>5. CASE Break
    BY <1>5 DEF Break
  <1>6. CASE Reconnect
    BY <1>6 DEF Reconnect, Opened
  <1>7. CASE GoDeaf
    BY <1>7 DEF GoDeaf
  <1>8. CASE Deliver
    BY <1>8 DEF Deliver, Another
  <1>9. ASSUME NEW t \in Table, Change(t) PROVE LiveInv'
    <2>1. CASE source = "open" /\ listening = "yes"
      <3>1. queue' = Put(queue, t)
        BY <1>9, <2>1 DEF Change
      <3>2. queue' \in Seq(Table) /\ Len(queue') <= Depth
        BY <3>1, PutBounds
      <3>3. /\ UNCHANGED <<listeners, source, retry, reconnect, pending, listening, breaks>>
            /\ changes' \in {0, 1} /\ latest' \subseteq Table
        BY <1>9 DEF Change
      <3> QED BY <2>1, <3>2, <3>3
    <2>2. CASE ~(source = "open" /\ listening = "yes")
      BY <1>9, <2>2 DEF Change
    <2> QED BY <2>1, <2>2
  <1>10. CASE UNCHANGED liveVars
    BY <1>10 DEF liveVars
  <1> QED
    BY <1>1, <1>2, <1>3, <1>4, <1>5, <1>6, <1>7, <1>8, <1>9, <1>10 DEF LiveNext

\* The state of live.ts and of the subscriber's queue keeps its shape, there
\* is a stream or a timer for one exactly while somebody listens, and only a
\* subscribed console has names waiting, of which at most Depth.
THEOREM StreamKept == LiveSpec => [](LiveTypeOK /\ StreamIsKept /\ QueueIsBounded)
  <1>1. LiveSpec => []LiveInv
    BY LiveInitInv, LiveStepInv, PTL DEF LiveSpec
  <1>2. LiveInv => LiveTypeOK /\ StreamIsKept /\ QueueIsBounded
    BY DEF LiveInv
  <1> QED BY <1>1, <1>2, PTL

-----------------------------------------------------------------------------

\* The names in a queue that grows at its end or loses its head.
LEMMA SetOfAppend ==
  ASSUME NEW q \in Seq(Table), NEW t \in Table
  PROVE  ToSet(Append(q, t)) = ToSet(q) \cup {t}
  <1> DEFINE n == Len(q)  a == Append(q, t)
  <1>1. n \in Nat /\ DOMAIN q = 1 .. n /\ DOMAIN a = 1 .. (n + 1)
    OBVIOUS
  <1>2. a[n + 1] = t /\ \A i \in 1 .. n : a[i] = q[i]
    OBVIOUS
  <1>3. \A i \in 1 .. (n + 1) : i \in 1 .. n \/ i = n + 1
    BY <1>1
  <1> HIDE DEF a
  <1>4. \A i \in 1 .. n : i \in 1 .. (n + 1)
    BY <1>1
  <1>5. n + 1 \in 1 .. (n + 1)
    BY <1>1
  <1> QED BY <1>1, <1>2, <1>3, <1>4, <1>5 DEF ToSet

LEMMA SetOfTail ==
  ASSUME NEW q \in Seq(Table), q # <<>>
  PROVE  ToSet(q) = {Head(q)} \cup ToSet(Tail(q))
  <1> DEFINE n == Len(q)
  <1>1. n \in Nat \ {0} /\ DOMAIN q = 1 .. n /\ DOMAIN Tail(q) = 1 .. (n - 1)
    OBVIOUS
  <1>2. Head(q) = q[1] /\ \A i \in 1 .. (n - 1) : Tail(q)[i] = q[i + 1]
    OBVIOUS
  <1>3. ASSUME NEW x \in ToSet(q) PROVE x \in {Head(q)} \cup ToSet(Tail(q))
    <2>1. PICK i \in 1 .. n : x = q[i]
      BY <1>1, <1>3 DEF ToSet
    <2>2. CASE i = 1
      BY <2>1, <2>2, <1>2
    <2>3. CASE i # 1
      <3>1. i - 1 \in 1 .. (n - 1) /\ (i - 1) + 1 = i
        BY <2>1, <2>3, <1>1
      <3>2. Tail(q)[i - 1] = q[i]
        BY <3>1, <1>2
      <3> QED BY <3>1, <3>2, <2>1, <1>1 DEF ToSet
    <2> QED BY <2>2, <2>3
  <1>4. Head(q) \in ToSet(q)
    BY <1>1, <1>2 DEF ToSet
  <1>5. ASSUME NEW x \in ToSet(Tail(q)) PROVE x \in ToSet(q)
    <2>1. PICK i \in 1 .. (n - 1) : x = Tail(q)[i]
      BY <1>1, <1>5 DEF ToSet
    <2>2. x = q[i + 1] /\ i + 1 \in 1 .. n
      BY <2>1, <1>1, <1>2
    <2> QED BY <2>2, <1>1 DEF ToSet
  <1> QED BY <1>3, <1>4, <1>5

LEMMA NamesOfEmpty == ToSet(<<>>) = {}
  <1>1. DOMAIN <<>> = {}
    OBVIOUS
  <1>2. \A x : x \notin ToSet(<<>>)
    BY <1>1 DEF ToSet
  <1> QED BY <1>2

\* A name put into the queue is in it; the others in it were there before.
LEMMA SetOfPut ==
  ASSUME NEW q \in Seq(Table), NEW t \in Table, Len(q) <= Depth
  PROVE  /\ t \in ToSet(Put(q, t)) /\ ToSet(Put(q, t)) \subseteq ToSet(q) \cup {t}
         /\ Len(q) < Depth => ToSet(Put(q, t)) = ToSet(q) \cup {t}
  <1>1. CASE Len(q) < Depth
    BY <1>1, SetOfAppend DEF Put
  <1>2. CASE ~(Len(q) < Depth)
    <2>1. q # <<>> /\ Tail(q) \in Seq(Table)
      BY <1>2
    <2>2. ToSet(Put(q, t)) = ToSet(Tail(q)) \cup {t}
      BY <1>2, <2>1, SetOfAppend DEF Put
    <2> QED BY <1>2, <2>1, <2>2, SetOfTail
  <1> QED BY <1>1, <1>2

LEMMA InitPromise == LiveInit => Promise!Init
  BY NamesOfEmpty DEF LiveInit, Promise!Init, Owed, Set

LEMMA StepPromise == LiveInv /\ [LiveNext]_liveVars => [Promise!Next]_(Promise!streamVars)
  <1> SUFFICES ASSUME LiveInv, [LiveNext]_liveVars PROVE [Promise!Next]_(Promise!streamVars)
    OBVIOUS
  <1> DEFINE Up == source = "open" /\ listening = "yes"
  <1> USE DEF LiveInv, LiveTypeOK, StreamIsKept, QueueIsBounded, Timer
  <1>1. ASSUME NEW l \in Listener, Listen(l) PROVE Promise!Join(l)
    <2>0. UNCHANGED <<changes, latest>>
      BY <1>1 DEF Listen
    <2>1. /\ l \notin listeners /\ listeners' = listeners \cup {l}
          /\ pending' = pending /\ queue' = queue
      BY <1>1 DEF Listen
    <2>2. Owed' \in {Owed, Owed \cup {l}}
      BY <2>1 DEF Owed, Set
    <2>3. Up' = Up
      BY <1>1 DEF Listen, Opened
    <2> QED BY <2>0, <2>1, <2>2, <2>3 DEF Promise!Join
  <1>2. ASSUME NEW l \in Listener, Unmount(l) PROVE Promise!Leave(l)
    <2>0. UNCHANGED <<changes, latest>>
      BY <1>2 DEF Unmount
    <2>1. l \in listeners /\ listeners' = listeners \ {l} /\ Set' = Set \ {l}
      BY <1>2 DEF Unmount, TimerLeft, Set
    <2>2. Owed' = Owed \ {l}
      <3>1. CASE listeners' = {}
        BY <1>2, <2>1, <3>1, NamesOfEmpty DEF Unmount, TimerLeft, Owed, Set
      <3>2. CASE listeners' # {}
        BY <1>2, <2>1, <3>2 DEF Unmount, TimerLeft, Owed, Set
      <3> QED BY <3>1, <3>2
    <2>3. Up' = (Up /\ listeners' # {})
      BY <1>2 DEF Unmount, TimerLeft
    <2> QED BY <2>0, <2>1, <2>2, <2>3 DEF Promise!Leave
  <1>3. ASSUME NEW l \in Listener, NEW timer \in Timer, Fire(l, timer)
        PROVE  Promise!Reload(l) \/ UNCHANGED Promise!streamVars
    <2>0. UNCHANGED <<changes, latest>>
      BY <1>3 DEF Fire
    <2>1. /\ l \in Set /\ Set' = Set \ {l}
          /\ UNCHANGED <<listeners, source, listening, queue>>
      BY <1>3 DEF Fire, PendingAfter, Set
    <2>2. Owed' = Owed \/ (l \in Owed /\ Owed' = Owed \ {l})
      BY <2>1 DEF Owed, Set
    <2> QED BY <2>0, <2>1, <2>2 DEF Promise!Reload, Promise!streamVars
  <1>4. ASSUME Subscribe PROVE Promise!Connect \/ UNCHANGED Promise!streamVars
    <2>0. UNCHANGED <<changes, latest>>
      BY <1>4 DEF Subscribe
    <2>1. UNCHANGED <<listeners, pending, listening>> /\ queue = <<>> /\ queue' = <<>>
      BY <1>4 DEF Subscribe
    <2>2. Owed' = Owed
      BY <2>1 DEF Owed, Set
    <2>3. listeners # {} /\ ~Up /\ source' = "open"
      BY <1>4 DEF Subscribe
    <2> QED BY <2>0, <2>1, <2>2, <2>3 DEF Promise!Connect, Promise!streamVars
  <1>5. ASSUME Break PROVE Promise!Drop
    <2>0. UNCHANGED <<changes, latest>>
      BY <1>5 DEF Break
    <2>1. UNCHANGED <<listeners, pending>> /\ queue' = <<>> /\ source' = "none"
      BY <1>5 DEF Break
    <2>2. Owed' \in SUBSET Owed
      BY <2>1, NamesOfEmpty DEF Owed, Set
    <2> QED BY <2>0, <2>1, <2>2 DEF Promise!Drop
  <1>6. ASSUME Reconnect PROVE UNCHANGED Promise!streamVars
    <2>0. UNCHANGED <<changes, latest>>
      BY <1>6 DEF Reconnect
    <2>1. UNCHANGED <<listeners, pending, queue, listening>> /\ source' = Opened(listeners)
      BY <1>6 DEF Reconnect
    <2>2. Owed' = Owed /\ Up' = Up
      BY <2>1 DEF Owed, Set, Opened
    <2> QED BY <2>0, <2>1, <2>2 DEF Promise!streamVars
  <1>7. ASSUME GoDeaf PROVE Promise!Drop
    <2>0. UNCHANGED <<changes, latest>>
      BY <1>7 DEF GoDeaf
    <2>1. UNCHANGED <<listeners, pending, queue>> /\ listening' = "lost"
      BY <1>7 DEF GoDeaf
    <2>2. Owed' = Owed
      BY <2>1 DEF Owed, Set
    <2> QED BY <2>0, <2>1, <2>2 DEF Promise!Drop
  <1>8. ASSUME Deliver PROVE UNCHANGED Promise!streamVars
    <2>0. UNCHANGED <<changes, latest>>
      BY <1>8 DEF Deliver
    <2>1. /\ UNCHANGED <<listeners, source, listening>> /\ queue # <<>> /\ queue' = Tail(queue)
          /\ Set' = Set \cup {l \in listeners : Head(queue) \in Watch[l]}
      BY <1>8 DEF Deliver, Another, Set
    <2>2. ToSet(queue) = {Head(queue)} \cup ToSet(queue')
      BY <2>1, SetOfTail
    <2>3. Owed' = Owed
      BY <2>1, <2>2 DEF Owed
    <2> QED BY <2>0, <2>1, <2>3 DEF Promise!streamVars
  <1>9. ASSUME NEW t \in Table, Change(t)
        PROVE  Promise!Announce(t) \/ Promise!Flood(t) \/ Promise!Unheard(t)
    <2>0. Promise!Changed(t)
      BY <1>9 DEF Change, Promise!Changed
    <2> DEFINE W == {l \in listeners : t \in Watch[l]}
    <2>1. UNCHANGED <<listeners, source, listening, pending>>
      BY <1>9 DEF Change
    <2>2. CASE ~Up
      <3>1. queue' = queue
        BY <1>9, <2>2 DEF Change
      <3>2. Owed' = Owed
        BY <2>1, <3>1 DEF Owed, Set
      <3> QED BY <2>0, <2>1, <2>2, <3>2 DEF Promise!Unheard
    <2>3. CASE Up
      <3>1. queue' = Put(queue, t)
        BY <1>9, <2>3 DEF Change
      <3>2. /\ t \in ToSet(queue') /\ ToSet(queue') \subseteq ToSet(queue) \cup {t}
            /\ Len(queue) < Depth => ToSet(queue') = ToSet(queue) \cup {t}
        BY <3>1, SetOfPut
      <3>3. CASE Len(queue) < Depth
        <4>1. Owed' = Owed \cup W
          BY <2>1, <3>2, <3>3 DEF Owed, Set
        <4> QED BY <2>0, <2>1, <2>3, <4>1 DEF Promise!Announce, Promise!Tell, Promise!Watchers
      <3>4. CASE ~(Len(queue) < Depth)
        <4>1. Owed' = (Owed \cap Owed') \cup W
          BY <2>1, <3>2 DEF Owed, Set
        <4>2. Owed \cap Owed' \in SUBSET Owed
          OBVIOUS
        <4> QED BY <2>0, <2>1, <2>3, <4>1, <4>2 DEF Promise!Flood, Promise!Watchers
      <3> QED BY <3>3, <3>4
    <2> QED BY <2>2, <2>3
  <1>10. ASSUME UNCHANGED liveVars PROVE UNCHANGED Promise!streamVars
    BY <1>10 DEF liveVars, Promise!streamVars, Owed, Set
  <1> QED
    BY <1>1, <1>2, <1>3, <1>4, <1>5, <1>6, <1>7, <1>8, <1>9, <1>10
    DEF LiveNext, Promise!Next

\* The queue of names, the timers and the reconnecting stream together do
\* what EventStream says: a change is forgotten only with a connection or
\* behind more changes than the queue holds, and then never the newest.
THEOREM StreamImplemented == LiveSpec => ImplementsPromise
  <1>1. LiveSpec => []LiveInv
    BY LiveInitInv, LiveStepInv, PTL DEF LiveSpec
  <1> QED
    BY <1>1, InitPromise, StepPromise, PTL DEF LiveSpec, ImplementsPromise, Promise!Spec

=============================================================================

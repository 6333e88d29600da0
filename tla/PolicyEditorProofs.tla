------------------------- MODULE PolicyEditorProofs -------------------------
(***************************************************************************)
(* For every choice of settings and every bound: Save waits for the files  *)
(* FileInput waits for, and what the administrator made of a setting stays *)
(* in the copy.  The first rests on what the count of uploads counts, the  *)
(* second on what a file that is being read will bring.                    *)
(***************************************************************************)
EXTENDS PolicyEditor, FiniteSetTheorems, TLAPS

Settings == [Chosen -> {"old", "new"}]

Readings == [of : Chosen, to : {"draft", "dialog"}, base : Settings]

Calls == [kind : {"open", "save", "rollback", "remove"}, what : Settings,
          from : {"list", "page", "elsewhere", "closed"},
          stage : {"sent", "begun", "ok", "gone", "failed"}]

TypeOK ==
  /\ now \in Settings /\ kept \subseteq Settings
  /\ draft \in Settings /\ wanted \in Settings
  /\ reading \subseteq Readings /\ IsFiniteSet(reading)
  /\ calls \in Seq(Calls)

\* The files of R that FileInput waits for.
Waited(R) == {r \in R : Counts(r.of) > 0}

\* The count is that of the files FileInput waits for, those included whose
\* dialog or page is gone.
Counted ==
  /\ pending \in Nat /\ astray \in Nat
  /\ pending = Cardinality(Waited(reading)) + astray

\* A setting that differs from what was made of it waits for the file that
\* was picked for it last, and that will bring it.
Coming ==
  \A s \in Chosen : draft[s] # wanted[s] =>
    s \in overrun \/ \E r \in reading : r.of = s /\ r.to = "draft" /\ r.base[s] # wanted[s]

IInv == TypeOK /\ Counted /\ Coming

-----------------------------------------------------------------------------

LEMMA OtherIsASetting ==
  ASSUME NEW v \in {"old", "new"}
  PROVE  Other(v) \in {"old", "new"} /\ Other(v) # v
  BY DEF Other

LEMMA StartIsASetting == Start \in Settings
  BY DEF Start, Settings

LEMMA CountsOneOrNothing == \A s : Counts(s) \in {0, 1}
  BY DEF Counts

\* A file less, or a file more.
LEMMA WaitedWithout ==
  ASSUME NEW R, IsFiniteSet(R), NEW r \in R
  PROVE  /\ IsFiniteSet(R \ {r})
         /\ Cardinality(Waited(R)) \in Nat
         /\ Cardinality(Waited(R \ {r})) = Cardinality(Waited(R)) - Counts(r.of)
  <1>1. IsFiniteSet(R \ {r}) /\ IsFiniteSet(Waited(R))
    BY FS_RemoveElement, FS_Subset DEF Waited
  <1>2. Waited(R \ {r}) = Waited(R) \ {r}
    BY DEF Waited
  <1>3. r \in Waited(R) <=> Counts(r.of) = 1
    BY CountsOneOrNothing DEF Waited
  <1>4. Cardinality(Waited(R)) \in Nat
    BY <1>1, FS_CardinalityType
  <1>5. Cardinality(Waited(R) \ {r}) =
          IF r \in Waited(R) THEN Cardinality(Waited(R)) - 1 ELSE Cardinality(Waited(R))
    BY <1>1, FS_RemoveElement
  <1>6. CASE Counts(r.of) = 1
    BY <1>1, <1>2, <1>3, <1>4, <1>5, <1>6
  <1>7. CASE Counts(r.of) = 0
    BY <1>1, <1>2, <1>3, <1>4, <1>5, <1>7
  <1> QED BY <1>6, <1>7, CountsOneOrNothing

LEMMA WaitedWith ==
  ASSUME NEW R, IsFiniteSet(R), NEW r, r \notin R
  PROVE  /\ IsFiniteSet(R \cup {r})
         /\ Cardinality(Waited(R)) \in Nat
         /\ Cardinality(Waited(R \cup {r})) = Cardinality(Waited(R)) + Counts(r.of)
  <1>1. IsFiniteSet(R \cup {r})
    BY FS_AddElement
  <1>2. (R \cup {r}) \ {r} = R
    OBVIOUS
  <1>3. /\ Cardinality(Waited(R \cup {r})) \in Nat
        /\ Cardinality(Waited((R \cup {r}) \ {r})) = Cardinality(Waited(R \cup {r})) - Counts(r.of)
    BY <1>1, WaitedWithout
  <1>4. Cardinality(Waited(R)) \in Nat
    BY FS_Subset, FS_CardinalityType DEF Waited
  <1>5. Cardinality(Waited(R)) = Cardinality(Waited(R \cup {r})) - Counts(r.of)
    BY <1>2, <1>3
  <1>6. CASE Counts(r.of) = 1
    BY <1>1, <1>3, <1>4, <1>5, <1>6
  <1>7. CASE Counts(r.of) = 0
    BY <1>1, <1>3, <1>4, <1>5, <1>7
  <1> QED BY <1>6, <1>7, CountsOneOrNothing

LEMMA WaitedOfNone == Cardinality(Waited({})) = 0
  BY FS_EmptySet DEF Waited

\* Whoever abandons files leaves the count as it is.
LEMMA AbandonKeepsCount ==
  ASSUME Counted, IsFiniteSet(reading), NEW R \in SUBSET reading, Abandon(R),
         pending' = pending
  PROVE  Counted' /\ IsFiniteSet(reading')
  <1> DEFINE W == Waited(reading)  V == {r \in R : Counts(r.of) > 0}
  <1>1. reading' = reading \ R /\ astray' = astray + Cardinality(V)
    BY DEF Abandon
  <1>2. IsFiniteSet(reading') /\ IsFiniteSet(W) /\ IsFiniteSet(V)
    BY <1>1, FS_Subset DEF Waited
  <1>3. Waited(reading') = W \ V /\ W \cap V = V
    BY <1>1 DEF Waited
  <1>4. Cardinality(W \ V) = Cardinality(W) - Cardinality(W \cap V)
    BY <1>2, FS_Difference
  <1>5. Cardinality(W) \in Nat /\ Cardinality(V) \in Nat
    BY <1>2, FS_CardinalityType
  <1>6. Cardinality(Waited(reading')) = Cardinality(W) - Cardinality(V)
    BY <1>3, <1>4
  <1>7. pending = Cardinality(W) + astray /\ pending \in Nat /\ astray \in Nat
    BY DEF Counted
  <1> HIDE DEF W, V
  <1>8. pending' = Cardinality(Waited(reading')) + astray' /\ astray' \in Nat
    BY <1>1, <1>5, <1>6, <1>7
  <1> QED BY <1>2, <1>7, <1>8 DEF Counted

\* What the control plane and the page do to the list of requests.
LEMMA CallIsACall ==
  ASSUME NEW kind \in {"open", "save", "rollback", "remove"}, NEW what \in Settings
  PROVE  Call(kind, what) \in Calls /\ Call(kind, what).kind = kind
  BY DEF Call, Calls

LEMMA CallsChange ==
  ASSUME NEW c \in Calls
  PROVE  /\ \A stage \in {"sent", "begun", "ok", "gone", "failed"} :
              [c EXCEPT !.stage = stage] \in Calls
         /\ [c EXCEPT !.from = IF @ = "page" THEN "closed" ELSE @] \in Calls
  BY DEF Calls

LEMMA SentCalls ==
  ASSUME NEW c \in Calls, calls \in Seq(Calls), Send(c)
  PROVE  calls' \in Seq(Calls) /\ Last(calls') = c
  BY DEF Send, Last

LEMMA StagedCalls ==
  ASSUME NEW i \in DOMAIN calls, calls \in Seq(Calls),
         NEW stage \in {"sent", "begun", "ok", "gone", "failed"}, Staged(i, stage)
  PROVE  calls' \in Seq(Calls) /\ Len(calls') = Len(calls)
  <1>1. calls[i] \in Calls
    OBVIOUS
  <1>2. [calls[i] EXCEPT !.stage = stage] \in Calls
    BY <1>1, CallsChange
  <1>3. calls' = [calls EXCEPT ![i] = [calls[i] EXCEPT !.stage = stage]]
    BY DEF Staged
  <1> QED BY <1>2, <1>3

LEMMA FetchedCalls ==
  ASSUME NEW i \in DOMAIN calls, calls \in Seq(Calls), now \in Settings, Fetch(i)
  PROVE  calls' \in Seq(Calls) /\ Len(calls') = Len(calls)
  <1>1. calls[i] \in Calls
    OBVIOUS
  <1>2. PICK c \in Calls : calls' = [calls EXCEPT ![i] = c]
    <2>1. \A stage \in {"ok", "gone"} :
            [[calls[i] EXCEPT !.stage = stage] EXCEPT !.what = now] \in Calls
      BY <1>1 DEF Calls
    <2>2. calls' = [calls EXCEPT ![i] =
            [[calls[i] EXCEPT !.stage = IF there = "yes" THEN "ok" ELSE "gone"]
               EXCEPT !.what = now]]
      BY DEF Fetch
    <2> QED BY <2>1, <2>2
  <1> QED BY <1>2

LEMMA ReopenedCalls ==
  ASSUME NEW i \in DOMAIN calls, calls \in Seq(Calls)
  PROVE  /\ [calls EXCEPT ![i] = Call("open", Start)] \in Seq(Calls)
         /\ Len([calls EXCEPT ![i] = Call("open", Start)]) = Len(calls)
  <1>1. Call("open", Start) \in Calls
    BY StartIsASetting, CallIsACall
  <1> QED BY <1>1

LEMMA RemovedCalls ==
  ASSUME NEW S \in Seq(Calls), NEW i \in DOMAIN S
  PROVE  RemoveAt(S, i) \in Seq(Calls) /\ Len(RemoveAt(S, i)) = Len(S) - 1
  BY DEF RemoveAt

LEMMA OrphanedCalls ==
  ASSUME NEW S \in Seq(Calls)
  PROVE  Orphans(S) \in Seq(Calls) /\ Len(Orphans(S)) = Len(S)
  <1>1. \A k \in DOMAIN S : S[k] \in Calls
    OBVIOUS
  <1>2. \A k \in DOMAIN S : [S[k] EXCEPT !.from = IF @ = "page" THEN "closed" ELSE @] \in Calls
    BY <1>1, CallsChange
  <1> QED BY <1>2 DEF Orphans

-----------------------------------------------------------------------------

LEMMA InitInv == Init => IInv
  <1> SUFFICES ASSUME Init PROVE IInv
    OBVIOUS
  <1>1. TypeOK
    BY StartIsASetting, FS_EmptySet DEF Init, TypeOK
  <1>2. Counted
    BY WaitedOfNone DEF Init, Counted
  <1>3. Coming
    BY DEF Init, Coming
  <1> QED BY <1>1, <1>2, <1>3 DEF IInv

\* The page is closed, and nothing is left of it but what it has sent.
LEMMA ClosedKeepsInv ==
  ASSUME IInv, NEW rest \in Seq(Calls), Closed(rest),
         now' \in Settings, kept' \subseteq Settings
  PROVE  IInv' /\ Len(calls') = Len(rest)
  <1>1. calls' \in Seq(Calls) /\ Len(calls') = Len(rest)
    BY OrphanedCalls DEF Closed
  <1>2. Counted' /\ IsFiniteSet(reading') /\ reading' \subseteq reading
    BY AbandonKeepsCount DEF IInv, TypeOK, Closed, Abandon
  <1>3. TypeOK'
    BY <1>1, <1>2, StartIsASetting DEF IInv, TypeOK, Closed
  <1>4. Coming'
    BY DEF Coming, Closed
  <1> QED BY <1>1, <1>2, <1>3, <1>4 DEF IInv

\* A step that touches neither the copy nor a file.
LEMMA CallsKeepInv ==
  ASSUME IInv, UNCHANGED <<copies, files>>, calls' \in Seq(Calls),
         now' \in Settings, kept' \subseteq Settings
  PROVE  IInv'
  <1>1. UNCHANGED <<draft, wanted, overrun, entry, pending, reading, astray>>
    BY DEF copies, files
  <1>2. TypeOK'
    BY <1>1 DEF IInv, TypeOK
  <1>3. Counted'
    BY <1>1 DEF IInv, Counted
  <1>4. Coming'
    BY <1>1 DEF IInv, Coming
  <1> QED BY <1>2, <1>3, <1>4 DEF IInv

\* One step of the page, the files, the requests or the control plane.
LEMMA StepInv == IInv /\ [Next]_vars => IInv'
  <1> SUFFICES ASSUME IInv, [Next]_vars PROVE IInv'
    OBVIOUS
  <1>T. /\ now \in Settings /\ kept \subseteq Settings
        /\ draft \in Settings /\ wanted \in Settings
        /\ reading \subseteq Readings /\ IsFiniteSet(reading)
        /\ calls \in Seq(Calls)
    BY DEF IInv, TypeOK
  <1>1. ASSUME NEW s \in Chosen, Edit(s) PROVE IInv'
    <2>1. draft[s] \in {"old", "new"} /\ Other(draft[s]) \in {"old", "new"}
      BY <1>T, OtherIsASetting DEF Settings
    <2>2. TypeOK'
      BY <1>1, <1>T, <2>1 DEF Edit, TypeOK, Settings, store, files
    <2>3. Counted'
      BY <1>1 DEF Edit, IInv, Counted, files
    <2>4. Coming'
      BY <1>1, <1>T DEF Edit, IInv, Coming, files, Settings
    <2> QED BY <2>2, <2>3, <2>4 DEF IInv
  <1>2. ASSUME NEW s \in Chosen, OpenEntry(s) PROVE IInv'
    BY <1>2 DEF OpenEntry, IInv, TypeOK, Counted, Coming, store, copies
  <1>3. ASSUME NEW s \in Chosen, Pick(s) PROVE IInv'
    <2> DEFINE r == [of |-> s, to |-> Setting[s].where,
                     base |-> IF entry = Shut THEN draft ELSE Start]
    <2>1. r \in Readings
      BY <1>T, StartIsASetting, ChosenAssumption, SettingAssumption
         DEF Readings
    <2>2. r \notin reading /\ reading' = reading \cup {r}
      BY <1>3 DEF Pick
    <2>3. draft[s] \in {"old", "new"} /\ Other(draft[s]) \in {"old", "new"} /\ Other(draft[s]) # draft[s]
      BY <1>T, OtherIsASetting DEF Settings
    <2>4. IsFiniteSet(reading') /\ Cardinality(Waited(reading)) \in Nat
          /\ Cardinality(Waited(reading')) = Cardinality(Waited(reading)) + Counts(s)
      BY <1>T, <2>2, WaitedWith
    <2>5. wanted' \in Settings
      BY <1>3, <1>T, <2>3 DEF Pick, Settings
    <2>6. TypeOK'
      BY <1>3, <1>T, <2>1, <2>2, <2>4, <2>5 DEF Pick, TypeOK, store
    <2>7. Counted'
      BY <1>3, <2>4, CountsOneOrNothing DEF Pick, IInv, Counted
    <2>8. Coming'
      <3>1. CASE entry = Shut
        <4>1. r.of = s /\ r.to = "draft" /\ r.base = draft
          BY <1>3, <3>1, ChosenAssumption, SettingAssumption DEF Pick, Shut
        <4>2. wanted' = [wanted EXCEPT ![s] = Other(draft[s])]
          BY <1>3, <3>1 DEF Pick
        <4>3. draft' = draft /\ overrun' = overrun
          BY <1>3 DEF Pick
        <4> QED BY <1>T, <2>2, <2>3, <4>1, <4>2, <4>3 DEF IInv, Coming, Settings
      <3>2. CASE entry # Shut
        BY <1>3, <3>2, <2>2 DEF Pick, IInv, Coming
      <3> QED BY <3>1, <3>2
    <2> QED BY <2>6, <2>7, <2>8 DEF IInv
  <1>4. CASE CancelEntry
    <2> DEFINE R == {r \in reading : r.to = "dialog"}
    <2>1. Counted' /\ IsFiniteSet(reading') /\ reading' = reading \ R
      BY <1>4, <1>T, AbandonKeepsCount DEF CancelEntry, CloseEntry, Abandon, IInv
    <2>2. TypeOK'
      BY <1>4, <1>T, <2>1 DEF CancelEntry, CloseEntry, TypeOK, store, copies
    <2>3. Coming'
      BY <1>4, <2>1 DEF CancelEntry, CloseEntry, IInv, Coming, copies
    <2> QED BY <2>1, <2>2, <2>3 DEF IInv
  <1>5. CASE SaveEntry
    <2> DEFINE R == {r \in reading : r.to = "dialog"}  s == entry.of
    <2>1. Counted' /\ IsFiniteSet(reading') /\ reading' = reading \ R
      BY <1>5, <1>T, AbandonKeepsCount DEF SaveEntry, CloseEntry, Abandon, IInv
    <2>2. now' = now /\ kept' = kept /\ calls' = calls
      BY <1>5 DEF SaveEntry, CloseEntry, store
    <2>3. wanted' = [wanted EXCEPT ![s] = Other(draft[s])]
      BY <1>5 DEF SaveEntry
    <2>4. \/ draft' = draft /\ overrun' = overrun \cup {s}
          \/ draft' = [draft EXCEPT ![s] = Other(@)] /\ overrun' = overrun \ {s}
      BY <1>5 DEF SaveEntry
    <2>5. s \in Chosen => Other(draft[s]) \in {"old", "new"}
      BY <1>T, OtherIsASetting DEF Settings
    <2> HIDE DEF s
    <2>6. wanted' \in Settings /\ draft' \in Settings
      BY <1>T, <2>3, <2>4, <2>5 DEF Settings
    <2>7. TypeOK'
      BY <1>T, <2>1, <2>2, <2>6 DEF TypeOK
    <2>8. Coming'
      <3> SUFFICES ASSUME NEW t \in Chosen, draft'[t] # wanted'[t]
                   PROVE  t \in overrun' \/ \E r \in reading' :
                            r.of = t /\ r.to = "draft" /\ r.base[t] # wanted'[t]
        BY DEF Coming
      <3>1. CASE t = s
        BY <1>T, <2>3, <2>4, <3>1 DEF Settings
      <3>2. CASE t # s
        <4>1. draft'[t] = draft[t] /\ wanted'[t] = wanted[t] /\ (t \in overrun => t \in overrun')
          BY <1>T, <2>3, <2>4, <3>2 DEF Settings
        <4> QED BY <2>1, <4>1 DEF IInv, Coming
      <3> QED BY <3>1, <3>2
    <2> QED BY <2>1, <2>7, <2>8 DEF IInv
  <1>6. ASSUME NEW r \in reading, Read(r) PROVE IInv'
    <2>1. r \in Readings /\ reading' = reading \ {r} /\ wanted' = wanted
          /\ pending' = pending - Counts(r.of) /\ astray' = astray
          /\ draft' = (IF r.to = "draft" THEN Brought(r) ELSE draft)
          /\ overrun' = {s \in Chosen : draft'[s] # wanted[s]
                                        /\ (draft[s] = wanted[s] \/ s \in overrun)}
      BY <1>6, <1>T DEF Read, EndUpload
    <2>2. r.of \in Chosen /\ r.base \in Settings
      BY <2>1 DEF Readings
    <2>3. r.base[r.of] \in {"old", "new"} /\ Other(r.base[r.of]) \in {"old", "new"}
          /\ Other(r.base[r.of]) # r.base[r.of]
      BY <2>2, OtherIsASetting DEF Settings
    <2>4. Brought(r) = [r.base EXCEPT ![r.of] = Other(r.base[r.of])]
      BY DEF Brought
    <2>5. draft' \in Settings
      BY <1>T, <2>1, <2>2, <2>3, <2>4 DEF Settings
    <2>6. IsFiniteSet(reading') /\ Cardinality(Waited(reading)) \in Nat
          /\ Cardinality(Waited(reading')) = Cardinality(Waited(reading)) - Counts(r.of)
      BY <1>T, <2>1, WaitedWithout
    <2>7. TypeOK'
      BY <1>6, <1>T, <2>1, <2>5, <2>6 DEF Read, TypeOK, store
    <2>8. Counted'
      <3>1. IsFiniteSet(Waited(reading')) /\ Cardinality(Waited(reading')) \in Nat
        BY <2>6, FS_Subset, FS_CardinalityType DEF Waited
      <3> QED BY <2>1, <2>6, <3>1, CountsOneOrNothing DEF IInv, Counted
    <2>9. Coming'
      <3> SUFFICES ASSUME NEW s \in Chosen, draft'[s] # wanted'[s], s \notin overrun'
                   PROVE  \E q \in reading' : q.of = s /\ q.to = "draft" /\ q.base[s] # wanted'[s]
        BY DEF Coming
      <3>1. draft[s] # wanted[s] /\ s \notin overrun
        BY <2>1
      <3>2. PICK q \in reading : q.of = s /\ q.to = "draft" /\ q.base[s] # wanted[s]
        BY <3>1 DEF IInv, Coming
      <3>3. q # r
        BY <1>T, <2>1, <2>2, <2>3, <2>4, <3>2 DEF Settings
      <3> QED BY <2>1, <3>2, <3>3
    <2> QED BY <2>7, <2>8, <2>9 DEF IInv
  <1>7. ASSUME NEW r \in reading, ReadFails(r) PROVE IInv'
    <2>1. r \in Readings /\ reading' = reading \ {r} /\ draft' = draft
          /\ pending' = pending - Counts(r.of) /\ astray' = astray
          /\ \/ /\ r.to = "draft"
                /\ wanted' = [wanted EXCEPT ![r.of] = draft[r.of]] /\ overrun' = overrun \ {r.of}
             \/ r.to # "draft" /\ wanted' = wanted /\ overrun' = overrun
      BY <1>7, <1>T DEF ReadFails, EndUpload
    <2>2. r.of \in Chosen
      BY <2>1 DEF Readings
    <2>3. wanted' \in Settings
      BY <1>T, <2>1, <2>2 DEF Settings
    <2>4. IsFiniteSet(reading') /\ Cardinality(Waited(reading)) \in Nat
          /\ Cardinality(Waited(reading')) = Cardinality(Waited(reading)) - Counts(r.of)
      BY <1>T, <2>1, WaitedWithout
    <2>5. TypeOK'
      BY <1>7, <1>T, <2>1, <2>3, <2>4 DEF ReadFails, TypeOK, store
    <2>6. Counted'
      <3>1. IsFiniteSet(Waited(reading')) /\ Cardinality(Waited(reading')) \in Nat
        BY <2>4, FS_Subset, FS_CardinalityType DEF Waited
      <3> QED BY <2>1, <2>4, <3>1, CountsOneOrNothing DEF IInv, Counted
    <2>7. Coming'
      <3> SUFFICES ASSUME NEW s \in Chosen, draft'[s] # wanted'[s], s \notin overrun'
                   PROVE  \E q \in reading' : q.of = s /\ q.to = "draft" /\ q.base[s] # wanted'[s]
        BY DEF Coming
      <3>1. /\ draft[s] # wanted[s] /\ s \notin overrun /\ wanted'[s] = wanted[s]
            /\ r.to = "draft" => s # r.of
        BY <1>T, <2>1, <2>2 DEF Settings
      <3>2. PICK q \in reading : q.of = s /\ q.to = "draft" /\ q.base[s] # wanted[s]
        BY <3>1 DEF IInv, Coming
      <3>3. q # r
        BY <3>1, <3>2
      <3> QED BY <2>1, <3>1, <3>2, <3>3
    <2> QED BY <2>5, <2>6, <2>7 DEF IInv
  <1>8. ASSUME NEW how \in {"read", "failed"}, AstrayEnds(how) PROVE IInv'
    <2>1. astray > 0 /\ astray' = astray - 1 /\ pending' = pending - 1
          /\ reading' = reading /\ UNCHANGED copies /\ calls' = calls /\ UNCHANGED store
      BY <1>8 DEF AstrayEnds, EndUpload
    <2>2. Cardinality(Waited(reading)) \in Nat
      BY <1>T, FS_Subset, FS_CardinalityType DEF Waited
    <2>3. Counted'
      BY <2>1, <2>2 DEF IInv, Counted
    <2>4. TypeOK' /\ Coming'
      BY <2>1 DEF IInv, TypeOK, Coming, copies, store
    <2> QED BY <2>3, <2>4 DEF IInv
  <1>9. CASE Open
    BY <1>9, <1>T, StartIsASetting, CallIsACall, SentCalls, CallsKeepInv DEF Open, store
  <1>10. CASE Save
    BY <1>10, <1>T, CallIsACall, SentCalls, CallsKeepInv DEF Save, store
  <1>11. CASE SaveElsewhere
    <2>1. [s \in Chosen |-> "new"] \in Settings
      BY DEF Settings
    <2>2. [Call("save", [s \in Chosen |-> "new"]) EXCEPT !.from = "elsewhere"] \in Calls
      BY <2>1 DEF Call, Calls
    <2> QED BY <1>11, <1>T, <2>2, SentCalls, CallsKeepInv DEF SaveElsewhere, store
  <1>12. CASE RemoveObject
    BY <1>12, <1>T, StartIsASetting, CallIsACall, SentCalls, CallsKeepInv
       DEF RemoveObject, store
  <1>13. CASE Back
    BY <1>13, <1>T, ClosedKeepsInv DEF Back, store
  <1>14. ASSUME NEW what \in kept, Rollback(what) PROVE IInv'
    BY <1>14, <1>T, CallIsACall, SentCalls, CallsKeepInv DEF Rollback, store
  <1>15. ASSUME NEW i \in DOMAIN calls, Serve(i) \/ Lose(i) \/ Hear(i) PROVE IInv'
    <2>1. calls[i] \in Calls /\ calls[i].what \in Settings
      <3>1. calls[i] \in Calls
        BY <1>T
      <3> QED BY <3>1 DEF Calls
    <2>2. CASE Begin(i)
      BY <2>2, <1>T, StagedCalls, CallsKeepInv DEF Begin
    <2>3. CASE Update(i)
      BY <2>3, <2>1, <1>T, StagedCalls, CallsKeepInv DEF Update
    <2>4. CASE Delete(i)
      BY <2>4, <1>T, StartIsASetting, StagedCalls, CallsKeepInv DEF Delete
    <2>5. CASE Fetch(i)
      <3>1. calls' \in Seq(Calls)
        BY <2>5, <1>T, FetchedCalls
      <3> QED BY <2>5, <3>1, <1>T, CallsKeepInv DEF Fetch, store
    <2>6. CASE Lose(i)
      BY <2>6, <1>T, StagedCalls, CallsKeepInv DEF Lose, store
    <2>7. CASE OpenAnswered(i)
      <3>1. calls' \in Seq(Calls) /\ UNCHANGED <<store, files>>
        BY <2>7, <1>T, RemovedCalls DEF OpenAnswered
      <3>2. \/ UNCHANGED copies
            \/ draft' = calls[i].what /\ wanted' = draft'
        BY <2>7 DEF OpenAnswered, DraftAfterReload, copies
      <3>3. CASE UNCHANGED copies
        BY <3>1, <3>3, <1>T, CallsKeepInv DEF store
      <3>4. CASE draft' = calls[i].what /\ wanted' = draft'
        <4>1. TypeOK'
          BY <3>1, <3>4, <2>1, <1>T DEF TypeOK, store, files
        <4>2. Counted'
          BY <3>1 DEF IInv, Counted, files
        <4>3. Coming'
          BY <3>4 DEF Coming
        <4> QED BY <4>1, <4>2, <4>3 DEF IInv
      <3> QED BY <3>2, <3>3, <3>4
    <2>8. CASE WriteAnswered(i)
      <3>1. calls' \in Seq(Calls)
        BY <2>8, <1>T, RemovedCalls, ReopenedCalls DEF WriteAnswered
      <3> QED BY <2>8, <3>1, <1>T, CallsKeepInv DEF WriteAnswered, store
    <2>9. CASE RemoveAnswered(i)
      <3>1. RemoveAt(calls, i) \in Seq(Calls) /\ now' \in Settings /\ kept' \subseteq Settings
        BY <2>9, <1>T, RemovedCalls DEF RemoveAnswered, store
      <3>2. CASE Closed(RemoveAt(calls, i))
        BY <3>1, <3>2, ClosedKeepsInv
      <3>3. CASE calls' = RemoveAt(calls, i) /\ UNCHANGED <<copies, files>>
        BY <3>1, <3>3, CallsKeepInv
      <3> QED BY <2>9, <3>2, <3>3 DEF RemoveAnswered
    <2> QED BY <1>15, <2>2, <2>3, <2>4, <2>5, <2>6, <2>7, <2>8, <2>9 DEF Serve, Hear
  <1>16. CASE UNCHANGED vars
    BY <1>16, <1>T, CallsKeepInv DEF vars, store
  <1> QED
    BY <1>1, <1>2, <1>3, <1>4, <1>5, <1>6, <1>7, <1>8, <1>9, <1>10, <1>11, <1>12, <1>13,
       <1>14, <1>15, <1>16 DEF Next

\* Only Save sends a save of this page: everything else that is sent is of
\* another kind or another administrator's, and answers make no more of them.
LEMMA OnlySaveSends == IInv /\ [Next]_vars /\ SaveSent => Save
  <1> SUFFICES ASSUME IInv, [Next]_vars, SaveSent PROVE Save
    OBVIOUS
  <1>T. calls \in Seq(Calls) /\ now \in Settings /\ kept \subseteq Settings
    BY DEF IInv, TypeOK
  <1>S. Len(calls') > Len(calls) /\ Last(calls').kind = "save" /\ Last(calls').from = "page"
    BY DEF SaveSent
  <1>1. calls' # calls
    BY <1>S, <1>T
  <1>2. ~Open /\ ~RemoveObject /\ \A what \in kept : ~Rollback(what)
    BY <1>S, <1>T, StartIsASetting, CallIsACall, SentCalls DEF Open, RemoveObject, Rollback
  <1>3. ~SaveElsewhere
    <2> DEFINE c == [Call("save", [s \in Chosen |-> "new"]) EXCEPT !.from = "elsewhere"]
    <2>1. c \in Calls /\ c.from = "elsewhere"
      BY DEF Call, Calls, Settings
    <2> HIDE DEF c
    <2>2. Send(c) => Last(calls').from = "elsewhere"
      BY <1>T, <2>1, SentCalls
    <2> QED BY <1>S, <2>2 DEF SaveElsewhere, c
  <1>4. ~Back
    BY <1>S, <1>T, OrphanedCalls DEF Back, Closed
  <1>5. \A i \in DOMAIN calls : ~Serve(i) /\ ~Lose(i)
    <2> SUFFICES ASSUME NEW i \in DOMAIN calls, Serve(i) \/ Lose(i) PROVE FALSE
      OBVIOUS
    <2>1. \A stage \in {"sent", "begun", "ok", "gone", "failed"} : ~Staged(i, stage)
      BY <1>S, <1>T, StagedCalls
    <2>2. ~Fetch(i)
      BY <1>S, <1>T, FetchedCalls
    <2> QED BY <2>1, <2>2 DEF Serve, Lose, Begin, Update, Delete
  <1>6. \A i \in DOMAIN calls : ~Hear(i)
    <2> SUFFICES ASSUME NEW i \in DOMAIN calls, Hear(i) PROVE FALSE
      OBVIOUS
    <2>1. RemoveAt(calls, i) \in Seq(Calls) /\ Len(RemoveAt(calls, i)) = Len(calls) - 1
          /\ Len(Orphans(RemoveAt(calls, i))) = Len(calls) - 1
      BY <1>T, RemovedCalls, OrphanedCalls
    <2>2. Len([calls EXCEPT ![i] = Call("open", Start)]) = Len(calls)
      BY <1>T, ReopenedCalls
    <2>3. Len(calls') <= Len(calls)
      BY <1>T, <2>1, <2>2 DEF Hear, OpenAnswered, WriteAnswered, RemoveAnswered, Closed
    <2> QED BY <1>S, <1>T, <2>3
  <1>7. \A s \in Chosen : ~Edit(s) /\ ~OpenEntry(s) /\ ~Pick(s)
    BY <1>1 DEF Edit, OpenEntry, Pick
  <1>8. ~CancelEntry /\ ~SaveEntry
    BY <1>1 DEF CancelEntry, SaveEntry, CloseEntry
  <1>9. /\ \A r \in reading : ~Read(r) /\ ~ReadFails(r)
        /\ \A how \in {"read", "failed"} : ~AstrayEnds(how)
    BY <1>1 DEF Read, ReadFails, AstrayEnds
  <1> QED BY <1>1, <1>2, <1>3, <1>4, <1>5, <1>6, <1>7, <1>8, <1>9 DEF Next, vars

\* And Save waits until the count is nothing.
LEMMA NothingIsWaitedFor ==
  ASSUME IInv, Save
  PROVE  \A r \in reading : Setting[r.of].file # "awaited"
  <1>1. pending = 0
    BY DEF Save, CanSave
  <1>2. IsFiniteSet(Waited(reading))
    BY FS_Subset DEF IInv, TypeOK, Waited
  <1>3. Cardinality(Waited(reading)) = 0
    BY <1>1, <1>2, FS_CardinalityType DEF IInv, Counted
  <1>4. Waited(reading) = {}
    BY <1>2, <1>3, FS_EmptySet
  <1> QED BY <1>4 DEF Waited, Counts

-----------------------------------------------------------------------------

LEMMA Invariance == Spec => []IInv
  BY InitInv, StepInv, PTL DEF Spec

\* What the administrator made of a setting is what a save would send, but
\* for files that come late (GpoDetail's copy, the editors' callbacks): for
\* all settings, and any number of saves, rollbacks, files and faults.
THEOREM EditsSurviveAlways == Spec => []EditsSurvive
  <1>1. IInv => EditsSurvive
    BY DEF IInv, Coming, EditsSurvive
  <1> QED BY <1>1, Invariance, PTL

\* A save never leaves while a file is read that FileInput waits for, for
\* however many files picked, failed or left behind in closed dialogs and
\* pages (uploadTracker's count).
THEOREM SaveWaitsAlways == Spec => SaveWaits
  <1>1. IInv /\ [Next]_vars =>
          [SaveSent => \A r \in reading : Setting[r.of].file # "awaited"]_vars
    BY OnlySaveSends, NothingIsWaitedFor
  <1>2. Spec => [][Next]_vars
    BY PTL DEF Spec
  <1> QED BY <1>1, <1>2, Invariance, PTL DEF SaveWaits

=============================================================================

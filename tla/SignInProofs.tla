---------------------------- MODULE SignInProofs ----------------------------
(***************************************************************************)
(* However many tabs, accounts and sessions there are: a change is made by *)
(* the account its tab showed, and a tab that shows an account holds the   *)
(* token of a session of it.  Both rest on one fact: a token a page has    *)
(* remembered, or sent along, is the token of a session whose owner it     *)
(* then showed, and the owner of a session never changes.                  *)
(***************************************************************************)
EXTENDS SignIn, TLAPS

IsOwn(s, a) == s \in Session /\ a \in Account /\ owner[s] = a

\* What a tab shows it can prove.
TabsKnow == \A t \in Tab : tab[t].view = "in" => IsOwn(tab[t].token, tab[t].who)

\* So can a change it has sent, whichever cookie went with it, and an answer
\* that lets somebody in.
RequestsKnow ==
  \A r \in sent :
    /\ r.kind = "login" /\ r.answer = "none" => r.as \in Account
    /\ r.kind = "change" /\ r.answer = "none" => IsOwn(r.token, r.as)
    /\ r.kind = "change" /\ r.answer = "ok" => IsOwn(r.session, r.as)
    /\ r.kind \in {"session", "login"} /\ r.answer = "ok" => IsOwn(r.session, owner[r.session])

SessionsKnow == \A s \in live : IsOwn(s, owner[s])

Inv == TypeOK /\ TabsKnow /\ RequestsKnow /\ SessionsKnow

USE NoneAssumption, CarefulAssumption

\* A request without its page, and one that is answered with a refusal.
LEMMA Readdressed ==
  ASSUME NEW r \in Requests, NEW t
  PROVE  /\ [r EXCEPT !.from = IF @ = t THEN None ELSE @] \in Requests
         /\ \A f \in {"kind", "answer", "as", "token", "session"} :
              [r EXCEPT !.from = IF @ = t THEN None ELSE @][f] = r[f]
  BY DEF Requests

LEMMA Refused ==
  ASSUME NEW r \in Requests
  PROVE  /\ [r EXCEPT !.answer = "refused"] \in Requests
         /\ [r EXCEPT !.answer = "refused"].answer = "refused"
  BY DEF Requests

LEMMA Answered ==
  ASSUME NEW r \in Requests, NEW answer \in {"ok", "refused", "code wanted"},
         NEW s \in Session \cup {None}
  PROVE  Answer(r, answer, s) \in Requests
  <1>1. CASE r.kind = "change"
    BY <1>1 DEF Answer, Requests
  <1>2. CASE r.kind # "change"
    BY <1>2 DEF Answer, Requests
  <1> QED BY <1>1, <1>2

\* What an answer makes of a tab that lets nobody in.
LEMMA Shown ==
  ASSUME NEW x \in Views, NEW c \in {"not asked", "asked"}, NEW s \in Session \cup {None}
  PROVE  /\ [x EXCEPT !.view = "login"] \in Views
         /\ [x EXCEPT !.view = "login"].view = "login"
         /\ [x EXCEPT !.code = c] \in Views
         /\ [x EXCEPT !.code = c].view = x.view
         /\ [x EXCEPT !.code = c].token = x.token
         /\ [x EXCEPT !.code = c].who = x.who
         /\ [x EXCEPT !.view = "login", !.who = None, !.code = "not asked", !.token = s] \in Views
         /\ [x EXCEPT !.view = "login", !.who = None, !.code = "not asked", !.token = s].view
              = "login"
  BY DEF Views

LEMMA InvInit == Init => Inv
  <1> SUFFICES ASSUME Init PROVE Inv
    OBVIOUS
  <1>1. [Loading EXCEPT !.view = "login"] \in Views
        /\ [Loading EXCEPT !.view = "login"].view = "login"
    BY DEF Loading, Views
  <1>2. tab \in [Tab -> Views] /\ \A t \in Tab : tab[t].view = "login"
    BY <1>1 DEF Init
  <1>3. owner \in [Session -> Account \cup {None}] /\ live = {} /\ cookie = None /\ sent = {}
    BY DEF Init
  <1> QED BY <1>2, <1>3 DEF Inv, TypeOK, TabsKnow, RequestsKnow, SessionsKnow

LEMMA InvLoad == ASSUME NEW t \in Tab, Inv, Load(t) PROVE Inv'
  <1> DEFINE old(r) == [r EXCEPT !.from = IF @ = t THEN None ELSE @]
             new == [Blank("session", t) EXCEPT !.cookie = cookie]
  <1>1. /\ new \in Requests /\ new.kind = "session" /\ new.answer = "none"
    BY DEF Blank, Inv, TypeOK, Requests
  <1>2. ASSUME NEW r \in sent
        PROVE  /\ old(r) \in Requests
               /\ old(r).kind = r.kind /\ old(r).answer = r.answer /\ old(r).as = r.as
               /\ old(r).token = r.token /\ old(r).session = r.session
    <2>1. r \in Requests
      BY DEF Inv, TypeOK
    <2> QED BY <2>1, Readdressed
  <1>3. \A q \in sent' : q = new \/ \E r \in sent : q = old(r)
    BY DEF Load
  <1> HIDE DEF old, new
  <1>4. tab' \in [Tab -> Views] /\ TabsKnow' /\ SessionsKnow'
    BY DEF Load, Loading, Views, Inv, TypeOK, TabsKnow, SessionsKnow, IsOwn
  <1>5. TypeOK'
    <2>1. sent' \subseteq Requests
      BY <1>1, <1>2, <1>3
    <2> QED BY <1>4, <2>1 DEF Load, Inv, TypeOK
  <1>6. ASSUME NEW q \in sent'
        PROVE  /\ q.kind = "login" /\ q.answer = "none" => q.as \in Account
               /\ q.kind = "change" /\ q.answer = "none" => IsOwn(q.token, q.as)'
               /\ q.kind = "change" /\ q.answer = "ok" => IsOwn(q.session, q.as)'
               /\ q.kind \in {"session", "login"} /\ q.answer = "ok"
                    => IsOwn(q.session, owner[q.session])'
    <2>1. owner' = owner
      BY DEF Load
    <2>2. CASE q = new
      BY <1>1, <2>2
    <2>3. ASSUME NEW r \in sent, q = old(r)
          PROVE  q.kind = r.kind /\ q.answer = r.answer /\ q.as = r.as
                 /\ q.token = r.token /\ q.session = r.session
      BY <1>2, <2>3
    <2>4. CASE \E r \in sent : q = old(r)
      BY <2>1, <2>3, <2>4 DEF Inv, RequestsKnow, IsOwn
    <2> QED BY <1>3, <2>2, <2>4
  <1>7. RequestsKnow'
    BY <1>6 DEF RequestsKnow
  <1> QED BY <1>4, <1>5, <1>7 DEF Inv

\* A request that knows what a change has to know may be sent.
LEMMA InvSend ==
  ASSUME Inv, NEW q \in Requests, Send(q), q.answer = "none",
         q.kind = "login" => q.as \in Account,
         q.kind = "change" => IsOwn(q.token, q.as)
  PROVE  Inv'
  <1> USE DEF Inv, TypeOK, Send
  <1>1. TypeOK' /\ TabsKnow' /\ SessionsKnow'
    BY DEF TabsKnow, SessionsKnow, IsOwn
  <1>2. RequestsKnow'
    BY DEF RequestsKnow, IsOwn
  <1> QED BY <1>1, <1>2

LEMMA InvSubmitLogin == ASSUME NEW t \in Tab, NEW a \in Account, Inv, SubmitLogin(t, a) PROVE Inv'
  <1> DEFINE q == [Blank("login", t) EXCEPT !.as = a,
                     !.code = IF tab[t].code = "asked" THEN "typed" ELSE "none"]
  <1>1. q \in Requests /\ q.answer = "none" /\ q.kind = "login" /\ q.as = a
    BY DEF Blank, Requests
  <1>2. Send(q)
    BY DEF SubmitLogin
  <1> QED BY <1>1, <1>2, InvSend

LEMMA InvSignOut == ASSUME NEW t \in Tab, Inv, SignOut(t) PROVE Inv'
  <1>1. Request("logout", t) \in Requests /\ Request("logout", t).answer = "none"
        /\ Request("logout", t).kind = "logout"
    BY DEF Request, Blank, Requests, Views, Inv, TypeOK
  <1> QED BY <1>1, InvSend DEF SignOut

LEMMA InvSendChange == ASSUME NEW t \in Tab, Inv, SendChange(t) PROVE Inv'
  <1> DEFINE q == [Request("change", t) EXCEPT !.as = tab[t].who]
  <1>1. q \in Requests /\ q.answer = "none" /\ q.kind = "change" /\ q.token = tab[t].token /\ q.as = tab[t].who
    BY DEF Request, Blank, Requests, Views, Inv, TypeOK
  <1>2. IsOwn(q.token, q.as)
    BY <1>1 DEF SendChange, Inv, TabsKnow
  <1> QED BY <1>1, <1>2, InvSend DEF SendChange

\* What a tab makes of an answer keeps what it can prove.
LEMMA HeardKnows ==
  ASSUME Inv, NEW r \in Requests,
         r.kind \in {"session", "login"} /\ r.answer = "ok" => IsOwn(r.session, owner[r.session]),
         tab' = Heard(r), owner' = owner
  PROVE  tab' \in [Tab -> Views] /\ TabsKnow'
  <1> DEFINE t == r.from
  <1>0. tab \in [Tab -> Views] /\ TabsKnow /\ (t = None \/ t \in Tab)
    BY DEF Inv, TypeOK, Requests
  <1>1. CASE t = None \/ r.kind = "change"
    BY <1>0, <1>1 DEF Heard, TabsKnow, IsOwn
  <1>2. ASSUME NEW v \in Views, v.view = "in" => IsOwn(v.token, v.who),
               t \in Tab, tab' = [tab EXCEPT ![t] = v]
        PROVE  tab' \in [Tab -> Views] /\ TabsKnow'
    BY <1>0, <1>2 DEF TabsKnow, IsOwn
  <1>3. CASE t # None /\ r.kind \in {"session", "login"} /\ r.answer = "ok"
    <2> DEFINE v == [view |-> "in", who |-> owner[r.session], token |-> r.session,
                     code |-> "not asked"]
    <2>1. tab' = [tab EXCEPT ![t] = v]
      BY <1>3 DEF Heard, Remembered
    <2>2. v \in Views /\ IsOwn(v.token, v.who)
      BY <1>3 DEF IsOwn, Views
    <2> QED BY <1>0, <1>2, <1>3, <2>1, <2>2
  <1>4. CASE t # None /\ r.kind = "session" /\ r.answer # "ok"
    <2> DEFINE v == [tab[t] EXCEPT !.view = "login"]
    <2>1. tab' = [tab EXCEPT ![t] = v]
      BY <1>4, <1>0 DEF Heard, NotSignedIn
    <2>2. v \in Views /\ v.view = "login"
      BY <1>4, <1>0, Shown
    <2> QED BY <1>0, <1>2, <1>4, <2>1, <2>2
  <1>5. CASE t # None /\ r.kind = "login" /\ r.answer # "ok"
    <2> DEFINE v == [tab[t] EXCEPT !.code = IF r.answer = "code wanted" THEN "asked"
                                                                     ELSE "not asked"]
    <2>1. tab' = [tab EXCEPT ![t] = v]
      BY <1>5, <1>0 DEF Heard, RefusedLogin
    <2>2. v \in Views /\ v.view = tab[t].view /\ v.token = tab[t].token /\ v.who = tab[t].who
      BY <1>5, <1>0, Shown
    <2>3. v.view = "in" => IsOwn(v.token, v.who)
      BY <1>5, <1>0, <2>2 DEF TabsKnow
    <2> QED BY <1>0, <1>2, <1>5, <2>1, <2>2, <2>3
  <1>6. CASE t # None /\ r.kind = "logout"
    <2> DEFINE s == IF r.answer = "ok" THEN None ELSE tab[t].token
               v == [tab[t] EXCEPT !.view = "login", !.who = None, !.code = "not asked",
                                   !.token = s]
    <2>1. tab' = [tab EXCEPT ![t] = v]
      BY <1>6, <1>0 DEF Heard, SignedOut
    <2>2. tab[t] \in Views /\ s \in Session \cup {None}
      BY <1>6, <1>0 DEF Views
    <2> HIDE DEF s
    <2>3. v \in Views /\ v.view = "login"
      BY <2>2, Shown
    <2> QED BY <1>0, <1>2, <1>6, <2>1, <2>3
  <1>7. r.kind \in {"session", "login", "logout", "change"}
    BY DEF Requests
  <1> QED BY <1>1, <1>3, <1>4, <1>5, <1>6, <1>7

LEMMA InvHear == ASSUME NEW r \in sent, Inv, Hear(r) PROVE Inv'
  <1>1. r \in Requests
    BY DEF Inv, TypeOK
  <1>2. r.kind \in {"session", "login"} /\ r.answer = "ok" => IsOwn(r.session, owner[r.session])
    BY DEF Inv, RequestsKnow
  <1>3. tab' \in [Tab -> Views] /\ TabsKnow'
    BY <1>1, <1>2, HeardKnows DEF Hear
  <1>4. TypeOK'
    BY <1>1, <1>2, <1>3 DEF Hear, Inv, TypeOK, IsOwn
  <1>5. RequestsKnow' /\ SessionsKnow'
    BY DEF Hear, Inv, RequestsKnow, SessionsKnow, IsOwn
  <1> QED BY <1>3, <1>4, <1>5 DEF Inv

LEMMA InvLose == ASSUME NEW r \in sent, Inv, Lose(r) PROVE Inv'
  <1> DEFINE q == [r EXCEPT !.answer = "refused"]
  <1>0. r \in Requests
    BY DEF Inv, TypeOK
  <1>1. q \in Requests /\ q.answer = "refused"
    BY <1>0, Refused
  <1>2. tab' \in [Tab -> Views] /\ TabsKnow'
    BY <1>1, HeardKnows DEF Lose
  <1>3. TypeOK' /\ RequestsKnow' /\ SessionsKnow'
    BY <1>2 DEF Lose, Inv, TypeOK, RequestsKnow, SessionsKnow, IsOwn
  <1> QED BY <1>2, <1>3 DEF Inv

\* Whatever the control plane does, it gives no session another owner, and
\* says of an account only what it has.
LEMMA InvReply ==
  ASSUME Inv, NEW r \in Requests, r \in sent, NEW answer \in {"ok", "refused", "code wanted"},
         NEW s \in Session \cup {None}, Reply(r, answer, s),
         owner' \in [Session -> Account \cup {None}], live' \subseteq Session,
         UNCHANGED <<cookie, tab>>,
         \A x \in Session : owner[x] # None => owner'[x] = owner[x],
         \A x \in live' : owner'[x] \in Account,
         answer = "ok" /\ r.kind # "logout" => s \in Session /\ owner'[s] \in Account,
         answer = "ok" /\ r.kind = "change" => IsOwn(s, r.as)
  PROVE  Inv'
  <1> DEFINE a == Answer(r, answer, s)
  <1>1. a \in Requests
    BY Answered
  <1>3. a.answer = answer /\ a.session = s /\ a.kind = r.kind
    BY DEF Answer
  <1>4. r.kind = "change" => a.as = r.as
    BY DEF Answer
  <1>2. sent' = (sent \ {r}) \cup {a}
    BY DEF Reply
  <1> HIDE DEF a
  <1>5. \A x \in Session, b \in Account : owner[x] = b => owner'[x] = b
    OBVIOUS
  <1>6. TypeOK'
    BY <1>1, <1>2 DEF Inv, TypeOK
  <1>7. TabsKnow'
    BY <1>5 DEF Inv, TabsKnow, IsOwn
  <1>8. SessionsKnow'
    BY DEF SessionsKnow, IsOwn
  <1>9. ASSUME NEW q \in sent'
        PROVE  /\ q.kind = "login" /\ q.answer = "none" => q.as \in Account
               /\ q.kind = "change" /\ q.answer = "none" => IsOwn(q.token, q.as)'
               /\ q.kind = "change" /\ q.answer = "ok" => IsOwn(q.session, q.as)'
               /\ q.kind \in {"session", "login"} /\ q.answer = "ok"
                    => IsOwn(q.session, owner[q.session])'
    <2>1. CASE q = a
      <3>1. a.answer # "none"
        BY <1>3
      <3>2. a.kind = "change" /\ a.answer = "ok" => IsOwn(a.session, a.as)'
        BY <1>3, <1>4, <1>5 DEF IsOwn
      <3>3. a.kind \in {"session", "login"} /\ a.answer = "ok" => IsOwn(a.session, owner[a.session])'
        BY <1>3 DEF IsOwn
      <3> QED BY <2>1, <3>1, <3>2, <3>3
    <2>2. CASE q \in sent
      BY <2>2, <1>5 DEF Inv, RequestsKnow, IsOwn
    <2> QED BY <1>2, <2>1, <2>2
  <1>10. RequestsKnow'
    BY <1>9 DEF RequestsKnow
  <1> QED BY <1>6, <1>7, <1>8, <1>10 DEF Inv

LEMMA InvServe == ASSUME NEW r \in sent, Inv, Serve(r) PROVE Inv'
  <1>0. /\ r \in Requests /\ UNCHANGED <<cookie, tab>>
        /\ owner \in [Session -> Account \cup {None}] /\ live \subseteq Session
        /\ \A x \in live : owner[x] \in Account
    BY DEF Serve, Inv, TypeOK, SessionsKnow, IsOwn
  \* An answer that lets nobody in and changes no session, or ends one.
  <1>1. ASSUME NEW answer \in {"refused", "code wanted"}, Reply(r, answer, None),
               owner' = owner, live' = live
        PROVE  Inv'
    <2>1. /\ owner' \in [Session -> Account \cup {None}] /\ live' \subseteq Session
          /\ \A x \in Session : owner[x] # None => owner'[x] = owner[x]
          /\ \A x \in live' : owner'[x] \in Account
      BY <1>0, <1>1
    <2>2. answer # "ok" /\ answer \in {"ok", "refused", "code wanted"}
          /\ None \in Session \cup {None}
      OBVIOUS
    <2> QED BY <1>0, <1>1, <2>1, <2>2, InvReply
  <1>2. CASE ServeSession(r)
    <2>1. CASE r.cookie \in live
      <3>1. Reply(r, "ok", r.cookie) /\ owner' = owner /\ live' = live /\ r.kind = "session"
        BY <1>2, <2>1 DEF ServeSession
      <3> QED BY <1>0, <2>1, <3>1, InvReply
    <2> QED BY <1>1, <1>2, <2>1 DEF ServeSession
  <1>3. CASE ServeLogin(r)
    <2>1. ASSUME NEW s \in Session, owner[s] = None, r.as \in Account,
                 owner' = [owner EXCEPT ![s] = r.as], live' = live \cup {s}, Reply(r, "ok", s)
          PROVE  Inv'
      <3>1. /\ owner' \in [Session -> Account \cup {None}] /\ owner'[s] = r.as
            /\ \A x \in Session : owner[x] # None => owner'[x] = owner[x]
            /\ \A x \in live' : owner'[x] \in Account
        BY <1>0, <2>1
      <3>2. r.kind = "login"
        BY <1>3 DEF ServeLogin
      <3> QED BY <1>0, <2>1, <3>1, <3>2, InvReply
    <2>2. CASE r.as \in Account
      BY <1>1, <1>3, <2>1, <2>2 DEF ServeLogin
    <2>3. r.as \in Account
      BY <1>3 DEF Serve, ServeLogin, Inv, RequestsKnow
    <2> QED BY <1>0, <2>2, <2>3
  <1>4. CASE ServeLogout(r)
    <2>1. CASE Admitted(r)
      <3>1. Reply(r, "ok", None) /\ owner' = owner /\ live' = live \ {r.cookie}
            /\ r.kind = "logout"
        BY <1>4, <2>1 DEF ServeLogout
      <3> QED BY <1>0, <3>1, InvReply
    <2> QED BY <1>1, <1>4, <2>1 DEF ServeLogout
  <1>5. CASE ServeChange(r)
    <2>1. r.answer = "none" /\ r.kind = "change"
      BY <1>5 DEF Serve, ServeChange
    <2>2. IsOwn(r.token, r.as)
      BY <2>1 DEF Inv, RequestsKnow
    <2>3. CASE Admitted(r)
      <3>1. Reply(r, "ok", r.cookie) /\ IsOwn(r.cookie, r.as) /\ owner' = owner /\ live' = live
        BY <1>5, <2>2, <2>3 DEF ServeChange, Admitted
      <3>2. r.cookie \in Session /\ owner[r.cookie] \in Account
        BY <3>1 DEF IsOwn
      <3> QED BY <1>0, <3>1, <3>2, InvReply
    <2> QED BY <1>1, <1>5, <2>3 DEF ServeChange
  <1> QED BY <1>2, <1>3, <1>4, <1>5 DEF Serve

LEMMA InvStep == Inv /\ [Next]_vars => Inv'
  <1> SUFFICES ASSUME Inv, [Next]_vars PROVE Inv'
    OBVIOUS
  <1>1. CASE UNCHANGED vars
    BY <1>1 DEF vars, Inv, TypeOK, TabsKnow, RequestsKnow, SessionsKnow, IsOwn
  <1>2. ASSUME NEW s \in Session, Expire(s) PROVE Inv'
    BY <1>2 DEF Expire, Inv, TypeOK, TabsKnow, RequestsKnow, SessionsKnow, IsOwn
  <1> QED BY <1>1, <1>2, InvLoad, InvSignOut, InvSendChange, InvSubmitLogin, InvHear, InvLose,
             InvServe DEF Next

\* The shape of what tabs, browser and control plane keep.
THEOREM TypeCorrect == Spec => []TypeOK
  <1>1. Inv => TypeOK
    BY DEF Inv
  <1> QED BY InvInit, InvStep, <1>1, PTL DEF Spec

\* However many tabs of a browser sign in and out, of whichever accounts: an
\* accepted change is made by the account its tab showed (current_session).
THEOREM ActsAsShownAlways == Spec => []ActsAsShown
  <1>1. Inv => ActsAsShown
    BY DEF Inv, RequestsKnow, IsOwn, ActsAsShown
  <1> QED BY InvInit, InvStep, <1>1, PTL DEF Spec

\* A tab that shows an account holds the token of one of its sessions
\* (remember, signOut).
THEOREM TokenIsShownAlways == Spec => []TokenIsShown
  <1>1. Inv => TokenIsShown
    BY DEF Inv, TabsKnow, IsOwn, TokenIsShown
  <1> QED BY InvInit, InvStep, <1>1, PTL DEF Spec

=============================================================================

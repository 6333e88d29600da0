------------------------------- MODULE SignIn -------------------------------
(***************************************************************************)
(* Signing in to the console and out of it, in several tabs of a browser   *)
(* that share the cookie of a session (web/src/App.tsx, Login.tsx, api.ts; *)
(* api/odm/auth.py, security.py, sessions.py).  A tab remembers the        *)
(* account it shows and the token against forged requests, which goes with *)
(* everything but reads; the browser sends whatever cookie it has by then. *)
(* Nothing in a tab looks at a refusal for want of a session.              *)
(***************************************************************************)
EXTENDS Integers, FiniteSets

CONSTANTS
  Tab, Account,
  Careful,      \* the accounts with a second factor that is confirmed
  Session,      \* what sessions.create can draw: cookie and token of a session
  None,         \* no session, no account, no tab
  MaxSent       \* bound: requests under way

ASSUME NoneAssumption == None \notin Session \cup Account \cup Tab
ASSUME CarefulAssumption == Careful \subseteq Account /\ MaxSent \in Nat

VARIABLES
  owner,    \* admin_session: whose session it is, None before it is created
  live,     \* the sessions that are neither revoked nor expired
  cookie,   \* what the browser sends
  tab,      \* what each tab shows, and the token it holds
  sent      \* requests under way, and their answers

vars == <<owner, live, cookie, tab, sent>>

Views == [view : {"loading", "login", "in"}, who : Account \cup {None},
          token : Session \cup {None}, code : {"not asked", "asked"}]

Requests == [kind : {"session", "login", "logout", "change"}, from : Tab \cup {None},
             cookie : Session \cup {None}, token : Session \cup {None},
             as : Account \cup {None}, code : {"none", "typed"},
             answer : {"none", "ok", "refused", "code wanted"},
             session : Session \cup {None}]

\* The page as it is loaded: nothing is remembered of the one before.
Loading == [view |-> "loading", who |-> None, token |-> None, code |-> "not asked"]

Blank(kind, t) ==
  [kind |-> kind, from |-> t, cookie |-> None, token |-> None, as |-> None, code |-> "none",
   answer |-> "none", session |-> None]

\* request: same origin, so the cookie goes along, and the token with what is
\* not a read.
Request(kind, t) == [Blank(kind, t) EXCEPT !.cookie = cookie, !.token = tab[t].token]

\* The tabs stand at the sign-in page.
Init ==
  /\ owner = [s \in Session |-> None] /\ live = {}
  /\ cookie = None
  /\ tab = [t \in Tab |-> [Loading EXCEPT !.view = "login"]] /\ sent = {}

-----------------------------------------------------------------------------
\* The console.

\* A tab is opened or loaded again: App's effect asks whose session it is.
\* Answers to what it asked before reach the browser, and no page.  To load
\* a tab that is loading sends the same question again.
Load(t) ==
  /\ tab[t].view # "loading"
  /\ tab' = [tab EXCEPT ![t] = Loading]
  /\ sent' = {[r EXCEPT !.from = IF @ = t THEN None ELSE @] : r \in sent}
               \cup {[Blank("session", t) EXCEPT !.cookie = cookie]}
  /\ Cardinality(sent') <= MaxSent
  /\ UNCHANGED <<owner, live, cookie>>

Send(r) ==
  /\ r \notin sent /\ sent' = sent \cup {r} /\ Cardinality(sent') <= MaxSent
  /\ UNCHANGED <<owner, live, cookie, tab>>

Busy(t) == \E r \in sent : r.from = t /\ r.kind = "login"

\* Login.submit, with a code once one was asked for.
SubmitLogin(t, a) ==
  /\ tab[t].view = "login" /\ ~Busy(t)
  /\ Send([Blank("login", t) EXCEPT !.as = a,
                                    !.code = IF tab[t].code = "asked" THEN "typed" ELSE "none"])

SignOut(t) == tab[t].view = "in" /\ Send(Request("logout", t))

\* Anything the console sends to have something changed.
SendChange(t) ==
  tab[t].view = "in" /\ Send([Request("change", t) EXCEPT !.as = tab[t].who])

\* Mutant: only signing in remembers the token.
RememberedAtLogin(t, s) ==
  [tab EXCEPT ![t] = [view |-> "in", who |-> owner[s], code |-> "not asked",
                      token |-> IF tab[t].view = "login" THEN s ELSE @.token]]

\* remember, and App's session: also for the answer to a tab's first question.
Remembered(t, s) ==
  [tab EXCEPT ![t] = [view |-> "in", who |-> owner[s], token |-> s, code |-> "not asked"]]

\* signOut: the sign-in page follows whatever the answer is, but only a
\* session that was ended is forgotten.
SignedOut(t, answer) ==
  [tab EXCEPT ![t].view = "login", ![t].who = None, ![t].code = "not asked",
              ![t].token = IF answer = "ok" THEN None ELSE @]

\* Mutant: a refusal is not looked at.
StillLoading(t) == tab

\* Refused: the page that was loading asks for a sign-in.
NotSignedIn(t) == [tab EXCEPT ![t].view = "login"]

\* The code is asked for once the password was right; after any other refusal
\* the form starts again.
RefusedLogin(t, answer) ==
  [tab EXCEPT ![t].code = IF answer = "code wanted" THEN "asked" ELSE "not asked"]

\* What a tab makes of an answer.
Heard(r) ==
  LET t == r.from IN
  CASE t = None \/ r.kind = "change" -> tab
    [] t # None /\ r.kind \in {"session", "login"} /\ r.answer = "ok" -> Remembered(t, r.session)
    [] t # None /\ r.kind = "session" /\ r.answer # "ok" -> NotSignedIn(t)
    [] t # None /\ r.kind = "login" /\ r.answer # "ok" -> RefusedLogin(t, r.answer)
    [] t # None /\ r.kind = "logout" -> SignedOut(t, r.answer)

\* The browser takes the cookie of an answer, whichever it has by then.
Hear(r) ==
  /\ r \in sent /\ r.answer # "none"
  /\ sent' = sent \ {r} /\ tab' = Heard(r)
  /\ cookie' = CASE r.answer = "ok" /\ r.kind = "login"  -> r.session
                 [] r.answer = "ok" /\ r.kind = "logout" -> None
                 [] OTHER -> cookie
  /\ UNCHANGED <<owner, live>>

\* A request, or its answer, is lost.
Lose(r) ==
  /\ r \in sent
  /\ sent' = sent \ {r} /\ tab' = Heard([r EXCEPT !.answer = "refused"])
  /\ UNCHANGED <<owner, live, cookie>>

-----------------------------------------------------------------------------
\* The control plane.

\* Mutant: the token is not compared.
AdmittedByCookie(r) == r.cookie \in live

\* current_session: a live session, and its own token for what is no read.
Admitted(r) == r.cookie \in live /\ r.token = r.cookie

\* A change is answered with the account it was shown as made by and the
\* session it was made in.
Answer(r, answer, s) ==
  [kind |-> r.kind, from |-> r.from, cookie |-> None, token |-> None, code |-> "none",
   answer |-> answer, session |-> s, as |-> IF r.kind = "change" THEN r.as ELSE None]

Reply(r, answer, s) == sent' = (sent \ {r}) \cup {Answer(r, answer, s)}

\* read_session
ServeSession(r) ==
  /\ r.kind = "session"
  /\ IF r.cookie \in live THEN Reply(r, "ok", r.cookie) ELSE Reply(r, "refused", None)
  /\ UNCHANGED <<owner, live>>

\* login: a new session, whatever cookie came along; or the directory, the
\* lock-out or the second factor refuses.
ServeLogin(r) ==
  /\ r.kind = "login"
  /\ \/ /\ r.as \notin Careful \/ r.code = "typed"
        /\ \E s \in Session :
             /\ owner[s] = None
             /\ owner' = [owner EXCEPT ![s] = r.as] /\ live' = live \cup {s}
             /\ Reply(r, "ok", s)
     \/ r.as \in Careful /\ Reply(r, "code wanted", None) /\ UNCHANGED <<owner, live>>
     \/ Reply(r, "refused", None) /\ UNCHANGED <<owner, live>>

ServeLogout(r) ==
  /\ r.kind = "logout"
  /\ IF Admitted(r) THEN live' = live \ {r.cookie} /\ Reply(r, "ok", None)
                    ELSE live' = live /\ Reply(r, "refused", None)
  /\ UNCHANGED <<owner>>

ServeChange(r) ==
  /\ r.kind = "change"
  /\ IF Admitted(r) THEN Reply(r, "ok", r.cookie) ELSE Reply(r, "refused", None)
  /\ UNCHANGED <<owner, live>>

Serve(r) ==
  /\ r \in sent /\ r.answer = "none"
  /\ ServeSession(r) \/ ServeLogin(r) \/ ServeLogout(r) \/ ServeChange(r)
  /\ UNCHANGED <<cookie, tab>>

\* It expires, is idle too long, or its account is no longer an administrator.
Expire(s) ==
  /\ s \in live /\ live' = live \ {s}
  /\ UNCHANGED <<owner, cookie, tab, sent>>

Next ==
  \/ \E t \in Tab : Load(t) \/ SignOut(t) \/ SendChange(t) \/ \E a \in Account : SubmitLogin(t, a)
  \/ \E r \in sent : Hear(r) \/ Lose(r) \/ Serve(r)
  \/ \E s \in Session : Expire(s)

Spec == Init /\ [][Next]_vars

\* What a tab has asked is served and answered, or the connection fails.
Fairness ==
  \A t \in Tab :
    WF_vars(\E r \in sent : r.from = t /\ (Serve(r) \/ Hear(r) \/ Lose(r)))

FairSpec == Spec /\ Fairness

-----------------------------------------------------------------------------

TypeOK ==
  /\ owner \in [Session -> Account \cup {None}] /\ live \subseteq Session
  /\ cookie \in Session \cup {None} /\ tab \in [Tab -> Views] /\ sent \subseteq Requests

\* The audit log names the account a change is made by: it is the account the
\* tab showed to who made it, however many tabs have signed in and out of
\* others meanwhile and whichever of their answers set the cookie last.
ActsAsShown ==
  \A r \in sent : r.kind = "change" /\ r.answer = "ok" => owner[r.session] = r.as

\* A tab that shows an account holds the token of a session of that account,
\* whatever late answers to a sign-out it still hears.
TokenIsShown == \A t \in Tab : tab[t].view = "in" => tab[t].token # None
                                                  /\ owner[tab[t].token] = tab[t].who

\* No tab waits for ever to know whether it is signed in.
LoadingEnds == \A t \in Tab : tab[t].view = "loading" ~> tab[t].view # "loading"

=============================================================================

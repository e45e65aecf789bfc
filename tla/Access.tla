------------------------------- MODULE Access -------------------------------
(***************************************************************************)
(* Who a request runs as: sign in with GitHub, the session cookie, the     *)
(* session middleware in front of GraphQL, the token startRun mints and    *)
(* the hello that is checked against it (internal/auth, internal/token,    *)
(* the resolvers, Header.tsx, RoomDetailPage.tsx).                         *)
(*                                                                         *)
(* One browser tab has several requests under way, and each statement of a *)
(* handler is a step: the cookie, the session row and the clock may change *)
(* between two of them.  A response may be lost, a statement may fail with *)
(* or without its effect.                                                  *)
(*                                                                         *)
(* Time is counted in parts of a second, PerSec of them: the NumericDate   *)
(* of a token keeps whole seconds only.  BFF and engine read one clock.    *)
(***************************************************************************)
EXTENDS Integers

CONSTANTS
  Accounts,     \* GitHub accounts; a user row is named by its account
  System,       \* the user of migration 0004, whom the admin API key stands for
  Nobody,       \* no user in the context
  Admins,       \* users whose role is ADMIN
  Requests,     \* slots: requests the tab and roomctl have under way at once
  Sessions,     \* session ids
  None,
  Runs,
  EngineOf,     \* EngineOf[n]: the engine of the room of run n
  PerSec, SessionTTL, RunTokenTTL,
  MaxNow,       \* bound: the clock
  MaxSent,      \* bound: requests sent
  MaxFaults     \* bound: failing statements, failing calls to GitHub, lost responses

ASSUME AccessNames ==
  /\ Accounts \cap {System, Nobody, None} = {} /\ System # Nobody /\ System # None
  /\ None \notin Sessions \cup Runs
\* The CHECK on rooms.engine; the engine of a room never changes.
ASSUME EngineNames == EngineOf \in [Runs -> {"A", "B"}]
ASSUME AccessTimes ==
  /\ PerSec \in Nat \ {0} /\ SessionTTL \in Nat \ {0} /\ RunTokenTTL \in Nat \ {0}
  /\ MaxNow \in Nat /\ MaxSent \in Nat /\ MaxFaults \in Nat

VARIABLES
  now,
  users,     \* the rows of users
  session,   \* session[i]: the row i of sessions; a deleted one is remembered
  owner,     \* owner[n]: the user_id of run n, Nobody before it is started
  tab,       \* the cookie jar and what the page holds
  req,       \* req[r]: where the handler of request r stands
  sent, faults   \* so far

accessVars == <<now, users, session, owner, tab, req, sent, faults>>

-----------------------------------------------------------------------------
\* History: at, the clock when the request arrived; dead, its session was deleted by
\* then; failed, a statement of its middleware failed.
Idle == [kind |-> "none", phase |-> "idle", who |-> Nobody, cookie |-> None, token |-> None,
         page |-> TRUE, at |-> 0, dead |-> FALSE, failed |-> FALSE]

Unused == [state |-> "unused", user |-> Nobody, expires |-> 0]

Row(i) == IF i = None THEN Unused ELSE session[i]

AccessInit ==
  /\ now = 0 /\ users = {System}
  /\ session = [i \in Sessions |-> Unused]
  /\ owner = [n \in Runs |-> Nobody]
  /\ tab = [cookie |-> None, viewer |-> Nobody, out |-> FALSE, token |-> None]
  /\ req = [r \in Requests |-> Idle]
  /\ sent = 0 /\ faults = 0

\* jwt.NewNumericDate.
WholeSeconds(t) == t - (t % PerSec)

Fail == faults < MaxFaults /\ faults' = faults + 1

-----------------------------------------------------------------------------
(***************************************************************************)
(* The tab sends                                                           *)
(***************************************************************************)
\* The browser drops a cookie at its Expires, by a clock of its own.
HeldCookies == {tab.cookie, None}

Arrives(r, kind, who, cookie) ==
  /\ req[r].phase = "idle" /\ sent < MaxSent /\ sent' = sent + 1
  /\ req' = [req EXCEPT ![r] =
       [Idle EXCEPT !.kind = kind, !.who = who, !.cookie = cookie, !.at = now,
          !.phase = CASE kind = "callback" -> "exchange" [] kind = "logout" -> "delete" [] OTHER -> "session",
          !.dead = Row(cookie).state = "deleted"]]
  /\ UNCHANGED <<now, users, session, owner, tab, faults>>

\* Back from GitHub with a code for account a.
SendCallback(r, a) == Arrives(r, "callback", a, None)
SendLogout(r) == \E c \in HeldCookies : Arrives(r, "logout", Nobody, c)
\* useViewer and handleStartRun; a publish with a session is for an administrator's.
SendQuery(r, kind) == \E c \in HeldCookies : Arrives(r, kind, Nobody, c)
\* roomctl sends the admin API key, which AdminAPIKeyMiddleware turns into System.
SendWithKey(r) == Arrives(r, "publish", System, None)

-----------------------------------------------------------------------------
(***************************************************************************)
(* The handlers                                                            *)
(***************************************************************************)
At(r, phase) == req[r].phase = phase
To(r, phase) == req' = [req EXCEPT ![r].phase = phase]
Refuse(r) == To(r, "refused")

\* ExchangeCodeForUser, three calls; an error of any of them is a 401.
\* The code, for an access token of GitHub.
ExchangeCode(r) ==
  /\ At(r, "exchange")
  /\ \/ To(r, "profile") /\ UNCHANGED faults
     \/ Fail /\ Refuse(r)
  /\ UNCHANGED <<now, users, session, owner, tab, sent>>

\* The access token, for the account it is for.
GetUser(r) ==
  /\ At(r, "profile")
  /\ \/ To(r, "upsert") /\ UNCHANGED faults
     \/ Fail /\ Refuse(r)
  /\ UNCHANGED <<now, users, session, owner, tab, sent>>

\* github_id is UNIQUE: an account has one row, whoever inserts it.
UpsertByGitHubID(r) ==
  /\ At(r, "upsert")
  /\ \/ To(r, "create") /\ users' = users \cup {req[r].who} /\ UNCHANGED faults
     \/ Fail /\ Refuse(r) /\ users' \in {users, users \cup {req[r].who}}
  /\ UNCHANGED <<now, session, owner, tab, sent>>

NewSession(i, user) == session' = [session EXCEPT ![i] =
                         [state |-> "live", user |-> user, expires |-> now + SessionTTL]]

\* CreateSession.  A failing INSERT may leave a session nobody has the id of.
CreateSession(r) ==
  /\ At(r, "create")
  /\ \E i \in Sessions :
       /\ session[i].state = "unused"
       /\ \/ /\ NewSession(i, req[r].who) /\ UNCHANGED faults
             /\ req' = [req EXCEPT ![r].phase = "answer", ![r].cookie = i]
          \/ Fail /\ Refuse(r) /\ (NewSession(i, req[r].who) \/ UNCHANGED session)
  /\ UNCHANGED <<now, users, owner, tab, sent>>

Deleted(i) == session' = IF Row(i).state = "unused" THEN session
                         ELSE [session EXCEPT ![i].state = "deleted"]

\* HandleLogout: the error of Delete is not looked at.
DeleteSession(r) ==
  /\ At(r, "delete") /\ To(r, "answer")
  /\ \/ Deleted(req[r].cookie) /\ UNCHANGED faults
     \/ Fail /\ (Deleted(req[r].cookie) \/ UNCHANGED session)
  /\ UNCHANGED <<now, users, owner, tab, sent>>

\* SessionMiddleware: any error leaves the context as it is.
Anonymous(r, failed) == req' = [req EXCEPT ![r].phase = "resolve", ![r].failed = failed]

\* sessionRepo.GetByID.
ReadSession(r) ==
  /\ At(r, "session")
  /\ \/ /\ IF Row(req[r].cookie).state = "live" THEN To(r, "expiry") ELSE Anonymous(r, FALSE)
        /\ UNCHANGED faults
     \/ req[r].cookie # None /\ Fail /\ Anonymous(r, TRUE)
  /\ UNCHANGED <<now, users, session, owner, tab, sent>>

\* MUTANT of Expired: valid at the very moment it expires.
ExpiredLate(i) == session[i].expires < now
Expired(i) == session[i].expires <= now

\* users.GetByID
UserByID(u) == IF u \in users THEN u ELSE Nobody

\* The row read is looked at after the query: it may have been deleted meanwhile.
CheckExpiry(r) ==
  LET user == UserByID(session[req[r].cookie].user) IN
  /\ At(r, "expiry")
  /\ \/ Expired(req[r].cookie) /\ Anonymous(r, FALSE) /\ UNCHANGED faults
     \/ /\ ~Expired(req[r].cookie) /\ UNCHANGED faults
        /\ IF user = Nobody THEN Anonymous(r, FALSE)
           ELSE req' = [req EXCEPT ![r].phase = "resolve", ![r].who = user]
     \/ ~Expired(req[r].cookie) /\ Fail /\ Anonymous(r, TRUE)
  /\ UNCHANGED <<now, users, session, owner, tab, sent>>

\* The resolver: FORBIDDEN or UNAUTHORIZED, or the answer.  What Publish and StartRun
\* do is IdempotentMutations; startRun answers a new run of the user, or one of
\* his earlier ones when the request is a retry, and always with a fresh token.
\* The minter asks for a user, a run, a known engine and a positive TTL: it gets them.
MintRunToken(n, user) ==
  [run |-> n, user |-> user, engine |-> EngineOf[n], iat |-> WholeSeconds(now), exp |-> WholeSeconds(now + RunTokenTTL), at |-> now]

Resolve(r) ==
  /\ At(r, "resolve")
  /\ LET user == req[r].who IN
       \/ /\ req[r].kind = "viewer"
          /\ To(r, "answer") /\ UNCHANGED owner
       \/ /\ req[r].kind = "publish"
          /\ IF user \in Admins THEN To(r, "answer") ELSE Refuse(r)
          /\ UNCHANGED owner
       \/ /\ req[r].kind = "startRun" /\ user = Nobody
          /\ Refuse(r) /\ UNCHANGED owner
       \/ /\ req[r].kind = "startRun" /\ user # Nobody
          /\ \E n \in Runs : /\ owner[n] \in {Nobody, user}
                             /\ owner' = [owner EXCEPT ![n] = user]
                             /\ req' = [req EXCEPT ![r].phase = "answer", ![r].token = MintRunToken(n, user)]
  /\ UNCHANGED <<now, users, session, tab, sent, faults>>

-----------------------------------------------------------------------------
(***************************************************************************)
(* The tab receives                                                        *)
(***************************************************************************)
\* A page load: what the old page was waiting for is not shown any more.
Loads(r) == req' = [q \in Requests |-> IF q = r \/ At(q, "idle") THEN Idle
                                      ELSE [req[q] EXCEPT !.page = FALSE]]

Done(r) == req' = [req EXCEPT ![r] = Idle]

CallbackAnswered(r) ==
  /\ req[r].kind = "callback" /\ Loads(r)
  /\ tab' = [tab EXCEPT !.cookie = req[r].cookie, !.viewer = Nobody, !.out = FALSE]

\* MUTANT of LogoutAnswered: the page is not reloaded, only its viewer is cleared.
LogoutNoReload(r) ==
  /\ req[r].kind = "logout" /\ Done(r)
  /\ tab' = [tab EXCEPT !.cookie = None, !.viewer = Nobody, !.out = TRUE]

\* handleLogout reloads the page when the fetch has succeeded.
LogoutAnswered(r) ==
  /\ req[r].kind = "logout" /\ Loads(r)
  /\ tab' = [tab EXCEPT !.cookie = None, !.viewer = Nobody, !.out = TRUE]

QueryAnswered(r) ==
  /\ req[r].kind \in {"viewer", "startRun", "publish"} /\ Done(r)
  /\ tab' = IF ~req[r].page THEN tab
            ELSE IF req[r].kind = "viewer" THEN [tab EXCEPT !.viewer = req[r].who]
            ELSE IF req[r].kind = "startRun" THEN [tab EXCEPT !.token = req[r].token]
            ELSE tab

Answer(r) ==
  /\ At(r, "answer")
  /\ CallbackAnswered(r) \/ LogoutAnswered(r) \/ QueryAnswered(r)
  /\ UNCHANGED <<now, users, session, owner, sent, faults>>

\* An error shows a message.
Refused(r) ==
  /\ At(r, "refused") /\ Done(r)
  /\ UNCHANGED <<now, users, session, owner, tab, sent, faults>>

\* A lost response shows nothing.  That of a logout is a redirect, which clears the
\* cookie, and the page it leads to: when only the latter is lost, the fetch fails and
\* the page is not reloaded.
Lost(r) ==
  /\ At(r, "answer") /\ Fail /\ Done(r)
  /\ \/ UNCHANGED tab
     \/ req[r].kind = "logout" /\ tab' = [tab EXCEPT !.cookie = None]
  /\ UNCHANGED <<now, users, session, owner, sent>>

-----------------------------------------------------------------------------
(***************************************************************************)
(* The engine, when a hello brings a token: the page keeps its token, in   *)
(* the history entry, for every connection it makes.                       *)
(***************************************************************************)
ValidClaims(tok) == tok.engine \in {"A", "B"} /\ tok.iat <= tok.exp

\* MUTANT of VerifyRunToken: a token is good until its expiry has passed.
VerifyUntilPassed(tok, run) == ValidClaims(tok) /\ tok.engine = "A" /\ tok.run = run /\ now <= tok.exp

VerifyRunToken(tok, run) == ValidClaims(tok) /\ tok.engine = "A" /\ tok.run = run /\ now < tok.exp

Clock ==
  /\ now < MaxNow /\ now' = now + 1
  /\ UNCHANGED <<users, session, owner, tab, req, sent, faults>>

-----------------------------------------------------------------------------
Sends(r) ==
  \/ \E a \in Accounts : SendCallback(r, a)
  \/ SendLogout(r)
  \/ \E kind \in {"viewer", "startRun", "publish"} : SendQuery(r, kind)
  \/ SendWithKey(r)

Handles(r) ==
  \/ ExchangeCode(r) \/ GetUser(r) \/ UpsertByGitHubID(r) \/ CreateSession(r) \/ DeleteSession(r)
  \/ ReadSession(r) \/ CheckExpiry(r) \/ Resolve(r)

AccessNext ==
  \/ \E r \in Requests : Sends(r) \/ Handles(r) \/ Answer(r) \/ Refused(r) \/ Lost(r)
  \/ Clock

AccessSpec == AccessInit /\ [][AccessNext]_accessVars

-----------------------------------------------------------------------------
Queries == {"viewer", "startRun", "publish"}
Resolved(r) == req[r].kind \in Queries /\ req[r].phase \in {"resolve", "answer", "refused"}

\* Whatever logins, logouts and queries run beside it, a request acts for an account
\* only on a session of that account that was neither deleted nor expired when the
\* request arrived; ...
NoDeadSession ==
  \A r \in Requests : Resolved(r) /\ req[r].who \in Accounts =>
    LET s == session[req[r].cookie] IN
      req[r].cookie # None /\ s.user = req[r].who /\ req[r].at < s.expires /\ ~req[r].dead

\* ... and it is taken for nobody's, when it brings a cookie and no statement failed,
\* only once that session has been deleted or has expired.
NoLostSession ==
  \A r \in Requests : Resolved(r) /\ req[r].who = Nobody /\ req[r].cookie # None /\ ~req[r].failed =>
    \/ session[req[r].cookie].state = "deleted"
    \/ session[req[r].cookie].expires <= now

AuthIsExact == NoDeadSession /\ NoLostSession

\* At any moment the engine lets a hello in for the run its token was minted for, which
\* is a run of engine A and of the user it was minted for, and for no longer than the
\* TTL; and it does not refuse it for such a run before the last second of the TTL,
\* which NumericDate may cost.
TokenLife ==
  tab.token # None =>
    LET tok == tab.token IN
      \A n \in Runs :
        /\ VerifyRunToken(tok, n) => /\ n = tok.run /\ EngineOf[n] = "A" /\ owner[n] = tok.user
                                     /\ now < tok.at + RunTokenTTL
        /\ n = tok.run /\ EngineOf[n] = "A" /\ ~VerifyRunToken(tok, n) =>
             now > tok.at + RunTokenTTL - PerSec

\* After a logout whose response arrived the page shows nobody, even if a viewer query
\* that was sent before it is answered after it.
LoggedOutIsShown == tab.out => tab.viewer = Nobody
=============================================================================

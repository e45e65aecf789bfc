--------------------------- MODULE Access_proofs ---------------------------
(***************************************************************************)
(* Whom a request acts for, how long a token is good, and what the page    *)
(* shows after a logout, for any accounts, requests, sessions and times.   *)
(***************************************************************************)
EXTENDS Access, TLAPS

SessionRow == [state : {"unused", "live", "deleted"}, user : Accounts \cup {Nobody}, expires : Nat]
Token == [run : Runs, user : Accounts \cup {System}, engine : {"A", "B"}, iat : Int, exp : Int, at : Nat]
Request == [kind : {"none", "callback", "logout"} \cup Queries,
            phase : {"idle", "exchange", "profile", "upsert", "create", "delete", "session", "expiry", "resolve", "answer", "refused"},
            who : Accounts \cup {Nobody, System}, cookie : Sessions \cup {None}, token : Token \cup {None},
            page : BOOLEAN, at : Nat, dead : BOOLEAN, failed : BOOLEAN]
Tab == [cookie : Sessions \cup {None}, viewer : Accounts \cup {Nobody, System}, out : BOOLEAN,
        token : Token \cup {None}]

AccessTypeOK ==
  /\ now \in Nat
  /\ session \in [Sessions -> SessionRow]
  /\ owner \in [Runs -> Accounts \cup {Nobody, System}]
  /\ tab \in Tab
  /\ req \in [Requests -> Request]

\* A token at time t, with the runs' owners o.
TokenOK(k, t, o) ==
  k # None => /\ k.exp = WholeSeconds(k.at + RunTokenTTL) /\ k.iat = WholeSeconds(k.at) /\ k.at <= t
              /\ k.engine = EngineOf[k.run]
              /\ o[k.run] = k.user

\* A request, with the session rows s at time t.
RequestOK(q, s, t) ==
  /\ q.at <= t
  /\ q.cookie # None => s[q.cookie].state # "unused"
  /\ q.dead => q.cookie # None /\ s[q.cookie].state = "deleted"
  /\ q.phase \in {"exchange", "profile", "upsert", "create"} => q.kind = "callback" /\ q.who \in Accounts /\ q.cookie = None
  /\ q.phase = "delete" => q.kind = "logout"
  /\ q.phase \in {"session", "expiry"} => q.kind \in Queries /\ q.who \in {Nobody, System}
  /\ q.phase = "expiry" => q.cookie # None /\ ~q.dead
  /\ q.phase = "resolve" => q.kind \in Queries
  /\ q.phase = "idle" => q.kind = "none"
  /\ q.phase = "answer" /\ q.kind = "callback" => q.cookie # None

Sound(q, s) ==
  q.kind \in Queries /\ q.phase \in {"resolve", "answer", "refused"} /\ q.who \in Accounts =>
    q.cookie # None /\ s[q.cookie].user = q.who /\ q.at < s[q.cookie].expires /\ ~q.dead

Complete(q, s, t) ==
  q.kind \in Queries /\ q.phase \in {"resolve", "answer", "refused"} /\ q.who = Nobody
    /\ q.cookie # None /\ ~q.failed =>
    s[q.cookie].state = "deleted" \/ s[q.cookie].expires <= t

\* After a logout no viewer query the page still waits for carries a cookie.
OutOK(q, b) == b.out /\ q.kind = "viewer" /\ q.page => q.cookie = None /\ q.who = Nobody

AccessInv ==
  /\ AccessTypeOK
  /\ \A i \in Sessions : session[i].state # "unused" => session[i].user \in Accounts
  /\ \A r \in Requests : /\ RequestOK(req[r], session, now) /\ TokenOK(req[r].token, now, owner)
                         /\ Sound(req[r], session) /\ Complete(req[r], session, now) /\ OutOK(req[r], tab)
  /\ TokenOK(tab.token, now, owner)
  /\ tab.cookie # None => session[tab.cookie].state # "unused"
  /\ tab.out => tab.cookie = None /\ tab.viewer = Nobody

\* Whom a session row names, or a request is about to make one for, has a row in users.
UsersKnown ==
  /\ \A i \in Sessions : session[i].state # "unused" => session[i].user \in users
  /\ \A r \in Requests : req[r].phase = "create" => req[r].who \in users

\* Rows keep their user and expiry, a deleted row stays deleted, a run keeps its owner.
Onwards ==
  /\ now <= now'
  /\ \A i \in Sessions : session[i].state # "unused" =>
       /\ session'[i].user = session[i].user /\ session'[i].expires = session[i].expires
       /\ session'[i].state # "unused" /\ (session[i].state = "deleted" => session'[i].state = "deleted")
  /\ \A n \in Runs : owner[n] # Nobody => owner'[n] = owner[n]

-----------------------------------------------------------------------------
LEMMA IdleTyped == Idle \in Request /\ Idle.kind = "none" /\ Idle.phase = "idle" /\ Idle.cookie = None
                   /\ Idle.token = None /\ Idle.at = 0 /\ ~Idle.dead /\ Idle.page /\ Idle.who = Nobody
  BY DEF Idle, Request

\* A whole number of seconds lies less than a second below.
LEMMA WholeSecondsBelow ==
  ASSUME NEW t \in Nat
  PROVE  WholeSeconds(t) \in Int /\ WholeSeconds(t) <= t /\ t < WholeSeconds(t) + PerSec
<1>1. PerSec \in Nat /\ PerSec > 0
  BY AccessTimes
<1>2. t % PerSec \in 0..(PerSec - 1)
  BY <1>1
<1> QED
  BY <1>1, <1>2 DEF WholeSeconds

\* A later moment is not in an earlier second.
LEMMA WholeSecondsGrow ==
  ASSUME NEW t \in Nat, NEW d \in Nat
  PROVE  WholeSeconds(t) <= WholeSeconds(t + d)
<1>1. PerSec \in Nat /\ PerSec > 0
  BY AccessTimes
<1> DEFINE a == t \div PerSec
           b == (t + d) \div PerSec
<1>2. a \in Int /\ b \in Int /\ t = PerSec * a + (t % PerSec) /\ t + d = PerSec * b + ((t + d) % PerSec)
  BY <1>1
<1>3. t % PerSec \in 0..(PerSec - 1) /\ (t + d) % PerSec \in 0..(PerSec - 1)
  BY <1>1
<1>4. WholeSeconds(t) = PerSec * a /\ WholeSeconds(t + d) = PerSec * b
  BY <1>1, <1>2, <1>3 DEF WholeSeconds
<1> HIDE DEF a, b
<1>5. a <= b
  <2> SUFFICES ASSUME b + 1 <= a PROVE FALSE
    BY <1>2
  <2>1. PerSec * (b + 1) <= PerSec * a
    BY <1>1, <1>2
  <2>2. PerSec * (b + 1) = PerSec * b + PerSec
    BY <1>1, <1>2
  <2> QED
    BY <1>1, <1>2, <1>3, <2>1, <2>2
<1> QED
  BY <1>1, <1>2, <1>4, <1>5

\* What holds of a request or of a token goes on holding.
LEMMA RequestStays ==
  ASSUME AccessTypeOK, AccessTypeOK', Onwards, NEW q \in Request,
         RequestOK(q, session, now), Sound(q, session), Complete(q, session, now)
  PROVE  RequestOK(q, session', now') /\ Sound(q, session') /\ Complete(q, session', now')
<1>1. now \in Nat /\ now' \in Nat /\ now <= now' /\ q.at \in Nat /\ q.cookie \in Sessions \cup {None}
  BY DEF AccessTypeOK, Onwards, Request
<1>2. CASE q.cookie = None
  BY <1>1, <1>2 DEF RequestOK, Sound, Complete
<1>3. CASE q.cookie # None
  <2>1. q.cookie \in Sessions /\ session[q.cookie].state # "unused"
    BY <1>1, <1>3 DEF RequestOK
  <2>2. session[q.cookie] \in SessionRow /\ session'[q.cookie] \in SessionRow
    BY <2>1 DEF AccessTypeOK
  <2>3. session[q.cookie].expires \in Nat
    BY <2>2 DEF SessionRow
  <2> QED
    BY <1>1, <2>1, <2>3 DEF RequestOK, Sound, Complete, Onwards
<1> QED
  BY <1>2, <1>3

LEMMA TokenStays ==
  ASSUME AccessTypeOK, AccessTypeOK', Onwards, NEW k \in Token \cup {None}, TokenOK(k, now, owner)
  PROVE  TokenOK(k, now', owner')
<1>1. now \in Nat /\ now' \in Nat /\ now <= now'
  BY DEF AccessTypeOK, Onwards
<1>2. CASE k = None
  BY <1>2 DEF TokenOK
<1>3. CASE k # None
  <2>1. k.at \in Nat /\ k.run \in Runs /\ k.user # Nobody
    BY <1>3, AccessNames DEF Token
  <2> QED
    BY <1>1, <2>1 DEF TokenOK, Onwards
<1> QED
  BY <1>2, <1>3

-----------------------------------------------------------------------------
\* The invariants of the runs follow.
LEMMA InvImplies == AccessInv => AuthIsExact /\ TokenLife /\ LoggedOutIsShown
<1> SUFFICES ASSUME AccessInv PROVE AuthIsExact /\ TokenLife /\ LoggedOutIsShown
  OBVIOUS
<1>1. NoDeadSession
  BY DEF AccessInv, NoDeadSession, Resolved, Sound
<1>2. NoLostSession
  BY DEF AccessInv, NoLostSession, Resolved, Complete
<1>3. TokenLife
  <2> SUFFICES ASSUME tab.token # None, NEW n \in Runs
               PROVE  /\ VerifyRunToken(tab.token, n) =>
                           /\ n = tab.token.run /\ EngineOf[n] = "A" /\ owner[n] = tab.token.user
                           /\ now < tab.token.at + RunTokenTTL
                      /\ n = tab.token.run /\ EngineOf[n] = "A" /\ ~VerifyRunToken(tab.token, n) =>
                           now > tab.token.at + RunTokenTTL - PerSec
    BY DEF TokenLife
  <2> DEFINE k == tab.token
  <2>1. k \in Token /\ now \in Nat
    BY DEF AccessInv, AccessTypeOK, Tab
  <2>2. k.at \in Nat /\ k.exp \in Int /\ k.iat \in Int /\ k.engine \in {"A", "B"}
    BY <2>1 DEF Token
  <2>3. k.exp = WholeSeconds(k.at + RunTokenTTL) /\ k.iat = WholeSeconds(k.at) /\ owner[k.run] = k.user
        /\ k.engine = EngineOf[k.run]
    BY DEF AccessInv, TokenOK
  <2>4. k.at + RunTokenTTL \in Nat /\ PerSec \in Nat /\ RunTokenTTL \in Nat
    BY <2>2, AccessTimes
  <2>5. k.exp <= k.at + RunTokenTTL /\ k.at + RunTokenTTL < k.exp + PerSec
    BY <2>3, <2>4, WholeSecondsBelow
  <2>6. k.iat <= k.exp
    BY <2>2, <2>3, <2>4, WholeSecondsGrow
  <2> HIDE DEF k
  <2>7. ValidClaims(k)
    BY <2>2, <2>6 DEF ValidClaims
  <2>8. /\ VerifyRunToken(k, n) => n = k.run /\ EngineOf[n] = "A" /\ owner[n] = k.user /\ now < k.at + RunTokenTTL
        /\ n = k.run /\ EngineOf[n] = "A" /\ ~VerifyRunToken(k, n) => now > k.at + RunTokenTTL - PerSec
    BY <2>1, <2>2, <2>3, <2>4, <2>5, <2>7 DEF VerifyRunToken
  <2> QED
    BY <2>8 DEF k
<1>4. LoggedOutIsShown
  BY DEF AccessInv, LoggedOutIsShown
<1> QED
  BY <1>1, <1>2, <1>3, <1>4 DEF AuthIsExact

LEMMA InvInit == AccessInit => AccessInv
<1> SUFFICES ASSUME AccessInit PROVE AccessInv
  OBVIOUS
<1>1. Unused \in SessionRow /\ Unused.state = "unused"
  BY DEF Unused, SessionRow
<1>2. AccessTypeOK
  BY <1>1, IdleTyped DEF AccessInit, AccessTypeOK, Tab
<1>3. \A r \in Requests : req[r] = Idle
  BY DEF AccessInit
<1>4. \A r \in Requests : /\ RequestOK(req[r], session, now) /\ TokenOK(req[r].token, now, owner)
                          /\ Sound(req[r], session) /\ Complete(req[r], session, now) /\ OutOK(req[r], tab)
  BY <1>3, IdleTyped DEF RequestOK, TokenOK, Sound, Complete, OutOK, AccessInit, Queries
<1> QED
  BY <1>1, <1>2, <1>4 DEF AccessInit, AccessInv, TokenOK

\* A step of one request that leaves the tab alone.
LEMMA OneRequest ==
  ASSUME AccessInv, AccessTypeOK', Onwards, tab' = tab, NEW r \in Requests,
         \A q \in Requests \ {r} : req'[q] = req[q],
         \A i \in Sessions : session'[i].state # "unused" => session'[i].user \in Accounts,
         RequestOK(req'[r], session', now'), TokenOK(req'[r].token, now', owner'),
         Sound(req'[r], session'), Complete(req'[r], session', now'), OutOK(req'[r], tab)
  PROVE  AccessInv'
<1>1. \A q \in Requests : req[q] \in Request /\ req[q].token \in Token \cup {None}
  BY DEF AccessInv, AccessTypeOK, Request
<1>2. ASSUME NEW q \in Requests
      PROVE  /\ RequestOK(req'[q], session', now') /\ TokenOK(req'[q].token, now', owner')
             /\ Sound(req'[q], session') /\ Complete(req'[q], session', now') /\ OutOK(req'[q], tab)
  <2>1. CASE q = r
    BY <2>1
  <2>2. CASE q # r
    <3>1. req'[q] = req[q]
      BY <2>2
    <3>2. RequestOK(req[q], session', now') /\ Sound(req[q], session') /\ Complete(req[q], session', now')
      BY <1>1, RequestStays DEF AccessInv
    <3>3. TokenOK(req[q].token, now', owner')
      BY <1>1, TokenStays DEF AccessInv
    <3> QED
      BY <3>1, <3>2, <3>3 DEF AccessInv
  <2> QED
    BY <2>1, <2>2
<1>3. TokenOK(tab.token, now', owner')
  BY TokenStays DEF AccessInv, AccessTypeOK, Tab
<1>4. tab.cookie # None => session'[tab.cookie].state # "unused"
  BY DEF AccessInv, AccessTypeOK, Tab, Onwards
<1> QED
  BY <1>2, <1>3, <1>4 DEF AccessInv

\* Nothing but one request changes.
LEMMA OnlyRequest ==
  ASSUME AccessInv, NEW r \in Requests, NEW q \in Request,
         req' = [req EXCEPT ![r] = q], UNCHANGED <<now, session, owner, tab>>,
         RequestOK(q, session, now), TokenOK(q.token, now, owner),
         Sound(q, session), Complete(q, session, now), OutOK(q, tab)
  PROVE  AccessInv'
<1>1. AccessTypeOK'
  BY DEF AccessInv, AccessTypeOK
<1>2. Onwards
  BY DEF Onwards, AccessInv, AccessTypeOK
<1>3. req'[r] = q /\ \A p \in Requests \ {r} : req'[p] = req[p]
  BY DEF AccessInv, AccessTypeOK
<1> QED
  BY <1>1, <1>2, <1>3, OneRequest DEF AccessInv

LEMMA ArrivesInv ==
  ASSUME AccessInv, NEW r \in Requests, NEW kind \in {"callback", "logout"} \cup Queries,
         NEW who \in Accounts \cup {Nobody, System}, NEW c \in {None, tab.cookie}, Arrives(r, kind, who, c),
         kind = "callback" => who \in Accounts /\ c = None, kind = "viewer" => who = Nobody,
         kind \in Queries => who \in {Nobody, System}
  PROVE  AccessInv'
<1> DEFINE p == CASE kind = "callback" -> "exchange" [] kind = "logout" -> "delete" [] OTHER -> "session"
           q == [Idle EXCEPT !.kind = kind, !.who = who, !.cookie = c, !.at = now,
                   !.phase = p, !.dead = Row(c).state = "deleted"]
<1>1. c \in Sessions \cup {None} /\ now \in Nat
  BY DEF AccessInv, AccessTypeOK, Tab
<1>2. p \in {"exchange", "delete", "session"} /\ (p = "exchange" <=> kind = "callback")
      /\ (p = "delete" <=> kind = "logout") /\ (p = "session" <=> kind \in Queries)
  BY DEF Queries
<1>3. req' = [req EXCEPT ![r] = q] /\ UNCHANGED <<now, session, owner, tab>>
  BY DEF Arrives
<1>4. Row(c).state = "deleted" => c # None /\ session[c].state = "deleted"
  BY DEF Row, Unused
<1>5. c # None => session[c].state # "unused"
  BY DEF AccessInv
<1> HIDE DEF p
<1>6. /\ q.kind = kind /\ q.who = who /\ q.cookie = c /\ q.at = now /\ q.phase = p
      /\ q.dead = (Row(c).state = "deleted") /\ q.token = None /\ q.page = TRUE
  BY IdleTyped DEF Request
<1>7. q \in Request
  <2>1. ASSUME NEW i \in Request, NEW d \in BOOLEAN
        PROVE  [i EXCEPT !.kind = kind, !.who = who, !.cookie = c, !.at = now, !.phase = p, !.dead = d]
                 \in Request
    <3>1. [i EXCEPT !.kind = kind, !.who = who, !.cookie = c] \in Request
      BY <1>1 DEF Request
    <3>2. ASSUME NEW j \in Request PROVE [j EXCEPT !.at = now] \in Request
      BY <1>1 DEF Request
    <3>3. ASSUME NEW j \in Request PROVE [j EXCEPT !.phase = p] \in Request
      BY <1>2 DEF Request
    <3>4. ASSUME NEW j \in Request PROVE [j EXCEPT !.dead = d] \in Request
      BY DEF Request
    <3> QED BY <3>1, <3>2, <3>3, <3>4
  <2> QED BY <2>1, IdleTyped
<1> HIDE DEF q
<1>8. RequestOK(q, session, now)
  <2>1. q.at <= now /\ (q.cookie # None => session[q.cookie].state # "unused")
    BY <1>1, <1>5, <1>6
  <2>2. q.dead => q.cookie # None /\ session[q.cookie].state = "deleted"
    BY <1>4, <1>6
  <2>3. q.phase = "exchange" => q.kind = "callback" /\ q.who \in Accounts /\ q.cookie = None
    BY <1>2, <1>6
  <2>4. (q.phase = "delete" => q.kind = "logout")
        /\ (q.phase = "session" => q.kind \in Queries /\ q.who \in {Nobody, System})
    BY <1>2, <1>6
  <2>5. q.phase \in {"exchange", "delete", "session"}
    BY <1>2, <1>6
  <2> QED
    BY <2>1, <2>2, <2>3, <2>4, <2>5 DEF RequestOK
<1>9. TokenOK(q.token, now, owner)
  BY <1>6 DEF TokenOK
<1>10. Sound(q, session) /\ Complete(q, session, now)
  BY <1>2, <1>6 DEF Sound, Complete
<1>11. OutOK(q, tab)
  BY <1>6 DEF OutOK, AccessInv
<1> QED
  BY <1>3, <1>7, <1>8, <1>9, <1>10, <1>11, OnlyRequest

\* A request that is refused, or gone on with, with nothing learnt.
LEMMA ToInv ==
  ASSUME AccessInv, NEW r \in Requests, NEW p \in {"refused", "answer"}, To(r, p),
         UNCHANGED <<now, session, owner, tab>>,
         req[r].kind \in {"callback", "logout"} \/ req[r].phase = "resolve",
         p = "answer" => req[r].kind # "callback"
  PROVE  AccessInv'
<1> DEFINE q == [req[r] EXCEPT !.phase = p]
<1>2. req[r] \in Request
  BY DEF AccessInv, AccessTypeOK
<1>3. /\ q \in Request /\ q.phase = p /\ q.kind = req[r].kind /\ q.who = req[r].who
      /\ q.cookie = req[r].cookie /\ q.token = req[r].token /\ q.page = req[r].page /\ q.at = req[r].at
      /\ q.dead = req[r].dead /\ q.failed = req[r].failed
  BY <1>2 DEF Request
<1>4. req' = [req EXCEPT ![r] = q]
  BY DEF To
<1> HIDE DEF q
<1>5. /\ RequestOK(req[r], session, now) /\ TokenOK(req[r].token, now, owner)
      /\ Sound(req[r], session) /\ Complete(req[r], session, now) /\ OutOK(req[r], tab)
  BY DEF AccessInv
<1>6. RequestOK(q, session, now)
  BY <1>3, <1>5 DEF RequestOK
<1>7. Sound(q, session) /\ Complete(q, session, now)
  BY <1>3, <1>5 DEF Sound, Complete, Queries
<1>8. OutOK(q, tab) /\ TokenOK(q.token, now, owner)
  BY <1>3, <1>5 DEF OutOK
<1> QED
  BY <1>3, <1>4, <1>6, <1>7, <1>8, OnlyRequest

LEMMA CallbackInv ==
  ASSUME AccessInv, NEW r \in Requests, ExchangeCode(r) \/ GetUser(r) \/ UpsertByGitHubID(r)
  PROVE  AccessInv'
<1>1. /\ req[r].phase \in {"exchange", "profile", "upsert"} /\ req[r].kind = "callback"
      /\ req[r].who \in Accounts /\ req[r].cookie = None
  BY DEF ExchangeCode, GetUser, UpsertByGitHubID, At, AccessInv, RequestOK
<1>2. UNCHANGED <<now, session, owner, tab>>
  BY DEF ExchangeCode, GetUser, UpsertByGitHubID
<1>3. CASE To(r, "refused")
  BY <1>1, <1>2, <1>3, ToInv
<1>4. ASSUME NEW p \in {"profile", "upsert", "create"}, To(r, p)
      PROVE  AccessInv'
  <2> DEFINE q == [req[r] EXCEPT !.phase = p]
  <2>1. req[r] \in Request /\ req' = [req EXCEPT ![r] = q]
    BY <1>4 DEF AccessInv, AccessTypeOK, To
  <2>2. /\ q \in Request /\ q.phase = p /\ q.kind = "callback" /\ q.who = req[r].who
        /\ q.cookie = req[r].cookie /\ q.token = req[r].token /\ q.at = req[r].at /\ q.dead = req[r].dead
    BY <1>1, <2>1 DEF Request
  <2> HIDE DEF q
  <2>3. RequestOK(req[r], session, now) /\ TokenOK(req[r].token, now, owner)
    BY DEF AccessInv
  <2>4. RequestOK(q, session, now)
    BY <1>1, <2>2, <2>3 DEF RequestOK
  <2>5. Sound(q, session) /\ Complete(q, session, now) /\ OutOK(q, tab)
    BY <2>2 DEF Sound, Complete, OutOK, Queries
  <2> QED
    BY <1>2, <2>1, <2>2, <2>3, <2>4, <2>5, OnlyRequest
<1> QED
  BY <1>3, <1>4 DEF ExchangeCode, GetUser, UpsertByGitHubID, Refuse

\* A new row takes an id nobody holds.
LEMMA CreateInv ==
  ASSUME AccessInv, NEW r \in Requests, CreateSession(r)
  PROVE  AccessInv'
<1>1. req[r].phase = "create" /\ req[r].kind = "callback" /\ req[r].who \in Accounts /\ req[r] \in Request
      /\ req[r].cookie = None
  BY DEF CreateSession, At, AccessInv, AccessTypeOK, RequestOK
<1>2. UNCHANGED <<now, owner, tab>> /\ now \in Nat /\ now + SessionTTL \in Nat
  BY AccessTimes DEF CreateSession, AccessInv, AccessTypeOK
<1>3. PICK i \in Sessions :
        /\ session[i].state = "unused"
        /\ \/ NewSession(i, req[r].who) /\ req' = [req EXCEPT ![r].phase = "answer", ![r].cookie = i]
           \/ Refuse(r) /\ (NewSession(i, req[r].who) \/ UNCHANGED session)
  BY DEF CreateSession
<1> DEFINE row == [state |-> "live", user |-> req[r].who, expires |-> now + SessionTTL]
<1>4. row \in SessionRow /\ row.state = "live" /\ row.user \in Accounts
  BY <1>1, <1>2 DEF SessionRow
<1>5. session' = session \/ session' = [session EXCEPT ![i] = row]
  BY <1>3 DEF NewSession
<1> HIDE DEF row
<1>6. /\ session' \in [Sessions -> SessionRow]
      /\ \A k \in Sessions : session'[k].state # "unused" => session'[k].user \in Accounts
      /\ \A k \in Sessions : session[k].state # "unused" => session'[k] = session[k]
  BY <1>3, <1>4, <1>5 DEF AccessInv, AccessTypeOK
<1>7. Onwards
  BY <1>2, <1>6 DEF Onwards
<1>8. RequestOK(req[r], session, now) /\ TokenOK(req[r].token, now, owner)
  BY DEF AccessInv
<1>9. CASE NewSession(i, req[r].who) /\ req' = [req EXCEPT ![r].phase = "answer", ![r].cookie = i]
  <2> DEFINE q == [req[r] EXCEPT !.phase = "answer", !.cookie = i]
  <2>1. req' = [req EXCEPT ![r] = q]
    BY <1>9 DEF AccessInv, AccessTypeOK
  <2>2. /\ q \in Request /\ q.phase = "answer" /\ q.kind = "callback" /\ q.who = req[r].who
        /\ q.cookie = i /\ q.token = req[r].token /\ q.at = req[r].at /\ q.dead = req[r].dead
    BY <1>1 DEF Request
  <2> HIDE DEF q
  <2>3. session'[i] = row
    BY <1>9 DEF NewSession, row, AccessInv, AccessTypeOK
  <2>4. ~q.dead
    BY <1>1, <1>8, <2>2 DEF RequestOK
  <2>5. session'[i].state # "unused"
    BY <1>4, <2>3
  <2>6. RequestOK(q, session', now')
    BY <1>2, <1>8, <2>2, <2>4, <2>5, AccessNames DEF RequestOK
  <2>7. Sound(q, session') /\ Complete(q, session', now') /\ OutOK(q, tab)
    BY <2>2 DEF Sound, Complete, OutOK, Queries
  <2>8. TokenOK(q.token, now', owner')
    BY <1>2, <1>8, <2>2
  <2>9. req'[r] = q /\ \A k \in Requests \ {r} : req'[k] = req[k]
    BY <2>1 DEF AccessInv, AccessTypeOK
  <2>10. AccessTypeOK'
    BY <1>2, <1>6, <2>1, <2>2 DEF AccessInv, AccessTypeOK
  <2> QED
    BY <1>2, <1>6, <1>7, <2>6, <2>7, <2>8, <2>9, <2>10, OneRequest
<1>10. CASE Refuse(r)
  <2> DEFINE q == [req[r] EXCEPT !.phase = "refused"]
  <2>1. req' = [req EXCEPT ![r] = q]
    BY <1>10 DEF Refuse, To
  <2>2. /\ q \in Request /\ q.phase = "refused" /\ q.kind = "callback"
        /\ q.cookie = None /\ q.token = req[r].token /\ q.at = req[r].at /\ q.dead = req[r].dead
    BY <1>1 DEF Request
  <2> HIDE DEF q
  <2>3. RequestOK(q, session', now')
    BY <1>1, <1>2, <1>8, <2>2 DEF RequestOK
  <2>4. Sound(q, session') /\ Complete(q, session', now') /\ OutOK(q, tab)
    BY <2>2 DEF Sound, Complete, OutOK, Queries
  <2>5. req'[r] = q /\ \A k \in Requests \ {r} : req'[k] = req[k]
    BY <2>1 DEF AccessInv, AccessTypeOK
  <2>6. AccessTypeOK'
    BY <1>2, <1>6, <2>1, <2>2 DEF AccessInv, AccessTypeOK
  <2> QED
    BY <1>2, <1>6, <1>7, <1>8, <2>2, <2>3, <2>4, <2>5, <2>6, OneRequest
<1> QED
  BY <1>3, <1>9, <1>10

LEMMA DeleteInv ==
  ASSUME AccessInv, NEW r \in Requests, DeleteSession(r)
  PROVE  AccessInv'
<1>1. /\ req[r].phase = "delete" /\ req[r].kind = "logout" /\ req[r] \in Request
      /\ RequestOK(req[r], session, now) /\ TokenOK(req[r].token, now, owner)
  BY DEF DeleteSession, At, AccessInv, AccessTypeOK, RequestOK
<1>2. UNCHANGED <<now, owner, tab>> /\ now \in Nat
  BY DEF DeleteSession, AccessInv, AccessTypeOK
<1> DEFINE i == req[r].cookie
<1>3. session' = session \/ (i # None /\ session[i].state # "unused" /\ session' = [session EXCEPT ![i].state = "deleted"])
  BY DEF DeleteSession, Deleted, Row, Unused
<1>4. i \in Sessions \cup {None} /\ session \in [Sessions -> SessionRow]
  BY <1>1 DEF Request, AccessInv, AccessTypeOK
<1> HIDE DEF i
<1>5. /\ session' \in [Sessions -> SessionRow]
      /\ \A k \in Sessions : session'[k].user = session[k].user /\ session'[k].expires = session[k].expires
      /\ \A k \in Sessions : session[k].state # "unused" => session'[k].state # "unused"
      /\ \A k \in Sessions : session[k].state = "deleted" => session'[k].state = "deleted"
      /\ \A k \in Sessions : session'[k].state # "unused" => session[k].state # "unused"
  <2>1. CASE session' = session
    BY <1>4, <2>1
  <2>2. CASE i # None /\ session[i].state # "unused" /\ session' = [session EXCEPT ![i].state = "deleted"]
    <3> DEFINE row == [session[i] EXCEPT !.state = "deleted"]
    <3>1. i \in Sessions /\ session[i] \in SessionRow /\ session' = [session EXCEPT ![i] = row]
      BY <1>4, <2>2
    <3>2. row \in SessionRow /\ row.state = "deleted" /\ row.user = session[i].user /\ row.expires = session[i].expires
      BY <3>1 DEF SessionRow
    <3> HIDE DEF row
    <3>3. session' \in [Sessions -> SessionRow]
      BY <1>4, <3>1, <3>2
    <3>4. \A k \in Sessions : session'[k] = IF k = i THEN row ELSE session[k]
      BY <1>4, <3>1
    <3> QED
      BY <2>2, <3>2, <3>3, <3>4
  <2> QED
    BY <1>3, <2>1, <2>2
<1>6. Onwards
  BY <1>2, <1>5 DEF Onwards
<1> DEFINE q == [req[r] EXCEPT !.phase = "answer"]
<1>7. req' = [req EXCEPT ![r] = q]
  BY DEF DeleteSession, To
<1>8. /\ q \in Request /\ q.phase = "answer" /\ q.kind = "logout"
      /\ q.cookie = req[r].cookie /\ q.token = req[r].token /\ q.at = req[r].at /\ q.dead = req[r].dead
  BY <1>1 DEF Request
<1> HIDE DEF q
<1>9. Sound(q, session) /\ Complete(q, session, now) /\ OutOK(q, tab)
  BY <1>8 DEF Sound, Complete, OutOK, Queries
<1>10. RequestOK(q, session, now)
  BY <1>1, <1>8 DEF RequestOK
<1>11. req'[r] = q /\ \A k \in Requests \ {r} : req'[k] = req[k]
  BY <1>7 DEF AccessInv, AccessTypeOK
<1>12. AccessTypeOK'
  BY <1>2, <1>5, <1>7, <1>8 DEF AccessInv, AccessTypeOK
<1>13. RequestOK(q, session', now') /\ Sound(q, session') /\ Complete(q, session', now')
  BY <1>6, <1>8, <1>9, <1>10, <1>12, RequestStays DEF AccessInv
<1>14. \A k \in Sessions : session'[k].state # "unused" => session'[k].user \in Accounts
  <2>1. \A k \in Sessions : session[k].state # "unused" => session[k].user \in Accounts
    BY DEF AccessInv
  <2> QED
    BY <1>5, <2>1
<1> QED
  BY <1>1, <1>2, <1>6, <1>8, <1>9, <1>11, <1>12, <1>13, <1>14, OneRequest

LEMMA MiddlewareInv ==
  ASSUME AccessInv, UsersKnown, NEW r \in Requests, ReadSession(r) \/ CheckExpiry(r)
  PROVE  AccessInv'
<1>1. /\ req[r] \in Request /\ now \in Nat /\ UNCHANGED <<now, session, owner, tab>>
      /\ RequestOK(req[r], session, now) /\ TokenOK(req[r].token, now, owner) /\ OutOK(req[r], tab)
      /\ req[r].phase \in {"session", "expiry"}
  BY DEF ReadSession, CheckExpiry, At, AccessInv, AccessTypeOK
<1>2. req[r].kind \in Queries /\ req[r].who \in {Nobody, System} /\ req[r].cookie \in Sessions \cup {None}
  BY <1>1 DEF RequestOK, Request
<1>3. \A k \in Sessions : session[k] \in SessionRow /\ (session[k].state # "unused" => session[k].user \in Accounts)
  BY DEF AccessInv, AccessTypeOK
<1>4. ASSUME NEW failed \in BOOLEAN, Anonymous(r, failed),
             req[r].cookie # None /\ ~failed =>
               session[req[r].cookie].state = "deleted" \/ session[req[r].cookie].expires <= now
      PROVE  AccessInv'
  <2> DEFINE q == [req[r] EXCEPT !.phase = "resolve", !.failed = failed]
  <2>1. req' = [req EXCEPT ![r] = q]
    BY <1>4 DEF Anonymous, AccessInv, AccessTypeOK
  <2>2. /\ q \in Request /\ q.phase = "resolve" /\ q.kind = req[r].kind /\ q.who = req[r].who
        /\ q.cookie = req[r].cookie /\ q.token = req[r].token /\ q.page = req[r].page /\ q.at = req[r].at
        /\ q.dead = req[r].dead /\ q.failed = failed
    BY <1>1 DEF Request
  <2> HIDE DEF q
  <2>3. RequestOK(q, session, now)
    BY <1>1, <1>2, <2>2 DEF RequestOK
  <2>4. Sound(q, session)
    BY <1>2, <2>2, AccessNames DEF Sound
  <2>5. Complete(q, session, now)
    BY <1>4, <2>2 DEF Complete
  <2>6. TokenOK(q.token, now, owner) /\ OutOK(q, tab)
    BY <1>1, <2>2 DEF OutOK
  <2> QED
    BY <1>1, <2>1, <2>2, <2>3, <2>4, <2>5, <2>6, OnlyRequest
<1>5. CASE ReadSession(r)
  <2>1. CASE req[r].cookie # None /\ Anonymous(r, TRUE)
    BY <1>4, <2>1
  <2>2. CASE Row(req[r].cookie).state # "live" /\ Anonymous(r, FALSE)
    <3>1. req[r].cookie # None => session[req[r].cookie].state = "deleted"
      BY <1>1, <1>2, <1>3, <2>2 DEF Row, RequestOK, SessionRow
    <3> QED
      BY <1>4, <2>2, <3>1
  <2>3. CASE Row(req[r].cookie).state = "live" /\ To(r, "expiry")
    <3> DEFINE q == [req[r] EXCEPT !.phase = "expiry"]
    <3>1. req' = [req EXCEPT ![r] = q]
      BY <2>3 DEF To
    <3>2. /\ q \in Request /\ q.phase = "expiry" /\ q.kind = req[r].kind /\ q.who = req[r].who
          /\ q.cookie = req[r].cookie /\ q.token = req[r].token /\ q.page = req[r].page /\ q.at = req[r].at
          /\ q.dead = req[r].dead
      BY <1>1 DEF Request
    <3> HIDE DEF q
    <3>3. req[r].cookie # None /\ session[req[r].cookie].state = "live"
      BY <2>3 DEF Row, Unused
    <3>4. RequestOK(q, session, now)
      BY <1>1, <1>2, <3>2, <3>3 DEF RequestOK
    <3>5. Sound(q, session) /\ Complete(q, session, now) /\ OutOK(q, tab)
      BY <1>1, <3>2 DEF Sound, Complete, OutOK
    <3> QED
      BY <1>1, <3>1, <3>2, <3>4, <3>5, OnlyRequest
  <2> QED
    BY <1>5, <2>1, <2>2, <2>3 DEF ReadSession
<1>6. CASE CheckExpiry(r)
  <2>1. req[r].phase = "expiry" /\ req[r].cookie # None /\ ~req[r].dead
    BY <1>1, <1>6 DEF CheckExpiry, At, RequestOK
  <2>2. CASE Expired(req[r].cookie) /\ Anonymous(r, FALSE)
    BY <1>4, <2>2 DEF Expired
  <2>5. UserByID(session[req[r].cookie].user) = session[req[r].cookie].user
        /\ session[req[r].cookie].user \in Accounts
    BY <1>1, <1>2, <1>3, <2>1 DEF UserByID, UsersKnown, RequestOK
  <2>3. CASE Anonymous(r, TRUE)
    BY <1>4, <2>3
  <2>4. CASE /\ ~Expired(req[r].cookie)
             /\ req' = [req EXCEPT ![r].phase = "resolve", ![r].who = session[req[r].cookie].user]
    <3> DEFINE u == session[req[r].cookie].user
               q == [req[r] EXCEPT !.phase = "resolve", !.who = u]
    <3>1. req' = [req EXCEPT ![r] = q]
      BY <2>4 DEF AccessInv, AccessTypeOK
    <3>2. u \in Accounts /\ session[req[r].cookie].expires \in Nat
      BY <1>1, <1>2, <1>3, <2>1 DEF RequestOK, SessionRow
    <3> HIDE DEF u
    <3>3. /\ q \in Request /\ q.phase = "resolve" /\ q.kind = req[r].kind /\ q.who = u
          /\ q.cookie = req[r].cookie /\ q.token = req[r].token /\ q.page = req[r].page /\ q.at = req[r].at
          /\ q.dead = req[r].dead /\ q.at \in Nat
      BY <1>1, <3>2 DEF Request
    <3> HIDE DEF q
    <3>4. RequestOK(q, session, now)
      BY <1>1, <1>2, <3>3 DEF RequestOK
    <3>5. q.at < session[q.cookie].expires
      BY <1>1, <2>4, <3>2, <3>3, <3>4 DEF RequestOK, Expired
    <3>6. Sound(q, session)
      BY <2>1, <3>3, <3>5 DEF Sound, u
    <3>7. Complete(q, session, now)
      BY <3>2, <3>3, AccessNames DEF Complete
    <3>8. OutOK(q, tab) /\ TokenOK(q.token, now, owner)
      BY <1>1, <2>1, <3>3 DEF OutOK
    <3> QED
      BY <1>1, <3>1, <3>3, <3>4, <3>6, <3>7, <3>8, OnlyRequest
  <2> QED
    BY <1>6, <2>2, <2>3, <2>4, <2>5, AccessNames DEF CheckExpiry
<1> QED
  BY <1>5, <1>6

LEMMA ResolveInv ==
  ASSUME AccessInv, NEW r \in Requests, Resolve(r)
  PROVE  AccessInv'
<1>1. /\ req[r] \in Request /\ now \in Nat /\ UNCHANGED <<now, session, tab>>
      /\ RequestOK(req[r], session, now) /\ TokenOK(req[r].token, now, owner) /\ OutOK(req[r], tab)
      /\ Sound(req[r], session) /\ Complete(req[r], session, now)
      /\ req[r].phase = "resolve" /\ req[r].kind \in Queries
  BY DEF Resolve, At, AccessInv, AccessTypeOK, RequestOK
<1>2. CASE (To(r, "answer") \/ Refuse(r)) /\ UNCHANGED owner
  BY <1>1, <1>2, ToInv DEF Refuse, Queries
<1>3. CASE \E n \in Runs : /\ req[r].who # Nobody /\ owner[n] \in {Nobody, req[r].who}
                           /\ owner' = [owner EXCEPT ![n] = req[r].who]
                           /\ req' = [req EXCEPT ![r].phase = "answer", ![r].token = MintRunToken(n, req[r].who)]
  <2>1. PICK n \in Runs : /\ req[r].who # Nobody /\ owner[n] \in {Nobody, req[r].who}
                          /\ owner' = [owner EXCEPT ![n] = req[r].who]
                          /\ req' = [req EXCEPT ![r].phase = "answer", ![r].token = MintRunToken(n, req[r].who)]
    BY <1>3
  <2> DEFINE k == MintRunToken(n, req[r].who)
             q == [req[r] EXCEPT !.phase = "answer", !.token = k]
  <2>2. req' = [req EXCEPT ![r] = q]
    BY <2>1 DEF AccessInv, AccessTypeOK
  <2>3. req[r].who \in Accounts \cup {System}
    BY <1>1, <2>1 DEF Request
  <2>4. now + RunTokenTTL \in Nat
    BY <1>1, AccessTimes
  <2>5. WholeSeconds(now + RunTokenTTL) \in Int /\ WholeSeconds(now) \in Int
    BY <1>1, <2>4, WholeSecondsBelow
  <2>6. /\ k \in Token /\ k.exp = WholeSeconds(now + RunTokenTTL) /\ k.at = now /\ k.run = n
        /\ k.iat = WholeSeconds(now) /\ k.engine = EngineOf[n] /\ k.user = req[r].who
    BY <1>1, <2>3, <2>5, EngineNames DEF MintRunToken, Token
  <2> HIDE DEF k
  <2>7. /\ q \in Request /\ q.phase = "answer" /\ q.kind = req[r].kind /\ q.who = req[r].who
        /\ q.cookie = req[r].cookie /\ q.token = k /\ q.page = req[r].page /\ q.at = req[r].at
        /\ q.dead = req[r].dead /\ q.failed = req[r].failed
    BY <1>1, <2>6 DEF Request
  <2> HIDE DEF q
  <2>8. owner' \in [Runs -> Accounts \cup {Nobody, System}] /\ owner'[n] = req[r].who
        /\ \A m \in Runs : owner[m] # Nobody => owner'[m] = owner[m]
    BY <2>1, <2>3 DEF AccessInv, AccessTypeOK
  <2>9. Onwards
    BY <1>1, <2>8 DEF Onwards
  <2>10. RequestOK(q, session, now)
    BY <1>1, <2>7 DEF RequestOK, Queries
  <2>11. Sound(q, session) /\ Complete(q, session, now) /\ OutOK(q, tab)
    BY <1>1, <2>7 DEF Sound, Complete, OutOK
  <2>12. TokenOK(q.token, now', owner')
    BY <1>1, <2>6, <2>7, <2>8 DEF TokenOK
  <2>13. req'[r] = q /\ \A p \in Requests \ {r} : req'[p] = req[p]
    BY <2>2 DEF AccessInv, AccessTypeOK
  <2>14. AccessTypeOK'
    BY <1>1, <2>2, <2>7, <2>8 DEF AccessInv, AccessTypeOK
  <2>15. \A i \in Sessions : session'[i].state # "unused" => session'[i].user \in Accounts
    BY <1>1 DEF AccessInv
  <2> QED
    BY <1>1, <2>9, <2>10, <2>11, <2>12, <2>13, <2>14, <2>15, OneRequest
<1> QED
  BY <1>2, <1>3 DEF Resolve

\* A request that is over.
LEMMA DoneInv ==
  ASSUME AccessInv, NEW r \in Requests, Done(r), UNCHANGED <<now, session, owner, tab>>
  PROVE  AccessInv'
<1>1. req' = [req EXCEPT ![r] = Idle] /\ now \in Nat
  BY DEF Done, AccessInv, AccessTypeOK
<1>2. RequestOK(Idle, session, now) /\ TokenOK(Idle.token, now, owner)
  BY <1>1, IdleTyped DEF RequestOK, TokenOK
<1>3. Sound(Idle, session) /\ Complete(Idle, session, now) /\ OutOK(Idle, tab)
  BY IdleTyped DEF Sound, Complete, OutOK
<1> QED
  BY <1>1, <1>2, <1>3, IdleTyped, OnlyRequest

\* And one with which the cookie goes.
LEMMA DropInv ==
  ASSUME AccessInv, NEW r \in Requests, Done(r), UNCHANGED <<now, session, owner>>,
         tab' = [tab EXCEPT !.cookie = None]
  PROVE  AccessInv'
<1>1. /\ tab' \in Tab /\ tab'.cookie = None /\ tab'.viewer = tab.viewer /\ tab'.out = tab.out
      /\ tab'.token = tab.token
  BY DEF AccessInv, AccessTypeOK, Tab
<1>2. req' = [req EXCEPT ![r] = Idle] /\ now \in Nat
  BY DEF Done, AccessInv, AccessTypeOK
<1>3. AccessTypeOK'
  BY <1>1, <1>2, IdleTyped DEF AccessInv, AccessTypeOK
<1>4. ASSUME NEW q \in Requests
      PROVE  /\ RequestOK(req'[q], session, now) /\ TokenOK(req'[q].token, now, owner)
             /\ Sound(req'[q], session) /\ Complete(req'[q], session, now) /\ OutOK(req'[q], tab')
  <2>1. CASE q = r
    <3>1. req'[q] = Idle
      BY <1>2, <2>1 DEF AccessInv, AccessTypeOK
    <3>2. RequestOK(Idle, session, now) /\ TokenOK(Idle.token, now, owner)
      BY <1>2, IdleTyped DEF RequestOK, TokenOK
    <3>3. Sound(Idle, session) /\ Complete(Idle, session, now) /\ OutOK(Idle, tab')
      BY IdleTyped DEF Sound, Complete, OutOK
    <3> QED
      BY <3>1, <3>2, <3>3
  <2>2. CASE q # r
    <3>1. req'[q] = req[q]
      BY <1>2, <2>2 DEF AccessInv, AccessTypeOK
    <3> QED
      BY <1>1, <3>1 DEF AccessInv, OutOK
  <2> QED
    BY <2>1, <2>2
<1> QED
  BY <1>1, <1>3, <1>4 DEF AccessInv

\* A page load keeps what the server knows of the requests, and lets no query of the
\* old page show anything.
LEMMA LoadsInv ==
  ASSUME AccessInv, NEW r \in Requests, Loads(r), UNCHANGED <<now, session, owner>>,
         tab' \in Tab, tab'.token = tab.token, tab'.viewer = Nobody,
         tab'.cookie # None => session[tab'.cookie].state # "unused", tab'.out => tab'.cookie = None
  PROVE  AccessInv'
<1>1. \A q \in Requests : req[q] \in Request
  BY DEF AccessInv, AccessTypeOK
<1>2. ASSUME NEW q \in Requests
      PROVE  /\ req'[q] \in Request
             /\ RequestOK(req'[q], session, now) /\ TokenOK(req'[q].token, now, owner)
             /\ Sound(req'[q], session) /\ Complete(req'[q], session, now) /\ OutOK(req'[q], tab')
  <2>1. CASE q = r \/ At(q, "idle")
    <3>1. req'[q] = Idle /\ now \in Nat
      BY <2>1 DEF Loads, AccessInv, AccessTypeOK
    <3>2. RequestOK(Idle, session, now) /\ TokenOK(Idle.token, now, owner)
      BY <3>1, IdleTyped DEF RequestOK, TokenOK
    <3>3. Sound(Idle, session) /\ Complete(Idle, session, now) /\ OutOK(Idle, tab')
      BY IdleTyped DEF Sound, Complete, OutOK
    <3> QED
      BY <3>1, <3>2, <3>3, IdleTyped
  <2>2. CASE ~(q = r \/ At(q, "idle"))
    <3> DEFINE p == [req[q] EXCEPT !.page = FALSE]
    <3>1. req'[q] = p
      BY <2>2 DEF Loads
    <3>2. /\ p \in Request /\ p.phase = req[q].phase /\ p.kind = req[q].kind /\ p.who = req[q].who
          /\ p.cookie = req[q].cookie /\ p.token = req[q].token /\ p.page = FALSE /\ p.at = req[q].at
          /\ p.dead = req[q].dead /\ p.failed = req[q].failed
      BY <1>1 DEF Request
    <3> HIDE DEF p
    <3>3. RequestOK(p, session, now)
      BY <3>2 DEF RequestOK, AccessInv
    <3>4. Sound(p, session) /\ Complete(p, session, now)
      BY <3>2 DEF Sound, Complete, AccessInv
    <3>5. TokenOK(p.token, now, owner) /\ OutOK(p, tab')
      BY <3>2 DEF OutOK, AccessInv
    <3> QED
      BY <3>1, <3>2, <3>3, <3>4, <3>5
  <2> QED
    BY <2>1, <2>2
<1>3. req' \in [Requests -> Request]
  BY <1>2 DEF Loads
<1> QED
  BY <1>2, <1>3 DEF AccessInv, AccessTypeOK

LEMMA AnswerInv ==
  ASSUME AccessInv, NEW r \in Requests, Answer(r)
  PROVE  AccessInv'
<1>1. /\ req[r] \in Request /\ UNCHANGED <<now, session, owner>> /\ tab \in Tab
      /\ RequestOK(req[r], session, now) /\ TokenOK(req[r].token, now, owner) /\ OutOK(req[r], tab)
      /\ req[r].phase = "answer"
  BY DEF Answer, At, AccessInv, AccessTypeOK
<1>2. CASE CallbackAnswered(r)
  <2> DEFINE b == [tab EXCEPT !.cookie = req[r].cookie, !.viewer = Nobody, !.out = FALSE]
  <2>1. tab' = b /\ Loads(r) /\ req[r].kind = "callback"
    BY <1>2 DEF CallbackAnswered
  <2>2. b \in Tab /\ b.cookie = req[r].cookie /\ b.viewer = Nobody /\ b.out = FALSE /\ b.token = tab.token
    BY <1>1 DEF Tab, Request
  <2> HIDE DEF b
  <2>3. b.cookie # None => session[b.cookie].state # "unused"
    BY <1>1, <2>2 DEF RequestOK
  <2> QED
    BY <1>1, <2>1, <2>2, <2>3, LoadsInv
<1>3. CASE LogoutAnswered(r)
  <2> DEFINE b == [tab EXCEPT !.cookie = None, !.viewer = Nobody, !.out = TRUE]
  <2>1. tab' = b /\ Loads(r)
    BY <1>3 DEF LogoutAnswered
  <2>2. b \in Tab /\ b.cookie = None /\ b.viewer = Nobody /\ b.out = TRUE /\ b.token = tab.token
    BY <1>1 DEF Tab
  <2> HIDE DEF b
  <2> QED
    BY <1>1, <2>1, <2>2, LoadsInv
<1>4. CASE QueryAnswered(r)
  <2>1. Done(r)
    BY <1>4 DEF QueryAnswered
  <2>2. /\ tab' \in Tab /\ tab'.cookie = tab.cookie /\ tab'.out = tab.out
        /\ tab'.viewer = tab.viewer \/ (tab'.viewer = req[r].who /\ req[r].kind = "viewer" /\ req[r].page)
        /\ tab'.token \in {tab.token, req[r].token}
    <3>1. CASE tab' = tab
      BY <1>1, <3>1
    <3>2. CASE req[r].kind = "viewer" /\ req[r].page /\ tab' = [tab EXCEPT !.viewer = req[r].who]
      BY <1>1, <3>2 DEF Tab, Request
    <3>3. CASE tab' = [tab EXCEPT !.token = req[r].token]
      BY <1>1, <3>3 DEF Tab, Request
    <3> QED
      BY <1>4, <3>1, <3>2, <3>3 DEF QueryAnswered
  <2>3. req' = [req EXCEPT ![r] = Idle] /\ now \in Nat
    BY <2>1 DEF Done, AccessInv, AccessTypeOK
  <2>4. AccessTypeOK'
    BY <1>1, <2>2, <2>3, IdleTyped DEF AccessInv, AccessTypeOK
  <2>5. ASSUME NEW q \in Requests
        PROVE  /\ RequestOK(req'[q], session, now) /\ TokenOK(req'[q].token, now, owner)
               /\ Sound(req'[q], session) /\ Complete(req'[q], session, now) /\ OutOK(req'[q], tab')
    <3>1. CASE q = r
      <4>1. req'[q] = Idle
        BY <2>3, <3>1 DEF AccessInv, AccessTypeOK
      <4>2. RequestOK(Idle, session, now) /\ TokenOK(Idle.token, now, owner)
        BY <2>3, IdleTyped DEF RequestOK, TokenOK
      <4>3. Sound(Idle, session) /\ Complete(Idle, session, now) /\ OutOK(Idle, tab')
        BY IdleTyped DEF Sound, Complete, OutOK
      <4> QED
        BY <4>1, <4>2, <4>3
    <3>2. CASE q # r
      BY <2>2, <2>3, <3>2 DEF AccessInv, AccessTypeOK, OutOK
    <3> QED
      BY <3>1, <3>2
  <2>6. TokenOK(tab'.token, now, owner)
    BY <1>1, <2>2 DEF AccessInv
  <2>7. tab'.out => tab'.cookie = None /\ tab'.viewer = Nobody
    BY <1>1, <2>2 DEF AccessInv, OutOK
  <2> QED
    BY <1>1, <2>2, <2>4, <2>5, <2>6, <2>7 DEF AccessInv
<1> QED
  BY <1>2, <1>3, <1>4 DEF Answer

\* Time goes by.
LEMMA ClockInv ==
  ASSUME AccessInv, Clock
  PROVE  AccessInv'
<1>1. now \in Nat /\ now' = now + 1 /\ UNCHANGED <<session, owner, tab, req>>
  BY DEF Clock, AccessInv, AccessTypeOK
<1>2. AccessTypeOK' /\ Onwards
  BY <1>1 DEF AccessInv, AccessTypeOK, Onwards
<1>3. \A q \in Requests : req[q] \in Request /\ req[q].token \in Token \cup {None}
  BY DEF AccessInv, AccessTypeOK, Request
<1>4. ASSUME NEW q \in Requests
      PROVE  /\ RequestOK(req[q], session', now') /\ TokenOK(req[q].token, now', owner')
             /\ Sound(req[q], session') /\ Complete(req[q], session', now') /\ OutOK(req[q], tab)
  BY <1>2, <1>3, RequestStays, TokenStays DEF AccessInv
<1>5. TokenOK(tab.token, now', owner')
  BY <1>2, TokenStays DEF AccessInv, AccessTypeOK, Tab
<1> QED
  BY <1>1, <1>2, <1>4, <1>5 DEF AccessInv

LEMMA SendsInv ==
  ASSUME AccessInv, NEW r \in Requests, Sends(r)
  PROVE  AccessInv'
<1>1. ASSUME NEW a \in Accounts, SendCallback(r, a) PROVE AccessInv'
  BY <1>1, ArrivesInv DEF SendCallback, Queries
<1>2. CASE SendLogout(r)
  <2>1. PICK c \in {None, tab.cookie} : Arrives(r, "logout", Nobody, c)
    BY <1>2 DEF SendLogout, HeldCookies
  <2> QED
    BY <2>1, ArrivesInv DEF Queries
<1>3. ASSUME NEW kind \in {"viewer", "startRun", "publish"}, SendQuery(r, kind) PROVE AccessInv'
  <2>1. PICK c \in {None, tab.cookie} : Arrives(r, kind, Nobody, c)
    BY <1>3 DEF SendQuery, HeldCookies
  <2> QED
    BY <2>1, ArrivesInv DEF Queries
<1>4. CASE SendWithKey(r)
  BY <1>4, ArrivesInv DEF SendWithKey, Queries
<1> QED
  BY <1>1, <1>2, <1>3, <1>4 DEF Sends

\* No step forgets a user, and a session is made for one only after the upsert.
LEMMA KnownInv == AccessInv /\ UsersKnown /\ [AccessNext]_accessVars => UsersKnown'
<1> SUFFICES ASSUME AccessInv, UsersKnown, [AccessNext]_accessVars PROVE UsersKnown'
  OBVIOUS
<1>1. req \in [Requests -> Request] /\ session \in [Sessions -> SessionRow]
  BY DEF AccessInv, AccessTypeOK
<1>2. ASSUME UNCHANGED session, users \subseteq users',
             \A q \in Requests : req'[q].phase = "create" =>
               req'[q].who \in users' \/ (req[q].phase = "create" /\ req'[q].who = req[q].who)
      PROVE  UsersKnown'
  BY <1>2 DEF UsersKnown
<1>3. ASSUME NEW r \in Requests, NEW q, req' = [req EXCEPT ![r] = q], q.phase # "create",
             UNCHANGED <<users, session>>
      PROVE  UsersKnown'
  BY <1>1, <1>2, <1>3
<1>4. ASSUME NEW r \in Requests, NEW p, p # "create", To(r, p), UNCHANGED <<users, session>>
      PROVE  UsersKnown'
  <2>1. req' = [req EXCEPT ![r] = [req[r] EXCEPT !.phase = p]] /\ [req[r] EXCEPT !.phase = p].phase = p
    BY <1>1, <1>4 DEF To, Request
  <2> QED
    BY <1>3, <1>4, <2>1
<1>5. ASSUME NEW r \in Requests, Loads(r), UNCHANGED <<users, session>>
      PROVE  UsersKnown'
  <2>1. \A q \in Requests : req'[q] = Idle \/ (req'[q].phase = req[q].phase /\ req'[q].who = req[q].who)
    BY <1>1, <1>5 DEF Loads, Request
  <2> QED
    BY <1>2, <1>5, <2>1, IdleTyped
<1>6. ASSUME NEW r \in Requests, Done(r), UNCHANGED <<users, session>>
      PROVE  UsersKnown'
  BY <1>3, <1>6, IdleTyped DEF Done
<1>7. ASSUME NEW r \in Requests, Sends(r) PROVE UsersKnown'
  <2>1. ASSUME NEW kind, NEW who, NEW c, Arrives(r, kind, who, c) PROVE UsersKnown'
    <3> DEFINE p == CASE kind = "callback" -> "exchange" [] kind = "logout" -> "delete" [] OTHER -> "session"
               q == [Idle EXCEPT !.kind = kind, !.who = who, !.cookie = c, !.at = now,
                       !.phase = p, !.dead = Row(c).state = "deleted"]
    <3>1. p # "create"
      OBVIOUS
    <3> HIDE DEF p
    <3>2. q.phase = p
      BY DEF Idle
    <3>3. req' = [req EXCEPT ![r] = q] /\ UNCHANGED <<users, session>>
      BY <2>1 DEF Arrives, p
    <3> QED
      BY <1>3, <3>1, <3>2, <3>3
  <2> QED
    BY <1>7, <2>1 DEF Sends, SendCallback, SendLogout, SendQuery, SendWithKey
<1>8. ASSUME NEW r \in Requests, UpsertByGitHubID(r) PROVE UsersKnown'
  <2>1. \A q \in Requests : req'[q].phase = "create" => req'[q].who \in users' \/ req'[q] = req[q]
    BY <1>1, <1>8 DEF UpsertByGitHubID, Refuse, To, Request
  <2> QED
    BY <1>2, <1>8, <2>1 DEF UpsertByGitHubID
<1>9. ASSUME NEW r \in Requests, CreateSession(r) PROVE UsersKnown'
  <2>1. req[r].who \in users /\ users' = users
    BY <1>9 DEF CreateSession, At, UsersKnown
  <2>2. PICK i \in Sessions : NewSession(i, req[r].who) \/ UNCHANGED session
    BY <1>9 DEF CreateSession
  <2>3. \A k \in Sessions : session'[k].state # "unused" => session'[k].user \in users
    BY <1>1, <2>1, <2>2 DEF NewSession, UsersKnown
  <2>4. \A q \in Requests : req'[q].phase = "create" => req'[q] = req[q]
    BY <1>1, <1>9 DEF CreateSession, Refuse, To, Request
  <2> QED
    BY <2>1, <2>3, <2>4 DEF UsersKnown
<1>10. ASSUME NEW r \in Requests, DeleteSession(r) PROVE UsersKnown'
  <2>1. To(r, "answer") /\ users' = users /\ (Deleted(req[r].cookie) \/ UNCHANGED session)
    BY <1>10 DEF DeleteSession
  <2>2. \A q \in Requests : req'[q].phase = "create" => req'[q] = req[q]
    BY <1>1, <2>1 DEF To, Request
  <2>3. \A k \in Sessions : session'[k].user = session[k].user
                           /\ (session'[k].state # "unused" => session[k].state # "unused")
    BY <1>1, <2>1 DEF Deleted, Row, Unused, SessionRow
  <2> QED
    BY <2>1, <2>2, <2>3 DEF UsersKnown
<1>11. ASSUME NEW r \in Requests, ReadSession(r) \/ CheckExpiry(r) PROVE UsersKnown'
  <2>1. UNCHANGED <<users, session>>
    BY <1>11 DEF ReadSession, CheckExpiry
  <2>2. \A q \in Requests : req'[q].phase = "create" => req'[q] = req[q]
    BY <1>1, <1>11 DEF ReadSession, CheckExpiry, Anonymous, To, Request
  <2> QED
    BY <1>2, <2>1, <2>2
<1>12. ASSUME NEW r \in Requests, Resolve(r) PROVE UsersKnown'
  <2>1. UNCHANGED <<users, session>>
    BY <1>12 DEF Resolve
  <2>2. \A q \in Requests : req'[q].phase = "create" => req'[q] = req[q]
    BY <1>1, <1>12 DEF Resolve, Refuse, To, Request
  <2> QED
    BY <1>2, <2>1, <2>2
<1>13. ASSUME NEW r \in Requests, Answer(r) PROVE UsersKnown'
  BY <1>5, <1>6, <1>13 DEF Answer, CallbackAnswered, LogoutAnswered, QueryAnswered
<1>14. ASSUME NEW r \in Requests, Refused(r) \/ Lost(r) PROVE UsersKnown'
  BY <1>6, <1>14 DEF Refused, Lost
<1>15. ASSUME NEW r \in Requests, ExchangeCode(r) \/ GetUser(r) PROVE UsersKnown'
  BY <1>4, <1>15 DEF ExchangeCode, GetUser, Refuse
<1>16. CASE Clock \/ UNCHANGED accessVars
  BY <1>2, <1>16 DEF Clock, accessVars
<1> QED
  BY <1>7, <1>8, <1>9, <1>10, <1>11, <1>12, <1>13, <1>14, <1>15, <1>16 DEF AccessNext, Handles

LEMMA NextInv == AccessInv /\ UsersKnown /\ [AccessNext]_accessVars => AccessInv'
<1> SUFFICES ASSUME AccessInv, UsersKnown, [AccessNext]_accessVars PROVE AccessInv'
  OBVIOUS
<1>1. CASE Clock
  BY <1>1, ClockInv
<1>2. ASSUME NEW r \in Requests, Sends(r) \/ Handles(r) \/ Answer(r) \/ Refused(r) \/ Lost(r)
      PROVE  AccessInv'
  <2>1. CASE Handles(r)
    BY <2>1, CallbackInv, CreateInv, DeleteInv, MiddlewareInv, ResolveInv DEF Handles
  <2>2. CASE Refused(r) \/ Lost(r)
    <3>1. UNCHANGED <<now, session, owner>> /\ Done(r)
      BY <2>2 DEF Refused, Lost
    <3>2. UNCHANGED tab \/ tab' = [tab EXCEPT !.cookie = None]
      BY <2>2 DEF Refused, Lost
    <3> QED
      BY <3>1, <3>2, DoneInv, DropInv
  <2> QED
    BY <1>2, <2>1, <2>2, SendsInv, AnswerInv
<1>3. CASE UNCHANGED accessVars
  <2>1. UNCHANGED <<now, session, owner, tab, req>>
    BY <1>3 DEF accessVars
  <2> QED
    BY <2>1 DEF AccessInv, AccessTypeOK
<1> QED
  BY <1>1, <1>2, <1>3 DEF AccessNext

LEMMA AccessInvariant == AccessSpec => []AccessInv
<1>1. AccessInit => UsersKnown
  BY IdleTyped DEF AccessInit, UsersKnown, Unused
<1> QED
  BY <1>1, InvInit, NextInv, KnownInv, PTL DEF AccessSpec

\* SessionMiddleware and ValidateSession: a request acts for an account on a session of
\* that account alone, alive when it arrived, and is turned away only when that is over.
THEOREM AuthenticationIsExact == AccessSpec => []AuthIsExact
<1>1. AccessInv => AuthIsExact
  BY InvImplies
<1> QED
  BY <1>1, AccessInvariant, PTL

\* MintRunToken and VerifyRunToken: a token opens the run it was minted for, which stays
\* its user's, for at most its TTL, and for at least that less the second NumericDate drops.
THEOREM TokensLastTheirTTL == AccessSpec => []TokenLife
<1>1. AccessInv => TokenLife
  BY InvImplies
<1> QED
  BY <1>1, AccessInvariant, PTL

\* handleLogout: once its response has arrived, no answer to an earlier viewer query
\* brings the user back on the page.
THEOREM LogoutIsShown == AccessSpec => []LoggedOutIsShown
<1>1. AccessInv => LoggedOutIsShown
  BY InvImplies
<1> QED
  BY <1>1, AccessInvariant, PTL
=============================================================================

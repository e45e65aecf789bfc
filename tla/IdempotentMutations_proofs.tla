--------------------- MODULE IdempotentMutations_proofs ---------------------
(***************************************************************************)
(* Proofs about IdempotentMutations: one answer for one request id, the    *)
(* right run, an activated version; and, as long as nothing fails, one run *)
(* for one request id and an owner for every reservation.                  *)
(***************************************************************************)
EXTENDS IdempotentMutations, FiniteSetTheorems, TLAPS

Holding == {"create", "check", "insert", "activate", "store", "release"}
Looking == {"lookup", "reserve", "lookupAgain"}
Phases == {"new", "answer", "done"} \cup Looking \cup Holding
Replies == {"none", "ok", "error", "invalid", "notFound", "conflict", "inProgress", "lost"}

Versions == Int \cup {NoVersion}
Answers == ({"run"} \X Nat) \cup ({"version"} \X Rooms \X Int)
Call == [pc : Phases, req : Requests \cup {Null}, version : Versions,
         result : Answers \cup {Null}, reply : Replies]
Run == [key : {Key(r) : r \in Requests}, user : {r.user : r \in Requests}, of : Rooms \X Versions]

Harm == [faults : Nat, crashes : Nat, lateStore : BOOLEAN]

\* What the database d is made of.
DatabaseOK(d) ==
  /\ DOMAIN d = {"wasActive", "keys", "runs", "versions", "active"}
  /\ \A k \in DOMAIN d.keys : /\ DOMAIN d.keys[k] = {"fp", "body"}
                              /\ d.keys[k].body \in Answers \cup {Null}
  /\ d.runs \in Seq(Run)
  /\ d.active \in [Rooms -> Versions]
  /\ \A r \in Rooms : <<r, d.active[r]>> \in d.wasActive

\* A request whose input was read.
Fit(r) == r \in Requests /\ (r.op = "publish" => r.version \in Int /\ r.activate \in BOOLEAN)

MutTypeOK ==
  /\ DatabaseOK(db)
  /\ call \in [Calls -> Call]
  /\ \A x \in orphans : /\ x \in Call /\ x.pc \in Holding \cup {"reserve"}
                       /\ Fit(x.req) /\ (x.pc = "activate" => x.req.op = "publish")
  /\ harm \in Harm

-----------------------------------------------------------------------------
\* a is a run of d that was started for r.
RunOf(r, a, d) ==
  \E i \in DOMAIN d.runs :
    /\ a = RunID(i)
    /\ d.runs[i].key = Key(r) /\ d.runs[i].user = r.user
    /\ d.runs[i].of[1] = r.room /\ d.runs[i].of \in d.wasActive

\* Where call x stands, in the database d.
StageOK(x, d) ==
  /\ x.pc \in Looking \cup Holding \cup {"answer"} => Fit(x.req)
  /\ x.pc = "new" => x.req = Null
  /\ x.pc = "done" => x.req \in Requests
  /\ x.reply = "ok" => x.pc = "done"
  /\ x.pc \in Looking => x.result = Null
  /\ x.pc = "create" => x.req.op = "startRun"
  /\ x.pc \in {"check", "insert", "activate"} => x.req.op = "publish"
  /\ x.pc \in Looking \cup {"create"} /\ x.req.op = "startRun" =>
       <<x.req.room, x.version>> \in d.wasActive
  /\ x.pc \in {"activate", "store"} => x.result # Null
  /\ x.pc = "store" /\ x.req.op = "startRun" => RunOf(x.req, x.result, d)
  /\ x.pc = "store" /\ x.req.op = "publish" /\ x.req.activate # FALSE =>
       <<x.req.room, x.req.version>> \in d.wasActive

\* The row of request r is a reservation of it, or the answer a to it.
RowIs(r, a, d) ==
  /\ Key(r) \in DOMAIN d.keys
  /\ d.keys[Key(r)].fp = Fingerprint(r)
  /\ d.keys[Key(r)].body = a

\* A call that holds a reservation; its DELETE may outlive it.
Holds(x) == x.pc \in Holding

HoldersOK ==
  /\ \A c \in Calls : Holds(call[c]) => RowIs(call[c].req, Null, db)
  /\ \A x \in orphans : x.pc # "store" /\ (x.pc = "release" => RowIs(x.req, Null, db))

\* A key has one holder.
OneHolder ==
  /\ \A c, d \in Calls :
       Holds(call[c]) /\ Holds(call[d]) /\ Key(call[c].req) = Key(call[d].req) => c = d
  /\ \A c \in Calls, x \in orphans :
       Holds(call[c]) /\ x.pc = "release" => Key(call[c].req) # Key(x.req)
  /\ \A x, y \in orphans :
       x.pc = "release" /\ y.pc = "release" /\ Key(x.req) = Key(y.req) => x = y

AnswersOK ==
  \A c \in Calls : call[c].pc = "answer" \/ call[c].reply = "ok" =>
    call[c].result # Null /\ RowIs(call[c].req, call[c].result, db)

\* What a stored response answers.
ActivatedOrNot(r, d) ==
  \/ <<r.room, r.version>> \in d.wasActive
  \/ \E c \in Calls : Asks(c, Key(r)) /\ call[c].req.activate = FALSE

RowsOK ==
  \A r \in Requests : \A a \in Answers : RowIs(r, a, db) =>
    /\ r.op = "startRun" => RunOf(r, a, db)
    /\ r.op = "publish" => ActivatedOrNot(r, db)

\* While nothing fails.
OwnersOK ==
  /\ orphans = {} /\ ~harm.lateStore
  /\ \A k \in DOMAIN db.keys : db.keys[k].body = Null =>
       \E c \in Calls : Holds(call[c]) /\ Key(call[c].req) = k
  /\ \A i \in DOMAIN db.runs : LET k == db.runs[i].key IN
       /\ k \in DOMAIN db.keys
       /\ \/ db.keys[k].body = RunID(i)
          \/ \E c \in Calls : call[c].pc = "store" /\ Key(call[c].req) = k /\ call[c].result = RunID(i)

MutInv ==
  /\ MutTypeOK
  /\ \A c \in Calls : StageOK(call[c], db)
  /\ ~harm.lateStore => HoldersOK /\ OneHolder /\ AnswersOK /\ RowsOK
  /\ Unharmed => OwnersOK

-----------------------------------------------------------------------------
\* Requests with one key are for the same mutation and, to start a run, of one user.
LEMMA KeyFacts ==
  ASSUME NEW r \in Requests, NEW q \in Requests, Key(r) = Key(q)
  PROVE  r.op = q.op /\ (r.op = "startRun" => r.user = q.user)
  BY RequestsAssumption DEF Key

\* Requests with one fingerprint ask for the same room and version.
LEMMA FingerprintFacts ==
  ASSUME NEW r \in Requests, NEW q \in Requests, r.op = q.op, Fingerprint(r) = Fingerprint(q)
  PROVE  r.room = q.room /\ (r.op = "publish" => r.version = q.version)
  BY RequestsAssumption DEF Fingerprint

\* A mutation without a result is answered with an error.
LEMMA NothingIsAnError ==
  ASSUME NEW op \in {"startRun", "publish"}
  PROVE  Mutation(op, Null) = Null
<1>1. CASE op = "startRun"
  <2>1. StartRunPayload(Null) = Null
    BY DEF StartRunPayload, NonNull
  <2> QED BY <1>1, <2>1 DEF Mutation
<1>2. CASE op = "publish"
  <2>1. PublishRoomVersionPayload(Null) = Null
    BY DEF PublishRoomVersionPayload, RoomVersion, NonNull
  <2> QED BY <1>2, <2>1 DEF Mutation
<1> QED BY <1>1, <1>2

\* What answering does to a call.
LEMMA RespondedFacts ==
  ASSUME NEW x \in Call, x.req \in Requests
  PROVE  /\ Responded(x) \in Call
         /\ Responded(x).pc = "done"
         /\ Responded(x).req = x.req /\ Responded(x).result = x.result
         /\ Responded(x).reply = "ok" => x.result # Null
<1>1. x.req.op \in {"startRun", "publish"}
  BY RequestsAssumption
<1> QED BY <1>1, NothingIsAnError DEF Responded, Replied, Call, Phases, Replies, Looking, Holding

-----------------------------------------------------------------------------
\* The database e comes after d: no run and no activation was taken back.
Later(d, e) ==
  /\ d.wasActive \subseteq e.wasActive
  /\ \A i \in DOMAIN d.runs : i \in DOMAIN e.runs /\ e.runs[i] = d.runs[i]

LEMMA RunOfLater ==
  ASSUME NEW d, NEW e, Later(d, e), NEW r, NEW a, RunOf(r, a, d)
  PROVE  RunOf(r, a, e)
  BY DEF RunOf, Later

LEMMA StageLater ==
  ASSUME NEW d, NEW e, Later(d, e), NEW x, StageOK(x, d)
  PROVE  StageOK(x, e)
<1>1. d.wasActive \subseteq e.wasActive
  BY DEF Later
<1> QED BY <1>1, RunOfLater DEF StageOK

\* What INSERT ... ON CONFLICT DO NOTHING does.
LEMMA ReservedFacts ==
  ASSUME NEW d, DatabaseOK(d), NEW k, NEW fp
  PROVE  LET e == Reserved(d, k, fp) IN
         /\ DatabaseOK(e) /\ Later(d, e) /\ e.runs = d.runs
         /\ DOMAIN e.keys = DOMAIN d.keys \cup {k}
         /\ \A i \in DOMAIN d.keys : e.keys[i] = d.keys[i]
         /\ k \notin DOMAIN d.keys => e.keys[k] = [fp |-> fp, body |-> Null]
  BY DEF DatabaseOK, Later, Reserved

\* What the UPDATE of the response does.
LEMMA StoredFacts ==
  ASSUME NEW d, DatabaseOK(d), NEW k, NEW a \in Answers \cup {Null}
  PROVE  LET e == Stored(d, k, a) IN
         /\ DatabaseOK(e) /\ Later(d, e) /\ e.runs = d.runs
         /\ DOMAIN e.keys = DOMAIN d.keys
         /\ \A i \in DOMAIN d.keys : /\ e.keys[i].fp = d.keys[i].fp
                                     /\ i # k => e.keys[i].body = d.keys[i].body
         /\ k \in DOMAIN d.keys => e.keys[k].body = a
  BY DEF DatabaseOK, Later, Stored

\* What the DELETE of a reservation does.
LEMMA DeletedFacts ==
  ASSUME NEW d, DatabaseOK(d), NEW k
  PROVE  LET e == Deleted(d, k) IN
         /\ DatabaseOK(e) /\ Later(d, e) /\ e.runs = d.runs
         /\ \A i \in DOMAIN e.keys : i \in DOMAIN d.keys /\ e.keys[i] = d.keys[i]
         /\ \A i \in DOMAIN d.keys : i # k \/ d.keys[i].body # Null => i \in DOMAIN e.keys
         /\ k \in DOMAIN e.keys => e.keys[k].body # Null
  BY DEF DatabaseOK, Later, Deleted

\* What CreateRun does.
LEMMA RunCreatedFacts ==
  ASSUME NEW d, DatabaseOK(d), NEW r \in Requests, NEW v \in Versions
  PROVE  LET e == RunCreated(d, r, v)
             n == Len(d.runs) + 1 IN
         /\ DatabaseOK(e) /\ Later(d, e) /\ e.keys = d.keys /\ e.wasActive = d.wasActive
         /\ n \in Nat /\ n \notin DOMAIN d.runs
         /\ DOMAIN e.runs = DOMAIN d.runs \cup {n}
         /\ e.runs[n] = [key |-> Key(r), user |-> r.user, of |-> <<r.room, v>>]
<1> DEFINE new == [key |-> Key(r), user |-> r.user, of |-> <<r.room, v>>]
<1>1. new \in Run
  BY RequestsAssumption DEF Run
<1>2. d.runs \in Seq(Run)
  BY DEF DatabaseOK
<1>3. /\ Append(d.runs, new) \in Seq(Run)
      /\ Len(d.runs) + 1 \in Nat /\ Len(d.runs) + 1 \notin DOMAIN d.runs
      /\ DOMAIN Append(d.runs, new) = DOMAIN d.runs \cup {Len(d.runs) + 1}
      /\ Append(d.runs, new)[Len(d.runs) + 1] = new
      /\ \A i \in DOMAIN d.runs : Append(d.runs, new)[i] = d.runs[i]
  BY <1>1, <1>2
<1> HIDE DEF new
<1>4. RunCreated(d, r, v) = [d EXCEPT !.runs = Append(@, new)]
  BY DEF RunCreated, new
<1> QED BY <1>3, <1>4 DEF DatabaseOK, Later, new

\* The other statements of publishRoomVersion.
LEMMA PublishedFacts ==
  ASSUME NEW d, DatabaseOK(d), NEW r \in Requests, r.op = "publish", r.version \in Int
  PROVE  LET e == [d EXCEPT !.versions = @ \cup {<<r.room, r.version>>}]
             f == [d EXCEPT !.active[r.room] = r.version,
                            !.wasActive = @ \cup {<<r.room, r.version>>}] IN
         /\ DatabaseOK(e) /\ Later(d, e) /\ e.keys = d.keys /\ e.runs = d.runs
         /\ DatabaseOK(f) /\ Later(d, f) /\ f.keys = d.keys /\ f.runs = d.runs
         /\ <<r.room, r.version>> \in f.wasActive
<1>1. r.room \in Rooms
  BY RequestsAssumption
<1> QED BY <1>1 DEF DatabaseOK, Later, Versions

-----------------------------------------------------------------------------
LEMMA MutInvInit == MutInit => MutInv
<1> SUFFICES ASSUME MutInit PROVE MutInv
  OBVIOUS
<1>1. MutTypeOK
  <2>1. DatabaseOK(db)
    BY PublishedAssumption DEF MutInit, DatabaseOK, Versions
  <2>2. NewCall \in Call
    BY DEF NewCall, Call, Phases, Replies, Versions
  <2> QED BY <2>1, <2>2 DEF MutInit, MutTypeOK, Harm
<1>2. \A c \in Calls : StageOK(call[c], db) /\ call[c].pc = "new" /\ call[c].reply = "none"
  BY DEF MutInit, StageOK, NewCall, Looking, Holding
<1>3. DOMAIN db.keys = {} /\ DOMAIN db.runs = {} /\ orphans = {} /\ ~harm.lateStore
  BY DEF MutInit
<1>4. HoldersOK /\ OneHolder /\ AnswersOK /\ RowsOK /\ OwnersOK
  BY <1>2, <1>3 DEF HoldersOK, OneHolder, AnswersOK, RowsOK, OwnersOK, RowIs, Holds, Holding
<1> QED BY <1>1, <1>2, <1>4 DEF MutInv

\* Rows that stay, and runs and activations that are only added to, keep what the
\* stored responses answer; so does a call that keeps its request.
LEMMA RowsKept ==
  ASSUME RowsOK, Later(db, db'),
         \A i \in DOMAIN db'.keys :
           \/ i \in DOMAIN db.keys /\ db'.keys[i] = db.keys[i]
           \/ db'.keys[i].body = Null,
         \A d \in Calls : call[d].req # Null => call'[d].req = call[d].req
  PROVE  RowsOK'
<1> SUFFICES ASSUME NEW q \in Requests, NEW a \in Answers, RowIs(q, a, db')
             PROVE  /\ q.op = "startRun" => RunOf(q, a, db')
                    /\ q.op = "publish" => ActivatedOrNot(q, db)'
  BY DEF RowsOK, ActivatedOrNot, Asks
<1>1. RowIs(q, a, db)
  BY NullAssumption DEF RowIs, Answers
<1>2. /\ q.op = "startRun" => RunOf(q, a, db)
      /\ q.op = "publish" => ActivatedOrNot(q, db)
  BY <1>1 DEF RowsOK
<1>3. ActivatedOrNot(q, db) => ActivatedOrNot(q, db)'
  BY DEF ActivatedOrNot, Asks, Later
<1> QED BY <1>2, <1>3, RunOfLater

\* A step of call c that changes no row of idempotency_keys.
LEMMA CallStep ==
  ASSUME MutInv, NEW c \in Calls, NEW y \in Call, NEW e,
         call' = [call EXCEPT ![c] = y], db' = e, UNCHANGED <<orphans, harm>>,
         DatabaseOK(e), Later(db, e),
         DOMAIN e.keys = DOMAIN db.keys, \A k \in DOMAIN db.keys : e.keys[k] = db.keys[k],
         StageOK(y, e),
         call[c].req # Null => y.req = call[c].req,
         Holds(call[c]) <=> Holds(y), call[c].pc # "store",
         ~harm.lateStore /\ (y.pc = "answer" \/ y.reply = "ok") =>
           y.result # Null /\ RowIs(y.req, y.result, db),
         \A i \in DOMAIN e.runs :
           \/ i \in DOMAIN db.runs
           \/ Holds(y) /\ y.pc = "store" /\ e.runs[i].key = Key(y.req) /\ y.result = RunID(i)
  PROVE  MutInv'
<1>1. /\ call \in [Calls -> Call] /\ call' \in [Calls -> Call] /\ call'[c] = y
      /\ \A d \in Calls : d # c => call'[d] = call[d]
  BY DEF MutInv, MutTypeOK
<1>2. MutTypeOK'
  BY <1>1 DEF MutInv, MutTypeOK
<1>3. ASSUME NEW d \in Calls PROVE StageOK(call'[d], db')
  BY <1>1, StageLater DEF MutInv
<1>4. \A r, a : RowIs(r, a, db') <=> RowIs(r, a, db)
  BY DEF RowIs
<1>5. ASSUME ~harm.lateStore PROVE (HoldersOK /\ OneHolder /\ AnswersOK /\ RowsOK)'
  <2>1. HoldersOK /\ OneHolder /\ AnswersOK /\ RowsOK
    BY <1>5 DEF MutInv
  <2>2. \A d \in Calls : /\ Holds(call'[d]) <=> Holds(call[d])
                         /\ Holds(call[d]) => call'[d].req = call[d].req
    <3>1. Holds(call[c]) => call[c].req # Null
      BY NullAssumption DEF MutInv, StageOK, Holds, Fit
    <3> QED BY <1>1, <3>1
  <2>3. HoldersOK'
    BY <1>4, <2>1, <2>2 DEF HoldersOK
  <2>4. OneHolder'
    BY <2>1, <2>2 DEF OneHolder
  <2>5. AnswersOK'
    BY <1>1, <1>4, <1>5, <2>1 DEF AnswersOK
  <2>6. RowsOK'
    BY <1>1, <2>1, RowsKept
  <2> QED BY <2>3, <2>4, <2>5, <2>6
<1>6. ASSUME Unharmed PROVE OwnersOK'
  <2>1. OwnersOK /\ HoldersOK
    BY <1>6 DEF MutInv, OwnersOK
  <2>2. orphans' = {} /\ ~harm'.lateStore
    BY <2>1 DEF OwnersOK
  <2>3. \A d \in Calls : Holds(call[d]) => Holds(call'[d]) /\ call'[d].req = call[d].req
    BY <1>1, NullAssumption DEF MutInv, StageOK, Holds, Fit
  <2>4. \A k \in DOMAIN db'.keys : db'.keys[k].body = Null =>
          \E d \in Calls : Holds(call'[d]) /\ Key(call'[d].req) = k
    BY <2>1, <2>3 DEF OwnersOK
  <2>5. ASSUME NEW i \in DOMAIN db'.runs
        PROVE  LET k == db'.runs[i].key IN
               /\ k \in DOMAIN db'.keys
               /\ \/ db'.keys[k].body = RunID(i)
                  \/ \E d \in Calls : /\ call'[d].pc = "store" /\ Key(call'[d].req) = k
                                      /\ call'[d].result = RunID(i)
    <3>1. CASE i \in DOMAIN db.runs
      <4>1. db'.runs[i] = db.runs[i]
        BY <3>1 DEF Later
      <4>2. \A d \in Calls : call[d].pc = "store" => d # c /\ call'[d] = call[d]
        BY <1>1
      <4> QED BY <2>1, <3>1, <4>1, <4>2 DEF OwnersOK
    <3>2. CASE Holds(y) /\ y.pc = "store" /\ e.runs[i].key = Key(y.req) /\ y.result = RunID(i)
      <4>1. RowIs(call[c].req, Null, db) /\ y.req = call[c].req
        BY <1>1, <2>1, <2>3, <3>2 DEF HoldersOK
      <4> QED BY <1>1, <3>2, <4>1 DEF RowIs
    <3> QED BY <3>1, <3>2
  <2> QED BY <2>2, <2>4, <2>5 DEF OwnersOK
<1> QED BY <1>2, <1>3, <1>5, <1>6 DEF MutInv, Unharmed

\* The same for a step that leaves the database alone.
LEMMA ReadStep ==
  ASSUME MutInv, NEW c \in Calls, NEW y \in Call, Reads(c, y), StageOK(y, db),
         call[c].req # Null => y.req = call[c].req,
         Holds(call[c]) <=> Holds(y), call[c].pc # "store",
         ~harm.lateStore /\ (y.pc = "answer" \/ y.reply = "ok") =>
           y.result # Null /\ RowIs(y.req, y.result, db)
  PROVE  MutInv'
<1>1. DatabaseOK(db) /\ Later(db, db)
  BY DEF MutInv, MutTypeOK, Later
<1>2. call' = [call EXCEPT ![c] = y] /\ db' = db /\ UNCHANGED <<orphans, harm>>
  BY DEF Reads, Becomes
<1> QED BY <1>1, <1>2, CallStep

LEMMA AskStep ==
  ASSUME MutInv, NEW c \in Calls, NEW r \in Requests, Ask(c, r)
  PROVE  MutInv'
<1> DEFINE x == [NewCall EXCEPT !.req = r, !.version = IF r.op = "startRun" THEN db.active[r.room] ELSE @]
           y == IF ~Unmarshals(r) THEN Replied(x, "invalid")
                ELSE IF NoActive(r) THEN Replied(x, "notFound")
                ELSE IF ~Valid(r) THEN Replied(x, "invalid")
                ELSE At(x, "lookup")
<1>1. call[c].pc = "new" /\ Reads(c, y)
  BY DEF Ask
<1>2. r.room \in Rooms /\ r # Null
  BY RequestsAssumption, NullAssumption
<1>3. db.active \in [Rooms -> Versions] /\ <<r.room, db.active[r.room]>> \in db.wasActive
  BY <1>2 DEF MutInv, MutTypeOK, DatabaseOK
<1>4. /\ x \in Call /\ x.req = r /\ x.result = Null /\ x.reply = "none"
      /\ r.op = "startRun" => x.version = db.active[r.room]
  BY <1>2, <1>3 DEF NewCall, Call, Phases, Replies, Versions
<1>5. Unmarshals(r) => Fit(r)
  BY RequestsAssumption DEF Unmarshals, PublishRoomVersionInput, Fit
<1>6. \/ y = Replied(x, "invalid") \/ y = Replied(x, "notFound")
      \/ (y = At(x, "lookup") /\ Fit(r))
  BY <1>5
<1> HIDE DEF x, y
<1>7. /\ y \in Call /\ y.req = r /\ y.result = Null /\ y.reply # "ok"
      /\ y.version = x.version /\ (y.pc = "done" \/ (y.pc = "lookup" /\ Fit(r)))
  <2>1. ASSUME NEW reply \in {"invalid", "notFound"}, y = Replied(x, reply)
        PROVE  /\ y \in Call /\ y.req = r /\ y.result = Null /\ y.reply = reply
               /\ y.version = x.version /\ y.pc = "done"
    BY <1>4, <2>1 DEF Replied, Call, Phases, Replies
  <2>2. ASSUME y = At(x, "lookup")
        PROVE  /\ y \in Call /\ y.req = r /\ y.result = Null /\ y.reply = "none"
               /\ y.version = x.version /\ y.pc = "lookup"
    BY <1>4, <2>2 DEF At, Call, Phases, Looking
  <2> QED BY <1>6, <2>1, <2>2
<1>8. StageOK(y, db)
  BY <1>2, <1>3, <1>4, <1>7 DEF StageOK, Looking, Holding
<1>9. call[c].req = Null
  BY <1>1 DEF MutInv, StageOK
<1> QED BY <1>1, <1>7, <1>8, <1>9, ReadStep DEF Holds, Holding

\* A call that found the row of its key, and what becomes of it.
FoundOK(x, y) ==
  /\ y \in Call /\ y.req = x.req /\ StageOK(y, db) /\ ~Holds(y) /\ y.reply # "ok"
  /\ y.pc = "answer" => y.result # Null /\ RowIs(y.req, y.result, db)

LEMMA LookedUpFacts ==
  ASSUME MutInv, NEW x \in Call, x.pc \in Looking, StageOK(x, db), NEW absent
  PROVE  \/ LookedUp(x, absent) = absent
         \/ FoundOK(x, LookedUp(x, absent))
<1> DEFINE k == Key(x.req)
           y == LookedUp(x, absent)
<1>1. Fit(x.req) /\ x.result = Null /\ x.reply # "ok" /\ x.req \in Requests
  BY DEF StageOK, Looking, Fit
<1>2. ASSUME NEW reply \in {"conflict", "inProgress"}, y = Replied(x, reply)
      PROVE  FoundOK(x, y)
  <2>1. /\ y \in Call /\ y.req = x.req /\ y.pc = "done" /\ y.reply = reply
    BY <1>2 DEF Replied, Call, Phases, Replies
  <2> QED BY <1>1, <2>1 DEF FoundOK, StageOK, Holds, Holding, Looking
<1>3. ASSUME k \in DOMAIN db.keys, db.keys[k].fp = Fingerprint(x.req), db.keys[k].body # Null,
             y = [x EXCEPT !.result = db.keys[k].body, !.pc = "answer"]
      PROVE  FoundOK(x, y)
  <2>1. db.keys[k].body \in Answers
    BY <1>3 DEF MutInv, MutTypeOK, DatabaseOK
  <2>2. /\ y \in Call /\ y.req = x.req /\ y.pc = "answer" /\ y.reply = x.reply
        /\ y.result = db.keys[k].body
    BY <1>3, <2>1 DEF Call, Phases
  <2>3. RowIs(y.req, y.result, db)
    BY <1>3, <2>2 DEF RowIs
  <2> QED BY <1>1, <1>3, <2>2, <2>3 DEF FoundOK, StageOK, Holds, Holding, Looking
<1> QED BY <1>2, <1>3 DEF LookedUp

LEMMA FoundStep ==
  ASSUME MutInv, NEW c \in Calls, NEW y, Reads(c, y), FoundOK(call[c], y), call[c].pc \in Looking
  PROVE  MutInv'
<1>1. call[c].pc # "store" /\ ~Holds(call[c])
  BY DEF Looking, Holds, Holding
<1> QED BY <1>1, ReadStep DEF FoundOK

LEMMA LookupStep ==
  ASSUME MutInv, NEW c \in Calls, Lookup(c)
  PROVE  MutInv'
<1> DEFINE x == call[c]
           absent == At(x, "reserve")
           y == LookedUp(x, absent)
<1>1. /\ x \in Call /\ StageOK(x, db) /\ x.pc = "lookup" /\ x.pc \in Looking
      /\ Reads(c, y)
  BY DEF Lookup, MutInv, MutTypeOK, Looking
<1>2. CASE FoundOK(x, y)
  BY <1>1, <1>2, FoundStep
<1>3. CASE y = absent
  <2>1. y \in Call /\ y.pc = "reserve" /\ \A f \in {"req", "version", "result", "reply"} : y[f] = x[f]
    BY <1>1, <1>3 DEF At, Call, Phases, Looking
  <2>2. StageOK(y, db) /\ y.reply # "ok"
    BY <1>1, <2>1 DEF StageOK, Looking, Holding
  <2> HIDE DEF y
  <2> QED BY <1>1, <2>1, <2>2, ReadStep DEF Holds, Holding
<1> QED BY <1>1, <1>2, <1>3, LookedUpFacts

LEMMA LookupAgainStep ==
  ASSUME MutInv, NEW c \in Calls, LookupAgain(c)
  PROVE  MutInv'
<1> DEFINE x == call[c]
           absent == IF x.req.op = "startRun" THEN Replied(x, "inProgress") ELSE Responded(x)
           y == LookedUp(x, absent)
<1>1. /\ x \in Call /\ StageOK(x, db) /\ x.pc = "lookupAgain" /\ x.pc \in Looking
      /\ Reads(c, y)
  BY DEF LookupAgain, MutInv, MutTypeOK, Looking
<1>2. CASE FoundOK(x, y)
  BY <1>1, <1>2, FoundStep
<1>3. CASE y = absent
  <2>1. x.req \in Requests /\ x.result = Null
    BY <1>1 DEF StageOK, Fit
  <2>2. y \in Call /\ y.pc = "done" /\ y.req = x.req /\ y.reply # "ok"
    <3>1. CASE y = Replied(x, "inProgress")
      BY <1>1, <3>1 DEF Replied, Call, Phases, Replies
    <3>2. CASE y = Responded(x)
      BY <1>1, <2>1, <3>2, RespondedFacts
    <3> QED BY <1>3, <3>1, <3>2
  <2>3. StageOK(y, db)
    BY <2>1, <2>2 DEF StageOK, Looking, Holding
  <2> HIDE DEF y
  <2> QED BY <1>1, <2>2, <2>3, ReadStep DEF Holds, Holding
<1> QED BY <1>1, <1>2, <1>3, LookedUpFacts

LEMMA AnswerStep ==
  ASSUME MutInv, NEW c \in Calls, Answer(c)
  PROVE  MutInv'
<1>1. call[c].pc = "answer" /\ call[c] \in Call /\ StageOK(call[c], db) /\ call[c].req \in Requests
  BY DEF Answer, MutInv, MutTypeOK, StageOK, Fit
<1>2. PICK y : Reads(c, y) /\ (y = Responded(call[c]) \/ y = Replied(call[c], "error"))
  BY DEF Answer
<1>3. /\ y \in Call /\ y.pc = "done" /\ y.req = call[c].req /\ y.result = call[c].result
  <2>1. CASE y = Replied(call[c], "error")
    BY <1>1, <2>1 DEF Replied, Call, Phases, Replies
  <2>2. CASE y = Responded(call[c])
    BY <1>1, <2>2, RespondedFacts
  <2> QED BY <1>2, <2>1, <2>2
<1>4. StageOK(y, db)
  BY <1>1, <1>3 DEF StageOK, Looking, Holding
<1>5. ~harm.lateStore => y.result # Null /\ RowIs(y.req, y.result, db)
  BY <1>1, <1>3 DEF MutInv, AnswersOK
<1> QED BY <1>1, <1>2, <1>3, <1>4, <1>5, ReadStep DEF Holds, Holding

LEMMA CheckBundleStep ==
  ASSUME MutInv, NEW c \in Calls, CheckBundle(c)
  PROVE  MutInv'
<1> DEFINE x == call[c]
<1>1. x.pc = "check" /\ x \in Call /\ StageOK(x, db) /\ x.reply # "ok"
  BY DEF CheckBundle, MutInv, MutTypeOK, StageOK
<1>2. PICK next \in {"insert", "release"} : Reads(c, At(x, next))
  BY DEF CheckBundle
<1> DEFINE y == At(x, next)
<1>3. y \in Call /\ y.pc = next /\ \A f \in {"req", "version", "result", "reply"} : y[f] = x[f]
  BY <1>1 DEF At, Call, Phases, Holding
<1>4. StageOK(y, db)
  BY <1>1, <1>3 DEF StageOK, Looking, Holding
<1> HIDE DEF y
<1> QED BY <1>1, <1>2, <1>3, <1>4, ReadStep DEF Holds, Holding, y

-----------------------------------------------------------------------------
\* The statement each call is at.
LEMMA ExecutedFacts ==
  ASSUME NEW d, NEW x
  PROVE  LET r == x.req IN
         /\ x.pc = "reserve" => Executed(d, x) = Reserved(d, Key(r), Fingerprint(r))
         /\ x.pc = "create" => Executed(d, x) = RunCreated(d, r, x.version)
         /\ x.pc = "insert" => Executed(d, x) = [d EXCEPT !.versions = @ \cup {<<r.room, r.version>>}]
         /\ x.pc = "activate" =>
              Executed(d, x) = [d EXCEPT !.active[r.room] = r.version,
                                         !.wasActive = @ \cup {<<r.room, r.version>>}]
         /\ x.pc = "store" => Executed(d, x) = Stored(d, Key(r), x.result)
         /\ x.pc = "release" => Executed(d, x) = Deleted(d, Key(r))
         /\ x.pc = "check" => Executed(d, x) = d
  BY DEF Executed

LEMMA CreateRunStep ==
  ASSUME MutInv, NEW c \in Calls, CreateRun(c)
  PROVE  MutInv'
<1> DEFINE x == call[c]
           n == Len(db.runs) + 1
           y == [At(x, "store") EXCEPT !.result = RunID(n)]
           e == RunCreated(db, x.req, x.version)
<1>1. /\ x.pc = "create" /\ x \in Call /\ StageOK(x, db) /\ DatabaseOK(db)
      /\ x.req \in Requests /\ x.req.op = "startRun" /\ x.version \in Versions
      /\ <<x.req.room, x.version>> \in db.wasActive /\ x.reply # "ok"
  BY DEF CreateRun, MutInv, MutTypeOK, StageOK, Fit, Call, Looking, Holding
<1>2. call' = [call EXCEPT ![c] = y] /\ db' = e /\ UNCHANGED <<orphans, harm>>
  BY <1>1, ExecutedFacts DEF CreateRun, Writes, Becomes
<1>3. /\ DatabaseOK(e) /\ Later(db, e) /\ e.keys = db.keys /\ e.wasActive = db.wasActive
      /\ n \in Nat /\ DOMAIN e.runs = DOMAIN db.runs \cup {n}
      /\ e.runs[n] = [key |-> Key(x.req), user |-> x.req.user, of |-> <<x.req.room, x.version>>]
  BY <1>1, RunCreatedFacts
<1>4. RunID(n) \in Answers
  BY <1>3 DEF RunID, Answers
<1> HIDE DEF n, e
<1>5. y \in Call /\ y.pc = "store" /\ y.req = x.req /\ y.reply = x.reply /\ y.result = RunID(n)
  BY <1>1, <1>4 DEF At, Call, Phases, Holding
<1>6. RunOf(y.req, y.result, e)
  BY <1>1, <1>3, <1>5 DEF RunOf
<1>7. y.result # Null
  BY <1>4, <1>5, NullAssumption DEF Answers
<1>8. StageOK(y, e)
  BY <1>1, <1>5, <1>6, <1>7 DEF StageOK, Looking, Holding
<1> HIDE DEF y
<1>9. \A i \in DOMAIN e.runs :
        \/ i \in DOMAIN db.runs
        \/ Holds(y) /\ y.pc = "store" /\ e.runs[i].key = Key(y.req) /\ y.result = RunID(i)
  BY <1>3, <1>5 DEF Holds, Holding
<1>10. Holds(x) /\ Holds(y)
  BY <1>1, <1>5 DEF Holds, Holding
<1> QED BY <1>1, <1>2, <1>3, <1>5, <1>8, <1>9, <1>10, CallStep

LEMMA InsertVersionStep ==
  ASSUME MutInv, NEW c \in Calls, InsertVersion(c)
  PROVE  MutInv'
<1> DEFINE x == call[c]
           r == x.req
<1>1. /\ x.pc = "insert" /\ x \in Call /\ StageOK(x, db) /\ DatabaseOK(db) /\ Fit(r)
      /\ r.op = "publish" /\ x.reply # "ok" /\ Holds(x)
  BY DEF InsertVersion, MutInv, MutTypeOK, StageOK, Looking, Holding, Holds
<1>2. r \in Requests /\ r.version \in Int /\ r.activate \in BOOLEAN /\ r.room \in Rooms
  BY <1>1, RequestsAssumption DEF Fit
<1>3. CASE VersionTaken(db, r)
  <2> DEFINE y == At(x, "release")
  <2>1. Reads(c, y)
    BY <1>3 DEF InsertVersion
  <2>2. y \in Call /\ y.pc = "release" /\ y.req = r /\ y.reply = x.reply
    BY <1>1 DEF At, Call, Phases, Holding
  <2>3. StageOK(y, db)
    BY <1>1, <2>2 DEF StageOK, Looking, Holding
  <2> HIDE DEF y
  <2> QED BY <1>1, <2>1, <2>2, <2>3, ReadStep DEF Holds, Holding
<1>4. CASE ~VersionTaken(db, r)
  <2> DEFINE next == IF r.activate THEN "activate" ELSE "store"
             answer == <<"version", r.room, r.version>>
             y == [At(x, next) EXCEPT !.result = answer]
             e == [db EXCEPT !.versions = @ \cup {<<r.room, r.version>>}]
  <2>1. call' = [call EXCEPT ![c] = y] /\ db' = e /\ UNCHANGED <<orphans, harm>>
    BY <1>1, <1>4, ExecutedFacts DEF InsertVersion, Writes, Becomes
  <2>2. DatabaseOK(e) /\ Later(db, e) /\ e.keys = db.keys /\ e.runs = db.runs
    BY <1>1, <1>2, PublishedFacts
  <2>3. answer \in Answers /\ answer # Null
    BY <1>2, NullAssumption DEF Answers
  <2>4. next \in {"activate", "store"} /\ (next = "store" => r.activate = FALSE)
    BY <1>2
  <2> HIDE DEF answer, next, e
  <2>5. y \in Call /\ y.pc = next /\ y.req = r /\ y.reply = x.reply /\ y.result = answer
    BY <1>1, <2>3, <2>4 DEF At, Call, Phases, Holding
  <2>6. StageOK(y, e)
    BY <1>1, <2>3, <2>4, <2>5 DEF StageOK, Looking, Holding
  <2> HIDE DEF y
  <2>7. Holds(y) /\ y.pc # "answer" /\ y.reply # "ok" /\ x.pc # "store"
    BY <1>1, <2>4, <2>5 DEF Holds, Holding
  <2> QED BY <1>1, <2>1, <2>2, <2>5, <2>6, <2>7, CallStep
<1> QED BY <1>3, <1>4

LEMMA ActivateStep ==
  ASSUME MutInv, NEW c \in Calls, Activate(c)
  PROVE  MutInv'
<1> DEFINE x == call[c]
           r == x.req
           y == At(x, "store")
           e == [db EXCEPT !.active[r.room] = r.version,
                           !.wasActive = @ \cup {<<r.room, r.version>>}]
<1>1. /\ x.pc = "activate" /\ x \in Call /\ StageOK(x, db) /\ DatabaseOK(db) /\ Fit(r)
      /\ r.op = "publish" /\ x.reply # "ok" /\ Holds(x) /\ x.result # Null
  BY DEF Activate, MutInv, MutTypeOK, StageOK, Looking, Holding, Holds
<1>2. r \in Requests /\ r.version \in Int
  BY <1>1 DEF Fit
<1>3. call' = [call EXCEPT ![c] = y] /\ db' = e /\ UNCHANGED <<orphans, harm>>
  BY <1>1, ExecutedFacts DEF Activate, Writes, Becomes
<1>4. /\ DatabaseOK(e) /\ Later(db, e) /\ e.keys = db.keys /\ e.runs = db.runs
      /\ <<r.room, r.version>> \in e.wasActive
  BY <1>1, <1>2, PublishedFacts
<1>5. y \in Call /\ y.pc = "store" /\ y.req = r /\ y.reply = x.reply /\ y.result = x.result
  BY <1>1 DEF At, Call, Phases, Holding
<1> HIDE DEF e, y
<1>6. StageOK(y, e)
  BY <1>1, <1>4, <1>5 DEF StageOK, Looking, Holding
<1>7. Holds(y) /\ y.pc # "answer" /\ y.reply # "ok" /\ x.pc # "store"
  BY <1>1, <1>5 DEF Holds, Holding
<1> QED BY <1>1, <1>3, <1>4, <1>5, <1>6, <1>7, CallStep

\* A call reserves its key, or finds it taken.
LEMMA ReserveStep ==
  ASSUME MutInv, NEW c \in Calls, Reserve(c)
  PROVE  MutInv'
<1> DEFINE x == call[c]
           r == x.req
           k == Key(r)
           next == IF k \in DOMAIN db.keys THEN "lookupAgain"
                   ELSE IF r.op = "startRun" THEN "create" ELSE "check"
           y == At(x, next)
           e == Reserved(db, k, Fingerprint(r))
<1>1. /\ x.pc = "reserve" /\ x \in Call /\ StageOK(x, db) /\ DatabaseOK(db) /\ Fit(r)
      /\ r \in Requests /\ x.reply # "ok" /\ ~Holds(x) /\ x.result = Null /\ r # Null
  BY NullAssumption DEF Reserve, MutInv, MutTypeOK, StageOK, Looking, Holding, Holds, Fit
<1>2. call' = [call EXCEPT ![c] = y] /\ db' = e /\ UNCHANGED <<orphans, harm>>
  BY <1>1, ExecutedFacts DEF Reserve, Writes, Becomes
<1>3. /\ DatabaseOK(e) /\ Later(db, e) /\ e.runs = db.runs
      /\ DOMAIN e.keys = DOMAIN db.keys \cup {k}
      /\ \A i \in DOMAIN db.keys : e.keys[i] = db.keys[i]
      /\ k \notin DOMAIN db.keys => e.keys[k] = [fp |-> Fingerprint(r), body |-> Null]
  BY <1>1, ReservedFacts
<1>4. /\ next \in {"lookupAgain", "create", "check"}
      /\ next = "lookupAgain" <=> k \in DOMAIN db.keys
      /\ next = "create" => r.op = "startRun"
      /\ next = "check" => r.op = "publish"
  BY <1>1, RequestsAssumption
<1> HIDE DEF e, next
<1>5. /\ y \in Call /\ y.pc = next /\ \A f \in {"req", "version", "result", "reply"} : y[f] = x[f]
  BY <1>1, <1>4 DEF At, Call, Phases, Looking, Holding
<1>6. StageOK(y, e)
  <2>1. StageOK(x, e)
    BY <1>1, <1>3, StageLater
  <2> QED BY <1>1, <1>4, <1>5, <2>1 DEF StageOK, Looking, Holding
<1> HIDE DEF y
<1>7. CASE k \in DOMAIN db.keys
  <2>1. DOMAIN e.keys = DOMAIN db.keys
    BY <1>3, <1>7
  <2>2. ~Holds(y) /\ x.pc # "store" /\ y.pc # "answer" /\ y.reply # "ok"
    BY <1>1, <1>4, <1>5, <1>7 DEF Holds, Holding
  <2> QED BY <1>1, <1>2, <1>3, <1>5, <1>6, <2>1, <2>2, CallStep
<1>8. CASE k \notin DOMAIN db.keys
  <2>1. /\ call \in [Calls -> Call] /\ call' \in [Calls -> Call] /\ call'[c] = y
        /\ \A d \in Calls : d # c => call'[d] = call[d]
    BY <1>2, <1>5 DEF MutInv, MutTypeOK
  <2>2. MutTypeOK'
    BY <1>2, <1>3, <2>1 DEF MutInv, MutTypeOK
  <2>3. ASSUME NEW d \in Calls PROVE StageOK(call'[d], db')
    BY <1>2, <1>3, <1>6, <2>1, StageLater DEF MutInv
  <2>4. /\ Holds(y) /\ y.req = r /\ RowIs(r, Null, e)
    BY <1>3, <1>4, <1>5, <1>8 DEF Holds, Holding, RowIs
  <2>5. \A q, a : Key(q) # k => (RowIs(q, a, e) <=> RowIs(q, a, db))
    BY <1>3 DEF RowIs
  <2>6. \A q, a : RowIs(q, a, db) => Key(q) # k /\ RowIs(q, a, e)
    BY <1>3, <1>8 DEF RowIs
  <2>7. ASSUME ~harm.lateStore PROVE (HoldersOK /\ OneHolder /\ AnswersOK /\ RowsOK)'
    <3>1. HoldersOK /\ OneHolder /\ AnswersOK /\ RowsOK
      BY <2>7 DEF MutInv
    <3>2. /\ \A d \in Calls : Holds(call[d]) => Key(call[d].req) # k
          /\ \A o \in orphans : o.pc = "release" => Key(o.req) # k
      BY <2>6, <3>1 DEF HoldersOK
    <3>3. HoldersOK'
      BY <1>2, <2>1, <2>4, <2>6, <3>1 DEF HoldersOK
    <3>4. OneHolder'
      BY <1>2, <2>1, <2>4, <3>1, <3>2 DEF OneHolder
    <3>5. AnswersOK'
      BY <1>1, <1>2, <1>4, <1>5, <2>1, <2>6, <3>1 DEF AnswersOK
    <3>6. RowsOK'
      BY <1>2, <1>3, <2>1, <2>4, <3>1, RowsKept
    <3> QED BY <3>3, <3>4, <3>5, <3>6
  <2>8. ASSUME Unharmed PROVE OwnersOK'
    <3>1. OwnersOK
      BY <2>8 DEF MutInv
    <3>2. \A d \in Calls : Holds(call[d]) => call'[d] = call[d]
      BY <1>1, <2>1
    <3>3. \A i \in DOMAIN db'.keys : db'.keys[i].body = Null =>
            \E d \in Calls : Holds(call'[d]) /\ Key(call'[d].req) = i
      BY <1>2, <1>3, <2>1, <2>4, <3>1, <3>2 DEF OwnersOK
    <3>4. ASSUME NEW i \in DOMAIN db'.runs
          PROVE  LET j == db'.runs[i].key IN
                 /\ j \in DOMAIN db'.keys
                 /\ \/ db'.keys[j].body = RunID(i)
                    \/ \E d \in Calls : /\ call'[d].pc = "store" /\ Key(call'[d].req) = j
                                        /\ call'[d].result = RunID(i)
      <4>1. \A d \in Calls : call[d].pc = "store" => call'[d] = call[d]
        BY <1>1, <2>1
      <4> QED BY <1>2, <1>3, <3>1, <4>1 DEF OwnersOK
    <3> QED BY <1>2, <3>1, <3>3, <3>4 DEF OwnersOK
  <2> QED BY <1>2, <2>2, <2>3, <2>7, <2>8 DEF MutInv, Unharmed
<1> QED BY <1>7, <1>8

\* The response is stored in the row of the call's key.
LEMMA StoreStep ==
  ASSUME MutInv, NEW c \in Calls, Store(c)
  PROVE  MutInv'
<1> DEFINE x == call[c]
           r == x.req
           k == Key(r)
           y == At(x, "answer")
           e == Stored(db, k, x.result)
<1>1. /\ x.pc = "store" /\ x \in Call /\ StageOK(x, db) /\ DatabaseOK(db) /\ Fit(r)
      /\ r \in Requests /\ x.reply # "ok" /\ Holds(x) /\ x.result \in Answers /\ r # Null
      /\ x.result # Null
  BY NullAssumption DEF Store, MutInv, MutTypeOK, StageOK, Looking, Holding, Holds, Fit, Call
<1>2. call' = [call EXCEPT ![c] = y] /\ db' = e /\ UNCHANGED <<orphans, harm>>
  BY <1>1, ExecutedFacts DEF Store, Writes, Becomes
<1>3. /\ DatabaseOK(e) /\ Later(db, e) /\ e.runs = db.runs
      /\ DOMAIN e.keys = DOMAIN db.keys
      /\ \A i \in DOMAIN db.keys : /\ e.keys[i].fp = db.keys[i].fp
                                   /\ i # k => e.keys[i].body = db.keys[i].body
      /\ k \in DOMAIN db.keys => e.keys[k].body = x.result
  BY <1>1, StoredFacts
<1> HIDE DEF e
<1>4. /\ y \in Call /\ y.pc = "answer" /\ y.req = r /\ y.result = x.result /\ y.reply = x.reply
  BY <1>1 DEF At, Call, Phases
<1> HIDE DEF y
<1>5. StageOK(y, e)
  BY <1>1, <1>4 DEF StageOK, Looking, Holding
<1>6. /\ call \in [Calls -> Call] /\ call' \in [Calls -> Call] /\ call'[c] = y
      /\ \A d \in Calls : d # c => call'[d] = call[d]
  BY <1>2, <1>4 DEF MutInv, MutTypeOK
<1>7. MutTypeOK'
  BY <1>2, <1>3, <1>6 DEF MutInv, MutTypeOK
<1>8. ASSUME NEW d \in Calls PROVE StageOK(call'[d], db')
  BY <1>2, <1>3, <1>5, <1>6, StageLater DEF MutInv
<1>9. ~Holds(y)
  BY <1>4 DEF Holds, Holding
<1>10. \A q, a : Key(q) # k => (RowIs(q, a, e) <=> RowIs(q, a, db))
  BY <1>3 DEF RowIs
<1>11. ASSUME ~harm.lateStore PROVE (HoldersOK /\ OneHolder /\ AnswersOK /\ RowsOK)'
  <2>1. HoldersOK /\ OneHolder /\ AnswersOK /\ RowsOK
    BY <1>11 DEF MutInv
  <2>2. RowIs(r, Null, db)
    BY <1>1, <2>1 DEF HoldersOK
  <2>3. RowIs(r, x.result, e)
    BY <1>3, <2>2 DEF RowIs
  <2>4. HoldersOK'
    <3>1. \A d \in Calls : Holds(call'[d]) => d # c /\ Key(call[d].req) # k
      BY <1>1, <1>6, <1>9, <2>1 DEF OneHolder
    <3>2. \A o \in orphans : o.pc = "release" => Key(o.req) # k
      BY <1>1, <2>1 DEF OneHolder
    <3> QED BY <1>2, <1>6, <1>10, <2>1, <3>1, <3>2 DEF HoldersOK
  <2>5. OneHolder'
    BY <1>2, <1>6, <1>9, <2>1 DEF OneHolder
  <2>6. AnswersOK'
    <3> SUFFICES ASSUME NEW d \in Calls, call'[d].pc = "answer" \/ call'[d].reply = "ok"
                 PROVE  call'[d].result # Null /\ RowIs(call'[d].req, call'[d].result, db')
      BY DEF AnswersOK
    <3>1. CASE d = c
      BY <1>1, <1>2, <1>4, <1>6, <2>3, <3>1
    <3>2. CASE d # c
      <4>1. call[d].result # Null /\ RowIs(call[d].req, call[d].result, db)
        BY <1>6, <2>1, <3>2 DEF AnswersOK
      <4>2. Key(call[d].req) # k
        BY <2>2, <4>1 DEF RowIs
      <4> QED BY <1>2, <1>6, <1>10, <3>2, <4>1, <4>2
    <3> QED BY <3>1, <3>2
  <2>7. RowsOK'
    <3> SUFFICES ASSUME NEW q \in Requests, NEW a \in Answers, RowIs(q, a, db')
                 PROVE  /\ q.op = "startRun" => RunOf(q, a, db')
                        /\ q.op = "publish" => ActivatedOrNot(q, db)'
      BY DEF RowsOK, ActivatedOrNot, Asks
    <3>1. CASE Key(q) # k
      <4>1. /\ q.op = "startRun" => RunOf(q, a, db)
            /\ q.op = "publish" => ActivatedOrNot(q, db)
        BY <1>2, <1>10, <2>1, <3>1 DEF RowsOK
      <4>2. \A d \in Calls : call'[d].req = call[d].req /\ \A i : Asks(d, i) => Asks(d, i)'
        BY <1>4, <1>6 DEF Asks
      <4>3. ActivatedOrNot(q, db) => ActivatedOrNot(q, db)'
        BY <1>2, <1>3, <4>2 DEF ActivatedOrNot, Later
      <4> QED BY <1>2, <1>3, <4>1, <4>3, RunOfLater
    <3>2. CASE Key(q) = k
      <4>1. a = x.result /\ Fingerprint(q) = Fingerprint(r)
        BY <1>2, <2>3, <3>2 DEF RowIs
      <4>2. /\ q.op = r.op /\ (q.op = "startRun" => q.user = r.user)
            /\ q.room = r.room /\ (q.op = "publish" => q.version = r.version)
        BY <1>1, <3>2, <4>1, KeyFacts, FingerprintFacts
      <4>3. q.op = "startRun" => RunOf(q, a, db)
        BY <1>1, <3>2, <4>1, <4>2 DEF StageOK, RunOf
      <4>4. q.op = "publish" => ActivatedOrNot(q, db)'
        <5>1. Asks(c, Key(q))' /\ call'[c].req = r
          BY <1>1, <1>4, <1>6, <3>2 DEF Asks
        <5>2. q.op = "publish" /\ r.activate # FALSE => <<q.room, q.version>> \in e.wasActive
          BY <1>1, <1>3, <4>2 DEF StageOK, Later
        <5> QED BY <1>2, <5>1, <5>2 DEF ActivatedOrNot
      <4> QED BY <1>2, <1>3, <4>3, <4>4, RunOfLater
    <3> QED BY <3>1, <3>2
  <2> QED BY <2>4, <2>5, <2>6, <2>7
<1>12. ASSUME Unharmed PROVE OwnersOK'
  <2>1. OwnersOK /\ HoldersOK
    BY <1>12 DEF MutInv, OwnersOK
  <2>2. RowIs(r, Null, db)
    BY <1>1, <2>1 DEF HoldersOK
  <2>3. \A i \in DOMAIN db'.keys : db'.keys[i].body = Null =>
          \E d \in Calls : Holds(call'[d]) /\ Key(call'[d].req) = i
    BY <1>1, <1>2, <1>3, <1>6, <2>1 DEF OwnersOK
  <2>4. ASSUME NEW i \in DOMAIN db'.runs
        PROVE  LET j == db'.runs[i].key IN
               /\ j \in DOMAIN db'.keys
               /\ \/ db'.keys[j].body = RunID(i)
                  \/ \E d \in Calls : /\ call'[d].pc = "store" /\ Key(call'[d].req) = j
                                      /\ call'[d].result = RunID(i)
    <3> DEFINE j == db.runs[i].key
    <3>1. RunID(i) # Null
      <4>1. i \in Nat
        BY <1>1, <1>2, <1>3 DEF DatabaseOK
      <4> QED BY <4>1, NullAssumption DEF RunID
    <3>2. /\ j \in DOMAIN db.keys
          /\ \/ db.keys[j].body = RunID(i)
             \/ \E d \in Calls : call[d].pc = "store" /\ Key(call[d].req) = j /\ call[d].result = RunID(i)
      BY <1>2, <1>3, <2>1 DEF OwnersOK
    <3>3. CASE db.keys[j].body = RunID(i)
      BY <1>2, <1>3, <2>2, <3>1, <3>2, <3>3 DEF RowIs
    <3>4. CASE \E d \in Calls : call[d].pc = "store" /\ Key(call[d].req) = j /\ call[d].result = RunID(i)
      <4>1. PICK d \in Calls : call[d].pc = "store" /\ Key(call[d].req) = j /\ call[d].result = RunID(i)
        BY <3>4
      <4>2. CASE d = c
        BY <1>2, <1>3, <3>2, <4>1, <4>2
      <4>3. CASE d # c
        BY <1>2, <1>3, <1>6, <3>2, <4>1, <4>3
      <4> QED BY <4>2, <4>3
    <3> QED BY <3>2, <3>3, <3>4
  <2> QED BY <1>2, <2>1, <2>3, <2>4 DEF OwnersOK
<1> QED BY <1>2, <1>7, <1>8, <1>11, <1>12 DEF MutInv, Unharmed

\* The reservation of a call that failed is deleted.
LEMMA ReleaseStep ==
  ASSUME MutInv, NEW c \in Calls, Release(c)
  PROVE  MutInv'
<1> DEFINE x == call[c]
           r == x.req
           k == Key(r)
           y == Replied([x EXCEPT !.result = Null], "error")
           e == Deleted(db, k)
<1>1. /\ x.pc = "release" /\ x \in Call /\ DatabaseOK(db) /\ r \in Requests /\ Holds(x)
  BY DEF Release, MutInv, MutTypeOK, StageOK, Looking, Holding, Holds, Fit
<1>2. call' = [call EXCEPT ![c] = y] /\ db' = e /\ UNCHANGED <<orphans, harm>>
  BY <1>1, ExecutedFacts DEF Release, Writes, Becomes
<1>3. /\ DatabaseOK(e) /\ Later(db, e) /\ e.runs = db.runs
      /\ \A i \in DOMAIN e.keys : i \in DOMAIN db.keys /\ e.keys[i] = db.keys[i]
      /\ \A i \in DOMAIN db.keys : i # k \/ db.keys[i].body # Null => i \in DOMAIN e.keys
      /\ k \in DOMAIN e.keys => e.keys[k].body # Null
  BY <1>1, DeletedFacts
<1> HIDE DEF e
<1>4. /\ y \in Call /\ y.pc = "done" /\ y.req = r /\ y.reply = "error"
  BY <1>1 DEF Replied, Call, Phases, Replies
<1> HIDE DEF y
<1>5. StageOK(y, e) /\ ~Holds(y)
  BY <1>1, <1>4 DEF StageOK, Looking, Holding, Holds
<1>6. /\ call \in [Calls -> Call] /\ call' \in [Calls -> Call] /\ call'[c] = y
      /\ \A d \in Calls : d # c => call'[d] = call[d]
  BY <1>2, <1>4 DEF MutInv, MutTypeOK
<1>7. MutTypeOK'
  BY <1>2, <1>3, <1>6 DEF MutInv, MutTypeOK
<1>8. ASSUME NEW d \in Calls PROVE StageOK(call'[d], db')
  BY <1>2, <1>3, <1>5, <1>6, StageLater DEF MutInv
<1>9. \A q, a : Key(q) # k \/ a # Null => (RowIs(q, a, db) => RowIs(q, a, e))
  BY <1>3 DEF RowIs
<1>10. ASSUME ~harm.lateStore PROVE (HoldersOK /\ OneHolder /\ AnswersOK /\ RowsOK)'
  <2>1. HoldersOK /\ OneHolder /\ AnswersOK /\ RowsOK
    BY <1>10 DEF MutInv
  <2>2. \A d \in Calls : Holds(call'[d]) => d # c /\ Key(call[d].req) # k
    BY <1>1, <1>5, <1>6, <2>1 DEF OneHolder
  <2>3. \A o \in orphans : o.pc = "release" => Key(o.req) # k
    BY <1>1, <2>1 DEF OneHolder
  <2>4. HoldersOK'
    BY <1>2, <1>6, <1>9, <2>1, <2>2, <2>3 DEF HoldersOK
  <2>5. OneHolder'
    BY <1>2, <1>5, <1>6, <2>1 DEF OneHolder
  <2>6. AnswersOK'
    BY <1>2, <1>4, <1>6, <1>9, <2>1 DEF AnswersOK
  <2>7. RowsOK'
    BY <1>2, <1>3, <1>4, <1>6, <2>1, RowsKept
  <2> QED BY <2>4, <2>5, <2>6, <2>7
<1>11. ASSUME Unharmed PROVE OwnersOK'
  <2>1. OwnersOK /\ HoldersOK /\ OneHolder
    BY <1>11 DEF MutInv, OwnersOK
  <2>2. \A d \in Calls : Holds(call[d]) /\ Key(call[d].req) # k => call'[d] = call[d]
    BY <1>6
  <2>3. \A i \in DOMAIN db'.keys : db'.keys[i].body = Null =>
          \E d \in Calls : Holds(call'[d]) /\ Key(call'[d].req) = i
    BY <1>2, <1>3, <2>1, <2>2 DEF OwnersOK
  <2>4. ASSUME NEW i \in DOMAIN db'.runs
        PROVE  LET j == db'.runs[i].key IN
               /\ j \in DOMAIN db'.keys
               /\ \/ db'.keys[j].body = RunID(i)
                  \/ \E d \in Calls : /\ call'[d].pc = "store" /\ Key(call'[d].req) = j
                                      /\ call'[d].result = RunID(i)
    <3> DEFINE j == db.runs[i].key
    <3>1. RunID(i) # Null
      <4>1. i \in Nat
        BY <1>1, <1>2, <1>3 DEF DatabaseOK
      <4> QED BY <4>1, NullAssumption DEF RunID
    <3>2. /\ j \in DOMAIN db.keys
          /\ \/ db.keys[j].body = RunID(i)
             \/ \E d \in Calls : call[d].pc = "store" /\ Key(call[d].req) = j /\ call[d].result = RunID(i)
      BY <1>2, <1>3, <2>1 DEF OwnersOK
    <3>3. CASE db.keys[j].body = RunID(i)
      BY <1>2, <1>3, <3>1, <3>2, <3>3
    <3>4. CASE \E d \in Calls : call[d].pc = "store" /\ Key(call[d].req) = j /\ call[d].result = RunID(i)
      <4>1. PICK d \in Calls : call[d].pc = "store" /\ Key(call[d].req) = j /\ call[d].result = RunID(i)
        BY <3>4
      <4>2. d # c /\ j # k
        BY <1>1, <2>1, <4>1 DEF OneHolder, Holds, Holding
      <4> QED BY <1>2, <1>3, <1>6, <3>2, <4>1, <4>2
    <3> QED BY <3>2, <3>3, <3>4
  <2> QED BY <1>2, <2>1, <2>3, <2>4 DEF OwnersOK
<1> QED BY <1>2, <1>7, <1>8, <1>10, <1>11 DEF MutInv, Unharmed

-----------------------------------------------------------------------------
\* One fault more.
LEMMA FaultFacts ==
  ASSUME harm \in Harm, NEW b \in BOOLEAN,
         harm' = [harm EXCEPT !.faults = @ + 1, !.lateStore = b]
  PROVE  harm' \in Harm /\ harm'.faults = harm.faults + 1 /\ harm'.lateStore = b
<1>1. harm' \in Harm
  <2> DEFINE n == harm.faults + 1
  <2>1. n \in Nat
    BY DEF Harm
  <2>2. harm' = [harm EXCEPT !.faults = n, !.lateStore = b]
    OBVIOUS
  <2> HIDE DEF n
  <2> QED BY <2>1, <2>2, Zenon DEF Harm
<1>2. harm'.faults = harm.faults + 1
  BY DEF Harm
<1>3. harm'.lateStore = b
  BY DEF Harm
<1> QED BY <1>1, <1>2, <1>3

\* One restart more.
LEMMA CrashFacts ==
  ASSUME harm \in Harm, NEW b \in BOOLEAN,
         harm' = [harm EXCEPT !.crashes = @ + 1, !.lateStore = b]
  PROVE  harm' \in Harm /\ harm'.crashes = harm.crashes + 1 /\ harm'.lateStore = b
<1>1. harm' \in Harm
  <2> DEFINE n == harm.crashes + 1
  <2>1. n \in Nat
    BY DEF Harm
  <2>2. harm' = [harm EXCEPT !.crashes = n, !.lateStore = b]
    OBVIOUS
  <2> HIDE DEF n
  <2> QED BY <2>1, <2>2, Zenon DEF Harm
<1>2. harm'.crashes = harm.crashes + 1
  BY DEF Harm
<1>3. harm'.lateStore = b
  BY DEF Harm
<1> QED BY <1>1, <1>2, <1>3

LEMMA StatementFailsStep ==
  ASSUME MutInv, NEW c \in Calls, StatementFails(c)
  PROVE  MutInv'
<1> DEFINE x == call[c]
           late == /\ x.pc \notin {"lookup", "lookupAgain"}
                   /\ orphans' = orphans \cup {x}
                   /\ x.pc = "store" => harm'.lateStore
<1>1. /\ x.pc \in {"lookup", "reserve", "lookupAgain", "create", "insert", "activate", "store", "release"}
      /\ x \in Call /\ StageOK(x, db) /\ Fit(x.req) /\ x.req \in Requests /\ x.reply # "ok"
  BY DEF StatementFails, MutInv, MutTypeOK, StageOK, Looking, Holding, Fit
<1>2. harm \in Harm /\ db' = db
  BY DEF StatementFails, MutInv, MutTypeOK
<1>3. /\ harm' \in Harm
      /\ harm'.faults = harm.faults + 1 /\ (harm.lateStore => harm'.lateStore)
      /\ (orphans' = orphans) \/ late
  <2> DEFINE b == harm.lateStore \/ x.pc = "store"
  <2>1. b \in BOOLEAN /\ (harm.lateStore => b) /\ (x.pc = "store" => b)
    OBVIOUS
  <2>2. \/ UNCHANGED orphans /\ harm' = [harm EXCEPT !.faults = @ + 1]
        \/ /\ x.pc \notin {"lookup", "lookupAgain"} /\ orphans' = orphans \cup {x}
           /\ harm' = [harm EXCEPT !.faults = @ + 1, !.lateStore = b]
    BY DEF StatementFails
  <2> HIDE DEF b
  <2>4. CASE UNCHANGED orphans /\ harm' = [harm EXCEPT !.faults = @ + 1]
    <3>1. harm' \in Harm /\ harm'.faults = harm.faults + 1 /\ harm'.lateStore = harm.lateStore
      BY <1>2, <2>4 DEF Harm
    <3> QED BY <2>4, <3>1
  <2>5. CASE /\ x.pc \notin {"lookup", "lookupAgain"} /\ orphans' = orphans \cup {x}
             /\ harm' = [harm EXCEPT !.faults = @ + 1, !.lateStore = b]
    <3>1. harm' \in Harm /\ harm'.faults = harm.faults + 1 /\ harm'.lateStore = b
      BY <1>2, <2>1, <2>5, FaultFacts
    <3> QED BY <2>1, <2>5, <3>1
  <2> QED BY <2>2, <2>4, <2>5
<1>4. PICK y : /\ call' = [call EXCEPT ![c] = y]
               /\ y = IF x.pc \in {"create", "insert", "activate", "store"} THEN At(x, "release")
                      ELSE Replied([x EXCEPT !.result = Null], "error")
  BY DEF StatementFails, Becomes
<1>5. /\ y \in Call /\ y.req = x.req /\ y.reply # "ok"
      /\ \/ y.pc = "release" /\ x.pc \in {"create", "insert", "activate", "store"}
         \/ y.pc = "done" /\ x.pc \in {"lookup", "reserve", "lookupAgain", "release"}
  <2>1. CASE y = At(x, "release") /\ x.pc \in {"create", "insert", "activate", "store"}
    BY <1>1, <2>1 DEF At, Call, Phases, Holding
  <2>2. CASE y = Replied([x EXCEPT !.result = Null], "error")
             /\ x.pc \in {"lookup", "reserve", "lookupAgain", "release"}
    BY <1>1, <2>2 DEF Replied, Call, Phases, Replies
  <2> QED BY <1>1, <1>4, <2>1, <2>2
<1>6. StageOK(y, db)
  BY <1>1, <1>5 DEF StageOK, Looking, Holding
<1>7. /\ call \in [Calls -> Call] /\ call' \in [Calls -> Call] /\ call'[c] = y
      /\ \A d \in Calls : d # c => call'[d] = call[d]
  BY <1>4, <1>5 DEF MutInv, MutTypeOK
<1>8. MutTypeOK'
  <2>1. late => x.pc \in Holding \cup {"reserve"} /\ (x.pc = "activate" => x.req.op = "publish")
    BY <1>1 DEF Holding, StageOK
  <2> HIDE DEF x
  <2> QED BY <1>1, <1>2, <1>3, <1>7, <2>1 DEF MutInv, MutTypeOK
<1>9. ASSUME NEW d \in Calls PROVE StageOK(call'[d], db')
  BY <1>2, <1>6, <1>7 DEF MutInv
<1>10. ASSUME ~harm'.lateStore PROVE (HoldersOK /\ OneHolder /\ AnswersOK /\ RowsOK)'
  <2>1. HoldersOK /\ OneHolder /\ AnswersOK /\ RowsOK /\ (late => x.pc # "store")
    BY <1>3, <1>10 DEF MutInv
  <2>2. \A q, a : RowIs(q, a, db') <=> RowIs(q, a, db)
    BY <1>2
  <2>3. /\ Holds(y) => Holds(x) /\ x.pc # "release"
        /\ x.pc = "release" => Holds(x) /\ ~Holds(y)
    BY <1>5 DEF Holds, Holding
  <2>4. \A d \in Calls : Holds(call'[d]) => Holds(call[d]) /\ call'[d].req = call[d].req
    BY <1>5, <1>7, <2>3
  <2>5. \A o \in orphans' : o \in orphans \/ (o = x /\ late)
    BY <1>3
  <2>6. HoldersOK'
    BY <2>1, <2>2, <2>3, <2>4, <2>5 DEF HoldersOK
  <2>7. OneHolder'
    <3>1. \A d, g \in Calls :
            Holds(call'[d]) /\ Holds(call'[g]) /\ Key(call'[d].req) = Key(call'[g].req) => d = g
      BY <2>1, <2>4 DEF OneHolder
    <3>2. ASSUME NEW d \in Calls, NEW o \in orphans', Holds(call'[d]), o.pc = "release"
          PROVE  Key(call'[d].req) # Key(o.req)
      <4>1. CASE o \in orphans
        BY <2>1, <2>4, <3>2, <4>1 DEF OneHolder
      <4>2. CASE o = x
        BY <1>7, <2>1, <2>3, <2>4, <3>2, <4>2 DEF OneHolder
      <4> QED BY <2>5, <4>1, <4>2
    <3>3. ASSUME NEW o \in orphans', NEW p \in orphans', o.pc = "release", p.pc = "release",
                 Key(o.req) = Key(p.req)
          PROVE  o = p
      BY <2>1, <2>3, <2>5, <3>3 DEF OneHolder
    <3> QED BY <3>1, <3>2, <3>3 DEF OneHolder
  <2>8. AnswersOK'
    BY <1>5, <1>7, <2>1, <2>2 DEF AnswersOK
  <2>9. RowsOK'
    BY <1>2, <1>5, <1>7, <2>1, RowsKept DEF Later
  <2> QED BY <2>6, <2>7, <2>8, <2>9
<1>11. ~Unharmed'
  BY <1>2, <1>3 DEF Unharmed, Harm
<1> QED BY <1>8, <1>9, <1>10, <1>11 DEF MutInv

LEMMA RestartStep ==
  ASSUME MutInv, Restart
  PROVE  MutInv'
<1>1. PICK S \in SUBSET {call[c] : c \in {c \in Calls : Works(c) \/ call[c].pc = "reserve"}} :
        /\ orphans' = orphans \cup S
        /\ harm' = [harm EXCEPT !.crashes = @ + 1,
                                !.lateStore = @ \/ \E x \in S : x.pc = "store"]
  BY DEF Restart
<1>2. /\ call' = [c \in Calls |-> IF call[c].pc \in {"new", "done"} THEN call[c]
                                  ELSE Replied([call[c] EXCEPT !.result = Null], "lost")]
      /\ db' = db
  BY DEF Restart
<1>3. harm \in Harm
  BY DEF MutInv, MutTypeOK
<1>4. /\ harm' \in Harm /\ harm'.crashes = harm.crashes + 1
      /\ ~harm'.lateStore => ~harm.lateStore /\ \A x \in S : x.pc # "store"
  <2> DEFINE b == harm.lateStore \/ \E x \in S : x.pc = "store"
  <2>1. b \in BOOLEAN /\ (~b => ~harm.lateStore /\ \A x \in S : x.pc # "store")
    OBVIOUS
  <2>2. harm' = [harm EXCEPT !.crashes = @ + 1, !.lateStore = b]
    BY <1>1
  <2> HIDE DEF b
  <2>3. harm' \in Harm /\ harm'.crashes = harm.crashes + 1 /\ harm'.lateStore = b
    BY <1>3, <2>1, <2>2, CrashFacts
  <2> QED BY <2>1, <2>3
<1>5. ASSUME NEW c \in Calls
      PROVE  /\ call'[c] \in Call /\ StageOK(call'[c], db) /\ ~Holds(call'[c])
             /\ call[c].req # Null => call'[c].req = call[c].req
             /\ call'[c].pc = "answer" \/ call'[c].reply = "ok" => call'[c] = call[c]
  <2>1. call[c] \in Call /\ StageOK(call[c], db)
    BY DEF MutInv, MutTypeOK
  <2>2. CASE call[c].pc \in {"new", "done"}
    BY <1>2, <2>1, <2>2 DEF Holds, Holding
  <2>3. CASE call[c].pc \notin {"new", "done"}
    <3>1. call'[c] = Replied([call[c] EXCEPT !.result = Null], "lost")
      BY <1>2, <2>3
    <3>2. call[c].req \in Requests
      BY <2>1, <2>3 DEF StageOK, Call, Phases, Fit
    <3>3. call'[c] \in Call /\ call'[c].pc = "done" /\ call'[c].req = call[c].req /\ call'[c].reply = "lost"
      BY <2>1, <3>1 DEF Replied, Call, Phases, Replies
    <3> QED BY <3>2, <3>3 DEF StageOK, Holds, Holding, Looking
  <2> QED BY <2>2, <2>3
<1>6. ASSUME NEW x \in S
      PROVE  \E c \in Calls : x = call[c] /\ (Holds(x) \/ x.pc = "reserve")
  BY DEF Works, Holds, Holding
<1>7. MutTypeOK'
  <2>1. ASSUME NEW x \in S
        PROVE  /\ x \in Call /\ x.pc \in Holding \cup {"reserve"}
               /\ Fit(x.req) /\ (x.pc = "activate" => x.req.op = "publish")
    <3>1. PICK c \in Calls : x = call[c] /\ (Holds(x) \/ x.pc = "reserve")
      BY <1>6
    <3>2. call[c] \in Call /\ StageOK(call[c], db)
      BY DEF MutInv, MutTypeOK
    <3> QED BY <3>1, <3>2 DEF StageOK, Holds, Looking, Holding
  <2>2. call' \in [Calls -> Call]
    BY <1>2, <1>5
  <2> QED BY <1>1, <1>2, <1>4, <2>1, <2>2 DEF MutInv, MutTypeOK
<1>8. ASSUME ~harm'.lateStore PROVE (HoldersOK /\ OneHolder /\ AnswersOK /\ RowsOK)'
  <2>1. HoldersOK /\ OneHolder /\ AnswersOK /\ RowsOK
    BY <1>4, <1>8 DEF MutInv
  <2>2. \A q, a : RowIs(q, a, db') <=> RowIs(q, a, db)
    BY <1>2
  <2>3. \A x \in orphans' : \/ x \in orphans
                            \/ x.pc = "release" => \E c \in Calls : x = call[c] /\ Holds(x)
    BY <1>1, <1>6
  <2>4. HoldersOK'
    BY <1>1, <1>4, <1>5, <1>8, <2>1, <2>2, <2>3 DEF HoldersOK
  <2>5. OneHolder'
    BY <1>5, <2>1, <2>3 DEF OneHolder
  <2>6. AnswersOK'
    BY <1>5, <2>1, <2>2 DEF AnswersOK
  <2>7. RowsOK'
    BY <1>2, <1>5, <2>1, RowsKept DEF Later
  <2> QED BY <2>4, <2>5, <2>6, <2>7
<1>9. ~Unharmed'
  BY <1>3, <1>4 DEF Unharmed, Harm
<1> QED BY <1>2, <1>5, <1>7, <1>8, <1>9 DEF MutInv

\* A statement nobody waits for can delete no row but its own.
LEMMA LateStatementStep ==
  ASSUME MutInv, NEW x \in orphans, LateStatement(x)
  PROVE  MutInv'
<1> DEFINE e == IF x.pc = "insert" /\ VersionTaken(db, x.req) THEN db ELSE Executed(db, x)
           k == Key(x.req)
<1>1. /\ orphans' = orphans \ {x} /\ db' = e /\ UNCHANGED <<call, harm>>
  BY DEF LateStatement
<1>2. /\ x \in Call /\ x.pc \in Holding \cup {"reserve"} /\ Fit(x.req)
      /\ x.pc = "activate" => x.req.op = "publish"
      /\ x.req \in Requests /\ DatabaseOK(db)
  BY DEF MutInv, MutTypeOK, Fit
<1>3. /\ DatabaseOK(e) /\ Later(db, e)
      /\ x.pc # "store" =>
           /\ \A i \in DOMAIN e.keys : \/ i \in DOMAIN db.keys /\ e.keys[i] = db.keys[i]
                                       \/ e.keys[i].body = Null
           /\ \A i \in DOMAIN db.keys :
                x.pc # "release" \/ i # k \/ db.keys[i].body # Null =>
                  i \in DOMAIN e.keys /\ e.keys[i] = db.keys[i]
  <2>1. CASE e = db
    BY <1>2, <2>1 DEF Later
  <2>2. CASE x.pc = "reserve"
    <3> DEFINE f == Reserved(db, k, Fingerprint(x.req))
    <3>1. /\ DatabaseOK(f) /\ Later(db, f)
          /\ DOMAIN f.keys = DOMAIN db.keys \cup {k}
          /\ \A i \in DOMAIN db.keys : f.keys[i] = db.keys[i]
          /\ k \notin DOMAIN db.keys => f.keys[k] = [fp |-> Fingerprint(x.req), body |-> Null]
      BY <1>2, ReservedFacts
    <3>2. e = f
      BY <2>2, ExecutedFacts
    <3> HIDE DEF e, f, k
    <3> QED BY <2>2, <3>1, <3>2
  <2>3. CASE x.pc = "create"
    <3>1. e = RunCreated(db, x.req, x.version) /\ x.version \in Versions
      BY <1>2, <2>3, ExecutedFacts DEF Call
    <3> HIDE DEF e
    <3> QED BY <1>2, <2>3, <3>1, RunCreatedFacts
  <2>4. CASE x.pc = "insert" /\ ~VersionTaken(db, x.req)
    <3> DEFINE r == x.req
               f == [db EXCEPT !.versions = @ \cup {<<r.room, r.version>>}]
    <3>1. e = f
      BY <2>4, ExecutedFacts
    <3>2. DatabaseOK(f) /\ Later(db, f) /\ f.keys = db.keys
      BY <1>2 DEF DatabaseOK, Later
    <3> QED BY <3>1, <3>2
  <2>5. CASE x.pc = "activate"
    <3> DEFINE r == x.req
               f == [db EXCEPT !.active[r.room] = r.version,
                               !.wasActive = @ \cup {<<r.room, r.version>>}]
    <3>1. e = f
      BY <2>5, ExecutedFacts
    <3>2. r.version \in Int
      BY <1>2, <2>5 DEF Fit
    <3>3. DatabaseOK(f) /\ Later(db, f) /\ f.keys = db.keys
      BY <1>2, <2>5, <3>2, PublishedFacts
    <3> QED BY <3>1, <3>3
  <2>6. CASE x.pc = "store"
    <3>1. e = Stored(db, k, x.result) /\ x.result \in Answers \cup {Null}
      BY <1>2, <2>6, ExecutedFacts DEF Call
    <3> HIDE DEF e
    <3> QED BY <1>2, <2>6, <3>1, StoredFacts
  <2>7. CASE x.pc = "release"
    <3>1. e = Deleted(db, k)
      BY <2>7, ExecutedFacts
    <3> HIDE DEF e
    <3> QED BY <1>2, <2>7, <3>1, DeletedFacts
  <2>8. CASE x.pc = "check"
    <3>1. e = db
      BY <2>8, ExecutedFacts
    <3> QED BY <2>1, <3>1
  <2> QED BY <1>2, <2>1, <2>2, <2>3, <2>4, <2>5, <2>6, <2>7, <2>8 DEF Holding
<1> HIDE DEF e
<1>4. MutTypeOK'
  BY <1>1, <1>3 DEF MutInv, MutTypeOK
<1>5. ASSUME NEW d \in Calls PROVE StageOK(call'[d], db')
  BY <1>1, <1>3, StageLater DEF MutInv
<1>6. ASSUME ~harm.lateStore PROVE (HoldersOK /\ OneHolder /\ AnswersOK /\ RowsOK)'
  <2>1. HoldersOK /\ OneHolder /\ AnswersOK /\ RowsOK /\ x.pc # "store"
    BY <1>6 DEF MutInv, HoldersOK
  <2>2. ASSUME NEW q, NEW a, RowIs(q, a, db), x.pc # "release" \/ Key(q) # k \/ a # Null
        PROVE  RowIs(q, a, e)
    BY <1>3, <2>1, <2>2 DEF RowIs
  <2>3. HoldersOK'
    <3>1. \A d \in Calls : Holds(call[d]) => x.pc # "release" \/ Key(call[d].req) # k
      BY <2>1 DEF OneHolder
    <3>2. \A o \in orphans' : o \in orphans /\ (o.pc = "release" => x.pc # "release" \/ Key(o.req) # k)
      BY <1>1, <2>1 DEF OneHolder
    <3> QED BY <1>1, <2>1, <2>2, <3>1, <3>2 DEF HoldersOK
  <2>4. OneHolder'
    BY <1>1, <2>1 DEF OneHolder
  <2>5. AnswersOK'
    BY <1>1, <2>1, <2>2 DEF AnswersOK
  <2>6. RowsOK'
    BY <1>1, <1>3, <2>1, RowsKept
  <2> QED BY <2>3, <2>4, <2>5, <2>6
<1>7. ~Unharmed'
  BY <1>1 DEF MutInv, OwnersOK, Unharmed
<1> QED BY <1>1, <1>4, <1>5, <1>6, <1>7 DEF MutInv

\* MutInv holds in every reachable state.
THEOREM MutInvariant == MutSpec => []MutInv
<1>1. MutInv /\ [MutNext]_mutVars => MutInv'
  <2> SUFFICES ASSUME MutInv, [MutNext]_mutVars PROVE MutInv'
    OBVIOUS
  <2>1. ASSUME NEW c \in Calls,
               (\E r \in Requests : Ask(c, r)) \/ Proceeds(c) \/ StatementFails(c)
        PROVE  MutInv'
    BY <2>1, AskStep, LookupStep, ReserveStep, LookupAgainStep, CreateRunStep, CheckBundleStep,
       InsertVersionStep, ActivateStep, StoreStep, AnswerStep, ReleaseStep, StatementFailsStep
       DEF Proceeds
  <2>2. ASSUME NEW x \in orphans, LateStatement(x) PROVE MutInv'
    BY <2>2, LateStatementStep
  <2>3. CASE Restart
    BY <2>3, RestartStep
  <2>4. CASE UNCHANGED mutVars
    <3> USE <2>4 DEF mutVars
    <3>1. MutTypeOK' /\ \A c \in Calls : StageOK(call'[c], db')
      BY DEF MutInv, MutTypeOK
    <3>2. /\ HoldersOK => HoldersOK'
          /\ OneHolder => OneHolder'
          /\ AnswersOK => AnswersOK'
          /\ RowsOK => RowsOK'
      <4>1. RowsOK => RowsOK'
        BY RowsKept DEF Later
      <4> QED BY <4>1 DEF HoldersOK, OneHolder, AnswersOK
    <3>3. OwnersOK => OwnersOK'
      BY DEF OwnersOK
    <3>4. Unharmed' = Unharmed /\ harm' = harm
      BY DEF Unharmed
    <3> QED BY <3>1, <3>2, <3>3, <3>4 DEF MutInv
  <2> QED BY <2>1, <2>2, <2>3, <2>4 DEF MutNext
<1> QED BY <1>1, MutInvInit, PTL DEF MutSpec

-----------------------------------------------------------------------------
\* Clients answered without an error for one key were given the same run or version:
\* both results are in the row of the key.
THEOREM ClientsGetOneAnswer == MutSpec => []OneAnswer
<1>1. MutInv => OneAnswer
  <2> SUFFICES ASSUME MutInv, ~harm.lateStore, NEW c \in Calls, NEW d \in Calls,
                      call[c].reply = "ok", call[d].reply = "ok", Asks(c, Key(call[d].req))
               PROVE  call[c].result = call[d].result /\ call[c].result # Null
    BY DEF OneAnswer
  <2>1. /\ call[c].result # Null /\ RowIs(call[c].req, call[c].result, db)
        /\ RowIs(call[d].req, call[d].result, db)
    BY DEF MutInv, AnswersOK
  <2> QED BY <2>1 DEF RowIs, Asks
<1> QED BY <1>1, MutInvariant, PTL

\* While nothing fails a key starts one run: a run is either in the row of its key or
\* with the one call that holds the key.
THEOREM KeyStartsOneRun == MutSpec => []OneRun
<1>1. MutInv => OneRun
  <2> SUFFICES ASSUME MutInv, Unharmed, NEW i \in DOMAIN db.runs, NEW j \in DOMAIN db.runs,
                      db.runs[i].key = db.runs[j].key
               PROVE  i = j
    BY DEF OneRun
  <2> DEFINE k == db.runs[i].key
             By(n) == \E c \in Calls : /\ call[c].pc = "store" /\ Key(call[c].req) = k
                                       /\ call[c].result = RunID(n)
  <2>1. OwnersOK /\ HoldersOK /\ OneHolder
    BY DEF MutInv, OwnersOK
  <2>2. db.keys[k].body = RunID(i) \/ By(i)
    BY <2>1 DEF OwnersOK
  <2>3. db.keys[k].body = RunID(j) \/ By(j)
    BY <2>1 DEF OwnersOK
  <2>4. RunID(i) # Null /\ RunID(j) # Null
    <3>1. i \in Nat /\ j \in Nat
      BY DEF MutInv, MutTypeOK, DatabaseOK
    <3> QED BY <3>1, NullAssumption DEF RunID
  <2>5. ASSUME NEW n, By(n) PROVE db.keys[k].body = Null
    BY <2>1, <2>5 DEF HoldersOK, RowIs, Holds, Holding
  <2>6. CASE By(i) /\ By(j)
    BY <2>1, <2>6 DEF OneHolder, Holds, Holding, RunID
  <2> HIDE DEF By
  <2>7. CASE ~By(i) /\ ~By(j)
    <3>1. RunID(i) = RunID(j)
      BY <2>2, <2>3, <2>7
    <3> QED BY <3>1 DEF RunID
  <2> QED BY <2>2, <2>3, <2>4, <2>5, <2>6, <2>7
<1> QED BY <1>1, MutInvariant, PTL

\* While nothing fails a reserved key belongs to one call, which is still working.
THEOREM ReservationsHaveOwners == MutSpec => []ReservationHasOwner
<1>1. MutInv => ReservationHasOwner
  <2> SUFFICES ASSUME MutInv, Unharmed, NEW k \in DOMAIN db.keys, db.keys[k].body = Null
               PROVE  Cardinality({c \in Calls : Asks(c, k) /\ Works(c)}) = 1
    BY DEF ReservationHasOwner
  <2>1. OwnersOK /\ OneHolder
    BY DEF MutInv, OwnersOK
  <2>2. PICK c \in Calls : Holds(call[c]) /\ Key(call[c].req) = k
    BY <2>1 DEF OwnersOK
  <2>3. \A d \in Calls : Works(d) <=> Holds(call[d])
    BY DEF Works, Holds, Holding
  <2>4. call[c].req # Null
    BY <2>2, NullAssumption DEF MutInv, StageOK, Holds, Fit
  <2>5. {d \in Calls : Asks(d, k) /\ Works(d)} = {c}
    BY <2>1, <2>2, <2>3, <2>4 DEF OneHolder, Asks
  <2> QED BY <2>5, FS_Singleton
<1> QED BY <1>1, MutInvariant, PTL

\* An answered run was started for the client's user and key, of a version that was
\* active in the client's room.
THEOREM ClientsGetTheirRun == MutSpec => []AnsweredRunIsRight
<1>1. MutInv => AnsweredRunIsRight
  <2> SUFFICES ASSUME MutInv, ~harm.lateStore, NEW c \in Calls, call[c].reply = "ok",
                      call[c].req.op = "startRun"
               PROVE  RunOf(call[c].req, call[c].result, db)
    BY DEF AnsweredRunIsRight, RunOf
  <2>1. /\ call[c].result # Null /\ RowIs(call[c].req, call[c].result, db)
        /\ call[c].result \in Answers \cup {Null} /\ call[c].req \in Requests
    BY DEF MutInv, MutTypeOK, AnswersOK, StageOK, Call
  <2> QED BY <2>1 DEF MutInv, RowsOK
<1> QED BY <1>1, MutInvariant, PTL

\* An answered publish with activation has made its version the active one, unless
\* its key was also used without activation.
THEOREM AnsweredPublishIsActive == MutSpec => []PublishActivates
<1>1. MutInv => PublishActivates
  <2> SUFFICES ASSUME MutInv, ~harm.lateStore, NEW c \in Calls, call[c].reply = "ok",
                      call[c].req.op = "publish",
                      \A d \in Calls : Asks(d, Key(call[c].req)) => call[d].req.activate # FALSE
               PROVE  <<call[c].req.room, call[c].req.version>> \in db.wasActive
    BY DEF PublishActivates
  <2>1. /\ call[c].result # Null /\ RowIs(call[c].req, call[c].result, db)
        /\ call[c].result \in Answers \cup {Null} /\ call[c].req \in Requests
    BY DEF MutInv, MutTypeOK, AnswersOK, StageOK, Call
  <2>2. ActivatedOrNot(call[c].req, db)
    BY <2>1 DEF MutInv, RowsOK
  <2> QED BY <2>2 DEF ActivatedOrNot
<1> QED BY <1>1, MutInvariant, PTL
=============================================================================

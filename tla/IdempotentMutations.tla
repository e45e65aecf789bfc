------------------------ MODULE IdempotentMutations ------------------------
(***************************************************************************)
(* The two mutations of the GraphQL BFF that are made idempotent by a      *)
(* client request id: RunService.StartRun (internal/engine/a/service/      *)
(* run_service.go) and publish.Service.Publish (internal/platform/publish/ *)
(* service.go).  Both reserve a row of idempotency_keys, do their work,    *)
(* store the response in the row, and delete the row when the work failed; *)
(* every statement is a transaction of its own.  Around them the generated *)
(* GraphQL code reads the input and writes the answer the client gets.     *)
(*                                                                         *)
(* A statement that fails for its caller (cancelled request, broken        *)
(* connection, restart of the BFF) may not have run, or may still run      *)
(* later: it is then an orphan.  Nobody reads expires_at, so time plays no *)
(* part.                                                                   *)
(***************************************************************************)
EXTENDS Integers, Sequences, FiniteSets

CONSTANTS
  Calls,       \* calls of the two mutations, retries included, each made once
  Requests,    \* what a call can ask for
  Trim,        \* Trim[i]: the client request id i without the blanks around it
  UUIDs,       \* the client request ids that are UUIDs of version 4
  Rooms, NoVersion, \* slugs, some of them without a version or a room
  Published,   \* the version each room starts with, or NoVersion
  Null,        \* SQL NULL, nil; null in GraphQL, where it stands for a missing field too
  Blank,       \* a slug, hash or changelog of blanks only
  MaxFaults,   \* bound: failing statements
  MaxCrashes,  \* bound: restarts of the BFF
  MaxOrphans   \* bound: statements running without a caller at one time

\* A request: the mutation, the user, the client request id and the input; startRun
\* takes no version, bundle, changelog or activation.
ASSUME RequestsAssumption ==
  \A r \in Requests : /\ r.op \in {"startRun", "publish"} /\ r.room \in Rooms
                      /\ r.id \in DOMAIN Trim /\ (r.version = Null \/ r.version \in Int)
                      /\ r.activate \in BOOLEAN \cup {Null}
ASSUME PublishedAssumption == Published \in [Rooms -> Int \cup {NoVersion}]
\* A request is told from no request, an answer from no answer.
ASSUME NullAssumption ==
  Null \notin Requests /\ Null \notin ({"run"} \X Nat) \cup ({"version"} \X Rooms \X Int)
ASSUME MutationBounds == MaxFaults \in Nat /\ MaxCrashes \in Nat /\ MaxOrphans \in Nat

VARIABLES
  db,       \* idempotency_keys, runs, room_versions and rooms.active_room_version_id
  call,     \* call[c]: where call c stands, and what it returned
  orphans,  \* statements whose caller no longer waits for them
  harm      \* faults and crashes so far, and whether an UPDATE outlived its call

mutVars == <<db, call, orphans, harm>>

-----------------------------------------------------------------------------
\* MUTANT of Key: the runs of different users share their keys.
KeyWithoutUser(r) == IF r.op = "startRun" THEN <<"startRun", Trim[r.id]>> ELSE <<"publish", r.id>>

\* The key of publishRoomVersion is neither trimmed nor the user's own.
Key(r) ==
  IF r.op = "startRun" THEN <<"startRun", r.user, Trim[r.id]>> ELSE <<"publish", r.id>>

Fingerprint(r) == IF r.op = "startRun" THEN <<r.room>> ELSE <<r.room, r.version, r.hash>>

\* unmarshalInputStartRunInput and unmarshalInputPublishRoomVersionInput: no field of
\* either input may be null.
StartRunInput(r) == r.id # Null /\ r.room # Null
PublishRoomVersionInput(r) ==
  /\ r.id # Null /\ r.room # Null /\ r.version # Null /\ r.hash # Null
  /\ r.changelog # Null /\ r.activate # Null
Unmarshals(r) == IF r.op = "startRun" THEN StartRunInput(r) ELSE PublishRoomVersionInput(r)

\* validateStartRunInput and validateInput.  What else the former asks for (a user, a
\* slug, a version, an engine), the resolver has found by then.
Valid(r) ==
  /\ Trim[r.id] \in UUIDs
  /\ r.op = "publish" => r.version >= 1 /\ Blank \notin {r.room, r.hash, r.changelog}

\* MUTANT of NonNull: the fields of an object are not looked at.
Nullable(object) == object

\* An object with a null in a field whose type does not allow it is null itself.
NonNull(object) == IF \E f \in DOMAIN object : object[f] = Null THEN Null ELSE object

\* mapRoomVersion and the selection of a RoomVersion.
RoomVersion(v) ==
  IF v = Null THEN Null ELSE NonNull([id |-> v, versionNumber |-> v[3], status |-> "PUBLISHED"])
PublishRoomVersionPayload(v) == NonNull([roomVersion |-> RoomVersion(v)])
StartRunPayload(v) == NonNull([runId |-> v, runToken |-> "token"])

\* A Mutation whose payload is null is answered with the error that made it so.
Mutation(op, v) == IF op = "startRun" THEN StartRunPayload(v) ELSE PublishRoomVersionPayload(v)

NewCall == [pc |-> "new", req |-> Null, version |-> NoVersion, result |-> Null, reply |-> "none"]

\* db.wasActive is history: every version a room has pointed to.
MutInit ==
  /\ db = [wasActive |-> {<<r, Published[r]>> : r \in Rooms}, keys |-> [k \in {} |-> Null], runs |-> <<>>,
           versions |-> {<<r, Published[r]>> : r \in {r \in Rooms : Published[r] # NoVersion}},
           active |-> Published]
  /\ call = [c \in Calls |-> NewCall]
  /\ orphans = {}
  /\ harm = [faults |-> 0, crashes |-> 0, lateStore |-> FALSE]

\* INSERT INTO idempotency_keys ... ON CONFLICT (key) DO NOTHING
Reserved(d, k, fp) ==
  [d EXCEPT !.keys = [i \in DOMAIN @ \cup {k} |-> IF i \in DOMAIN d.keys THEN d.keys[i]
                                                  ELSE [fp |-> fp, body |-> Null]]]

\* UPDATE idempotency_keys SET response_body = ... WHERE key = ...
Stored(d, k, result) ==
  IF k \in DOMAIN d.keys THEN [d EXCEPT !.keys[k].body = result] ELSE d

\* MUTANT of Deleted: the reservation is kept.
DeletedNever(d, k) == d

\* DELETE FROM idempotency_keys WHERE key = ... AND response_body IS NULL
Deleted(d, k) ==
  IF k \in DOMAIN d.keys /\ d.keys[k].body = Null
  THEN [d EXCEPT !.keys = [i \in DOMAIN @ \ {k} |-> d.keys[i]]] ELSE d

\* CreateRun: the id of a run stands for its place in runs; key is history.
RunID(i) == <<"run", i>>
RunCreated(d, r, version) ==
  [d EXCEPT !.runs = Append(@, [key |-> Key(r), user |-> r.user, of |-> <<r.room, version>>])]

VersionTaken(d, r) == <<r.room, r.version>> \in d.versions

\* The statement that call x is at, executed on d.
Executed(d, x) ==
  LET r == x.req IN
  CASE x.pc = "reserve" -> Reserved(d, Key(r), Fingerprint(r))
    [] x.pc = "create" -> RunCreated(d, r, x.version)
    [] x.pc = "insert" -> [d EXCEPT !.versions = @ \cup {<<r.room, r.version>>}]
    [] x.pc = "activate" -> [d EXCEPT !.active[r.room] = r.version,
                                     !.wasActive = @ \cup {<<r.room, r.version>>}]
    [] x.pc = "store" -> Stored(d, Key(r), x.result)
    [] x.pc = "release" -> Deleted(d, Key(r))
    [] OTHER -> d

Replied(x, reply) == [x EXCEPT !.pc = "done", !.reply = reply]
Responded(x) == Replied(x, IF Mutation(x.req.op, x.result) = Null THEN "error" ELSE "ok")
At(x, pc) == [x EXCEPT !.pc = pc]
Becomes(c, x) == call' = [call EXCEPT ![c] = x]
Reads(c, x) == Becomes(c, x) /\ UNCHANGED <<db, orphans, harm>>
Writes(c, x) == Becomes(c, x) /\ db' = Executed(db, call[c]) /\ UNCHANGED <<orphans, harm>>

-----------------------------------------------------------------------------
\* The input is read; the resolver of startRun reads the room's active version; then
\* the input is validated.
NoActive(r) == r.op = "startRun" /\ db.active[r.room] = NoVersion
Ask(c, r) ==
  LET x == [NewCall EXCEPT !.req = r, !.version = IF r.op = "startRun" THEN db.active[r.room] ELSE @]
  IN /\ call[c].pc = "new"
     /\ Reads(c, IF ~Unmarshals(r) THEN Replied(x, "invalid")
                 ELSE IF NoActive(r) THEN Replied(x, "notFound")
                 ELSE IF ~Valid(r) THEN Replied(x, "invalid")
                 ELSE At(x, "lookup"))

\* lookupIdempotency
LookedUp(x, absent) ==
  LET k == Key(x.req) IN
  IF k \notin DOMAIN db.keys THEN absent
  ELSE IF db.keys[k].fp # Fingerprint(x.req) THEN Replied(x, "conflict")
  ELSE IF db.keys[k].body = Null THEN Replied(x, "inProgress")
  ELSE [x EXCEPT !.result = db.keys[k].body, !.pc = "answer"]

Lookup(c) ==
  /\ call[c].pc = "lookup"
  /\ Reads(c, LookedUp(call[c], At(call[c], "reserve")))

\* MUTANT of Reserve: the number of rows the INSERT affected is not looked at.
ReserveAlways(c) ==
  /\ call[c].pc = "reserve"
  /\ Writes(c, At(call[c], IF call[c].req.op = "startRun" THEN "create" ELSE "check"))

Reserve(c) ==
  /\ call[c].pc = "reserve"
  /\ Writes(c, At(call[c],
       IF Key(call[c].req) \in DOMAIN db.keys THEN "lookupAgain"
       ELSE IF call[c].req.op = "startRun" THEN "create" ELSE "check"))

\* The key was taken since the lookup.  When it is gone again StartRun reports a
\* request in progress, and Publish returns neither a version nor an error: it is the
\* payload without a roomVersion that makes an error of it.
LookupAgain(c) ==
  /\ call[c].pc = "lookupAgain"
  /\ Reads(c, LookedUp(call[c],
       IF call[c].req.op = "startRun" THEN Replied(call[c], "inProgress")
       ELSE Responded(call[c])))

CreateRun(c) ==
  /\ call[c].pc = "create"
  /\ Writes(c, [At(call[c], "store") EXCEPT !.result = RunID(Len(db.runs) + 1)])

\* The bundle and the room are read; a bundle or a room that is missing, or a read
\* that fails, ends the call.
CheckBundle(c) ==
  /\ call[c].pc = "check"
  /\ \E next \in {"insert", "release"} : Reads(c, At(call[c], next))

\* MUTANT of InsertVersion: the new version is not activated.
InsertVersionOnly(c) ==
  LET r == call[c].req IN
  /\ call[c].pc = "insert"
  /\ ~VersionTaken(db, r)
  /\ Writes(c, [At(call[c], "store") EXCEPT !.result = <<"version", r.room, r.version>>])

\* UNIQUE (room_id, version_number)
InsertVersion(c) ==
  LET r == call[c].req IN
  /\ call[c].pc = "insert"
  /\ IF VersionTaken(db, r) THEN Reads(c, At(call[c], "release"))
     ELSE Writes(c, [At(call[c], IF r.activate THEN "activate" ELSE "store")
                       EXCEPT !.result = <<"version", r.room, r.version>>])

Activate(c) ==
  /\ call[c].pc = "activate"
  /\ Writes(c, At(call[c], "store"))

Store(c) ==
  /\ call[c].pc = "store"
  /\ Writes(c, At(call[c], "answer"))

\* StartRun mints a token for every answer, which may fail; Publish just returns.
Answer(c) ==
  /\ call[c].pc = "answer"
  /\ \/ Reads(c, Responded(call[c]))
     \/ call[c].req.op = "startRun" /\ Reads(c, Replied(call[c], "error"))

\* The deferred DELETE, on the way out with an error.
Release(c) ==
  /\ call[c].pc = "release"
  /\ Writes(c, Replied([call[c] EXCEPT !.result = Null], "error"))

-----------------------------------------------------------------------------
\* A failing lookup or reservation ends the call before there is a deferred
\* DELETE; the error of the deferred DELETE itself is ignored.
StatementFails(c) ==
  /\ call[c].pc \in {"lookup", "reserve", "lookupAgain", "create", "insert", "activate",
                     "store", "release"}
  /\ harm.faults < MaxFaults
  /\ Becomes(c, IF call[c].pc \in {"create", "insert", "activate", "store"}
                THEN At(call[c], "release")
                ELSE Replied([call[c] EXCEPT !.result = Null], "error"))
  /\ \/ /\ UNCHANGED orphans
        /\ harm' = [harm EXCEPT !.faults = @ + 1]
     \/ /\ call[c].pc \notin {"lookup", "lookupAgain"}
        /\ Cardinality(orphans) < MaxOrphans
        /\ orphans' = orphans \cup {call[c]}
        /\ harm' = [harm EXCEPT !.faults = @ + 1, !.lateStore = @ \/ call[c].pc = "store"]
  /\ UNCHANGED db

\* A statement nobody waits for runs, or is refused.
LateStatement(x) ==
  /\ orphans' = orphans \ {x}
  /\ db' = IF x.pc = "insert" /\ VersionTaken(db, x.req) THEN db ELSE Executed(db, x)
  /\ UNCHANGED <<call, harm>>

\* Calls that hold a reservation.
Works(c) == call[c].pc \in {"create", "check", "insert", "activate", "store", "release"}

\* The BFF restarts: its calls end without an answer and without a DELETE, but a
\* statement in progress may still run.
Restart ==
  /\ harm.crashes < MaxCrashes
  /\ \E S \in SUBSET {call[c] : c \in {c \in Calls : Works(c) \/ call[c].pc = "reserve"}} :
       /\ Cardinality(orphans \cup S) <= MaxOrphans
       /\ orphans' = orphans \cup S
       /\ harm' = [harm EXCEPT !.crashes = @ + 1,
                               !.lateStore = @ \/ \E x \in S : x.pc = "store"]
  /\ call' = [c \in Calls |-> IF call[c].pc \in {"new", "done"} THEN call[c]
                              ELSE Replied([call[c] EXCEPT !.result = Null], "lost")]
  /\ UNCHANGED db

\* A call that has begun goes on.
Proceeds(c) ==
  \/ Lookup(c) \/ Reserve(c) \/ LookupAgain(c)
  \/ CreateRun(c)
  \/ CheckBundle(c) \/ InsertVersion(c) \/ Activate(c)
  \/ Store(c) \/ Answer(c) \/ Release(c)

MutNext ==
  \/ \E c \in Calls : (\E r \in Requests : Ask(c, r)) \/ Proceeds(c) \/ StatementFails(c)
  \/ \E x \in orphans : LateStatement(x)
  \/ Restart

MutSpec == MutInit /\ [][MutNext]_mutVars

-----------------------------------------------------------------------------
Unharmed == harm.faults = 0 /\ harm.crashes = 0
Asks(c, k) == call[c].req # Null /\ Key(call[c].req) = k

\* One request id, one answer: clients that are answered without an error for the same
\* key have all been given a run or version, and the same one, whatever overlapped,
\* failed or restarted between them.  Only an
\* UPDATE that is still running when its call gives up can break it: it may land in
\* the reservation of a retry, because it does not look at who reserved the key.
OneAnswer ==
  ~harm.lateStore => \A c, d \in Calls :
    /\ call[c].reply = "ok" /\ call[d].reply = "ok"
    /\ Asks(c, Key(call[d].req))
    => call[c].result = call[d].result /\ call[c].result # Null

\* A request id starts at most one run while nothing fails.  (A CreateRun or an
\* UPDATE that fails for its caller only may leave a run nobody is told of, and
\* the retry starts another one.)
OneRun ==
  Unharmed => \A i, j \in DOMAIN db.runs : db.runs[i].key = db.runs[j].key => i = j

\* While no statement fails and nothing restarts, a reserved key without a
\* response belongs to exactly one call, which is still working: "request in
\* progress" is the truth.
ReservationHasOwner ==
  Unharmed => \A k \in DOMAIN db.keys : db.keys[k].body = Null =>
    Cardinality({c \in Calls : Asks(c, k) /\ Works(c)}) = 1

\* A run that was answered to a client was started for that user and key, of a
\* version that was the active one of the room the client asked for.  (Not when an
\* UPDATE outlived its call: it may belong to another input of the same key.)
AnsweredRunIsRight ==
  ~harm.lateStore => \A c \in Calls : call[c].reply = "ok" /\ call[c].req.op = "startRun" =>
    \E i \in DOMAIN db.runs :
      /\ call[c].result = RunID(i)
      /\ db.runs[i].key = Key(call[c].req)
      /\ db.runs[i].user = call[c].req.user
      /\ db.runs[i].of[1] = call[c].req.room
      /\ db.runs[i].of \in db.wasActive

\* A publish with activation that is answered without an error, be it from the stored
\* response, has made its version the room's active version.  (The fingerprint leaves
\* activate out, so a key first used without activation is excepted, and so is an
\* UPDATE that outlived its call.)
PublishActivates ==
  ~harm.lateStore => \A c \in Calls :
    /\ call[c].reply = "ok" /\ call[c].req.op = "publish"
    /\ \A d \in Calls : Asks(d, Key(call[c].req)) => call[d].req.activate # FALSE
    => <<call[c].req.room, call[c].req.version>> \in db.wasActive
=============================================================================

----------------------- MODULE PublishPipeline_proofs -----------------------
(***************************************************************************)
(* The safety properties of the publication of rooms, for any rooms,       *)
(* contents, commands, edits, failures and runs.                           *)
(***************************************************************************)
EXTENDS PublishPipeline, TLAPS

Packed == {"open", "write", "read", "upload", "ask", "wait", "ok"}
Building == {"write", "read"}
Working == {"check", "insert", "activate", "respond"}
Bytes == Contents \cup {Torn}

ToolRecord ==
  [phase : {"idle"} \cup Reading \cup Packed, room : Rooms \cup {None}, number : Numbers \cup {None},
   activate : BOOLEAN, seen : SUBSET Contents, listed : Contents \cup {None},
   hash : Contents \cup {None}, read : Bytes \cup {None}, shared : BOOLEAN]
CallRecord ==
  [phase : {"none", "answer", "refused"} \cup Working, room : Rooms \cup {None},
   number : Numbers \cup {None}, activate : BOOLEAN, hash : Contents \cup {None}]
RunRecord ==
  [room : Rooms \cup {None}, number : Numbers \cup {None}, plays : Bytes \cup {None},
   played : SUBSET Bytes, refused : Bytes \cup {None}]
Past == [begun : Nat, edits : Nat, faults : Nat, overlap : BOOLEAN, edited : BOOLEAN]

PipelineTypeOK ==
  /\ dir \in [Rooms -> Contents]
  /\ built \in [Rooms -> Bytes \cup {None}]
  /\ store \in [Contents -> Bytes \cup {None}]
  /\ versions \in [Rooms \X Numbers -> Contents \cup {None}]
  /\ active \in [Rooms -> Numbers \cup {None}]
  /\ tool \in [Tools -> ToolRecord]
  /\ call \in [Tools -> CallRecord]
  /\ run \in [Runs -> RunRecord]
  /\ past \in Past

\* A command q, with the directories d, the bundle files b, the store s and history p.
ToolOK(q, d, b, s, p) ==
  /\ q.phase # "idle" => q.room \in Rooms
  /\ q.phase \in Reading => p.edited \/ q.seen = {d[q.room]}
  /\ q.phase \in {"list", "tar"} => p.edited \/ ValidateRoomDir(d[q.room])
  /\ q.phase = "tar" => q.listed \in Contents /\ (p.edited \/ q.listed \in Mixed({d[q.room]}))
  /\ q.phase \in Packed => q.hash \in Contents /\ (p.edited \/ ValidateRoomDir(q.hash))
  /\ q.phase \in Building => b[q.room] # None
  /\ q.phase = "write" => p.overlap \/ ~q.shared
  /\ q.phase = "read" => p.overlap \/ b[q.room] = q.hash
  /\ q.phase = "upload" => q.read # None /\ (p.overlap \/ q.read = q.hash)
  /\ q.phase \in {"ask", "wait", "ok"} => s[q.hash] # None
  /\ q.phase \in {"validate", "read", "upload", "ask", "wait", "ok"} => q.number \in Numbers

\* A publishRoomVersion k, with the store s, the versions v and the active ones a.
CallOK(k, s, v, a) ==
  /\ k.phase \in Working => k.room \in Rooms /\ k.number \in Numbers /\ k.hash \in Contents
  /\ k.phase \in {"insert", "activate", "respond"} => s[k.hash] # None
  /\ k.phase \in {"activate", "respond"} => v[Row(k)] = k.hash
  /\ k.phase = "respond" /\ k.activate => a[k.room] # None

\* A command and the call it has made.
PairOK(q, k, v, a) ==
  /\ q.phase = "wait" => k.phase # "none"
  /\ q.phase = "wait" /\ k.phase \in Working =>
       k.room = q.room /\ k.number = q.number /\ k.hash = q.hash /\ k.activate = q.activate
  /\ q.phase = "ok" \/ (q.phase = "wait" /\ k.phase = "answer") =>
       v[Row(q)] = q.hash /\ (q.activate => a[q.room] # None)

Cause(c) == \/ Holds[c].metadata = "B"
            \/ \E f \in Required : Holds[c][f].state = "odd"

RunOK(r, v, p) ==
  /\ r.room # None => r.number \in Numbers /\ v[Row(r)] # None
  /\ r.room = None => r.played = {}
  /\ \A c \in r.played : p.overlap \/ c = v[Row(r)]
  /\ r.refused # None => p.overlap \/ p.edited \/ Cause(r.refused)

StoreOK(s, p) ==
  \A h \in Contents : s[h] # None => (p.overlap \/ s[h] = h) /\ (p.edited \/ ValidateRoomDir(h))

VersionsOK(v, s, a) ==
  /\ \A w \in Rooms \X Numbers : v[w] # None => s[v[w]] # None
  /\ \A r \in Rooms : a[r] # None => v[<<r, a[r]>>] # None

\* As long as bundle files are not shared, no two commands are at one.
Alone(tl, p) ==
  p.overlap \/ \A t, u \in Tools :
    tl[t].phase \in Building /\ tl[u].phase \in Building /\ tl[t].room = tl[u].room => t = u

PipelineInv ==
  /\ PipelineTypeOK
  /\ \A t \in Tools : /\ ToolOK(tool[t], dir, built, store, past)
                      /\ CallOK(call[t], store, versions, active)
                      /\ PairOK(tool[t], call[t], versions, active)
  /\ \A n \in Runs : RunOK(run[n], versions, past)
  /\ StoreOK(store, past) /\ VersionsOK(versions, store, active) /\ Alone(tool, past)

\* What is stored stays stored, a version keeps its hash, a room stays active, and
\* history only grows.
Onwards ==
  /\ \A h \in Contents : store[h] # None => store'[h] # None
  /\ \A w \in Rooms \X Numbers : versions[w] # None => versions'[w] = versions[w]
  /\ \A r \in Rooms : active[r] # None => active'[r] # None
  /\ past.overlap => past'.overlap
  /\ past.edited => past'.edited

-----------------------------------------------------------------------------
\* The invariants of the runs follow.
LEMMA PipelineImplies ==
  PipelineInv => /\ PublishedIsStored /\ StoredUnderItsHash /\ SuccessIsPublished
                 /\ RunKeepsItsBundle /\ RefusedForCause
<1> SUFFICES ASSUME PipelineInv
             PROVE  /\ PublishedIsStored /\ StoredUnderItsHash /\ SuccessIsPublished
                    /\ RunKeepsItsBundle /\ RefusedForCause
  OBVIOUS
<1>1. PublishedIsStored
  <2>1. \A r \in Rooms : active[r] # None => active[r] \in Numbers /\ versions[<<r, active[r]>>] # None
    BY DEF PipelineInv, PipelineTypeOK, VersionsOK
  <2>2. \A v \in Rooms \X Numbers : versions[v] # None => store[versions[v]] # None
    BY DEF PipelineInv, VersionsOK
  <2> QED
    BY <2>1, <2>2 DEF PublishedIsStored, Room
<1>2. StoredUnderItsHash
  BY DEF PipelineInv, StoreOK, StoredUnderItsHash
<1>3. SuccessIsPublished
  <2> SUFFICES ASSUME NEW t \in Tools, tool[t].phase = "ok"
               PROVE  /\ versions[Row(tool[t])] = tool[t].hash
                      /\ ~past.overlap => store[tool[t].hash] = tool[t].hash
                      /\ tool[t].activate => active[tool[t].room] # None
    BY DEF SuccessIsPublished
  <2>1. versions[Row(tool[t])] = tool[t].hash /\ (tool[t].activate => active[tool[t].room] # None)
    BY DEF PipelineInv, PairOK
  <2>2. tool[t].hash \in Contents /\ store[tool[t].hash] # None
    BY DEF PipelineInv, ToolOK, Packed
  <2> QED
    BY <2>1, <2>2 DEF PipelineInv, StoreOK
<1>4. RunKeepsItsBundle
  BY DEF PipelineInv, RunOK, RunKeepsItsBundle, Pinned
<1>5. RefusedForCause
  BY DEF PipelineInv, RunOK, Cause, RefusedForCause
<1> QED
  BY <1>1, <1>2, <1>3, <1>4, <1>5

LEMMA PipelineStart == PipelineInit => PipelineInv
<1> SUFFICES ASSUME PipelineInit PROVE PipelineInv
  OBVIOUS
<1>1. IdleTool \in ToolRecord /\ NoCall \in CallRecord /\ Unstarted \in RunRecord
  BY DEF IdleTool, NoCall, Unstarted, ToolRecord, CallRecord, RunRecord
<1>2. past \in Past
  BY DEF PipelineInit, Past
<1>3. PipelineTypeOK
  BY <1>1, <1>2 DEF PipelineInit, PipelineTypeOK
<1>4. \A t \in Tools : /\ ToolOK(tool[t], dir, built, store, past)
                       /\ CallOK(call[t], store, versions, active)
                       /\ PairOK(tool[t], call[t], versions, active)
  BY DEF PipelineInit, IdleTool, NoCall, ToolOK, CallOK, PairOK, Reading, Packed, Building, Working
<1>5. \A n \in Runs : RunOK(run[n], versions, past)
  BY DEF PipelineInit, Unstarted, RunOK
<1>6. StoreOK(store, past) /\ VersionsOK(versions, store, active) /\ Alone(tool, past)
  BY DEF PipelineInit, IdleTool, StoreOK, VersionsOK, Alone, Building
<1> QED
  BY <1>3, <1>4, <1>5, <1>6 DEF PipelineInv

-----------------------------------------------------------------------------
\* What holds of a command, a call and a run goes on holding while the directories
\* and the bundle files are left alone.
LEMMA ToolStays ==
  ASSUME Onwards, UNCHANGED <<dir, built>>, NEW q \in ToolRecord, ToolOK(q, dir, built, store, past)
  PROVE  ToolOK(q, dir', built', store', past')
  BY DEF Onwards, ToolOK, Packed

LEMMA CallStays ==
  ASSUME Onwards, NEW k \in CallRecord, NEW q \in ToolRecord,
         CallOK(k, store, versions, active), PairOK(q, k, versions, active),
         q.phase # "idle" => q.room \in Rooms,
         q.phase \in {"wait", "ok"} => q.number \in Numbers /\ q.hash \in Contents
  PROVE  CallOK(k, store', versions', active') /\ PairOK(q, k, versions', active')
<1>1. CallOK(k, store', versions', active')
  <2>1. k.phase \in Working => Row(k) \in Rooms \X Numbers
    BY DEF CallOK, Row
  <2> QED
    BY <2>1, PipelineNames DEF Onwards, CallOK, Working
<1>2. PairOK(q, k, versions', active')
  <2>1. q.phase \in {"wait", "ok"} => Row(q) \in Rooms \X Numbers
    BY DEF Row
  <2> QED
    BY <2>1, PipelineNames DEF Onwards, PairOK
<1> QED
  BY <1>1, <1>2

LEMMA RunStays ==
  ASSUME Onwards, NEW r \in RunRecord, RunOK(r, versions, past)
  PROVE  RunOK(r, versions', past')
<1>1. CASE r.room = None
  BY <1>1 DEF Onwards, RunOK
<1>2. CASE r.room # None
  <2>1. Row(r) \in Rooms \X Numbers /\ versions[Row(r)] # None
    BY <1>2 DEF RunOK, RunRecord, Row
  <2> QED
    BY <1>2, <2>1 DEF Onwards, RunOK
<1> QED
  BY <1>1, <1>2

-----------------------------------------------------------------------------
\* A step of one command or its call that leaves directories, bundle files and runs
\* alone.
LEMMA StepKeeps ==
  ASSUME PipelineInv, Onwards, UNCHANGED <<dir, built, run>>,
         NEW t \in Tools, NEW q \in ToolRecord, NEW k \in CallRecord,
         tool' = [tool EXCEPT ![t] = q], call' = [call EXCEPT ![t] = k],
         past' \in Past, past'.overlap = past.overlap,
         store' \in [Contents -> Bytes \cup {None}],
         versions' \in [Rooms \X Numbers -> Contents \cup {None}],
         active' \in [Rooms -> Numbers \cup {None}],
         StoreOK(store', past'), VersionsOK(versions', store', active'),
         ToolOK(q, dir, built, store', past'), CallOK(k, store', versions', active'),
         PairOK(q, k, versions', active'),
         q.phase \in Building => tool[t].phase \in Building /\ tool[t].room = q.room
  PROVE  PipelineInv'
<1>1. tool' \in [Tools -> ToolRecord] /\ call' \in [Tools -> CallRecord]
  BY DEF PipelineInv, PipelineTypeOK
<1>2. PipelineTypeOK'
  BY <1>1 DEF PipelineInv, PipelineTypeOK
<1>3. ASSUME NEW u \in Tools
      PROVE  /\ ToolOK(tool'[u], dir', built', store', past')
             /\ CallOK(call'[u], store', versions', active')
             /\ PairOK(tool'[u], call'[u], versions', active')
  <2>1. CASE u = t
    BY <2>1 DEF PipelineInv, PipelineTypeOK
  <2>2. CASE u # t
    <3>1. tool'[u] = tool[u] /\ call'[u] = call[u]
      BY <2>2 DEF PipelineInv, PipelineTypeOK
    <3>2. tool[u] \in ToolRecord /\ call[u] \in CallRecord
      BY DEF PipelineInv, PipelineTypeOK
    <3>3. /\ ToolOK(tool[u], dir, built, store, past)
          /\ CallOK(call[u], store, versions, active)
          /\ PairOK(tool[u], call[u], versions, active)
      BY DEF PipelineInv
    <3>4. ToolOK(tool[u], dir', built', store', past')
      BY <3>2, <3>3, ToolStays
    <3>5. /\ tool[u].phase # "idle" => tool[u].room \in Rooms
          /\ tool[u].phase \in {"wait", "ok"} => tool[u].number \in Numbers /\ tool[u].hash \in Contents
      BY <3>3 DEF ToolOK, Packed
    <3> QED
      BY <3>1, <3>2, <3>3, <3>4, <3>5, CallStays
  <2> QED
    BY <2>1, <2>2
<1>4. \A n \in Runs : RunOK(run'[n], versions', past')
  BY RunStays DEF PipelineInv, PipelineTypeOK
<1>5. Alone(tool', past')
  <2>1. \A u \in Tools : tool'[u].phase \in Building =>
          tool[u].phase \in Building /\ tool[u].room = tool'[u].room
    BY DEF PipelineInv, PipelineTypeOK
  <2> QED
    BY <2>1 DEF PipelineInv, Alone
<1> QED
  BY <1>2, <1>3, <1>4, <1>5 DEF PipelineInv

\* One that leaves the store and the database alone, too.
LEMMA LocalStepKeeps ==
  ASSUME PipelineInv, UNCHANGED <<dir, built, run, store, versions, active>>,
         NEW t \in Tools, NEW q \in ToolRecord, NEW k \in CallRecord,
         tool' = [tool EXCEPT ![t] = q], call' = [call EXCEPT ![t] = k],
         past' \in Past, past'.overlap = past.overlap, past'.edited = past.edited,
         ToolOK(q, dir, built, store, past), CallOK(k, store, versions, active),
         PairOK(q, k, versions, active),
         q.phase \in Building => tool[t].phase \in Building /\ tool[t].room = q.room
  PROVE  PipelineInv'
<1>1. Onwards
  BY DEF Onwards
<1>2. /\ store' \in [Contents -> Bytes \cup {None}]
      /\ versions' \in [Rooms \X Numbers -> Contents \cup {None}]
      /\ active' \in [Rooms -> Numbers \cup {None}]
  BY DEF PipelineInv, PipelineTypeOK
<1>3. StoreOK(store', past') /\ VersionsOK(versions', store', active')
  BY DEF PipelineInv, StoreOK, VersionsOK
<1>4. ToolOK(q, dir, built, store', past')
  BY DEF ToolOK
<1> QED
  BY <1>1, <1>2, <1>3, <1>4, StepKeeps

LEMMA Known ==
  ASSUME PipelineInv, NEW t \in Tools
  PROVE  /\ tool[t] \in ToolRecord /\ call[t] \in CallRecord
         /\ ToolOK(tool[t], dir, built, store, past)
         /\ CallOK(call[t], store, versions, active)
         /\ PairOK(tool[t], call[t], versions, active)
         /\ tool = [tool EXCEPT ![t] = tool[t]] /\ call = [call EXCEPT ![t] = call[t]]
  BY DEF PipelineInv, PipelineTypeOK

LEMMA IdleIsFine ==
  /\ IdleTool \in ToolRecord /\ NoCall \in CallRecord
  /\ ToolOK(IdleTool, dir, built, store, past) /\ CallOK(NoCall, store, versions, active)
  /\ \A k \in CallRecord : PairOK(IdleTool, k, versions, active)
<1>1. IdleTool \in ToolRecord /\ NoCall \in CallRecord
  BY DEF IdleTool, NoCall, ToolRecord, CallRecord
<1>2. ToolOK(IdleTool, dir, built, store, past)
  BY DEF IdleTool, ToolOK, Reading, Packed, Building
<1>3. CallOK(NoCall, store, versions, active)
  BY DEF NoCall, CallOK, Working
<1>4. \A k \in CallRecord : PairOK(IdleTool, k, versions, active)
  BY DEF IdleTool, PairOK
<1> QED
  BY <1>1, <1>2, <1>3, <1>4

\* A command that ends, whatever becomes of its call.
LEMMA EndKeeps ==
  ASSUME PipelineInv, UNCHANGED <<dir, built, run, store, versions, active>>,
         NEW t \in Tools, NEW k \in CallRecord, Fails(t), call' = [call EXCEPT ![t] = k],
         past' \in Past, past'.overlap = past.overlap, past'.edited = past.edited,
         CallOK(k, store, versions, active)
  PROVE  PipelineInv'
<1>1. tool' = [tool EXCEPT ![t] = IdleTool]
  BY DEF Fails
<1>2. IdleTool.phase \notin Building
  BY DEF IdleTool, Building
<1> QED
  BY <1>1, <1>2, IdleIsFine, LocalStepKeeps

LEMMA FaultIsPast ==
  ASSUME PipelineInv, Faulty \/ Begun
  PROVE  past' \in Past /\ past'.overlap = past.overlap /\ past'.edited = past.edited
  BY DEF PipelineInv, PipelineTypeOK, Past, Faulty, Begun

\* Contents with the same metadata and files are equally valid.
LEMMA AsValid ==
  ASSUME NEW s \in Contents, NEW c \in Contents,
         Holds[c].metadata = Holds[s].metadata, \A f \in Required : Holds[c][f] = Holds[s][f]
  PROVE  ValidateRoomDir(c) <=> ValidateRoomDir(s)
<1>1. SameKeys(c) <=> SameKeys(s)
  BY DEF SameKeys, Required
<1>2. Parses(c, Required, {"odd", "good"}) <=> Parses(s, Required, {"odd", "good"})
  BY DEF Parses
<1> QED
  BY <1>1, <1>2 DEF ValidateRoomDir

\* Where all files of a content are those of one directory, it is as valid as that.
LEMMA MixedOne ==
  ASSUME NEW s \in Contents, NEW c \in Mixed({s})
  PROVE  /\ c \in Contents /\ (ValidateRoomDir(c) <=> ValidateRoomDir(s))
         /\ Holds[c].metadata = Holds[s].metadata /\ \A f \in Required : Holds[c][f] = Holds[s][f]
<1>1. c \in Contents /\ Holds[c] \in Content /\ Holds[s] \in Content
  BY PipelineContents DEF Mixed
<1>2. \A f \in DOMAIN Holds[c] : Holds[c][f] = Holds[s][f]
  BY DEF Mixed
<1>3. DOMAIN Holds[c] = {"metadata", "leak"} \cup Required
  BY <1>1 DEF Content, Required
<1>4. Holds[c].metadata = Holds[s].metadata /\ \A f \in Required : Holds[c][f] = Holds[s][f]
  BY <1>2, <1>3
<1> QED
  BY <1>1, <1>4, AsValid

-----------------------------------------------------------------------------
\* roomctl, but for its bundle file.
LEMMA BeginKeeps ==
  ASSUME PipelineInv, NEW t \in Tools, NEW r \in Rooms, NEW n \in Numbers \cup {None},
         NEW activate \in BOOLEAN, Begin(t, r, n, activate)
  PROVE  PipelineInv'
<1> DEFINE q == [IdleTool EXCEPT !.room = r, !.number = n, !.activate = activate,
                   !.phase = IF n = None THEN "build" ELSE "validate", !.seen = {dir[r]}]
<1>1. q \in ToolRecord /\ q.phase \in {"validate", "build"} /\ q.phase \notin Building
  BY DEF PipelineInv, PipelineTypeOK, IdleTool, ToolRecord, Reading, Building
<1>2. ToolOK(q, dir, built, store, past)
  BY <1>1 DEF ToolOK, IdleTool, Reading, Packed, Building
<1>3. PairOK(q, NoCall, versions, active)
  BY <1>1 DEF PairOK
<1>4. tool' = [tool EXCEPT ![t] = q] /\ call' = [call EXCEPT ![t] = NoCall]
  BY DEF Begin
<1>5. past' \in Past /\ past'.overlap = past.overlap /\ past'.edited = past.edited
  BY FaultIsPast DEF Begin
<1>6. UNCHANGED <<dir, built, run, store, versions, active>>
  BY DEF Begin
<1> HIDE DEF q
<1> QED
  BY <1>1, <1>2, <1>3, <1>4, <1>5, <1>6, IdleIsFine, LocalStepKeeps

\* A step of a command that has no call under way that it waits for.
LEMMA AdvanceKeeps ==
  ASSUME PipelineInv, NEW t \in Tools, NEW q \in ToolRecord, tool' = [tool EXCEPT ![t] = q],
         UNCHANGED <<dir, built, store, versions, active, call, run, past>>,
         ToolOK(q, dir, built, store, past), PairOK(q, call[t], versions, active),
         q.phase \in Building => tool[t].phase \in Building /\ tool[t].room = q.room
  PROVE  PipelineInv'
<1>1. past' \in Past /\ past'.overlap = past.overlap /\ past'.edited = past.edited
  BY DEF PipelineInv, PipelineTypeOK
<1>2. call' = [call EXCEPT ![t] = call[t]]
  BY Known
<1> QED
  BY <1>1, <1>2, Known, LocalStepKeeps

LEMMA FailKeeps ==
  ASSUME PipelineInv, NEW t \in Tools, Fails(t),
         UNCHANGED <<dir, built, store, versions, active, call, run, past>>
  PROVE  PipelineInv'
<1>1. IdleTool.phase \notin Building
  BY DEF IdleTool, Building
<1> QED
  BY <1>1, Known, IdleIsFine, AdvanceKeeps DEF Fails

LEMMA ValidateKeeps ==
  ASSUME PipelineInv, NEW t \in Tools, Validate(t)
  PROVE  PipelineInv'
<1> DEFINE p == IF tool[t].phase = "validate" THEN "build" ELSE "list"
           d == {dir[tool[t].room]}
           q == [tool[t] EXCEPT !.phase = p, !.seen = d]
<1>1. tool[t] \in ToolRecord /\ ToolOK(tool[t], dir, built, store, past)
  BY Known
<1>2. tool[t].phase \in {"validate", "build"} /\ tool[t].room \in Rooms
  BY <1>1 DEF Validate, At, ToolOK
<1>3. PICK c \in Mixed(tool[t].seen) :
        \/ ValidateRoomDir(c) /\ tool' = [tool EXCEPT ![t] = q]
        \/ Fails(t)
  BY <1>1, <1>2 DEF Validate, At, PipelineInv, PipelineTypeOK
<1>4. UNCHANGED <<dir, built, store, versions, active, call, run, past>>
  BY DEF Validate
<1>5. CASE ValidateRoomDir(c) /\ tool' = [tool EXCEPT ![t] = q]
  <2>1. dir[tool[t].room] \in Contents
    BY <1>2 DEF PipelineInv, PipelineTypeOK
  <2>2. q \in ToolRecord /\ q.phase = p /\ q.seen = d /\ q.room = tool[t].room /\ q.number = tool[t].number
    BY <1>1, <1>2, <2>1 DEF ToolRecord, Reading
  <2> HIDE DEF q
  <2>3. past.edited \/ tool[t].seen = {dir[tool[t].room]}
    BY <1>1, <1>2 DEF ToolOK, Reading
  <2>4. past.edited \/ ValidateRoomDir(dir[tool[t].room])
    BY <1>5, <2>1, <2>3, MixedOne
  <2>5. ToolOK(q, dir, built, store, past)
    BY <1>1, <1>2, <2>2, <2>3, <2>4 DEF ToolOK, Reading, Packed, Building
  <2>6. PairOK(q, call[t], versions, active) /\ q.phase \notin Building
    BY <2>2 DEF PairOK, Building
  <2> QED
    BY <1>4, <1>5, <2>2, <2>5, <2>6, AdvanceKeeps
<1> QED
  BY <1>3, <1>4, <1>5, FailKeeps

LEMMA ListKeeps ==
  ASSUME PipelineInv, NEW t \in Tools, List(t)
  PROVE  PipelineInv'
<1>1. tool[t] \in ToolRecord /\ ToolOK(tool[t], dir, built, store, past)
  BY Known
<1>2. tool[t].phase = "list" /\ tool[t].room \in Rooms
  BY <1>1 DEF List, At, ToolOK
<1>3. UNCHANGED <<dir, built, store, versions, active, call, run, past>>
  BY DEF List
<1> DEFINE d == {dir[tool[t].room]}
<1>4. PICK c \in Mixed(tool[t].seen) :
        \/ tool' = [tool EXCEPT ![t].phase = "tar", ![t].listed = c, ![t].seen = d]
        \/ Fails(t)
  BY DEF List
<1> DEFINE q == [tool[t] EXCEPT !.phase = "tar", !.listed = c, !.seen = d]
<1>5. CASE tool' = [tool EXCEPT ![t].phase = "tar", ![t].listed = c, ![t].seen = d]
  <2>1. tool' = [tool EXCEPT ![t] = q]
    BY <1>5 DEF PipelineInv, PipelineTypeOK
  <2>2. c \in Contents /\ dir[tool[t].room] \in Contents
    BY <1>2 DEF PipelineInv, PipelineTypeOK, Mixed
  <2>3. /\ q \in ToolRecord /\ q.phase = "tar" /\ q.listed = c /\ q.room = tool[t].room
        /\ q.seen = d
    BY <1>1, <2>2 DEF ToolRecord, Reading
  <2> HIDE DEF q
  <2>4. past.edited \/ c \in Mixed(d)
    BY <1>1, <1>2, <2>2 DEF ToolOK, Reading
  <2>5. ToolOK(q, dir, built, store, past)
    BY <1>1, <1>2, <2>2, <2>3, <2>4 DEF ToolOK, Reading, Packed, Building
  <2>6. PairOK(q, call[t], versions, active) /\ q.phase \notin Building
    BY <2>3 DEF PairOK, Building
  <2> QED
    BY <1>3, <2>1, <2>3, <2>5, <2>6, AdvanceKeeps
<1> QED
  BY <1>3, <1>4, <1>5, FailKeeps

LEMMA PackKeeps ==
  ASSUME PipelineInv, NEW t \in Tools, Pack(t)
  PROVE  PipelineInv'
<1>1. tool[t] \in ToolRecord /\ ToolOK(tool[t], dir, built, store, past)
  BY Known
<1>2. tool[t].phase = "tar" /\ tool[t].room \in Rooms /\ dir[tool[t].room] \in Contents
  BY <1>1 DEF Pack, At, ToolOK, PipelineInv, PipelineTypeOK
<1>3. UNCHANGED <<dir, built, store, versions, active, call, run, past>>
  BY DEF Pack
<1> DEFINE l == tool[t].listed
<1>4. PICK c \in Mixed(tool[t].seen) :
        \/ \E b \in Archive(l, c) :
             tool' = [tool EXCEPT ![t].phase = "open", ![t].hash = b, ![t].seen = {}]
        \/ Fails(t)
  BY DEF Pack
<1> HIDE DEF l
<1>5. ASSUME NEW b \in Archive(l, c),
             tool' = [tool EXCEPT ![t].phase = "open", ![t].hash = b, ![t].seen = {}]
      PROVE  PipelineInv'
  <2> DEFINE q == [tool[t] EXCEPT !.phase = "open", !.hash = b, !.seen = {}]
  <2>1. tool' = [tool EXCEPT ![t] = q]
    BY <1>5 DEF PipelineInv, PipelineTypeOK
  <2>2. b \in Contents /\ c \in Contents
    BY DEF Archive, Mixed
  <2>3. q \in ToolRecord /\ q.phase = "open" /\ q.hash = b /\ q.room = tool[t].room
    BY <1>1, <2>2 DEF ToolRecord, Packed
  <2> HIDE DEF q
  <2>4. past.edited \/ ValidateRoomDir(b)
    <3> SUFFICES ASSUME ~past.edited PROVE ValidateRoomDir(b)
      OBVIOUS
    <3> DEFINE d == dir[tool[t].room]
    <3>1. c \in Mixed({d}) /\ l \in Mixed({d}) /\ ValidateRoomDir(d) /\ d \in Contents
      BY <1>1, <1>2 DEF ToolOK, Reading, l
    <3> HIDE DEF d
    <3>2. /\ Holds[c].metadata = Holds[d].metadata
          /\ \A f \in Required : Holds[c][f] = Holds[d][f] /\ Holds[l][f] = Holds[d][f]
      BY <3>1, MixedOne
    <3>3. Holds[b].metadata = Holds[d].metadata /\ \A f \in Required : Holds[b][f] = Holds[d][f]
      BY <3>2 DEF Archive
    <3> QED
      BY <2>2, <3>1, <3>3, AsValid
  <2>5. ToolOK(q, dir, built, store, past)
    BY <1>2, <2>2, <2>3, <2>4 DEF ToolOK, Reading, Packed, Building
  <2>6. PairOK(q, call[t], versions, active) /\ q.phase \notin Building
    BY <2>3 DEF PairOK, Building
  <2> QED
    BY <1>3, <2>1, <2>3, <2>5, <2>6, AdvanceKeeps
<1> QED
  BY <1>3, <1>4, <1>5, FailKeeps

LEMMA ReadBundleKeeps ==
  ASSUME PipelineInv, NEW t \in Tools, ReadBundle(t)
  PROVE  PipelineInv'
<1> DEFINE b == built[tool[t].room]
           q == [tool[t] EXCEPT !.phase = "upload", !.read = b]
<1>1. tool[t] \in ToolRecord /\ ToolOK(tool[t], dir, built, store, past)
  BY Known
<1>2. tool[t].phase = "read" /\ tool[t].room \in Rooms
  BY <1>1 DEF ReadBundle, At, ToolOK
<1>3. tool' = [tool EXCEPT ![t] = q]
  BY DEF ReadBundle, PipelineInv, PipelineTypeOK
<1>4. b \in Bytes \cup {None}
  BY <1>2 DEF PipelineInv, PipelineTypeOK
<1> HIDE DEF b
<1>5. /\ q \in ToolRecord /\ q.phase = "upload" /\ q.read = b /\ q.room = tool[t].room
      /\ q.number = tool[t].number /\ q.hash = tool[t].hash
  BY <1>1, <1>4 DEF ToolRecord, Packed
<1> HIDE DEF q
<1>6. ToolOK(q, dir, built, store, past)
  BY <1>1, <1>2, <1>5 DEF ToolOK, Reading, Packed, Building, b
<1>7. PairOK(q, call[t], versions, active) /\ q.phase \notin Building
  BY <1>5 DEF PairOK, Building
<1> QED
  BY <1>3, <1>5, <1>6, <1>7, AdvanceKeeps DEF ReadBundle

LEMMA UploadKeeps ==
  ASSUME PipelineInv, NEW t \in Tools, Upload(t)
  PROVE  PipelineInv'
<1> DEFINE q == [tool[t] EXCEPT !.phase = "ask"]
           h == tool[t].hash
           b == tool[t].read
<1>1. /\ tool[t] \in ToolRecord /\ ToolOK(tool[t], dir, built, store, past)
      /\ call[t] \in CallRecord /\ CallOK(call[t], store, versions, active)
      /\ call = [call EXCEPT ![t] = call[t]]
  BY Known
<1>2. tool[t].phase = "upload" /\ tool[t].room \in Rooms
  BY <1>1 DEF Upload, At, ToolOK
<1>3. /\ tool' = [tool EXCEPT ![t] = q] /\ store' = [store EXCEPT ![h] = b]
      /\ UNCHANGED <<dir, built, versions, active, call, run, past>>
  BY DEF Upload, To, PipelineInv, PipelineTypeOK
<1>4. /\ h \in Contents /\ b \in Bytes /\ (past.overlap \/ b = h)
      /\ (past.edited \/ ValidateRoomDir(h)) /\ tool[t].number \in Numbers
  BY <1>1, <1>2 DEF ToolOK, ToolRecord, Packed
<1>5. /\ q \in ToolRecord /\ q.phase = "ask" /\ q.hash = h /\ q.room = tool[t].room
      /\ q.number = tool[t].number
  BY <1>1 DEF ToolRecord, Packed
<1> HIDE DEF q, h, b
<1>6. None \notin Bytes
  BY PipelineNames DEF Bytes
<1>7. /\ store \in [Contents -> Bytes \cup {None}] /\ store' \in [Contents -> Bytes \cup {None}]
      /\ \A g \in Contents : store[g] # None => store'[g] # None
      /\ store'[h] = b /\ \A g \in Contents \ {h} : store'[g] = store[g]
  BY <1>3, <1>4, <1>6 DEF PipelineInv, PipelineTypeOK
<1>8. Onwards
  BY <1>3, <1>7 DEF Onwards
<1>9. StoreOK(store', past')
  BY <1>3, <1>4, <1>7 DEF PipelineInv, StoreOK
<1>10. VersionsOK(versions', store', active')
  BY <1>3, <1>7, PipelineNames DEF PipelineInv, PipelineTypeOK, VersionsOK
<1>11. ToolOK(q, dir, built, store', past')
  BY <1>2, <1>3, <1>4, <1>5, <1>6, <1>7 DEF ToolOK, Reading, Packed, Building
<1>12. CallOK(call[t], store', versions', active')
  BY <1>1, <1>3, <1>7 DEF CallOK, Working
<1>13. PairOK(q, call[t], versions', active') /\ q.phase \notin Building
  BY <1>5 DEF PairOK, Building
<1>14. /\ past' \in Past /\ past'.overlap = past.overlap
       /\ versions' \in [Rooms \X Numbers -> Contents \cup {None}]
       /\ active' \in [Rooms -> Numbers \cup {None}]
  BY <1>3 DEF PipelineInv, PipelineTypeOK
<1>15. call' = [call EXCEPT ![t] = call[t]]
  BY <1>1, <1>3
<1> QED
  BY <1>1, <1>3, <1>5, <1>7, <1>8, <1>9, <1>10, <1>11, <1>12, <1>13, <1>14, <1>15, StepKeeps

LEMMA AskKeeps ==
  ASSUME PipelineInv, NEW t \in Tools, Ask(t)
  PROVE  PipelineInv'
<1> DEFINE q == [tool[t] EXCEPT !.phase = "wait"]
           k == [phase |-> "check", room |-> tool[t].room, number |-> tool[t].number,
                 activate |-> tool[t].activate, hash |-> tool[t].hash]
<1>1. tool[t] \in ToolRecord /\ ToolOK(tool[t], dir, built, store, past)
  BY Known
<1>2. /\ tool[t].phase = "ask" /\ tool[t].room \in Rooms /\ tool[t].number \in Numbers
      /\ tool[t].hash \in Contents
  BY <1>1 DEF Ask, At, ToolOK, Packed
<1>3. /\ tool' = [tool EXCEPT ![t] = q] /\ call' = [call EXCEPT ![t] = k]
      /\ UNCHANGED <<dir, built, store, versions, active, run, past>>
  BY DEF Ask, To, PipelineInv, PipelineTypeOK
<1>4. q \in ToolRecord /\ k \in CallRecord
  BY <1>1 DEF ToolRecord, CallRecord, Packed, Working
<1>5. /\ q.phase = "wait" /\ q.hash = tool[t].hash /\ q.room = tool[t].room
      /\ q.number = tool[t].number /\ q.activate = tool[t].activate
      /\ k.phase = "check" /\ k.hash = q.hash /\ k.room = q.room /\ k.number = q.number
      /\ k.activate = q.activate
  BY <1>1 DEF ToolRecord
<1> HIDE DEF q, k
<1>6. ToolOK(q, dir, built, store, past)
  BY <1>1, <1>2, <1>5 DEF ToolOK, Reading, Packed, Building
<1>7. CallOK(k, store, versions, active)
  BY <1>2, <1>5 DEF CallOK, Working
<1>8. PairOK(q, k, versions, active) /\ q.phase \notin Building
  BY <1>5 DEF PairOK, Building, Working
<1>9. past' \in Past /\ past'.overlap = past.overlap /\ past'.edited = past.edited
  BY <1>3 DEF PipelineInv, PipelineTypeOK
<1> QED
  BY <1>3, <1>4, <1>6, <1>7, <1>8, <1>9, LocalStepKeeps

LEMMA HearKeeps ==
  ASSUME PipelineInv, NEW t \in Tools, Hear(t)
  PROVE  PipelineInv'
<1> DEFINE q == [tool[t] EXCEPT !.phase = "ok"]
<1>1. /\ tool[t] \in ToolRecord /\ ToolOK(tool[t], dir, built, store, past)
      /\ PairOK(tool[t], call[t], versions, active)
  BY Known
<1>2. /\ tool[t].phase = "wait"
      /\ UNCHANGED <<dir, built, store, versions, active, call, run, past>>
  BY DEF Hear, At
<1>3. CASE call[t].phase = "answer" /\ To(t, "ok")
  <2>1. tool' = [tool EXCEPT ![t] = q]
    BY <1>3 DEF To, PipelineInv, PipelineTypeOK
  <2>2. /\ q \in ToolRecord /\ q.phase = "ok" /\ q.hash = tool[t].hash /\ q.room = tool[t].room
        /\ q.number = tool[t].number /\ q.activate = tool[t].activate
    BY <1>1 DEF ToolRecord, Packed
  <2> HIDE DEF q
  <2>3. ToolOK(q, dir, built, store, past)
    BY <1>1, <1>2, <2>2 DEF ToolOK, Reading, Packed, Building
  <2>4. PairOK(q, call[t], versions, active) /\ q.phase \notin Building
    BY <1>1, <1>2, <1>3, <2>2 DEF PairOK, Building, Row
  <2> QED
    BY <1>2, <2>1, <2>2, <2>3, <2>4, AdvanceKeeps
<1>4. CASE Fails(t)
  BY <1>2, <1>4, FailKeeps
<1> QED
  BY <1>3, <1>4 DEF Hear

LEMMA GivesUpKeeps ==
  ASSUME PipelineInv, NEW t \in Tools, GivesUp(t)
  PROVE  PipelineInv'
<1>1. Faulty /\ Fails(t) /\ UNCHANGED <<dir, built, store, versions, active, call, run>>
  BY DEF GivesUp
<1>2. call' = [call EXCEPT ![t] = call[t]]
  BY <1>1, Known
<1> QED
  BY <1>1, <1>2, Known, FaultIsPast, EndKeeps

-----------------------------------------------------------------------------
\* publishRoomVersion.
LEMMA PublishByHandKeeps ==
  ASSUME PipelineInv, NEW t \in Tools, NEW r \in Rooms, NEW n \in Numbers,
         NEW activate \in BOOLEAN, NEW h \in Contents, PublishByHand(t, r, n, activate, h)
  PROVE  PipelineInv'
<1> DEFINE k == [phase |-> "check", room |-> r, number |-> n, activate |-> activate, hash |-> h]
<1>1. k \in CallRecord
  BY DEF CallRecord, Working
<1>2. CallOK(k, store, versions, active)
  BY DEF CallOK, Working
<1>3. /\ Begun /\ Fails(t) /\ call' = [call EXCEPT ![t] = k]
      /\ UNCHANGED <<dir, built, store, versions, active, run>>
  BY DEF PublishByHand, Fails
<1> HIDE DEF k
<1> QED
  BY <1>1, <1>2, <1>3, FaultIsPast, EndKeeps

\* A step of a call that leaves the store and the database alone.
LEMMA ServeKeeps ==
  ASSUME PipelineInv, NEW t \in Tools, NEW k \in CallRecord, call' = [call EXCEPT ![t] = k],
         UNCHANGED <<dir, built, store, versions, active, tool, run>>,
         past' \in Past, past'.overlap = past.overlap, past'.edited = past.edited,
         CallOK(k, store, versions, active), PairOK(tool[t], k, versions, active)
  PROVE  PipelineInv'
<1>1. tool' = [tool EXCEPT ![t] = tool[t]]
  BY Known
<1> QED
  BY <1>1, Known, LocalStepKeeps

LEMMA CheckStoredKeeps ==
  ASSUME PipelineInv, NEW t \in Tools, CheckStored(t)
  PROVE  PipelineInv'
<1> DEFINE k == IF store[call[t].hash] = None THEN [NoCall EXCEPT !.phase = "refused"]
                ELSE [call[t] EXCEPT !.phase = "insert"]
<1>1. /\ call[t] \in CallRecord /\ call[t].phase = "check"
      /\ CallOK(call[t], store, versions, active) /\ PairOK(tool[t], call[t], versions, active)
  BY Known DEF CheckStored, Serving
<1>2. /\ call' = [call EXCEPT ![t] = k]
      /\ UNCHANGED <<dir, built, store, versions, active, tool, run, past>>
  BY DEF CheckStored, Exists, Serves, Ends, PipelineInv, PipelineTypeOK
<1>3. k \in CallRecord
  BY <1>1 DEF CallRecord, NoCall, Working
<1>4. CallOK(k, store, versions, active)
  BY <1>1, <1>3 DEF CallOK, NoCall, Working, CallRecord
<1>5. PairOK(tool[t], k, versions, active)
  BY <1>1 DEF PairOK, NoCall, Working, CallRecord
<1>6. past' \in Past /\ past'.overlap = past.overlap /\ past'.edited = past.edited
  BY <1>2 DEF PipelineInv, PipelineTypeOK
<1> HIDE DEF k
<1> QED
  BY <1>2, <1>3, <1>4, <1>5, <1>6, ServeKeeps

LEMMA RefuseKeeps ==
  ASSUME PipelineInv, NEW t \in Tools, call[t].phase \in Working, Ends(t, "refused"),
         UNCHANGED <<dir, built, store, versions, active, tool, run>>,
         past' \in Past, past'.overlap = past.overlap, past'.edited = past.edited
  PROVE  PipelineInv'
<1> DEFINE k == [NoCall EXCEPT !.phase = "refused"]
<1>1. call' = [call EXCEPT ![t] = k]
  BY DEF Ends
<1>2. k \in CallRecord /\ CallOK(k, store, versions, active)
  BY DEF CallRecord, NoCall, CallOK, Working
<1>3. PairOK(tool[t], k, versions, active)
  BY Known DEF PairOK, NoCall, Working
<1> HIDE DEF k
<1> QED
  BY <1>1, <1>2, <1>3, ServeKeeps

LEMMA InsertVersionKeeps ==
  ASSUME PipelineInv, NEW t \in Tools, InsertVersion(t)
  PROVE  PipelineInv'
<1> DEFINE p == IF call[t].activate THEN "activate" ELSE "respond"
           k == [call[t] EXCEPT !.phase = p]
           w == Row(call[t])
<1>1. /\ call[t] \in CallRecord /\ call[t].phase = "insert"
      /\ CallOK(call[t], store, versions, active) /\ PairOK(tool[t], call[t], versions, active)
      /\ tool[t] \in ToolRecord /\ ToolOK(tool[t], dir, built, store, past)
      /\ tool = [tool EXCEPT ![t] = tool[t]]
  BY Known DEF InsertVersion, Serving
<1>2. UNCHANGED <<dir, built, store, active, tool, run, past>>
  BY DEF InsertVersion
<1>3. past' \in Past /\ past'.overlap = past.overlap /\ past'.edited = past.edited
  BY <1>2 DEF PipelineInv, PipelineTypeOK
<1>4. CASE versions[w] = None
  <2>1. versions' = [versions EXCEPT ![w] = call[t].hash] /\ call' = [call EXCEPT ![t] = k]
    BY <1>4 DEF InsertVersion, Inserted, AfterInsert, Serves, PipelineInv, PipelineTypeOK
  <2>2. /\ w \in Rooms \X Numbers /\ w = <<call[t].room, call[t].number>>
        /\ call[t].hash \in Contents /\ store[call[t].hash] # None
    BY <1>1 DEF CallOK, Working, Row
  <2>3. /\ k \in CallRecord /\ k.phase = p /\ k.room = call[t].room /\ k.number = call[t].number
        /\ k.hash = call[t].hash /\ k.activate = call[t].activate /\ Row(k) = w
    BY <1>1 DEF CallRecord, Working, Row
  <2>4. k.phase \in {"activate", "respond"} /\ (k.phase = "respond" => ~k.activate)
    BY <2>3
  <2> HIDE DEF w, k
  <2>5. /\ versions' \in [Rooms \X Numbers -> Contents \cup {None}]
        /\ versions'[w] = call[t].hash /\ \A v \in (Rooms \X Numbers) \ {w} : versions'[v] = versions[v]
    BY <2>1, <2>2 DEF PipelineInv, PipelineTypeOK
  <2>6. Onwards
    BY <1>2, <1>4, <2>5 DEF Onwards
  <2>7. StoreOK(store', past')
    BY <1>2 DEF PipelineInv, StoreOK
  <2>8. VersionsOK(versions', store', active')
    <3>1. \A v \in Rooms \X Numbers : versions'[v] # None => store[versions'[v]] # None
      BY <2>2, <2>5 DEF PipelineInv, VersionsOK
    <3>2. \A r \in Rooms : active[r] # None => versions'[<<r, active[r]>>] # None
      <4> SUFFICES ASSUME NEW r \in Rooms, active[r] # None PROVE versions'[<<r, active[r]>>] # None
        OBVIOUS
      <4>1. <<r, active[r]>> \in Rooms \X Numbers /\ versions[<<r, active[r]>>] # None
        BY DEF PipelineInv, PipelineTypeOK, VersionsOK
      <4> QED
        BY <1>4, <2>5, <4>1
    <3> QED
      BY <1>2, <3>1, <3>2 DEF VersionsOK
  <2>9. ToolOK(tool[t], dir, built, store', past')
    BY <1>1, <1>2
  <2>10. CallOK(k, store', versions', active')
    BY <1>2, <2>2, <2>3, <2>4, <2>5 DEF CallOK, Working
  <2>11. PairOK(tool[t], k, versions', active')
    <3>1. tool[t].phase = "ok" => Row(tool[t]) \in Rooms \X Numbers /\ versions[Row(tool[t])] # None
      BY <1>1, PipelineNames DEF ToolOK, PairOK, Row, Packed
    <3> QED
      BY <1>1, <1>2, <1>4, <2>3, <2>4, <2>5, <3>1 DEF PairOK, Working
  <2>12. active' \in [Rooms -> Numbers \cup {None}] /\ store' \in [Contents -> Bytes \cup {None}]
    BY <1>2 DEF PipelineInv, PipelineTypeOK
  <2>13. tool' = [tool EXCEPT ![t] = tool[t]] /\ UNCHANGED <<dir, built, run>>
    BY <1>1, <1>2
  <2> QED
    BY <1>1, <1>3, <2>1, <2>3, <2>5, <2>6, <2>7, <2>8, <2>9, <2>10, <2>11, <2>12, <2>13, StepKeeps
<1>5. CASE versions[w] # None
  <2>1. Ends(t, "refused") /\ UNCHANGED versions
    BY <1>5 DEF InsertVersion
  <2> QED
    BY <1>1, <1>2, <1>3, <2>1, RefuseKeeps DEF Working
<1> QED
  BY <1>4, <1>5

LEMMA ActivateKeeps ==
  ASSUME PipelineInv, NEW t \in Tools, Activate(t)
  PROVE  PipelineInv'
<1> DEFINE k == [call[t] EXCEPT !.phase = "respond"]
           c == call[t]
<1>1. /\ c \in CallRecord /\ c.phase = "activate" /\ CallOK(c, store, versions, active)
      /\ PairOK(tool[t], c, versions, active)
      /\ ToolOK(tool[t], dir, built, store, past)
      /\ tool[t] \in ToolRecord /\ tool = [tool EXCEPT ![t] = tool[t]]
  BY Known DEF Activate, Serving
<1>2. /\ call' = [call EXCEPT ![t] = k] /\ active' = [active EXCEPT ![c.room] = c.number]
      /\ UNCHANGED <<dir, built, store, versions, tool, run, past>>
  BY DEF Activate, Serves, PipelineInv, PipelineTypeOK
<1>3. /\ c.room \in Rooms /\ c.number \in Numbers /\ c.hash \in Contents
      /\ store[c.hash] # None /\ versions[Row(c)] = c.hash
  BY <1>1 DEF CallOK, Working
<1>4. /\ k \in CallRecord /\ k.phase = "respond" /\ k.room = c.room /\ k.number = c.number
      /\ k.hash = c.hash /\ k.activate = c.activate /\ Row(k) = Row(c)
  BY <1>1 DEF CallRecord, Working, Row
<1> HIDE DEF k, c
<1>5. /\ active' \in [Rooms -> Numbers \cup {None}] /\ active'[c.room] = c.number
      /\ \A r \in Rooms \ {c.room} : active'[r] = active[r]
  BY <1>2, <1>3 DEF PipelineInv, PipelineTypeOK
<1>6. c.number # None /\ c.hash # None
  BY <1>3, PipelineNames
<1>7. Onwards
  BY <1>2, <1>5, <1>6 DEF Onwards
<1>8. StoreOK(store', past')
  BY <1>2 DEF PipelineInv, StoreOK
<1>9. VersionsOK(versions', store', active')
  BY <1>2, <1>3, <1>5, <1>6 DEF PipelineInv, VersionsOK, Row
<1>10. CallOK(k, store', versions', active')
  BY <1>2, <1>3, <1>4, <1>5, <1>6 DEF CallOK, Working
<1>11. PairOK(tool[t], k, versions', active')
  <2>1. tool[t].phase = "ok" => tool[t].room \in Rooms
    BY <1>1 DEF ToolOK
  <2> QED
    BY <1>1, <1>2, <1>4, <1>5, <1>6, <2>1 DEF PairOK, Working
<1>12. /\ store' \in [Contents -> Bytes \cup {None}]
       /\ versions' \in [Rooms \X Numbers -> Contents \cup {None}]
       /\ past' \in Past /\ past'.overlap = past.overlap
  BY <1>2 DEF PipelineInv, PipelineTypeOK
<1>13. tool' = [tool EXCEPT ![t] = tool[t]] /\ UNCHANGED <<dir, built, run>>
  BY <1>1, <1>2
<1>14. ToolOK(tool[t], dir, built, store', past')
  BY <1>1, <1>2
<1> QED
  BY <1>1, <1>2, <1>4, <1>5, <1>7, <1>8, <1>9, <1>10, <1>11, <1>12, <1>13, <1>14, StepKeeps

LEMMA RespondKeeps ==
  ASSUME PipelineInv, NEW t \in Tools, Respond(t)
  PROVE  PipelineInv'
<1> DEFINE k == [NoCall EXCEPT !.phase = "answer"]
<1>1. /\ call' = [call EXCEPT ![t] = k]
      /\ UNCHANGED <<dir, built, store, versions, active, tool, run, past>>
  BY DEF Respond, Ends
<1>2. k \in CallRecord /\ CallOK(k, store, versions, active) /\ k.phase = "answer"
  BY DEF CallRecord, NoCall, CallOK, Working
<1>3. call[t].phase = "respond" /\ CallOK(call[t], store, versions, active) /\ PairOK(tool[t], call[t], versions, active)
  BY Known DEF Respond, Serving
<1> HIDE DEF k
<1>4. PairOK(tool[t], k, versions, active)
  BY <1>2, <1>3 DEF PairOK, CallOK, Working, Row
<1>5. past' \in Past /\ past'.overlap = past.overlap /\ past'.edited = past.edited
  BY <1>1 DEF PipelineInv, PipelineTypeOK
<1> QED
  BY <1>1, <1>2, <1>4, <1>5, ServeKeeps

LEMMA CallFailsKeeps ==
  ASSUME PipelineInv, NEW t \in Tools, CallFails(t)
  PROVE  PipelineInv'
<1>1. Faulty /\ Ends(t, "refused") /\ UNCHANGED <<dir, built, store, versions, active, tool, run>>
  BY DEF CallFails
<1>2. call[t].phase \in Working
  BY Known DEF CallFails, CallRecord, Working
<1> QED
  BY <1>1, <1>2, FaultIsPast, RefuseKeeps

-----------------------------------------------------------------------------
\* The author and the bundle files: steps that concern every command.
\* A command that differs in what it has seen and shared only, where that and what became
\* of the directories and bundle files is accounted for.
LEMMA ToolAlike ==
  ASSUME NEW q, NEW w, NEW d, NEW e, NEW b, NEW c, NEW s, NEW p1, NEW p2, ToolOK(q, d, b, s, p1),
         w.phase = q.phase, w.room = q.room, w.number = q.number, w.hash = q.hash,
         w.read = q.read, w.listed = q.listed,
         p1.overlap => p2.overlap, p1.edited => p2.edited,
         p2.overlap \/ w.shared = q.shared,
         q.phase \in Reading => p2.edited \/ (w.seen = q.seen /\ e[q.room] = d[q.room]),
         q.phase \in Building => c[q.room] # None /\ (p2.overlap \/ c[q.room] = b[q.room])
  PROVE  ToolOK(w, e, c, s, p2)
  BY DEF ToolOK, Reading, Packed, Building

LEMMA EditKeeps ==
  ASSUME PipelineInv, NEW r \in Rooms, NEW c \in Contents, Edit(r, c)
  PROVE  PipelineInv'
<1>1. /\ dir' = [dir EXCEPT ![r] = c] /\ tool' = Seen(r, c)
      /\ UNCHANGED <<built, store, versions, active, call, run>>
      /\ past' = [past EXCEPT !.edits = past.edits + 1,
                    !.edited = past.edited \/ \E t \in Tools : At(t, Reading) /\ tool[t].room = r]
  BY DEF Edit
<1>2. /\ past' \in Past /\ past'.overlap = past.overlap /\ (past.edited => past'.edited)
      /\ \A t \in Tools : tool[t].phase \in Reading /\ tool[t].room = r => past'.edited
  <2> DEFINE e == past.edited \/ \E t \in Tools : At(t, Reading) /\ tool[t].room = r
  <2>1. past \in Past
    BY DEF PipelineInv, PipelineTypeOK
  <2>2. e \in BOOLEAN /\ past' = [past EXCEPT !.edits = past.edits + 1, !.edited = e]
    BY <1>1
  <2>3. (past.edited => e) /\ \A t \in Tools : tool[t].phase \in Reading /\ tool[t].room = r => e
    BY DEF At
  <2> HIDE DEF e
  <2>4. past' \in Past
    <3>1. past' = [begun |-> past.begun, edits |-> past.edits + 1, faults |-> past.faults,
                   overlap |-> past.overlap, edited |-> e]
      BY <2>1, <2>2 DEF Past
    <3>2. /\ past.begun \in Nat /\ past.edits + 1 \in Nat /\ past.faults \in Nat
          /\ past.overlap \in BOOLEAN /\ e \in BOOLEAN
      BY <2>1, <2>2 DEF Past
    <3> QED
      BY <3>1, <3>2 DEF Past
  <2>5. past'.overlap = past.overlap
    BY <2>1, <2>2 DEF Past
  <2>6. past'.edited = e
    BY <2>1, <2>2 DEF Past
  <2> QED
    BY <2>3, <2>4, <2>5, <2>6
<1>3. dir' \in [Rooms -> Contents] /\ \A s \in Rooms \ {r} : dir'[s] = dir[s]
  BY <1>1 DEF PipelineInv, PipelineTypeOK
<1>4. ASSUME NEW t \in Tools
      PROVE  /\ tool'[t] \in ToolRecord
             /\ tool'[t].phase = tool[t].phase /\ tool'[t].room = tool[t].room
             /\ tool'[t].number = tool[t].number /\ tool'[t].activate = tool[t].activate
             /\ tool'[t].hash = tool[t].hash /\ tool'[t].read = tool[t].read
             /\ tool'[t].listed = tool[t].listed
             /\ tool'[t].shared = tool[t].shared
             /\ ~(tool[t].phase \in Reading /\ tool[t].room = r) => tool'[t].seen = tool[t].seen
  <2>1. tool[t] \in ToolRecord
    BY Known
  <2>2. tool'[t] = IF tool[t].phase \in Reading /\ tool[t].room = r
                   THEN [tool[t] EXCEPT !.seen = tool[t].seen \cup {c}] ELSE tool[t]
    BY <1>1 DEF Seen, At
  <2> QED
    BY <2>1, <2>2 DEF ToolRecord
<1>5. tool' \in [Tools -> ToolRecord]
  BY <1>1, <1>4 DEF Seen
<1>6. PipelineTypeOK'
  BY <1>1, <1>2, <1>3, <1>5 DEF PipelineInv, PipelineTypeOK
<1>7. ASSUME NEW t \in Tools
      PROVE  /\ ToolOK(tool'[t], dir', built', store', past')
             /\ CallOK(call'[t], store', versions', active')
             /\ PairOK(tool'[t], call'[t], versions', active')
  <2>1. ToolOK(tool[t], dir, built, store, past) /\ CallOK(call[t], store, versions, active)
        /\ PairOK(tool[t], call[t], versions, active)
    BY Known
  <2>2. tool[t].phase \in Reading => past'.edited \/ (tool'[t].seen = tool[t].seen /\ dir'[tool[t].room] = dir[tool[t].room])
    BY <1>2, <1>3, <1>4, <2>1 DEF ToolOK, Reading
  <2>3. ToolOK(tool'[t], dir', built', store', past')
    <3>1. tool[t].phase \in Building => built'[tool[t].room] # None
      BY <1>1, <2>1 DEF ToolOK
    <3>2. /\ tool'[t].phase = tool[t].phase /\ tool'[t].room = tool[t].room
          /\ tool'[t].number = tool[t].number /\ tool'[t].hash = tool[t].hash
          /\ tool'[t].read = tool[t].read /\ tool'[t].listed = tool[t].listed
          /\ tool'[t].shared = tool[t].shared
      BY <1>4
    <3>3. /\ past'.overlap = past.overlap /\ (past.edited => past'.edited)
          /\ built' = built /\ store' = store
      BY <1>1, <1>2
    <3> QED
      BY <2>1, <2>2, <3>1, <3>2, <3>3, ToolAlike
  <2>4. PairOK(tool'[t], call'[t], versions', active')
    BY <1>1, <1>4, <2>1 DEF PairOK, Row
  <2> QED
    BY <1>1, <2>1, <2>3, <2>4 DEF CallOK
<1>8. \A n \in Runs : RunOK(run'[n], versions', past')
  BY <1>1, <1>2 DEF PipelineInv, RunOK
<1>9. StoreOK(store', past') /\ VersionsOK(versions', store', active') /\ Alone(tool', past')
  BY <1>1, <1>2, <1>4 DEF PipelineInv, StoreOK, VersionsOK, Alone
<1> QED
  BY <1>6, <1>7, <1>8, <1>9 DEF PipelineInv

\* A step in the bundle file of one room, which leaves the other commands where they
\* are: it only ever sets their shared.
LEMMA FileStepKeeps ==
  ASSUME PipelineInv, NEW t \in Tools, tool[t].room \in Rooms,
         built' \in [Rooms -> Bytes \cup {None}],
         built'[tool[t].room] # None,
         \A s \in Rooms \ {tool[t].room} : built'[s] = built[s],
         tool' \in [Tools -> ToolRecord], past' \in Past,
         past.overlap => past'.overlap, past'.edited = past.edited,
         UNCHANGED <<dir, store, versions, active, call, run>>,
         ToolOK(tool'[t], dir, built', store, past'), PairOK(tool'[t], call[t], versions, active),
         \A u \in Tools \ {t} :
           \/ tool'[u] = tool[u]
           \/ past'.overlap /\ \E b \in BOOLEAN : tool'[u] = [tool[u] EXCEPT !.shared = b],
         \A u \in Tools \ {t} :
           tool[u].phase \in Building /\ tool[u].room = tool[t].room => past'.overlap,
         tool'[t].phase \in Building => tool'[t].room = tool[t].room
  PROVE  PipelineInv'
<1>1. PipelineTypeOK'
  BY DEF PipelineInv, PipelineTypeOK
<1>2. ASSUME NEW u \in Tools \ {t}
      PROVE  /\ tool'[u].phase = tool[u].phase /\ tool'[u].room = tool[u].room
             /\ tool'[u].number = tool[u].number /\ tool'[u].activate = tool[u].activate
             /\ tool'[u].hash = tool[u].hash /\ tool'[u].read = tool[u].read
             /\ tool'[u].seen = tool[u].seen /\ tool'[u].listed = tool[u].listed
             /\ past'.overlap \/ tool'[u].shared = tool[u].shared
  BY Known DEF ToolRecord
<1>3. ASSUME NEW u \in Tools
      PROVE  /\ ToolOK(tool'[u], dir', built', store', past')
             /\ CallOK(call'[u], store', versions', active')
             /\ PairOK(tool'[u], call'[u], versions', active')
  <2>1. CASE u = t
    BY <2>1, Known
  <2>2. CASE u # t
    <3>1. ToolOK(tool[u], dir, built, store, past) /\ CallOK(call[u], store, versions, active)
          /\ PairOK(tool[u], call[u], versions, active)
      BY Known
    <3>2. tool[u].phase \in Building =>
            \/ past'.overlap /\ built'[tool[u].room] # None
            \/ built'[tool[u].room] = built[tool[u].room]
      BY <2>2, <3>1 DEF ToolOK, Building
    <3>3. ToolOK(tool'[u], dir', built', store', past')
      <4>1. tool[u].phase \in Building => built'[tool[u].room] # None
        BY <3>1, <3>2 DEF ToolOK
      <4>2. tool[u].phase \in Reading => tool'[u].seen = tool[u].seen
        BY <1>2, <2>2
      <4> QED
        BY <1>2, <2>2, <3>1, <3>2, <4>1, <4>2, ToolAlike
    <3>4. PairOK(tool'[u], call'[u], versions', active')
      BY <1>2, <2>2, <3>1 DEF PairOK, Row
    <3> QED
      BY <3>1, <3>3, <3>4
  <2> QED
    BY <2>1, <2>2
<1>4. \A n \in Runs : RunOK(run'[n], versions', past')
  BY DEF PipelineInv, RunOK
<1>5. StoreOK(store', past') /\ VersionsOK(versions', store', active')
  BY DEF PipelineInv, StoreOK, VersionsOK
<1>6. Alone(tool', past')
  BY <1>2 DEF PipelineInv, Alone
<1> QED
  BY <1>1, <1>3, <1>4, <1>5, <1>6 DEF PipelineInv

LEMMA OpenBundleKeeps ==
  ASSUME PipelineInv, NEW t \in Tools, OpenBundle(t)
  PROVE  PipelineInv'
<1> DEFINE sh == Others(t, {"write"}) # {}
           q == [tool[t] EXCEPT !.phase = "write", !.shared = sh]
           e == past.overlap \/ Others(t, {"write", "read"}) # {}
<1>1. tool[t] \in ToolRecord /\ ToolOK(tool[t], dir, built, store, past)
  BY Known
<1>2. tool[t].phase = "open" /\ tool[t].room \in Rooms
  BY <1>1 DEF OpenBundle, At, ToolOK
<1>3. /\ built' = [built EXCEPT ![tool[t].room] = Torn]
      /\ UNCHANGED <<dir, store, versions, active, call, run>>
      /\ tool' = [u \in Tools |->
           IF u = t THEN q
           ELSE IF u \in Others(t, {"write"}) THEN [tool[u] EXCEPT !.shared = TRUE] ELSE tool[u]]
      /\ past' = [past EXCEPT !.overlap = e]
  BY DEF OpenBundle
<1>4. /\ past.overlap => e
      /\ sh => e
      /\ \A u \in Tools \ {t} : tool[u].phase \in Building /\ tool[u].room = tool[t].room => e
      /\ \A u \in Others(t, {"write"}) : e
      /\ e \in BOOLEAN /\ sh \in BOOLEAN
  BY DEF Others, At, Building
<1> HIDE DEF e, sh
<1>5. past' \in Past
  <2>1. past' = [begun |-> past.begun, edits |-> past.edits, faults |-> past.faults,
                 overlap |-> e, edited |-> past.edited]
    BY <1>3 DEF PipelineInv, PipelineTypeOK, Past
  <2>2. /\ past.begun \in Nat /\ past.edits \in Nat /\ past.faults \in Nat /\ past.edited \in BOOLEAN
    BY DEF PipelineInv, PipelineTypeOK, Past
  <2> QED
    BY <1>4, <2>1, <2>2 DEF Past
<1>6. past'.overlap = e
  BY <1>3 DEF PipelineInv, PipelineTypeOK, Past
<1>7. past'.edited = past.edited
  BY <1>3 DEF PipelineInv, PipelineTypeOK, Past
<1>8. /\ built' \in [Rooms -> Bytes \cup {None}] /\ built'[tool[t].room] # None
      /\ \A s \in Rooms \ {tool[t].room} : built'[s] = built[s]
  BY <1>2, <1>3, PipelineNames DEF PipelineInv, PipelineTypeOK, Bytes
<1>9. /\ q \in ToolRecord /\ q.phase = "write" /\ q.shared = sh /\ q.room = tool[t].room
      /\ q.hash = tool[t].hash /\ tool'[t] = q
  BY <1>1, <1>3, <1>4 DEF ToolRecord, Packed
<1> HIDE DEF q
<1>10. ASSUME NEW u \in Tools \ {t}
       PROVE  /\ tool'[u] \in ToolRecord
              /\ \/ tool'[u] = tool[u]
                 \/ past'.overlap /\ \E b \in BOOLEAN : tool'[u] = [tool[u] EXCEPT !.shared = b]
  <2>1. tool[u] \in ToolRecord
    BY Known
  <2>2. CASE u \in Others(t, {"write"})
    <3>1. tool'[u] = [tool[u] EXCEPT !.shared = TRUE]
      BY <1>3, <2>2
    <3>2. [tool[u] EXCEPT !.shared = TRUE] \in ToolRecord
      BY <2>1 DEF ToolRecord
    <3> QED
      BY <1>4, <1>6, <2>2, <3>1, <3>2
  <2>3. CASE u \notin Others(t, {"write"})
    BY <1>3, <2>1, <2>3
  <2> QED
    BY <2>2, <2>3
<1>11. tool' \in [Tools -> ToolRecord]
  BY <1>3, <1>9, <1>10
<1>12. ToolOK(q, dir, built', store, past')
  BY <1>1, <1>2, <1>4, <1>6, <1>7, <1>8, <1>9 DEF ToolOK, Reading, Packed, Building
<1>13. PairOK(q, call[t], versions, active)
  BY <1>9 DEF PairOK
<1> QED
  BY <1>2, <1>3, <1>4, <1>5, <1>6, <1>7, <1>8, <1>9, <1>10, <1>11, <1>12, <1>13, FileStepKeeps

LEMMA WriteBundleKeeps ==
  ASSUME PipelineInv, NEW t \in Tools, WriteBundle(t)
  PROVE  PipelineInv'
<1> DEFINE q == IF tool[t].number = None THEN IdleTool ELSE [tool[t] EXCEPT !.phase = "read"]
<1>1. tool[t] \in ToolRecord /\ ToolOK(tool[t], dir, built, store, past)
  BY Known
<1>2. /\ tool[t].phase = "write" /\ tool[t].room \in Rooms /\ tool[t].hash \in Contents
      /\ past.edited \/ ValidateRoomDir(tool[t].hash)
  BY <1>1 DEF WriteBundle, At, ToolOK, Packed
<1>3. PICK b \in {tool[t].hash} \cup (IF tool[t].shared THEN {Torn} ELSE {}) :
        built' = [built EXCEPT ![tool[t].room] = b]
  BY DEF WriteBundle
<1>4. /\ tool' = [tool EXCEPT ![t] = q]
      /\ UNCHANGED <<dir, store, versions, active, call, run, past>>
  BY DEF WriteBundle, Fails, To, PipelineInv, PipelineTypeOK
<1>5. b \in Bytes /\ b # None /\ (past.overlap \/ b = tool[t].hash)
  BY <1>1, <1>2, PipelineNames DEF ToolOK, Bytes
<1>6. /\ built' \in [Rooms -> Bytes \cup {None}] /\ built'[tool[t].room] = b
      /\ \A s \in Rooms \ {tool[t].room} : built'[s] = built[s]
  BY <1>2, <1>3, <1>5 DEF PipelineInv, PipelineTypeOK
<1>7. q \in ToolRecord /\ ToolOK(q, dir, built', store, past) /\ PairOK(q, call[t], versions, active)
      /\ (q.phase \in Building => q.room = tool[t].room)
  <2>1. CASE tool[t].number = None
    <3>1. ToolOK(IdleTool, dir, built', store, past)
      BY DEF IdleTool, ToolOK, Reading, Packed, Building
    <3>2. IdleTool.phase \notin Building
      BY DEF IdleTool, Building
    <3> QED
      BY <2>1, <3>1, <3>2, Known, IdleIsFine
  <2>2. CASE tool[t].number # None
    <3>1. /\ q \in ToolRecord /\ q.phase = "read" /\ q.hash = tool[t].hash
          /\ q.room = tool[t].room /\ q.number \in Numbers
      BY <1>1, <2>2 DEF ToolRecord, Packed
    <3> HIDE DEF q
    <3>2. ToolOK(q, dir, built', store, past)
      BY <1>2, <1>5, <1>6, <3>1 DEF ToolOK, Reading, Packed, Building
    <3> QED
      BY <3>1, <3>2 DEF PairOK
  <2> QED
    BY <2>1, <2>2
<1> HIDE DEF q
<1>8. /\ tool' \in [Tools -> ToolRecord] /\ tool'[t] = q
      /\ \A u \in Tools \ {t} : tool'[u] = tool[u]
  BY <1>4, <1>7 DEF PipelineInv, PipelineTypeOK
<1>9. \A u \in Tools \ {t} : tool[u].phase \in Building /\ tool[u].room = tool[t].room => past.overlap
  BY <1>2 DEF PipelineInv, Alone, Building
<1>10. past \in Past
  BY DEF PipelineInv, PipelineTypeOK
<1>11. ToolOK(q, dir, built', store, past')
  BY <1>4, <1>7
<1> QED
  BY <1>2, <1>4, <1>5, <1>6, <1>7, <1>8, <1>9, <1>10, <1>11, FileStepKeeps

-----------------------------------------------------------------------------
\* startRun and the engine.
LEMMA RunStepKeeps ==
  ASSUME PipelineInv, UNCHANGED <<dir, built, store, versions, active, tool, call, past>>,
         run' \in [Runs -> RunRecord], \A n \in Runs : RunOK(run'[n], versions, past)
  PROVE  PipelineInv'
<1>1. PipelineTypeOK'
  BY DEF PipelineInv, PipelineTypeOK
<1>2. \A t \in Tools : /\ ToolOK(tool'[t], dir', built', store', past')
                       /\ CallOK(call'[t], store', versions', active')
                       /\ PairOK(tool'[t], call'[t], versions', active')
  BY DEF PipelineInv
<1>3. \A n \in Runs : RunOK(run'[n], versions', past')
  OBVIOUS
<1>4. StoreOK(store', past') /\ VersionsOK(versions', store', active') /\ Alone(tool', past')
  BY DEF PipelineInv
<1> QED
  BY <1>1, <1>2, <1>3, <1>4 DEF PipelineInv

\* A step of one run.
LEMMA OneRunKeeps ==
  ASSUME PipelineInv, UNCHANGED <<dir, built, store, versions, active, tool, call, past>>,
         NEW n \in Runs, NEW r \in RunRecord, run' = [run EXCEPT ![n] = r], RunOK(r, versions, past)
  PROVE  PipelineInv'
<1>1. run' \in [Runs -> RunRecord] /\ \A m \in Runs : run'[m] = r \/ run'[m] = run[m]
  BY DEF PipelineInv, PipelineTypeOK
<1>2. \A m \in Runs : RunOK(run[m], versions, past)
  BY DEF PipelineInv
<1> QED
  BY <1>1, <1>2, RunStepKeeps

LEMMA StartRunKeeps ==
  ASSUME PipelineInv, NEW n \in Runs, NEW r \in Rooms, StartRun(n, r)
  PROVE  PipelineInv'
<1> DEFINE q == [run[n] EXCEPT !.room = r, !.number = active[r]]
<1>1. /\ run[n] \in RunRecord /\ run[n].room = None /\ RunOK(run[n], versions, past)
      /\ active[r] # None /\ active[r] \in Numbers /\ versions[<<r, active[r]>>] # None
  BY DEF PipelineInv, PipelineTypeOK, VersionsOK, StartRun, Room
<1>2. run' = [run EXCEPT ![n] = q]
  BY DEF StartRun, Room, PipelineInv, PipelineTypeOK
<1>3. /\ q \in RunRecord /\ q.room = r /\ q.number = active[r] /\ q.played = run[n].played
      /\ q.refused = run[n].refused
  BY <1>1 DEF RunRecord
<1> HIDE DEF q
<1>4. RunOK(q, versions, past)
  BY <1>1, <1>3, PipelineNames DEF RunOK, Row
<1> QED
  BY <1>2, <1>3, <1>4, OneRunKeeps DEF StartRun

\* What a valid room lacks to be loaded.
LEMMA ValidOrOdd ==
  ASSUME NEW c \in Contents, ValidateRoomDir(c), ~LoadsBundle(c)
  PROVE  Cause(c)
<1>1. Holds[c] \in Content /\ c # Torn
  BY PipelineContents, PipelineNames
<1>2. PICK f \in Required : Holds[c][f].state # "good"
  BY <1>1 DEF LoadsBundle, Parses
<1>3. Holds[c].metadata \in {"A", "B"}
  BY <1>1 DEF ValidateRoomDir, Content
<1>4. CASE Holds[c].metadata = "A"
  BY <1>2, <1>4 DEF ValidateRoomDir, Parses, Cause
<1> QED
  BY <1>3, <1>4 DEF Cause

LEMMA LoadRunKeeps ==
  ASSUME PipelineInv, NEW n \in Runs, LoadRun(n)
  PROVE  PipelineInv'
<1> DEFINE h == Pinned(n)
           c == store[h]
           loaded == [run[n] EXCEPT !.plays = c, !.played = run[n].played \cup {c}, !.refused = None]
           refused == [run[n] EXCEPT !.refused = c]
<1>1. run[n] \in RunRecord /\ run[n].room # None /\ RunOK(run[n], versions, past)
  BY DEF PipelineInv, PipelineTypeOK, LoadRun
<1>2. h = versions[Row(run[n])] /\ h \in Contents /\ c # None
  <2>1. Row(run[n]) \in Rooms \X Numbers /\ versions[Row(run[n])] # None
    BY <1>1 DEF RunOK, RunRecord, Row
  <2> QED
    BY <2>1 DEF PipelineInv, PipelineTypeOK, VersionsOK, Pinned
<1>3. c \in Bytes /\ (past.overlap \/ c = h) /\ (past.edited \/ ValidateRoomDir(h))
  BY <1>2 DEF PipelineInv, PipelineTypeOK, StoreOK
<1>4. UNCHANGED <<dir, built, store, versions, active, tool, call, past>>
  BY DEF LoadRun
<1> HIDE DEF c, h
<1>5. CASE run' = [run EXCEPT ![n] = loaded]
  <2>1. /\ loaded \in RunRecord /\ loaded.room = run[n].room /\ loaded.number = run[n].number
        /\ loaded.played = run[n].played \cup {c} /\ loaded.refused = None
    BY <1>1, <1>3 DEF RunRecord
  <2> HIDE DEF loaded
  <2>2. RunOK(loaded, versions, past)
    BY <1>1, <1>2, <1>3, <2>1 DEF RunOK, Row
  <2> QED
    BY <1>4, <1>5, <2>1, <2>2, OneRunKeeps
<1>6. CASE run' = [run EXCEPT ![n] = refused] /\ ~LoadsBundle(c)
  <2>1. /\ refused \in RunRecord /\ refused.room = run[n].room /\ refused.number = run[n].number
        /\ refused.played = run[n].played /\ refused.refused = c
    BY <1>1, <1>3 DEF RunRecord
  <2> HIDE DEF refused
  <2>2. past.overlap \/ past.edited \/ Cause(c)
    BY <1>2, <1>3, <1>6, ValidOrOdd
  <2>3. RunOK(refused, versions, past)
    BY <1>1, <2>1, <2>2 DEF RunOK, Row
  <2> QED
    BY <1>4, <1>6, <2>1, <2>3, OneRunKeeps
<1>7. \/ run' = [run EXCEPT ![n] = loaded]
      \/ run' = [run EXCEPT ![n] = refused] /\ ~LoadsBundle(c)
  BY DEF LoadRun, Download, c, h, PipelineInv, PipelineTypeOK
<1> QED
  BY <1>5, <1>6, <1>7

LEMMA RestartKeeps ==
  ASSUME PipelineInv, Restart
  PROVE  PipelineInv'
<1>1. /\ run' = [n \in Runs |-> [run[n] EXCEPT !.plays = None]]
      /\ UNCHANGED <<dir, built, store, versions, active, tool, call, past>>
  BY DEF Restart
<1>2. ASSUME NEW n \in Runs
      PROVE  run'[n] \in RunRecord /\ RunOK(run'[n], versions, past)
  <2>1. run[n] \in RunRecord /\ RunOK(run[n], versions, past)
    BY DEF PipelineInv, PipelineTypeOK
  <2>2. /\ run'[n] \in RunRecord /\ run'[n].room = run[n].room /\ run'[n].number = run[n].number
        /\ run'[n].played = run[n].played /\ run'[n].refused = run[n].refused
    BY <1>1, <2>1 DEF RunRecord
  <2> QED
    BY <2>1, <2>2 DEF RunOK, Row
<1>3. run' \in [Runs -> RunRecord]
  BY <1>1, <1>2
<1> QED
  BY <1>1, <1>2, <1>3, RunStepKeeps

-----------------------------------------------------------------------------
LEMMA PipelineStep == PipelineInv /\ [PipelineNext]_pipelineVars => PipelineInv'
<1> SUFFICES ASSUME PipelineInv, [PipelineNext]_pipelineVars PROVE PipelineInv'
  OBVIOUS
<1>1. CASE \E r \in Rooms, c \in Contents : Edit(r, c)
  BY <1>1, EditKeeps
<1>2. ASSUME NEW t \in Tools, ToolStep(t) PROVE PipelineInv'
  BY <1>2, BeginKeeps, ValidateKeeps, ListKeeps, PackKeeps, OpenBundleKeeps, WriteBundleKeeps,
     ReadBundleKeeps, UploadKeeps, AskKeeps, HearKeeps, GivesUpKeeps DEF ToolStep
<1>3. ASSUME NEW t \in Tools, CallStep(t) PROVE PipelineInv'
  BY <1>3, PublishByHandKeeps, CheckStoredKeeps, InsertVersionKeeps, ActivateKeeps,
     RespondKeeps, CallFailsKeeps DEF CallStep
<1>4. ASSUME NEW n \in Runs, LoadRun(n) \/ \E r \in Rooms : StartRun(n, r) PROVE PipelineInv'
  BY <1>4, LoadRunKeeps, StartRunKeeps
<1>5. CASE Restart
  BY <1>5, RestartKeeps
<1>6. CASE UNCHANGED pipelineVars
  BY <1>6 DEF pipelineVars, PipelineInv, PipelineTypeOK
<1> QED
  BY <1>1, <1>2, <1>3, <1>4, <1>5, <1>6 DEF PipelineNext

LEMMA PipelineInvariant == PipelineSpec => []PipelineInv
<1>1. PipelineInit => PipelineInv
  BY PipelineStart
<1>2. PipelineInv /\ [PipelineNext]_pipelineVars => PipelineInv'
  BY PipelineStep
<1> QED
  BY <1>1, <1>2, PTL DEF PipelineSpec

\* Whoever publishes, and whatever fails, the bundle of every version is in the store
\* and a room is played on one of its versions (publish.Service.Publish).
THEOREM VersionsAreStored == PipelineSpec => []PublishedIsStored
  BY PipelineInvariant, PipelineImplies, PTL

\* What is stored under a hash is what was hashed, unless two commands shared a bundle
\* file, however the directory changes under them (PublishRoom, S3BundleStore.Upload).
THEOREM StoreIsContentAddressed == PipelineSpec => []StoredUnderItsHash
  BY PipelineInvariant, PipelineImplies, PTL

\* A roomctl that reports success has published what it built: the version names its
\* bundle and, unless two commands shared a bundle file, the object under that name is
\* that bundle (PublishRoom, S3BundleStore.Upload and publishRoomVersion).
THEOREM SuccessIsReal == PipelineSpec => []SuccessIsPublished
  BY PipelineInvariant, PipelineImplies, PTL

\* Unless two commands shared a bundle file, a run is only ever played on the bundle of
\* the version it was started for, over all restarts of the engine and all publishes
\* (startRun and runtime.state).
THEOREM RunsKeepTheirBundle == PipelineSpec => []RunKeepsItsBundle
  BY PipelineInvariant, PipelineImplies, PTL

\* A bundle the engine refuses is one roomctl could not have judged (ValidateRoomDir
\* and LoadEngineABundleFromTar).
THEOREM RefusalsHaveCause == PipelineSpec => []RefusedForCause
  BY PipelineInvariant, PipelineImplies, PTL
=============================================================================

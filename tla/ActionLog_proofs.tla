-------------------------- MODULE ActionLog_proofs --------------------------
(***************************************************************************)
(* Proofs about ActionLog: for any number of appenders, keys, requests,    *)
(* failures and crashes, the rows of a run are numbered without a gap,     *)
(* final and unique per request, and a reported append is in the log.      *)
(***************************************************************************)
EXTENDS ActionLog, TLAPS

-----------------------------------------------------------------------------
(***************************************************************************)
(* Facts about the operators                                               *)
(***************************************************************************)

\* Entries with no request id are ticks.
LEMMA EntryFacts ==
  /\ TickEntry \in Entry /\ TickEntry.req = None
  /\ \A e \in Entry : e.req = None => e = TickEntry
  /\ \A e \in Entry : e.req # None => e.type = "player" /\ e.req \in Reqs
BY NoneAssumption DEF Entry, TickEntry

\* MAX(seq) of a log without a gap is its length.
LEMMA MaxSeqOfInterval ==
  ASSUME NEW n \in Nat, NEW l, DOMAIN l = 1..n
  PROVE  MaxSeqOf(l) = n
<1> DEFINE P(m) == m \in DOMAIN l \cup {0} /\ \A i \in DOMAIN l : i <= m
<1>1. P(n)
  OBVIOUS
<1>2. ASSUME NEW m, P(m) PROVE m = n
  <2>1. CASE n = 0
    BY <1>2, <2>1
  <2>2. CASE n > 0
    <3>1. n \in DOMAIN l
      BY <2>2
    <3>2. n <= m /\ m \in 0..n
      BY <1>2, <3>1
    <3> QED BY <3>2
  <2> QED BY <2>1, <2>2
<1> QED BY <1>1, <1>2 DEF MaxSeqOf

\* A result is a call.
LEMMA ResultType ==
  ASSUME NEW c \in Call, NEW ph \in {"idle"} \cup InFlight \cup Finished, NEW s \in Nat
  PROVE  /\ Result(c, ph, s) \in Call
         /\ Result(c, ph, s).phase = ph
         /\ Result(c, ph, s).entry = c.entry
         /\ Result(c, ph, s).max = 0
         /\ Result(c, ph, s).seq = s
BY DEF Result, CallIn, Call

-----------------------------------------------------------------------------
(***************************************************************************)
(* The inductive invariant                                                 *)
(***************************************************************************)

\* A snapshot is never newer than the log: the seq an INSERT computed is at
\* most the next free one.
SnapshotsAreOld ==
  /\ \A p \in Appenders : app[p].phase = "insert" => app[p].max <= MaxSeq
  /\ \A o \in orphans : o.max <= MaxSeq

\* Only calls that carry a request id look a row up.
LookupsCarryRequest ==
  \A p \in Appenders : app[p].phase \in {"lookup", "relookup"} => app[p].entry.req # None

LogInv ==
  /\ LogTypeOK
  /\ NoGaps
  /\ MaxSeq \in Nat
  /\ SnapshotsAreOld
  /\ LookupsCarryRequest
  /\ OneRowPerRequest
  /\ OkIsDurable
  /\ ConflictIsReal

-----------------------------------------------------------------------------
(***************************************************************************)
(* What one INSERT and one lookup do to a log that satisfies LogInv        *)
(***************************************************************************)

\* An INSERT that passes both indexes adds the next seq and nothing else.
LEMMA InsertAddsNext ==
  ASSUME LogInv, NEW c \in Call, c.max <= MaxSeq, Inserts(c), log' = WithRow(c)
  PROVE  /\ c.max = MaxSeq
         /\ c.max + 1 \notin DOMAIN log
         /\ DOMAIN log' = 1..(MaxSeq + 1)
         /\ log'[MaxSeq + 1] = c.entry
         /\ \A i \in DOMAIN log : i # MaxSeq + 1 /\ log'[i] = log[i]
         /\ MaxSeq' = MaxSeq + 1
<1>1. MaxSeq \in Nat /\ DOMAIN log = 1..MaxSeq /\ c.max \in Nat
  BY DEF LogInv, NoGaps, Call
<1>2. c.max = MaxSeq /\ c.max + 1 \notin DOMAIN log
  BY <1>1 DEF Inserts, SeqTaken
<1>3. DOMAIN log' = 1..(MaxSeq + 1)
  BY <1>1, <1>2 DEF WithRow
<1>4. log'[MaxSeq + 1] = c.entry /\ \A i \in DOMAIN log : i # MaxSeq + 1 /\ log'[i] = log[i]
  BY <1>1, <1>2 DEF WithRow
<1>5. MaxSeq' = MaxSeq + 1
  BY <1>1, <1>3, MaxSeqOfInterval DEF MaxSeq
<1> QED BY <1>2, <1>3, <1>4, <1>5

\* A request lookup answers with the request's only row, or with its absence.
LEMMA LookupFacts ==
  ASSUME LogInv, NEW c \in Call, c.entry.req # None, NEW missing \in {"snapshot", "error"},
         NEW d, d = Looked(c, missing)
  PROVE  /\ d \in Call
         /\ d.entry = c.entry
         /\ d.phase \in {missing, "ok", "conflict"}
         /\ d.phase = "ok" => d.seq \in DOMAIN log /\ log[d.seq] = d.entry
         /\ d.phase = "conflict" => \E i \in DOMAIN log : log[i].req = d.entry.req /\ log[i] # d.entry
<1>1. CASE RowsOf(c.entry.req) = {}
  <2>1. d = Result(c, missing, 0)
    BY <1>1 DEF Looked
  <2>2. d \in Call /\ d.entry = c.entry /\ d.phase = missing
    <3>1. missing \in {"idle"} \cup InFlight \cup Finished
      BY DEF InFlight, Finished
    <3> QED BY <2>1, <3>1, ResultType
  <2> QED BY <2>2
<1>2. CASE RowsOf(c.entry.req) # {}
  <2> DEFINE i == CHOOSE j \in RowsOf(c.entry.req) : TRUE
  <2>1. i \in RowsOf(c.entry.req)
    BY <1>2
  <2>2. i \in DOMAIN log /\ log[i].req = c.entry.req /\ i \in Nat
    BY <2>1 DEF RowsOf, LogInv, LogTypeOK
  <2>3. CASE log[i] = c.entry
    <3>1. d = Result(c, "ok", i)
      BY <1>2, <2>3 DEF Looked
    <3> QED BY <3>1, <2>2, <2>3, ResultType DEF Finished
  <2>4. CASE log[i] # c.entry
    <3>1. d = Result(c, "conflict", 0)
      BY <1>2, <2>4 DEF Looked
    <3> QED BY <3>1, <2>2, <2>4, ResultType DEF Finished
  <2> QED BY <2>3, <2>4
<1> QED BY <1>1, <1>2

\* A step of one call that leaves the log alone keeps the invariant if the
\* call's new state does.
LEMMA OneCallMoves ==
  ASSUME LogInv, NEW p \in Appenders, NEW d \in Call,
         d.phase = "insert" => d.max <= MaxSeq,
         d.phase \in {"lookup", "relookup"} => d.entry.req # None,
         d.phase = "ok" => d.seq \in DOMAIN log /\ log[d.seq] = d.entry,
         d.phase = "conflict" =>
           \E i \in DOMAIN log : log[i].req = d.entry.req /\ log[i] # d.entry,
         app' = [app EXCEPT ![p] = d], log' = log,
         orphans' \subseteq Call, \A o \in orphans' : o.max <= MaxSeq
  PROVE  LogInv'
<1>1. MaxSeq' = MaxSeq
  BY DEF MaxSeq
<1>2. app' \in [Appenders -> Call] /\ \A q \in Appenders : app'[q] = IF q = p THEN d ELSE app[q]
  BY DEF LogInv, LogTypeOK
<1>3. LogTypeOK' /\ NoGaps' /\ MaxSeq' \in Nat
  BY <1>1, <1>2 DEF LogInv, LogTypeOK, NoGaps
<1>4. SnapshotsAreOld'
  BY <1>1, <1>2 DEF LogInv, SnapshotsAreOld
<1>5. LookupsCarryRequest'
  BY <1>2 DEF LogInv, LookupsCarryRequest
<1>6. OneRowPerRequest'
  BY DEF LogInv, OneRowPerRequest
<1>7. OkIsDurable'
  BY <1>2 DEF LogInv, OkIsDurable
<1>8. ConflictIsReal'
  BY <1>2 DEF LogInv, ConflictIsReal
<1> QED BY <1>3, <1>4, <1>5, <1>6, <1>7, <1>8 DEF LogInv

\* A step that adds the row of c, for a caller that waits for it or for none,
\* keeps the invariant.
LEMMA RowAdded ==
  ASSUME LogInv, NEW c \in Call, c.max <= MaxSeq, Inserts(c), log' = WithRow(c),
         orphans' \subseteq orphans, app' \in [Appenders -> Call],
         \A p \in Appenders : \/ app'[p] = app[p]
                              \/ /\ app'[p].phase = "ok" /\ app'[p].seq = c.max + 1
                                 /\ app'[p].entry = c.entry
  PROVE  LogInv'
<1>1. /\ c.max = MaxSeq
      /\ c.max + 1 \notin DOMAIN log
      /\ DOMAIN log' = 1..(MaxSeq + 1)
      /\ log'[MaxSeq + 1] = c.entry
      /\ \A i \in DOMAIN log : i # MaxSeq + 1 /\ log'[i] = log[i]
      /\ MaxSeq' = MaxSeq + 1
  BY InsertAddsNext
<1>2. MaxSeq \in Nat /\ DOMAIN log = 1..MaxSeq /\ DOMAIN log' = DOMAIN log \cup {MaxSeq + 1}
  BY <1>1 DEF LogInv, NoGaps
<1>3. LogTypeOK'
  BY <1>1, <1>2 DEF LogInv, LogTypeOK, Call
<1>4. NoGaps' /\ MaxSeq' \in Nat
  BY <1>1, <1>2 DEF NoGaps
<1>5. SnapshotsAreOld'
  <2>1. ASSUME NEW p \in Appenders, app'[p].phase = "insert" PROVE app'[p].max <= MaxSeq'
    <3>1. app'[p] = app[p] /\ app[p].max \in Nat
      BY <2>1 DEF LogInv, LogTypeOK, Call
    <3>2. app[p].max <= MaxSeq
      BY <2>1, <3>1 DEF LogInv, SnapshotsAreOld
    <3> QED BY <1>1, <1>2, <3>1, <3>2
  <2>2. ASSUME NEW o \in orphans' PROVE o.max <= MaxSeq'
    BY <1>1, <1>2 DEF LogInv, LogTypeOK, Call, SnapshotsAreOld
  <2> QED BY <2>1, <2>2 DEF SnapshotsAreOld
<1>6. LookupsCarryRequest'
  BY DEF LogInv, LookupsCarryRequest
<1>7. OneRowPerRequest'
  <2>1. \A i \in DOMAIN log : log[i].req # None => log[i].req # c.entry.req
    BY DEF Inserts, Duplicate, RowsOf
  <2>2. ASSUME NEW i \in DOMAIN log', NEW j \in DOMAIN log',
               log'[i].req = log'[j].req, log'[i].req # None
        PROVE  i = j
    <3>1. CASE i \in DOMAIN log /\ j \in DOMAIN log
      BY <1>1, <2>2, <3>1 DEF LogInv, OneRowPerRequest
    <3>2. CASE i \notin DOMAIN log \/ j \notin DOMAIN log
      BY <1>1, <1>2, <2>1, <2>2, <3>2
    <3> QED BY <3>1, <3>2
  <2> QED BY <2>2 DEF OneRowPerRequest
<1>8. OkIsDurable'
  <2>1. ASSUME NEW p \in Appenders, app'[p].phase = "ok"
        PROVE  app'[p].seq \in DOMAIN log' /\ log'[app'[p].seq] = app'[p].entry
    <3>1. CASE app'[p] = app[p]
      BY <1>1, <1>2, <2>1, <3>1 DEF LogInv, OkIsDurable
    <3>2. CASE app'[p].seq = c.max + 1 /\ app'[p].entry = c.entry
      BY <1>1, <1>2, <3>2
    <3> QED BY <3>1, <3>2
  <2> QED BY <2>1 DEF OkIsDurable
<1>9. ConflictIsReal'
  <2>1. ASSUME NEW p \in Appenders, app'[p].phase = "conflict"
        PROVE  \E i \in DOMAIN log' : log'[i].req = app'[p].entry.req /\ log'[i] # app'[p].entry
    <3>1. app'[p] = app[p]
      BY <2>1
    <3>2. PICK i \in DOMAIN log : log[i].req = app[p].entry.req /\ log[i] # app[p].entry
      BY <2>1, <3>1 DEF LogInv, ConflictIsReal
    <3>3. i \in DOMAIN log' /\ log'[i] = log[i]
      BY <1>1, <1>2
    <3> QED BY <3>1, <3>2, <3>3
  <2> QED BY <2>1 DEF ConflictIsReal
<1> QED BY <1>3, <1>4, <1>5, <1>6, <1>7, <1>8, <1>9 DEF LogInv

-----------------------------------------------------------------------------
(***************************************************************************)
(* LogInv is inductive                                                     *)
(***************************************************************************)

LEMMA LogInvInit == LogInit => LogInv
<1> SUFFICES ASSUME LogInit PROVE LogInv
  OBVIOUS
<1>1. DOMAIN log = {} /\ DOMAIN log = 1..0
  BY DEF LogInit
<1>2. MaxSeq = 0
  BY <1>1, MaxSeqOfInterval DEF MaxSeq
<1>3. IdleCall \in Call
  BY EntryFacts DEF IdleCall, CallIn, Call
<1>4. LogTypeOK
  BY <1>1, <1>3 DEF LogInit, LogTypeOK
<1>5. \A p \in Appenders : app[p].phase = "idle"
  BY DEF LogInit, IdleCall, CallIn
<1> QED BY <1>1, <1>2, <1>4, <1>5 DEF LogInit, LogInv, NoGaps, SnapshotsAreOld,
           LookupsCarryRequest, OneRowPerRequest, OkIsDurable, ConflictIsReal

\* The steps that change one call and nothing else.
LEMMA BeginInv == ASSUME LogInv, NEW p \in Appenders, NEW e \in Entry, Begin(p, e)
                  PROVE  LogInv'
<1> DEFINE d == CallIn(IF e.req = None THEN "snapshot" ELSE "lookup", e, 0, 0)
<1>2. d \in Call /\ d.entry = e /\ d.phase = IF e.req = None THEN "snapshot" ELSE "lookup"
  BY DEF CallIn, Call, InFlight
<1>3. app' = [app EXCEPT ![p] = d] /\ log' = log /\ orphans' = orphans
  BY DEF Begin
<1>4. orphans' \subseteq Call /\ \A o \in orphans' : o.max <= MaxSeq
  BY <1>3 DEF LogInv, LogTypeOK, SnapshotsAreOld
<1> HIDE DEF d
<1> QED BY <1>2, <1>3, <1>4, OneCallMoves

LEMMA LookupInv == ASSUME LogInv, NEW p \in Appenders, Lookup(p) \/ Relookup(p)
                   PROVE  LogInv'
<1>1. app[p] \in Call /\ app[p].entry.req # None
  BY DEF LogInv, LogTypeOK, LookupsCarryRequest, Lookup, Relookup
<1>2. orphans' \subseteq Call /\ (\A o \in orphans' : o.max <= MaxSeq) /\ log' = log
  BY DEF LogInv, LogTypeOK, SnapshotsAreOld, Lookup, Relookup
<1>3. PICK missing \in {"snapshot", "error"} :
        app' = [app EXCEPT ![p] = Looked(app[p], missing)]
  BY DEF LogInv, LogTypeOK, Lookup, Relookup
<1> DEFINE d == Looked(app[p], missing)
<1>4. /\ d \in Call
      /\ d.entry = app[p].entry
      /\ d.phase \in {missing, "ok", "conflict"}
      /\ d.phase = "ok" => d.seq \in DOMAIN log /\ log[d.seq] = d.entry
      /\ d.phase = "conflict" =>
           \E i \in DOMAIN log : log[i].req = d.entry.req /\ log[i] # d.entry
  BY <1>1, LookupFacts
<1>5. app' = [app EXCEPT ![p] = d]
  BY <1>3
<1> HIDE DEF d
<1> QED BY <1>2, <1>4, <1>5, OneCallMoves

LEMMA SnapshotInv == ASSUME LogInv, NEW p \in Appenders, Snapshot(p)
                     PROVE  LogInv'
<1> DEFINE d == CallIn("insert", app[p].entry, MaxSeq, 0)
<1>1. app[p] \in Call /\ MaxSeq \in Nat /\ app \in [Appenders -> Call]
  BY DEF LogInv, LogTypeOK
<1>2. d \in Call /\ d.phase = "insert" /\ d.max = MaxSeq
  BY <1>1 DEF CallIn, Call, InFlight
<1>3. app' = [app EXCEPT ![p] = d] /\ log' = log
  BY DEF Snapshot
<1>4. orphans' \subseteq Call /\ \A o \in orphans' : o.max <= MaxSeq
  BY DEF LogInv, LogTypeOK, SnapshotsAreOld, Snapshot
<1>5. /\ d.phase = "insert" => d.max <= MaxSeq
      /\ d.phase \notin {"lookup", "relookup", "ok", "conflict"}
  BY <1>1, <1>2
<1> HIDE DEF d
<1> QED BY <1>2, <1>3, <1>4, <1>5, OneCallMoves

LEMMA FailInv == ASSUME LogInv, NEW p \in Appenders, Fail(p)
                 PROVE  LogInv'
<1> DEFINE d == Result(app[p], "error", 0)
<1>1. app[p] \in Call
  BY DEF LogInv, LogTypeOK
<1>2. d \in Call /\ d.phase = "error"
  BY <1>1, ResultType DEF Finished
<1>3. app' = [app EXCEPT ![p] = d] /\ log' = log
  BY DEF Fail
<1>4. orphans' \subseteq Call /\ \A o \in orphans' : o.max <= MaxSeq
  BY <1>1 DEF LogInv, LogTypeOK, SnapshotsAreOld, Fail
<1> HIDE DEF d
<1> QED BY <1>2, <1>3, <1>4, OneCallMoves

LEMMA ReturnInv == ASSUME LogInv, NEW p \in Appenders, Return(p)
                   PROVE  LogInv'
<1>1. IdleCall \in Call /\ IdleCall.phase = "idle"
  BY EntryFacts DEF IdleCall, CallIn, Call
<1>2. app' = [app EXCEPT ![p] = IdleCall] /\ log' = log
  BY DEF Return
<1>3. orphans' \subseteq Call /\ \A o \in orphans' : o.max <= MaxSeq
  BY DEF LogInv, LogTypeOK, SnapshotsAreOld, Return
<1> QED BY <1>1, <1>2, <1>3, OneCallMoves

\* The steps that may write a row.
LEMMA InsertInv == ASSUME LogInv, NEW p \in Appenders, Insert(p)
                   PROVE  LogInv'
<1> DEFINE c == app[p]
<1>1. c \in Call /\ c.phase = "insert" /\ c.max <= MaxSeq /\ app \in [Appenders -> Call]
  BY DEF LogInv, LogTypeOK, SnapshotsAreOld, Insert
<1>2. CASE Inserts(c)
  <2> DEFINE d == Result(c, "ok", c.max + 1)
  <2>1. app' = [app EXCEPT ![p] = d] /\ log' = WithRow(c) /\ orphans' = orphans
    BY <1>2 DEF Insert
  <2>2. d \in Call /\ d.phase = "ok" /\ d.seq = c.max + 1 /\ d.entry = c.entry
    <3>1. c.max + 1 \in Nat
      BY <1>1 DEF Call
    <3> QED BY <1>1, <3>1, ResultType DEF Finished
  <2>3. app' \in [Appenders -> Call]
    BY <1>1, <2>1, <2>2
  <2>4. \A q \in Appenders : \/ app'[q] = app[q]
                             \/ /\ app'[q].phase = "ok" /\ app'[q].seq = c.max + 1
                                /\ app'[q].entry = c.entry
    BY <1>1, <2>1, <2>2
  <2> HIDE DEF c, d
  <2> QED BY <1>1, <1>2, <2>1, <2>3, <2>4, RowAdded
<1>3. CASE ~Inserts(c)
  <2> DEFINE d == Result(c, IF SeqTaken(c) THEN "error" ELSE "relookup", 0)
  <2>1. app' = [app EXCEPT ![p] = d] /\ log' = log /\ orphans' = orphans
    BY <1>3 DEF Insert
  <2>2. /\ d \in Call /\ d.entry = c.entry
        /\ d.phase = IF SeqTaken(c) THEN "error" ELSE "relookup"
    <3>1. (IF SeqTaken(c) THEN "error" ELSE "relookup") \in {"idle"} \cup InFlight \cup Finished
      BY DEF InFlight, Finished
    <3> HIDE DEF c
    <3> QED BY <1>1, <3>1, ResultType
  <2>3. d.phase = "relookup" => d.entry.req # None
    BY <1>3, <2>2 DEF Inserts, Duplicate
  <2>4. orphans' \subseteq Call /\ \A o \in orphans' : o.max <= MaxSeq
    BY <2>1 DEF LogInv, LogTypeOK, SnapshotsAreOld
  <2> HIDE DEF d
  <2> QED BY <2>1, <2>2, <2>3, <2>4, OneCallMoves
<1> QED BY <1>2, <1>3

LEMMA OrphanInsertInv == ASSUME LogInv, NEW o \in orphans, OrphanInsert(o)
                         PROVE  LogInv'
<1>1. o \in Call /\ o.max <= MaxSeq /\ orphans' \subseteq orphans /\ app' = app
  BY DEF LogInv, LogTypeOK, SnapshotsAreOld, OrphanInsert
<1>2. CASE Inserts(o)
  BY <1>1, <1>2, RowAdded DEF OrphanInsert, LogInv, LogTypeOK
<1>3. CASE ~Inserts(o)
  <2>1. log' = log
    BY <1>3 DEF OrphanInsert
  <2> QED BY <1>1, <2>1 DEF LogInv, LogTypeOK, NoGaps, MaxSeq, SnapshotsAreOld,
             LookupsCarryRequest, OneRowPerRequest, OkIsDurable, ConflictIsReal
<1> QED BY <1>2, <1>3

LEMMA AbandonInv == ASSUME LogInv, Abandon
                    PROVE  LogInv'
<1>1. PICK S \in SUBSET {p \in Appenders : app[p].phase = "insert"} :
        orphans' = orphans \cup {app[p] : p \in S}
  BY DEF Abandon
<1>2. \A p \in S : app[p] \in Call /\ app[p].max <= MaxSeq
  BY DEF LogInv, LogTypeOK, SnapshotsAreOld
<1>3. orphans' \subseteq Call /\ \A o \in orphans' : o.max <= MaxSeq
  BY <1>1, <1>2 DEF LogInv, LogTypeOK, SnapshotsAreOld
<1>4. IdleCall \in Call /\ IdleCall.phase = "idle"
  BY EntryFacts DEF IdleCall, CallIn, Call
<1>5. app' \in [Appenders -> Call] /\ \A p \in Appenders : app'[p].phase = "idle"
  BY <1>4 DEF Abandon
<1>6. log' = log /\ MaxSeq' = MaxSeq
  BY DEF Abandon, MaxSeq
<1> QED BY <1>3, <1>5, <1>6 DEF LogInv, LogTypeOK, NoGaps, SnapshotsAreOld,
           LookupsCarryRequest, OneRowPerRequest, OkIsDurable, ConflictIsReal

LEMMA LogInvNext == LogInv /\ [LogNext]_logVars => LogInv'
<1> SUFFICES ASSUME LogInv, [LogNext]_logVars PROVE LogInv'
  OBVIOUS
<1>1. ASSUME NEW p \in Appenders, NEW e \in Entry, Begin(p, e) PROVE LogInv'
  BY <1>1, BeginInv
<1>2. ASSUME NEW p \in Appenders, Lookup(p) \/ Relookup(p) PROVE LogInv'
  BY <1>2, LookupInv
<1>3. ASSUME NEW p \in Appenders, Snapshot(p) PROVE LogInv'
  BY <1>3, SnapshotInv
<1>4. ASSUME NEW p \in Appenders, Insert(p) PROVE LogInv'
  BY <1>4, InsertInv
<1>5. ASSUME NEW p \in Appenders, Fail(p) PROVE LogInv'
  BY <1>5, FailInv
<1>6. ASSUME NEW p \in Appenders, Return(p) PROVE LogInv'
  BY <1>6, ReturnInv
<1>7. ASSUME NEW o \in orphans, OrphanInsert(o) PROVE LogInv'
  BY <1>7, OrphanInsertInv
<1>8. CASE Abandon
  BY <1>8, AbandonInv
<1>9. CASE UNCHANGED logVars
  BY <1>9 DEF logVars, LogInv, LogTypeOK, NoGaps, MaxSeq, SnapshotsAreOld,
     LookupsCarryRequest, OneRowPerRequest, OkIsDurable, ConflictIsReal
<1> QED BY <1>1, <1>2, <1>3, <1>4, <1>5, <1>6, <1>7, <1>8, <1>9 DEF LogNext

-----------------------------------------------------------------------------
(***************************************************************************)
(* What holds of every execution                                           *)
(***************************************************************************)

\* The inductive invariant holds in every reachable state.
THEOREM LogInvariant == LogSpec => []LogInv
<1>1. LogInit => LogInv
  BY LogInvInit
<1>2. LogInv /\ [LogNext]_logVars => LogInv'
  BY LogInvNext
<1> QED BY <1>1, <1>2, PTL DEF LogSpec

\* The rows, the calls and the abandoned statements have their types.
THEOREM LogTypeCorrect == LogSpec => []LogTypeOK
<1>1. LogInv => LogTypeOK
  BY DEF LogInv
<1> QED BY <1>1, LogInvariant, PTL

\* Replay is never given a log with a gap.
THEOREM LogHasNoGaps == LogSpec => []NoGaps
<1>1. LogInv => NoGaps
  BY DEF LogInv
<1> QED BY <1>1, LogInvariant, PTL

\* Retries and concurrent duplicates of a request leave one row.
THEOREM RequestRecordedOnce == LogSpec => []OneRowPerRequest
<1>1. LogInv => OneRowPerRequest
  BY DEF LogInv
<1> QED BY <1>1, LogInvariant, PTL

\* What AppendAction reports as appended is in the log as asked for.
THEOREM ReportedAppendIsDurable == LogSpec => []OkIsDurable
<1>1. LogInv => OkIsDurable
  BY DEF LogInv
<1> QED BY <1>1, LogInvariant, PTL

\* AppendAction reports a conflict only for a request id used for another action.
THEOREM ReportedConflictIsReal == LogSpec => []ConflictIsReal
<1>1. LogInv => ConflictIsReal
  BY DEF LogInv
<1> QED BY <1>1, LogInvariant, PTL

\* Every step leaves the rows that are there as they are.
LEMMA RowsStay ==
  ASSUME LogInv, [LogNext]_logVars, NEW i \in DOMAIN log
  PROVE  i \in DOMAIN log' /\ log'[i] = log[i]
<1>1. ASSUME NEW c \in Call, c.max <= MaxSeq, Inserts(c), log' = WithRow(c)
      PROVE  i \in DOMAIN log' /\ log'[i] = log[i]
  <2>1. DOMAIN log' = 1..(MaxSeq + 1) /\ log'[i] = log[i] /\ MaxSeq \in Nat
    BY <1>1, InsertAddsNext DEF LogInv
  <2> QED BY <2>1 DEF LogInv, NoGaps
<1>2. ASSUME NEW p \in Appenders, Insert(p), Inserts(app[p])
      PROVE  i \in DOMAIN log' /\ log'[i] = log[i]
  <2>1. app[p] \in Call /\ app[p].max <= MaxSeq /\ log' = WithRow(app[p])
    BY <1>2 DEF Insert, LogInv, LogTypeOK, SnapshotsAreOld
  <2> QED BY <1>1, <1>2, <2>1
<1>3. ASSUME NEW o \in orphans, OrphanInsert(o), Inserts(o)
      PROVE  i \in DOMAIN log' /\ log'[i] = log[i]
  <2>1. o \in Call /\ o.max <= MaxSeq /\ log' = WithRow(o)
    BY <1>3 DEF OrphanInsert, LogInv, LogTypeOK, SnapshotsAreOld
  <2> QED BY <1>1, <1>3, <2>1
<1>4. \/ log' = log
      \/ \E p \in Appenders : Insert(p) /\ Inserts(app[p])
      \/ \E o \in orphans : OrphanInsert(o) /\ Inserts(o)
  BY DEF LogNext, logVars, Begin, Lookup, Snapshot, Insert, Relookup, Fail, Return,
     OrphanInsert, Abandon
<1> QED BY <1>2, <1>3, <1>4

\* No step rewrites or deletes a row.
THEOREM RowsNeverChange == LogSpec => RowsAreFinal
<1>1. LogInv /\ [LogNext]_logVars =>
        [\A i \in DOMAIN log : i \in DOMAIN log' /\ log'[i] = log[i]]_logVars
  BY RowsStay
<1> QED BY <1>1, LogInvariant, PTL DEF LogSpec, RowsAreFinal

\* Only an INSERT reports a tick as appended, and it reports a new row.
LEMMA TickGetsNewRow ==
  ASSUME LogInv, LogNext, NEW p \in Appenders,
         app'[p].phase = "ok", app'[p].entry = TickEntry, app[p].phase # "ok"
  PROVE  app'[p].seq \notin DOMAIN log
<1>1. app \in [Appenders -> Call] /\ app[p] \in Call
  BY DEF LogInv, LogTypeOK
<1>2. app'[p] # app[p]
  OBVIOUS
<1>3. CASE Lookup(p) \/ Relookup(p)
  <2>1. app[p].entry.req # None
    BY <1>3 DEF LogInv, LookupsCarryRequest, Lookup, Relookup
  <2>2. PICK missing \in {"snapshot", "error"} : app'[p] = Looked(app[p], missing)
    BY <1>1, <1>3 DEF Lookup, Relookup
  <2>3. app'[p].entry = app[p].entry
    BY <1>1, <2>1, <2>2, LookupFacts
  <2> QED BY <2>1, <2>3, EntryFacts
<1>4. CASE Insert(p)
  <2>1. CASE Inserts(app[p])
    <3>1. app'[p] = Result(app[p], "ok", app[p].max + 1)
      BY <1>1, <1>4, <2>1 DEF Insert
    <3>2. app'[p].seq = app[p].max + 1
      BY <3>1 DEF Result, CallIn
    <3> QED BY <2>1, <3>2 DEF Inserts, SeqTaken
  <2>2. CASE ~Inserts(app[p])
    <3>1. app'[p].phase \in {"error", "relookup"}
      BY <1>1, <1>4, <2>2 DEF Insert, Result, CallIn
    <3> QED BY <3>1
  <2> QED BY <2>1, <2>2
<1>5. CASE \/ \E e \in Entry : Begin(p, e)
           \/ Snapshot(p) \/ Fail(p) \/ Return(p) \/ Abandon
  <2>1. app'[p].phase # "ok"
    BY <1>1, <1>5 DEF Begin, Snapshot, Fail, Return, Abandon, Result, IdleCall, CallIn
  <2> QED BY <2>1
<1>6. CASE \E q \in Appenders \ {p} :
             \/ \E e \in Entry : Begin(q, e)
             \/ Lookup(q) \/ Snapshot(q) \/ Insert(q) \/ Relookup(q) \/ Fail(q) \/ Return(q)
  <2>1. app'[p] = app[p]
    BY <1>1, <1>6 DEF Begin, Lookup, Snapshot, Insert, Relookup, Fail, Return
  <2> QED BY <1>2, <2>1
<1>7. CASE \E o \in orphans : OrphanInsert(o)
  BY <1>2, <1>7 DEF OrphanInsert
<1> QED BY <1>3, <1>4, <1>5, <1>6, <1>7 DEF LogNext

\* No two ticks are given the same row.
THEOREM EveryTickHasItsRow == LogSpec => TicksAreNew
<1>1. LogInv /\ [LogNext]_logVars =>
        [\A p \in Appenders :
           app'[p].phase = "ok" /\ app'[p].entry = TickEntry /\ app[p].phase # "ok"
             => app'[p].seq \notin DOMAIN log]_logVars
  BY TickGetsNewRow
<1> QED BY <1>1, LogInvariant, PTL DEF LogSpec, TicksAreNew

=============================================================================

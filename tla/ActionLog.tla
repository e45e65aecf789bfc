----------------------------- MODULE ActionLog -----------------------------
(***************************************************************************)
(* The action log of one run: the rows of run_actions for one run_id, and  *)
(* PostgresRunRepo.AppendAction, the only statement that adds a row        *)
(* (internal/engine/a/repo/run_repo.go, migrations/0005_runs_actions).     *)
(*                                                                         *)
(* AppendAction is two or three SQL statements, so appenders interleave    *)
(* between them.  The INSERT takes its MAX(seq) from the snapshot of the   *)
(* statement (READ COMMITTED) and only then waits for FOR UPDATE on the    *)
(* run's row: the two halves are the steps Snapshot and Insert.  A         *)
(* statement whose client gave up (cancelled context, broken connection,   *)
(* dead process) may still be executed by the server: it becomes an        *)
(* orphan.                                                                 *)
(***************************************************************************)
EXTENDS Integers, FiniteSets

CONSTANTS
  Appenders,   \* the goroutines that call AppendAction
  Keys,        \* action keys a client can send
  Reqs,        \* client request ids
  None,        \* SQL NULL
  MaxLog,      \* bound: no append starts once the log has this many rows
  MaxOrphans   \* bound: INSERTs left running without a client at one time

ASSUME NoneAssumption == None \notin Keys \cup Reqs
ASSUME BoundsAssumption == MaxLog \in Nat /\ MaxOrphans \in Nat

VARIABLES
  log,         \* log[seq] is the row with that seq; DOMAIN log is the set of seqs
  app,         \* app[p]: the AppendAction call in progress in p, or its result
  orphans      \* INSERT statements whose client no longer waits for them

logVars == <<log, app, orphans>>

-----------------------------------------------------------------------------
\* The CHECK of run_actions: a player row has a key and a request id, a tick
\* row has neither.
TickEntry == [type |-> "tick", key |-> None, req |-> None]
PlayerEntry(key, req) == [type |-> "player", key |-> key, req |-> req]
Entry == {TickEntry} \cup [type : {"player"}, key : Keys, req : Reqs]

InFlight == {"lookup", "snapshot", "insert", "relookup"}
Finished == {"ok", "conflict", "error"}

Call == [phase : {"idle"} \cup InFlight \cup Finished,
         entry : Entry, max : Nat, seq : Nat]

CallIn(phase, e, max, seq) == [phase |-> phase, entry |-> e, max |-> max, seq |-> seq]
IdleCall == CallIn("idle", TickEntry, 0, 0)

\* What AppendAction returns: a row's seq, or an error (seq 0).
Result(c, phase, seq) == CallIn(phase, c.entry, 0, seq)

\* The seqs of the rows the dedup index holds for request r: at most one.
RowsOf(r) == {i \in DOMAIN log : log[i].req = r}

\* COALESCE(MAX(seq), 0)
MaxSeqOf(l) == CHOOSE m \in DOMAIN l \cup {0} : \A i \in DOMAIN l : i <= m
MaxSeq == MaxSeqOf(log)

-----------------------------------------------------------------------------
LogInit ==
  /\ log = [i \in {} |-> TickEntry]
  /\ app = [p \in Appenders |-> IdleCall]
  /\ orphans = {}

\* A tick carries no request id and goes straight to the INSERT.
Begin(p, e) ==
  /\ app[p].phase = "idle"
  /\ Cardinality(DOMAIN log) < MaxLog
  /\ app' = [app EXCEPT ![p] =
               CallIn(IF e.req = None THEN "snapshot" ELSE "lookup", e, 0, 0)]
  /\ UNCHANGED <<log, orphans>>

\* MUTANT of Looked: any row of the request counts as this action's.
LookedNoCompare(c, missing) ==
  IF RowsOf(c.entry.req) = {} THEN Result(c, missing, 0)
  ELSE Result(c, "ok", CHOOSE i \in RowsOf(c.entry.req) : TRUE)

\* What getActionByClientRequestID means for the caller: no row, the row of
\* the same action, or a row of another action under the same request id.
Looked(c, missing) ==
  IF RowsOf(c.entry.req) = {} THEN Result(c, missing, 0)
  ELSE LET i == CHOOSE i \in RowsOf(c.entry.req) : TRUE
       IN IF log[i] = c.entry THEN Result(c, "ok", i) ELSE Result(c, "conflict", 0)

Lookup(p) ==
  /\ app[p].phase = "lookup"
  /\ app' = [app EXCEPT ![p] = Looked(@, "snapshot")]
  /\ UNCHANGED <<log, orphans>>

\* MUTANT of Snapshot: the next seq skips one.
SnapshotSkipsOne(p) ==
  /\ app[p].phase = "snapshot"
  /\ app' = [app EXCEPT ![p] = CallIn("insert", @.entry, MaxSeq + 1, 0)]
  /\ UNCHANGED <<log, orphans>>

\* The INSERT begins: next_seq is computed from the statement's snapshot.
Snapshot(p) ==
  /\ app[p].phase = "snapshot"
  /\ app' = [app EXCEPT ![p] = CallIn("insert", @.entry, MaxSeq, 0)]
  /\ UNCHANGED <<log, orphans>>

\* MUTANTS of SeqTaken and Duplicate: the unique index does not exist.
SeqNotUnique(c) == c.max + 1 = 0
RequestNotUnique(c) == c.max + 1 = 0

\* The two unique indexes, in the order Postgres checks them:
\* UNIQUE (run_id, seq), then idx_run_actions_dedup.
SeqTaken(c) == c.max + 1 \in DOMAIN log
Duplicate(c) == c.entry.req # None /\ RowsOf(c.entry.req) # {}
Inserts(c) == ~SeqTaken(c) /\ ~Duplicate(c)

WithRow(c) == [i \in DOMAIN log \cup {c.max + 1} |->
                 IF i = c.max + 1 THEN c.entry ELSE log[i]]

\* The lock is granted and the row is written, or an index refuses it.  Only a
\* violation of the dedup index is looked up again; any other error is returned.
Insert(p) ==
  LET c == app[p] IN
  /\ c.phase = "insert"
  /\ \/ /\ Inserts(c)
        /\ log' = WithRow(c)
        /\ app' = [app EXCEPT ![p] = Result(c, "ok", c.max + 1)]
     \/ /\ ~Inserts(c)
        /\ app' = [app EXCEPT ![p] =
                      Result(c, IF SeqTaken(c) THEN "error" ELSE "relookup", 0)]
        /\ UNCHANGED log
  /\ UNCHANGED orphans

\* MUTANT of Relookup: a violation of the dedup index is always a conflict.
RelookupConflict(p) ==
  /\ app[p].phase = "relookup"
  /\ app' = [app EXCEPT ![p] = Result(@, "conflict", 0)]
  /\ UNCHANGED <<log, orphans>>

Relookup(p) ==
  /\ app[p].phase = "relookup"
  /\ app' = [app EXCEPT ![p] = Looked(@, "error")]
  /\ UNCHANGED <<log, orphans>>

\* The query fails for its caller.  An INSERT that has begun may go on without it.
Fail(p) ==
  /\ app[p].phase \in InFlight
  /\ app' = [app EXCEPT ![p] = Result(@, "error", 0)]
  /\ \/ UNCHANGED orphans
     \/ /\ app[p].phase = "insert"
        /\ Cardinality(orphans) < MaxOrphans
        /\ orphans' = orphans \cup {app[p]}
  /\ UNCHANGED log

OrphanInsert(o) ==
  /\ orphans' = orphans \ {o}
  /\ log' = IF Inserts(o) THEN WithRow(o) ELSE log
  /\ UNCHANGED app

\* The caller takes the result.
Return(p) ==
  /\ app[p].phase \in Finished
  /\ app' = [app EXCEPT ![p] = IdleCall]
  /\ UNCHANGED <<log, orphans>>

\* The process dies: its calls are gone; any INSERT in progress may still run.
Abandon ==
  /\ app' = [p \in Appenders |-> IdleCall]
  /\ \E S \in SUBSET {p \in Appenders : app[p].phase = "insert"} :
       /\ orphans' = orphans \cup {app[p] : p \in S}
       /\ S # {} => Cardinality(orphans') <= MaxOrphans
  /\ UNCHANGED log

LogNext ==
  \/ \E p \in Appenders :
       \/ \E e \in Entry : Begin(p, e)
       \/ Lookup(p)
       \/ Snapshot(p)
       \/ Insert(p)
       \/ Relookup(p)
       \/ Fail(p)
       \/ Return(p)
  \/ \E o \in orphans : OrphanInsert(o)
  \/ Abandon

LogSpec == LogInit /\ [][LogNext]_logVars

-----------------------------------------------------------------------------
LogTypeOK ==
  /\ DOMAIN log \subseteq Nat
  /\ \A i \in DOMAIN log : log[i] \in Entry
  /\ app \in [Appenders -> Call]
  /\ orphans \subseteq Call

\* The seqs of a run are 1, 2, ..., n without a gap, however stale the snapshot
\* an appender computed its seq from: Replay refuses any other log.
NoGaps == DOMAIN log = 1..MaxSeq

\* A client request is recorded at most once, although the lookup that looks for
\* it and the INSERT that adds it are separate statements.
OneRowPerRequest ==
  \A i, j \in DOMAIN log : log[i].req = log[j].req /\ log[i].req # None => i = j

\* An append that reported success names a row that is there, with exactly the
\* action that was asked for: a retry gets its own earlier row, never another's.
OkIsDurable ==
  \A p \in Appenders : app[p].phase = "ok" =>
    /\ app[p].seq \in DOMAIN log
    /\ log[app[p].seq] = app[p].entry

\* ErrActionConflict is only returned when the request id is recorded for a
\* different action: a retry that loses the race with itself is no conflict.
ConflictIsReal ==
  \A p \in Appenders : app[p].phase = "conflict" =>
    \E i \in DOMAIN log : log[i].req = app[p].entry.req /\ log[i] # app[p].entry

\* No row is changed or removed once it is written.
RowsAreFinal ==
  [][\A i \in DOMAIN log : i \in DOMAIN log' /\ log'[i] = log[i]]_logVars

\* Every successful append of a tick has a row of its own: a tick that is
\* reported to one appender was never reported to another before.
TicksAreNew ==
  [][\A p \in Appenders :
       app'[p].phase = "ok" /\ app'[p].entry = TickEntry /\ app[p].phase # "ok"
         => app'[p].seq \notin DOMAIN log]_logVars
=============================================================================

--------------------------- MODULE EngineARuntime ---------------------------
(***************************************************************************)
(* The Engine A runtime for one run (cmd/engine-a/runtime.go): API calls   *)
(* from connection goroutines, the cache of loaded run states, the tick    *)
(* loop of each loaded state, and the action log they share (ActionLog).   *)
(*                                                                         *)
(* A runState is a slot 1..MaxStates.  The map entry EngineARuntime.states *)
(* [runID] is the variable current (0 for nil).  Two loaders that both     *)
(* miss the map both load and both install: the first one's slot stays in  *)
(* use by whoever holds it.  The per-run mutex is held across the SQL of   *)
(* AppendAction, so a critical section that appends is several steps; one  *)
(* that does not block is a single step that needs the mutex free.         *)
(*                                                                         *)
(* Time: nextTickAt is either not reached (held) or reached.  GetRunByID,  *)
(* the bundle hash and the bundle never change during a run, so loading    *)
(* them is one read that may fail.                                         *)
(***************************************************************************)
EXTENDS SimEngine, FiniteSets

CONSTANTS
  Calls,          \* API calls (goroutines of connections), each made once
  Keys, Reqs,     \* what clients can send
  Sim,            \* the SimulationSpec of the run's room version
  DurationTicks,  \* 0: no time limit
  DeltaCap,       \* capacity of a delta channel (16 in the code)
  Ops,            \* bound: the operations calls perform
  MaxStates,      \* bound: runStates one process loads for the run
  MaxFaults,      \* bound: failing statements and loads
  MaxCrashes,     \* bound: process restarts
  MaxRaces,       \* bound: loads started while another load is under way
  MaxLog, MaxOrphans

Slots == 1..MaxStates

ASSUME CallsAssumption == IsFiniteSet(Calls)
ASSUME SlotsAssumption == MaxStates \in Nat \ {0} /\ Calls \cap Slots = {}
ASSUME KeysAssumption == None \notin Keys \cup Reqs
ASSUME RuntimeBounds ==
  /\ DurationTicks \in Nat /\ DeltaCap \in Nat \ {0}
  /\ MaxFaults \in Nat /\ MaxCrashes \in Nat /\ MaxRaces \in Nat
  /\ MaxLog \in Nat /\ MaxOrphans \in Nat
ASSUME OpsAssumption == Ops \subseteq {"connect", "apply", "deltas", "wins"}

VARIABLES
  log, app, orphans,   \* ActionLog
  current,             \* r.states[runID]
  states,              \* states[s]: the runState loaded into slot s
  call,                \* call[c]: where API call c stands, and what it returned
  chan,                \* chan[c]: the delta channel made by the subscription c
  budget               \* faults, crashes and racing loads so far

AL == INSTANCE ActionLog WITH Appenders <- Calls \cup Slots

vars == <<log, app, orphans, current, states, call, chan, budget>>
logVars == <<log, app, orphans>>

-----------------------------------------------------------------------------
Free == "free"          \* the mutex of a runState: free, held by a call, or
TickLoop == "tickLoop"  \* held by its tick loop

ASSUME MutexAssumption == Calls \cap {Free, TickLoop} = {}

\* A slot no loader has filled.  loops counts the tick loop goroutines between
\* two ticks.  History: applied, the rows the engine has applied; told, the win
\* subscribers that were sent the win update.
EmptyState ==
  [loaded |-> FALSE, engine |-> NewEngine(Sim), lastSeq |-> 0, held |-> FALSE,
   terminal |-> FALSE, sentWin |-> FALSE, tickStarted |-> FALSE,
   subs |-> {}, winSubs |-> {}, told |-> {},
   mu |-> Free, loops |-> 0, applied |-> {}]

NewCall == [pc |-> "new", op |-> "none", key |-> None, req |-> None,
            slot |-> 0, rows |-> <<>>, reply |-> "none", seq |-> 0]

\* buf: what the channel holds; read: the seq its reader took last.
NoChan == [open |-> FALSE, buf |-> <<>>, read |-> 0]

Over(e) == e.won \/ (DurationTicks > 0 /\ e.tick >= DurationTicks)

Init ==
  /\ AL!LogInit
  /\ current = 0
  /\ states = [s \in Slots |-> EmptyState]
  /\ call = [c \in Calls |-> NewCall]
  /\ chan = [c \in Calls |-> NoChan]
  /\ budget = [faults |-> 0, crashes |-> 0, races |-> 0]

Reply(c, what, seq) == [call EXCEPT ![c].pc = "done", ![c].reply = what, ![c].seq = seq,
                                    ![c].slot = 0, ![c].rows = <<>>]
Goto(c, pc) == [call EXCEPT ![c].pc = pc]

-----------------------------------------------------------------------------
(***************************************************************************)
(* state(): look the run up, or load and replay it                         *)
(***************************************************************************)

Start(c, op, key, req) ==
  /\ call[c].pc = "new"
  /\ call' = [call EXCEPT ![c].pc = "state", ![c].op = op, ![c].key = key, ![c].req = req]
  /\ UNCHANGED <<logVars, current, states, chan, budget>>

\* The map is read under r.mu, which is released before anything is loaded.
FindsState(c) ==
  /\ call[c].pc = "state"
  /\ current # 0
  /\ call' = [call EXCEPT ![c].pc = "lock", ![c].slot = current]
  /\ UNCHANGED <<logVars, current, states, chan, budget>>

Loading == {c \in Calls : call[c].pc \in {"load", "seed", "install"}}

MissesState(c) ==
  /\ call[c].pc = "state"
  /\ current = 0
  /\ budget' = IF Loading = {} THEN budget ELSE [budget EXCEPT !.races = @ + 1]
  /\ budget'.races <= MaxRaces
  /\ call' = Goto(c, "load")
  /\ UNCHANGED <<logVars, current, states, chan>>

\* The i-th smallest number of S, and row n of the log as ListActions returns it
\* (under number i).
Nth(S, i) == CHOOSE n \in S : Cardinality({m \in S : m <= n}) = i
Row(i, n) == [seq |-> i, type |-> log[n].type, key |-> log[n].key, req |-> log[n].req]

\* The rows in seq order, as ListActions returns them.
Listed == [i \in 1..Cardinality(DOMAIN log) |->
             LET n == Nth(DOMAIN log, i) IN Row(n, n)]

ListActions(c) ==
  /\ call[c].pc = "load"
  /\ DOMAIN log # {}
  /\ call' = [call EXCEPT ![c].pc = "install", ![c].rows = Listed]
  /\ UNCHANGED <<logVars, current, states, chan, budget>>

\* An empty log is given a first tick by whoever loads it.
SeedFirstTick(c) ==
  /\ call[c].pc = "load"
  /\ DOMAIN log = {}
  /\ AL!Begin(c, AL!TickEntry)
  /\ call' = Goto(c, "seed")
  /\ UNCHANGED <<current, states, chan, budget>>

Seeded(c) ==
  /\ call[c].pc = "seed"
  /\ AL!Return(c)
  /\ call' = IF app[c].phase = "ok"
             THEN [call EXCEPT ![c].pc = "install",
                     ![c].rows = <<[seq |-> app[c].seq, type |-> "tick",
                                    key |-> None, req |-> None]>>]
             ELSE Reply(c, "error", 0)
  /\ UNCHANGED <<current, states, chan, budget>>

LoadFails(c) ==
  /\ call[c].pc = "load"
  /\ budget.faults < MaxFaults
  /\ budget' = [budget EXCEPT !.faults = @ + 1]
  /\ call' = Reply(c, "error", 0)
  /\ UNCHANGED <<logVars, current, states, chan>>

Loaded(e, rows) ==
  [EmptyState EXCEPT !.loaded = TRUE, !.engine = e, !.lastSeq = Last(rows).seq,
                     !.terminal = Over(e), !.applied = {rows[i].seq : i \in DOMAIN rows}]

\* Replay, then overwrite the map entry without looking at it again.
Install(c) ==
  /\ call[c].pc = "install"
  /\ LET replay == Replay(Sim, call[c].rows)
     IN  \/ /\ replay.err # NoErr
            /\ call' = Reply(c, "unreadable", 0)
            /\ UNCHANGED <<current, states>>
         \/ /\ replay.err = NoErr
            /\ \E s \in Slots :
                 /\ ~states[s].loaded
                 /\ \A t \in Slots : t < s => states[t].loaded
                 /\ states' = [states EXCEPT ![s] = Loaded(replay.engine, call[c].rows)]
                 /\ current' = s
                 /\ call' = [call EXCEPT ![c].pc = "lock", ![c].slot = s, ![c].rows = <<>>]
  /\ UNCHANGED <<logVars, chan, budget>>

-----------------------------------------------------------------------------
(***************************************************************************)
(* The operations under the mutex of the runState                          *)
(***************************************************************************)

\* MUTANT of EnsureTickLoop: the flag is not looked at.
EnsureTickLoopAgain(st) ==
  IF st.terminal THEN st ELSE [st EXCEPT !.tickStarted = TRUE, !.loops = @ + 1]

\* MUTANT of EnsureTickLoop: the goroutine is not started.
EnsureTickLoopFlagOnly(st) ==
  IF st.tickStarted \/ st.terminal THEN st ELSE [st EXCEPT !.tickStarted = TRUE]

\* ensureTickLoopLocked
EnsureTickLoop(st) ==
  IF st.tickStarted \/ st.terminal THEN st
  ELSE [st EXCEPT !.tickStarted = TRUE, !.loops = @ + 1]

Locks(c, op) ==
  /\ call[c].pc = "lock"
  /\ call[c].op = op
  /\ states[call[c].slot].mu = Free

Connect(c) ==
  /\ Locks(c, "connect")
  /\ states' = [states EXCEPT ![call[c].slot] = EnsureTickLoop(@)]
  /\ call' = Reply(c, "snapshot", states[call[c].slot].lastSeq)
  /\ UNCHANGED <<logVars, current, chan, budget>>

SubscribeDeltas(c) ==
  LET s == call[c].slot
      with == [states[s] EXCEPT !.subs = @ \cup {c}]
  IN  /\ Locks(c, "deltas")
      /\ states' = [states EXCEPT ![s] = EnsureTickLoop(with)]
      /\ chan' = [chan EXCEPT ![c].open = TRUE]
      /\ call' = [call EXCEPT ![c].pc = "subscribed"]
      /\ UNCHANGED <<logVars, current, budget>>

\* MUTANT of Unsubscribe: the channel is closed but stays in deltaSubs.
UnsubscribeKeepsSub(c) ==
  /\ call[c].pc = "subscribed"
  /\ states[call[c].slot].mu = Free
  /\ chan' = [chan EXCEPT ![c].open = FALSE, ![c].buf = <<>>]
  /\ call' = Reply(c, "closed", 0)
  /\ UNCHANGED <<logVars, current, states, budget>>

\* The goroutine that waits for ctx.Done(); the reader stops at ctx.Done() too and
\* drops what is left in the channel.
Unsubscribe(c) ==
  /\ call[c].pc = "subscribed"
  /\ states[call[c].slot].mu = Free
  /\ states' = [states EXCEPT ![call[c].slot].subs = @ \ {c}]
  /\ chan' = [chan EXCEPT ![c].open = FALSE, ![c].buf = <<>>]
  /\ call' = Reply(c, "closed", 0)
  /\ UNCHANGED <<logVars, current, budget>>

SubscribeWinUpdates(c) ==
  /\ Locks(c, "wins")
  /\ states' = [states EXCEPT ![call[c].slot].winSubs = @ \cup {c}]
  /\ call' = Reply(c, "subscribed", 0)
  /\ UNCHANGED <<logVars, current, chan, budget>>

\* MUTANT of Refused: a run that ended before it was loaded is not refused.
RefusedOnceTold(st) == st.sentWin

Refused(st) == st.terminal

ActionEntry(c) == AL!PlayerEntry(call[c].key, call[c].req)

\* ApplyAction up to its AppendAction: the row is written before the engine is
\* asked whether it knows the action.
ApplyBegin(c) ==
  /\ Locks(c, "apply")
  /\ IF Refused(states[call[c].slot])
     THEN call' = Reply(c, "completed", 0) /\ UNCHANGED <<logVars, states>>
     ELSE /\ AL!Begin(c, ActionEntry(c))
          /\ states' = [states EXCEPT ![call[c].slot].mu = c]
          /\ call' = Goto(c, "append")
  /\ UNCHANGED <<current, chan, budget>>

\* MUTANT of Passed: every row is applied, a retried one again.
PassedNever(st, seq) == FALSE

\* The engine has been at this row or beyond it, so the action was a retry.
Passed(st, seq) == seq <= st.lastSeq

\* MUTANT of WithAction: lastSeq stays behind.
WithActionKeepsSeq(st, e, seq) == [st EXCEPT !.engine = e, !.applied = @ \cup {seq}]

WithAction(st, e, seq) ==
  [st EXCEPT !.engine = e, !.lastSeq = seq, !.applied = @ \cup {seq}]

\* MUTANT of Accepted: the mutex is not released.
AcceptedHolds(st) == EnsureTickLoop([st EXCEPT !.held = TRUE])

\* The next tick is put off by a whole interval, and the mutex released.
Accepted(st) == EnsureTickLoop([st EXCEPT !.held = TRUE, !.mu = Free])

\* ApplyAction after its AppendAction.  The engine may still refuse an action
\* whose row is already in the log.
ApplyEnd(c) ==
  LET st == states[call[c].slot]
      seq == app[c].seq
      result == ApplyAction(Sim, st.engine, call[c].key, call[c].req)
      passed == Passed(st, seq)
      Unlock(new) == states' = [states EXCEPT ![call[c].slot] = new]
  IN  /\ call[c].pc = "append"
      /\ AL!Return(c)
      /\ \/ /\ app[c].phase # "ok"
            /\ Unlock([st EXCEPT !.mu = Free])
            /\ call' = Reply(c, app[c].phase, 0)
         \/ /\ app[c].phase = "ok" /\ ~passed /\ result.err # NoErr
            /\ Unlock([st EXCEPT !.mu = Free])
            /\ call' = Reply(c, "rejected", 0)
         \/ /\ app[c].phase = "ok" /\ ~passed /\ result.err = NoErr
            /\ Unlock(Accepted(WithAction(st, result.engine, seq)))
            /\ call' = Reply(c, "accepted", seq)
         \/ /\ app[c].phase = "ok" /\ passed
            /\ Unlock(Accepted(st))
            /\ call' = Reply(c, "accepted", seq)
      /\ UNCHANGED <<current, chan, budget>>

-----------------------------------------------------------------------------
(***************************************************************************)
(* tickLoop                                                                *)
(***************************************************************************)

\* The ticker fires with nextTickAt reached.  (A firing before it does nothing.)
TickBegin(s) ==
  /\ states[s].loops > 0 /\ states[s].mu = Free /\ ~states[s].held
  /\ IF states[s].terminal
     THEN /\ states' = [states EXCEPT ![s].loops = @ - 1, ![s].tickStarted = FALSE]
          /\ UNCHANGED logVars
     ELSE /\ AL!Begin(s, AL!TickEntry)
          /\ states' = [states EXCEPT ![s].loops = @ - 1, ![s].mu = TickLoop]
  /\ UNCHANGED <<current, call, chan, budget>>

HoldExpires(s) ==
  /\ states[s].held
  /\ states' = [states EXCEPT ![s].held = FALSE]
  /\ UNCHANGED <<logVars, current, call, chan, budget>>

\* MUTANT of Pushed: lastSeq is sent before it is advanced.
PushedPrevious(subs, seq) ==
  [c \in Calls |->
     IF c \in subs /\ Len(chan[c].buf) < DeltaCap
     THEN [chan[c] EXCEPT !.buf = Append(@, seq - 1)] ELSE chan[c]]

\* pushDelta: a full channel loses the delta.
Pushed(subs, seq) ==
  [c \in Calls |->
     IF c \in subs /\ Len(chan[c].buf) < DeltaCap
     THEN [chan[c] EXCEPT !.buf = Append(@, seq)] ELSE chan[c]]

\* MUTANT of Told: sentWin is set before it is looked at.
ToldNobody(st) == st.told

Told(st) == IF st.sentWin THEN st.told ELSE st.winSubs

\* After the AppendAction of the tick.  The loop ends on any error, and when the
\* run is over: then the win update goes out and the last state is not pushed.
TickEnd(s) ==
  LET st == states[s]
      result == Tick(Sim, st.engine)
      ticked == [st EXCEPT !.engine = result.engine, !.lastSeq = app[s].seq,
                           !.applied = @ \cup {app[s].seq}, !.mu = Free]
  IN  /\ st.mu = TickLoop
      /\ AL!Return(s)
      /\ IF app[s].phase # "ok" \/ result.err # NoErr
         THEN /\ states' = [states EXCEPT ![s].tickStarted = FALSE, ![s].mu = Free]
              /\ UNCHANGED chan
         ELSE IF Over(result.engine)
         THEN /\ states' = [states EXCEPT ![s] =
                   [ticked EXCEPT !.terminal = TRUE, !.tickStarted = FALSE, !.sentWin = TRUE,
                                  !.told = Told(st)]]
              /\ UNCHANGED chan
         ELSE /\ states' = [states EXCEPT ![s] = [ticked EXCEPT !.loops = @ + 1]]
              /\ chan' = Pushed(st.subs, app[s].seq)
      /\ UNCHANGED <<current, call, budget>>

-----------------------------------------------------------------------------
(***************************************************************************)
(* The environment: the reader of a channel, Postgres, restarts            *)
(***************************************************************************)

Receive(c) ==
  /\ chan[c].open /\ chan[c].buf # <<>>
  /\ chan' = [chan EXCEPT ![c].read = Head(chan[c].buf), ![c].buf = Tail(@)]
  /\ UNCHANGED <<logVars, current, states, call, budget>>

Statement(p) ==
  /\ AL!Lookup(p) \/ AL!Snapshot(p) \/ AL!Insert(p) \/ AL!Relookup(p)
  /\ UNCHANGED <<current, states, call, chan, budget>>

StatementFails(p) ==
  /\ budget.faults < MaxFaults
  /\ AL!Fail(p)
  /\ budget' = [budget EXCEPT !.faults = @ + 1]
  /\ UNCHANGED <<current, states, call, chan>>

LateInsert(o) ==
  /\ AL!OrphanInsert(o)
  /\ UNCHANGED <<current, states, call, chan, budget>>

\* The process restarts with an empty map.  An INSERT it leaves running is a fault.
Crash ==
  /\ budget.crashes < MaxCrashes
  /\ AL!Abandon
  /\ budget' = [budget EXCEPT !.crashes = @ + 1,
                              !.faults = @ + Cardinality(orphans' \ orphans)]
  /\ budget'.faults <= MaxFaults
  /\ current' = 0
  /\ states' = [s \in Slots |-> EmptyState]
  /\ call' = [c \in Calls |-> IF call[c].pc \in {"new", "done"} THEN call[c]
                              ELSE Reply(c, "lost", 0)[c]]
  /\ chan' = [c \in Calls |-> NoChan]

-----------------------------------------------------------------------------
StateStep(c) ==
  \/ FindsState(c) \/ MissesState(c)
  \/ ListActions(c) \/ SeedFirstTick(c) \/ Seeded(c) \/ LoadFails(c)
  \/ Install(c)

OperationStep(c) ==
  \/ Connect(c)
  \/ SubscribeDeltas(c) \/ SubscribeWinUpdates(c)
  \/ ApplyBegin(c) \/ ApplyEnd(c)

Next ==
  \/ \E c \in Calls :
       \/ \E op \in Ops \ {"apply"} : Start(c, op, None, None)
       \/ \E key \in Keys, req \in Reqs : "apply" \in Ops /\ Start(c, "apply", key, req)
       \/ StateStep(c)
       \/ OperationStep(c)
       \/ Unsubscribe(c)
       \/ Receive(c)
  \/ \E s \in Slots : TickBegin(s) \/ TickEnd(s) \/ HoldExpires(s)
  \/ \E p \in Calls \cup Slots : Statement(p) \/ StatementFails(p)
  \/ \E o \in orphans : LateInsert(o)
  \/ Crash

Spec == Init /\ [][Next]_vars

\* Goroutines run, Postgres answers and time passes.  Calls are not forced to
\* start or to unsubscribe, and nothing fails or restarts by obligation.
Fairness ==
  /\ \A c \in Calls : WF_vars(StateStep(c) \/ OperationStep(c))
  /\ \A s \in Slots : WF_vars(TickBegin(s) \/ TickEnd(s)) /\ WF_vars(HoldExpires(s))
  /\ \A p \in Calls \cup Slots : WF_vars(Statement(p))

FairSpec == Spec /\ Fairness

-----------------------------------------------------------------------------
\* However calls and ticks interleave and statements fail, a runState has at most
\* one tick loop, it has one exactly when tickStarted says so, and none when the
\* run is over: the flag is never stuck and the clock never runs twice as fast.
OneTickLoop ==
  \A s \in Slots :
    LET st == states[s]
        running == st.loops + (IF st.mu = TickLoop THEN 1 ELSE 0)
    IN  /\ running = IF st.tickStarted THEN 1 ELSE 0
        /\ st.terminal => running = 0

\* The rows of S in order, renumbered 1, 2, ...
Renumbered(S) == [i \in 1..Cardinality(S) |-> Row(i, Nth(S, i))]

\* Whatever raced or failed, a loaded engine is the replay, in log order and each
\* once, of the rows it took: a retried request is not applied a second time, and
\* nothing is in an engine that is not in the log.
EngineIsReplayOfApplied ==
  \A s \in Slots : states[s].loaded =>
    /\ states[s].applied \subseteq DOMAIN log
    /\ Replay(Sim, Renumbered(states[s].applied)) = Ok(states[s].engine)

\* No statement failed or outlived its caller, no two loads overlapped, and every
\* action in the log is one the room knows.
Undisturbed ==
  /\ budget.faults = 0 /\ budget.races = 0
  /\ \A i \in DOMAIN log : log[i].type = "player" => log[i].key \in DOMAIN Sim.actions

\* Undisturbed, the engine of the run is at the end of the log whenever nobody is
\* inside its mutex, and a restart would rebuild exactly that engine.
RebuildsFromLog ==
  Undisturbed => \A s \in Slots : states[s].loaded /\ states[s].mu = Free =>
    /\ states[s].lastSeq = AL!MaxSeq
    /\ Replay(Sim, Listed) = Ok(states[s].engine)

\* An accepted action is in the log under the seq the client was told, with its
\* key and request id, through every later failure and restart.
AcceptedIsLogged ==
  \A c \in Calls : call[c].reply = "accepted" =>
    /\ call[c].seq \in DOMAIN log
    /\ log[call[c].seq] = AL!PlayerEntry(call[c].key, call[c].req)

\* The reader of a delta channel sees seqs in increasing order, of ticks only, and
\* none the state has not reached.
DeltasIncrease ==
  \A c \in Calls : LET seen == <<chan[c].read>> \o chan[c].buf IN
    /\ \A i \in 1..(Len(seen) - 1) : seen[i] < seen[i + 1]
    /\ \A i \in 2..Len(seen) : /\ log[seen[i]] = AL!TickEntry
                               /\ seen[i] <= states[call[c].slot].lastSeq

\* The tick loop only sends on channels that are open: a send on a channel closed
\* by the goroutine of a finished subscription would panic.
SubscribersAreOpen ==
  \A s \in Slots : \A c \in states[s].subs : chan[c].open /\ call[c].slot = s

\* A run that is over stays as it is, whatever late actions and ticks arrive.
OverIsFinal ==
  [][\A s \in Slots : states[s].terminal /\ states'[s].loaded =>
       /\ states'[s].terminal
       /\ states'[s].engine = states[s].engine /\ states'[s].lastSeq = states[s].lastSeq]_vars

\* No statement fails after the first f failures, none is left running, and the
\* process neither loads the run twice nor restarts.
CalmAfter(f) == budget.faults = f /\ orphans = {}
Interrupted(f) == budget.faults # f \/ budget.races > 0 \/ current = 0

\* A tick loop waits for its next tick, or somebody who starts one is there.
ClockGoes ==
  \/ \E s \in Slots : states[s].loops > 0
  \/ \E c \in Calls : call[c].pc = "lock" /\ call[c].op \in {"connect", "deltas"}

\* A run whose clock is going, or to whose state somebody who connects or subscribes
\* has come, ends by a win or by its time limit unless something fails from then on:
\* accepted actions put ticks off but do not stop them, and a clock that stopped on
\* an error of an append is started again by whoever comes next.
RunsEnd ==
  \A f \in 0..MaxFaults :
    CalmAfter(f) /\ ClockGoes ~> (\E s \in Slots : states[s].terminal) \/ Interrupted(f)

\* Every API call returns: no order of calls, ticks and failing statements leaves a
\* mutex held or two goroutines waiting for each other.
CallsReturn ==
  \A c \in Calls : call[c].pc # "new" ~> call[c].pc \in {"done", "subscribed"}

\* Whoever subscribed to win updates is told of the end while the clock goes, unless
\* something fails from then on, and so after a clock that stopped is started again.
WinIsTold ==
  \A c \in Calls, s \in Slots, f \in 0..MaxFaults :
    CalmAfter(f) /\ c \in states[s].winSubs /\ states[s].loops > 0
      ~> c \in states[s].told \/ Interrupted(f)

\* docs/AGENTS/m3-research.md:418: "A mutex per run (or per-run goroutine with
\* channel) serializes tick advancement + action application."  Two loads of one
\* run that overlap install two runStates, each with a mutex and a clock.
SerializedPerRun == Cardinality({s \in Slots : states[s].mu # Free}) <= 1

\* The run and the calls as clients see them.  An action or a tick takes effect
\* when its row is written, which may be long before its call returns.
EndedRun(history) == Over(Replay(Sim, history).engine)
Atomic == INSTANCE AtomicRun WITH
  Known <- DOMAIN Sim.actions,
  Over <- EndedRun,
  history <- Listed,
  answers <- [c \in Calls |-> [op |-> call[c].op, key |-> call[c].key, req |-> call[c].req,
                               reply |-> call[c].reply, seq |-> call[c].seq]],
  disturbed <- ~Undisturbed

\* Every API call is atomic: with calls, two mutexes, SQL statements, ticks and
\* restarts interleaved, clients see one run on which each call takes effect at
\* once.  No snapshot lags behind an action that was accepted before it was asked
\* for, a retry is one action, and nothing happens to a run that is over or on
\* behalf of a call that has returned.
CallsAreAtomic == Atomic!Spec
=============================================================================

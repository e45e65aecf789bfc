----------------------------- MODULE SimEngine -----------------------------
(***************************************************************************)
(* The deterministic simulation of an Engine A run                         *)
(* (internal/engine/a/service: sim.go, action.go, replay.go, wincheck.go). *)
(*                                                                         *)
(* Every operator takes the simulation sim (SimulationSpec) and returns a  *)
(* result [err, engine]; err is NoErr or the Go error, and an operation    *)
(* that fails leaves the engine as it was.  Metrics are integers here: the *)
(* code's floats are only compared, added and subtracted, and rooms move   *)
(* them by whole steps.                                                    *)
(***************************************************************************)
EXTENDS Integers, Sequences, SequencesExt

CONSTANT None            \* a nil *string: no action key, no request id

-----------------------------------------------------------------------------
NoErr == "none"
Ok(e) == [err |-> NoErr, engine |-> e]
Err(why, e) == [err |-> why, engine |-> e]

\* The engine's log numbers its entries 1, 2, ...: nextSeq is Len(log) + 1.
NewEngine(sim) ==
  [tick |-> 0, won |-> FALSE, metrics |-> sim.initial, active |-> <<>>, log |-> <<>>]

Logged(e, type, key, req) ==
  Append(e.log, [seq |-> Len(e.log) + 1, type |-> type, key |-> key, req |-> req])

-----------------------------------------------------------------------------
\* MUTANT of StepToward: the last step is not clamped to the target.
StepPast(current, target, rate) ==
  IF target = current THEN current
  ELSE IF target > current THEN current + rate ELSE current - rate

StepToward(current, target, rate) ==
  LET r == IF rate < 0 THEN -rate ELSE rate
      delta == target - current
  IN  IF delta <= r /\ -delta <= r THEN target
      ELSE IF delta > 0 THEN current + r ELSE current - r

\* lists[i] is a sequence of effects: the places of those on metric.
Touching(lists, metric) ==
  UNION {{<<i, j>> : j \in {k \in DOMAIN lists[i] : lists[i][k].metric = metric}} : i \in DOMAIN lists}

\* The order in which the code visits them.
NoLater(p, q) == p[1] < q[1] \/ (p[1] = q[1] /\ p[2] <= q[2])
LastOf(places) == CHOOSE p \in places : \A q \in places : NoLater(q, p)

\* The events that are due, in the order of the bundle; the applied actions.
Due(sim, e) == [i \in {k \in DOMAIN sim.events : sim.events[k].at <= e.tick} |-> sim.events[i].effects]
Applied(sim, e) == [i \in DOMAIN e.active |-> sim.actions[e.active[i]]]

\* MUTANT of ResolveEffect: the events are visited after the actions.
ResolveEventsLast(sim, e, metric) ==
  LET lists == IF Touching(Due(sim, e), metric) # {} THEN Due(sim, e) ELSE Applied(sim, e)
      places == Touching(lists, metric)
      p == LastOf(places)
  IN  IF places = {} THEN <<>> ELSE <<lists[p[1]][p[2]]>>

\* The effect that drives a metric is the last one visited that names it, and the
\* actions are visited after the events; <<>> when there is none.
ResolveEffect(sim, e, metric) ==
  LET lists == IF Touching(Applied(sim, e), metric) # {} THEN Applied(sim, e) ELSE Due(sim, e)
      places == Touching(lists, metric)
      p == LastOf(places)
  IN  IF places = {} THEN <<>> ELSE <<lists[p[1]][p[2]]>>

CheckHolds(metrics, c) ==
  /\ c.metric \in DOMAIN metrics
  /\ LET v == metrics[c.metric]
     IN  \/ c.op = ">" /\ v > c.value
         \/ c.op = "<" /\ v < c.value
         \/ c.op = ">=" /\ v >= c.value
         \/ c.op = "<=" /\ v <= c.value
         \/ c.op = "==" /\ v = c.value

WinSatisfied(metrics, checks) ==
  \A i \in DOMAIN checks : CheckHolds(metrics, checks[i])

\* All metrics move by the effects in force before the tick is counted.
Moved(sim, e) ==
  [m \in DOMAIN e.metrics |->
     LET eff == ResolveEffect(sim, e, m)
     IN  IF eff = <<>> THEN e.metrics[m]
         ELSE StepToward(e.metrics[m], eff[1].target, eff[1].rate)]

Ticked(sim, e) ==
  [e EXCEPT !.log = Logged(e, "tick", None, None),
            !.metrics = Moved(sim, e),
            !.tick = @ + 1,
            !.won = WinSatisfied(Moved(sim, e), sim.checks)]

Tick(sim, e) == IF e.won THEN Err("completed", e) ELSE Ok(Ticked(sim, e))

-----------------------------------------------------------------------------
\* MUTANT of ApplyAction: the action is not written to the log.
ApplyUnlogged(sim, e, key, req) ==
  CASE e.won -> Err("completed", e)
    [] ~e.won /\ key \notin DOMAIN sim.actions -> Err("unknown", e)
    [] OTHER -> Ok([e EXCEPT !.active = Append(@, key)])

\* An action takes effect at the next tick; it can be applied more than once.
ApplyAction(sim, e, key, req) ==
  CASE e.won -> Err("completed", e)
    [] ~e.won /\ key \notin DOMAIN sim.actions -> Err("unknown", e)
    [] OTHER -> Ok([e EXCEPT !.active = Append(@, key),
                             !.log = Logged(e, "player", key, req)])

-----------------------------------------------------------------------------
\* The two shapes of an entry; the run_actions CHECK has the same two.
HasShape(entry) ==
  \/ entry.type = "tick" /\ entry.key = None /\ entry.req = None
  \/ entry.type = "player" /\ entry.key # None /\ entry.req # None

Acceptable(e, entry) == entry.seq = Len(e.log) + 1 /\ HasShape(entry)

\* One entry of Replay, applied to the engine the earlier entries built.
ReplayStep(sim, e, entry) ==
  CASE ~Acceptable(e, entry) -> Err("invalid", e)
    [] Acceptable(e, entry) /\ entry.type = "tick" -> Tick(sim, e)
    [] OTHER -> ApplyAction(sim, e, entry.key, entry.req)

\* Replay stops at the first entry it cannot apply.
Continue(sim, sofar, entry) ==
  IF sofar.err = NoErr THEN ReplayStep(sim, sofar.engine, entry) ELSE sofar

Replay(sim, entries) ==
  LET after[n \in 0..Len(entries)] ==
        IF n = 0 THEN Ok(NewEngine(sim)) ELSE Continue(sim, after[n - 1], entries[n])
  IN  after[Len(entries)]
=============================================================================

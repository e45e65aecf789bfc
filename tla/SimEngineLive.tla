--------------------------- MODULE SimEngineLive ---------------------------
(***************************************************************************)
(* One Engine in use: any sequence of ticks and actions, as the runtime    *)
(* drives it, for any simulation of a given set.  What the pure operators  *)
(* of SimEngine compute is compared here with definitions that do not      *)
(* share their structure, and the live engine with its replay.             *)
(***************************************************************************)
EXTENDS SimEngine

CONSTANTS
  Sims,        \* simulations a room version may hold
  Reqs,        \* client request ids
  OtherKeys,   \* action keys no simulation knows
  MaxEntries   \* bound: length of the log

\* A JSON array of effects; targets and rates are numbers.
IsEffects(list) ==
  /\ Len(list) \in Nat /\ DOMAIN list = 1..Len(list)
  /\ \A j \in DOMAIN list : list[j].target \in Int /\ list[j].rate \in Int

ASSUME SimsAssumption ==
  \A s \in Sims :
    /\ \A m \in DOMAIN s.initial : s.initial[m] \in Int
    /\ Len(s.events) \in Nat /\ DOMAIN s.events = 1..Len(s.events)
    /\ \A i \in DOMAIN s.events : s.events[i].at \in Int /\ IsEffects(s.events[i].effects)
    /\ \A key \in DOMAIN s.actions : IsEffects(s.actions[key])

ASSUME LiveAssumption ==
  /\ None \notin Reqs \cup OtherKeys
  /\ \A s \in Sims : (DOMAIN s.actions) \cap OtherKeys = {} /\ None \notin DOMAIN s.actions
  /\ MaxEntries \in Nat

VARIABLES sim, engine, err

liveVars == <<sim, engine, err>>

LiveInit ==
  /\ sim \in Sims
  /\ engine = NewEngine(sim)
  /\ err = NoErr

\* The caller keeps the engine of the result, whether or not the call failed.
Take(result) ==
  /\ engine' = result.engine
  /\ err' = result.err
  /\ UNCHANGED sim

DoTick == Len(engine.log) < MaxEntries /\ Take(Tick(sim, engine))

DoApply(key, req) == Len(engine.log) < MaxEntries /\ Take(ApplyAction(sim, engine, key, req))

LiveNext ==
  \/ DoTick
  \/ \E key \in DOMAIN sim.actions \cup OtherKeys, req \in Reqs : DoApply(key, req)

LiveSpec == LiveInit /\ [][LiveNext]_liveVars

-----------------------------------------------------------------------------
\* Replaying the log of a live engine rebuilds that engine exactly: metrics,
\* tick, win and pending actions.  Determinism as ARCHITECTURE.md promises it.
ReplayReproduces == Replay(sim, engine.log) = Ok(engine)

\* The value a metric has after n ticks under one effect, in closed form.
Drifted(from, target, rate, n) ==
  LET r == n * (IF rate < 0 THEN -rate ELSE rate)
      up == from + r
      down == from - r
  IN  IF target >= from THEN (IF up < target THEN up ELSE target)
      ELSE (IF down > target THEN down ELSE target)

\* The effects of the bundle on metric m, of events and of actions.
EventEffects(m) ==
  UNION {{<<i, j>> : j \in {k \in DOMAIN sim.events[i].effects : sim.events[i].effects[k].metric = m}}
           : i \in DOMAIN sim.events}
ActionTouches(key, m) ==
  \E j \in DOMAIN sim.actions[key] : sim.actions[key][j].metric = m

\* A metric that one event effect drives from the start and no applied action
\* touches moves by the rate at each tick and then rests on the target: it
\* neither overshoots nor oscillates, for either sign of the rate and of the way.
DriftIsClamped ==
  \A m \in DOMAIN sim.initial :
    \A x \in EventEffects(m) :
      LET ev == sim.events[x[1]]
          eff == ev.effects[x[2]]
      IN  /\ EventEffects(m) = {x}
          /\ ev.at <= 0
          /\ \A i \in DOMAIN engine.active : ~ActionTouches(engine.active[i], m)
          => engine.metrics[m] = Drifted(sim.initial[m], eff.target, eff.rate, engine.tick)

\* The action applied last among those that touch a metric drives it, over every
\* event and every earlier action: after a tick the metric is no further from
\* that action's target, and has moved by its rate or arrived.
LatestActionDrives ==
  [][\A m \in DOMAIN sim.initial, i \in DOMAIN engine.active :
       LET effects == sim.actions[engine.active[i]]
           old == engine.metrics[m]
           new == engine'.metrics[m]
       IN \A j \in DOMAIN effects :
            /\ engine'.tick > engine.tick
            /\ effects[j].metric = m
            /\ \A k \in (j + 1)..Len(effects) : effects[k].metric # m
            /\ \A k \in (i + 1)..Len(engine.active) : ~ActionTouches(engine.active[k], m)
            => new = Drifted(old, effects[j].target, effects[j].rate, 1)]_liveVars
=============================================================================

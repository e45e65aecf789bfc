------------------------ MODULE SimEngineLive_proofs ------------------------
(***************************************************************************)
(* Proofs about SimEngine and SimEngineLive, for every simulation and a    *)
(* log of any length: what Replay makes of a log, that it rebuilds the     *)
(* engine that wrote it, which effect drives a metric, and how a metric    *)
(* moves to the target of that effect.                                     *)
(***************************************************************************)
EXTENDS SimEngineLive, WellFoundedInduction, TLAPS

-----------------------------------------------------------------------------
\* Induction for a set: every nonempty set of naturals has a least element.
LEMMA SetInduction ==
  ASSUME NEW S, 0 \in S, \A n \in Nat : n \in S => n + 1 \in S
  PROVE  Nat \subseteq S
<1> DEFINE R == {ss \in Nat \X Nat : ss[1] < ss[2]}
           T == Nat \ S
<1>1. IsWellFoundedOn(R, Nat)
  BY NatLessThanWellFounded DEF OpToRel
<1>2. ASSUME T # {} PROVE FALSE
  <2>1. T \subseteq Nat
    OBVIOUS
  <2> HIDE DEF R, T
  <2>2. PICK x \in T : \A y \in T : ~ (<<y, x>> \in R)
    BY <1>1, <1>2, <2>1, WFMin
  <2>3. x \in Nat /\ x \notin S /\ x # 0
    BY DEF T
  <2>4. x - 1 \in Nat /\ <<x - 1, x>> \in R
    BY <2>3 DEF R
  <2>5. x - 1 \in S
    BY <2>2, <2>4 DEF T
  <2> QED BY <2>3, <2>4, <2>5
<1> QED BY <1>2

-----------------------------------------------------------------------------
\* f holds the results of replaying the first 0, 1, ..., m entries.
Results(sim0, entries, m, f) ==
  f = [n \in 0..m |->
         IF n = 0 THEN Ok(NewEngine(sim0)) ELSE Continue(sim0, f[n - 1], entries[n])]

LEMMA ResultsExist ==
  ASSUME NEW sim0, NEW entries, NEW m \in Nat
  PROVE  \E f : Results(sim0, entries, m, f)
<1> DEFINE S == {n \in Nat : \E f : Results(sim0, entries, n, f)}
<1>1. 0 \in S
  <2> DEFINE f == [n \in 0..0 |-> Ok(NewEngine(sim0))]
  <2>1. Results(sim0, entries, 0, f)
    BY DEF Results
  <2> QED BY <2>1
<1>2. ASSUME NEW n \in Nat, n \in S PROVE n + 1 \in S
  <2>1. PICK f : Results(sim0, entries, n, f)
    BY <1>2
  <2> DEFINE g == [i \in 0..(n + 1) |->
                     IF i = n + 1 THEN Continue(sim0, f[n], entries[n + 1]) ELSE f[i]]
  <2>2. ASSUME NEW i \in 0..(n + 1)
        PROVE  g[i] = IF i = 0 THEN Ok(NewEngine(sim0)) ELSE Continue(sim0, g[i - 1], entries[i])
    <3>1. CASE i = n + 1
      BY <3>1
    <3>2. CASE i # n + 1
      <4>1. i \in 0..n /\ g[i] = f[i] /\ (i # 0 => i - 1 \in 0..n /\ g[i - 1] = f[i - 1])
        BY <3>2
      <4> QED BY <2>1, <4>1 DEF Results
    <3> QED BY <3>1, <3>2
  <2>3. Results(sim0, entries, n + 1, g)
    BY <2>2 DEF Results
  <2> QED BY <2>3
<1> HIDE DEF S
<1>3. m \in S
  BY <1>1, <1>2, SetInduction
<1> QED BY <1>3 DEF S

\* Replay gives the last of the results.
LEMMA ReplayIsLast ==
  ASSUME NEW sim0, NEW entries, Len(entries) \in Nat
  PROVE  \E f : Results(sim0, entries, Len(entries), f) /\ Replay(sim0, entries) = f[Len(entries)]
<1> DEFINE f == CHOOSE g : Results(sim0, entries, Len(entries), g)
<1>1. Results(sim0, entries, Len(entries), f)
  BY ResultsExist
<1>2. Replay(sim0, entries) = f[Len(entries)]
  BY DEF Replay, Results
<1> QED BY <1>1, <1>2

\* The first n results only depend on the first n entries.
LEMMA ResultsAgree ==
  ASSUME NEW sim0, NEW es, NEW fs, NEW m \in Nat, NEW k \in Nat, NEW n \in Nat, n <= m, n <= k,
         \A i \in 1..n : es[i] = fs[i],
         NEW f, Results(sim0, es, m, f), NEW g, Results(sim0, fs, k, g)
  PROVE  f[n] = g[n]
<1> DEFINE S == {i \in Nat : i <= n => f[i] = g[i]}
<1>1. 0 \in S
  BY DEF Results
<1>2. ASSUME NEW i \in Nat, i \in S PROVE i + 1 \in S
  <2> SUFFICES ASSUME i + 1 <= n PROVE f[i + 1] = g[i + 1]
    OBVIOUS
  <2>1. f[i] = g[i] /\ es[i + 1] = fs[i + 1]
    BY <1>2
  <2>2. i + 1 \in 0..m /\ i + 1 \in 0..k /\ (i + 1) - 1 = i /\ i + 1 # 0
    OBVIOUS
  <2>3. f[i + 1] = Continue(sim0, f[i], es[i + 1])
    BY <2>2 DEF Results
  <2>4. g[i + 1] = Continue(sim0, g[i], fs[i + 1])
    BY <2>2 DEF Results
  <2> QED BY <2>1, <2>3, <2>4
<1> HIDE DEF S
<1>3. n \in S
  BY <1>1, <1>2, SetInduction
<1> QED BY <1>3 DEF S

LEMMA ReplayNone ==
  ASSUME NEW sim0
  PROVE  Replay(sim0, <<>>) = Ok(NewEngine(sim0))
<1> DEFINE none == <<>>
<1>1. Len(none) = 0
  OBVIOUS
<1> HIDE DEF none
<1>2. PICK f : Results(sim0, none, 0, f) /\ Replay(sim0, none) = f[0]
  BY <1>1, ReplayIsLast
<1>3. f[0] = Ok(NewEngine(sim0))
  BY <1>2 DEF Results
<1> QED BY <1>2, <1>3 DEF none

\* The log is replayed entry by entry.
LEMMA ReplayAppended ==
  ASSUME NEW sim0, NEW S, NEW entries \in Seq(S), NEW entry \in S
  PROVE  Replay(sim0, Append(entries, entry)) = Continue(sim0, Replay(sim0, entries), entry)
<1> DEFINE n == Len(entries)
           longer == Append(entries, entry)
<1>1. /\ n \in Nat /\ longer \in Seq(S) /\ Len(longer) = n + 1 /\ longer[n + 1] = entry
      /\ \A i \in 1..n : longer[i] = entries[i]
  OBVIOUS
<1> HIDE DEF n, longer
<1>2. PICK f : Results(sim0, entries, n, f) /\ Replay(sim0, entries) = f[n]
  BY <1>1, ReplayIsLast DEF n
<1>3. PICK g : Results(sim0, longer, n + 1, g) /\ Replay(sim0, longer) = g[n + 1]
  BY <1>1, ReplayIsLast
<1>4. f[n] = g[n]
  BY <1>1, <1>2, <1>3, ResultsAgree
<1>5. n + 1 \in 0..(n + 1) /\ (n + 1) - 1 = n /\ n + 1 # 0
  BY <1>1
<1>6. g[n + 1] = Continue(sim0, g[n], longer[n + 1])
  BY <1>3, <1>5 DEF Results
<1> QED BY <1>1, <1>2, <1>3, <1>4, <1>6 DEF longer

-----------------------------------------------------------------------------
\* An engine, as far as its log goes.
IsEngine(e) ==
  /\ e = [tick |-> e.tick, won |-> e.won, metrics |-> e.metrics, active |-> e.active,
          log |-> e.log]
  /\ \E S : e.log \in Seq(S)

\* Entry n + 1 as the engine writes it.
Written(n, type, key, req) == [seq |-> n + 1, type |-> type, key |-> key, req |-> req]

LEMMA NewEngineFacts ==
  ASSUME NEW sim0
  PROVE  IsEngine(NewEngine(sim0)) /\ Len(NewEngine(sim0).log) = 0 /\ NewEngine(sim0).log = <<>>
<1>1. NewEngine(sim0).log = <<>>
  BY DEF NewEngine
<1>2. NewEngine(sim0).log \in Seq({}) /\ Len(NewEngine(sim0).log) = 0
  BY <1>1
<1> QED BY <1>1, <1>2 DEF NewEngine, IsEngine

\* A tick that succeeds puts its entry at the end of the log.
LEMMA TickFacts ==
  ASSUME NEW sim0, NEW e, IsEngine(e), Tick(sim0, e).err = NoErr
  PROVE  LET x == Tick(sim0, e).engine IN
         /\ Tick(sim0, e) = Ok(x) /\ IsEngine(x)
         /\ x.log = Append(e.log, Written(Len(e.log), "tick", None, None))
<1> DEFINE x == Ticked(sim0, e)
           w == Logged(e, "tick", None, None)
           moved == Moved(sim0, e)
           won == WinSatisfied(moved, sim0.checks)
           next == e.tick + 1
<1>1. Tick(sim0, e) = Ok(x) /\ Tick(sim0, e).engine = x
  BY DEF Tick, Ok, Err, NoErr
<1>2. x = [e EXCEPT !.log = w, !.metrics = moved, !.tick = next, !.won = won]
  BY DEF Ticked
<1>3. w = Append(e.log, Written(Len(e.log), "tick", None, None))
  BY DEF Logged, Written
<1> HIDE DEF x, moved, won, next, w
<1>4. x = [tick |-> next, won |-> won, metrics |-> moved, active |-> e.active, log |-> w]
  BY <1>2 DEF IsEngine
<1>5. PICK S : e.log \in Seq(S)
  BY DEF IsEngine
<1>6. w \in Seq(S \cup {Written(Len(e.log), "tick", None, None)})
  <2> DEFINE m == Written(Len(e.log), "tick", None, None)
  <2> HIDE DEF m
  <2>1. w = Append(e.log, m)
    BY <1>3 DEF m
  <2>2. e.log \in Seq(S \cup {m})
    BY <1>5
  <2> QED BY <2>1, <2>2 DEF m
<1>7. IsEngine(x) /\ x.log = w
  BY <1>4, <1>6 DEF IsEngine
<1> QED BY <1>1, <1>3, <1>7

LEMMA ApplyFacts ==
  ASSUME NEW sim0, NEW e, IsEngine(e), NEW key, NEW req,
         ApplyAction(sim0, e, key, req).err = NoErr
  PROVE  LET x == ApplyAction(sim0, e, key, req).engine IN
         /\ ApplyAction(sim0, e, key, req) = Ok(x) /\ IsEngine(x)
         /\ x.log = Append(e.log, Written(Len(e.log), "player", key, req))
<1> DEFINE w == Logged(e, "player", key, req)
           active == Append(e.active, key)
           x == [e EXCEPT !.active = active, !.log = w]
<1>1. ApplyAction(sim0, e, key, req) = Ok(x) /\ ApplyAction(sim0, e, key, req).engine = x
  <2>1. CASE e.won
    BY <2>1 DEF ApplyAction, Err, NoErr
  <2>2. CASE ~e.won /\ key \notin DOMAIN sim0.actions
    BY <2>2 DEF ApplyAction, Err, NoErr
  <2>3. CASE ~e.won /\ key \in DOMAIN sim0.actions
    BY <2>3 DEF ApplyAction, Ok
  <2> QED BY <2>1, <2>2, <2>3
<1>2. w = Append(e.log, Written(Len(e.log), "player", key, req))
  BY DEF Logged, Written
<1>3. x = [e EXCEPT !.active = active, !.log = w]
  OBVIOUS
<1> HIDE DEF x, active, w
<1>4. x = [tick |-> e.tick, won |-> e.won, metrics |-> e.metrics, active |-> active, log |-> w]
  BY <1>3 DEF IsEngine
<1>5. PICK S : e.log \in Seq(S)
  BY DEF IsEngine
<1>6. w \in Seq(S \cup {Written(Len(e.log), "player", key, req)})
  <2> DEFINE m == Written(Len(e.log), "player", key, req)
  <2> HIDE DEF m
  <2>1. w = Append(e.log, m)
    BY <1>2 DEF m
  <2>2. e.log \in Seq(S \cup {m})
    BY <1>5
  <2> QED BY <2>1, <2>2 DEF m
<1>7. IsEngine(x) /\ x.log = w
  BY <1>4, <1>6 DEF IsEngine
<1> QED BY <1>1, <1>2, <1>7

-----------------------------------------------------------------------------
\* An entry that Replay takes has the next number and one of the two shapes, and
\* comes back at the end of the engine's log.
LEMMA ContinueFacts ==
  ASSUME NEW sim0, NEW sofar, sofar.err = NoErr, IsEngine(sofar.engine), NEW entry,
         Continue(sim0, sofar, entry).err = NoErr
  PROVE  LET e == sofar.engine
             x == Continue(sim0, sofar, entry).engine
         IN  /\ Continue(sim0, sofar, entry) = Ok(x) /\ IsEngine(x)
             /\ x.log = Append(e.log, Written(Len(e.log), entry.type, entry.key, entry.req))
             /\ entry.seq = Len(e.log) + 1 /\ HasShape(entry)
<1> DEFINE e == sofar.engine
           y == Continue(sim0, sofar, entry)
<1>1. y = ReplayStep(sim0, e, entry)
  BY DEF Continue
<1>2. Acceptable(e, entry)
  <2> SUFFICES ASSUME ~Acceptable(e, entry) PROVE FALSE
    OBVIOUS
  <2>1. y = Err("invalid", e)
    BY <1>1 DEF ReplayStep
  <2> QED BY <2>1 DEF Err, NoErr
<1>3. CASE entry.type = "tick"
  <2>1. y = Tick(sim0, e)
    BY <1>1, <1>2, <1>3 DEF ReplayStep
  <2>2. entry.key = None /\ entry.req = None
    BY <1>2, <1>3 DEF Acceptable, HasShape
  <2> HIDE DEF e
  <2>3. y = Ok(y.engine) /\ IsEngine(y.engine)
        /\ y.engine.log = Append(e.log, Written(Len(e.log), "tick", None, None))
    BY <2>1, TickFacts DEF e
  <2> QED BY <1>2, <1>3, <2>2, <2>3 DEF Acceptable, e
<1>4. CASE entry.type # "tick"
  <2>1. y = ApplyAction(sim0, e, entry.key, entry.req)
    BY <1>1, <1>2, <1>4 DEF ReplayStep
  <2>2. entry.type = "player"
    BY <1>2, <1>4 DEF Acceptable, HasShape
  <2>3. y = Ok(y.engine) /\ IsEngine(y.engine)
        /\ y.engine.log = Append(e.log, Written(Len(e.log), "player", entry.key, entry.req))
    <3>1. PICK key, req : key = entry.key /\ req = entry.req
      OBVIOUS
    <3>2. IsEngine(e) /\ y = ApplyAction(sim0, e, key, req) /\ y.err = NoErr
      BY <2>1, <3>1
    <3> HIDE DEF e, y
    <3> QED BY <3>1, <3>2, ApplyFacts
  <2> HIDE DEF e
  <2> QED BY <1>2, <2>2, <2>3 DEF Acceptable, e
<1> QED BY <1>3, <1>4

\* So do all entries of a log that Replay takes.
LEMMA ReplayedLog ==
  ASSUME NEW sim0, NEW S, NEW entries \in Seq(S), Replay(sim0, entries).err = NoErr
  PROVE  LET x == Replay(sim0, entries).engine IN
         /\ Replay(sim0, entries) = Ok(x) /\ IsEngine(x) /\ Len(x.log) = Len(entries)
         /\ \A i \in 1..Len(entries) : entries[i].seq = i /\ HasShape(entries[i])
<1> DEFINE m == Len(entries)
<1>1. m \in Nat
  OBVIOUS
<1>2. PICK f : Results(sim0, entries, m, f) /\ Replay(sim0, entries) = f[m]
  BY ReplayIsLast
<1> HIDE DEF m
<1> DEFINE Good(n) == /\ f[n] = Ok(f[n].engine) /\ IsEngine(f[n].engine) /\ Len(f[n].engine.log) = n
                      /\ \A i \in 1..n : entries[i].seq = i /\ HasShape(entries[i])
           G == {n \in Nat : n <= m /\ f[n].err = NoErr => Good(n)}
<1>3. 0 \in G
  <2>1. f[0] = Ok(NewEngine(sim0))
    BY <1>1, <1>2 DEF Results
  <2>2. f[0].engine = NewEngine(sim0)
    BY <2>1 DEF Ok
  <2> QED BY <2>1, <2>2, NewEngineFacts
<1>4. ASSUME NEW n \in Nat, n \in G PROVE n + 1 \in G
  <2> SUFFICES ASSUME n + 1 <= m, f[n + 1].err = NoErr PROVE Good(n + 1)
    OBVIOUS
  <2>1. n + 1 \in 0..m /\ (n + 1) - 1 = n /\ n + 1 # 0 /\ n <= m
    BY <1>1
  <2>2. f[n + 1] = Continue(sim0, f[n], entries[n + 1])
    BY <1>2, <2>1 DEF Results
  <2>3. f[n].err = NoErr
    BY <2>2 DEF Continue
  <2>4. Good(n)
    BY <1>4, <2>1, <2>3
  <2>5. /\ f[n + 1] = Ok(f[n + 1].engine) /\ IsEngine(f[n + 1].engine)
        /\ f[n + 1].engine.log = Append(f[n].engine.log,
             Written(Len(f[n].engine.log), entries[n + 1].type, entries[n + 1].key,
                     entries[n + 1].req))
        /\ entries[n + 1].seq = Len(f[n].engine.log) + 1 /\ HasShape(entries[n + 1])
    <3>1. PICK sofar, entry, y : sofar = f[n] /\ entry = entries[n + 1] /\ y = f[n + 1]
      OBVIOUS
    <3>2. /\ sofar.err = NoErr /\ IsEngine(sofar.engine)
          /\ y = Continue(sim0, sofar, entry) /\ y.err = NoErr
      BY <2>2, <2>3, <2>4, <3>1
    <3>3. /\ y = Ok(y.engine) /\ IsEngine(y.engine)
          /\ y.engine.log = Append(sofar.engine.log,
               Written(Len(sofar.engine.log), entry.type, entry.key, entry.req))
          /\ entry.seq = Len(sofar.engine.log) + 1 /\ HasShape(entry)
      BY <3>2, ContinueFacts, ZenonT(30)
    <3>4. f[n + 1] = Ok(f[n + 1].engine) /\ IsEngine(f[n + 1].engine)
      BY <3>1, <3>3
    <3>5. f[n + 1].engine.log = Append(f[n].engine.log,
            Written(Len(f[n].engine.log), entries[n + 1].type, entries[n + 1].key, entries[n + 1].req))
      BY <3>1, <3>3
    <3>6. entries[n + 1].seq = Len(f[n].engine.log) + 1 /\ HasShape(entries[n + 1])
      BY <3>1, <3>3
    <3> QED BY <3>4, <3>5, <3>6
  <2>6. PICK T : f[n].engine.log \in Seq(T)
    BY <2>4 DEF IsEngine
  <2>7. Len(f[n + 1].engine.log) = n + 1
    BY <2>4, <2>5, <2>6
  <2>8. \A i \in 1..(n + 1) : entries[i].seq = i /\ HasShape(entries[i])
    <3>1. \A i \in 1..(n + 1) : i \in 1..n \/ i = n + 1
      OBVIOUS
    <3> QED BY <2>4, <2>5, <3>1
  <2> QED BY <2>5, <2>7, <2>8
<1> HIDE DEF G
<1>5. m \in G
  BY <1>1, <1>3, <1>4, SetInduction
<1>6. Good(m)
  BY <1>1, <1>2, <1>5 DEF G
<1> QED BY <1>2, <1>6 DEF m

\* Replay ticks as the engine that was replayed would, and applies as it would.
LEMMA ReplayTicks ==
  ASSUME NEW sim0, NEW S, NEW entries \in Seq(S), NEW e, Replay(sim0, entries) = Ok(e),
         NEW entry \in S, entry = Written(Len(entries), "tick", None, None)
  PROVE  Replay(sim0, Append(entries, entry)) = Tick(sim0, e)
<1>1. Replay(sim0, entries).err = NoErr /\ Replay(sim0, entries).engine = e
  BY DEF Ok
<1>2. Len(e.log) = Len(entries)
  BY <1>1, ReplayedLog
<1>3. /\ entry.seq = Len(entries) + 1 /\ entry.type = "tick" /\ entry.key = None
      /\ entry.req = None
  BY DEF Written
<1>4. Acceptable(e, entry)
  BY <1>2, <1>3 DEF Acceptable, HasShape
<1>5. Continue(sim0, Replay(sim0, entries), entry) = Tick(sim0, e)
  BY <1>1, <1>3, <1>4 DEF Continue, ReplayStep
<1> QED BY <1>5, ReplayAppended

LEMMA ReplayApplies ==
  ASSUME NEW sim0, NEW S, NEW entries \in Seq(S), NEW e, Replay(sim0, entries) = Ok(e),
         NEW key, key # None, NEW req, req # None,
         NEW entry \in S, entry = Written(Len(entries), "player", key, req)
  PROVE  Replay(sim0, Append(entries, entry)) = ApplyAction(sim0, e, key, req)
<1>1. Replay(sim0, entries).err = NoErr /\ Replay(sim0, entries).engine = e
  BY DEF Ok
<1>2. Len(e.log) = Len(entries)
  BY <1>1, ReplayedLog
<1>3. /\ entry.seq = Len(entries) + 1 /\ entry.type = "player" /\ entry.key = key
      /\ entry.req = req
  BY DEF Written
<1>4. Acceptable(e, entry)
  BY <1>2, <1>3 DEF Acceptable, HasShape
<1>5. Continue(sim0, Replay(sim0, entries), entry) = ApplyAction(sim0, e, key, req)
  BY <1>1, <1>3, <1>4 DEF Continue, ReplayStep
<1> QED BY <1>5, ReplayAppended

-----------------------------------------------------------------------------
(***************************************************************************)
(* SimEngineLive                                                           *)
(***************************************************************************)
LiveInv == sim \in Sims /\ IsEngine(engine) /\ ReplayReproduces

LEMMA TickReproduces ==
  ASSUME LiveInv, Take(Tick(sim, engine))
  PROVE  LiveInv'
<1>1. sim' = sim /\ engine' = Tick(sim, engine).engine
  BY DEF Take
<1>2. CASE engine.won
  <2>1. engine' = engine
    BY <1>1, <1>2 DEF Tick, Err
  <2> QED BY <1>1, <2>1 DEF LiveInv, ReplayReproduces
<1>3. CASE ~engine.won
  <2>1. Tick(sim, engine).err = NoErr
    BY <1>3 DEF Tick, Ok
  <2> DEFINE n == Len(engine.log)
             entry == Written(n, "tick", None, None)
  <2>2. /\ Tick(sim, engine) = Ok(engine') /\ IsEngine(engine')
        /\ engine'.log = Append(engine.log, entry)
    BY <1>1, <2>1, TickFacts DEF LiveInv
  <2>3. PICK S : engine.log \in Seq(S)
    BY DEF LiveInv, IsEngine
  <2> HIDE DEF n
  <2>4. entry \in S \cup {entry} /\ engine.log \in Seq(S \cup {entry})
    <3> HIDE DEF entry
    <3> QED BY <2>3
  <2>5. Replay(sim, engine.log) = Ok(engine)
    BY DEF LiveInv, ReplayReproduces
  <2>6. Replay(sim, Append(engine.log, entry)) = Tick(sim, engine)
    BY <2>4, <2>5, ReplayTicks DEF n
  <2> QED BY <1>1, <2>2, <2>6 DEF LiveInv, ReplayReproduces
<1> QED BY <1>2, <1>3

LEMMA ApplyReproduces ==
  ASSUME LiveInv, NEW key \in DOMAIN sim.actions \cup OtherKeys, NEW req \in Reqs,
         Take(ApplyAction(sim, engine, key, req))
  PROVE  LiveInv'
<1>1. sim' = sim /\ engine' = ApplyAction(sim, engine, key, req).engine
  BY DEF Take
<1>2. key # None /\ req # None
  BY LiveAssumption DEF LiveInv
<1>3. CASE engine.won \/ key \notin DOMAIN sim.actions
  <2>1. engine' = engine
    BY <1>1, <1>3 DEF ApplyAction, Err
  <2> QED BY <1>1, <2>1 DEF LiveInv, ReplayReproduces
<1>4. CASE ~engine.won /\ key \in DOMAIN sim.actions
  <2>1. ApplyAction(sim, engine, key, req).err = NoErr
    BY <1>4 DEF ApplyAction, Ok
  <2> DEFINE n == Len(engine.log)
             entry == Written(n, "player", key, req)
  <2>2. /\ ApplyAction(sim, engine, key, req) = Ok(engine') /\ IsEngine(engine')
        /\ engine'.log = Append(engine.log, entry)
    BY <1>1, <2>1, ApplyFacts DEF LiveInv
  <2>3. PICK S : engine.log \in Seq(S)
    BY DEF LiveInv, IsEngine
  <2> HIDE DEF n
  <2>4. entry \in S \cup {entry} /\ engine.log \in Seq(S \cup {entry})
    <3> HIDE DEF entry
    <3> QED BY <2>3
  <2>5. Replay(sim, engine.log) = Ok(engine)
    BY DEF LiveInv, ReplayReproduces
  <2>6. Replay(sim, Append(engine.log, entry)) = ApplyAction(sim, engine, key, req)
    BY <1>2, <2>4, <2>5, ReplayApplies DEF n
  <2> QED BY <1>1, <2>2, <2>6 DEF LiveInv, ReplayReproduces
<1> QED BY <1>3, <1>4

\* replay.go rebuilds, from the log alone, the engine that wrote it: every metric,
\* the tick, the win and the pending actions, for every simulation and however long
\* the run, as ARCHITECTURE.md promises.
THEOREM EngineIsDeterministic == LiveSpec => []ReplayReproduces
<1>1. LiveInit => LiveInv
  BY ReplayNone, NewEngineFacts DEF LiveInit, LiveInv, ReplayReproduces
<1>2. LiveInv /\ [LiveNext]_liveVars => LiveInv'
  <2> SUFFICES ASSUME LiveInv, [LiveNext]_liveVars PROVE LiveInv'
    OBVIOUS
  <2>1. CASE DoTick
    BY <2>1, TickReproduces DEF DoTick
  <2>2. ASSUME NEW key \in DOMAIN sim.actions \cup OtherKeys, NEW req \in Reqs, DoApply(key, req)
        PROVE  LiveInv'
    BY <2>2, ApplyReproduces DEF DoApply
  <2>3. CASE UNCHANGED liveVars
    BY <2>3 DEF liveVars, LiveInv, ReplayReproduces
  <2> QED BY <2>1, <2>2, <2>3 DEF LiveNext
<1>3. LiveInv => ReplayReproduces
  BY DEF LiveInv
<1> QED BY <1>1, <1>2, <1>3, PTL DEF LiveSpec

-----------------------------------------------------------------------------
(***************************************************************************)
(* Which effect drives a metric                                            *)
(***************************************************************************)

\* A bounded set of naturals has a greatest element.
LEMMA GreatestExists ==
  ASSUME NEW n \in Nat, NEW S \in SUBSET (1..n), S # {}
  PROVE  \E x \in S : \A y \in S : y <= x
<1> DEFINE R == {ss \in Nat \X Nat : ss[1] < ss[2]}
           T == {n - y : y \in S}
<1>1. IsWellFoundedOn(R, Nat)
  BY NatLessThanWellFounded DEF OpToRel
<1>2. T \subseteq Nat /\ T # {}
  <2>1. PICK y \in S : TRUE
    OBVIOUS
  <2>2. n - y \in T
    OBVIOUS
  <2>3. \A z \in S : n - z \in Nat
    OBVIOUS
  <2> QED BY <2>2, <2>3
<1> HIDE DEF R, T
<1>3. PICK t \in T : \A u \in T : ~ (<<u, t>> \in R)
  BY <1>1, <1>2, WFMin
<1>4. PICK x \in S : t = n - x
  BY DEF T
<1>5. ASSUME NEW y \in S PROVE y <= x
  <2>1. n - y \in T
    BY DEF T
  <2>2. ~ (n - y < n - x)
    BY <1>2, <1>3, <1>4, <2>1 DEF R
  <2> QED BY <2>2
<1> QED BY <1>5

LEMMA Places ==
  ASSUME NEW lists, NEW m
  PROVE  \A x : x \in Touching(lists, m) <=>
                \E i \in DOMAIN lists : \E j \in DOMAIN lists[i] :
                  lists[i][j].metric = m /\ x = <<i, j>>
BY DEF Touching

\* Lists of effects as the code visits them.
IsLists(lists) ==
  /\ \E n \in Nat : DOMAIN lists \subseteq 1..n
  /\ \A i \in DOMAIN lists : IsEffects(lists[i])

LEMMA PlaceParts ==
  ASSUME NEW lists, IsLists(lists), NEW m, NEW x \in Touching(lists, m)
  PROVE  /\ x = <<x[1], x[2]>> /\ x[1] \in DOMAIN lists /\ x[2] \in DOMAIN lists[x[1]]
         /\ lists[x[1]][x[2]].metric = m /\ x[1] \in Nat /\ x[2] \in Nat
<1>1. PICK i \in DOMAIN lists : \E k \in DOMAIN lists[i] :
             lists[i][k].metric = m /\ x = <<i, k>>
  BY Places
<1>2. PICK j \in DOMAIN lists[i] : lists[i][j].metric = m /\ x = <<i, j>>
  BY <1>1
<1>3. i \in Nat /\ j \in Nat
  BY DEF IsLists, IsEffects
<1> QED BY <1>2, <1>3

\* One effect is visited last.
LEMMA LastExists ==
  ASSUME NEW lists, IsLists(lists), NEW m, Touching(lists, m) # {}
  PROVE  \E p \in Touching(lists, m) : \A q \in Touching(lists, m) : NoLater(q, p)
<1> DEFINE P == Touching(lists, m)
           S == {q[1] : q \in P}
<1>1. \A q \in P : /\ q = <<q[1], q[2]>> /\ q[1] \in DOMAIN lists /\ q[2] \in DOMAIN lists[q[1]]
                   /\ lists[q[1]][q[2]].metric = m /\ q[1] \in Nat /\ q[2] \in Nat
  BY PlaceParts
<1>2. PICK n \in Nat : DOMAIN lists \subseteq 1..n
  BY DEF IsLists
<1>3. S \in SUBSET (1..n) /\ S # {}
  BY <1>1, <1>2
<1> HIDE DEF P, S
<1>4. PICK i \in S : \A k \in S : k <= i
  BY <1>2, <1>3, GreatestExists
<1> DEFINE U == {j \in DOMAIN lists[i] : <<i, j>> \in P}
<1>5. i \in DOMAIN lists /\ \E q \in P : q[1] = i
  BY <1>1 DEF S
<1>6. Len(lists[i]) \in Nat /\ U \in SUBSET (1..Len(lists[i])) /\ U # {}
  <2>1. PICK q \in P : q[1] = i
    BY <1>5
  <2>2. q[2] \in U
    BY <1>1, <2>1
  <2> QED BY <1>5, <2>2 DEF IsLists, IsEffects
<1> HIDE DEF U
<1>7. PICK j \in U : \A k \in U : k <= j
  BY <1>6, GreatestExists
<1>8. <<i, j>> \in P
  BY DEF U
<1>9. ASSUME NEW q \in P PROVE NoLater(q, <<i, j>>)
  <2>1. q[1] <= i
    BY <1>4 DEF S
  <2>2. CASE q[1] = i
    <3>1. q[2] \in U
      BY <1>1, <2>2 DEF U
    <3> QED BY <1>7, <2>2, <3>1 DEF NoLater
  <2>3. CASE q[1] # i
    <3>1. q[1] < i
      BY <1>1, <1>8, <2>1, <2>3
    <3> QED BY <3>1 DEF NoLater
  <2> QED BY <2>2, <2>3
<1> QED BY <1>8, <1>9 DEF P

\* And only one.
LEMMA LastIsUnique ==
  ASSUME NEW lists, IsLists(lists), NEW m, NEW p \in Touching(lists, m),
         \A q \in Touching(lists, m) : NoLater(q, p)
  PROVE  LastOf(Touching(lists, m)) = p
<1> DEFINE P == Touching(lists, m)
           c == LastOf(P)
<1>1. \A q \in P : q = <<q[1], q[2]>> /\ q[1] \in Nat /\ q[2] \in Nat
  BY PlaceParts
<1>2. c \in P /\ \A q \in P : NoLater(q, c)
  BY DEF LastOf
<1> HIDE DEF P, c
<1>3. p \in P /\ NoLater(c, p) /\ NoLater(p, c)
  BY <1>2 DEF P
<1>4. c[1] = p[1] /\ c[2] = p[2]
  BY <1>1, <1>2, <1>3 DEF NoLater
<1>5. c = p
  BY <1>1, <1>2, <1>3, <1>4
<1> QED BY <1>5 DEF P, c

\* What is chosen is an effect on the metric, of an event or of an action.
LEMMA ChosenIsEffect ==
  ASSUME NEW sim0, NEW e, NEW m, IsLists(Due(sim0, e)), IsLists(Applied(sim0, e)),
         ResolveEffect(sim0, e, m) # <<>>
  PROVE  LET f == ResolveEffect(sim0, e, m)[1] IN f.target \in Int /\ f.rate \in Int
<1> DEFINE lists == IF Touching(Applied(sim0, e), m) # {} THEN Applied(sim0, e) ELSE Due(sim0, e)
           p == LastOf(Touching(lists, m))
<1>1. IsLists(lists)
  OBVIOUS
<1>2. ResolveEffect(sim0, e, m) = IF Touching(lists, m) = {} THEN <<>> ELSE <<lists[p[1]][p[2]]>>
  BY DEF ResolveEffect
<1> HIDE DEF lists
<1>3. p \in Touching(lists, m)
  BY <1>1, <1>2, LastExists DEF LastOf
<1> HIDE DEF p
<1>4. p[1] \in DOMAIN lists /\ p[2] \in DOMAIN lists[p[1]]
  BY <1>1, <1>3, PlaceParts
<1> QED BY <1>1, <1>2, <1>3, <1>4 DEF IsLists, IsEffects

\* An action that names the metric is before every event.
LEMMA ActionIsChosen ==
  ASSUME NEW sim0, NEW e, NEW m, IsLists(Applied(sim0, e)),
         NEW p \in Touching(Applied(sim0, e), m),
         \A q \in Touching(Applied(sim0, e), m) : NoLater(q, p)
  PROVE  ResolveEffect(sim0, e, m) = <<Applied(sim0, e)[p[1]][p[2]]>>
<1>1. LastOf(Touching(Applied(sim0, e), m)) = p
  BY LastIsUnique
<1> QED BY <1>1 DEF ResolveEffect

LEMMA EventIsChosen ==
  ASSUME NEW sim0, NEW e, NEW m, IsLists(Due(sim0, e)), Touching(Applied(sim0, e), m) = {},
         NEW p, Touching(Due(sim0, e), m) = {p}
  PROVE  ResolveEffect(sim0, e, m) = <<Due(sim0, e)[p[1]][p[2]]>>
<1>1. p[1] \in Nat /\ p[2] \in Nat
  BY PlaceParts
<1>2. LastOf(Touching(Due(sim0, e), m)) = p
  BY <1>1, LastIsUnique DEF NoLater
<1> QED BY <1>2 DEF ResolveEffect

-----------------------------------------------------------------------------
(***************************************************************************)
(* The metrics                                                             *)
(***************************************************************************)

\* A metric on its way from a value, after one step more.
LEMMA StepsAdd ==
  ASSUME NEW from \in Int, NEW target \in Int, NEW rate \in Int, NEW n \in Nat
  PROVE  /\ Drifted(from, target, rate, n) \in Int
         /\ StepToward(Drifted(from, target, rate, n), target, rate)
              = Drifted(from, target, rate, n + 1)
         /\ StepToward(from, target, rate) = Drifted(from, target, rate, 1)
         /\ Drifted(from, target, rate, 0) = from
<1> DEFINE r == IF rate < 0 THEN -rate ELSE rate
<1>1. r \in Nat
  OBVIOUS
<1>2. n * r \in Nat /\ (n + 1) * r = n * r + r /\ 1 * r = r /\ 0 * r = 0
  <2> HIDE DEF r
  <2> QED BY <1>1
<1> DEFINE At(d) == IF target >= from THEN (IF from + d < target THEN from + d ELSE target)
                    ELSE (IF from - d > target THEN from - d ELSE target)
           Step(v) == IF target - v <= r /\ -(target - v) <= r THEN target
                      ELSE IF target - v > 0 THEN v + r ELSE v - r
<1>3. \A k : Drifted(from, target, rate, k) = At(k * r)
  BY DEF Drifted
<1>4. \A v : StepToward(v, target, rate) = Step(v)
  BY DEF StepToward
<1> HIDE DEF r
<1>5. \A d \in Nat : At(d) \in Int /\ Step(At(d)) = At(d + r)
  BY <1>1
<1>6. Step(from) = At(r) /\ At(0) = from
  BY <1>1
<1> HIDE DEF At, Step
<1> QED BY <1>2, <1>3, <1>4, <1>5, <1>6

\* The engine has every metric of the room, as a number.
MetricsInv ==
  /\ sim \in Sims
  /\ engine = [tick |-> engine.tick, won |-> engine.won, metrics |-> engine.metrics,
               active |-> engine.active, log |-> engine.log]
  /\ engine.tick \in Nat
  /\ DOMAIN engine.metrics = DOMAIN sim.initial
  /\ \A m \in DOMAIN sim.initial : engine.metrics[m] \in Int
  /\ engine.active \in Seq(DOMAIN sim.actions)

LEMMA ListsInUse ==
  ASSUME MetricsInv
  PROVE  IsLists(Due(sim, engine)) /\ IsLists(Applied(sim, engine))
<1>1. Len(sim.events) \in Nat /\ DOMAIN sim.events = 1..Len(sim.events)
      /\ \A i \in DOMAIN sim.events : IsEffects(sim.events[i].effects)
  BY SimsAssumption DEF MetricsInv
<1>2. Len(engine.active) \in Nat /\ DOMAIN engine.active = 1..Len(engine.active)
      /\ \A i \in DOMAIN engine.active : IsEffects(sim.actions[engine.active[i]])
  BY SimsAssumption DEF MetricsInv
<1>3. IsLists(Due(sim, engine))
  BY <1>1 DEF Due, IsLists
<1>4. IsLists(Applied(sim, engine))
  BY <1>2 DEF Applied, IsLists
<1> QED BY <1>3, <1>4

\* A step of the engine is a tick, an action or nothing.
LEMMA EngineSteps ==
  ASSUME MetricsInv, [LiveNext]_liveVars
  PROVE  /\ sim' = sim
         /\ \/ engine' = engine
            \/ engine' = Ticked(sim, engine)
            \/ \E key \in DOMAIN sim.actions :
                 /\ engine'.active = Append(engine.active, key)
                 /\ engine' = [engine EXCEPT !.active = engine'.active, !.log = engine'.log]
<1>1. CASE DoTick
  BY <1>1 DEF DoTick, Take, Tick, Ok, Err
<1>2. ASSUME NEW key \in DOMAIN sim.actions \cup OtherKeys, NEW req \in Reqs, DoApply(key, req)
      PROVE  /\ sim' = sim
             /\ \/ engine' = engine
                \/ /\ key \in DOMAIN sim.actions
                   /\ engine'.active = Append(engine.active, key)
                   /\ engine' = [engine EXCEPT !.active = engine'.active, !.log = engine'.log]
  <2>1. sim' = sim /\ engine' = ApplyAction(sim, engine, key, req).engine
    BY <1>2 DEF DoApply, Take
  <2>2. CASE engine.won \/ key \notin DOMAIN sim.actions
    BY <2>1, <2>2 DEF ApplyAction, Err
  <2>3. CASE ~engine.won /\ key \in DOMAIN sim.actions
    <3> DEFINE act == Append(engine.active, key)
               log == Logged(engine, "player", key, req)
    <3>1. engine' = [engine EXCEPT !.active = act, !.log = log]
      BY <2>1, <2>3 DEF ApplyAction, Ok
    <3> HIDE DEF act, log
    <3>2. engine'.active = act /\ engine'.log = log
      BY <3>1 DEF MetricsInv
    <3> QED BY <2>1, <2>3, <3>1, <3>2 DEF act
  <2> QED BY <2>2, <2>3
<1>3. CASE UNCHANGED liveVars
  BY <1>3 DEF liveVars
<1> QED BY <1>1, <1>2, <1>3 DEF LiveNext

LEMMA TickedMetrics ==
  ASSUME MetricsInv, sim' = sim, engine' = Ticked(sim, engine)
  PROVE  /\ engine'.tick = engine.tick + 1 /\ engine'.active = engine.active
         /\ engine'.metrics = Moved(sim, engine)
         /\ engine' = [tick |-> engine'.tick, won |-> engine'.won, metrics |-> engine'.metrics,
                       active |-> engine'.active, log |-> engine'.log]
<1> DEFINE moved == Moved(sim, engine)
           won == WinSatisfied(moved, sim.checks)
           log == Logged(engine, "tick", None, None)
<1>1. engine' = [engine EXCEPT !.log = log, !.metrics = moved, !.tick = @ + 1, !.won = won]
  BY DEF Ticked
<1> HIDE DEF moved, won, log
<1>2. engine' = [tick |-> engine.tick + 1, won |-> won, metrics |-> moved,
                 active |-> engine.active, log |-> log]
  BY <1>1 DEF MetricsInv
<1> QED BY <1>2 DEF moved

LEMMA MetricsAreNumbers ==
  ASSUME MetricsInv, [LiveNext]_liveVars
  PROVE  MetricsInv'
<1>1. CASE engine' = engine
  BY <1>1, EngineSteps DEF MetricsInv
<1>2. CASE engine' = Ticked(sim, engine)
  <2>1. sim' = sim
    BY EngineSteps
  <2>2. engine'.metrics = Moved(sim, engine)
    BY <1>2, <2>1, TickedMetrics
  <2>3. DOMAIN engine.metrics = DOMAIN sim.initial
    BY DEF MetricsInv
  <2>4. ASSUME NEW m \in DOMAIN sim.initial PROVE Moved(sim, engine)[m] \in Int
    <3> DEFINE eff == ResolveEffect(sim, engine, m)
    <3>1. Moved(sim, engine)[m] = IF eff = <<>> THEN engine.metrics[m]
                                  ELSE StepToward(engine.metrics[m], eff[1].target, eff[1].rate)
      BY <2>3 DEF Moved
    <3>2. eff # <<>> => eff[1].target \in Int /\ eff[1].rate \in Int
      BY ListsInUse, ChosenIsEffect
    <3> HIDE DEF eff
    <3>3. engine.metrics[m] \in Int
      BY DEF MetricsInv
    <3>4. ASSUME NEW v \in Int, NEW target \in Int, NEW rate \in Int
          PROVE  StepToward(v, target, rate) \in Int
      BY DEF StepToward
    <3> QED BY <3>1, <3>2, <3>3, <3>4
  <2>5. DOMAIN Moved(sim, engine) = DOMAIN sim.initial
    BY <2>3 DEF Moved
  <2>6. PICK moved : moved = Moved(sim, engine)
    OBVIOUS
  <2>7. /\ engine'.tick = engine.tick + 1 /\ engine'.active = engine.active
        /\ engine'.metrics = moved
        /\ engine' = [tick |-> engine'.tick, won |-> engine'.won, metrics |-> engine'.metrics,
                      active |-> engine'.active, log |-> engine'.log]
    BY <1>2, <2>1, <2>6, TickedMetrics
  <2>8. DOMAIN moved = DOMAIN sim.initial /\ \A m \in DOMAIN sim.initial : moved[m] \in Int
    BY <2>4, <2>5, <2>6
  <2> QED BY <2>1, <2>7, <2>8 DEF MetricsInv
<1>3. ASSUME NEW key \in DOMAIN sim.actions,
             engine'.active = Append(engine.active, key),
             engine' = [engine EXCEPT !.active = engine'.active, !.log = engine'.log]
      PROVE  MetricsInv'
  <2>1. PICK act, log : act = engine'.active /\ log = engine'.log
    OBVIOUS
  <2>2. engine' = [tick |-> engine.tick, won |-> engine.won, metrics |-> engine.metrics,
                   active |-> act, log |-> log]
    BY <1>3, <2>1 DEF MetricsInv
  <2>3. act \in Seq(DOMAIN sim.actions)
    BY <1>3, <2>1 DEF MetricsInv
  <2> QED BY <2>2, <2>3, EngineSteps DEF MetricsInv
<1> QED BY <1>1, <1>2, <1>3, EngineSteps

LEMMA MetricsInit == LiveInit => MetricsInv
<1> SUFFICES ASSUME LiveInit PROVE MetricsInv
  OBVIOUS
<1>1. sim \in Sims /\ engine = [tick |-> 0, won |-> FALSE, metrics |-> sim.initial,
                                active |-> <<>>, log |-> <<>>]
  BY DEF LiveInit, NewEngine
<1>2. \A m \in DOMAIN sim.initial : sim.initial[m] \in Int
  BY <1>1, SimsAssumption
<1>3. <<>> \in Seq(DOMAIN sim.actions)
  OBVIOUS
<1> QED BY <1>1, <1>2, <1>3 DEF MetricsInv

\* While no applied action touches m, the actions say nothing of it.
LEMMA NoActionTouches ==
  ASSUME NEW m
  PROVE  (\A i \in DOMAIN engine.active : ~ActionTouches(engine.active[i], m))
           <=> Touching(Applied(sim, engine), m) = {}
<1>1. DOMAIN Applied(sim, engine) = DOMAIN engine.active
      /\ \A i \in DOMAIN engine.active : Applied(sim, engine)[i] = sim.actions[engine.active[i]]
  BY DEF Applied
<1>2. \A x : x \in Touching(Applied(sim, engine), m) <=>
               \E i \in DOMAIN engine.active : \E j \in DOMAIN sim.actions[engine.active[i]] :
                 sim.actions[engine.active[i]][j].metric = m /\ x = <<i, j>>
  BY <1>1, Places
<1> QED BY <1>2 DEF ActionTouches

\* A metric whose only effect is due and that no action touches takes one step.
LEMMA EventMoves ==
  ASSUME MetricsInv, NEW m \in DOMAIN sim.initial, NEW x \in EventEffects(m),
         EventEffects(m) = {x}, sim.events[x[1]].at <= 0,
         \A i \in DOMAIN engine.active : ~ActionTouches(engine.active[i], m)
  PROVE  LET eff == sim.events[x[1]].effects[x[2]] IN
         /\ eff.target \in Int /\ eff.rate \in Int
         /\ Moved(sim, engine)[m] = StepToward(engine.metrics[m], eff.target, eff.rate)
<1> DEFINE eff == sim.events[x[1]].effects[x[2]]
           due == Due(sim, engine)
<1>1. \A y : y \in EventEffects(m) <=>
               \E i \in DOMAIN sim.events : \E j \in DOMAIN sim.events[i].effects :
                 sim.events[i].effects[j].metric = m /\ y = <<i, j>>
  BY DEF EventEffects
<1>2. /\ x[1] \in DOMAIN sim.events /\ x[2] \in DOMAIN sim.events[x[1]].effects
      /\ eff.metric = m /\ x = <<x[1], x[2]>>
  BY <1>1
<1>3. sim.events[x[1]].at \in Int /\ IsEffects(sim.events[x[1]].effects)
  BY <1>2, SimsAssumption DEF MetricsInv
<1>4. eff.target \in Int /\ eff.rate \in Int
  BY <1>2, <1>3 DEF IsEffects
<1>5. sim.events[x[1]].at <= engine.tick
  BY <1>3 DEF MetricsInv
<1>6. DOMAIN due = {k \in DOMAIN sim.events : sim.events[k].at <= engine.tick}
      /\ \A i \in DOMAIN due : due[i] = sim.events[i].effects
  BY DEF Due
<1> HIDE DEF due
<1>7. \A y : y \in Touching(due, m) <=>
               \E i \in DOMAIN due : \E j \in DOMAIN due[i] : due[i][j].metric = m /\ y = <<i, j>>
  BY Places
<1>8. x[1] \in DOMAIN due /\ due[x[1]] = sim.events[x[1]].effects
  BY <1>2, <1>5, <1>6
<1>9. x \in Touching(due, m)
  BY <1>2, <1>7, <1>8
<1>10. \A y \in Touching(due, m) : y \in EventEffects(m)
  BY <1>1, <1>6, <1>7
<1>11. Touching(due, m) = {x}
  BY <1>9, <1>10
<1>12. ResolveEffect(sim, engine, m) = <<eff>>
  BY <1>8, <1>11, ListsInUse, NoActionTouches, EventIsChosen DEF due
<1>13. m \in DOMAIN engine.metrics
  BY DEF MetricsInv
<1> HIDE DEF eff
<1>14. <<eff>> # <<>> /\ <<eff>>[1] = eff
  OBVIOUS
<1>15. Moved(sim, engine)[m] = StepToward(engine.metrics[m], eff.target, eff.rate)
  BY <1>12, <1>13, <1>14 DEF Moved
<1> QED BY <1>4, <1>15 DEF eff

LEMMA DriftStep ==
  ASSUME MetricsInv, DriftIsClamped, [LiveNext]_liveVars
  PROVE  DriftIsClamped'
<1>1. sim' = sim
  BY EngineSteps
<1>2. SUFFICES ASSUME NEW m \in DOMAIN sim.initial, NEW x \in EventEffects(m),
                      EventEffects(m) = {x}, sim.events[x[1]].at <= 0,
                      \A i \in DOMAIN engine'.active : ~ActionTouches(engine'.active[i], m)
               PROVE  engine'.metrics[m]
                        = Drifted(sim.initial[m], sim.events[x[1]].effects[x[2]].target,
                                  sim.events[x[1]].effects[x[2]].rate, engine'.tick)
  <2> SUFFICES ASSUME NEW m \in DOMAIN sim'.initial, NEW x \in EventEffects(m)',
                      EventEffects(m)' = {x}, sim'.events[x[1]].at <= 0,
                      \A i \in DOMAIN engine'.active :
                        ~\E j \in DOMAIN sim'.actions[engine'.active[i]] :
                           sim'.actions[engine'.active[i]][j].metric = m
               PROVE  engine'.metrics[m]
                        = Drifted(sim'.initial[m], sim'.events[x[1]].effects[x[2]].target,
                                  sim'.events[x[1]].effects[x[2]].rate, engine'.tick)
    BY DEF DriftIsClamped, ActionTouches
  <2>1. EventEffects(m)' = EventEffects(m)
    BY <1>1 DEF EventEffects
  <2>2. \A i \in DOMAIN engine'.active : ~ActionTouches(engine'.active[i], m)
    BY <1>1 DEF ActionTouches
  <2> QED BY <1>1, <1>2, <2>1, <2>2
<1> DEFINE eff == sim.events[x[1]].effects[x[2]]
           from == sim.initial[m]
<1>3. ASSUME \A i \in DOMAIN engine.active : ~ActionTouches(engine.active[i], m)
      PROVE  engine.metrics[m] = Drifted(from, eff.target, eff.rate, engine.tick)
  BY <1>2, <1>3 DEF DriftIsClamped
<1>4. CASE engine' = engine
  BY <1>2, <1>3, <1>4
<1>5. CASE engine' = Ticked(sim, engine)
  <2>1. /\ engine'.tick = engine.tick + 1 /\ engine'.active = engine.active
        /\ engine'.metrics = Moved(sim, engine)
    BY <1>1, <1>5, TickedMetrics
  <2>2. \A i \in DOMAIN engine.active : ~ActionTouches(engine.active[i], m)
    BY <1>2, <2>1
  <2>3. /\ eff.target \in Int /\ eff.rate \in Int
        /\ Moved(sim, engine)[m] = StepToward(engine.metrics[m], eff.target, eff.rate)
    BY <1>2, <2>2, EventMoves
  <2>4. from \in Int /\ engine.tick \in Nat
    BY SimsAssumption DEF MetricsInv
  <2> HIDE DEF eff, from
  <2>5. StepToward(Drifted(from, eff.target, eff.rate, engine.tick), eff.target, eff.rate)
          = Drifted(from, eff.target, eff.rate, engine.tick + 1)
    <3>1. \A f, t, r \in Int, k \in Nat :
            StepToward(Drifted(f, t, r, k), t, r) = Drifted(f, t, r, k + 1)
      BY StepsAdd
    <3> QED BY <2>3, <2>4, <3>1, ZenonT(30)
  <2>6. engine'.metrics[m] = Drifted(from, eff.target, eff.rate, engine'.tick)
    BY <1>3, <2>1, <2>2, <2>3, <2>5
  <2> QED BY <2>6 DEF eff, from
<1>6. ASSUME NEW key \in DOMAIN sim.actions,
             engine'.active = Append(engine.active, key),
             engine' = [engine EXCEPT !.active = engine'.active, !.log = engine'.log]
      PROVE  engine'.metrics[m] = Drifted(from, eff.target, eff.rate, engine'.tick)
  <2>1. PICK act, log : act = engine'.active /\ log = engine'.log
    OBVIOUS
  <2>2. engine' = [tick |-> engine.tick, won |-> engine.won, metrics |-> engine.metrics,
                   active |-> act, log |-> log]
    BY <1>6, <2>1 DEF MetricsInv
  <2>3. engine'.tick = engine.tick /\ engine'.metrics = engine.metrics
    BY <2>2
  <2>4. \A i \in DOMAIN engine.active : i \in DOMAIN act /\ act[i] = engine.active[i]
    BY <1>6, <2>1 DEF MetricsInv
  <2>5. \A i \in DOMAIN engine.active : ~ActionTouches(engine.active[i], m)
    BY <1>2, <2>1, <2>4
  <2> QED BY <1>3, <2>3, <2>5
<1> QED BY <1>4, <1>5, <1>6, EngineSteps

\* A metric with one event effect that drives it from the start, and no applied
\* action on it, moves by the rate at each tick and then rests on the target: sim.go
\* neither overshoots nor oscillates, whatever the numbers and however many ticks.
THEOREM DriftRests == LiveSpec => []DriftIsClamped
<1>1. LiveInit => MetricsInv /\ DriftIsClamped
  <2> SUFFICES ASSUME LiveInit PROVE DriftIsClamped
    BY MetricsInit
  <2>1. MetricsInv /\ engine.tick = 0 /\ engine.metrics = sim.initial
    BY MetricsInit DEF LiveInit, NewEngine
  <2>2. SUFFICES ASSUME NEW m \in DOMAIN sim.initial, NEW x \in EventEffects(m),
                        EventEffects(m) = {x}, sim.events[x[1]].at <= 0,
                        \A i \in DOMAIN engine.active : ~ActionTouches(engine.active[i], m)
                 PROVE  engine.metrics[m]
                          = Drifted(sim.initial[m], sim.events[x[1]].effects[x[2]].target,
                                    sim.events[x[1]].effects[x[2]].rate, engine.tick)
    BY DEF DriftIsClamped
  <2> DEFINE eff == sim.events[x[1]].effects[x[2]]
  <2>3. eff.target \in Int /\ eff.rate \in Int
    BY <2>1, <2>2, EventMoves
  <2>4. sim.initial[m] \in Int
    BY <2>1, SimsAssumption DEF MetricsInv
  <2> HIDE DEF eff
  <2>5. Drifted(sim.initial[m], eff.target, eff.rate, 0) = sim.initial[m]
    BY <2>3, <2>4, StepsAdd
  <2> QED BY <2>1, <2>5 DEF eff
<1>2. MetricsInv /\ DriftIsClamped /\ [LiveNext]_liveVars => (MetricsInv /\ DriftIsClamped)'
  BY MetricsAreNumbers, DriftStep
<1> QED BY <1>1, <1>2, PTL DEF LiveSpec

\* The last action on a metric, and in it the last effect, takes the next step: over
\* every event and every earlier action, for any number of them (resolveEffect).
LEMMA LatestMoves ==
  ASSUME MetricsInv, NEW m \in DOMAIN sim.initial, NEW i \in DOMAIN engine.active,
         NEW j \in DOMAIN sim.actions[engine.active[i]],
         sim.actions[engine.active[i]][j].metric = m,
         \A k \in (j + 1)..Len(sim.actions[engine.active[i]]) :
           sim.actions[engine.active[i]][k].metric # m,
         \A k \in (i + 1)..Len(engine.active) : ~ActionTouches(engine.active[k], m)
  PROVE  LET eff == sim.actions[engine.active[i]][j] IN
         Moved(sim, engine)[m] = Drifted(engine.metrics[m], eff.target, eff.rate, 1)
<1> DEFINE eff == sim.actions[engine.active[i]][j]
           app == Applied(sim, engine)
<1>1. DOMAIN app = DOMAIN engine.active
      /\ \A k \in DOMAIN engine.active : app[k] = sim.actions[engine.active[k]]
  BY DEF Applied
<1>2. IsLists(app) /\ IsLists(Due(sim, engine))
  BY ListsInUse
<1>3. /\ DOMAIN engine.active = 1..Len(engine.active) /\ Len(engine.active) \in Nat
      /\ engine.active[i] \in DOMAIN sim.actions
  BY DEF MetricsInv
<1>4. IsEffects(sim.actions[engine.active[i]])
  BY <1>1, <1>2 DEF IsLists
<1> HIDE DEF app
<1> DEFINE p == <<i, j>>
<1>5. p \in Touching(app, m)
  BY <1>1, Places
<1>6. ASSUME NEW q \in Touching(app, m) PROVE NoLater(q, p)
  <2>1. /\ q[1] \in DOMAIN app /\ q[2] \in DOMAIN app[q[1]] /\ app[q[1]][q[2]].metric = m
        /\ q[1] \in Nat /\ q[2] \in Nat
    BY <1>2, PlaceParts
  <2>2. ~(q[1] > i)
    <3> SUFFICES ASSUME q[1] > i PROVE FALSE
      OBVIOUS
    <3>1. q[1] \in (i + 1)..Len(engine.active)
      BY <1>1, <1>3, <2>1
    <3>2. ActionTouches(engine.active[q[1]], m)
      BY <1>1, <2>1 DEF ActionTouches
    <3> QED BY <3>1, <3>2
  <2>3. q[1] = i => ~(q[2] > j)
    <3> SUFFICES ASSUME q[1] = i, q[2] > j PROVE FALSE
      OBVIOUS
    <3>1. q[2] \in (j + 1)..Len(sim.actions[engine.active[i]])
      BY <1>1, <1>4, <2>1 DEF IsEffects
    <3> QED BY <1>1, <2>1, <3>1
  <2>4. i \in Nat /\ j \in Nat
    BY <1>3, <1>4 DEF IsEffects
  <2> QED BY <2>1, <2>2, <2>3, <2>4 DEF NoLater
<1>7. ResolveEffect(sim, engine, m) = <<app[p[1]][p[2]]>>
  BY <1>2, <1>5, <1>6, ActionIsChosen DEF app
<1>8. ResolveEffect(sim, engine, m) = <<eff>>
  BY <1>1, <1>7
<1>9. eff.target \in Int /\ eff.rate \in Int
  BY <1>4 DEF IsEffects
<1>10. m \in DOMAIN engine.metrics /\ engine.metrics[m] \in Int
  BY DEF MetricsInv
<1> HIDE DEF eff, p
<1>11. <<eff>> # <<>> /\ <<eff>>[1] = eff
  OBVIOUS
<1>12. Moved(sim, engine)[m] = StepToward(engine.metrics[m], eff.target, eff.rate)
  BY <1>8, <1>10, <1>11 DEF Moved
<1>13. StepToward(engine.metrics[m], eff.target, eff.rate)
         = Drifted(engine.metrics[m], eff.target, eff.rate, 1)
  BY <1>9, <1>10, StepsAdd
<1> QED BY <1>12, <1>13 DEF eff

\* An action that a client applied takes its metric at the next tick from whatever
\* drove it, and keeps it until a later action.
THEOREM ActionsOverrideEvents == LiveSpec => LatestActionDrives
<1> DEFINE Drives ==
      \A m \in DOMAIN sim.initial, i \in DOMAIN engine.active :
        LET effects == sim.actions[engine.active[i]]
        IN \A j \in DOMAIN effects :
             /\ engine'.tick > engine.tick
             /\ effects[j].metric = m
             /\ \A k \in (j + 1)..Len(effects) : effects[k].metric # m
             /\ \A k \in (i + 1)..Len(engine.active) : ~ActionTouches(engine.active[k], m)
             => engine'.metrics[m]
                  = Drifted(engine.metrics[m], effects[j].target, effects[j].rate, 1)
<1>1. MetricsInv /\ [LiveNext]_liveVars => [Drives]_liveVars
  <2> SUFFICES ASSUME MetricsInv, [LiveNext]_liveVars, engine'.tick > engine.tick PROVE Drives
    OBVIOUS
  <2>1. engine' = Ticked(sim, engine)
    <3>1. engine.tick \in Nat
      BY DEF MetricsInv
    <3>2. ASSUME NEW key \in DOMAIN sim.actions,
                 engine' = [engine EXCEPT !.active = engine'.active, !.log = engine'.log]
          PROVE  engine'.tick = engine.tick
      <4>1. PICK act, log : act = engine'.active /\ log = engine'.log
        OBVIOUS
      <4>2. engine' = [engine EXCEPT !.active = act, !.log = log]
        BY <3>2, <4>1
      <4> QED BY <4>2 DEF MetricsInv
    <3> QED BY <3>1, <3>2, EngineSteps
  <2>2. engine'.metrics = Moved(sim, engine)
    BY <2>1, EngineSteps, TickedMetrics
  <2> QED BY <2>2, LatestMoves
<1>2. MetricsInv /\ [LiveNext]_liveVars => MetricsInv'
  BY MetricsAreNumbers
<1>3. LiveSpec => [][Drives]_liveVars
  BY <1>1, <1>2, MetricsInit, PTL DEF LiveSpec
<1> QED BY <1>3 DEF LatestActionDrives
=============================================================================

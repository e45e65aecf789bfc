----------------------- MODULE EngineARuntime_proofs -----------------------
(***************************************************************************)
(* Proofs about EngineARuntime: for any number of calls, run states, keys, *)
(* failures, racing loads and restarts, a run state has one clock, sends   *)
(* only on open channels, does not change once the run is over, an         *)
(* accepted action is in the log, an engine is the replay of the rows it   *)
(* took, a reader sees its ticks in order, and an undisturbed run can be   *)
(* restarted at any moment without losing anything and is, for its         *)
(* clients, one run on which every API call takes effect at once.  The     *)
(* log's own properties are those of ActionLog_proofs, since the runtime   *)
(* uses the log as ActionLog says; what Replay does is in                  *)
(* SimEngineLive_proofs.                                                   *)
(***************************************************************************)
EXTENDS EngineARuntime, FiniteSetTheorems, SequenceTheorems, TLAPS

-----------------------------------------------------------------------------
(***************************************************************************)
(* The inductive invariant                                                 *)
(***************************************************************************)

CallFields == {"pc", "op", "key", "req", "slot", "rows", "reply", "seq"}
StateFields == {"loaded", "engine", "lastSeq", "held", "terminal", "sentWin", "tickStarted",
                "subs", "winSubs", "told", "mu", "loops", "applied"}
ChanFields == {"open", "buf", "read"}

IsMap(f, S) == f = [x \in S |-> f[x]]

\* The variables are maps of records with these fields.  (What the fields engine
\* and rows hold is the replay of a log, which is a fold.)
Shapes ==
  /\ IsMap(call, Calls) /\ \A c \in Calls : IsMap(call[c], CallFields)
  /\ IsMap(states, Slots) /\ \A s \in Slots : IsMap(states[s], StateFields)
  /\ IsMap(chan, Calls) /\ \A c \in Calls : IsMap(chan[c], ChanFields)

Running(st) == st.loops + (IF st.mu = TickLoop THEN 1 ELSE 0)

\* One runState: its clock agrees with tickStarted, a run that is over has none
\* and nobody in its mutex, and an unloaded slot is idle.
SlotOK(st) ==
  /\ st.loops \in Nat
  /\ st.mu \in {Free, TickLoop} \cup Calls
  /\ Running(st) = IF st.tickStarted THEN 1 ELSE 0
  /\ st.terminal => Running(st) = 0 /\ st.mu = Free
  /\ ~st.loaded => ~st.terminal /\ ~st.tickStarted /\ st.mu = Free

HasState == {"lock", "append", "subscribed"}

\* One call: what it holds on to is loaded, and a call that appends is the holder
\* of the mutex.
CallOK(c) ==
  /\ call[c].op = "apply" => call[c].key \in Keys /\ call[c].req \in Reqs
  /\ call[c].pc \in HasState => call[c].slot \in Slots /\ states[call[c].slot].loaded
  /\ call[c].pc = "append" => states[call[c].slot].mu = c
  /\ call[c].reply = "accepted" => call[c].pc = "done"

\* A channel in deltaSubs is the open one of a subscription that has not ended.
SubOK(c, s) == c \in Calls /\ call[c].pc = "subscribed" /\ call[c].slot = s /\ chan[c].open

RuntimeInv ==
  /\ Shapes
  /\ current # 0 => current \in Slots /\ states[current].loaded
  /\ \A s \in Slots : SlotOK(states[s])
  /\ \A c \in Calls : CallOK(c)
  /\ \A s \in Slots : \A c \in states[s].subs : SubOK(c, s)

\* The step OverIsFinal asks of every step.
OverStays ==
  \A s \in Slots : states[s].terminal /\ states'[s].loaded =>
    /\ states'[s].terminal
    /\ states'[s].engine = states[s].engine /\ states'[s].lastSeq = states[s].lastSeq

-----------------------------------------------------------------------------
(***************************************************************************)
(* Facts about steps of one kind                                           *)
(***************************************************************************)

\* What a reply leaves of a call.
LEMMA ReplyFacts ==
  ASSUME Shapes, NEW c \in Calls, NEW what, NEW n, NEW next, next = Reply(c, what, n)
  PROVE  /\ IsMap(next, Calls) /\ \A d \in Calls : IsMap(next[d], CallFields)
         /\ next[c].pc = "done" /\ next[c].reply = what /\ next[c].seq = n
         /\ next[c].op = call[c].op /\ next[c].key = call[c].key /\ next[c].req = call[c].req
         /\ \A d \in Calls \ {c} : next[d] = call[d]
<1>1. IsMap(next, Calls) /\ \A d \in Calls : IsMap(next[d], CallFields)
  BY DEF Shapes, IsMap, CallFields, Reply
<1>2. next[c].pc = "done" /\ next[c].reply = what /\ next[c].seq = n
  BY DEF Shapes, IsMap, CallFields, Reply
<1>3. next[c].op = call[c].op /\ next[c].key = call[c].key /\ next[c].req = call[c].req
  BY DEF Shapes, IsMap, CallFields, Reply
<1>4. \A d \in Calls \ {c} : next[d] = call[d]
  BY DEF Shapes, IsMap, Reply
<1> QED BY <1>1, <1>2, <1>3, <1>4

\* What a change of pc leaves of a call.
LEMMA GotoFacts ==
  ASSUME Shapes, NEW c \in Calls, NEW pc, call' = Goto(c, pc)
  PROVE  /\ IsMap(call', Calls) /\ \A d \in Calls : IsMap(call'[d], CallFields)
         /\ call'[c].pc = pc /\ call'[c].reply = call[c].reply /\ call'[c].slot = call[c].slot
         /\ call'[c].op = call[c].op /\ call'[c].key = call[c].key /\ call'[c].req = call[c].req
         /\ \A d \in Calls \ {c} : call'[d] = call[d]
BY ZenonT(60) DEF Shapes, IsMap, CallFields, Goto

\* Starting the clock changes neither the mutex nor the engine of a runState.
LEMMA EnsureTickLoopFacts ==
  ASSUME NEW st, IsMap(st, StateFields), SlotOK(st), st.mu = Free, st.loaded,
         NEW new, new = EnsureTickLoop(st)
  PROVE  /\ IsMap(new, StateFields) /\ SlotOK(new) /\ new.mu = Free /\ new.loaded
         /\ new.subs = st.subs /\ new.terminal = st.terminal
         /\ new.engine = st.engine /\ new.lastSeq = st.lastSeq
<1>1. CASE st.tickStarted \/ st.terminal
  BY <1>1 DEF EnsureTickLoop
<1>2. CASE ~st.tickStarted /\ ~st.terminal
  <2>1. new = [st EXCEPT !.tickStarted = TRUE, !.loops = @ + 1]
    BY <1>2 DEF EnsureTickLoop
  <2>2. /\ IsMap(new, StateFields) /\ new.mu = Free /\ new.loaded
        /\ new.subs = st.subs /\ new.terminal = st.terminal
        /\ new.engine = st.engine /\ new.lastSeq = st.lastSeq
        /\ new.tickStarted = TRUE /\ new.loops = st.loops + 1
    BY <2>1 DEF IsMap, StateFields
  <2>3. SlotOK(new)
    BY <1>2, <2>2 DEF SlotOK, Running, Free, TickLoop
  <2> QED BY <2>2, <2>3
<1> QED BY <1>1, <1>2

\* A step of one call that touches nothing but the call.
LEMMA CallMoves ==
  ASSUME RuntimeInv, NEW c \in Calls,
         IsMap(call', Calls), \A d \in Calls : IsMap(call'[d], CallFields),
         \A d \in Calls \ {c} : call'[d] = call[d],
         UNCHANGED <<current, states, chan>>,
         call[c].pc # "subscribed", call'[c].pc # "append",
         call'[c].op = "apply" => call'[c].key \in Keys /\ call'[c].req \in Reqs,
         call'[c].pc \in HasState => call'[c].slot \in Slots /\ states[call'[c].slot].loaded,
         call'[c].reply = "accepted" => call'[c].pc = "done"
  PROVE  RuntimeInv' /\ OverStays
<1>1. Shapes'
  BY DEF RuntimeInv, Shapes
<1>2. \A d \in Calls : CallOK(d)'
  BY DEF RuntimeInv, CallOK
<1>3. \A s \in Slots : \A d \in states'[s].subs : SubOK(d, s)'
  BY DEF RuntimeInv, SubOK
<1> QED BY <1>1, <1>2, <1>3 DEF RuntimeInv, OverStays

\* A step of the tick loop of one runState.
LEMMA LoopMoves ==
  ASSUME RuntimeInv, NEW s \in Slots, NEW new,
         states' = [states EXCEPT ![s] = new],
         IsMap(new, StateFields), SlotOK(new), states[s].loaded => new.loaded,
         new.subs = states[s].subs,
         \A d \in Calls : states[s].mu = d => new.mu = d,
         IsMap(chan', Calls), \A d \in Calls : IsMap(chan'[d], ChanFields),
         \A d \in Calls : chan'[d].open = chan[d].open,
         UNCHANGED <<current, call>>,
         states[s].terminal => /\ new.terminal
                               /\ new.engine = states[s].engine
                               /\ new.lastSeq = states[s].lastSeq
  PROVE  RuntimeInv' /\ OverStays
<1>1. /\ states'[s] = new /\ \A t \in Slots \ {s} : states'[t] = states[t]
      /\ IsMap(states', Slots) /\ \A t \in Slots : IsMap(states'[t], StateFields)
  BY DEF RuntimeInv, Shapes, IsMap
<1>2. Shapes'
  BY <1>1 DEF RuntimeInv, Shapes
<1>3. current' # 0 => current' \in Slots /\ states'[current'].loaded
  BY <1>1 DEF RuntimeInv
<1>4. \A t \in Slots : SlotOK(states'[t])
  BY <1>1 DEF RuntimeInv
<1>5. \A d \in Calls : CallOK(d)'
  BY <1>1 DEF RuntimeInv, CallOK, HasState
<1>6. \A t \in Slots : \A d \in states'[t].subs : SubOK(d, t)'
  BY <1>1 DEF RuntimeInv, SubOK
<1>7. OverStays
  BY <1>1 DEF OverStays
<1> QED BY <1>2, <1>3, <1>4, <1>5, <1>6, <1>7 DEF RuntimeInv

\* A step of a call that has the mutex of its runState, or finds it free, and
\* leaves the subscriptions alone.
LEMMA CallLocks ==
  ASSUME RuntimeInv, NEW c \in Calls, NEW s \in Slots, NEW new,
         s = call[c].slot, call[c].pc \in {"lock", "append"}, states[s].mu \in {Free, c},
         states' = [states EXCEPT ![s] = new],
         IsMap(new, StateFields), SlotOK(new), new.loaded, new.subs = states[s].subs,
         IsMap(call', Calls), \A d \in Calls : IsMap(call'[d], CallFields),
         \A d \in Calls \ {c} : call'[d] = call[d],
         call'[c].op = call[c].op, call'[c].key = call[c].key, call'[c].req = call[c].req,
         \/ call'[c].pc = "done"
         \/ /\ call'[c].pc = "append" /\ call'[c].slot = s
            /\ call'[c].reply = call[c].reply /\ new.mu = c,
         UNCHANGED <<current, chan>>,
         states[s].terminal => /\ new.terminal
                               /\ new.engine = states[s].engine
                               /\ new.lastSeq = states[s].lastSeq
  PROVE  RuntimeInv' /\ OverStays
<1>1. /\ states'[s] = new /\ \A t \in Slots \ {s} : states'[t] = states[t]
      /\ IsMap(states', Slots) /\ \A t \in Slots : IsMap(states'[t], StateFields)
  BY ZenonT(60) DEF RuntimeInv, Shapes, IsMap
<1>2. Shapes'
  BY <1>1 DEF RuntimeInv, Shapes
<1>3. current' # 0 => current' \in Slots /\ states'[current'].loaded
  BY <1>1 DEF RuntimeInv
<1>4. \A t \in Slots : SlotOK(states'[t])
  BY <1>1 DEF RuntimeInv
<1>5. ASSUME NEW d \in Calls PROVE CallOK(d)'
  <2>1. CallOK(d)
    BY DEF RuntimeInv
  <2>2. CASE d = c
    BY <1>1, <2>1, <2>2 DEF CallOK, HasState
  <2>3. CASE d # c
    <3>1. call'[d] = call[d] /\ states[s].mu # d
      BY <2>3, MutexAssumption
    <3> QED BY <1>1, <2>1, <3>1 DEF CallOK, HasState
  <2> QED BY <2>2, <2>3
<1>6. \A t \in Slots : \A d \in states'[t].subs : SubOK(d, t)'
  BY <1>1 DEF RuntimeInv, SubOK
<1>7. OverStays
  BY <1>1 DEF OverStays
<1> QED BY <1>2, <1>3, <1>4, <1>5, <1>6, <1>7 DEF RuntimeInv

-----------------------------------------------------------------------------
(***************************************************************************)
(* The steps of state()                                                    *)
(***************************************************************************)

\* A call is made once, and an apply comes with a key and a request id.
LEMMA StartKeeps ==
  ASSUME RuntimeInv, NEW c \in Calls, NEW op, NEW key, NEW req, Start(c, op, key, req),
         op = "apply" => key \in Keys /\ req \in Reqs
  PROVE  RuntimeInv' /\ OverStays
<1>1. Shapes /\ CallOK(c)
  BY DEF RuntimeInv
<1>2. IsMap(call', Calls) /\ \A d \in Calls : IsMap(call'[d], CallFields)
  BY <1>1 DEF Shapes, IsMap, CallFields, Start
<1>3. /\ call'[c].pc = "state" /\ call'[c].op = op /\ call'[c].key = key
      /\ call'[c].req = req
  BY <1>1 DEF Shapes, IsMap, CallFields, Start
<1>4. call'[c].reply = call[c].reply /\ \A d \in Calls \ {c} : call'[d] = call[d]
  BY <1>1 DEF Shapes, IsMap, CallFields, Start
<1>5. call[c].pc = "new" /\ UNCHANGED <<current, states, chan>>
  BY DEF Start
<1> QED BY <1>1, <1>2, <1>3, <1>4, <1>5, CallMoves DEF CallOK, HasState

\* The state that is found is a loaded one.
LEMMA FindsStateKeeps ==
  ASSUME RuntimeInv, NEW c \in Calls, FindsState(c)
  PROVE  RuntimeInv' /\ OverStays
<1>0. Shapes
  BY DEF RuntimeInv
<1>1. CallOK(c) /\ current # 0 /\ current \in Slots /\ states[current].loaded
  BY DEF RuntimeInv, FindsState
<1>2. IsMap(call', Calls) /\ \A d \in Calls : IsMap(call'[d], CallFields)
  BY <1>0 DEF Shapes, IsMap, CallFields, FindsState
<1>3. call'[c].pc = "lock" /\ call'[c].slot = current
  BY <1>0 DEF Shapes, IsMap, CallFields, FindsState
<1>4. /\ call'[c].op = call[c].op /\ call'[c].key = call[c].key
      /\ call'[c].req = call[c].req /\ call'[c].reply = call[c].reply
  BY <1>0 DEF Shapes, IsMap, CallFields, FindsState
<1>5. \A d \in Calls \ {c} : call'[d] = call[d]
  BY <1>0 DEF Shapes, IsMap, FindsState
<1>6. call[c].pc = "state" /\ UNCHANGED <<current, states, chan>>
  BY DEF FindsState
<1> QED BY <1>1, <1>2, <1>3, <1>4, <1>5, <1>6, CallMoves DEF CallOK

\* A call that replies without having touched anything else.
LEMMA RepliesKeep ==
  ASSUME RuntimeInv, NEW c \in Calls, NEW what, NEW n, call' = Reply(c, what, n),
         call[c].pc # "subscribed", UNCHANGED <<current, states, chan>>
  PROVE  RuntimeInv' /\ OverStays
<1>1. Shapes /\ CallOK(c)
  BY DEF RuntimeInv
<1>2. /\ IsMap(call', Calls) /\ \A d \in Calls : IsMap(call'[d], CallFields)
      /\ call'[c].pc = "done"
      /\ call'[c].op = call[c].op /\ call'[c].key = call[c].key /\ call'[c].req = call[c].req
      /\ \A d \in Calls \ {c} : call'[d] = call[d]
  BY <1>1, ReplyFacts
<1> QED BY <1>1, <1>2, CallMoves DEF CallOK, HasState

\* A call that found no state goes on to load one, or to give the empty log a tick.
LEMMA GoesOn ==
  ASSUME RuntimeInv, NEW c \in Calls, NEW pc \in {"load", "seed"}, call' = Goto(c, pc),
         call[c].pc \in {"state", "load"}, UNCHANGED <<current, states, chan>>
  PROVE  RuntimeInv' /\ OverStays
<1>1. Shapes /\ CallOK(c)
  BY DEF RuntimeInv
<1>2. /\ IsMap(call', Calls) /\ \A d \in Calls : IsMap(call'[d], CallFields)
      /\ call'[c].pc = pc /\ call'[c].reply = call[c].reply
      /\ call'[c].op = call[c].op /\ call'[c].key = call[c].key /\ call'[c].req = call[c].req
      /\ \A d \in Calls \ {c} : call'[d] = call[d]
  BY <1>1, GotoFacts
<1> QED BY <1>1, <1>2, CallMoves DEF CallOK, HasState

\* A call takes the rows it will replay.
LEMMA TakesRows ==
  ASSUME RuntimeInv, NEW c \in Calls, NEW rows,
         call' = [call EXCEPT ![c].pc = "install", ![c].rows = rows],
         call[c].pc \in {"load", "seed"}, UNCHANGED <<current, states, chan>>
  PROVE  RuntimeInv' /\ OverStays
<1>1. Shapes /\ CallOK(c)
  BY DEF RuntimeInv
<1>2. IsMap(call', Calls) /\ \A d \in Calls : IsMap(call'[d], CallFields)
  BY <1>1 DEF Shapes, IsMap, CallFields
<1>3. /\ call'[c].op = call[c].op /\ call'[c].key = call[c].key
      /\ call'[c].req = call[c].req /\ call'[c].reply = call[c].reply
  BY <1>1 DEF Shapes, IsMap, CallFields
<1>4. call'[c].pc = "install" /\ \A d \in Calls \ {c} : call'[d] = call[d]
  BY <1>1 DEF Shapes, IsMap, CallFields
<1> QED BY <1>1, <1>2, <1>3, <1>4, CallMoves DEF CallOK, HasState

\* All of state() up to Install.
LEMMA LoadKeeps ==
  ASSUME RuntimeInv, NEW c \in Calls,
         MissesState(c) \/ ListActions(c) \/ SeedFirstTick(c) \/ Seeded(c) \/ LoadFails(c)
  PROVE  RuntimeInv' /\ OverStays
<1>1. CASE MissesState(c)
  BY <1>1, GoesOn DEF MissesState
<1>2. CASE ListActions(c)
  BY <1>2, TakesRows DEF ListActions
<1>3. CASE SeedFirstTick(c)
  BY <1>3, GoesOn DEF SeedFirstTick
<1>4. CASE Seeded(c)
  <2>1. CASE app[c].phase = "ok"
    <3> DEFINE rows == <<[seq |-> app[c].seq, type |-> "tick", key |-> None, req |-> None]>>
    <3>1. call' = [call EXCEPT ![c].pc = "install", ![c].rows = rows]
      BY <1>4, <2>1 DEF Seeded
    <3> HIDE DEF rows
    <3> QED BY <1>4, <3>1, TakesRows DEF Seeded
  <2>2. CASE app[c].phase # "ok"
    BY <1>4, <2>2, RepliesKeep DEF Seeded
  <2> QED BY <2>1, <2>2
<1>5. CASE LoadFails(c)
  BY <1>5, RepliesKeep DEF LoadFails
<1> QED BY <1>1, <1>2, <1>3, <1>4, <1>5

\* The new runState has no clock yet, and nobody waits for its mutex.
LEMMA LoadedFacts ==
  ASSUME NEW e, NEW rows
  PROVE  LET new == Loaded(e, rows) IN
         /\ IsMap(new, StateFields) /\ SlotOK(new) /\ new.loaded /\ new.subs = {}
<1>1. IsMap(EmptyState, StateFields)
  BY DEF EmptyState, IsMap, StateFields
<1>2. IsMap(Loaded(e, rows), StateFields)
  BY <1>1 DEF Loaded, IsMap, StateFields
<1>3. /\ Loaded(e, rows).loaded /\ Loaded(e, rows).subs = {} /\ Loaded(e, rows).mu = Free
      /\ Loaded(e, rows).loops = 0 /\ Loaded(e, rows).tickStarted = FALSE
  BY <1>1 DEF Loaded, EmptyState, IsMap, StateFields
<1>4. SlotOK(Loaded(e, rows))
  BY <1>3 DEF SlotOK, Running, Free, TickLoop
<1> QED BY <1>2, <1>3, <1>4

\* A second loader fills a slot of its own: nothing already loaded is touched.
LEMMA InstallKeeps ==
  ASSUME RuntimeInv, NEW c \in Calls, Install(c)
  PROVE  RuntimeInv' /\ OverStays
<1>1. call[c].pc = "install" /\ chan' = chan /\ Shapes /\ CallOK(c)
  BY DEF Install, RuntimeInv
<1>2. CASE Replay(Sim, call[c].rows).err # NoErr
  BY <1>1, <1>2, RepliesKeep DEF Install
<1>3. CASE Replay(Sim, call[c].rows).err = NoErr
  <2>1. PICK s \in Slots :
          /\ ~states[s].loaded
          /\ states' = [states EXCEPT ![s] = Loaded(Replay(Sim, call[c].rows).engine, call[c].rows)]
          /\ current' = s
          /\ call' = [call EXCEPT ![c].pc = "lock", ![c].slot = s, ![c].rows = <<>>]
    BY <1>3 DEF Install
  <2>2. /\ IsMap(states'[s], StateFields) /\ SlotOK(states'[s]) /\ states'[s].loaded
        /\ states'[s].subs = {} /\ IsMap(states', Slots)
        /\ \A t \in Slots \ {s} : states'[t] = states[t]
    BY <1>1, <2>1, LoadedFacts DEF Shapes, IsMap
  <2>3. IsMap(call', Calls) /\ \A d \in Calls : IsMap(call'[d], CallFields)
    BY <1>1, <2>1 DEF Shapes, IsMap, CallFields
  <2>4. call'[c].pc = "lock" /\ call'[c].slot = s /\ \A d \in Calls \ {c} : call'[d] = call[d]
    BY <1>1, <2>1 DEF Shapes, IsMap, CallFields
  <2>5. /\ call'[c].op = call[c].op /\ call'[c].key = call[c].key
        /\ call'[c].req = call[c].req /\ call'[c].reply = call[c].reply
    BY <1>1, <2>1 DEF Shapes, IsMap, CallFields
  <2>6. Shapes'
    BY <1>1, <2>2, <2>3 DEF Shapes
  <2>7. ~states[s].terminal
    BY <2>1 DEF RuntimeInv, SlotOK
  <2>8. \A t \in Slots : SlotOK(states'[t])
    BY <2>2 DEF RuntimeInv
  <2>9. ASSUME NEW d \in Calls PROVE CallOK(d)'
    <3>1. CASE d = c
      BY <1>1, <2>2, <2>4, <2>5, <3>1 DEF CallOK, HasState
    <3>2. CASE d # c
      <4>1. CallOK(d) /\ call'[d] = call[d]
        BY <2>4, <3>2 DEF RuntimeInv
      <4>2. \A t \in Slots : states[t].loaded => states'[t] = states[t]
        BY <2>1, <2>2
      <4> QED BY <4>1, <4>2 DEF CallOK, HasState
    <3> QED BY <3>1, <3>2
  <2>10. \A t \in Slots : \A d \in states'[t].subs : SubOK(d, t)'
    BY <1>1, <2>2, <2>4 DEF RuntimeInv, SubOK
  <2>11. OverStays
    BY <2>2, <2>7 DEF OverStays
  <2> QED BY <2>1, <2>2, <2>6, <2>8, <2>9, <2>10, <2>11 DEF RuntimeInv
<1> QED BY <1>2, <1>3

-----------------------------------------------------------------------------
(***************************************************************************)
(* The steps under the mutex                                               *)
(***************************************************************************)

\* What a call that is about to lock, or is subscribed, knows.
LEMMA HolderFacts ==
  ASSUME RuntimeInv, NEW c \in Calls, call[c].pc \in HasState
  PROVE  /\ Shapes /\ CallOK(c) /\ call[c].slot \in Slots /\ states[call[c].slot].loaded
         /\ SlotOK(states[call[c].slot]) /\ IsMap(states[call[c].slot], StateFields)
BY DEF RuntimeInv, CallOK, Shapes

\* An operation that finds the mutex free, starts the clock if need be and replies.
LEMMA ConnectKeeps ==
  ASSUME RuntimeInv, NEW c \in Calls, Connect(c)
  PROVE  RuntimeInv' /\ OverStays
<1> DEFINE s == call[c].slot
           new == EnsureTickLoop(states[s])
<1>1. call[c].pc = "lock" /\ states[s].mu = Free /\ call[c].pc \in HasState
  BY DEF Connect, Locks, HasState
<1>2. /\ Shapes /\ CallOK(c) /\ s \in Slots /\ states[s].loaded
      /\ SlotOK(states[s]) /\ IsMap(states[s], StateFields)
  BY <1>1, HolderFacts
<1>3. /\ IsMap(new, StateFields) /\ SlotOK(new) /\ new.mu = Free /\ new.loaded
      /\ new.subs = states[s].subs /\ new.terminal = states[s].terminal
      /\ new.engine = states[s].engine /\ new.lastSeq = states[s].lastSeq
  BY <1>1, <1>2, EnsureTickLoopFacts
<1>4. states' = [states EXCEPT ![s] = new] /\ chan' = chan /\ current' = current
  BY DEF Connect
<1>5. call' = Reply(c, "snapshot", states[s].lastSeq)
  BY DEF Connect
<1> HIDE DEF new, s
<1>6. /\ IsMap(call', Calls) /\ \A d \in Calls : IsMap(call'[d], CallFields)
      /\ call'[c].pc = "done"
      /\ call'[c].op = call[c].op /\ call'[c].key = call[c].key /\ call'[c].req = call[c].req
      /\ \A d \in Calls \ {c} : call'[d] = call[d]
  BY <1>2, <1>5, ReplyFacts
<1>7. s = call[c].slot
  BY DEF s
<1> QED BY <1>1, <1>2, <1>3, <1>4, <1>6, <1>7, CallLocks

\* A win subscription is only noted.
LEMMA SubscribeWinUpdatesKeeps ==
  ASSUME RuntimeInv, NEW c \in Calls, SubscribeWinUpdates(c)
  PROVE  RuntimeInv' /\ OverStays
<1> DEFINE s == call[c].slot
           new == [states[s] EXCEPT !.winSubs = @ \cup {c}]
<1>1. call[c].pc = "lock" /\ states[s].mu = Free /\ call[c].pc \in HasState
  BY DEF SubscribeWinUpdates, Locks, HasState
<1>2. /\ Shapes /\ CallOK(c) /\ s \in Slots /\ states[s].loaded
      /\ SlotOK(states[s]) /\ IsMap(states[s], StateFields)
  BY <1>1, HolderFacts
<1>3. /\ IsMap(new, StateFields) /\ SlotOK(new) /\ new.loaded
      /\ new.subs = states[s].subs /\ new.terminal = states[s].terminal
      /\ new.engine = states[s].engine /\ new.lastSeq = states[s].lastSeq
  BY <1>2 DEF IsMap, StateFields, SlotOK, Running
<1>4. states' = [states EXCEPT ![s] = new] /\ chan' = chan /\ current' = current
  BY <1>2 DEF SubscribeWinUpdates
<1>5. call' = Reply(c, "subscribed", 0)
  BY DEF SubscribeWinUpdates
<1>6. s = call[c].slot
  OBVIOUS
<1> HIDE DEF new, s
<1>7. /\ IsMap(call', Calls) /\ \A d \in Calls : IsMap(call'[d], CallFields)
      /\ call'[c].pc = "done"
      /\ call'[c].op = call[c].op /\ call'[c].key = call[c].key /\ call'[c].req = call[c].req
      /\ \A d \in Calls \ {c} : call'[d] = call[d]
  BY <1>2, <1>5, ReplyFacts
<1> QED BY <1>1, <1>2, <1>3, <1>4, <1>6, <1>7, CallLocks

\* An action takes the mutex of a run that is not over.
LEMMA ApplyBeginKeeps ==
  ASSUME RuntimeInv, NEW c \in Calls, ApplyBegin(c)
  PROVE  RuntimeInv' /\ OverStays
<1> DEFINE s == call[c].slot
           new == [states[s] EXCEPT !.mu = c]
<1>1. /\ call[c].pc = "lock" /\ states[s].mu = Free /\ call[c].pc \in HasState
      /\ chan' = chan /\ current' = current
  BY DEF ApplyBegin, Locks, HasState
<1>2. /\ Shapes /\ CallOK(c) /\ s \in Slots /\ states[s].loaded
      /\ SlotOK(states[s]) /\ IsMap(states[s], StateFields)
  BY <1>1, HolderFacts
<1>3. CASE Refused(states[s])
  BY <1>1, <1>3, RepliesKeep DEF ApplyBegin
<1>4. CASE ~Refused(states[s])
  <2>1. /\ IsMap(new, StateFields) /\ new.loaded /\ new.subs = states[s].subs
        /\ new.mu = c /\ new.loops = states[s].loops
        /\ new.tickStarted = states[s].tickStarted /\ new.terminal = states[s].terminal
    BY <1>2 DEF IsMap, StateFields
  <2>2. ~states[s].terminal
    BY <1>4 DEF Refused
  <2>3. SlotOK(new)
    BY <1>1, <1>2, <2>1, <2>2, MutexAssumption DEF SlotOK, Running, Free, TickLoop
  <2>4. states' = [states EXCEPT ![s] = new] /\ call' = Goto(c, "append") /\ s = call[c].slot
    BY <1>4 DEF ApplyBegin
  <2> HIDE DEF new, s
  <2>5. /\ IsMap(call', Calls) /\ \A d \in Calls : IsMap(call'[d], CallFields)
        /\ call'[c].pc = "append" /\ call'[c].reply = call[c].reply /\ call'[c].slot = s
        /\ call'[c].op = call[c].op /\ call'[c].key = call[c].key /\ call'[c].req = call[c].req
        /\ \A d \in Calls \ {c} : call'[d] = call[d]
    BY <1>2, <2>4, GotoFacts
  <2> QED BY <1>1, <1>2, <2>1, <2>2, <2>3, <2>4, <2>5, CallLocks
<1> QED BY <1>3, <1>4

\* Releasing the mutex of an action leaves a runState in order.
LEMMA UnlockFacts ==
  ASSUME NEW st, NEW c \in Calls, IsMap(st, StateFields), SlotOK(st), st.mu = c, st.loaded,
         NEW new, new = [st EXCEPT !.mu = Free]
  PROVE  IsMap(new, StateFields) /\ SlotOK(new) /\ new.loaded /\ new.subs = st.subs
<1>1. /\ IsMap(new, StateFields) /\ new.loaded /\ new.subs = st.subs
      /\ new.mu = Free /\ new.loops = st.loops
      /\ new.tickStarted = st.tickStarted /\ new.terminal = st.terminal
  BY DEF IsMap, StateFields
<1>2. SlotOK(new)
  BY <1>1, MutexAssumption DEF SlotOK, Running, Free, TickLoop
<1> QED BY <1>1, <1>2

\* So does accepting the action, which may also start the clock.
LEMMA AcceptedFacts ==
  ASSUME NEW st, NEW c \in Calls, IsMap(st, StateFields), SlotOK(st), st.mu = c, st.loaded,
         NEW new, new = Accepted(st)
  PROVE  IsMap(new, StateFields) /\ SlotOK(new) /\ new.loaded /\ new.subs = st.subs
<1> DEFINE mid == [st EXCEPT !.held = TRUE, !.mu = Free]
<1>1. /\ IsMap(mid, StateFields) /\ mid.loaded /\ mid.subs = st.subs
      /\ mid.mu = Free /\ mid.loops = st.loops
      /\ mid.tickStarted = st.tickStarted /\ mid.terminal = st.terminal
  BY DEF IsMap, StateFields
<1>2. new = EnsureTickLoop(mid)
  BY DEF Accepted
<1> HIDE DEF mid
<1>3. SlotOK(mid)
  BY <1>1, MutexAssumption DEF SlotOK, Running, Free, TickLoop
<1> QED BY <1>1, <1>2, <1>3, EnsureTickLoopFacts

\* Taking an action into the engine touches neither the mutex nor the clock.
LEMMA WithActionFacts ==
  ASSUME NEW st, IsMap(st, StateFields), SlotOK(st), NEW e, NEW seq,
         NEW new, new = WithAction(st, e, seq)
  PROVE  /\ IsMap(new, StateFields) /\ SlotOK(new) /\ new.mu = st.mu
         /\ new.loaded = st.loaded /\ new.subs = st.subs
<1>1. /\ IsMap(new, StateFields) /\ new.loaded = st.loaded /\ new.subs = st.subs
      /\ new.mu = st.mu /\ new.loops = st.loops
      /\ new.tickStarted = st.tickStarted /\ new.terminal = st.terminal
  BY DEF IsMap, StateFields, WithAction
<1>2. SlotOK(new)
  BY <1>1 DEF SlotOK, Running
<1> QED BY <1>1, <1>2

\* Whatever AppendAction and the engine answer, the mutex is released.
LEMMA ApplyEndKeeps ==
  ASSUME RuntimeInv, NEW c \in Calls, ApplyEnd(c)
  PROVE  RuntimeInv' /\ OverStays
<1> DEFINE s == call[c].slot
           st == states[s]
           result == ApplyAction(Sim, st.engine, call[c].key, call[c].req)
           seq == app[c].seq
<1>1. /\ call[c].pc = "append" /\ call[c].pc \in HasState
      /\ chan' = chan /\ current' = current
  BY DEF ApplyEnd, HasState
<1>2. \/ /\ states' = [states EXCEPT ![s] = [st EXCEPT !.mu = Free]]
         /\ call' = Reply(c, app[c].phase, 0)
      \/ /\ states' = [states EXCEPT ![s] = [st EXCEPT !.mu = Free]]
         /\ call' = Reply(c, "rejected", 0)
      \/ /\ states' = [states EXCEPT ![s] = Accepted(WithAction(st, result.engine, seq))]
         /\ call' = Reply(c, "accepted", seq)
      \/ /\ states' = [states EXCEPT ![s] = Accepted(st)]
         /\ call' = Reply(c, "accepted", seq)
  BY DEF ApplyEnd
<1>3. s = call[c].slot /\ st = states[s]
  OBVIOUS
<1> HIDE DEF s, st, result, seq
<1>4. /\ Shapes /\ CallOK(c) /\ s \in Slots /\ st.loaded
      /\ SlotOK(st) /\ IsMap(st, StateFields)
  BY <1>1, <1>3, HolderFacts
<1>5. st.mu = c
  BY <1>1, <1>3, <1>4 DEF CallOK
<1>6. ~st.terminal
  BY <1>4, <1>5, MutexAssumption DEF SlotOK
<1>7. ASSUME NEW new, states' = [states EXCEPT ![s] = new],
             NEW what, NEW n, call' = Reply(c, what, n),
             IsMap(new, StateFields) /\ SlotOK(new) /\ new.loaded /\ new.subs = st.subs
      PROVE  RuntimeInv' /\ OverStays
  <2>1. /\ IsMap(call', Calls) /\ \A d \in Calls : IsMap(call'[d], CallFields)
        /\ call'[c].pc = "done"
        /\ call'[c].op = call[c].op /\ call'[c].key = call[c].key /\ call'[c].req = call[c].req
        /\ \A d \in Calls \ {c} : call'[d] = call[d]
    BY <1>4, <1>7, ReplyFacts
  <2> QED BY <1>1, <1>3, <1>4, <1>5, <1>6, <1>7, <2>1, CallLocks
<1>8. CASE states' = [states EXCEPT ![s] = [st EXCEPT !.mu = Free]]
  <2> DEFINE new == [st EXCEPT !.mu = Free]
  <2>1. IsMap(new, StateFields) /\ SlotOK(new) /\ new.loaded /\ new.subs = st.subs
    BY <1>4, <1>5, UnlockFacts
  <2>2. PICK what, n : call' = Reply(c, what, n)
    BY <1>2
  <2>3. states' = [states EXCEPT ![s] = new]
    BY <1>8
  <2> HIDE DEF new
  <2> QED BY <1>7, <2>1, <2>2, <2>3
<1>9. CASE /\ states' = [states EXCEPT ![s] = Accepted(WithAction(st, result.engine, seq))]
           /\ call' = Reply(c, "accepted", seq)
  <2> DEFINE mid == WithAction(st, result.engine, seq)
  <2>1. /\ IsMap(mid, StateFields) /\ SlotOK(mid) /\ mid.mu = c
        /\ mid.loaded /\ mid.subs = st.subs
    BY <1>4, <1>5, WithActionFacts
  <2>2. states' = [states EXCEPT ![s] = Accepted(mid)]
    BY <1>9
  <2> HIDE DEF mid
  <2>3. /\ IsMap(Accepted(mid), StateFields) /\ SlotOK(Accepted(mid))
        /\ Accepted(mid).loaded /\ Accepted(mid).subs = st.subs
    BY <2>1, AcceptedFacts
  <2> QED BY <1>7, <1>9, <2>2, <2>3
<1>10. CASE /\ states' = [states EXCEPT ![s] = Accepted(st)]
            /\ call' = Reply(c, "accepted", seq)
  <2>1. /\ IsMap(Accepted(st), StateFields) /\ SlotOK(Accepted(st))
        /\ Accepted(st).loaded /\ Accepted(st).subs = st.subs
    BY <1>4, <1>5, AcceptedFacts
  <2> QED BY <1>7, <1>10, <2>1
<1> QED BY <1>2, <1>8, <1>9, <1>10

\* A subscription enters deltaSubs together with its open channel.
LEMMA SubscribeDeltasKeeps ==
  ASSUME RuntimeInv, NEW c \in Calls, SubscribeDeltas(c)
  PROVE  RuntimeInv' /\ OverStays
<1> DEFINE s == call[c].slot
           mid == [states[s] EXCEPT !.subs = @ \cup {c}]
           new == EnsureTickLoop(mid)
<1>1. call[c].pc = "lock" /\ states[s].mu = Free /\ call[c].pc \in HasState
  BY DEF SubscribeDeltas, Locks, HasState
<1>2. /\ Shapes /\ CallOK(c) /\ s \in Slots /\ states[s].loaded
      /\ SlotOK(states[s]) /\ IsMap(states[s], StateFields)
  BY <1>1, HolderFacts
<1>3. /\ IsMap(mid, StateFields) /\ mid.mu = Free /\ mid.loaded
      /\ mid.subs = states[s].subs \cup {c} /\ mid.terminal = states[s].terminal
      /\ mid.engine = states[s].engine /\ mid.lastSeq = states[s].lastSeq
      /\ mid.loops = states[s].loops /\ mid.tickStarted = states[s].tickStarted
  BY <1>1, <1>2 DEF IsMap, StateFields
<1>4. states' = [states EXCEPT ![s] = new] /\ current' = current
  BY DEF SubscribeDeltas
<1>5. s = call[c].slot /\ new = EnsureTickLoop(mid)
  OBVIOUS
<1> HIDE DEF new, mid, s
<1>6. SlotOK(mid)
  BY <1>1, <1>2, <1>3 DEF SlotOK, Running
<1>7. /\ IsMap(new, StateFields) /\ SlotOK(new) /\ new.loaded
      /\ new.subs = states[s].subs \cup {c} /\ new.terminal = states[s].terminal /\ new.mu = Free
      /\ new.engine = states[s].engine /\ new.lastSeq = states[s].lastSeq
  BY <1>3, <1>5, <1>6, EnsureTickLoopFacts
<1>8. /\ states'[s] = new /\ \A t \in Slots \ {s} : states'[t] = states[t]
      /\ IsMap(states', Slots) /\ \A t \in Slots : IsMap(states'[t], StateFields)
  BY <1>2, <1>4, <1>7 DEF Shapes, IsMap
<1>9. /\ IsMap(call', Calls) /\ \A d \in Calls : IsMap(call'[d], CallFields)
      /\ call'[c].pc = "subscribed" /\ call'[c].slot = call[c].slot
      /\ \A d \in Calls \ {c} : call'[d] = call[d]
  <2>1. call' = Goto(c, "subscribed")
    BY DEF SubscribeDeltas, Goto
  <2> QED BY <1>2, <2>1, GotoFacts
<1>10. /\ call'[c].op = call[c].op /\ call'[c].key = call[c].key
       /\ call'[c].req = call[c].req /\ call'[c].reply = call[c].reply
  BY <1>2 DEF SubscribeDeltas, Shapes, IsMap, CallFields
<1>11. /\ IsMap(chan', Calls) /\ \A d \in Calls : IsMap(chan'[d], ChanFields)
       /\ chan'[c].open = TRUE /\ \A d \in Calls \ {c} : chan'[d] = chan[d]
  BY <1>2, ZenonT(60) DEF SubscribeDeltas, Shapes, IsMap, ChanFields
<1>12. Shapes'
  BY <1>8, <1>9, <1>11 DEF Shapes
<1>13. current' # 0 => current' \in Slots /\ states'[current'].loaded
  BY <1>4, <1>7, <1>8 DEF RuntimeInv
<1>14. \A t \in Slots : SlotOK(states'[t])
  BY <1>7, <1>8 DEF RuntimeInv
<1>15. ASSUME NEW d \in Calls PROVE CallOK(d)'
  <2>1. CallOK(d)
    BY DEF RuntimeInv
  <2>2. CASE d = c
    BY <1>1, <1>5, <1>7, <1>8, <1>9, <1>10, <2>1, <2>2 DEF CallOK, HasState
  <2>3. CASE d # c
    <3>1. call'[d] = call[d] /\ states[s].mu # d
      BY <1>1, <1>9, <2>3, MutexAssumption
    <3> QED BY <1>7, <1>8, <2>1, <3>1 DEF CallOK, HasState
  <2> QED BY <2>2, <2>3
<1>16. ASSUME NEW t \in Slots, NEW d \in states'[t].subs PROVE SubOK(d, t)'
  <2>1. CASE d = c
    <3>1. t = s
      BY <1>1, <1>8, <1>16, <2>1 DEF RuntimeInv, SubOK
    <3> QED BY <1>5, <1>9, <1>11, <2>1, <3>1 DEF SubOK
  <2>2. CASE d # c
    <3>1. d \in states[t].subs
      BY <1>7, <1>8, <1>16, <2>2
    <3> QED BY <1>9, <1>11, <2>2, <3>1 DEF RuntimeInv, SubOK
  <2> QED BY <2>1, <2>2
<1>17. OverStays
  BY <1>7, <1>8 DEF OverStays
<1> QED BY <1>12, <1>13, <1>14, <1>15, <1>16, <1>17 DEF RuntimeInv

\* A subscription leaves deltaSubs in the step that closes its channel.
LEMMA UnsubscribeKeeps ==
  ASSUME RuntimeInv, NEW c \in Calls, Unsubscribe(c)
  PROVE  RuntimeInv' /\ OverStays
<1> DEFINE s == call[c].slot
           new == [states[s] EXCEPT !.subs = @ \ {c}]
<1>1. /\ call[c].pc = "subscribed" /\ states[s].mu = Free /\ call[c].pc \in HasState
      /\ current' = current /\ call' = Reply(c, "closed", 0)
  BY DEF Unsubscribe, HasState
<1>2. /\ Shapes /\ CallOK(c) /\ s \in Slots /\ states[s].loaded
      /\ SlotOK(states[s]) /\ IsMap(states[s], StateFields)
  BY <1>1, HolderFacts
<1>3. /\ IsMap(new, StateFields) /\ new.mu = Free /\ new.loaded
      /\ new.subs = states[s].subs \ {c} /\ new.terminal = states[s].terminal
      /\ new.engine = states[s].engine /\ new.lastSeq = states[s].lastSeq
      /\ new.loops = states[s].loops /\ new.tickStarted = states[s].tickStarted
  BY <1>1, <1>2 DEF IsMap, StateFields
<1>4. states' = [states EXCEPT ![s] = new] /\ s = call[c].slot
  BY <1>2 DEF Unsubscribe
<1> HIDE DEF new, s
<1>5. SlotOK(new)
  BY <1>1, <1>2, <1>3 DEF SlotOK, Running
<1>6. /\ states'[s] = new /\ \A t \in Slots \ {s} : states'[t] = states[t]
      /\ IsMap(states', Slots) /\ \A t \in Slots : IsMap(states'[t], StateFields)
  BY <1>2, <1>3, <1>4 DEF Shapes, IsMap
<1>7. /\ IsMap(call', Calls) /\ \A d \in Calls : IsMap(call'[d], CallFields)
      /\ call'[c].pc = "done"
      /\ call'[c].op = call[c].op /\ call'[c].key = call[c].key /\ call'[c].req = call[c].req
      /\ \A d \in Calls \ {c} : call'[d] = call[d]
  BY <1>1, <1>2, ReplyFacts
<1>8. /\ IsMap(chan', Calls) /\ \A d \in Calls : IsMap(chan'[d], ChanFields)
      /\ \A d \in Calls \ {c} : chan'[d] = chan[d]
  BY <1>2, ZenonT(60) DEF Unsubscribe, Shapes, IsMap, ChanFields
<1>9. Shapes'
  BY <1>6, <1>7, <1>8 DEF Shapes
<1>10. current' # 0 => current' \in Slots /\ states'[current'].loaded
  BY <1>1, <1>3, <1>6 DEF RuntimeInv
<1>11. \A t \in Slots : SlotOK(states'[t])
  BY <1>5, <1>6 DEF RuntimeInv
<1>12. ASSUME NEW d \in Calls PROVE CallOK(d)'
  <2>1. CallOK(d)
    BY DEF RuntimeInv
  <2>2. CASE d = c
    BY <1>7, <2>1, <2>2 DEF CallOK, HasState
  <2>3. CASE d # c
    <3>1. call'[d] = call[d] /\ states[s].mu # d
      BY <1>1, <1>7, <2>3, MutexAssumption
    <3> QED BY <1>3, <1>6, <2>1, <3>1 DEF CallOK, HasState
  <2> QED BY <2>2, <2>3
<1>13. ASSUME NEW t \in Slots, NEW d \in states'[t].subs PROVE SubOK(d, t)'
  <2>1. d \in states[t].subs /\ (t = s => d # c)
    BY <1>3, <1>6, <1>13
  <2>2. SubOK(d, t)
    BY <2>1 DEF RuntimeInv
  <2>3. d # c
    BY <1>4, <2>1, <2>2 DEF SubOK
  <2> QED BY <1>7, <1>8, <2>2, <2>3 DEF SubOK
<1>14. OverStays
  BY <1>3, <1>6 DEF OverStays
<1> QED BY <1>9, <1>10, <1>11, <1>12, <1>13, <1>14 DEF RuntimeInv

-----------------------------------------------------------------------------
(***************************************************************************)
(* The steps of the tick loop, of readers, of Postgres and of restarts     *)
(***************************************************************************)

\* The clock stops, or takes the mutex for a tick.
LEMMA TickBeginKeeps ==
  ASSUME RuntimeInv, NEW s \in Slots, TickBegin(s)
  PROVE  RuntimeInv' /\ OverStays
<1>1. /\ states[s].loops > 0 /\ states[s].mu = Free /\ UNCHANGED <<current, call, chan>>
      /\ SlotOK(states[s]) /\ IsMap(states[s], StateFields) /\ Shapes
  BY DEF TickBegin, RuntimeInv, Shapes
<1>2. ~states[s].terminal
  BY <1>1 DEF SlotOK, Running, Free, TickLoop
<1>3. states[s].loaded
  BY <1>1 DEF SlotOK, Running, Free, TickLoop
<1> DEFINE new == [states[s] EXCEPT !.loops = @ - 1, !.mu = TickLoop]
<1>4. states' = [states EXCEPT ![s] = new]
  BY <1>1, <1>2 DEF TickBegin, Shapes, IsMap
<1>5. /\ IsMap(new, StateFields) /\ new.loaded = states[s].loaded /\ new.subs = states[s].subs
      /\ new.mu = TickLoop /\ new.loops = states[s].loops - 1
      /\ new.tickStarted = states[s].tickStarted /\ new.terminal = states[s].terminal
  BY <1>1 DEF IsMap, StateFields
<1> HIDE DEF new
<1>6. SlotOK(new)
  BY <1>1, <1>2, <1>3, <1>5 DEF SlotOK, Running, Free, TickLoop
<1>7. \A d \in Calls : states[s].mu = d => new.mu = d
  BY <1>1, MutexAssumption
<1> QED BY <1>1, <1>2, <1>4, <1>5, <1>6, <1>7, LoopMoves DEF Shapes, RuntimeInv

\* The clock ends with the run or with an error, or goes on; the mutex is released.
LEMMA TickEndKeeps ==
  ASSUME RuntimeInv, NEW s \in Slots, TickEnd(s)
  PROVE  RuntimeInv' /\ OverStays
<1> DEFINE st == states[s]
           e == Tick(Sim, st.engine).engine
           seq == app[s].seq
           ticked == [st EXCEPT !.engine = e, !.lastSeq = seq,
                                !.applied = @ \cup {seq}, !.mu = Free]
           failed == [st EXCEPT !.tickStarted = FALSE, !.mu = Free]
           ended == [ticked EXCEPT !.terminal = TRUE, !.tickStarted = FALSE,
                                   !.sentWin = TRUE, !.told = Told(st)]
           goes == [ticked EXCEPT !.loops = @ + 1]
<1>1. st.mu = TickLoop /\ UNCHANGED <<current, call>>
  BY DEF TickEnd
<1>2. \/ states' = [states EXCEPT ![s] = failed] /\ UNCHANGED chan
      \/ states' = [states EXCEPT ![s] = ended] /\ UNCHANGED chan
      \/ states' = [states EXCEPT ![s] = goes] /\ chan' = Pushed(st.subs, seq)
  BY DEF TickEnd
<1>3. SlotOK(st) /\ IsMap(st, StateFields) /\ Shapes
  BY DEF RuntimeInv, Shapes
<1> HIDE DEF e, seq
<1>4. st.loaded /\ ~st.terminal /\ st.tickStarted /\ st.loops = 0
  BY <1>1, <1>3 DEF SlotOK, Running, Free, TickLoop
<1>5. /\ IsMap(chan', Calls) /\ \A d \in Calls : IsMap(chan'[d], ChanFields)
      /\ \A d \in Calls : chan'[d].open = chan[d].open
  <2>1. CASE UNCHANGED chan
    BY <1>3, <2>1 DEF Shapes
  <2>2. CASE chan' = Pushed(st.subs, seq)
    BY <1>3, <2>2 DEF Shapes, IsMap, ChanFields, Pushed
  <2> QED BY <1>2, <2>1, <2>2
<1>6. \A d \in Calls : st.mu # d
  BY <1>1, MutexAssumption
<1>7. ASSUME NEW new, states' = [states EXCEPT ![s] = new],
             IsMap(new, StateFields), SlotOK(new), new.loaded, new.subs = st.subs
      PROVE  RuntimeInv' /\ OverStays
  BY <1>1, <1>4, <1>5, <1>6, <1>7, LoopMoves
<1>8. IsMap(failed, StateFields) /\ SlotOK(failed) /\ failed.loaded /\ failed.subs = st.subs
  <2>1. /\ IsMap(failed, StateFields) /\ failed.loaded = st.loaded /\ failed.subs = st.subs
        /\ failed.mu = Free /\ failed.loops = st.loops /\ failed.tickStarted = FALSE
        /\ failed.terminal = st.terminal
    BY <1>3 DEF IsMap, StateFields
  <2> HIDE DEF failed, st
  <2> QED BY <1>4, <2>1 DEF SlotOK, Running, Free, TickLoop
<1>9. /\ IsMap(ticked, StateFields) /\ ticked.loaded = st.loaded /\ ticked.subs = st.subs
      /\ ticked.mu = Free /\ ticked.loops = st.loops /\ ticked.tickStarted = st.tickStarted
      /\ ticked.terminal = st.terminal
  BY <1>3 DEF IsMap, StateFields
<1>10. IsMap(ended, StateFields) /\ SlotOK(ended) /\ ended.loaded /\ ended.subs = st.subs
  <2> HIDE DEF ticked, st
  <2>1. /\ IsMap(ended, StateFields) /\ ended.loaded = st.loaded /\ ended.subs = st.subs
        /\ ended.mu = Free /\ ended.loops = st.loops /\ ended.tickStarted = FALSE
    BY <1>9 DEF IsMap, StateFields
  <2> HIDE DEF ended
  <2> QED BY <1>4, <2>1 DEF SlotOK, Running, Free, TickLoop
<1>11. IsMap(goes, StateFields) /\ SlotOK(goes) /\ goes.loaded /\ goes.subs = st.subs
  <2> HIDE DEF ticked, st
  <2>1. /\ IsMap(goes, StateFields) /\ goes.loaded = st.loaded /\ goes.subs = st.subs
        /\ goes.mu = Free /\ goes.loops = st.loops + 1 /\ goes.tickStarted = st.tickStarted
        /\ goes.terminal = st.terminal
    BY <1>9 DEF IsMap, StateFields
  <2> HIDE DEF goes
  <2> QED BY <1>4, <2>1 DEF SlotOK, Running, Free, TickLoop
<1> HIDE DEF failed, ended, goes
<1> QED BY <1>2, <1>7, <1>8, <1>10, <1>11

\* The hold-off of the next tick runs out.
LEMMA HoldExpiresKeeps ==
  ASSUME RuntimeInv, NEW s \in Slots, HoldExpires(s)
  PROVE  RuntimeInv' /\ OverStays
<1> DEFINE new == [states[s] EXCEPT !.held = FALSE]
<1>1. states' = [states EXCEPT ![s] = new] /\ UNCHANGED <<current, call, chan>>
  BY DEF HoldExpires, RuntimeInv, Shapes, IsMap
<1>2. SlotOK(states[s]) /\ IsMap(states[s], StateFields) /\ Shapes
  BY DEF RuntimeInv, Shapes
<1>3. /\ IsMap(new, StateFields) /\ new.loaded = states[s].loaded /\ new.subs = states[s].subs
      /\ new.mu = states[s].mu /\ new.terminal = states[s].terminal
      /\ new.engine = states[s].engine /\ new.lastSeq = states[s].lastSeq
      /\ new.loops = states[s].loops /\ new.tickStarted = states[s].tickStarted
  BY <1>2 DEF IsMap, StateFields
<1> HIDE DEF new
<1>4. SlotOK(new)
  BY <1>2, <1>3 DEF SlotOK, Running
<1> QED BY <1>1, <1>2, <1>3, <1>4, LoopMoves DEF Shapes

\* A reader takes a delta out of an open channel.
LEMMA ReceiveKeeps ==
  ASSUME RuntimeInv, NEW c \in Calls, Receive(c)
  PROVE  RuntimeInv' /\ OverStays
<1>1. UNCHANGED <<current, states, call>> /\ Shapes
  BY DEF Receive, RuntimeInv
<1>2. /\ IsMap(chan', Calls) /\ \A d \in Calls : IsMap(chan'[d], ChanFields)
      /\ \A d \in Calls : chan'[d].open = chan[d].open
  <2> DEFINE h == Head(chan[c].buf)
             t == Tail(chan[c].buf)
  <2>1. chan' = [chan EXCEPT ![c].read = h, ![c].buf = t]
    BY <1>1 DEF Receive, Shapes, IsMap, ChanFields
  <2> HIDE DEF h, t
  <2>2. IsMap(chan', Calls) /\ \A d \in Calls : IsMap(chan'[d], ChanFields)
    BY <1>1, <2>1 DEF Shapes, IsMap, ChanFields
  <2>3. \A d \in Calls : chan'[d].open = chan[d].open
    BY <1>1, <2>1 DEF Shapes, IsMap, ChanFields
  <2> QED BY <2>2, <2>3
<1>3. Shapes'
  BY <1>1, <1>2 DEF Shapes
<1>4. \A d \in Calls : CallOK(d)'
  BY <1>1 DEF RuntimeInv, CallOK
<1>5. \A t \in Slots : \A d \in states'[t].subs : SubOK(d, t)'
  BY <1>1, <1>2 DEF RuntimeInv, SubOK
<1> QED BY <1>1, <1>3, <1>4, <1>5 DEF RuntimeInv, OverStays

\* A slot nothing is loaded into.
LEMMA EmptyStateFacts ==
  /\ IsMap(EmptyState, StateFields) /\ SlotOK(EmptyState)
  /\ EmptyState.subs = {} /\ ~EmptyState.loaded
<1>1. IsMap(EmptyState, StateFields)
  BY DEF EmptyState, IsMap, StateFields
<1>2. SlotOK(EmptyState) /\ EmptyState.subs = {} /\ ~EmptyState.loaded
  BY DEF EmptyState, SlotOK, Running, Free, TickLoop
<1> QED BY <1>1, <1>2

\* After a restart nothing is loaded, and no call is under way.
LEMMA CrashKeeps ==
  ASSUME RuntimeInv, Crash
  PROVE  RuntimeInv' /\ OverStays
<1>1. /\ current' = 0 /\ states' = [s \in Slots |-> EmptyState] /\ chan' = [c \in Calls |-> NoChan]
      /\ call' = [c \in Calls |-> IF call[c].pc \in {"new", "done"} THEN call[c]
                                  ELSE Reply(c, "lost", 0)[c]]
  BY DEF Crash
<1>2. Shapes
  BY DEF RuntimeInv
<1>3. ASSUME NEW c \in Calls
      PROVE  IsMap(call'[c], CallFields) /\ CallOK(c)'
  <2>1. CallOK(c) /\ IsMap(call[c], CallFields)
    BY <1>2 DEF RuntimeInv, Shapes
  <2>2. CASE call[c].pc \in {"new", "done"}
    <3>1. call'[c] = call[c]
      BY <1>1, <2>2
    <3> QED BY <2>1, <2>2, <3>1 DEF CallOK, HasState
  <2>3. CASE call[c].pc \notin {"new", "done"}
    <3> DEFINE next == Reply(c, "lost", 0)
    <3>1. /\ IsMap(next[c], CallFields) /\ next[c].pc = "done"
          /\ next[c].op = call[c].op /\ next[c].key = call[c].key /\ next[c].req = call[c].req
      BY <1>2, ReplyFacts
    <3>2. call'[c] = next[c]
      BY <1>1, <2>3
    <3> HIDE DEF next
    <3> QED BY <2>1, <3>1, <3>2 DEF CallOK, HasState
  <2> QED BY <2>2, <2>3
<1>4. /\ IsMap(chan', Calls) /\ \A c \in Calls : IsMap(chan'[c], ChanFields)
      /\ IsMap(states', Slots) /\ IsMap(call', Calls)
      /\ \A s \in Slots : states'[s] = EmptyState
  BY <1>1 DEF IsMap, NoChan, ChanFields
<1>5. Shapes' /\ \A s \in Slots : SlotOK(states'[s]) /\ states'[s].subs = {}
  BY <1>3, <1>4, EmptyStateFacts DEF Shapes
<1>6. OverStays
  BY <1>4, EmptyStateFacts DEF OverStays
<1> QED BY <1>1, <1>3, <1>5, <1>6 DEF RuntimeInv

-----------------------------------------------------------------------------
(***************************************************************************)
(* RuntimeInv is inductive                                                 *)
(***************************************************************************)

\* Nothing is loaded, subscribed or called when the process starts.
LEMMA RuntimeInvInit == Init => RuntimeInv
<1> SUFFICES ASSUME Init PROVE RuntimeInv
  OBVIOUS
<1>1. /\ call = [c \in Calls |-> NewCall] /\ chan = [c \in Calls |-> NoChan]
      /\ states = [s \in Slots |-> EmptyState] /\ current = 0
  BY DEF Init
<1>2. Shapes
  BY <1>1, EmptyStateFacts DEF Shapes, IsMap, NewCall, CallFields, NoChan, ChanFields
<1>3. \A c \in Calls : CallOK(c)
  BY <1>1 DEF NewCall, CallOK, HasState
<1>4. \A s \in Slots : SlotOK(states[s]) /\ states[s].subs = {}
  BY <1>1, EmptyStateFacts
<1> QED BY <1>1, <1>2, <1>3, <1>4 DEF RuntimeInv

\* A step that leaves the runtime's own variables alone.
LEMMA LogMoves ==
  ASSUME RuntimeInv, UNCHANGED <<current, states, call, chan>>
  PROVE  RuntimeInv' /\ OverStays
<1>1. Shapes'
  BY DEF RuntimeInv, Shapes
<1>2. \A c \in Calls : CallOK(c)'
  BY DEF RuntimeInv, CallOK
<1>3. \A s \in Slots : \A c \in states'[s].subs : SubOK(c, s)'
  BY DEF RuntimeInv, SubOK
<1> QED BY <1>1, <1>2, <1>3 DEF RuntimeInv, OverStays

\* Every step keeps the invariant, and leaves a run that is over as it is.
LEMMA RuntimeInvNext == RuntimeInv /\ [Next]_vars => RuntimeInv' /\ OverStays
<1> SUFFICES ASSUME RuntimeInv, [Next]_vars PROVE RuntimeInv' /\ OverStays
  OBVIOUS
<1>1. ASSUME NEW c \in Calls, NEW op \in Ops \ {"apply"}, Start(c, op, None, None)
      PROVE  RuntimeInv' /\ OverStays
  BY <1>1, StartKeeps
<1>2. ASSUME NEW c \in Calls, NEW key \in Keys, NEW req \in Reqs, Start(c, "apply", key, req)
      PROVE  RuntimeInv' /\ OverStays
  BY <1>2, StartKeeps
<1>3. ASSUME NEW c \in Calls, StateStep(c) PROVE RuntimeInv' /\ OverStays
  BY <1>3, FindsStateKeeps, LoadKeeps, InstallKeeps DEF StateStep
<1>4. ASSUME NEW c \in Calls, OperationStep(c) PROVE RuntimeInv' /\ OverStays
  BY <1>4, ConnectKeeps, SubscribeDeltasKeeps, SubscribeWinUpdatesKeeps, ApplyBeginKeeps,
     ApplyEndKeeps DEF OperationStep
<1>5. ASSUME NEW c \in Calls, Unsubscribe(c) \/ Receive(c) PROVE RuntimeInv' /\ OverStays
  BY <1>5, UnsubscribeKeeps, ReceiveKeeps
<1>6. ASSUME NEW s \in Slots, TickBegin(s) \/ TickEnd(s) \/ HoldExpires(s)
      PROVE  RuntimeInv' /\ OverStays
  BY <1>6, TickBeginKeeps, TickEndKeeps, HoldExpiresKeeps
<1>7. ASSUME NEW p \in Calls \cup Slots, Statement(p) \/ StatementFails(p)
      PROVE  RuntimeInv' /\ OverStays
  BY <1>7, LogMoves DEF Statement, StatementFails
<1>8. ASSUME NEW o \in orphans, LateInsert(o) PROVE RuntimeInv' /\ OverStays
  BY <1>8, LogMoves DEF LateInsert
<1>9. CASE Crash
  BY <1>9, CrashKeeps
<1>10. CASE UNCHANGED vars
  BY <1>10, LogMoves DEF vars
<1> QED BY <1>1, <1>2, <1>3, <1>4, <1>5, <1>6, <1>7, <1>8, <1>9, <1>10 DEF Next

-----------------------------------------------------------------------------
(***************************************************************************)
(* What holds of every execution of the runtime                            *)
(***************************************************************************)

\* The inductive invariant holds in every reachable state.
THEOREM RuntimeInvariant == Spec => []RuntimeInv
<1>1. Init => RuntimeInv
  BY RuntimeInvInit
<1>2. RuntimeInv /\ [Next]_vars => RuntimeInv'
  BY RuntimeInvNext
<1> QED BY <1>1, <1>2, PTL DEF Spec

\* A runState never has two tick loops, and tickStarted is never stuck: it says
\* whether there is one.
THEOREM ClockIsSingle == Spec => []OneTickLoop
<1>1. RuntimeInv => OneTickLoop
  BY DEF RuntimeInv, OneTickLoop, SlotOK, Running
<1> QED BY <1>1, RuntimeInvariant, PTL

\* pushDelta never sends on a channel that its subscription has closed.
THEOREM PushesToOpenChannels == Spec => []SubscribersAreOpen
<1>1. RuntimeInv => SubscribersAreOpen
  BY DEF RuntimeInv, SubscribersAreOpen, SubOK
<1> QED BY <1>1, RuntimeInvariant, PTL

\* No late action or tick changes a run that is over.
THEOREM EndedRunsStay == Spec => OverIsFinal
<1>1. RuntimeInv /\ [Next]_vars => [OverStays]_vars
  BY RuntimeInvNext
<1> QED BY <1>1, RuntimeInvariant, PTL DEF Spec, OverIsFinal, OverStays

-----------------------------------------------------------------------------
(***************************************************************************)
(* The runtime uses the action log                                         *)
(***************************************************************************)

ALP == INSTANCE ActionLog_proofs WITH Appenders <- Calls \cup Slots

\* Every step of the runtime is a step of AppendAction or leaves the log alone.
LEMMA StepsOfActionLog == RuntimeInv /\ [Next]_vars => [AL!LogNext]_logVars
<1> SUFFICES ASSUME RuntimeInv, [Next]_vars PROVE [AL!LogNext]_logVars
  OBVIOUS
<1>1. ASSUME NEW c \in Calls, NEW op, NEW key, NEW req, Start(c, op, key, req)
      PROVE  UNCHANGED logVars
  BY <1>1 DEF Start
<1>2. ASSUME NEW c \in Calls, StateStep(c) PROVE [AL!LogNext]_logVars
  <2>1. CASE SeedFirstTick(c)
    <3>1. AL!Begin(c, AL!TickEntry) /\ AL!TickEntry \in AL!Entry
      BY <2>1 DEF SeedFirstTick, AL!Entry
    <3> QED BY <3>1 DEF AL!LogNext
  <2>2. CASE Seeded(c)
    BY <2>2 DEF Seeded, AL!LogNext
  <2>3. CASE FindsState(c) \/ MissesState(c) \/ ListActions(c) \/ LoadFails(c) \/ Install(c)
    BY <2>3 DEF FindsState, MissesState, ListActions, LoadFails, Install
  <2> QED BY <1>2, <2>1, <2>2, <2>3 DEF StateStep
<1>3. ASSUME NEW c \in Calls, OperationStep(c) PROVE [AL!LogNext]_logVars
  <2>1. CASE ApplyBegin(c)
    <3>1. call[c].op = "apply" /\ call[c].key \in Keys /\ call[c].req \in Reqs
      BY <2>1 DEF ApplyBegin, Locks, RuntimeInv, CallOK
    <3>2. ActionEntry(c) \in AL!Entry
      BY <3>1 DEF ActionEntry, AL!PlayerEntry, AL!Entry
    <3>3. UNCHANGED logVars \/ AL!Begin(c, ActionEntry(c))
      BY <2>1 DEF ApplyBegin
    <3> QED BY <3>2, <3>3 DEF AL!LogNext
  <2>2. CASE ApplyEnd(c)
    BY <2>2 DEF ApplyEnd, AL!LogNext
  <2>3. CASE Connect(c) \/ SubscribeDeltas(c) \/ SubscribeWinUpdates(c)
    BY <2>3 DEF Connect, SubscribeDeltas, SubscribeWinUpdates
  <2> QED BY <1>3, <2>1, <2>2, <2>3 DEF OperationStep
<1>4. ASSUME NEW c \in Calls, Unsubscribe(c) \/ Receive(c) PROVE UNCHANGED logVars
  BY <1>4 DEF Unsubscribe, Receive
<1>5. ASSUME NEW s \in Slots, TickBegin(s) \/ TickEnd(s) \/ HoldExpires(s)
      PROVE  [AL!LogNext]_logVars
  <2>1. CASE TickBegin(s)
    <3>1. (UNCHANGED logVars \/ AL!Begin(s, AL!TickEntry)) /\ AL!TickEntry \in AL!Entry
      BY <2>1 DEF TickBegin, AL!Entry
    <3> QED BY <3>1 DEF AL!LogNext
  <2>2. CASE TickEnd(s)
    BY <2>2 DEF TickEnd, AL!LogNext
  <2>3. CASE HoldExpires(s)
    BY <2>3 DEF HoldExpires
  <2> QED BY <1>5, <2>1, <2>2, <2>3
<1>6. ASSUME NEW p \in Calls \cup Slots, Statement(p) \/ StatementFails(p)
      PROVE  AL!LogNext
  BY <1>6 DEF Statement, StatementFails, AL!LogNext
<1>7. ASSUME NEW o \in orphans, LateInsert(o) PROVE AL!LogNext
  BY <1>7 DEF LateInsert, AL!LogNext
<1>8. CASE Crash
  BY <1>8 DEF Crash, AL!LogNext
<1>9. CASE UNCHANGED vars
  BY <1>9 DEF vars, logVars
<1> QED BY <1>1, <1>2, <1>3, <1>4, <1>5, <1>6, <1>7, <1>8, <1>9 DEF Next

\* The runtime reaches run_actions only through AppendAction, with entries the
\* table's CHECK accepts.
LEMMA RuntimeUsesLog == Spec => AL!LogSpec
<1>1. Init => AL!LogInit
  BY DEF Init
<1>2. RuntimeInv /\ [Next]_vars => [AL!LogNext]_(AL!logVars)
  BY StepsOfActionLog DEF logVars, AL!logVars
<1> QED BY <1>1, <1>2, RuntimeInvariant, PTL DEF Spec, AL!LogSpec

\* The two instances of ActionLog are the same formulas.
LEMMA SameInit == AL!LogInit => ALP!LogInit
BY DEF AL!LogInit, ALP!LogInit, AL!TickEntry, ALP!TickEntry, AL!IdleCall, ALP!IdleCall,
   AL!CallIn, ALP!CallIn

\* The same for their steps.
LEMMA SameNext == [AL!LogNext]_(AL!logVars) => [ALP!LogNext]_(ALP!logVars)
<1> USE DEF AL!TickEntry, ALP!TickEntry, AL!CallIn, ALP!CallIn, AL!Result, ALP!Result
<1>0. ASSUME NEW S PROVE AL!Cardinality(S) = ALP!Cardinality(S)
  BY Zenon DEF AL!Cardinality, ALP!Cardinality, AL!IsFiniteSet, ALP!IsFiniteSet
<1>1. AL!Entry = ALP!Entry /\ AL!IdleCall = ALP!IdleCall
  BY DEF AL!Entry, ALP!Entry, AL!IdleCall, ALP!IdleCall
<1>2. ASSUME NEW c, NEW missing PROVE AL!Looked(c, missing) = ALP!Looked(c, missing)
  BY DEF AL!Looked, ALP!Looked, AL!RowsOf, ALP!RowsOf
<1>3. ASSUME NEW c
      PROVE  /\ AL!SeqTaken(c) = ALP!SeqTaken(c) /\ AL!Inserts(c) = ALP!Inserts(c)
             /\ AL!WithRow(c) = ALP!WithRow(c)
  BY DEF AL!SeqTaken, ALP!SeqTaken, AL!Inserts, ALP!Inserts, AL!Duplicate, ALP!Duplicate,
     AL!RowsOf, ALP!RowsOf, AL!WithRow, ALP!WithRow
<1>4. ASSUME NEW p \in Calls \cup Slots
      PROVE  /\ \A e : AL!Begin(p, e) => ALP!Begin(p, e)
             /\ AL!Lookup(p) => ALP!Lookup(p)
             /\ AL!Snapshot(p) => ALP!Snapshot(p)
             /\ AL!Insert(p) => ALP!Insert(p)
             /\ AL!Relookup(p) => ALP!Relookup(p)
             /\ AL!Fail(p) => ALP!Fail(p)
             /\ AL!Return(p) => ALP!Return(p)
  <2>1. AL!Insert(p) => ALP!Insert(p)
    BY <1>3 DEF AL!Insert, ALP!Insert
  <2>2. (AL!Lookup(p) => ALP!Lookup(p)) /\ (AL!Relookup(p) => ALP!Relookup(p))
    BY <1>2 DEF AL!Lookup, ALP!Lookup, AL!Relookup, ALP!Relookup
  <2>3. (\A e : AL!Begin(p, e) => ALP!Begin(p, e)) /\ (AL!Snapshot(p) => ALP!Snapshot(p))
    <3>1. AL!MaxSeq = ALP!MaxSeq
      BY Zenon DEF AL!MaxSeq, ALP!MaxSeq, AL!MaxSeqOf, ALP!MaxSeqOf
    <3>2. \A e : AL!Begin(p, e) => ALP!Begin(p, e)
      BY <1>0 DEF AL!Begin, ALP!Begin
    <3>3. AL!Snapshot(p) => ALP!Snapshot(p)
      BY <3>1 DEF AL!Snapshot, ALP!Snapshot
    <3> QED BY <3>2, <3>3
  <2>4. (AL!Fail(p) => ALP!Fail(p)) /\ (AL!Return(p) => ALP!Return(p))
    <3>1. AL!Fail(p) => ALP!Fail(p)
      BY <1>0 DEF AL!Fail, ALP!Fail, AL!InFlight, ALP!InFlight
    <3>2. AL!Return(p) => ALP!Return(p)
      BY <1>1, Zenon DEF AL!Return, ALP!Return, AL!Finished, ALP!Finished
    <3> QED BY <3>1, <3>2
  <2> QED BY <2>1, <2>2, <2>3, <2>4
<1>5. ASSUME NEW o \in orphans PROVE AL!OrphanInsert(o) => ALP!OrphanInsert(o)
  BY <1>3 DEF AL!OrphanInsert, ALP!OrphanInsert
<1>6. AL!Abandon => ALP!Abandon
  BY <1>1, <1>0 DEF AL!Abandon, ALP!Abandon
<1>7. AL!LogNext => ALP!LogNext
  BY <1>1, <1>4, <1>5, <1>6 DEF AL!LogNext, ALP!LogNext
<1> QED BY <1>7 DEF AL!logVars, ALP!logVars

\* So the log of the runtime has every property proved of ActionLog.
THEOREM LogOfRuntime == Spec => []ALP!LogInv
<1>1. AL!LogSpec => ALP!LogSpec
  BY SameInit, SameNext, PTL DEF AL!LogSpec, ALP!LogSpec
<1>2. ALP!LogSpec => []ALP!LogInv
  BY ALP!LogInvariant, KeysAssumption, RuntimeBounds
<1> QED BY <1>1, <1>2, RuntimeUsesLog, PTL

-----------------------------------------------------------------------------
(***************************************************************************)
(* Accepted actions stay in the log                                        *)
(***************************************************************************)

\* The append a call waits for is the one it asked for.
AppendsOwnEntry ==
  \A c \in Calls : call[c].pc = "append" =>
    app[c].entry = AL!PlayerEntry(call[c].key, call[c].req)

\* A statement, and its failure, leave every call's entry alone.
LEMMA EntriesStay ==
  ASSUME ALP!LogInv, NEW p \in Calls \cup Slots,
         AL!Lookup(p) \/ AL!Snapshot(p) \/ AL!Insert(p) \/ AL!Relookup(p) \/ AL!Fail(p)
  PROVE  \A q \in Calls \cup Slots : app'[q].entry = app[q].entry
<1>1. app \in [Calls \cup Slots -> ALP!Call]
  BY DEF ALP!LogInv, ALP!LogTypeOK
<1>2. ASSUME NEW new, app' = [app EXCEPT ![p] = new], new.entry = app[p].entry
      PROVE  \A q \in Calls \cup Slots : app'[q].entry = app[q].entry
  BY <1>1, <1>2
<1>3. CASE AL!Lookup(p) \/ AL!Relookup(p)
  <2>1. PICK missing : app' = [app EXCEPT ![p] = AL!Looked(app[p], missing)]
    BY <1>3 DEF AL!Lookup, AL!Relookup
  <2>2. AL!Looked(app[p], missing).entry = app[p].entry
    BY DEF AL!Looked, AL!Result, AL!CallIn
  <2> QED BY <1>2, <2>1, <2>2
<1>4. CASE AL!Snapshot(p)
  <2> DEFINE new == AL!CallIn("insert", app[p].entry, AL!MaxSeq, 0)
  <2>1. app' = [app EXCEPT ![p] = new]
    BY <1>4 DEF AL!Snapshot
  <2>2. new.entry = app[p].entry
    BY DEF AL!CallIn
  <2> HIDE DEF new
  <2> QED BY <1>2, <2>1, <2>2
<1>5. CASE AL!Insert(p) \/ AL!Fail(p)
  <2>1. PICK phase, seq : app' = [app EXCEPT ![p] = AL!Result(app[p], phase, seq)]
    BY <1>5 DEF AL!Insert, AL!Fail
  <2>2. AL!Result(app[p], phase, seq).entry = app[p].entry
    BY DEF AL!Result, AL!CallIn
  <2> QED BY <1>2, <2>1, <2>2
<1> QED BY <1>3, <1>4, <1>5

\* What a step may do to a call: nothing that matters; move it on without
\* accepting it; begin its append; or accept it with the seq of its row.
Untouched(c) == call'[c] = call[c] /\ (call[c].pc = "append" => app'[c].entry = app[c].entry)
MovesOn(c) == call'[c].pc # "append" /\ (call'[c].pc = "done" => call'[c].reply # "accepted")
BeginsAppend(c) ==
  call'[c].pc = "append" /\ app'[c].entry = AL!PlayerEntry(call'[c].key, call'[c].req)
IsAccepted(c) ==
  /\ call[c].pc = "append" /\ app[c].phase = "ok"
  /\ call'[c].pc = "done" /\ call'[c].seq = app[c].seq
  /\ call'[c].key = call[c].key /\ call'[c].req = call[c].req

\* A call of state() moves on, whatever it does to its own append of a first tick.
LEMMA StateStepMoves ==
  ASSUME RuntimeInv, NEW c \in Calls, StateStep(c)
  PROVE  MovesOn(c) /\ \A d \in Calls \ {c} : call'[d] = call[d]
<1>0. Shapes
  BY DEF RuntimeInv
<1>1. CASE FindsState(c)
  BY <1>0, <1>1 DEF FindsState, Shapes, IsMap, CallFields, MovesOn
<1>2. CASE MissesState(c) \/ SeedFirstTick(c)
  <2>1. PICK pc \in {"load", "seed"} : call' = Goto(c, pc)
    BY <1>2 DEF MissesState, SeedFirstTick
  <2> QED BY <1>0, <2>1, GotoFacts DEF MovesOn
<1>3. CASE ListActions(c)
  BY <1>0, <1>3 DEF ListActions, Shapes, IsMap, CallFields, MovesOn
<1>4. CASE LoadFails(c)
  BY <1>0, <1>4, ReplyFacts DEF LoadFails, MovesOn
<1>5. CASE Seeded(c)
  <2>1. CASE app[c].phase = "ok"
    <3> DEFINE rows == <<[seq |-> app[c].seq, type |-> "tick", key |-> None, req |-> None]>>
    <3>1. call' = [call EXCEPT ![c].pc = "install", ![c].rows = rows]
      BY <1>5, <2>1 DEF Seeded
    <3> HIDE DEF rows
    <3> QED BY <1>0, <3>1 DEF Shapes, IsMap, CallFields, MovesOn
  <2>2. CASE app[c].phase # "ok"
    BY <1>0, <1>5, <2>2, ReplyFacts DEF Seeded, MovesOn
  <2> QED BY <2>1, <2>2
<1>6. CASE Install(c)
  <2>1. CASE call' = Reply(c, "unreadable", 0)
    BY <1>0, <2>1, ReplyFacts DEF MovesOn
  <2>2. CASE \E s \in Slots :
               call' = [call EXCEPT ![c].pc = "lock", ![c].slot = s, ![c].rows = <<>>]
    BY <1>0, <2>2 DEF Shapes, IsMap, CallFields, MovesOn
  <2> QED BY <1>6, <2>1, <2>2 DEF Install
<1> QED BY <1>1, <1>2, <1>3, <1>4, <1>5, <1>6 DEF StateStep

\* An operation replies, subscribes, begins its append or is accepted.
LEMMA OperationStepMoves ==
  ASSUME RuntimeInv, ALP!LogInv, NEW c \in Calls, OperationStep(c)
  PROVE  /\ MovesOn(c) \/ BeginsAppend(c) \/ IsAccepted(c)
         /\ \A d \in Calls \ {c} : call'[d] = call[d]
<1>0. Shapes /\ app \in [Calls \cup Slots -> ALP!Call]
  BY DEF RuntimeInv, ALP!LogInv, ALP!LogTypeOK
<1>1. CASE Connect(c) \/ SubscribeWinUpdates(c)
  <2>1. PICK what, n : call' = Reply(c, what, n) /\ what \in {"snapshot", "subscribed"}
    BY <1>1 DEF Connect, SubscribeWinUpdates
  <2> QED BY <1>0, <2>1, ReplyFacts DEF MovesOn
<1>2. CASE SubscribeDeltas(c)
  <2>1. call' = Goto(c, "subscribed")
    BY <1>2 DEF SubscribeDeltas, Goto
  <2> QED BY <1>0, <2>1, GotoFacts DEF MovesOn
<1>3. CASE ApplyBegin(c)
  <2>1. CASE call' = Reply(c, "completed", 0)
    BY <1>0, <2>1, ReplyFacts DEF MovesOn
  <2>2. CASE AL!Begin(c, ActionEntry(c)) /\ call' = Goto(c, "append")
    <3>1. /\ call'[c].pc = "append" /\ call'[c].key = call[c].key /\ call'[c].req = call[c].req
          /\ \A d \in Calls \ {c} : call'[d] = call[d]
      BY <1>0, <2>2, GotoFacts
    <3>2. app'[c].entry = ActionEntry(c)
      BY <1>0, <2>2 DEF AL!Begin, AL!CallIn
    <3> QED BY <3>1, <3>2 DEF BeginsAppend, ActionEntry
  <2> QED BY <1>3, <2>1, <2>2 DEF ApplyBegin
<1>4. CASE ApplyEnd(c)
  <2>1. CASE app[c].phase = "ok" /\ call' = Reply(c, "accepted", app[c].seq)
    BY <1>0, <1>4, <2>1, ReplyFacts DEF IsAccepted, ApplyEnd
  <2>2. CASE call' = Reply(c, app[c].phase, 0) \/ call' = Reply(c, "rejected", 0)
    <3>1. app[c].phase # "accepted"
      BY <1>4 DEF ApplyEnd, AL!Return, AL!Finished
    <3> QED BY <1>0, <2>2, <3>1, ReplyFacts DEF MovesOn
  <2> QED BY <1>4, <2>1, <2>2 DEF ApplyEnd
<1> QED BY <1>1, <1>2, <1>3, <1>4 DEF OperationStep

\* Nobody but its caller touches the entry of an append.
LEMMA OthersKeepEntries ==
  ASSUME RuntimeInv, ALP!LogInv, NEW c \in Calls, StateStep(c) \/ OperationStep(c)
  PROVE  \A d \in Calls \ {c} : app'[d] = app[d]
<1>1. app \in [Calls \cup Slots -> ALP!Call]
  BY DEF ALP!LogInv, ALP!LogTypeOK
<1>2. \/ app' = app
      \/ \E e : AL!Begin(c, e)
      \/ AL!Return(c)
  <2>1. CASE StateStep(c)
    BY <2>1 DEF StateStep, FindsState, MissesState, ListActions, SeedFirstTick, Seeded,
       LoadFails, Install, logVars
  <2>2. CASE OperationStep(c)
    BY <2>2 DEF OperationStep, Connect, SubscribeDeltas, SubscribeWinUpdates, ApplyBegin,
       ApplyEnd, logVars
  <2> QED BY <2>1, <2>2
<1>3. \A e : AL!Begin(c, e) => \A d \in Calls \ {c} : app'[d] = app[d]
  BY <1>1 DEF AL!Begin
<1>4. AL!Return(c) => \A d \in Calls \ {c} : app'[d] = app[d]
  BY <1>1 DEF AL!Return
<1> QED BY <1>2, <1>3, <1>4

\* Every step treats every call in one of the four ways.
LEMMA StepsOfCalls ==
  ASSUME RuntimeInv, ALP!LogInv, [Next]_vars, NEW c \in Calls
  PROVE  Untouched(c) \/ MovesOn(c) \/ BeginsAppend(c) \/ IsAccepted(c)
<1>0. Shapes /\ CallOK(c) /\ app \in [Calls \cup Slots -> ALP!Call]
  BY DEF RuntimeInv, ALP!LogInv, ALP!LogTypeOK
<1>1. ASSUME NEW d \in Calls, StateStep(d) \/ OperationStep(d)
      PROVE  Untouched(c) \/ MovesOn(c) \/ BeginsAppend(c) \/ IsAccepted(c)
  <2>1. CASE c = d
    BY <1>1, <2>1, StateStepMoves, OperationStepMoves
  <2>2. CASE c # d
    BY <1>1, <2>2, StateStepMoves, OperationStepMoves, OthersKeepEntries DEF Untouched
  <2> QED BY <2>1, <2>2
<1>2. ASSUME NEW d \in Calls, NEW op, NEW key, NEW req, Start(d, op, key, req)
      PROVE  Untouched(c) \/ MovesOn(c)
  <2>1. call'[d].pc = "state" /\ \A b \in Calls \ {d} : call'[b] = call[b]
    BY <1>0, <1>2 DEF Start, Shapes, IsMap, CallFields
  <2>2. app' = app
    BY <1>2 DEF Start, logVars
  <2> QED BY <2>1, <2>2 DEF Untouched, MovesOn
<1>3. ASSUME NEW d \in Calls, Unsubscribe(d) PROVE Untouched(c) \/ MovesOn(c)
  <2>1. call' = Reply(d, "closed", 0) /\ app' = app
    BY <1>3 DEF Unsubscribe, logVars
  <2> QED BY <1>0, <2>1, ReplyFacts DEF Untouched, MovesOn
<1>4. ASSUME NEW d \in Calls, Receive(d) PROVE Untouched(c)
  BY <1>4 DEF Receive, logVars, Untouched
<1>5. ASSUME NEW s \in Slots, TickBegin(s) \/ TickEnd(s) \/ HoldExpires(s) PROVE Untouched(c)
  <2>1. call' = call
    BY <1>5 DEF TickBegin, TickEnd, HoldExpires
  <2>2. app' = app \/ AL!Begin(s, AL!TickEntry) \/ AL!Return(s)
    BY <1>5 DEF TickBegin, TickEnd, HoldExpires, logVars
  <2>3. s # c
    BY SlotsAssumption
  <2>4. app'[c] = app[c]
    BY <1>0, <2>2, <2>3 DEF AL!Begin, AL!Return
  <2> QED BY <2>1, <2>4 DEF Untouched
<1>6. ASSUME NEW p \in Calls \cup Slots, Statement(p) \/ StatementFails(p) PROVE Untouched(c)
  <2>1. call' = call
    BY <1>6 DEF Statement, StatementFails
  <2>2. app'[c].entry = app[c].entry
    BY <1>6, EntriesStay DEF Statement, StatementFails
  <2> QED BY <2>1, <2>2 DEF Untouched
<1>7. ASSUME NEW o \in orphans, LateInsert(o) PROVE Untouched(c)
  BY <1>7 DEF LateInsert, AL!OrphanInsert, Untouched
<1>8. CASE Crash
  <2>1. CASE call[c].pc \in {"new", "done"}
    BY <1>8, <2>1 DEF Crash, Untouched
  <2>2. CASE call[c].pc \notin {"new", "done"}
    <3> DEFINE next == Reply(c, "lost", 0)
    <3>1. next[c].pc = "done" /\ next[c].reply = "lost"
      BY <1>0, ReplyFacts
    <3>2. call'[c] = next[c]
      BY <1>8, <2>2 DEF Crash
    <3> HIDE DEF next
    <3> QED BY <3>1, <3>2 DEF MovesOn
  <2> QED BY <2>1, <2>2
<1>9. CASE UNCHANGED vars
  BY <1>9 DEF vars, Untouched
<1> QED BY <1>1, <1>2, <1>3, <1>4, <1>5, <1>6, <1>7, <1>8, <1>9 DEF Next

\* The inductive strengthening of AcceptedIsLogged.
AcceptedInv == AppendsOwnEntry /\ AcceptedIsLogged

\* Rows stay, and a call is accepted only with the seq of its own entry's row.
LEMMA AcceptedInvNext ==
  ASSUME RuntimeInv, RuntimeInv', ALP!LogInv, AcceptedInv, [Next]_vars
  PROVE  AcceptedInv'
<1>1. [ALP!LogNext]_(ALP!logVars)
  BY StepsOfActionLog, SameNext DEF logVars, AL!logVars
<1>2. \A i \in DOMAIN log : i \in DOMAIN log' /\ log'[i] = log[i]
  BY <1>1, ALP!RowsStay, KeysAssumption, RuntimeBounds
<1>3. ASSUME NEW c \in Calls, call'[c].pc = "append"
      PROVE  app'[c].entry = AL!PlayerEntry(call'[c].key, call'[c].req)
  BY <1>3, StepsOfCalls DEF AcceptedInv, AppendsOwnEntry, Untouched, MovesOn, BeginsAppend,
     IsAccepted
<1>4. ASSUME NEW c \in Calls, call'[c].reply = "accepted"
      PROVE  /\ call'[c].seq \in DOMAIN log'
             /\ log'[call'[c].seq] = AL!PlayerEntry(call'[c].key, call'[c].req)
  <2>1. call'[c].pc = "done"
    BY <1>4 DEF RuntimeInv, CallOK
  <2>2. CASE Untouched(c)
    BY <1>2, <1>4, <2>2 DEF AcceptedInv, AcceptedIsLogged, Untouched
  <2>3. CASE IsAccepted(c)
    <3>1. app[c].seq \in DOMAIN log /\ log[app[c].seq] = app[c].entry
      BY <2>3 DEF IsAccepted, ALP!LogInv, ALP!OkIsDurable
    <3>2. app[c].entry = AL!PlayerEntry(call[c].key, call[c].req)
      BY <2>3 DEF IsAccepted, AcceptedInv, AppendsOwnEntry
    <3> QED BY <1>2, <2>3, <3>1, <3>2 DEF IsAccepted
  <2> QED BY <1>4, <2>1, <2>2, <2>3, StepsOfCalls DEF MovesOn, BeginsAppend
<1> QED BY <1>3, <1>4 DEF AcceptedInv, AppendsOwnEntry, AcceptedIsLogged

\* What a client was told is accepted is in the log under the seq it was told, as
\* it was sent, through every later failure and restart.
THEOREM AcceptedActionsAreLogged == Spec => []AcceptedIsLogged
<1>1. Init => AcceptedInv
  BY DEF Init, NewCall, AcceptedInv, AppendsOwnEntry, AcceptedIsLogged
<1>2. RuntimeInv /\ RuntimeInv' /\ ALP!LogInv /\ AcceptedInv /\ [Next]_vars => AcceptedInv'
  BY AcceptedInvNext
<1>3. AcceptedInv => AcceptedIsLogged
  BY DEF AcceptedInv
<1> QED BY <1>1, <1>2, <1>3, RuntimeInvariant, LogOfRuntime, PTL DEF Spec

-----------------------------------------------------------------------------
(***************************************************************************)
(* The rows an engine took, in order                                       *)
(***************************************************************************)

\* Every place of S is taken.
Ranked(S) ==
  /\ S \subseteq Nat /\ IsFiniteSet(S)
  /\ \A i \in 1..Cardinality(S) : Nth(S, i) \in S

LEMMA NthOfInterval ==
  ASSUME NEW n \in Nat
  PROVE  Ranked(1..n) /\ Cardinality(1..n) = n /\ \A i \in 1..n : Nth(1..n, i) = i
<1>1. \A k \in Nat : IsFiniteSet(1..k) /\ Cardinality(1..k) = k
  BY FS_Interval
<1>2. ASSUME NEW i \in 1..n PROVE Nth(1..n, i) = i
  <2>1. ASSUME NEW k \in 1..n PROVE Cardinality({m \in 1..n : m <= k}) = k
    <3>1. PICK U : U = {m \in 1..n : m <= k}
      OBVIOUS
    <3>2. U = 1..k
      BY <3>1
    <3>3. Cardinality(U) = k
      BY <1>1, <3>2
    <3> QED BY <3>1, <3>3
  <2> QED BY <2>1 DEF Nth
<1> QED BY <1>1, <1>2 DEF Ranked

\* A number beyond S comes last and leaves the other places as they are.
LEMMA NthOfMore ==
  ASSUME NEW S, Ranked(S), NEW m \in Nat, \A x \in S : x < m
  PROVE  /\ Ranked(S \cup {m}) /\ Cardinality(S \cup {m}) = Cardinality(S) + 1
         /\ Nth(S \cup {m}, Cardinality(S) + 1) = m
         /\ \A i \in 1..Cardinality(S) : Nth(S \cup {m}, i) = Nth(S, i)
<1> DEFINE T == S \cup {m}
           k == Cardinality(S)
           Upto(U, x) == Cardinality({y \in U : y <= x})
<1>1. m \notin S /\ S \subseteq Nat
  BY DEF Ranked
<1>2. k \in Nat /\ IsFiniteSet(T) /\ Cardinality(T) = k + 1
  BY <1>1, FS_AddElement, FS_CardinalityType DEF Ranked
<1>3. Upto(T, m) = k + 1
  <2>1. \A y \in T : y <= m
    BY <1>1
  <2> HIDE DEF T
  <2>2. {y \in T : y <= m} = T
    BY <2>1
  <2> QED BY <1>2, <2>2
<1>4. ASSUME NEW x \in S PROVE Upto(T, x) = Upto(S, x) /\ Upto(S, x) \in 0..k
  <2>1. {y \in T : y <= x} = {y \in S : y <= x}
    BY <1>1
  <2>2. {y \in S : y <= x} \subseteq S
    OBVIOUS
  <2>3. Upto(S, x) \in Nat /\ Upto(S, x) <= k
    BY <2>2, FS_Subset, FS_CardinalityType DEF Ranked
  <2> QED BY <1>2, <2>1, <2>3
<1> HIDE DEF k, Upto
<1>5. Nth(T, k + 1) = m
  <2>1. \A x \in T : Upto(T, x) = k + 1 <=> x = m
    BY <1>2, <1>3, <1>4
  <2>2. Nth(T, k + 1) = CHOOSE x \in T : Upto(T, x) = k + 1
    BY Zenon DEF Nth, Upto
  <2> HIDE DEF T
  <2>3. m \in T
    BY DEF T
  <2> QED BY <2>1, <2>2, <2>3
<1>6. ASSUME NEW i \in 1..k PROVE Nth(T, i) = Nth(S, i)
  <2>1. \A x : x \in T /\ Upto(T, x) = i <=> x \in S /\ Upto(S, x) = i
    BY <1>2, <1>3, <1>4
  <2>2. Nth(T, i) = CHOOSE x : x \in T /\ Upto(T, x) = i
    BY Zenon DEF Nth, Upto
  <2>3. Nth(S, i) = CHOOSE x : x \in S /\ Upto(S, x) = i
    BY Zenon DEF Nth, Upto
  <2> HIDE DEF T
  <2> QED BY <2>1, <2>2, <2>3
<1>7. Ranked(T)
  <2>1. ASSUME NEW i \in 1..(k + 1) PROVE Nth(T, i) \in T
    <3>1. CASE i = k + 1
      BY <1>5, <3>1
    <3>2. CASE i # k + 1
      <4>1. i \in 1..k
        BY <1>2, <3>2
      <4> QED BY <1>6, <4>1 DEF Ranked, k
    <3> QED BY <3>1, <3>2
  <2> QED BY <1>1, <1>2, <2>1 DEF Ranked
<1> QED BY <1>2, <1>5, <1>6, <1>7 DEF k

-----------------------------------------------------------------------------
(***************************************************************************)
(* Replay, as SimEngineLive_proofs has it                                  *)
(***************************************************************************)

LP == INSTANCE SimEngineLive_proofs
        WITH Sims <- {}, Reqs <- {}, OtherKeys <- {}, MaxEntries <- 0,
             sim <- Sim, engine <- NewEngine(Sim), err <- NoErr

\* The two instances of SimEngine are the same definitions.
LEMMA SameTick == \A e : LP!Tick(Sim, e) = Tick(Sim, e)
<1>1. \A lists, m : LP!Touching(lists, m) = Touching(lists, m)
  BY Zenon DEF LP!Touching, Touching
<1>2. \A places : LP!LastOf(places) = LastOf(places)
  BY Zenon DEF LP!LastOf, LastOf, LP!NoLater, NoLater
<1>3. \A e, m : LP!ResolveEffect(Sim, e, m) = ResolveEffect(Sim, e, m)
  <2>1. \A e : LP!Due(Sim, e) = Due(Sim, e) /\ LP!Applied(Sim, e) = Applied(Sim, e)
    BY Zenon DEF LP!Due, Due, LP!Applied, Applied
  <2> QED BY <1>1, <1>2, <2>1 DEF LP!ResolveEffect, ResolveEffect
<1>4. \A v, target, rate : LP!StepToward(v, target, rate) = StepToward(v, target, rate)
  BY Zenon DEF LP!StepToward, StepToward
<1>5. \A e : LP!Moved(Sim, e) = Moved(Sim, e)
  BY <1>3, <1>4, Zenon DEF LP!Moved, Moved
<1>6. \A metrics, checks : LP!WinSatisfied(metrics, checks) = WinSatisfied(metrics, checks)
  BY Zenon DEF LP!WinSatisfied, WinSatisfied, LP!CheckHolds, CheckHolds
<1>7. \A e, type, key, req : LP!Logged(e, type, key, req) = Logged(e, type, key, req)
  BY Zenon DEF LP!Logged, Logged
<1>8. \A e : LP!Ticked(Sim, e) = Ticked(Sim, e)
  BY <1>5, <1>6, <1>7, Zenon DEF LP!Ticked, Ticked
<1> QED BY <1>8, Zenon DEF LP!Tick, Tick, LP!Ok, Ok, LP!Err, Err, LP!NoErr, NoErr

LEMMA SameApply ==
  \A e, key, req : LP!ApplyAction(Sim, e, key, req) = ApplyAction(Sim, e, key, req)
BY Zenon DEF LP!ApplyAction, ApplyAction, LP!Logged, Logged, LP!Ok, Ok, LP!Err, Err, LP!NoErr, NoErr

LEMMA SameReplay ==
  /\ \A entries : LP!Replay(Sim, entries) = Replay(Sim, entries)
  /\ \A e : LP!Ok(e) = Ok(e)
  /\ LP!NoErr = NoErr
<1>1. (\A e : LP!Ok(e) = Ok(e)) /\ LP!NoErr = NoErr /\ \A why, e : LP!Err(why, e) = Err(why, e)
  BY DEF LP!Ok, Ok, LP!NoErr, NoErr, LP!Err, Err
<1>2. LP!NewEngine(Sim) = NewEngine(Sim)
  BY DEF LP!NewEngine, NewEngine
<1>3. \A e, entry : LP!Acceptable(e, entry) = Acceptable(e, entry)
  BY DEF LP!Acceptable, Acceptable, LP!HasShape, HasShape
<1>4. \A e, entry : LP!ReplayStep(Sim, e, entry) = ReplayStep(Sim, e, entry)
  BY <1>1, <1>3, SameTick, SameApply DEF LP!ReplayStep, ReplayStep
<1>5. \A sofar, entry : LP!Continue(Sim, sofar, entry) = Continue(Sim, sofar, entry)
  BY <1>1, <1>4 DEF LP!Continue, Continue
<1>6. \A entries : LP!Replay(Sim, entries) = Replay(Sim, entries)
  <2> SUFFICES ASSUME NEW entries PROVE LP!Replay(Sim, entries) = Replay(Sim, entries)
    OBVIOUS
  <2> DEFINE A(f) == [n \in 0..Len(entries) |->
                        IF n = 0 THEN LP!Ok(LP!NewEngine(Sim))
                        ELSE LP!Continue(Sim, f[n - 1], entries[n])]
             B(f) == [n \in 0..Len(entries) |->
                        IF n = 0 THEN Ok(NewEngine(Sim))
                        ELSE Continue(Sim, f[n - 1], entries[n])]
  <2>1. \A f : A(f) = B(f)
    BY <1>1, <1>2, <1>5
  <2>2. LP!Replay(Sim, entries) = (CHOOSE f : f = A(f))[Len(entries)]
    BY DEF LP!Replay
  <2>3. Replay(Sim, entries) = (CHOOSE f : f = B(f))[Len(entries)]
    BY DEF Replay
  <2> HIDE DEF A, B
  <2> QED BY <2>1, <2>2, <2>3
<1> QED BY <1>1, <1>6

-----------------------------------------------------------------------------
(***************************************************************************)
(* What an engine has when it takes one more row, or all rows              *)
(***************************************************************************)

\* The rows of S and one more.
LEMMA RenumberedMore ==
  ASSUME NEW S, Ranked(S), NEW n \in Nat, \A i \in S : i < n
  PROVE  LET k == Cardinality(S)
             U == {Row(i, Nth(S, i)) : i \in 1..k} \cup {Row(k + 1, n)}
         IN  /\ k \in Nat /\ Renumbered(S) \in Seq(U) /\ Len(Renumbered(S)) = k
             /\ Row(k + 1, n) \in U
             /\ Renumbered(S \cup {n}) = Append(Renumbered(S), Row(k + 1, n))
<1> DEFINE k == Cardinality(S)
           new == Row(k + 1, n)
           U == {Row(i, Nth(S, i)) : i \in 1..k} \cup {new}
           rows == Renumbered(S)
           more == Renumbered(S \cup {n})
<1>1. /\ Cardinality(S \cup {n}) = k + 1 /\ Nth(S \cup {n}, k + 1) = n
      /\ \A i \in 1..k : Nth(S \cup {n}, i) = Nth(S, i)
  BY NthOfMore
<1>2. k \in Nat
  BY FS_CardinalityType DEF Ranked
<1>3. rows = [i \in 1..k |-> Row(i, Nth(S, i))]
  BY DEF Renumbered
<1>4. more = [i \in 1..(k + 1) |-> Row(i, Nth(S \cup {n}, i))]
  BY <1>1 DEF Renumbered
<1>5. (\A i \in 1..k : more[i] = rows[i]) /\ more[k + 1] = new
  <2> HIDE DEF k, rows, more
  <2>1. k + 1 \in 1..(k + 1) /\ \A i \in 1..k : i \in 1..(k + 1)
    BY <1>2
  <2>2. more[k + 1] = Row(k + 1, Nth(S \cup {n}, k + 1))
    BY <1>4, <2>1
  <2>3. \A i \in 1..k : more[i] = Row(i, Nth(S, i)) /\ rows[i] = Row(i, Nth(S, i))
    BY <1>1, <1>3, <1>4, <2>1
  <2> QED BY <1>1, <2>2, <2>3
<1>6. rows \in [1..k -> U]
  BY <1>3
<1> HIDE DEF k, new, rows, more, U
<1>7. rows \in Seq(U) /\ Len(rows) = k
  BY <1>2, <1>6
<1>8. new \in U
  BY DEF U
<1>9. more = Append(rows, new)
  <2>1. /\ Append(rows, new) \in Seq(U) /\ Len(Append(rows, new)) = k + 1
        /\ \A i \in 1..k : Append(rows, new)[i] = rows[i]
        /\ Append(rows, new)[k + 1] = new
    BY <1>7, <1>8, AppendProperties
  <2>2. \A i \in 1..(k + 1) : more[i] \in U /\ more[i] = Append(rows, new)[i]
    <3>1. \A i \in 1..(k + 1) : i \in 1..k \/ i = k + 1
      BY <1>2
    <3> QED BY <1>5, <1>6, <1>8, <2>1, <3>1
  <2>3. more \in [1..(k + 1) -> U]
    BY <1>4, <2>2
  <2>4. more \in Seq(U) /\ Len(more) = k + 1
    BY <1>2, <2>3
  <2> QED BY <2>1, <2>2, <2>4, SeqEqual
<1> QED BY <1>2, <1>7, <1>8, <1>9 DEF k, new, rows, more, U

\* An engine that takes a row beyond those it took is still their replay.
LEMMA RowTaken ==
  ASSUME NEW S, Ranked(S), NEW n \in Nat, \A i \in S : i < n,
         NEW e, Replay(Sim, Renumbered(S)) = Ok(e)
  PROVE  /\ log[n] = AL!TickEntry => Replay(Sim, Renumbered(S \cup {n})) = Tick(Sim, e)
         /\ \A key, req : log[n] = AL!PlayerEntry(key, req) /\ key # None /\ req # None
              => Replay(Sim, Renumbered(S \cup {n})) = ApplyAction(Sim, e, key, req)
<1> DEFINE k == Cardinality(S)
           U == {Row(i, Nth(S, i)) : i \in 1..k} \cup {Row(k + 1, n)}
           rows == Renumbered(S)
           new == Row(k + 1, n)
<1>1. /\ rows \in Seq(U) /\ Len(rows) = k /\ new \in U
      /\ Renumbered(S \cup {n}) = Append(rows, new)
  BY RenumberedMore
<1>2. LP!Replay(Sim, rows) = LP!Ok(e)
  BY SameReplay
<1>3. /\ new.seq = k + 1 /\ new.type = log[n].type /\ new.key = log[n].key
      /\ new.req = log[n].req
      /\ new = [seq |-> new.seq, type |-> new.type, key |-> new.key, req |-> new.req]
  BY DEF Row
<1> HIDE DEF U, rows, new
<1>4. ASSUME log[n] = AL!TickEntry
      PROVE  Replay(Sim, Append(rows, new)) = Tick(Sim, e)
  <2>1. new = LP!Written(Len(rows), "tick", None, None)
    BY <1>1, <1>3, <1>4 DEF AL!TickEntry, LP!Written
  <2>2. LP!Replay(Sim, Append(rows, new)) = LP!Tick(Sim, e)
    BY <1>1, <1>2, <2>1, LP!ReplayTicks
  <2> QED BY <2>2, SameReplay, SameTick
<1>5. ASSUME NEW key, NEW req, log[n] = AL!PlayerEntry(key, req), key # None, req # None
      PROVE  Replay(Sim, Append(rows, new)) = ApplyAction(Sim, e, key, req)
  <2>1. new = LP!Written(Len(rows), "player", key, req)
    BY <1>1, <1>3, <1>5 DEF AL!PlayerEntry, LP!Written
  <2>2. LP!Replay(Sim, Append(rows, new)) = LP!ApplyAction(Sim, e, key, req)
    BY <1>1, <1>2, <1>5, <2>1, LP!ReplayApplies
  <2> QED BY <2>2, SameReplay, SameApply
<1> QED BY <1>1, <1>4, <1>5 DEF rows, new

\* Rows read from the log, each under its own seq.
ReadRows(rows) ==
  \E n \in Nat \ {0} :
    /\ rows = [i \in 1..n |-> rows[i]]
    /\ \A i \in 1..n : rows[i].seq \in DOMAIN log /\ rows[i] = Row(rows[i].seq, rows[i].seq)

\* If Replay takes them they are the first n rows, and the engine is their replay.
LEMMA RowsLoaded ==
  ASSUME NEW rows, ReadRows(rows), Replay(Sim, rows).err = NoErr,
         NEW S, S = {rows[i].seq : i \in DOMAIN rows}
  PROVE  /\ Ranked(S) /\ S \subseteq DOMAIN log
         /\ Last(rows).seq \in S /\ \A i \in S : i <= Last(rows).seq
         /\ rows = Renumbered(S)
         /\ Replay(Sim, rows) = Ok(Replay(Sim, rows).engine)
<1>1. PICK n \in Nat \ {0} :
        /\ rows = [i \in 1..n |-> rows[i]]
        /\ \A i \in 1..n : rows[i].seq \in DOMAIN log /\ rows[i] = Row(rows[i].seq, rows[i].seq)
  BY DEF ReadRows
<1> DEFINE U == {rows[i] : i \in 1..n}
<1>2. rows \in Seq(U) /\ Len(rows) = n /\ DOMAIN rows = 1..n
  <2>1. rows \in [1..n -> U]
    BY <1>1
  <2> HIDE DEF U
  <2> QED BY <1>1, <2>1
<1> HIDE DEF U
<1>3. /\ \A i \in 1..n : rows[i].seq = i
      /\ Replay(Sim, rows) = Ok(Replay(Sim, rows).engine)
  <2>1. LP!Replay(Sim, rows).err = LP!NoErr
    BY SameReplay
  <2>2. /\ LP!Replay(Sim, rows) = LP!Ok(LP!Replay(Sim, rows).engine)
        /\ \A i \in 1..Len(rows) : rows[i].seq = i
    BY <1>2, <2>1, LP!ReplayedLog
  <2> QED BY <1>2, <2>2, SameReplay
<1>4. S = 1..n /\ S \subseteq DOMAIN log
  BY <1>1, <1>2, <1>3
<1>5. Last(rows).seq = n
  BY <1>2, <1>3 DEF Last
<1>6. /\ Ranked(S) /\ Cardinality(S) = n /\ \A i \in 1..n : Nth(S, i) = i
  BY <1>4, NthOfInterval
<1>7. rows = Renumbered(S)
  <2>1. \A i \in 1..n : rows[i] = Row(i, Nth(S, i))
    BY <1>1, <1>3, <1>6
  <2>2. Renumbered(S) = [i \in 1..n |-> Row(i, Nth(S, i))]
    BY <1>6 DEF Renumbered
  <2> QED BY <1>1, <2>1, <2>2
<1> QED BY <1>3, <1>4, <1>5, <1>6, <1>7

-----------------------------------------------------------------------------
(***************************************************************************)
(* What a step may do to the engine of a runState                          *)
(***************************************************************************)

SameEngine(st, new) ==
  /\ new.loaded = st.loaded /\ new.engine = st.engine /\ new.lastSeq = st.lastSeq
  /\ new.applied = st.applied /\ new.terminal = st.terminal

\* Nothing: the mutex may be taken for a tick; load it; let it take the row of an
\* action or of a tick; or lose it with the process.
StartsTick(s) == TickBegin(s) /\ AL!Begin(s, AL!TickEntry)
EngineStays(s) ==
  /\ SameEngine(states[s], states'[s])
  /\ states'[s].mu = TickLoop => states[s].mu = TickLoop \/ StartsTick(s)
EngineLoads(s) ==
  \E c \in Calls :
    /\ ~states[s].loaded /\ log' = log
    /\ call[c].pc = "install" /\ Replay(Sim, call[c].rows).err = NoErr
    /\ states'[s] = Loaded(Replay(Sim, call[c].rows).engine, call[c].rows)
TakesResult(s, result, seq) ==
  /\ result.err = NoErr
  /\ states'[s].engine = result.engine /\ states'[s].lastSeq = seq
  /\ states'[s].applied = states[s].applied \cup {seq} /\ states'[s].mu = Free
EngineActs(s) ==
  \E c \in Calls :
    /\ call[c].pc = "append" /\ call[c].slot = s /\ app[c].phase = "ok" /\ log' = log
    /\ ~Passed(states[s], app[c].seq)
    /\ TakesResult(s, ApplyAction(Sim, states[s].engine, call[c].key, call[c].req), app[c].seq)
    /\ states'[s].terminal = states[s].terminal
EngineTicks(s) ==
  /\ states[s].mu = TickLoop /\ app[s].phase = "ok" /\ log' = log
  /\ TakesResult(s, Tick(Sim, states[s].engine), app[s].seq)
  /\ states'[s].terminal <=> Over(states'[s].engine)
EngineLost(s) == ~states'[s].loaded

EngineSteps(s) ==
  EngineStays(s) \/ EngineLoads(s) \/ EngineActs(s) \/ EngineTicks(s) \/ EngineLost(s)

\* A step that changes one runState leaves the others as they are.
LEMMA OneSlotMoves ==
  ASSUME RuntimeInv, NEW t \in Slots, NEW new, states' = [states EXCEPT ![t] = new]
  PROVE  /\ states'[t] = new
         /\ \A s \in Slots \ {t} : states'[s] = states[s] /\ EngineStays(s)
<1>1. IsMap(states, Slots)
  BY DEF RuntimeInv, Shapes
<1>2. states'[t] = new /\ \A s \in Slots \ {t} : states'[s] = states[s]
  BY <1>1 DEF IsMap
<1> QED BY <1>2 DEF EngineStays, SameEngine

\* So if it leaves the engine and the tick loop of that one alone.
LEMMA OneSlotStays ==
  ASSUME RuntimeInv, NEW t \in Slots, NEW new, states' = [states EXCEPT ![t] = new],
         SameEngine(states[t], new), new.mu = TickLoop => states[t].mu = TickLoop
  PROVE  /\ \A s \in Slots : EngineStays(s)
         /\ new.mu = states[t].mu => \A s \in Slots : states'[s].mu = states[s].mu
<1>1. EngineStays(t)
  BY OneSlotMoves DEF EngineStays
<1> QED BY <1>1, OneSlotMoves

\* Starting the clock and accepting an action, as far as the engine goes.
LEMMA EnsureTickLoopSame ==
  ASSUME NEW st, IsMap(st, StateFields)
  PROVE  SameEngine(st, EnsureTickLoop(st)) /\ EnsureTickLoop(st).mu = st.mu
<1>1. CASE st.tickStarted \/ st.terminal
  BY <1>1 DEF EnsureTickLoop, SameEngine
<1>2. CASE ~st.tickStarted /\ ~st.terminal
  <2>1. EnsureTickLoop(st) = [st EXCEPT !.tickStarted = TRUE, !.loops = @ + 1]
    BY <1>2 DEF EnsureTickLoop
  <2>2. PICK new : new = EnsureTickLoop(st)
    OBVIOUS
  <2>3. /\ new.loaded = st.loaded /\ new.engine = st.engine /\ new.lastSeq = st.lastSeq
        /\ new.applied = st.applied /\ new.terminal = st.terminal /\ new.mu = st.mu
    BY <2>1, <2>2 DEF IsMap, StateFields
  <2> QED BY <2>2, <2>3 DEF SameEngine
<1> QED BY <1>1, <1>2

LEMMA AcceptedSame ==
  ASSUME NEW st, IsMap(st, StateFields)
  PROVE  SameEngine(st, Accepted(st)) /\ Accepted(st).mu = Free
<1> DEFINE mid == [st EXCEPT !.held = TRUE, !.mu = Free]
<1>1. IsMap(mid, StateFields) /\ SameEngine(st, mid) /\ mid.mu = Free
  BY DEF IsMap, StateFields, SameEngine
<1>2. Accepted(st) = EnsureTickLoop(mid)
  BY DEF Accepted
<1> HIDE DEF mid
<1>3. SameEngine(mid, EnsureTickLoop(mid)) /\ EnsureTickLoop(mid).mu = Free
  BY <1>1, EnsureTickLoopSame
<1> QED BY <1>1, <1>2, <1>3 DEF SameEngine

\* The operations of calls other than actions.
LEMMA OperationsStay ==
  ASSUME RuntimeInv, NEW c \in Calls,
         Connect(c) \/ SubscribeDeltas(c) \/ SubscribeWinUpdates(c) \/ Unsubscribe(c)
  PROVE  \A s \in Slots : EngineStays(s) /\ states'[s].mu = states[s].mu
<1> DEFINE t == call[c].slot
<1>1. call[c].pc \in HasState /\ states[t].mu = Free
  BY DEF Connect, SubscribeDeltas, SubscribeWinUpdates, Unsubscribe, Locks, HasState
<1>2. t \in Slots /\ IsMap(states[t], StateFields) /\ Free # TickLoop
  BY <1>1, HolderFacts DEF Free, TickLoop
<1> HIDE DEF t
<1>3. CASE Connect(c)
  <2>1. states' = [states EXCEPT ![t] = EnsureTickLoop(states[t])]
    BY <1>3 DEF Connect, t
  <2> QED BY <1>1, <1>2, <2>1, EnsureTickLoopSame, OneSlotStays
<1>4. CASE SubscribeDeltas(c)
  <2> DEFINE with == [states[t] EXCEPT !.subs = @ \cup {c}]
  <2>1. states' = [states EXCEPT ![t] = EnsureTickLoop(with)]
    BY <1>4 DEF SubscribeDeltas, t
  <2>2. IsMap(with, StateFields) /\ SameEngine(states[t], with) /\ with.mu = Free
    BY <1>1, <1>2 DEF IsMap, StateFields, SameEngine
  <2> HIDE DEF with
  <2>3. SameEngine(with, EnsureTickLoop(with)) /\ EnsureTickLoop(with).mu = Free
    BY <2>2, EnsureTickLoopSame
  <2>4. SameEngine(states[t], EnsureTickLoop(with))
    BY <2>2, <2>3 DEF SameEngine
  <2> QED BY <1>1, <1>2, <2>1, <2>3, <2>4, OneSlotStays
<1>5. CASE SubscribeWinUpdates(c)
  <2> DEFINE new == [states[t] EXCEPT !.winSubs = @ \cup {c}]
  <2>1. states' = [states EXCEPT ![t] = new]
    BY <1>2, <1>5 DEF SubscribeWinUpdates, t
  <2>2. SameEngine(states[t], new) /\ new.mu = Free
    BY <1>1, <1>2 DEF IsMap, StateFields, SameEngine
  <2> HIDE DEF new
  <2> QED BY <1>1, <1>2, <2>1, <2>2, OneSlotStays
<1>6. CASE Unsubscribe(c)
  <2> DEFINE new == [states[t] EXCEPT !.subs = @ \ {c}]
  <2>1. states' = [states EXCEPT ![t] = new]
    BY <1>2, <1>6 DEF Unsubscribe, t
  <2>2. SameEngine(states[t], new) /\ new.mu = Free
    BY <1>1, <1>2 DEF IsMap, StateFields, SameEngine
  <2> HIDE DEF new
  <2> QED BY <1>1, <1>2, <2>1, <2>2, OneSlotStays
<1> QED BY <1>3, <1>4, <1>5, <1>6

\* An action takes the mutex, or is refused.
LEMMA ApplyBeginStays ==
  ASSUME RuntimeInv, NEW c \in Calls, ApplyBegin(c)
  PROVE  \A s \in Slots : EngineStays(s)
<1> DEFINE t == call[c].slot
           new == [states[t] EXCEPT !.mu = c]
<1>1. call[c].pc \in HasState
  BY DEF ApplyBegin, Locks, HasState
<1>2. t \in Slots /\ IsMap(states[t], StateFields) /\ c # TickLoop
  BY <1>1, HolderFacts, MutexAssumption
<1>3. states' = states \/ states' = [states EXCEPT ![t] = new]
  BY <1>2 DEF ApplyBegin
<1>4. SameEngine(states[t], new) /\ new.mu = c
  BY <1>2 DEF IsMap, StateFields, SameEngine
<1> HIDE DEF new, t
<1>5. CASE states' = states
  BY <1>5 DEF EngineStays, SameEngine
<1> QED BY <1>2, <1>3, <1>4, <1>5, OneSlotStays

\* The end of an action: the engine took its row, or nothing changed.
LEMMA ApplyEndActs ==
  ASSUME RuntimeInv, NEW c \in Calls, ApplyEnd(c)
  PROVE  \A s \in Slots : EngineStays(s) \/ EngineActs(s)
<1> DEFINE t == call[c].slot
           st == states[t]
           seq == app[c].seq
           result == ApplyAction(Sim, st.engine, call[c].key, call[c].req)
<1>1. call[c].pc = "append" /\ call[c].pc \in HasState /\ log' = log
  BY DEF ApplyEnd, HasState, AL!Return
<1>2. t \in Slots /\ IsMap(st, StateFields) /\ Free # TickLoop
  BY <1>1, HolderFacts DEF Free, TickLoop
<1>3. \/ states' = [states EXCEPT ![t] = [st EXCEPT !.mu = Free]]
      \/ states' = [states EXCEPT ![t] = Accepted(st)]
      \/ /\ app[c].phase = "ok" /\ ~Passed(st, seq) /\ result.err = NoErr
         /\ states' = [states EXCEPT ![t] = Accepted(WithAction(st, result.engine, seq))]
  BY DEF ApplyEnd
<1>4. PICK e : e = result.engine
  OBVIOUS
<1> HIDE DEF result
<1>5. CASE states' = [states EXCEPT ![t] = [st EXCEPT !.mu = Free]]
  <2> DEFINE new == [st EXCEPT !.mu = Free]
  <2>1. SameEngine(st, new) /\ new.mu = Free
    BY <1>2 DEF IsMap, StateFields, SameEngine
  <2>2. states' = [states EXCEPT ![t] = new]
    BY <1>5
  <2> HIDE DEF new
  <2>3. PICK u : u = t
    OBVIOUS
  <2> HIDE DEF t
  <2> QED BY <1>2, <2>1, <2>2, <2>3, OneSlotStays
<1>6. CASE states' = [states EXCEPT ![t] = Accepted(st)]
  <2>1. SameEngine(st, Accepted(st)) /\ Accepted(st).mu = Free
    BY <1>2, AcceptedSame
  <2> HIDE DEF t
  <2> QED BY <1>2, <1>6, <2>1, OneSlotStays
<1>7. CASE /\ app[c].phase = "ok" /\ ~Passed(st, seq) /\ result.err = NoErr
           /\ states' = [states EXCEPT ![t] = Accepted(WithAction(st, result.engine, seq))]
  <2> DEFINE mid == WithAction(st, e, seq)
             new == Accepted(mid)
  <2>1. /\ IsMap(mid, StateFields) /\ mid.engine = e /\ mid.lastSeq = seq
        /\ mid.applied = st.applied \cup {seq} /\ mid.terminal = st.terminal
    BY <1>2 DEF IsMap, StateFields, WithAction
  <2>2. states' = [states EXCEPT ![t] = new]
    BY <1>4, <1>7
  <2> HIDE DEF mid
  <2>3. SameEngine(mid, new) /\ new.mu = Free
    BY <2>1, AcceptedSame
  <2> HIDE DEF new
  <2>4. /\ new.engine = e /\ new.lastSeq = seq /\ new.applied = st.applied \cup {seq}
        /\ new.terminal = st.terminal
    BY <2>1, <2>3 DEF SameEngine
  <2>5. states'[t] = new /\ \A s \in Slots \ {t} : EngineStays(s)
    BY <1>2, <2>2, OneSlotMoves
  <2>6. EngineActs(t)
    BY <1>1, <1>4, <1>7, <2>3, <2>4, <2>5 DEF EngineActs, TakesResult, result
  <2> QED BY <2>5, <2>6
<1> QED BY <1>3, <1>5, <1>6, <1>7

\* A load fills a slot of its own.
LEMMA InstallLoads ==
  ASSUME RuntimeInv, NEW c \in Calls, Install(c)
  PROVE  \A s \in Slots : EngineStays(s) \/ EngineLoads(s)
<1> DEFINE new == Loaded(Replay(Sim, call[c].rows).engine, call[c].rows)
<1>1. call[c].pc = "install" /\ log' = log
  BY DEF Install, logVars
<1>2. CASE states' = states
  BY <1>2 DEF EngineStays, SameEngine
<1>3. CASE Replay(Sim, call[c].rows).err = NoErr
  <2>1. PICK t \in Slots : ~states[t].loaded /\ states' = [states EXCEPT ![t] = new]
    BY <1>3 DEF Install
  <2> HIDE DEF new
  <2>2. states'[t] = new /\ \A s \in Slots \ {t} : EngineStays(s)
    BY <2>1, OneSlotMoves
  <2>3. EngineLoads(t)
    BY <1>1, <1>3, <2>1, <2>2 DEF EngineLoads, new
  <2> QED BY <2>2, <2>3
<1> QED BY <1>2, <1>3 DEF Install

\* The clock fires, or its hold-off runs out.
LEMMA TickBeginStays ==
  ASSUME RuntimeInv, NEW t \in Slots, TickBegin(t) \/ HoldExpires(t)
  PROVE  \A s \in Slots : EngineStays(s)
<1>1. IsMap(states[t], StateFields) /\ IsMap(states, Slots) /\ Free # TickLoop
  BY DEF RuntimeInv, Shapes, Free, TickLoop
<1>2. CASE HoldExpires(t)
  <2> DEFINE new == [states[t] EXCEPT !.held = FALSE]
  <2>1. states' = [states EXCEPT ![t] = new]
    BY <1>1, <1>2 DEF HoldExpires, IsMap
  <2>2. SameEngine(states[t], new) /\ new.mu = states[t].mu
    BY <1>1 DEF IsMap, StateFields, SameEngine
  <2> HIDE DEF new
  <2> QED BY <2>1, <2>2, OneSlotStays
<1>3. CASE TickBegin(t) /\ states[t].terminal
  <2> DEFINE n == states[t].loops - 1
             new == [states[t] EXCEPT !.loops = n, !.tickStarted = FALSE]
  <2>1. states' = [states EXCEPT ![t] = new]
    BY <1>1, <1>3 DEF TickBegin, IsMap
  <2> HIDE DEF n
  <2>2. SameEngine(states[t], new) /\ new.mu = states[t].mu
    BY <1>1 DEF IsMap, StateFields, SameEngine
  <2> HIDE DEF new
  <2> QED BY <2>1, <2>2, OneSlotStays
<1>4. CASE TickBegin(t) /\ ~states[t].terminal
  <2> DEFINE n == states[t].loops - 1
             new == [states[t] EXCEPT !.loops = n, !.mu = TickLoop]
  <2>1. states' = [states EXCEPT ![t] = new] /\ StartsTick(t)
    BY <1>1, <1>4 DEF TickBegin, IsMap, StartsTick
  <2> HIDE DEF n
  <2>2. SameEngine(states[t], new)
    BY <1>1 DEF IsMap, StateFields, SameEngine
  <2> HIDE DEF new
  <2>3. states'[t] = new /\ \A s \in Slots \ {t} : EngineStays(s)
    BY <2>1, OneSlotMoves
  <2>4. EngineStays(t)
    BY <2>1, <2>2, <2>3 DEF EngineStays
  <2> QED BY <2>3, <2>4
<1> QED BY <1>2, <1>3, <1>4

\* The end of a tick: the engine took its row, or the loop ends.
LEMMA TickEndTicks ==
  ASSUME RuntimeInv, NEW t \in Slots, TickEnd(t)
  PROVE  \A s \in Slots : EngineStays(s) \/ EngineTicks(s)
<1> DEFINE st == states[t]
           seq == app[t].seq
           result == Tick(Sim, st.engine)
           e == result.engine
           ticked == [st EXCEPT !.engine = e, !.lastSeq = seq,
                                !.applied = @ \cup {seq}, !.mu = Free]
           failed == [st EXCEPT !.tickStarted = FALSE, !.mu = Free]
           ended == [ticked EXCEPT !.terminal = TRUE, !.tickStarted = FALSE,
                                   !.sentWin = TRUE, !.told = Told(st)]
           goes == [ticked EXCEPT !.loops = @ + 1]
<1>1. /\ st.mu = TickLoop /\ log' = log /\ IsMap(st, StateFields) /\ Free # TickLoop
  BY DEF TickEnd, AL!Return, RuntimeInv, Shapes, Free, TickLoop
<1>2. \/ states' = [states EXCEPT ![t] = failed]
      \/ /\ app[t].phase = "ok" /\ result.err = NoErr
         /\ \/ Over(e) /\ states' = [states EXCEPT ![t] = ended]
            \/ ~Over(e) /\ states' = [states EXCEPT ![t] = goes]
  BY <1>1 DEF TickEnd, RuntimeInv, Shapes, IsMap
<1> HIDE DEF e, seq
<1>3. /\ IsMap(ticked, StateFields) /\ ticked.engine = e /\ ticked.lastSeq = seq
      /\ ticked.applied = st.applied \cup {seq} /\ ticked.mu = Free /\ ~ticked.terminal
  <2>1. ~st.terminal
    BY <1>1 DEF RuntimeInv, SlotOK
  <2> HIDE DEF st
  <2> QED BY <1>1, <2>1 DEF IsMap, StateFields
<1>4. SameEngine(st, failed) /\ failed.mu = Free
  BY <1>1 DEF IsMap, StateFields, SameEngine
<1> HIDE DEF ticked
<1>5. ASSUME NEW new, states' = [states EXCEPT ![t] = new],
             app[t].phase = "ok", result.err = NoErr,
             new.engine = e, new.lastSeq = seq, new.applied = st.applied \cup {seq},
             new.mu = Free, new.terminal <=> Over(e)
      PROVE  \A s \in Slots : EngineStays(s) \/ EngineTicks(s)
  <2>1. states'[t] = new /\ \A s \in Slots \ {t} : EngineStays(s)
    BY <1>5, OneSlotMoves
  <2>2. EngineTicks(t)
    BY <1>1, <1>5, <2>1 DEF EngineTicks, TakesResult, e, seq
  <2> QED BY <2>1, <2>2
<1>6. CASE states' = [states EXCEPT ![t] = failed]
  <2> HIDE DEF failed, st
  <2>1. SameEngine(states[t], failed)
    BY <1>4 DEF st
  <2> QED BY <1>1, <1>4, <1>6, <2>1, OneSlotStays
<1> HIDE DEF failed, st, result
<1>7. ended.terminal /\ ended.engine = e /\ ended.lastSeq = seq
      /\ ended.applied = st.applied \cup {seq} /\ ended.mu = Free
  BY <1>3 DEF IsMap, StateFields
<1>8. goes.engine = e /\ goes.lastSeq = seq /\ goes.applied = st.applied \cup {seq}
      /\ goes.mu = Free /\ ~goes.terminal
  <2> DEFINE n == ticked.loops + 1
  <2>1. goes = [ticked EXCEPT !.loops = n]
    OBVIOUS
  <2> HIDE DEF n, goes
  <2> QED BY <1>3, <2>1 DEF IsMap, StateFields
<1> HIDE DEF ended, goes
<1> QED BY <1>2, <1>5, <1>6, <1>7, <1>8

\* Every step treats every engine in one of the five ways.
LEMMA StepsOfEngines ==
  ASSUME RuntimeInv, [Next]_vars, NEW s \in Slots
  PROVE  EngineSteps(s)
<1>1. CASE UNCHANGED states
  BY <1>1 DEF EngineSteps, EngineStays, SameEngine
<1>2. ASSUME NEW c \in Calls, StateStep(c) PROVE EngineSteps(s)
  BY <1>1, <1>2, InstallLoads DEF StateStep, FindsState, MissesState, ListActions,
     SeedFirstTick, Seeded, LoadFails, EngineSteps
<1>3. ASSUME NEW c \in Calls, OperationStep(c) \/ Unsubscribe(c) PROVE EngineSteps(s)
  BY <1>3, OperationsStay, ApplyBeginStays, ApplyEndActs DEF OperationStep, EngineSteps
<1>4. ASSUME NEW t \in Slots, TickBegin(t) \/ TickEnd(t) \/ HoldExpires(t)
      PROVE  EngineSteps(s)
  BY <1>4, TickBeginStays, TickEndTicks DEF EngineSteps
<1>5. CASE Crash
  <2>1. states'[s] = EmptyState
    BY <1>5 DEF Crash
  <2> QED BY <2>1, EmptyStateFacts DEF EngineSteps, EngineLost
<1>6. CASE /\ ~Crash
           /\ ~\E c \in Calls : StateStep(c) \/ OperationStep(c) \/ Unsubscribe(c)
           /\ ~\E t \in Slots : TickBegin(t) \/ TickEnd(t) \/ HoldExpires(t)
  BY <1>1, <1>6 DEF Next, Start, Receive, Statement, StatementFails, LateInsert, vars
<1> QED BY <1>2, <1>3, <1>4, <1>5, <1>6

-----------------------------------------------------------------------------
(***************************************************************************)
(* What a step may do to an append                                         *)
(***************************************************************************)

BeginsFor(p) ==
  \/ p \in Calls /\ SeedFirstTick(p)
  \/ p \in Calls /\ ApplyBegin(p) /\ AL!Begin(p, ActionEntry(p))
  \/ p \in Slots /\ StartsTick(p)

AppSteps(p) ==
  \/ app'[p] = app[p]
  \/ app'[p] = AL!IdleCall
  \/ BeginsFor(p)
  \/ Statement(p) \/ StatementFails(p)

\* Every step treats every append in one of these ways.
LEMMA StepsOfApps ==
  ASSUME RuntimeInv, ALP!LogInv, [Next]_vars, NEW p \in Calls \cup Slots
  PROVE  AppSteps(p)
<1>0. app \in [Calls \cup Slots -> ALP!Call] /\ Calls \cap Slots = {}
  BY SlotsAssumption DEF ALP!LogInv, ALP!LogTypeOK
<1>1. CASE app' = app
  BY <1>1 DEF AppSteps
<1>2. ASSUME NEW q \in Calls \cup Slots, AL!Return(q) PROVE AppSteps(p)
  BY <1>0, <1>2 DEF AL!Return, AppSteps
<1>3. ASSUME NEW q \in Calls \cup Slots, NEW e, AL!Begin(q, e), q # p PROVE AppSteps(p)
  BY <1>0, <1>3 DEF AL!Begin, AppSteps
<1>4. ASSUME NEW q \in Calls \cup Slots, Statement(q) \/ StatementFails(q) PROVE AppSteps(p)
  <2>1. PICK new : app' = [app EXCEPT ![q] = new]
    BY <1>4 DEF Statement, StatementFails, AL!Lookup, AL!Snapshot, AL!Insert, AL!Relookup, AL!Fail
  <2> QED BY <1>0, <1>4, <2>1 DEF AppSteps
<1>5. ASSUME NEW c \in Calls, StateStep(c) PROVE AppSteps(p)
  <2>1. CASE SeedFirstTick(c)
    <3>1. AL!Begin(c, AL!TickEntry)
      BY <2>1 DEF SeedFirstTick
    <3> QED BY <1>3, <2>1, <3>1 DEF AppSteps, BeginsFor
  <2>2. CASE Seeded(c)
    BY <1>2, <2>2 DEF Seeded
  <2> QED BY <1>1, <1>5, <2>1, <2>2 DEF StateStep, FindsState, MissesState, ListActions,
             LoadFails, Install, logVars
<1>6. ASSUME NEW c \in Calls, OperationStep(c) PROVE AppSteps(p)
  <2>1. CASE ApplyBegin(c)
    <3>1. app' = app \/ AL!Begin(c, ActionEntry(c))
      BY <2>1 DEF ApplyBegin, logVars
    <3> QED BY <1>1, <1>3, <2>1, <3>1 DEF AppSteps, BeginsFor
  <2>2. CASE ApplyEnd(c)
    BY <1>2, <2>2 DEF ApplyEnd
  <2> QED BY <1>1, <1>6, <2>1, <2>2 DEF OperationStep, Connect, SubscribeDeltas,
             SubscribeWinUpdates, logVars
<1>7. ASSUME NEW s \in Slots, TickBegin(s) \/ TickEnd(s) \/ HoldExpires(s) PROVE AppSteps(p)
  <2>1. CASE TickBegin(s)
    <3>1. app' = app \/ AL!Begin(s, AL!TickEntry)
      BY <2>1 DEF TickBegin, logVars
    <3> QED BY <1>1, <1>3, <2>1, <3>1 DEF AppSteps, BeginsFor, StartsTick
  <2>2. CASE TickEnd(s)
    BY <1>2, <2>2 DEF TickEnd
  <2> QED BY <1>1, <1>7, <2>1, <2>2 DEF HoldExpires, logVars
<1>8. CASE Crash
  BY <1>8 DEF Crash, AL!Abandon, AppSteps
<1>9. CASE \/ \E c \in Calls : \/ \E op, key, req : Start(c, op, key, req)
                               \/ Unsubscribe(c) \/ Receive(c)
           \/ \E o \in orphans : LateInsert(o)
           \/ UNCHANGED vars
  BY <1>1, <1>9 DEF Start, Unsubscribe, Receive, LateInsert, AL!OrphanInsert, logVars, vars
<1> QED BY <1>4, <1>5, <1>6, <1>7, <1>8, <1>9 DEF Next

-----------------------------------------------------------------------------
(***************************************************************************)
(* A loaded engine is the replay of the rows it took                       *)
(***************************************************************************)

\* A load gives the empty log a tick, and replays rows of the log; only an action
\* waits for its append.
PhaseOK(c) ==
  /\ call[c].pc = "seed" => app[c].entry = AL!TickEntry
  /\ call[c].pc = "install" => ReadRows(call[c].rows)
  /\ call[c].pc = "append" => call[c].op = "apply"

\* The rows an engine took are in the log, up to lastSeq.
EngineOK(st) ==
  st.loaded =>
    /\ Ranked(st.applied) /\ st.applied \subseteq DOMAIN log
    /\ st.lastSeq \in DOMAIN log /\ \A i \in st.applied : i <= st.lastSeq
    /\ Replay(Sim, Renumbered(st.applied)) = Ok(st.engine)

\* A tick is appended beyond lastSeq, which stays where it is meanwhile.
TickOK(s) ==
  states[s].mu = TickLoop =>
    /\ app[s].entry = AL!TickEntry
    /\ app[s].phase = "insert" => app[s].max >= states[s].lastSeq
    /\ app[s].phase = "ok" => app[s].seq > states[s].lastSeq

AppliedInv ==
  /\ \A c \in Calls : PhaseOK(c)
  /\ \A s \in Slots : EngineOK(states[s]) /\ TickOK(s)

\* MAX(seq) in terms of the log's invariant.
LEMMA SeqFacts ==
  ASSUME ALP!LogInv
  PROVE  /\ AL!MaxSeq \in Nat /\ DOMAIN log = 1..AL!MaxSeq
         /\ app \in [Calls \cup Slots -> ALP!Call]
         /\ \A p \in Calls \cup Slots : app[p].max \in Nat /\ app[p].seq \in Nat
<1>1. AL!MaxSeq = ALP!MaxSeq
  BY Zenon DEF AL!MaxSeq, ALP!MaxSeq, AL!MaxSeqOf, ALP!MaxSeqOf
<1>2. app \in [Calls \cup Slots -> ALP!Call]
  BY DEF ALP!LogInv, ALP!LogTypeOK
<1>3. \A p \in Calls \cup Slots : app[p].max \in Nat /\ app[p].seq \in Nat
  BY <1>2 DEF ALP!Call
<1> QED BY <1>1, <1>2, <1>3 DEF ALP!LogInv, ALP!NoGaps

\* The rows that are there stay as they are.
LEMMA RowsOfRunStay ==
  ASSUME RuntimeInv, ALP!LogInv, [Next]_vars
  PROVE  /\ \A i \in DOMAIN log : i \in DOMAIN log' /\ log'[i] = log[i]
         /\ \A i \in DOMAIN log : \A k : Row(k, i)' = Row(k, i)
<1>1. [ALP!LogNext]_(ALP!logVars)
  BY StepsOfActionLog, SameNext DEF logVars, AL!logVars
<1>2. \A i \in DOMAIN log : i \in DOMAIN log' /\ log'[i] = log[i]
  BY <1>1, ALP!RowsStay, KeysAssumption, RuntimeBounds
<1> QED BY <1>2 DEF Row

\* So an engine in order stays in order while it is left alone.
LEMMA EngineOKStays ==
  ASSUME RuntimeInv, ALP!LogInv, [Next]_vars, NEW s \in Slots, EngineOK(states[s]),
         SameEngine(states[s], states'[s])
  PROVE  EngineOK(states[s])'
<1> SUFFICES ASSUME states'[s].loaded PROVE EngineOK(states[s])'
  BY DEF EngineOK
<1> DEFINE S == states[s].applied
<1>1. /\ states'[s].applied = S /\ states'[s].engine = states[s].engine
      /\ states'[s].lastSeq = states[s].lastSeq
  BY DEF SameEngine
<1>2. /\ Ranked(S) /\ S \subseteq DOMAIN log
      /\ states[s].lastSeq \in DOMAIN log /\ \A i \in S : i <= states[s].lastSeq
      /\ Replay(Sim, Renumbered(S)) = Ok(states[s].engine)
  BY DEF EngineOK, SameEngine
<1>3. S \subseteq DOMAIN log' /\ states[s].lastSeq \in DOMAIN log'
  BY <1>2, RowsOfRunStay
<1>4. Renumbered(states[s].applied)' = Renumbered(S)
  <2>1. PICK U : U = S
    OBVIOUS
  <2>2. \A i \in 1..Cardinality(U) : Nth(U, i) \in DOMAIN log
    BY <1>2, <2>1 DEF Ranked
  <2>3. \A i \in 1..Cardinality(U) : Row(i, Nth(U, i))' = Row(i, Nth(U, i))
    BY <2>2, RowsOfRunStay
  <2>4. Renumbered(U)' = Renumbered(U)
    BY <2>3 DEF Renumbered
  <2> QED BY <1>1, <2>1, <2>4
<1> QED BY <1>1, <1>2, <1>3, <1>4 DEF EngineOK

\* A load puts the rows it read into the engine.
LEMMA EngineOKLoads ==
  ASSUME AppliedInv, NEW s \in Slots, EngineLoads(s)
  PROVE  EngineOK(states[s])'
<1>1. PICK c \in Calls :
        /\ call[c].pc = "install" /\ Replay(Sim, call[c].rows).err = NoErr /\ log' = log
        /\ states'[s] = Loaded(Replay(Sim, call[c].rows).engine, call[c].rows)
  BY DEF EngineLoads
<1>2. PICK rows, e : rows = call[c].rows /\ e = Replay(Sim, rows).engine
  OBVIOUS
<1>3. ReadRows(rows) /\ Replay(Sim, rows).err = NoErr
  BY <1>1, <1>2 DEF AppliedInv, PhaseOK
<1>0. PICK S : S = {rows[i].seq : i \in DOMAIN rows}
  OBVIOUS
<1> DEFINE new == Loaded(e, rows)
           over == Over(e)
           last == Last(rows).seq
<1>4. /\ Ranked(S) /\ S \subseteq DOMAIN log /\ last \in S /\ \A i \in S : i <= last
      /\ rows = Renumbered(S) /\ Replay(Sim, rows) = Ok(e)
  BY <1>0, <1>2, <1>3, RowsLoaded
<1>5. new = [EmptyState EXCEPT !.loaded = TRUE, !.engine = e, !.lastSeq = last,
                               !.terminal = over, !.applied = S]
  BY <1>0 DEF Loaded
<1> HIDE DEF over, last
<1>6. new.applied = S /\ new.engine = e /\ new.lastSeq = last
  <2> HIDE DEF new
  <2> QED BY <1>5, EmptyStateFacts DEF IsMap, StateFields
<1> HIDE DEF new
<1>7. states'[s] = new
  BY <1>1, <1>2 DEF new
<1>8. Renumbered(S)' = Renumbered(S)
  BY <1>1 DEF Renumbered, Row
<1>9. Renumbered(states[s].applied)' = Renumbered(S)
  BY <1>6, <1>7, <1>8
<1> QED BY <1>1, <1>4, <1>6, <1>7, <1>9 DEF EngineOK

\* An engine that takes a row beyond lastSeq stays the replay of what it took.
LEMMA EngineOKTakes ==
  ASSUME ALP!LogInv, NEW s \in Slots, EngineOK(states[s]), states[s].loaded, log' = log,
         NEW result, NEW seq \in DOMAIN log, TakesResult(s, result, seq),
         seq > states[s].lastSeq,
         \/ log[seq] = AL!TickEntry /\ result = Tick(Sim, states[s].engine)
         \/ \E key, req : /\ log[seq] = AL!PlayerEntry(key, req) /\ key # None /\ req # None
                          /\ result = ApplyAction(Sim, states[s].engine, key, req)
  PROVE  EngineOK(states[s])'
<1>1. PICK S, e, last : S = states[s].applied /\ e = states[s].engine /\ last = states[s].lastSeq
  OBVIOUS
<1>2. /\ Ranked(S) /\ S \subseteq DOMAIN log /\ last \in DOMAIN log /\ \A i \in S : i <= last
      /\ Replay(Sim, Renumbered(S)) = Ok(e)
  BY <1>1 DEF EngineOK
<1>3. DOMAIN log \subseteq Nat
  BY SeqFacts
<1>4. seq \in Nat /\ \A i \in S : i < seq
  <2>1. last \in Nat /\ seq \in Nat /\ seq > last /\ \A i \in S : i \in Nat /\ i <= last
    BY <1>1, <1>2, <1>3
  <2> QED BY <2>1
<1>5. Replay(Sim, Renumbered(S \cup {seq})) = result
  BY <1>1, <1>2, <1>4, RowTaken
<1>6. Ranked(S \cup {seq})
  BY <1>2, <1>4, NthOfMore
<1>7. result.err = NoErr /\ result = Ok(result.engine)
  <2>1. result.err = NoErr
    BY DEF TakesResult
  <2>2. result = Tick(Sim, e) => result = Ok(result.engine)
    BY <2>1 DEF Tick, Ok, Err, NoErr
  <2>3. ASSUME NEW key, NEW req, result = ApplyAction(Sim, e, key, req)
        PROVE  result = Ok(result.engine)
    <3>1. CASE ~e.won /\ key \in DOMAIN Sim.actions
      BY <2>3, <3>1 DEF ApplyAction, Ok
    <3>2. CASE e.won
      BY <2>1, <2>3, <3>2 DEF ApplyAction, Err, NoErr
    <3>3. CASE ~e.won /\ key \notin DOMAIN Sim.actions
      BY <2>1, <2>3, <3>3 DEF ApplyAction, Err, NoErr
    <3> QED BY <3>1, <3>2, <3>3
  <2> QED BY <1>1, <2>1, <2>2, <2>3
<1>8. PICK T : T = S \cup {seq}
  OBVIOUS
<1>9. Renumbered(T)' = Renumbered(T)
  BY DEF Renumbered, Row
<1>10. /\ states'[s].applied = T /\ states'[s].engine = result.engine
       /\ states'[s].lastSeq = seq
  BY <1>1, <1>8 DEF TakesResult
<1>11. Renumbered(states[s].applied)' = Renumbered(T)
  BY <1>9, <1>10
<1>12. T \subseteq DOMAIN log /\ \A i \in T : i <= seq
  <2>1. seq <= seq /\ \A i \in S : i <= seq
    BY <1>2, <1>3, <1>4
  <2> QED BY <1>2, <1>8, <2>1
<1> QED BY <1>5, <1>6, <1>7, <1>8, <1>10, <1>11, <1>12 DEF EngineOK

\* So every step leaves every engine in order.
LEMMA EngineOKNext ==
  ASSUME RuntimeInv, RuntimeInv', ALP!LogInv, AcceptedInv, AppliedInv, [Next]_vars, NEW s \in Slots
  PROVE  EngineOK(states[s])'
<1>0. EngineOK(states[s]) /\ TickOK(s)
  BY DEF AppliedInv
<1>1. CASE EngineStays(s)
  BY <1>0, <1>1, EngineOKStays DEF EngineStays
<1>2. CASE EngineLoads(s)
  BY <1>2, EngineOKLoads
<1>3. CASE EngineActs(s)
  <2>1. PICK c \in Calls :
          /\ call[c].pc = "append" /\ call[c].slot = s /\ app[c].phase = "ok" /\ log' = log
          /\ ~Passed(states[s], app[c].seq)
          /\ TakesResult(s, ApplyAction(Sim, states[s].engine, call[c].key, call[c].req),
                         app[c].seq)
    BY <1>3 DEF EngineActs
  <2>2. /\ states[s].loaded /\ CallOK(c) /\ states[s].mu = c
    BY <2>1 DEF RuntimeInv, CallOK, HasState
  <2>3. /\ app[c].seq \in DOMAIN log /\ log[app[c].seq] = AL!PlayerEntry(call[c].key, call[c].req)
    BY <2>1 DEF ALP!LogInv, ALP!OkIsDurable, AcceptedInv, AppendsOwnEntry
  <2>4. call[c].key # None /\ call[c].req # None
    <3>1. call[c].op = "apply"
      BY <2>1 DEF AppliedInv, PhaseOK
    <3> QED BY <2>2, <3>1, KeysAssumption DEF CallOK
  <2>5. app[c].seq > states[s].lastSeq
    <3>1. app[c].seq \in Nat /\ states[s].lastSeq \in Nat
      BY <1>0, <2>2, SeqFacts DEF EngineOK
    <3> QED BY <2>1, <3>1 DEF Passed
  <2> QED BY <1>0, <2>1, <2>2, <2>3, <2>4, <2>5, EngineOKTakes
<1>4. CASE EngineTicks(s)
  <2>1. /\ states[s].mu = TickLoop /\ app[s].phase = "ok" /\ log' = log
        /\ TakesResult(s, Tick(Sim, states[s].engine), app[s].seq)
    BY <1>4 DEF EngineTicks
  <2>2. states[s].loaded
    <3>1. SlotOK(states[s])
      BY DEF RuntimeInv
    <3> QED BY <2>1, <3>1 DEF SlotOK, Free, TickLoop
  <2>3. app[s].seq \in DOMAIN log /\ log[app[s].seq] = AL!TickEntry
    BY <1>0, <2>1 DEF ALP!LogInv, ALP!OkIsDurable, TickOK
  <2>4. app[s].seq > states[s].lastSeq
    BY <1>0, <2>1 DEF TickOK
  <2> QED BY <1>0, <2>1, <2>2, <2>3, <2>4, EngineOKTakes
<1>5. CASE EngineLost(s)
  BY <1>5 DEF EngineLost, EngineOK
<1> QED BY <1>1, <1>2, <1>3, <1>4, <1>5, StepsOfEngines DEF EngineSteps

\* The listing of the log, which has no gap.
LEMMA ListedFacts ==
  ASSUME ALP!LogInv
  PROVE  /\ Listed = [i \in 1..AL!MaxSeq |-> Row(i, i)]
         /\ Listed = Renumbered(DOMAIN log)
         /\ Ranked(DOMAIN log) /\ Cardinality(DOMAIN log) = AL!MaxSeq
<1>1. PICK n, D : n = AL!MaxSeq /\ D = DOMAIN log
  OBVIOUS
<1>2. n \in Nat /\ D = 1..n
  BY <1>1, SeqFacts
<1>3. Ranked(D) /\ Cardinality(D) = n /\ \A i \in 1..n : Nth(D, i) = i
  BY <1>2, NthOfInterval
<1>4. Listed = [i \in 1..n |-> Row(i, i)]
  <2>1. Listed = [i \in 1..Cardinality(D) |-> Row(Nth(D, i), Nth(D, i))]
    BY <1>1 DEF Listed
  <2> QED BY <1>3, <2>1
<1>5. Renumbered(D) = [i \in 1..n |-> Row(i, i)]
  BY <1>3 DEF Renumbered
<1> QED BY <1>1, <1>3, <1>4, <1>5

\* What a step may do to a call that loads or appends.
TakesListing(c) ==
  /\ call[c].pc = "load" /\ DOMAIN log # {} /\ log' = log
  /\ call'[c].pc = "install" /\ call'[c].rows = Listed
TakesSeed(c) ==
  /\ call[c].pc = "seed" /\ app[c].phase = "ok" /\ log' = log
  /\ call'[c].pc = "install"
  /\ call'[c].rows = <<[seq |-> app[c].seq, type |-> "tick", key |-> None, req |-> None]>>
Seeds(c) == call'[c].pc = "seed" /\ SeedFirstTick(c)
Appends(c) ==
  /\ call'[c].pc = "append" /\ call'[c].op = "apply" /\ call'[c].slot = call[c].slot
  /\ ApplyBegin(c) /\ AL!Begin(c, ActionEntry(c))
LoadSteps(c) ==
  \/ call'[c] = call[c]
  \/ call'[c].pc \notin {"seed", "install", "append"}
  \/ TakesListing(c) \/ TakesSeed(c) \/ Seeds(c) \/ Appends(c)

\* The steps of state().
LEMMA LoadsOfState ==
  ASSUME RuntimeInv, NEW c \in Calls, StateStep(c)
  PROVE  LoadSteps(c)
<1>0. Shapes
  BY DEF RuntimeInv
<1>1. CASE FindsState(c)
  <2>1. call'[c].pc = "lock"
    BY <1>0, <1>1 DEF FindsState, Shapes, IsMap, CallFields
  <2> QED BY <2>1 DEF LoadSteps
<1>2. CASE MissesState(c)
  <2>1. call'[c].pc = "load"
    BY <1>0, <1>2, GotoFacts DEF MissesState
  <2> QED BY <2>1 DEF LoadSteps
<1>3. CASE ListActions(c)
  <2> DEFINE rows == Listed
  <2>1. call' = [call EXCEPT ![c].pc = "install", ![c].rows = rows]
    BY <1>3 DEF ListActions
  <2> HIDE DEF rows
  <2>2. call'[c].pc = "install" /\ call'[c].rows = rows
    BY <1>0, <2>1 DEF Shapes, IsMap, CallFields
  <2> QED BY <1>3, <2>2 DEF ListActions, logVars, LoadSteps, TakesListing, rows
<1>4. CASE SeedFirstTick(c)
  <2>1. call'[c].pc = "seed"
    BY <1>0, <1>4, GotoFacts DEF SeedFirstTick
  <2> QED BY <1>4, <2>1 DEF LoadSteps, Seeds
<1>5. CASE Seeded(c)
  <2>1. CASE app[c].phase = "ok"
    <3> DEFINE rows == <<[seq |-> app[c].seq, type |-> "tick", key |-> None, req |-> None]>>
    <3>1. call' = [call EXCEPT ![c].pc = "install", ![c].rows = rows] /\ log' = log
      BY <1>5, <2>1 DEF Seeded, AL!Return
    <3> HIDE DEF rows
    <3>2. call'[c].pc = "install" /\ call'[c].rows = rows
      BY <1>0, <3>1 DEF Shapes, IsMap, CallFields
    <3> QED BY <1>5, <2>1, <3>1, <3>2 DEF Seeded, LoadSteps, TakesSeed, rows
  <2>2. CASE app[c].phase # "ok"
    <3>1. call'[c].pc = "done"
      BY <1>0, <1>5, <2>2, ReplyFacts DEF Seeded
    <3> QED BY <3>1 DEF LoadSteps
  <2> QED BY <2>1, <2>2
<1>6. CASE LoadFails(c)
  <2>1. call'[c].pc = "done"
    BY <1>0, <1>6, ReplyFacts DEF LoadFails
  <2> QED BY <2>1 DEF LoadSteps
<1>7. CASE Install(c)
  <2>1. CASE call' = Reply(c, "unreadable", 0)
    <3>1. call'[c].pc = "done"
      BY <1>0, <2>1, ReplyFacts
    <3> QED BY <3>1 DEF LoadSteps
  <2>2. CASE \E s \in Slots :
               call' = [call EXCEPT ![c].pc = "lock", ![c].slot = s, ![c].rows = <<>>]
    <3>1. call'[c].pc = "lock"
      BY <1>0, <2>2 DEF Shapes, IsMap, CallFields
    <3> QED BY <3>1 DEF LoadSteps
  <2> QED BY <1>7, <2>1, <2>2 DEF Install
<1> QED BY <1>1, <1>2, <1>3, <1>4, <1>5, <1>6, <1>7 DEF StateStep

\* The operations.
LEMMA LoadsOfOperation ==
  ASSUME RuntimeInv, NEW c \in Calls, OperationStep(c) \/ Unsubscribe(c)
  PROVE  LoadSteps(c)
<1>0. Shapes
  BY DEF RuntimeInv
<1>1. CASE \E what, n : call' = Reply(c, what, n)
  <2>1. call'[c].pc = "done"
    BY <1>0, <1>1, ReplyFacts
  <2> QED BY <2>1 DEF LoadSteps
<1>2. CASE SubscribeDeltas(c)
  <2>1. call' = Goto(c, "subscribed")
    BY <1>2 DEF SubscribeDeltas, Goto
  <2>2. call'[c].pc = "subscribed"
    BY <1>0, <2>1, GotoFacts
  <2> QED BY <2>2 DEF LoadSteps
<1>3. CASE ApplyBegin(c) /\ AL!Begin(c, ActionEntry(c)) /\ call' = Goto(c, "append")
  <2>1. call'[c].pc = "append" /\ call'[c].op = call[c].op /\ call'[c].slot = call[c].slot
    BY <1>0, <1>3, GotoFacts
  <2>2. call[c].op = "apply"
    BY <1>3 DEF ApplyBegin, Locks
  <2> QED BY <1>3, <2>1, <2>2 DEF LoadSteps, Appends
<1>4. CASE ApplyBegin(c)
  BY <1>1, <1>3, <1>4 DEF ApplyBegin
<1>5. CASE Connect(c) \/ SubscribeWinUpdates(c) \/ ApplyEnd(c) \/ Unsubscribe(c)
  <2>1. \E what, n : call' = Reply(c, what, n)
    BY <1>5 DEF Connect, SubscribeWinUpdates, ApplyEnd, Unsubscribe
  <2> QED BY <1>1, <2>1
<1> QED BY <1>2, <1>4, <1>5 DEF OperationStep

\* Every step treats every call that loads or appends in one of these ways.
LEMMA StepsOfLoads ==
  ASSUME RuntimeInv, ALP!LogInv, [Next]_vars, NEW c \in Calls
  PROVE  LoadSteps(c)
<1>0. Shapes
  BY DEF RuntimeInv
<1>1. ASSUME NEW d \in Calls, StateStep(d) \/ OperationStep(d) PROVE LoadSteps(c)
  <2>1. CASE c = d
    BY <1>1, <2>1, LoadsOfState, LoadsOfOperation
  <2>2. CASE c # d
    BY <1>1, <2>2, StateStepMoves, OperationStepMoves DEF LoadSteps
  <2> QED BY <2>1, <2>2
<1>2. ASSUME NEW d \in Calls, Unsubscribe(d) PROVE LoadSteps(c)
  <2>1. CASE c = d
    BY <1>2, <2>1, LoadsOfOperation
  <2>2. CASE c # d
    <3>1. call' = Reply(d, "closed", 0)
      BY <1>2 DEF Unsubscribe
    <3> QED BY <1>0, <2>2, <3>1, ReplyFacts DEF LoadSteps
  <2> QED BY <2>1, <2>2
<1>3. ASSUME NEW d \in Calls, NEW op, NEW key, NEW req, Start(d, op, key, req)
      PROVE  LoadSteps(c)
  <2>1. call'[d].pc = "state" /\ \A b \in Calls \ {d} : call'[b] = call[b]
    BY <1>0, <1>3 DEF Start, Shapes, IsMap, CallFields
  <2> QED BY <2>1 DEF LoadSteps
<1>4. CASE Crash
  <2>1. CASE call[c].pc \in {"new", "done"}
    BY <1>4, <2>1 DEF Crash, LoadSteps
  <2>2. CASE call[c].pc \notin {"new", "done"}
    <3> DEFINE next == Reply(c, "lost", 0)
    <3>1. next[c].pc = "done"
      BY <1>0, ReplyFacts
    <3>2. call'[c] = next[c]
      BY <1>4, <2>2 DEF Crash
    <3> HIDE DEF next
    <3> QED BY <3>1, <3>2 DEF LoadSteps
  <2> QED BY <2>1, <2>2
<1>5. CASE call' = call
  BY <1>5 DEF LoadSteps
<1> QED BY <1>1, <1>2, <1>3, <1>4, <1>5 DEF Next, Receive, TickBegin, TickEnd, HoldExpires,
     Statement, StatementFails, LateInsert, vars

\* Rows that were read stay in the log as they were read.
LEMMA ReadRowsStay ==
  ASSUME RuntimeInv, ALP!LogInv, [Next]_vars, NEW c \in Calls,
         NEW rows, rows = call'[c].rows, ReadRows(rows)
  PROVE  ReadRows(call[c].rows)'
<1>1. PICK n \in Nat \ {0} :
        /\ rows = [i \in 1..n |-> rows[i]]
        /\ \A i \in 1..n : rows[i].seq \in DOMAIN log /\ rows[i] = Row(rows[i].seq, rows[i].seq)
  BY DEF ReadRows
<1>2. \A i \in 1..n :
        /\ rows[i].seq \in DOMAIN log'
        /\ rows[i] = Row(rows[i].seq, rows[i].seq)'
  <2> TAKE i \in 1..n
  <2>1. PICK m : m = rows[i].seq
    OBVIOUS
  <2>2. m \in DOMAIN log' /\ Row(m, m)' = Row(m, m) /\ rows[i] = Row(m, m)
    BY <1>1, <2>1, RowsOfRunStay
  <2>3. Row(rows[i].seq, rows[i].seq)' = Row(m, m)'
    BY <2>1 DEF Row
  <2> QED BY <2>1, <2>2, <2>3
<1> QED BY <1>1, <1>2 DEF ReadRows

\* A statement leaves the entry of its append, and the start of one sets it.
LEMMA EntryOfStep ==
  ASSUME RuntimeInv, ALP!LogInv, [Next]_vars, NEW p \in Calls \cup Slots,
         app[p].entry = AL!TickEntry,
         p \in Calls => ~ApplyBegin(p)
  PROVE  app'[p].entry = AL!TickEntry
<1>0. app \in [Calls \cup Slots -> ALP!Call]
  BY SeqFacts
<1>1. CASE app'[p] = AL!IdleCall
  BY <1>1 DEF AL!IdleCall, AL!CallIn
<1>2. CASE AL!Begin(p, AL!TickEntry)
  BY <1>0, <1>2 DEF AL!Begin, AL!CallIn
<1>3. CASE Statement(p) \/ StatementFails(p)
  BY <1>3, EntriesStay DEF Statement, StatementFails
<1> QED BY <1>1, <1>2, <1>3, StepsOfApps DEF AppSteps, BeginsFor, SeedFirstTick, StartsTick

\* So the calls stay in order.
LEMMA PhaseOKNext ==
  ASSUME RuntimeInv, ALP!LogInv, AppliedInv, [Next]_vars, NEW c \in Calls
  PROVE  PhaseOK(c)'
<1>0. PhaseOK(c) /\ app \in [Calls \cup Slots -> ALP!Call]
  BY SeqFacts DEF AppliedInv
<1>1. CASE call'[c] = call[c]
  <2>1. call'[c].pc = "seed" => app'[c].entry = AL!TickEntry
    BY <1>0, <1>1, EntryOfStep DEF PhaseOK, ApplyBegin, Locks
  <2>2. call'[c].pc = "install" => ReadRows(call[c].rows)'
    BY <1>0, <1>1, ReadRowsStay DEF PhaseOK
  <2> QED BY <1>0, <1>1, <2>1, <2>2 DEF PhaseOK
<1>2. CASE call'[c].pc \notin {"seed", "install", "append"}
  BY <1>2 DEF PhaseOK
<1>3. CASE TakesListing(c)
  <2>1. PICK n : n = AL!MaxSeq
    OBVIOUS
  <2>2. n \in Nat \ {0} /\ DOMAIN log = 1..n /\ Listed = [i \in 1..n |-> Row(i, i)]
    <3>1. n \in Nat /\ DOMAIN log = 1..n
      BY <2>1, SeqFacts
    <3>2. n # 0
      BY <1>3, <3>1 DEF TakesListing
    <3> QED BY <2>1, <3>1, <3>2, ListedFacts
  <2>3. PICK rows : rows = Listed
    OBVIOUS
  <2>4. \A i \in 1..n : rows[i].seq = i /\ rows[i] = Row(i, i)
    BY <2>2, <2>3 DEF Row
  <2>5. ReadRows(rows)
    BY <2>2, <2>3, <2>4 DEF ReadRows
  <2>6. rows = call'[c].rows /\ call'[c].pc = "install"
    BY <1>3, <2>3 DEF TakesListing
  <2> QED BY <2>5, <2>6, ReadRowsStay DEF PhaseOK
<1>4. CASE TakesSeed(c)
  <2>1. PICK n : n = app[c].seq
    OBVIOUS
  <2>2. n \in DOMAIN log /\ log[n] = AL!TickEntry
    BY <1>0, <1>4, <2>1 DEF TakesSeed, PhaseOK, ALP!LogInv, ALP!OkIsDurable
  <2>3. PICK rows : rows = <<Row(n, n)>>
    OBVIOUS
  <2>4. rows = call'[c].rows /\ call'[c].pc = "install"
    BY <1>4, <2>1, <2>2, <2>3 DEF TakesSeed, Row, AL!TickEntry
  <2>5. ReadRows(rows)
    <3>1. rows = [i \in 1..1 |-> rows[i]] /\ \A i \in 1..1 : rows[i] = Row(n, n)
      BY <2>3
    <3>2. \A i \in 1..1 : rows[i].seq = n
      BY <3>1 DEF Row
    <3> QED BY <2>2, <3>1, <3>2 DEF ReadRows
  <2> QED BY <2>4, <2>5, ReadRowsStay DEF PhaseOK
<1>5. CASE Seeds(c)
  <2>1. app'[c].entry = AL!TickEntry
    BY <1>0, <1>5 DEF Seeds, SeedFirstTick, AL!Begin, AL!CallIn
  <2> QED BY <1>5, <2>1 DEF Seeds, PhaseOK
<1>6. CASE Appends(c)
  BY <1>6 DEF Appends, PhaseOK
<1> QED BY <1>1, <1>2, <1>3, <1>4, <1>5, <1>6, StepsOfLoads DEF LoadSteps

\* The statements of a tick: its seq is computed from a snapshot no older than lastSeq.
LEMMA TickStatements ==
  ASSUME RuntimeInv, ALP!LogInv, NEW s \in Slots, Statement(s) \/ StatementFails(s),
         states[s].mu = TickLoop, EngineOK(states[s]), TickOK(s)
  PROVE  /\ app'[s].phase = "insert" => app'[s].max >= states[s].lastSeq
         /\ app'[s].phase = "ok" => app'[s].seq > states[s].lastSeq
<1>1. PICK last : last = states[s].lastSeq
  OBVIOUS
<1>2. /\ app \in [Calls \cup Slots -> ALP!Call] /\ app[s].max \in Nat /\ AL!MaxSeq \in Nat
      /\ last \in Nat /\ last <= AL!MaxSeq
  <2>1. states[s].loaded
    BY DEF RuntimeInv, SlotOK, Free, TickLoop
  <2>2. last \in DOMAIN log
    BY <1>1, <2>1 DEF EngineOK
  <2> QED BY <2>2, SeqFacts
<1>3. app[s].phase \notin {"lookup", "relookup"}
  BY DEF TickOK, AL!TickEntry, ALP!LogInv, ALP!LookupsCarryRequest
<1>4. CASE AL!Snapshot(s)
  <2>1. app'[s] = AL!CallIn("insert", app[s].entry, AL!MaxSeq, 0)
    BY <1>2, <1>4 DEF AL!Snapshot
  <2>2. app'[s].phase = "insert" /\ app'[s].max = AL!MaxSeq
    BY <2>1 DEF AL!CallIn
  <2> QED BY <1>1, <1>2, <2>2
<1>5. CASE AL!Insert(s)
  <2>1. \/ app'[s] = AL!Result(app[s], "ok", app[s].max + 1)
        \/ app'[s] = AL!Result(app[s], "error", 0)
        \/ app'[s] = AL!Result(app[s], "relookup", 0)
    BY <1>2, <1>5 DEF AL!Insert
  <2>2. \/ app'[s].phase = "ok" /\ app'[s].seq = app[s].max + 1
        \/ app'[s].phase = "error"
        \/ app'[s].phase = "relookup"
    BY <2>1 DEF AL!Result, AL!CallIn
  <2>3. app[s].max >= last
    BY <1>1, <1>5 DEF TickOK, AL!Insert
  <2>4. app[s].max + 1 > last
    BY <1>2, <2>3
  <2> QED BY <1>1, <2>2, <2>4
<1>6. CASE AL!Fail(s)
  <2>1. app'[s] = AL!Result(app[s], "error", 0)
    BY <1>2, <1>6 DEF AL!Fail
  <2> QED BY <2>1 DEF AL!Result, AL!CallIn
<1> QED BY <1>3, <1>4, <1>5, <1>6 DEF Statement, StatementFails, AL!Lookup, AL!Relookup

\* So a tick is always appended beyond lastSeq.
LEMMA TickOKNext ==
  ASSUME RuntimeInv, RuntimeInv', ALP!LogInv, AppliedInv, [Next]_vars, NEW s \in Slots
  PROVE  TickOK(s)'
<1> SUFFICES ASSUME states'[s].mu = TickLoop PROVE TickOK(s)'
  BY DEF TickOK
<1>0. /\ EngineOK(states[s]) /\ TickOK(s) /\ Free # TickLoop /\ s \notin Calls
      /\ app \in [Calls \cup Slots -> ALP!Call]
  BY SeqFacts, SlotsAssumption DEF AppliedInv, Free, TickLoop
<1>1. CASE EngineLoads(s)
  <2>1. PICK e, rows : states'[s] = Loaded(e, rows)
    BY <1>1 DEF EngineLoads
  <2>2. EmptyState.mu = Free /\ IsMap(EmptyState, StateFields)
    BY EmptyStateFacts DEF EmptyState
  <2>3. Loaded(e, rows).mu = Free
    BY <2>2 DEF Loaded, IsMap, StateFields
  <2> QED BY <1>0, <2>1, <2>3
<1>2. CASE EngineActs(s) \/ EngineTicks(s)
  BY <1>0, <1>2 DEF EngineActs, EngineTicks, TakesResult
<1>3. CASE EngineLost(s)
  BY <1>0, <1>3 DEF EngineLost, RuntimeInv, SlotOK
<1>4. CASE StartsTick(s)
  <2>1. app'[s] = AL!CallIn("snapshot", AL!TickEntry, 0, 0)
    BY <1>0, <1>4 DEF StartsTick, AL!Begin, AL!TickEntry
  <2>2. app'[s].entry = AL!TickEntry /\ app'[s].phase = "snapshot"
    BY <2>1 DEF AL!CallIn
  <2> QED BY <2>2 DEF TickOK
<1>5. CASE EngineStays(s) /\ ~StartsTick(s)
  <2>1. states[s].mu = TickLoop /\ states'[s].lastSeq = states[s].lastSeq
    BY <1>5 DEF EngineStays, SameEngine
  <2>2. app'[s].entry = AL!TickEntry
    BY <1>0, <2>1, EntryOfStep DEF TickOK
  <2>3. CASE app'[s] = app[s]
    BY <1>0, <2>1, <2>2, <2>3 DEF TickOK
  <2>4. CASE app'[s] = AL!IdleCall
    BY <2>2, <2>4 DEF TickOK, AL!IdleCall, AL!CallIn
  <2>5. CASE Statement(s) \/ StatementFails(s)
    BY <1>0, <2>1, <2>2, <2>5, TickStatements DEF TickOK
  <2> QED BY <1>0, <1>5, <2>3, <2>4, <2>5, StepsOfApps DEF AppSteps, BeginsFor
<1> QED BY <1>1, <1>2, <1>3, <1>4, <1>5, StepsOfEngines DEF EngineSteps

-----------------------------------------------------------------------------
\* No call loads and no engine is loaded at first.
LEMMA AppliedInvInit == Init => AppliedInv
<1> SUFFICES ASSUME Init PROVE AppliedInv
  OBVIOUS
<1>1. \A c \in Calls : call[c].pc = "new"
  BY DEF Init, NewCall
<1>2. \A s \in Slots : ~states[s].loaded /\ states[s].mu # TickLoop
  BY EmptyStateFacts DEF Init, EmptyState, Free, TickLoop
<1> QED BY <1>1, <1>2 DEF AppliedInv, PhaseOK, EngineOK, TickOK

LEMMA AppliedInvNext ==
  ASSUME RuntimeInv, RuntimeInv', ALP!LogInv, AcceptedInv, AppliedInv, [Next]_vars
  PROVE  AppliedInv'
BY PhaseOKNext, EngineOKNext, TickOKNext DEF AppliedInv

\* The parts of the invariant that talk about the log's rows.
THEOREM AppliedInvariant == Spec => [](AcceptedInv /\ AppliedInv)
<1>1. Init => AcceptedInv /\ AppliedInv
  BY AppliedInvInit
     DEF Init, NewCall, AcceptedInv, AppendsOwnEntry, AcceptedIsLogged
<1>2. /\ RuntimeInv /\ RuntimeInv' /\ ALP!LogInv
      /\ AcceptedInv /\ AppliedInv /\ [Next]_vars
      => (AcceptedInv /\ AppliedInv)'
  BY AcceptedInvNext, AppliedInvNext
<1> QED BY <1>1, <1>2, RuntimeInvariant, LogOfRuntime, PTL DEF Spec

\* Whatever raced or failed, a loaded engine is the replay, in log order and each
\* once, of the rows of the log it took (ApplyAction, tickLoop, loadState).
THEOREM EnginesAreReplays == Spec => []EngineIsReplayOfApplied
<1>1. AppliedInv => EngineIsReplayOfApplied
  BY DEF AppliedInv, EngineOK, EngineIsReplayOfApplied
<1> QED BY <1>1, AppliedInvariant, PTL

-----------------------------------------------------------------------------
(***************************************************************************)
(* What readers of a delta channel see                                     *)
(***************************************************************************)

\* While it is loaded, a runState never goes back in the log.
LEMMA LastSeqGrows ==
  ASSUME RuntimeInv, RuntimeInv', ALP!LogInv, AcceptedInv, AppliedInv, [Next]_vars,
         NEW s \in Slots, states[s].loaded, states'[s].loaded
  PROVE  /\ states[s].lastSeq \in Nat /\ states'[s].lastSeq \in Nat
         /\ states[s].lastSeq <= states'[s].lastSeq
<1>1. EngineOK(states[s]) /\ TickOK(s) /\ states[s].lastSeq \in Nat
  BY SeqFacts DEF AppliedInv, EngineOK
<1>2. CASE EngineStays(s)
  BY <1>1, <1>2 DEF EngineStays, SameEngine
<1>3. CASE EngineActs(s)
  <2>1. PICK seq : states'[s].lastSeq = seq /\ seq \in Nat /\ ~Passed(states[s], seq)
    BY <1>3, SeqFacts DEF EngineActs, TakesResult
  <2> QED BY <1>1, <2>1 DEF Passed
<1>4. CASE EngineTicks(s)
  <2>1. PICK seq : states'[s].lastSeq = seq /\ seq \in Nat /\ seq > states[s].lastSeq
    BY <1>1, <1>4, SeqFacts DEF EngineTicks, TakesResult, TickOK
  <2> QED BY <1>1, <2>1
<1> QED BY <1>2, <1>3, <1>4, StepsOfEngines DEF EngineSteps, EngineLoads, EngineLost

\* What a step may do to a channel: nothing; open it; close and empty it; take its
\* first delta; or put the seq of a tick into it.
Settled == {"subscribed", "done"}
ChanKept(c) == chan'[c] = chan[c] /\ (call[c].pc \in Settled => call'[c] = call[c])
ChanOpens(c) ==
  /\ call[c].pc = "lock"
  /\ call'[c].pc = "subscribed" /\ call'[c].slot = call[c].slot
  /\ chan'[c] = [chan[c] EXCEPT !.open = TRUE]
ChanCloses(c) ==
  /\ ~chan'[c].open /\ chan'[c].buf = <<>> /\ chan'[c].read \in {chan[c].read, 0}
  /\ call'[c].pc \in Settled \/ chan'[c] = NoChan
ChanReads(c) ==
  /\ Receive(c)
  /\ chan'[c] = [chan[c] EXCEPT !.read = Head(chan[c].buf), !.buf = Tail(@)]
ChanGets(c) ==
  \E s \in Slots :
    /\ c \in states[s].subs /\ states[s].mu = TickLoop /\ app[s].phase = "ok"
    /\ states'[s].lastSeq = app[s].seq /\ log' = log /\ call' = call
    /\ chan'[c] = [chan[c] EXCEPT !.buf = Append(@, app[s].seq)]
ChanSteps(c) == ChanKept(c) \/ ChanOpens(c) \/ ChanCloses(c) \/ ChanReads(c) \/ ChanGets(c)

\* A tick pushes the seq its runState has reached.
LEMMA TickEndPushes ==
  ASSUME RuntimeInv, NEW s \in Slots, TickEnd(s)
  PROVE  /\ states[s].mu = TickLoop /\ log' = log /\ call' = call
         /\ \/ chan' = chan
            \/ /\ app[s].phase = "ok" /\ states'[s].lastSeq = app[s].seq
               /\ chan' = Pushed(states[s].subs, app[s].seq)
<1> DEFINE st == states[s]
           e == Tick(Sim, st.engine).engine
           seq == app[s].seq
           ticked == [st EXCEPT !.engine = e, !.lastSeq = seq,
                                !.applied = @ \cup {seq}, !.mu = Free]
           goes == [ticked EXCEPT !.loops = @ + 1]
<1>1. st.mu = TickLoop /\ log' = log /\ call' = call /\ IsMap(st, StateFields)
  BY DEF TickEnd, AL!Return, RuntimeInv, Shapes
<1>2. \/ chan' = chan
      \/ /\ app[s].phase = "ok" /\ states' = [states EXCEPT ![s] = goes]
         /\ chan' = Pushed(st.subs, seq)
  BY DEF TickEnd
<1> HIDE DEF e, seq
<1>3. IsMap(ticked, StateFields) /\ ticked.lastSeq = seq
  BY <1>1 DEF IsMap, StateFields
<1> HIDE DEF ticked
<1>4. goes.lastSeq = seq
  <2> DEFINE n == ticked.loops + 1
  <2>1. goes = [ticked EXCEPT !.loops = n]
    OBVIOUS
  <2> HIDE DEF n, goes
  <2> QED BY <1>3, <2>1 DEF IsMap, StateFields
<1> HIDE DEF goes
<1>5. CASE /\ app[s].phase = "ok" /\ states' = [states EXCEPT ![s] = goes]
           /\ chan' = Pushed(st.subs, seq)
  <2>1. states'[s] = goes
    BY <1>5, OneSlotMoves
  <2> QED BY <1>1, <1>4, <1>5, <2>1 DEF seq
<1> QED BY <1>1, <1>2, <1>5

\* Every step treats every channel in one of the five ways.
LEMMA StepsOfChans ==
  ASSUME RuntimeInv, ALP!LogInv, [Next]_vars, NEW c \in Calls
  PROVE  ChanSteps(c)
<1>0. Shapes
  BY DEF RuntimeInv
<1>1. ASSUME NEW d \in Calls, StateStep(d) \/ OperationStep(d), ~SubscribeDeltas(d)
      PROVE  ChanSteps(c)
  <2>1. chan' = chan /\ call[d].pc \notin Settled
    BY <1>1 DEF StateStep, FindsState, MissesState, ListActions, SeedFirstTick, Seeded,
       LoadFails, Install, OperationStep, Connect, SubscribeWinUpdates, ApplyBegin, ApplyEnd,
       Locks, Settled
  <2>2. c # d => call'[c] = call[c]
    BY <1>1, StateStepMoves, OperationStepMoves
  <2> QED BY <2>1, <2>2 DEF ChanSteps, ChanKept
<1>2. ASSUME NEW d \in Calls, SubscribeDeltas(d) PROVE ChanSteps(c)
  <2>1. /\ call' = Goto(d, "subscribed") /\ call[d].pc = "lock"
        /\ chan' = [chan EXCEPT ![d].open = TRUE]
    BY <1>2 DEF SubscribeDeltas, Goto, Locks
  <2>2. /\ call'[d].pc = "subscribed" /\ call'[d].slot = call[d].slot
        /\ \A b \in Calls \ {d} : call'[b] = call[b]
    BY <1>0, <2>1, GotoFacts
  <2>3. chan'[d] = [chan[d] EXCEPT !.open = TRUE] /\ \A b \in Calls \ {d} : chan'[b] = chan[b]
    BY <1>0, <2>1 DEF Shapes, IsMap
  <2> QED BY <2>1, <2>2, <2>3 DEF ChanSteps, ChanKept, ChanOpens
<1>3. ASSUME NEW d \in Calls, Unsubscribe(d) PROVE ChanSteps(c)
  <2>1. call' = Reply(d, "closed", 0) /\ chan' = [chan EXCEPT ![d].open = FALSE, ![d].buf = <<>>]
    BY <1>3 DEF Unsubscribe
  <2>2. call'[d].pc = "done" /\ \A b \in Calls \ {d} : call'[b] = call[b]
    BY <1>0, <2>1, ReplyFacts
  <2>3. /\ ~chan'[d].open /\ chan'[d].buf = <<>> /\ chan'[d].read = chan[d].read
        /\ \A b \in Calls \ {d} : chan'[b] = chan[b]
    BY <1>0, <2>1, ZenonT(60) DEF Shapes, IsMap, ChanFields
  <2> QED BY <2>2, <2>3 DEF ChanSteps, ChanKept, ChanCloses, Settled
<1>4. ASSUME NEW d \in Calls, Receive(d) PROVE ChanSteps(c)
  <2>1. /\ call' = call
        /\ chan'[d] = [chan[d] EXCEPT !.read = Head(chan[d].buf), !.buf = Tail(@)]
        /\ \A b \in Calls \ {d} : chan'[b] = chan[b]
    BY <1>0, <1>4 DEF Receive, Shapes, IsMap
  <2> QED BY <1>4, <2>1 DEF ChanSteps, ChanKept, ChanReads
<1>5. ASSUME NEW s \in Slots, TickEnd(s) PROVE ChanSteps(c)
  <2>1. CASE chan' = chan
    BY <1>5, <2>1, TickEndPushes DEF ChanSteps, ChanKept
  <2>2. CASE chan' = Pushed(states[s].subs, app[s].seq) /\ chan' # chan
    <3>1. chan'[c] = IF c \in states[s].subs /\ Len(chan[c].buf) < DeltaCap
                     THEN [chan[c] EXCEPT !.buf = Append(@, app[s].seq)] ELSE chan[c]
      BY <2>2 DEF Pushed
    <3>2. CASE chan'[c] = chan[c]
      BY <1>5, <3>2, TickEndPushes DEF ChanSteps, ChanKept
    <3>3. CASE c \in states[s].subs /\ chan'[c] = [chan[c] EXCEPT !.buf = Append(@, app[s].seq)]
      BY <1>5, <2>2, <3>3, TickEndPushes DEF ChanSteps, ChanGets
    <3> QED BY <3>1, <3>2, <3>3
  <2> QED BY <1>5, <2>1, <2>2, TickEndPushes
<1>6. CASE Crash
  BY <1>6 DEF Crash, ChanSteps, ChanCloses, NoChan
<1>7. ASSUME NEW d \in Calls, NEW op, NEW key, NEW req, Start(d, op, key, req)
      PROVE  ChanSteps(c)
  <2>1. chan' = chan /\ call[d].pc = "new" /\ \A b \in Calls \ {d} : call'[b] = call[b]
    BY <1>0, <1>7 DEF Start, Shapes, IsMap, CallFields
  <2> QED BY <2>1 DEF ChanSteps, ChanKept, Settled
<1>8. CASE chan' = chan /\ call' = call
  BY <1>8 DEF ChanSteps, ChanKept
<1> QED BY <1>1, <1>2, <1>3, <1>4, <1>5, <1>6, <1>7, <1>8 DEF Next, TickBegin, HoldExpires,
     Statement, StatementFails, LateInsert, vars, OperationStep

\* A reader at read with buf to come sees increasing seqs up to last.
InOrder(read, buf, last) ==
  /\ read \in Nat /\ buf \in Seq(Nat) /\ last \in Nat
  /\ \A i \in 1..Len(buf) : buf[i] <= last /\ buf[i] > IF i = 1 THEN read ELSE buf[i - 1]
TicksOnly(buf) == \A i \in 1..Len(buf) : buf[i] \in DOMAIN log /\ log[buf[i]] = AL!TickEntry

LEMMA InOrderLater ==
  ASSUME NEW read, NEW buf, NEW last, InOrder(read, buf, last), NEW m \in Nat, last <= m
  PROVE  InOrder(read, buf, m)
<1>1. \A i \in 1..Len(buf) : buf[i] \in Nat
  BY DEF InOrder
<1> QED BY <1>1 DEF InOrder

LEMMA InOrderGets ==
  ASSUME NEW read, NEW buf, NEW last, InOrder(read, buf, last), read <= last,
         NEW m \in Nat, last < m
  PROVE  InOrder(read, Append(buf, m), m) /\ read <= m
<1>1. PICK k, next : k = Len(buf) /\ next = Append(buf, m)
  OBVIOUS
<1>2. /\ k \in Nat /\ next \in Seq(Nat) /\ Len(next) = k + 1 /\ next[k + 1] = m
      /\ \A i \in 1..k : next[i] = buf[i] /\ buf[i] \in Nat
  BY <1>1 DEF InOrder
<1>3. read \in Nat /\ last \in Nat
  BY DEF InOrder
<1>4. ASSUME NEW i \in 1..(k + 1)
      PROVE  next[i] <= m /\ next[i] > IF i = 1 THEN read ELSE next[i - 1]
  <2>1. CASE i = k + 1 /\ k = 0
    BY <1>2, <1>3, <2>1
  <2>2. CASE i = k + 1 /\ k # 0
    <3>1. k \in 1..k /\ buf[k] <= last
      BY <1>1, <1>2, <2>2 DEF InOrder
    <3> QED BY <1>2, <1>3, <2>2, <3>1
  <2>3. CASE i \in 1..k
    <3>1. buf[i] <= last /\ buf[i] > IF i = 1 THEN read ELSE buf[i - 1]
      BY <1>1, <2>3 DEF InOrder
    <3>2. i # 1 => i - 1 \in 1..k
      BY <1>2, <2>3
    <3>3. next[i] <= m
      BY <1>2, <1>3, <2>3, <3>1
    <3>4. next[i] > IF i = 1 THEN read ELSE next[i - 1]
      BY <1>2, <2>3, <3>1, <3>2
    <3> QED BY <3>3, <3>4
  <2> QED BY <1>2, <2>1, <2>2, <2>3
<1> QED BY <1>1, <1>2, <1>3, <1>4 DEF InOrder

LEMMA InOrderTakes ==
  ASSUME NEW read, NEW buf, NEW last, InOrder(read, buf, last), buf # <<>>
  PROVE  InOrder(Head(buf), Tail(buf), last) /\ Head(buf) <= last
<1>1. PICK k, next : k = Len(buf) /\ next = Tail(buf)
  OBVIOUS
<1>2. /\ k \in Nat \ {0} /\ next \in Seq(Nat) /\ Len(next) = k - 1
      /\ \A i \in 1..k : buf[i] \in Nat
      /\ \A i \in 1..(k - 1) : next[i] = buf[i + 1]
      /\ Head(buf) = buf[1]
  BY <1>1 DEF InOrder
<1>3. ASSUME NEW i \in 1..(k - 1)
      PROVE  next[i] <= last /\ next[i] > IF i = 1 THEN Head(buf) ELSE next[i - 1]
  <2>1. i + 1 \in 1..k /\ i + 1 # 1 /\ (i + 1) - 1 = i
    BY <1>2
  <2>2. buf[i + 1] <= last /\ buf[i + 1] > buf[i]
    BY <1>1, <2>1 DEF InOrder
  <2>3. i # 1 => i - 1 \in 1..(k - 1) /\ (i - 1) + 1 = i
    BY <1>2
  <2> QED BY <1>2, <2>2, <2>3
<1>4. buf[1] <= last /\ buf[1] \in Nat
  BY <1>1, <1>2 DEF InOrder
<1> QED BY <1>1, <1>2, <1>3, <1>4 DEF InOrder

\* What a channel holds increases, is of ticks, and is never beyond its runState;
\* only the open channel of a subscription holds anything.
ChanOK(c) ==
  /\ chan[c].read \in Nat /\ chan[c].buf \in Seq(Nat)
  /\ chan[c].open =>
       /\ call[c].pc = "subscribed"
       /\ chan[c].read <= states[call[c].slot].lastSeq
       /\ InOrder(chan[c].read, chan[c].buf, states[call[c].slot].lastSeq)
       /\ TicksOnly(chan[c].buf)
  /\ ~chan[c].open => chan[c].buf = <<>>
  /\ call[c].pc \notin Settled => chan[c] = NoChan

DeltaInv == \A c \in Calls : ChanOK(c)

LEMMA ChanOKKept ==
  ASSUME RuntimeInv, RuntimeInv', ALP!LogInv, AcceptedInv, AppliedInv, [Next]_vars,
         NEW c \in Calls, ChanOK(c), ChanKept(c)
  PROVE  ChanOK(c)'
<1>1. chan'[c] = chan[c]
  BY DEF ChanKept
<1>2. call'[c].pc \notin Settled => call[c].pc \notin Settled
  BY DEF ChanKept
<1>3. ASSUME chan[c].open
      PROVE  /\ call'[c].pc = "subscribed"
             /\ chan[c].read <= states'[call'[c].slot].lastSeq
             /\ InOrder(chan[c].read, chan[c].buf, states'[call'[c].slot].lastSeq)
  <2>1. call[c].pc = "subscribed" /\ call'[c] = call[c]
    BY <1>3 DEF ChanOK, ChanKept, Settled
  <2>2. PICK s : s = call[c].slot
    OBVIOUS
  <2>3. s \in Slots /\ states[s].loaded /\ states'[s].loaded
    BY <2>1, <2>2 DEF RuntimeInv, CallOK, HasState
  <2>4. PICK last, next : last = states[s].lastSeq /\ next = states'[s].lastSeq
    OBVIOUS
  <2>5. last \in Nat /\ next \in Nat /\ last <= next
    BY <2>3, <2>4, LastSeqGrows
  <2>6. chan[c].read \in Nat /\ chan[c].read <= last /\ InOrder(chan[c].read, chan[c].buf, last)
    BY <1>3, <2>2, <2>4 DEF ChanOK
  <2>7. chan[c].read <= next /\ InOrder(chan[c].read, chan[c].buf, next)
    BY <2>5, <2>6, InOrderLater
  <2> QED BY <2>1, <2>2, <2>4, <2>7
<1>4. TicksOnly(chan[c].buf) => TicksOnly(chan[c].buf)'
  BY <1>1, RowsOfRunStay DEF TicksOnly
<1> QED BY <1>1, <1>2, <1>3, <1>4 DEF ChanOK

LEMMA ChanOKOpens ==
  ASSUME RuntimeInv, RuntimeInv', ALP!LogInv, AcceptedInv, AppliedInv, [Next]_vars,
         NEW c \in Calls, ChanOK(c), ChanOpens(c)
  PROVE  ChanOK(c)'
<1>1. chan[c] = NoChan /\ call'[c].pc = "subscribed"
  BY DEF ChanOK, ChanOpens, Settled
<1>2. chan'[c].open /\ chan'[c].buf = <<>> /\ chan'[c].read = 0
  BY <1>1 DEF ChanOpens, NoChan
<1>3. PICK s : s = call[c].slot
  OBVIOUS
<1>4. s \in Slots /\ states[s].loaded /\ states'[s].loaded /\ call'[c].slot = s
  BY <1>3 DEF ChanOpens, RuntimeInv, CallOK, HasState
<1>5. states'[s].lastSeq \in Nat
  BY <1>4, LastSeqGrows
<1>6. /\ 0 <= states'[s].lastSeq /\ InOrder(0, <<>>, states'[s].lastSeq)
  BY <1>5 DEF InOrder
<1> QED BY <1>1, <1>2, <1>4, <1>6 DEF ChanOK, TicksOnly, Settled

LEMMA ChanOKReads ==
  ASSUME RuntimeInv, NEW c \in Calls, ChanOK(c), ChanReads(c)
  PROVE  ChanOK(c)'
<1>1. /\ chan[c].open /\ chan[c].buf # <<>>
      /\ call' = call /\ states' = states /\ log' = log
      /\ IsMap(chan[c], ChanFields)
  BY DEF ChanReads, Receive, logVars, RuntimeInv, Shapes
<1>2. PICK read, buf, last :
        /\ read = chan[c].read /\ buf = chan[c].buf /\ last = states[call[c].slot].lastSeq
  OBVIOUS
<1>3. InOrder(read, buf, last) /\ call[c].pc = "subscribed" /\ TicksOnly(buf)
  BY <1>1, <1>2 DEF ChanOK
<1>4. InOrder(Head(buf), Tail(buf), last) /\ Head(buf) <= last
  BY <1>1, <1>2, <1>3, InOrderTakes
<1>5. TicksOnly(Tail(buf))
  <2>1. buf \in Seq(Nat) /\ buf # <<>>
    BY <1>1, <1>2, <1>3 DEF InOrder
  <2>2. \A i \in 1..Len(Tail(buf)) : i + 1 \in 1..Len(buf) /\ Tail(buf)[i] = buf[i + 1]
    BY <2>1
  <2> QED BY <1>3, <2>2 DEF TicksOnly
<1>6. chan'[c].open /\ chan'[c].read = Head(buf) /\ chan'[c].buf = Tail(buf)
  <2>1. PICK h, t : h = Head(buf) /\ t = Tail(buf)
    OBVIOUS
  <2>2. chan'[c] = [chan[c] EXCEPT !.read = h, !.buf = t]
    BY <1>1, <1>2, <2>1 DEF ChanReads, IsMap, ChanFields
  <2> QED BY <1>1, <2>1, <2>2 DEF IsMap, ChanFields
<1>7. TicksOnly(chan[c].buf)'
  BY <1>1, <1>5, <1>6 DEF TicksOnly
<1>8. Head(buf) \in Nat /\ Tail(buf) \in Seq(Nat)
  BY <1>4 DEF InOrder
<1> QED BY <1>1, <1>2, <1>3, <1>4, <1>6, <1>7, <1>8 DEF ChanOK, Settled

LEMMA ChanOKGets ==
  ASSUME RuntimeInv, ALP!LogInv, AppliedInv, NEW c \in Calls, ChanOK(c), ChanGets(c)
  PROVE  ChanOK(c)'
<1>1. PICK s \in Slots :
        /\ c \in states[s].subs /\ states[s].mu = TickLoop /\ app[s].phase = "ok"
        /\ states'[s].lastSeq = app[s].seq /\ log' = log /\ call' = call
        /\ chan'[c] = [chan[c] EXCEPT !.buf = Append(@, app[s].seq)]
  BY DEF ChanGets
<1>2. call[c].pc = "subscribed" /\ call[c].slot = s /\ chan[c].open /\ IsMap(chan[c], ChanFields)
  BY <1>1 DEF RuntimeInv, SubOK, Shapes
<1>3. PICK read, buf, last, seq :
        /\ read = chan[c].read /\ buf = chan[c].buf /\ last = states[s].lastSeq
        /\ seq = app[s].seq
  OBVIOUS
<1>4. InOrder(read, buf, last) /\ read <= last /\ TicksOnly(buf)
  BY <1>2, <1>3 DEF ChanOK
<1>5. seq \in Nat /\ seq > last /\ seq \in DOMAIN log /\ log[seq] = AL!TickEntry
  <2>1. seq \in Nat
    BY <1>3, SeqFacts
  <2>2. seq > last /\ app[s].entry = AL!TickEntry
    BY <1>1, <1>3 DEF AppliedInv, TickOK
  <2>3. seq \in DOMAIN log /\ log[seq] = app[s].entry
    BY <1>1, <1>3 DEF ALP!LogInv, ALP!OkIsDurable
  <2> QED BY <2>1, <2>2, <2>3
<1>6. InOrder(read, Append(buf, seq), seq) /\ read <= seq
  <2>1. last < seq
    BY <1>4, <1>5 DEF InOrder
  <2> QED BY <1>4, <1>5, <2>1, InOrderGets
<1>7. TicksOnly(Append(buf, seq))
  <2>1. buf \in Seq(Nat)
    BY <1>4 DEF InOrder
  <2>2. \A i \in 1..Len(Append(buf, seq)) :
          IF i = Len(buf) + 1 THEN Append(buf, seq)[i] = seq
                              ELSE i \in 1..Len(buf) /\ Append(buf, seq)[i] = buf[i]
    BY <1>5, <2>1
  <2> QED BY <1>4, <1>5, <2>2 DEF TicksOnly
<1>8. chan'[c].open /\ chan'[c].read = read /\ chan'[c].buf = Append(buf, seq)
  <2>1. PICK more : more = Append(buf, seq)
    OBVIOUS
  <2>2. chan'[c] = [chan[c] EXCEPT !.buf = more]
    BY <1>1, <1>2, <1>3, <2>1 DEF IsMap, ChanFields
  <2> QED BY <1>2, <1>3, <2>1, <2>2 DEF IsMap, ChanFields
<1>9. TicksOnly(chan[c].buf)'
  BY <1>1, <1>7, <1>8 DEF TicksOnly
<1>10. read \in Nat /\ Append(buf, seq) \in Seq(Nat)
  BY <1>6 DEF InOrder
<1> QED BY <1>1, <1>2, <1>3, <1>6, <1>8, <1>9, <1>10 DEF ChanOK, Settled

LEMMA DeltaInvNext ==
  ASSUME RuntimeInv, RuntimeInv', ALP!LogInv, AcceptedInv, AppliedInv, DeltaInv, [Next]_vars
  PROVE  DeltaInv'
<1> SUFFICES ASSUME NEW c \in Calls PROVE ChanOK(c)'
  BY DEF DeltaInv
<1>1. ChanOK(c)
  BY DEF DeltaInv
<1>2. CASE ChanCloses(c)
  BY <1>1, <1>2 DEF ChanCloses, ChanOK
<1> QED BY <1>1, <1>2, ChanOKKept, ChanOKOpens, ChanOKReads, ChanOKGets, StepsOfChans
           DEF ChanSteps

\* The reader of a delta channel sees seqs in increasing order, of ticks only, and
\* none its runState has not reached (pushDelta, Unsubscribe).
THEOREM ReadersSeeTicksInOrder == Spec => []DeltasIncrease
<1>1. Init => DeltaInv
  <2>0. ~NoChan.open /\ NoChan.buf = <<>>
    BY DEF NoChan
  <2>1. NoChan.read \in Nat /\ NoChan.buf \in Seq(Nat)
    BY DEF NoChan
  <2>2. ASSUME Init, NEW c \in Calls PROVE ChanOK(c)
    <3>1. chan[c] = NoChan
      BY <2>2 DEF Init
    <3>2. ~chan[c].open /\ chan[c].buf = <<>>
      BY <2>0, <3>1, Zenon
    <3>3. chan[c].read \in Nat /\ chan[c].buf \in Seq(Nat)
      BY <2>1, <3>1, Zenon
    <3> QED BY <3>1, <3>2, <3>3, Zenon DEF ChanOK
  <2> QED BY <2>2 DEF DeltaInv
<1>2. /\ RuntimeInv /\ RuntimeInv' /\ ALP!LogInv /\ AcceptedInv /\ AppliedInv
      /\ DeltaInv /\ [Next]_vars
      => DeltaInv'
  BY DeltaInvNext
<1>3. DeltaInv => DeltasIncrease
  <2> SUFFICES ASSUME DeltaInv, NEW c \in Calls
               PROVE  LET seen == <<chan[c].read>> \o chan[c].buf IN
                      /\ \A i \in 1..(Len(seen) - 1) : seen[i] < seen[i + 1]
                      /\ \A i \in 2..Len(seen) : /\ log[seen[i]] = AL!TickEntry
                                                 /\ seen[i] <= states[call[c].slot].lastSeq
    BY DEF DeltasIncrease
  <2>1. PICK read, buf, last :
          /\ read = chan[c].read /\ buf = chan[c].buf /\ last = states[call[c].slot].lastSeq
    OBVIOUS
  <2>2. /\ read \in Nat /\ buf \in Seq(Nat)
        /\ \A i \in 1..Len(buf) :
             /\ log[buf[i]] = AL!TickEntry /\ buf[i] <= last
             /\ buf[i] > IF i = 1 THEN read ELSE buf[i - 1]
    <3>1. ChanOK(c)
      BY DEF DeltaInv
    <3>2. CASE chan[c].open
      BY <2>1, <3>1, <3>2 DEF ChanOK, InOrder, TicksOnly
    <3>3. CASE ~chan[c].open
      BY <2>1, <3>1, <3>3 DEF ChanOK
    <3> QED BY <3>2, <3>3
  <2>3. PICK seen : seen = <<read>> \o buf
    OBVIOUS
  <2>4. /\ Len(seen) = Len(buf) + 1 /\ seen[1] = read /\ Len(buf) \in Nat
        /\ \A i \in 2..Len(seen) : i - 1 \in 1..Len(buf) /\ seen[i] = buf[i - 1]
        /\ \A i \in 1..Len(buf) : buf[i] \in Nat
    BY <2>2, <2>3
  <2>5. ASSUME NEW i \in 1..(Len(seen) - 1) PROVE seen[i] < seen[i + 1]
    <3>1. i \in 1..Len(buf) /\ i + 1 \in 2..Len(seen) /\ (i + 1) - 1 = i
      BY <2>4
    <3>2. seen[i + 1] = buf[i] /\ seen[i] = IF i = 1 THEN read ELSE buf[i - 1]
      BY <2>4, <3>1
    <3>3. (i = 1 \/ i - 1 \in 1..Len(buf)) /\ buf[i] \in Nat
      BY <2>4, <3>1
    <3> QED BY <2>2, <2>4, <3>1, <3>2, <3>3
  <2>6. \A i \in 2..Len(seen) : log[seen[i]] = AL!TickEntry /\ seen[i] <= last
    BY <2>2, <2>4
  <2> QED BY <2>1, <2>3, <2>5, <2>6
<1> QED BY <1>1, <1>2, <1>3, RuntimeInvariant, LogOfRuntime, AppliedInvariant, PTL DEF Spec

-----------------------------------------------------------------------------
(***************************************************************************)
(* The budget: failures, races and the rows of unknown actions do not go   *)
(* away, so a run that is Undisturbed has been so all along                *)
(***************************************************************************)

BudgetInv ==
  /\ IsMap(budget, {"faults", "crashes", "races"})
  /\ budget.faults \in Nat /\ budget.races \in Nat

BudgetGrows ==
  budget.faults <= budget'.faults /\ budget.races <= budget'.races

\* The INSERTs a restart may leave behind are those of finitely many appends.
LEMMA FewOrphans ==
  ASSUME AL!Abandon
  PROVE  /\ IsFiniteSet(orphans' \ orphans)
         /\ Cardinality(orphans' \ orphans) \in Nat
         /\ Cardinality(orphans' \ orphans) = 0 => orphans' = orphans
<1>1. PICK S \in SUBSET (Calls \cup Slots) : orphans' = orphans \cup {app[p] : p \in S}
  BY DEF AL!Abandon
<1>2. IsFiniteSet(Calls \cup Slots)
  <2>1. IsFiniteSet(1..MaxStates)
    BY SlotsAssumption, FS_Interval
  <2> QED BY <2>1, CallsAssumption, FS_Union DEF Slots
<1>3. IsFiniteSet(S)
  BY <1>2, FS_Subset
<1> DEFINE T == {app[p] : p \in S}
           f == [p \in S |-> app[p]]
<1>4. f \in Surjection(S, T)
  BY DEF Surjection
<1>5. IsFiniteSet(T)
  <2> HIDE DEF T, f
  <2> QED BY <1>3, <1>4, FS_Surjection
<1>6. orphans' = orphans \cup T
  BY <1>1
<1> HIDE DEF T
<1>7. (orphans' \ orphans) \in SUBSET T
  BY <1>6
<1>8. IsFiniteSet(orphans' \ orphans)
  BY <1>5, <1>7, FS_Subset
<1>9. (orphans' \ orphans) = {} => orphans' = orphans
  BY <1>6
<1> QED BY <1>8, <1>9, FS_CardinalityType, FS_EmptySet

LEMMA BudgetMoves ==
  ASSUME BudgetInv, [Next]_vars
  PROVE  BudgetInv' /\ BudgetGrows
<1>0. IsMap(budget, {"faults", "crashes", "races"}) /\ budget.faults \in Nat /\ budget.races \in Nat
  BY DEF BudgetInv
<1>1. CASE UNCHANGED budget
  BY <1>0, <1>1 DEF BudgetInv, BudgetGrows
<1>2. ASSUME NEW n \in Nat, budget' = [budget EXCEPT !.faults = @ + n]
      PROVE  BudgetInv' /\ BudgetGrows
  BY <1>0, <1>2 DEF IsMap, BudgetInv, BudgetGrows
<1>3. CASE budget' = [budget EXCEPT !.races = @ + 1]
  BY <1>0, <1>3 DEF IsMap, BudgetInv, BudgetGrows
<1>4. CASE Crash
  <2>1. PICK n : n = Cardinality(orphans' \ orphans)
    OBVIOUS
  <2>2. n \in Nat /\ budget' = [budget EXCEPT !.crashes = @ + 1, !.faults = @ + n]
    BY <1>4, <2>1, FewOrphans DEF Crash
  <2>3. PICK k, m : k = budget.crashes + 1 /\ m = budget.faults + n
    OBVIOUS
  <2>4. budget' = [budget EXCEPT !.crashes = k, !.faults = m]
    BY <2>2, <2>3
  <2>5. /\ IsMap(budget', {"faults", "crashes", "races"})
        /\ budget'.faults = m /\ budget'.races = budget.races
    BY <1>0, <2>4 DEF IsMap
  <2> QED BY <1>0, <2>2, <2>3, <2>5 DEF IsMap, BudgetInv, BudgetGrows
<1>5. ASSUME NEW c \in Calls, StateStep(c) PROVE BudgetInv' /\ BudgetGrows
  <2>1. CASE MissesState(c)
    BY <1>1, <1>3, <2>1 DEF MissesState
  <2>2. CASE LoadFails(c)
    BY <1>2, <2>2 DEF LoadFails
  <2> QED BY <1>1, <1>5, <2>1, <2>2 DEF StateStep, FindsState, ListActions, SeedFirstTick,
             Seeded, Install
<1>6. ASSUME NEW p \in Calls \cup Slots, StatementFails(p) PROVE BudgetInv' /\ BudgetGrows
  BY <1>2, <1>6 DEF StatementFails
<1>7. ASSUME NEW c \in Calls, OperationStep(c) \/ Unsubscribe(c) \/ Receive(c)
      PROVE  UNCHANGED budget
  BY <1>7 DEF OperationStep, Connect, SubscribeDeltas, SubscribeWinUpdates, ApplyBegin,
     ApplyEnd, Unsubscribe, Receive
<1> QED BY <1>1, <1>4, <1>5, <1>6, <1>7 DEF Next, Start, TickBegin, TickEnd, HoldExpires,
     Statement, LateInsert, vars

-----------------------------------------------------------------------------
(***************************************************************************)
(* An engine that has won is told so: no action or tick reaches it         *)
(***************************************************************************)

WonIsOver == \A s \in Slots : states[s].loaded /\ states[s].engine.won => states[s].terminal

\* An action that is applied does not win.
LEMMA ActionsDoNotWin ==
  ASSUME ALP!LogInv, NEW s \in Slots, EngineOK(states[s]), states[s].loaded,
         NEW key, NEW req, NEW result, result = ApplyAction(Sim, states[s].engine, key, req),
         result.err = NoErr
  PROVE  /\ ~result.engine.won
         /\ Over(result.engine) => Over(states[s].engine)
<1>1. PICK e, S : e = states[s].engine /\ S = states[s].applied
  OBVIOUS
<1>2. Ranked(S) /\ Replay(Sim, Renumbered(S)) = Ok(e)
  BY <1>1 DEF EngineOK
<1>3. LP!IsEngine(e)
  <2> DEFINE k == Cardinality(S)
             U == {Row(i, Nth(S, i)) : i \in 1..k}
             rows == Renumbered(S)
  <2>1. k \in Nat
    BY <1>2, FS_CardinalityType DEF Ranked
  <2>2. rows \in [1..k -> U]
    BY DEF Renumbered
  <2> HIDE DEF k, U, rows
  <2>3. rows \in Seq(U)
    BY <2>1, <2>2
  <2>4. LP!Replay(Sim, rows) = LP!Ok(e)
    BY <1>2, SameReplay DEF rows
  <2>5. LP!Replay(Sim, rows).err = LP!NoErr /\ LP!Replay(Sim, rows).engine = e
    BY <2>4 DEF LP!Ok
  <2> QED BY <2>3, <2>5, LP!ReplayedLog
<1>4. CASE e.won
  BY <1>1, <1>4 DEF ApplyAction, Err, NoErr
<1>5. CASE ~e.won /\ key \notin DOMAIN Sim.actions
  BY <1>1, <1>5 DEF ApplyAction, Err, NoErr
<1>6. CASE ~e.won /\ key \in DOMAIN Sim.actions
  <2>1. PICK active, w : active = Append(e.active, key) /\ w = Logged(e, "player", key, req)
    OBVIOUS
  <2>2. result.engine = [e EXCEPT !.active = active, !.log = w]
    BY <1>1, <1>6, <2>1 DEF ApplyAction, Ok
  <2>3. result.engine.won = e.won /\ result.engine.tick = e.tick
    BY <1>3, <2>2 DEF LP!IsEngine
  <2> QED BY <1>1, <1>6, <2>3 DEF Over
<1> QED BY <1>4, <1>5, <1>6

LEMMA WonIsOverNext ==
  ASSUME RuntimeInv, ALP!LogInv, AppliedInv, WonIsOver, [Next]_vars
  PROVE  WonIsOver'
<1> SUFFICES ASSUME NEW s \in Slots, states'[s].loaded, states'[s].engine.won
             PROVE  states'[s].terminal
  BY DEF WonIsOver
<1>1. CASE EngineStays(s)
  BY <1>1 DEF EngineStays, SameEngine, WonIsOver
<1>2. CASE EngineLoads(s)
  <2>1. PICK e, rows : states'[s] = Loaded(e, rows)
    BY <1>2 DEF EngineLoads
  <2>2. PICK over, last, S :
          over = Over(e) /\ last = Last(rows).seq /\ S = {rows[i].seq : i \in DOMAIN rows}
    OBVIOUS
  <2>3. states'[s] = [EmptyState EXCEPT !.loaded = TRUE, !.engine = e, !.lastSeq = last,
                                        !.terminal = over, !.applied = S]
    BY <2>1, <2>2 DEF Loaded
  <2>4. states'[s].engine = e /\ states'[s].terminal = over
    BY <2>3, EmptyStateFacts DEF IsMap, StateFields
  <2> QED BY <2>2, <2>4 DEF Over
<1>3. CASE EngineActs(s)
  <2>1. PICK c \in Calls :
          /\ call[c].pc = "append" /\ call[c].slot = s
          /\ TakesResult(s, ApplyAction(Sim, states[s].engine, call[c].key, call[c].req),
                         app[c].seq)
    BY <1>3 DEF EngineActs
  <2>2. states[s].loaded /\ EngineOK(states[s])
    BY <2>1 DEF RuntimeInv, CallOK, HasState, AppliedInv
  <2> QED BY <2>1, <2>2, ActionsDoNotWin DEF TakesResult
<1>4. CASE EngineTicks(s)
  BY <1>4 DEF EngineTicks, Over
<1> QED BY <1>1, <1>2, <1>3, <1>4, StepsOfEngines DEF EngineSteps, EngineLost

-----------------------------------------------------------------------------
(***************************************************************************)
(* Undisturbed, an engine is at the end of the log                         *)
(***************************************************************************)

\* Who has an append under way: the only loader, which seeds the log, or whoever
\* holds the mutex of the only runState.
Owner(p) ==
  \/ p \in Calls /\ call[p].pc \in {"seed", "append"}
  \/ p \in Slots /\ states[p].mu = TickLoop

\* The engine took every row, but for the one its mutex is held for.
Holder(s) == IF states[s].mu = TickLoop THEN s ELSE states[s].mu
RowToCome(s) ==
  /\ states[s].mu # Free
  /\ app[Holder(s)].phase = "ok" /\ app[Holder(s)].seq > states[s].lastSeq
Recorded(s) ==
  IF RowToCome(s) THEN DOMAIN log = states[s].applied \cup {app[Holder(s)].seq}
  ELSE DOMAIN log = states[s].applied

\* A loader has read all of the log, or gave it its first row.
LoadCalm(c) ==
  /\ call[c].pc = "install" => call[c].rows = Listed
  /\ call[c].pc = "seed" => DOMAIN log = IF app[c].phase = "ok" THEN {app[c].seq} ELSE {}

CalmInv ==
  /\ orphans = {}
  /\ \A s \in Slots : states[s].loaded => current = s /\ Recorded(s)
  /\ \A c \in Loading : current = 0 /\ \A d \in Loading : d = c
  /\ \A p \in Calls \cup Slots : app[p].phase # "idle" => Owner(p)
  /\ \A c \in Calls : LoadCalm(c)

LoadPCs == {"load", "seed", "install"}

\* A step that touches neither the log, nor an append, nor what matters here of a
\* runState or of a call.
LEMMA CalmQuiet ==
  ASSUME CalmInv, UNCHANGED <<log, app, orphans, current>>,
         \A s \in Slots : /\ states'[s].loaded = states[s].loaded
                          /\ states'[s].mu = states[s].mu
                          /\ states'[s].applied = states[s].applied
                          /\ states'[s].lastSeq = states[s].lastSeq,
         \A c \in Calls : \/ call'[c] = call[c]
                          \/ /\ call[c].pc \notin LoadPCs \cup {"append"}
                             /\ call'[c].pc \notin LoadPCs \cup {"append"}
  PROVE  CalmInv'
<1>1. ASSUME NEW s \in Slots, states'[s].loaded PROVE current' = s /\ Recorded(s)'
  <2>1. Recorded(s) /\ current = s
    BY <1>1 DEF CalmInv
  <2>2. Holder(s)' = Holder(s)
    BY DEF Holder
  <2>3. RowToCome(s)' = RowToCome(s)
    BY <2>2 DEF RowToCome
  <2> QED BY <2>1, <2>2, <2>3 DEF Recorded
<1>2. Loading' = Loading
  BY DEF Loading, LoadPCs
<1>3. \A p \in Calls \cup Slots : app'[p].phase # "idle" => Owner(p)'
  BY DEF CalmInv, Owner, LoadPCs
<1>4. Listed' = Listed
  BY DEF Listed, Row
<1>5. \A c \in Calls : LoadCalm(c)'
  BY <1>4 DEF CalmInv, LoadCalm, LoadPCs
<1> QED BY <1>1, <1>2, <1>3, <1>5 DEF CalmInv

\* A step of the holder of a runState's mutex, or one that takes it.
LEMMA CalmAtSlot ==
  ASSUME RuntimeInv, CalmInv, UNCHANGED <<orphans, current>>,
         NEW t \in Slots, states[t].loaded, \A s \in Slots \ {t} : states'[s] = states[s],
         NEW p \in Calls \cup Slots,
         \A q \in (Calls \cup Slots) \ {p} : app'[q] = app[q],
         \A c \in Calls : c # p => call'[c] = call[c],
         p \in Calls => call'[p].pc \notin LoadPCs,
         t # p => (states[t].mu = TickLoop => states'[t].mu = TickLoop),
         app'[p].phase # "idle" => Owner(p)', Recorded(t)'
  PROVE  CalmInv'
<1>1. current = t /\ t # 0 /\ \A s \in Slots \ {t} : ~states[s].loaded
  BY DEF CalmInv, Slots
<1>2. Loading = {}
  BY <1>1 DEF CalmInv
<1>3. Loading' = {}
  BY <1>2 DEF Loading, LoadPCs
<1>4. ASSUME NEW q \in Calls \cup Slots, app'[q].phase # "idle" PROVE Owner(q)'
  <2>1. CASE q # p
    <3>1. Owner(q)
      BY <1>4, <2>1 DEF CalmInv
    <3>2. CASE q \in Calls
      BY <2>1, <3>1, <3>2, SlotsAssumption DEF Owner
    <3>3. CASE q \in Slots
      <4>1. states[q].mu = TickLoop
        BY <3>1, <3>3, SlotsAssumption DEF Owner
      <4>2. states[q].loaded
        BY <3>3, <4>1 DEF RuntimeInv, SlotOK, Free, TickLoop
      <4> QED BY <1>1, <2>1, <3>3, <4>1, <4>2 DEF Owner
    <3> QED BY <3>2, <3>3
  <2> QED BY <1>4, <2>1
<1>5. \A c \in Calls : LoadCalm(c)'
  BY <1>3 DEF LoadCalm, Loading
<1> QED BY <1>1, <1>3, <1>4, <1>5 DEF CalmInv

\* A step of the only loader before it installs.
LEMMA CalmLoading ==
  ASSUME CalmInv, UNCHANGED <<orphans, current, states>>, current = 0,
         NEW c \in Calls, Loading \subseteq {c},
         \A q \in (Calls \cup Slots) \ {c} : app'[q] = app[q],
         \A d \in Calls \ {c} : call'[d] = call[d],
         app'[c].phase # "idle" => call'[c].pc = "seed", LoadCalm(c)'
  PROVE  CalmInv'
<1>1. Loading' \subseteq {c}
  BY DEF Loading
<1>2. \A s \in Slots : ~states[s].loaded
  BY DEF CalmInv, Slots
<1>3. \A q \in Calls \cup Slots : app'[q].phase # "idle" => Owner(q)'
  BY DEF CalmInv, Owner
<1>4. \A d \in Calls : LoadCalm(d)'
  BY <1>1 DEF LoadCalm, Loading
<1> QED BY <1>1, <1>2, <1>3, <1>4 DEF CalmInv

\* What an undisturbed step is not.
LEMMA UndisturbedSteps ==
  ASSUME BudgetInv, Undisturbed, Undisturbed'
  PROVE  /\ \A c \in Calls : ~LoadFails(c) /\ (MissesState(c) => Loading = {})
         /\ \A p \in Calls \cup Slots : ~StatementFails(p)
         /\ Crash => orphans' = orphans
<1>1. /\ IsMap(budget, {"faults", "crashes", "races"})
      /\ budget.faults = 0 /\ budget.races = 0 /\ budget'.faults = 0 /\ budget'.races = 0
  BY DEF BudgetInv, Undisturbed
<1>2. ~(budget' = [budget EXCEPT !.faults = @ + 1])
  BY <1>1 DEF IsMap
<1>3. ~(budget' = [budget EXCEPT !.races = @ + 1])
  BY <1>1 DEF IsMap
<1>4. CASE Crash
  <2>1. PICK n, k : n = Cardinality(orphans' \ orphans) /\ k = budget.crashes + 1
    OBVIOUS
  <2>2. n \in Nat /\ (n = 0 => orphans' = orphans)
    BY <1>4, <2>1, FewOrphans DEF Crash
  <2>3. budget' = [budget EXCEPT !.crashes = k, !.faults = @ + n]
    BY <1>4, <2>1 DEF Crash
  <2>4. budget'.faults = budget.faults + n
    BY <1>1, <2>3 DEF IsMap
  <2>5. n = 0
    BY <1>1, <2>2, <2>4
  <2> QED BY <1>2, <1>3, <2>2, <2>5 DEF LoadFails, MissesState, StatementFails
<1> QED BY <1>2, <1>3, <1>4 DEF LoadFails, MissesState, StatementFails

\* The steps of state().
LEMMA CalmState ==
  ASSUME RuntimeInv, ALP!LogInv, AppliedInv, BudgetInv, Undisturbed, Undisturbed', CalmInv,
         NEW c \in Calls, StateStep(c)
  PROVE  CalmInv'
<1>s. Shapes
  BY DEF RuntimeInv
<1>0. /\ app \in [Calls \cup Slots -> ALP!Call] /\ Calls \cap Slots = {}
      /\ \A d \in Calls \ {c} : call'[d] = call[d]
  BY StateStepMoves, SeqFacts, SlotsAssumption
<1>1. CASE FindsState(c)
  <2>1. call[c].pc = "state" /\ call'[c].pc = "lock"
    BY <1>s, <1>1 DEF FindsState, Shapes, IsMap, CallFields
  <2> QED BY <1>0, <1>1, <2>1, CalmQuiet DEF FindsState, logVars, LoadPCs
<1>2. CASE MissesState(c)
  <2>1. call[c].pc = "state" /\ call'[c].pc = "load" /\ Loading = {} /\ current = 0
    BY <1>s, <1>2, GotoFacts, UndisturbedSteps DEF MissesState
  <2>2. app[c].phase = "idle"
    BY <1>0, <2>1 DEF CalmInv, Owner
  <2>3. UNCHANGED <<log, app, orphans, current, states>>
    BY <1>2 DEF MissesState, logVars
  <2>4. LoadCalm(c)'
    BY <2>1 DEF LoadCalm
  <2> QED BY <1>0, <2>1, <2>2, <2>3, <2>4, CalmLoading
<1>3. CASE call[c].pc \in {"load", "seed"}
  <2>1. c \in Loading /\ current = 0 /\ Loading \subseteq {c}
    BY <1>3 DEF CalmInv, Loading
  <2>2. UNCHANGED <<log, orphans, current, states>> /\ ~LoadFails(c)
    <3>1. ~LoadFails(c)
      BY UndisturbedSteps
    <3> QED BY <1>3, <3>1 DEF StateStep, FindsState, MissesState, ListActions,
               SeedFirstTick, Seeded, Install, AL!Begin, AL!Return, logVars
  <2>3. CASE ListActions(c)
    <3>1. app' = app /\ call[c].pc = "load"
      BY <2>3 DEF ListActions, logVars
    <3>2. app[c].phase = "idle"
      BY <1>0, <3>1 DEF CalmInv, Owner
    <3>3. TakesListing(c)
      <4>1. LoadSteps(c)
        BY LoadsOfState
      <4>2. PICK rows : rows = Listed
        OBVIOUS
      <4>3. call' = [call EXCEPT ![c].pc = "install", ![c].rows = rows]
        BY <2>3, <4>2 DEF ListActions
      <4>4. call'[c].pc = "install"
        BY <1>s, <4>3 DEF Shapes, IsMap, CallFields
      <4> QED BY <3>1, <4>1, <4>4 DEF LoadSteps, TakesSeed, Seeds, Appends
    <3>4. LoadCalm(c)'
      <4>1. Listed' = Listed
        BY <2>2 DEF Listed, Row
      <4> QED BY <3>3, <4>1 DEF LoadCalm, TakesListing
    <3> QED BY <1>0, <2>1, <2>2, <3>1, <3>2, <3>4, CalmLoading
  <2>4. CASE SeedFirstTick(c)
    <3>1. call'[c].pc = "seed" /\ DOMAIN log = {}
      BY <1>s, <2>4, GotoFacts DEF SeedFirstTick
    <3>2. app'[c].phase = "snapshot" /\ \A q \in (Calls \cup Slots) \ {c} : app'[q] = app[q]
      BY <1>0, <2>4 DEF SeedFirstTick, AL!Begin, AL!CallIn, AL!TickEntry
    <3>3. LoadCalm(c)'
      BY <2>2, <3>1, <3>2 DEF LoadCalm
    <3> QED BY <2>1, <2>2, <3>1, <3>2, <1>0, <3>3, CalmLoading
  <2>5. CASE Seeded(c)
    <3>1. /\ app'[c].phase = "idle" /\ call[c].pc = "seed"
          /\ \A q \in (Calls \cup Slots) \ {c} : app'[q] = app[q]
      BY <1>0, <2>5 DEF Seeded, AL!Return, AL!IdleCall, AL!CallIn
    <3>2. LoadCalm(c)'
      <4>1. CASE app[c].phase = "ok"
        <5>1. PICK n : n = app[c].seq
          OBVIOUS
        <5>2. /\ call'[c].pc = "install"
              /\ call'[c].rows = <<[seq |-> n, type |-> "tick", key |-> None, req |-> None]>>
          <6>1. PICK rows :
                  rows = <<[seq |-> n, type |-> "tick", key |-> None, req |-> None]>>
            OBVIOUS
          <6>2. call' = [call EXCEPT ![c].pc = "install", ![c].rows = rows]
            BY <2>5, <4>1, <5>1, <6>1 DEF Seeded
          <6>3. call'[c].pc = "install" /\ call'[c].rows = rows
            BY <1>s, <6>2 DEF Shapes, IsMap, CallFields
          <6> QED BY <6>1, <6>3
        <5>3. DOMAIN log = {n} /\ log[n] = AL!TickEntry
          BY <3>1, <4>1, <5>1
             DEF CalmInv, LoadCalm, AppliedInv, PhaseOK, ALP!LogInv, ALP!OkIsDurable
        <5>4. PICK m : m = AL!MaxSeq
          OBVIOUS
        <5>5. m \in Nat /\ 1..m = {n} /\ Listed = [i \in 1..m |-> Row(i, i)]
          BY <5>3, <5>4, SeqFacts, ListedFacts
        <5>6. m = 1 /\ n = 1
          <6>1. m # 0
            BY <5>5
          <6>2. 1 \in 1..m /\ m \in 1..m
            BY <5>5, <6>1
          <6> QED BY <5>5, <6>2
        <5>7. Row(1, 1) = [seq |-> n, type |-> "tick", key |-> None, req |-> None]
          BY <5>3, <5>6 DEF Row, AL!TickEntry
        <5>8. Listed = <<Row(1, 1)>>
          BY <5>5, <5>6
        <5>9. Listed' = Listed
          BY <2>2 DEF Listed, Row
        <5> QED BY <5>2, <5>7, <5>8, <5>9 DEF LoadCalm
      <4>2. CASE app[c].phase # "ok"
        <5>1. call'[c].pc = "done"
          BY <1>s, <2>5, <4>2, ReplyFacts DEF Seeded
        <5> QED BY <5>1 DEF LoadCalm
      <4> QED BY <4>1, <4>2
    <3> QED BY <1>0, <2>1, <2>2, <3>1, <3>2, CalmLoading
  <2> QED BY <1>3, <2>2, <2>3, <2>4, <2>5 DEF StateStep, FindsState, MissesState, Install
<1>4. CASE Install(c)
  <2>1. call[c].pc = "install" /\ call[c].rows = Listed /\ UNCHANGED <<log, app, orphans>>
    BY <1>4 DEF Install, logVars, CalmInv, LoadCalm
  <2>2. c \in Loading /\ current = 0 /\ Loading \subseteq {c}
    BY <2>1 DEF CalmInv, Loading
  <2>3. \A s \in Slots : ~states[s].loaded
    BY <2>2 DEF CalmInv, Slots
  <2>4. \A q \in Calls \cup Slots : app[q].phase = "idle"
    <3>1. ASSUME NEW q \in Calls, app[q].phase # "idle" PROVE FALSE
      <4>1. call[q].pc \in {"seed", "append"}
        BY <1>0, <3>1 DEF CalmInv, Owner
      <4>2. call[q].pc # "append"
        BY <2>3 DEF RuntimeInv, CallOK, HasState
      <4>3. q = c
        BY <2>2, <4>1, <4>2 DEF Loading
      <4> QED BY <2>1, <4>1, <4>3
    <3>2. ASSUME NEW q \in Slots, app[q].phase # "idle" PROVE FALSE
      <4>1. states[q].mu = TickLoop
        BY <1>0, <3>2 DEF CalmInv, Owner
      <4> QED BY <2>3, <4>1 DEF RuntimeInv, SlotOK, Free, TickLoop
    <3> QED BY <3>1, <3>2
  <2>5. CASE call' = Reply(c, "unreadable", 0) /\ UNCHANGED <<current, states>>
    <3>1. call'[c].pc = "done"
      BY <1>s, <2>5, ReplyFacts
    <3>2. LoadCalm(c)'
      BY <3>1 DEF LoadCalm
    <3> QED BY <1>0, <2>1, <2>2, <2>4, <2>5, <3>2, CalmLoading
  <2>6. CASE \E s \in Slots :
               /\ states' = [states EXCEPT ![s] =
                              Loaded(Replay(Sim, call[c].rows).engine, call[c].rows)]
               /\ current' = s
               /\ call' = [call EXCEPT ![c].pc = "lock", ![c].slot = s, ![c].rows = <<>>]
    <3>0. PICK rows, e : rows = call[c].rows /\ e = Replay(Sim, call[c].rows).engine
      OBVIOUS
    <3>1. PICK s \in Slots :
            /\ states' = [states EXCEPT ![s] = Loaded(e, rows)] /\ rows = Listed
            /\ current' = s
            /\ call' = [call EXCEPT ![c].pc = "lock", ![c].slot = s, ![c].rows = <<>>]
      BY <2>1, <2>6, <3>0
    <3>2. states'[s] = Loaded(e, rows) /\ \A t \in Slots \ {s} : ~states'[t].loaded
      BY <2>3, <3>1, OneSlotMoves
    <3>3. call'[c].pc = "lock"
      BY <1>s, <3>1 DEF Shapes, IsMap, CallFields
    <3>4. states'[s].mu = Free /\ states'[s].applied = DOMAIN log
      <4>1. PICK over, last, S :
              over = Over(e) /\ last = Last(rows).seq /\ S = {rows[i].seq : i \in DOMAIN rows}
        OBVIOUS
      <4>2. states'[s] = [EmptyState EXCEPT !.loaded = TRUE, !.engine = e, !.lastSeq = last,
                                            !.terminal = over, !.applied = S]
        BY <3>2, <4>1 DEF Loaded
      <4>3. EmptyState.mu = Free
        BY DEF EmptyState
      <4>4. states'[s].mu = Free /\ states'[s].applied = S
        BY <4>2, <4>3, EmptyStateFacts DEF IsMap, StateFields
      <4>5. S = DOMAIN log
        <5>1. PICK m : m = AL!MaxSeq
          OBVIOUS
        <5>2. DOMAIN log = 1..m /\ rows = [i \in 1..m |-> Row(i, i)]
          BY <3>1, <5>1, SeqFacts, ListedFacts
        <5>3. \A i \in 1..m : rows[i].seq = i
          BY <5>2 DEF Row
        <5>4. S = {rows[i].seq : i \in 1..m}
          BY <4>1, <5>2
        <5> QED BY <5>2, <5>3, <5>4
      <4> QED BY <4>4, <4>5
    <3>5. Recorded(s)'
      BY <2>1, <3>4 DEF Recorded, RowToCome
    <3>6. Loading' = {}
      BY <1>0, <2>2, <3>3 DEF Loading
    <3>7. \A d \in Calls : LoadCalm(d)'
      BY <3>6 DEF LoadCalm, Loading
    <3> QED BY <2>1, <2>4, <3>1, <3>2, <3>5, <3>6, <3>7 DEF CalmInv
  <2> QED BY <1>4, <2>5, <2>6 DEF Install
<1> QED BY <1>1, <1>2, <1>3, <1>4 DEF StateStep, ListActions, SeedFirstTick, Seeded, LoadFails

\* What the holder of a mutex knows of its runState.
LEMMA HeldFacts ==
  ASSUME RuntimeInv, WonIsOver, CalmInv, NEW t \in Slots, states[t].loaded
  PROVE  /\ states[t].mu = Free => DOMAIN log = states[t].applied
         /\ states[t].mu # Free => ~states[t].engine.won
<1>1. states[t].mu = Free => DOMAIN log = states[t].applied
  BY DEF CalmInv, Recorded, RowToCome
<1>2. states[t].mu # Free => ~states[t].terminal
  BY DEF RuntimeInv, SlotOK
<1> QED BY <1>1, <1>2 DEF WonIsOver

\* An action takes the mutex.
LEMMA CalmApplyBegin ==
  ASSUME RuntimeInv, ALP!LogInv, WonIsOver, CalmInv, NEW c \in Calls, ApplyBegin(c)
  PROVE  CalmInv'
<1>s. Shapes
  BY DEF RuntimeInv
<1>0. /\ app \in [Calls \cup Slots -> ALP!Call] /\ c \notin Slots
      /\ call[c].pc = "lock" /\ \A d \in Calls \ {c} : call'[d] = call[d]
  BY SeqFacts, SlotsAssumption, OperationStepMoves DEF ApplyBegin, Locks, OperationStep
<1>1. CASE call' = Reply(c, "completed", 0) /\ UNCHANGED <<logVars, states>>
  <2>1. call'[c].pc = "done"
    BY <1>s, <1>1, ReplyFacts
  <2>2. UNCHANGED <<log, app, orphans, current>>
    BY <1>1 DEF ApplyBegin, logVars
  <2> QED BY <1>0, <1>1, <2>1, <2>2, CalmQuiet DEF LoadPCs
<1>2. CASE /\ AL!Begin(c, ActionEntry(c)) /\ call' = Goto(c, "append")
           /\ states' = [states EXCEPT ![call[c].slot].mu = c]
  <2>1. PICK t : t = call[c].slot
    OBVIOUS
  <2>2. t \in Slots /\ states[t].loaded /\ states[t].mu = Free /\ IsMap(states[t], StateFields)
    BY <1>0, <2>1, HolderFacts DEF ApplyBegin, Locks, HasState
  <2>3. /\ \A s \in Slots \ {t} : states'[s] = states[s]
        /\ states'[t].mu = c /\ states'[t].applied = states[t].applied
    <3>1. PICK new : new = [states[t] EXCEPT !.mu = c]
      OBVIOUS
    <3>2. states' = [states EXCEPT ![t] = new]
      BY <1>2, <2>1, <2>2, <3>1
    <3>3. new.mu = c /\ new.applied = states[t].applied
      BY <2>2, <3>1 DEF IsMap, StateFields
    <3> QED BY <2>2, <3>2, <3>3, OneSlotMoves
  <2>4. /\ app'[c].phase \in {"snapshot", "lookup"}
        /\ \A q \in (Calls \cup Slots) \ {c} : app'[q] = app[q]
    BY <1>0, <1>2 DEF AL!Begin, AL!CallIn
  <2>5. call'[c].pc = "append"
    BY <1>s, <1>2, GotoFacts
  <2>6. Recorded(t)'
    <3>1. Holder(t)' = c
      BY <2>3, MutexAssumption DEF Holder
    <3>2. ~RowToCome(t)'
      BY <2>4, <3>1 DEF RowToCome
    <3>3. DOMAIN log = states[t].applied /\ log' = log
      BY <1>2, <2>2, HeldFacts DEF AL!Begin
    <3> QED BY <2>3, <3>2, <3>3 DEF Recorded
  <2>7. UNCHANGED <<log, orphans, current>> /\ Owner(c)'
    BY <1>2, <2>5 DEF AL!Begin, ApplyBegin, Owner
  <2>8. states[t].mu # TickLoop
    BY <2>2 DEF Free, TickLoop
  <2> QED BY <1>0, <2>2, <2>3, <2>4, <2>5, <2>6, <2>7, <2>8, CalmAtSlot DEF LoadPCs
<1> QED BY <1>1, <1>2 DEF ApplyBegin

\* An action that is in the log is one the room knows, and the run is not over: the
\* engine takes it unless it has been at its row.
LEMMA CalmApplyEnd ==
  ASSUME RuntimeInv, ALP!LogInv, AcceptedInv, AppliedInv, WonIsOver, Undisturbed, CalmInv,
         NEW c \in Calls, ApplyEnd(c)
  PROVE  CalmInv'
<1>s. Shapes
  BY DEF RuntimeInv
<1>0. /\ app \in [Calls \cup Slots -> ALP!Call] /\ c \notin Slots /\ call[c].pc = "append"
      /\ \A d \in Calls \ {c} : call'[d] = call[d]
  BY SeqFacts, SlotsAssumption, OperationStepMoves DEF ApplyEnd, OperationStep
<1>1. PICK t, st, seq, result :
        /\ t = call[c].slot /\ st = states[t] /\ seq = app[c].seq
        /\ result = ApplyAction(Sim, st.engine, call[c].key, call[c].req)
  OBVIOUS
<1>2. /\ t \in Slots /\ st.loaded /\ st.mu = c /\ IsMap(st, StateFields) /\ c \notin {Free, TickLoop}
  BY <1>0, <1>1, HolderFacts, MutexAssumption DEF HasState, CallOK
<1>3. Holder(t) = c /\ (RowToCome(t) <=> app[c].phase = "ok" /\ ~Passed(st, seq))
  <2>1. Holder(t) = c
    BY <1>1, <1>2 DEF Holder
  <2>2. seq \in Nat /\ st.lastSeq \in Nat
    BY <1>1, <1>2, SeqFacts DEF AppliedInv, EngineOK
  <2>3. ~Passed(st, seq) <=> seq > st.lastSeq
    BY <2>2 DEF Passed
  <2> QED BY <1>1, <1>2, <2>1, <2>3 DEF RowToCome
<1>4. DOMAIN log = IF RowToCome(t) THEN st.applied \cup {seq} ELSE st.applied
  BY <1>1, <1>2, <1>3 DEF CalmInv, Recorded
<1>5. app[c].phase = "ok" => result.err = NoErr
  <2>1. ASSUME app[c].phase = "ok" PROVE call[c].key \in DOMAIN Sim.actions
    <3>1. seq \in DOMAIN log /\ log[seq] = AL!PlayerEntry(call[c].key, call[c].req)
      BY <1>0, <1>1, <2>1 DEF ALP!LogInv, ALP!OkIsDurable, AcceptedInv, AppendsOwnEntry
    <3> QED BY <3>1 DEF Undisturbed, AL!PlayerEntry
  <2>2. ~st.engine.won
    BY <1>1, <1>2, HeldFacts
  <2> QED BY <1>1, <2>1, <2>2 DEF ApplyAction, Ok
<1>6. PICK new :
        /\ states' = [states EXCEPT ![t] = new] /\ new.mu = Free
        /\ new.applied = IF RowToCome(t) THEN st.applied \cup {seq} ELSE st.applied
  <2>1. CASE app[c].phase # "ok"
    <3>1. PICK new : new = [st EXCEPT !.mu = Free]
      OBVIOUS
    <3>2. states' = [states EXCEPT ![t] = new]
      BY <1>1, <2>1, <3>1 DEF ApplyEnd
    <3>3. new.mu = Free /\ new.applied = st.applied
      BY <1>2, <3>1 DEF IsMap, StateFields
    <3> QED BY <1>3, <2>1, <3>2, <3>3
  <2>2. CASE app[c].phase = "ok" /\ Passed(st, seq)
    <3>1. states' = [states EXCEPT ![t] = Accepted(st)]
      BY <1>1, <2>2 DEF ApplyEnd
    <3>2. Accepted(st).mu = Free /\ Accepted(st).applied = st.applied
      BY <1>2, AcceptedSame DEF SameEngine
    <3> QED BY <1>3, <2>2, <3>1, <3>2
  <2>3. CASE app[c].phase = "ok" /\ ~Passed(st, seq)
    <3>1. PICK e, mid : e = result.engine /\ mid = WithAction(st, e, seq)
      OBVIOUS
    <3>2. states' = [states EXCEPT ![t] = Accepted(mid)]
      BY <1>1, <1>5, <2>3, <3>1 DEF ApplyEnd
    <3>3. IsMap(mid, StateFields) /\ mid.applied = st.applied \cup {seq}
      BY <1>2, <3>1 DEF IsMap, StateFields, WithAction
    <3>4. Accepted(mid).mu = Free /\ Accepted(mid).applied = mid.applied
      BY <3>3, AcceptedSame DEF SameEngine
    <3> QED BY <1>3, <2>3, <3>2, <3>3, <3>4
  <2> QED BY <2>1, <2>2, <2>3
<1>7. states'[t] = new /\ \A s \in Slots \ {t} : states'[s] = states[s]
  BY <1>2, <1>6, OneSlotMoves
<1>8. /\ app'[c].phase = "idle" /\ UNCHANGED <<log, orphans, current>>
      /\ \A q \in (Calls \cup Slots) \ {c} : app'[q] = app[q]
  BY <1>0 DEF ApplyEnd, AL!Return, AL!IdleCall, AL!CallIn
<1>9. Recorded(t)'
  <2>1. ~RowToCome(t)'
    BY <1>6, <1>7 DEF RowToCome
  <2> QED BY <1>4, <1>6, <1>7, <1>8, <2>1 DEF Recorded
<1>10. call'[c].pc = "done"
  <2>1. PICK what, n : call' = Reply(c, what, n)
    BY DEF ApplyEnd
  <2> QED BY <1>s, <2>1, ReplyFacts
<1>11. states[t].loaded /\ states[t].mu # TickLoop
  BY <1>1, <1>2
<1> QED BY <1>0, <1>2, <1>7, <1>8, <1>9, <1>10, <1>11, CalmAtSlot DEF LoadPCs

\* A step that leaves every engine, mutex and append, and every loader, alone.
LEMMA CalmStays ==
  ASSUME CalmInv, UNCHANGED <<logVars, current>>,
         \A s \in Slots : EngineStays(s) /\ states'[s].mu = states[s].mu,
         NEW c \in Calls, \A d \in Calls \ {c} : call'[d] = call[d],
         \/ call'[c] = call[c]
         \/ call[c].pc \notin LoadPCs \cup {"append"} /\ call'[c].pc \notin LoadPCs \cup {"append"}
  PROVE  CalmInv'
<1>1. UNCHANGED <<log, app, orphans, current>>
  BY DEF logVars
<1>2. \A s \in Slots : /\ states'[s].loaded = states[s].loaded
                       /\ states'[s].mu = states[s].mu
                       /\ states'[s].applied = states[s].applied
                       /\ states'[s].lastSeq = states[s].lastSeq
  BY DEF EngineStays, SameEngine
<1> QED BY <1>1, <1>2, CalmQuiet

LEMMA CalmOperation ==
  ASSUME RuntimeInv, ALP!LogInv, AcceptedInv, AppliedInv, WonIsOver, Undisturbed, CalmInv,
         NEW c \in Calls, OperationStep(c) \/ Unsubscribe(c)
  PROVE  CalmInv'
<1>1. CASE ApplyBegin(c)
  BY <1>1, CalmApplyBegin
<1>2. CASE ApplyEnd(c)
  BY <1>2, CalmApplyEnd
<1>3. CASE Connect(c) \/ SubscribeDeltas(c) \/ SubscribeWinUpdates(c) \/ Unsubscribe(c)
  <2>s. Shapes
    BY DEF RuntimeInv
  <2>1. \A s \in Slots : EngineStays(s) /\ states'[s].mu = states[s].mu
    BY <1>3, OperationsStay
  <2>2. UNCHANGED <<logVars, current>>
    BY <1>3 DEF Connect, SubscribeDeltas, SubscribeWinUpdates, Unsubscribe
  <2>3. call[c].pc \in {"lock", "subscribed"}
    BY <1>3 DEF Connect, SubscribeDeltas, SubscribeWinUpdates, Unsubscribe, Locks
  <2>4. call'[c].pc \in {"done", "subscribed"} /\ \A d \in Calls \ {c} : call'[d] = call[d]
    <3>1. CASE SubscribeDeltas(c)
      BY <2>s, <3>1 DEF SubscribeDeltas, Shapes, IsMap, CallFields
    <3>2. CASE \E what, n : call' = Reply(c, what, n)
      BY <2>s, <3>2, ReplyFacts
    <3> QED BY <1>3, <3>1, <3>2 DEF Connect, SubscribeWinUpdates, Unsubscribe
  <2> QED BY <2>1, <2>2, <2>3, <2>4, CalmStays DEF LoadPCs
<1> QED BY <1>1, <1>2, <1>3 DEF OperationStep

\* The clock takes the mutex, or finds the run over.
LEMMA CalmTickBegin ==
  ASSUME RuntimeInv, ALP!LogInv, WonIsOver, CalmInv, NEW t \in Slots,
         TickBegin(t) \/ HoldExpires(t)
  PROVE  CalmInv'
<1>1. \A s \in Slots : EngineStays(s)
  BY TickBeginStays
<1>2. /\ app \in [Calls \cup Slots -> ALP!Call] /\ Calls \cap Slots = {}
      /\ IsMap(states[t], StateFields) /\ IsMap(states, Slots)
  BY SeqFacts, SlotsAssumption DEF RuntimeInv, Shapes
<1>3. \A s \in Slots \ {t} : states'[s] = states[s]
  BY <1>2 DEF TickBegin, HoldExpires, IsMap
<1>4. CASE states'[t].mu = states[t].mu /\ UNCHANGED <<logVars, current, call>>
  <2>1. /\ UNCHANGED <<log, app, orphans, current>> /\ \A c \in Calls : call'[c] = call[c]
    BY <1>4 DEF logVars
  <2>2. \A s \in Slots : /\ states'[s].loaded = states[s].loaded
                         /\ states'[s].mu = states[s].mu
                         /\ states'[s].applied = states[s].applied
                         /\ states'[s].lastSeq = states[s].lastSeq
    BY <1>1, <1>3, <1>4 DEF EngineStays, SameEngine
  <2> QED BY <2>1, <2>2, CalmQuiet
<1>5. CASE HoldExpires(t)
  <2>1. states'[t].mu = states[t].mu
    BY <1>2, <1>5 DEF HoldExpires, IsMap, StateFields
  <2> QED BY <1>4, <1>5, <2>1 DEF HoldExpires
<1>6. CASE TickBegin(t) /\ states[t].terminal
  <2>1. PICK n : n = states[t].loops - 1
    OBVIOUS
  <2>2. states'[t] = [states[t] EXCEPT !.loops = n, !.tickStarted = FALSE]
    BY <1>2, <1>6, <2>1 DEF TickBegin, IsMap
  <2>3. states'[t].mu = states[t].mu
    BY <1>2, <2>2 DEF IsMap, StateFields
  <2> QED BY <1>4, <1>6, <2>3 DEF TickBegin
<1>7. CASE TickBegin(t) /\ ~states[t].terminal
  <2>1. PICK n : n = states[t].loops - 1
    OBVIOUS
  <2>2. states'[t] = [states[t] EXCEPT !.loops = n, !.mu = TickLoop]
    BY <1>2, <1>7, <2>1 DEF TickBegin, IsMap
  <2>3. states'[t].mu = TickLoop /\ states'[t].applied = states[t].applied
    BY <1>2, <2>2 DEF IsMap, StateFields
  <2>4. /\ app'[t].phase = "snapshot" /\ UNCHANGED <<log, orphans, current, call>>
        /\ \A q \in (Calls \cup Slots) \ {t} : app'[q] = app[q]
    BY <1>2, <1>7 DEF TickBegin, AL!Begin, AL!CallIn, AL!TickEntry
  <2>5. states[t].mu = Free /\ states[t].loaded
    <3>1. states[t].mu = Free /\ states[t].loops > 0
      BY <1>7 DEF TickBegin
    <3>2. states[t].loops \in Nat /\ Running(states[t]) = states[t].loops
      BY <3>1 DEF RuntimeInv, SlotOK, Running, Free, TickLoop
    <3>3. states[t].tickStarted
      BY <3>1, <3>2 DEF RuntimeInv, SlotOK
    <3> QED BY <3>1, <3>3 DEF RuntimeInv, SlotOK
  <2>6. Recorded(t)'
    <3>1. Holder(t)' = t
      BY <2>3 DEF Holder
    <3>2. ~RowToCome(t)'
      BY <2>4, <3>1 DEF RowToCome
    <3>3. DOMAIN log = states[t].applied
      BY <2>5, HeldFacts
    <3> QED BY <2>3, <2>4, <3>2, <3>3 DEF Recorded
  <2>7. Owner(t)'
    BY <2>3 DEF Owner
  <2>8. /\ t \in Calls \cup Slots /\ \A c \in Calls : call'[c] = call[c]
        /\ t \notin Calls
    BY <1>2, <2>4
  <2> QED BY <1>3, <2>4, <2>5, <2>6, <2>7, <2>8, CalmAtSlot
<1> QED BY <1>5, <1>6, <1>7

\* The end of a tick: a run that is not won ticks, and its row is beyond lastSeq.
LEMMA CalmTickEnd ==
  ASSUME RuntimeInv, ALP!LogInv, AppliedInv, WonIsOver, CalmInv, NEW t \in Slots, TickEnd(t)
  PROVE  CalmInv'
<1> DEFINE st == states[t]
           seq == app[t].seq
           result == Tick(Sim, st.engine)
           e == result.engine
           ticked == [st EXCEPT !.engine = e, !.lastSeq = seq,
                                !.applied = @ \cup {seq}, !.mu = Free]
           failed == [st EXCEPT !.tickStarted = FALSE, !.mu = Free]
           ended == [ticked EXCEPT !.terminal = TRUE, !.tickStarted = FALSE,
                                   !.sentWin = TRUE, !.told = Told(st)]
           goes == [ticked EXCEPT !.loops = @ + 1]
<1>1. /\ st.mu = TickLoop /\ IsMap(st, StateFields) /\ Free # TickLoop /\ IsMap(states, Slots)
      /\ app \in [Calls \cup Slots -> ALP!Call] /\ t \notin Calls
  BY SeqFacts, SlotsAssumption DEF TickEnd, RuntimeInv, Shapes, Free, TickLoop
<1>2. st.loaded /\ result.err = NoErr
  <2>1. st.loaded
    BY <1>1 DEF RuntimeInv, SlotOK, Free, TickLoop
  <2>2. ~st.engine.won
    BY <1>1, <2>1, HeldFacts
  <2> QED BY <2>1, <2>2 DEF Tick, Ok
<1>3. IF app[t].phase = "ok" THEN DOMAIN log = st.applied \cup {seq} ELSE DOMAIN log = st.applied
  <2>1. RowToCome(t) <=> app[t].phase = "ok"
    BY <1>1 DEF RowToCome, Holder, AppliedInv, TickOK
  <2> QED BY <1>1, <1>2, <2>1 DEF CalmInv, Recorded, Holder
<1>4. \/ app[t].phase # "ok" /\ states' = [states EXCEPT ![t] = failed]
      \/ /\ app[t].phase = "ok"
         /\ states' = [states EXCEPT ![t] = ended] \/ states' = [states EXCEPT ![t] = goes]
  BY <1>1, <1>2 DEF TickEnd, IsMap
<1> HIDE DEF e, seq
<1>5. IsMap(ticked, StateFields) /\ ticked.applied = st.applied \cup {seq} /\ ticked.mu = Free
  BY <1>1 DEF IsMap, StateFields
<1>6. failed.applied = st.applied /\ failed.mu = Free
  BY <1>1 DEF IsMap, StateFields
<1> HIDE DEF ticked, failed
<1>7. ended.applied = st.applied \cup {seq} /\ ended.mu = Free
  BY <1>5 DEF IsMap, StateFields
<1>8. goes.applied = st.applied \cup {seq} /\ goes.mu = Free
  <2> DEFINE n == ticked.loops + 1
  <2>1. goes = [ticked EXCEPT !.loops = n]
    OBVIOUS
  <2> HIDE DEF n, goes
  <2> QED BY <1>5, <2>1 DEF IsMap, StateFields
<1> HIDE DEF ended, goes, st, result
<1>9. PICK new :
        /\ states' = [states EXCEPT ![t] = new] /\ new.mu = Free /\ new.applied = DOMAIN log
  BY <1>3, <1>4, <1>6, <1>7, <1>8
<1>10. states'[t] = new /\ \A s \in Slots \ {t} : states'[s] = states[s]
  BY <1>9, OneSlotMoves
<1>11. /\ app'[t].phase = "idle" /\ UNCHANGED <<log, orphans, current, call>>
       /\ \A q \in (Calls \cup Slots) \ {t} : app'[q] = app[q]
  BY <1>1 DEF TickEnd, AL!Return, AL!IdleCall, AL!CallIn
<1>12. Recorded(t)'
  <2>1. ~RowToCome(t)'
    BY <1>9, <1>10 DEF RowToCome
  <2> QED BY <1>9, <1>10, <1>11, <2>1 DEF Recorded
<1>13. \A c \in Calls : call'[c] = call[c]
  BY <1>11
<1>14. states[t].loaded
  BY <1>2 DEF st
<1> QED BY <1>1, <1>10, <1>11, <1>12, <1>13, <1>14, CalmAtSlot

\* A statement of an append finds a row that is there, adds the next one, or neither.
LEMMA StatementFacts ==
  ASSUME RuntimeInv, ALP!LogInv, NEW p \in Calls \cup Slots, Statement(p)
  PROVE  /\ app[p].phase \in AL!InFlight /\ orphans' = orphans
         /\ \A q \in (Calls \cup Slots) \ {p} : app'[q] = app[q]
         /\ \/ /\ log' = log
               /\ app'[p].phase = "ok" =>
                    app[p].entry.req # None /\ app'[p].seq \in DOMAIN log
            \/ /\ app'[p].phase = "ok" /\ app'[p].seq = AL!MaxSeq + 1
               /\ DOMAIN log' = DOMAIN log \cup {AL!MaxSeq + 1}
               /\ log'[AL!MaxSeq + 1] = app[p].entry
<1>0. app \in [Calls \cup Slots -> ALP!Call] /\ app[p] \in ALP!Call
  BY SeqFacts
<1>1. CASE AL!Lookup(p) \/ AL!Relookup(p)
  <2>1. PICK missing \in {"snapshot", "error"} :
          /\ app' = [app EXCEPT ![p] = AL!Looked(@, missing)] /\ log' = log /\ orphans' = orphans
          /\ app[p].phase \in {"lookup", "relookup"}
    BY <1>1 DEF AL!Lookup, AL!Relookup
  <2>2. PICK d : d = AL!Looked(app[p], missing)
    OBVIOUS
  <2>3. d = ALP!Looked(app[p], missing)
    BY <2>2 DEF AL!Looked, ALP!Looked, AL!RowsOf, ALP!RowsOf, AL!Result, ALP!Result, AL!CallIn,
       ALP!CallIn
  <2>4. app[p].entry.req # None
    BY <2>1 DEF ALP!LogInv, ALP!LookupsCarryRequest
  <2>5. d.phase = "ok" => d.seq \in DOMAIN log
    BY <1>0, <2>3, <2>4, ALP!LookupFacts, KeysAssumption, RuntimeBounds
  <2>6. app' = [app EXCEPT ![p] = d]
    BY <2>1, <2>2
  <2> QED BY <1>0, <2>1, <2>4, <2>5, <2>6 DEF AL!InFlight
<1>2. CASE AL!Snapshot(p)
  <2>1. PICK d : d = AL!CallIn("insert", app[p].entry, AL!MaxSeq, 0)
    OBVIOUS
  <2>2. app' = [app EXCEPT ![p] = d] /\ d.phase = "insert"
    BY <1>2, <2>1 DEF AL!Snapshot, AL!CallIn
  <2> QED BY <1>0, <1>2, <2>2 DEF AL!Snapshot, AL!InFlight
<1>3. CASE AL!Insert(p)
  <2>1. app[p].phase = "insert" /\ orphans' = orphans
    BY <1>3 DEF AL!Insert
  <2>2. CASE AL!Inserts(app[p])
    <3>1. PICK n : n = app[p].max + 1
      OBVIOUS
    <3>2. PICK d : d = AL!Result(app[p], "ok", n)
      OBVIOUS
    <3>3. log' = AL!WithRow(app[p]) /\ app' = [app EXCEPT ![p] = d]
      BY <1>3, <2>2, <3>1, <3>2 DEF AL!Insert
    <3>4. d.phase = "ok" /\ d.seq = n
      BY <3>2 DEF AL!Result, AL!CallIn
    <3>5. ALP!Inserts(app[p])
      BY <2>2 DEF AL!Inserts, ALP!Inserts, AL!SeqTaken, ALP!SeqTaken, AL!Duplicate,
         ALP!Duplicate, AL!RowsOf, ALP!RowsOf
    <3>6. log' = ALP!WithRow(app[p])
      BY <3>3 DEF AL!WithRow, ALP!WithRow
    <3>7. app[p].max <= ALP!MaxSeq
      BY <2>1 DEF ALP!LogInv, ALP!SnapshotsAreOld
    <3>8. /\ app[p].max = ALP!MaxSeq /\ DOMAIN log' = 1..(ALP!MaxSeq + 1)
          /\ log'[ALP!MaxSeq + 1] = app[p].entry
      BY <1>0, <3>5, <3>6, <3>7, ALP!InsertAddsNext, KeysAssumption, RuntimeBounds
    <3>9. PICK m : m = AL!MaxSeq
      OBVIOUS
    <3>10. m = ALP!MaxSeq
      BY <3>9, Zenon DEF AL!MaxSeq, ALP!MaxSeq, AL!MaxSeqOf, ALP!MaxSeqOf
    <3>11. m \in Nat /\ DOMAIN log = 1..m
      BY <3>9, SeqFacts
    <3>12. n = m + 1 /\ DOMAIN log' = DOMAIN log \cup {m + 1} /\ log'[m + 1] = app[p].entry
      BY <3>1, <3>8, <3>10, <3>11
    <3>13. app'[p] = d /\ \A q \in (Calls \cup Slots) \ {p} : app'[q] = app[q]
      BY <1>0, <3>3
    <3> QED BY <2>1, <3>4, <3>9, <3>12, <3>13 DEF AL!InFlight
  <2>3. CASE ~AL!Inserts(app[p])
    <3>1. PICK d : d = AL!Result(app[p], IF AL!SeqTaken(app[p]) THEN "error" ELSE "relookup", 0)
      OBVIOUS
    <3>2. log' = log /\ app' = [app EXCEPT ![p] = d]
      BY <1>3, <2>3, <3>1 DEF AL!Insert
    <3>3. d.phase # "ok"
      BY <3>1 DEF AL!Result, AL!CallIn
    <3> QED BY <1>0, <2>1, <3>2, <3>3 DEF AL!InFlight
  <2> QED BY <2>2, <2>3
<1> QED BY <1>1, <1>2, <1>3 DEF Statement

\* The row a statement adds is the one to come for the engine whose mutex is held,
\* or the first one of the log.
LEMMA CalmStatement ==
  ASSUME RuntimeInv, ALP!LogInv, AppliedInv, CalmInv, NEW p \in Calls \cup Slots, Statement(p)
  PROVE  CalmInv'
<1>1. /\ app[p].phase \in AL!InFlight /\ orphans' = orphans
      /\ \A q \in (Calls \cup Slots) \ {p} : app'[q] = app[q]
      /\ UNCHANGED <<current, states, call>> /\ Calls \cap Slots = {}
  BY StatementFacts, SlotsAssumption DEF Statement
<1>2. Owner(p)
  BY <1>1 DEF CalmInv, AL!InFlight
<1>3. CASE p \in Calls /\ call[p].pc = "seed"
  <2>1. p \in Loading /\ current = 0 /\ Loading \subseteq {p}
    BY <1>3 DEF CalmInv, Loading
  <2>2. LoadCalm(p)'
    <3>1. app[p].entry.req = None /\ DOMAIN log = {}
      <4>1. app[p].entry = AL!TickEntry
        BY <1>3 DEF AppliedInv, PhaseOK
      <4>2. LoadCalm(p) /\ app[p].phase # "ok"
        BY <1>1, <1>3 DEF CalmInv, AL!InFlight
      <4> QED BY <1>3, <4>1, <4>2 DEF LoadCalm, AL!TickEntry
    <3>2. DOMAIN log' = IF app'[p].phase = "ok" THEN {app'[p].seq} ELSE {}
      BY <3>1, StatementFacts
    <3> QED BY <1>1, <1>3, <3>2 DEF LoadCalm
  <2>3. /\ UNCHANGED <<orphans, current, states>> /\ \A d \in Calls \ {p} : call'[d] = call[d]
        /\ call'[p].pc = "seed"
    BY <1>1, <1>3
  <2> QED BY <1>1, <1>3, <2>1, <2>2, <2>3, CalmLoading
<1>4. ASSUME NEW t \in Slots, states[t].loaded, states[t].mu # Free, Holder(t) = p,
             Owner(p)', p \in Calls => call[p].pc \notin LoadPCs
      PROVE  CalmInv'
  <2>1. PICK last, m : last = states[t].lastSeq /\ m = AL!MaxSeq
    OBVIOUS
  <2>2. /\ DOMAIN log = states[t].applied /\ \A i \in DOMAIN log : i <= last
        /\ m \in Nat /\ last \in 1..m
    <3>1. ~RowToCome(t)
      BY <1>1, <1>4 DEF RowToCome, AL!InFlight
    <3>2. DOMAIN log = states[t].applied
      BY <1>4, <3>1 DEF CalmInv, Recorded
    <3>3. EngineOK(states[t])
      BY DEF AppliedInv
    <3> QED BY <1>4, <2>1, <3>2, <3>3, SeqFacts DEF EngineOK
  <2>3. Holder(t)' = p /\ states'[t] = states[t]
    BY <1>1, <1>4 DEF Holder
  <2>4. Recorded(t)'
    <3>1. PICK n, ph : n = app'[p].seq /\ ph = app'[p].phase
      OBVIOUS
    <3>2. RowToCome(t)' <=> ph = "ok" /\ n > last
      BY <1>4, <2>1, <2>3, <3>1 DEF RowToCome
    <3>3. CASE log' = log /\ (ph = "ok" => n \in DOMAIN log)
      <4>1. ~(ph = "ok" /\ n > last)
        BY <2>2, <3>3, SeqFacts
      <4> QED BY <2>2, <2>3, <3>2, <3>3, <4>1 DEF Recorded
    <3>4. CASE ph = "ok" /\ n = m + 1 /\ DOMAIN log' = DOMAIN log \cup {m + 1}
      <4>1. n > last
        BY <2>2, <3>4
      <4> QED BY <2>2, <2>3, <3>1, <3>2, <3>4, <4>1 DEF Recorded
    <3> QED BY <2>1, <3>1, <3>3, <3>4, StatementFacts
  <2>5. /\ UNCHANGED <<orphans, current>> /\ \A s \in Slots \ {t} : states'[s] = states[s]
        /\ \A c \in Calls : call'[c] = call[c]
    BY <1>1
  <2> QED BY <1>1, <1>4, <2>3, <2>4, <2>5, CalmAtSlot
<1>5. CASE p \in Calls /\ call[p].pc = "append"
  <2>1. PICK t : t = call[p].slot
    OBVIOUS
  <2>2. t \in Slots /\ states[t].loaded /\ states[t].mu = p /\ p # Free /\ p # TickLoop
    BY <1>5, <2>1, MutexAssumption DEF RuntimeInv, CallOK, HasState
  <2>3. Owner(p)'
    BY <1>1, <1>5 DEF Owner
  <2> QED BY <1>4, <1>5, <2>2, <2>3 DEF Holder, LoadPCs
<1>6. CASE p \in Slots /\ states[p].mu = TickLoop
  <2>1. states[p].loaded /\ Free # TickLoop
    BY <1>6 DEF RuntimeInv, SlotOK, Free, TickLoop
  <2>2. Owner(p)' /\ p \notin Calls
    BY <1>1, <1>6 DEF Owner
  <2> QED BY <1>4, <1>6, <2>1, <2>2 DEF Holder
<1> QED BY <1>2, <1>3, <1>5, <1>6 DEF Owner

\* A restart leaves no INSERT behind, and nothing that is under way.
LEMMA CalmCrash ==
  ASSUME RuntimeInv, ALP!LogInv, BudgetInv, Undisturbed, Undisturbed', CalmInv, Crash
  PROVE  CalmInv'
<1>1. orphans' = {}
  BY UndisturbedSteps DEF CalmInv
<1>2. \A s \in Slots : ~states'[s].loaded
  BY EmptyStateFacts DEF Crash, EmptyState
<1>3. \A c \in Calls : call'[c].pc \in {"new", "done"}
  <2> SUFFICES ASSUME NEW c \in Calls PROVE call'[c].pc \in {"new", "done"}
    OBVIOUS
  <2>1. PICK old : old = call
    OBVIOUS
  <2>2. Reply(c, "lost", 0)[c].pc = "done"
    BY DEF Reply, RuntimeInv, Shapes, IsMap, CallFields
  <2>3. call'[c] = IF call[c].pc \in {"new", "done"} THEN call[c] ELSE Reply(c, "lost", 0)[c]
    BY DEF Crash
  <2> QED BY <2>2, <2>3
<1>4. \A p \in Calls \cup Slots : app'[p].phase = "idle"
  BY DEF Crash, AL!Abandon, AL!IdleCall, AL!CallIn
<1>5. Loading' = {}
  BY <1>3 DEF Loading
<1>6. \A c \in Calls : LoadCalm(c)'
  BY <1>3 DEF LoadCalm
<1> QED BY <1>1, <1>2, <1>4, <1>5, <1>6 DEF CalmInv

LEMMA CalmInvStep ==
  ASSUME RuntimeInv, ALP!LogInv, AcceptedInv, AppliedInv, BudgetInv, WonIsOver,
         Undisturbed, Undisturbed', CalmInv, [Next]_vars
  PROVE  CalmInv'
<1>s. Shapes
  BY DEF RuntimeInv
<1>1. ASSUME NEW c \in Calls, NEW op, NEW key, NEW req, Start(c, op, key, req) PROVE CalmInv'
  <2>1. /\ UNCHANGED <<log, app, orphans, current, states>>
        /\ \A d \in Calls \ {c} : call'[d] = call[d]
        /\ call[c].pc = "new" /\ call'[c].pc = "state"
    BY <1>s, <1>1 DEF Start, logVars, Shapes, IsMap, CallFields
  <2> QED BY <2>1, CalmQuiet DEF LoadPCs
<1>2. CASE /\ UNCHANGED <<log, app, orphans, current, states, call>>
  BY <1>2, CalmQuiet
<1>3. ASSUME NEW o \in orphans PROVE FALSE
  BY <1>3 DEF CalmInv
<1>4. \A p \in Calls \cup Slots : ~StatementFails(p)
  BY UndisturbedSteps
<1> QED BY <1>1, <1>2, <1>3, <1>4, CalmState, CalmOperation, CalmTickBegin, CalmTickEnd,
       CalmStatement, CalmCrash DEF Next, Receive, vars, logVars

\* A disturbance is not undone, so an undisturbed state has only undisturbed ones
\* before it.
LEMMA UndisturbedBefore ==
  ASSUME RuntimeInv, ALP!LogInv, BudgetInv, [Next]_vars, Undisturbed'
  PROVE  Undisturbed
<1>1. budget.faults = 0 /\ budget.races = 0
  <2>1. BudgetInv' /\ BudgetGrows
    BY BudgetMoves
  <2>2. PICK f, r, f2, r2 :
          f = budget.faults /\ r = budget.races /\ f2 = budget'.faults /\ r2 = budget'.races
    OBVIOUS
  <2>3. f \in Nat /\ r \in Nat /\ f <= f2 /\ r <= r2 /\ f2 = 0 /\ r2 = 0
    BY <2>1, <2>2 DEF BudgetInv, BudgetGrows, Undisturbed
  <2> QED BY <2>2, <2>3
<1>2. \A i \in DOMAIN log : log[i].type = "player" => log[i].key \in DOMAIN Sim.actions
  BY RowsOfRunStay DEF Undisturbed
<1> QED BY <1>1, <1>2 DEF Undisturbed

RebuildInv == BudgetInv /\ WonIsOver /\ (Undisturbed => CalmInv)

LEMMA RebuildInvInit == Init => RebuildInv
<1> SUFFICES ASSUME Init PROVE RebuildInv
  OBVIOUS
<1>1. BudgetInv
  BY DEF Init, BudgetInv, IsMap
<1>2. \A s \in Slots : ~states[s].loaded
  BY EmptyStateFacts DEF Init, EmptyState
<1>3. \A c \in Calls : call[c].pc = "new"
  BY DEF Init, NewCall
<1>4. orphans = {} /\ \A p \in Calls \cup Slots : app[p].phase = "idle"
  BY DEF Init, AL!LogInit, AL!IdleCall, AL!CallIn
<1>5. CalmInv
  BY <1>2, <1>3, <1>4 DEF CalmInv, Loading, LoadCalm
<1> QED BY <1>1, <1>2, <1>5 DEF RebuildInv, WonIsOver

LEMMA RebuildInvNext ==
  ASSUME RuntimeInv, ALP!LogInv, AcceptedInv, AppliedInv, RebuildInv, [Next]_vars
  PROVE  RebuildInv'
<1>1. BudgetInv'
  BY BudgetMoves DEF RebuildInv
<1>2. WonIsOver'
  BY WonIsOverNext DEF RebuildInv
<1>3. ASSUME Undisturbed' PROVE CalmInv'
  <2>1. BudgetInv /\ WonIsOver
    BY DEF RebuildInv
  <2>2. Undisturbed
    BY <1>3, <2>1, UndisturbedBefore
  <2>3. CalmInv
    BY <2>2 DEF RebuildInv
  <2> QED BY <1>3, <2>1, <2>2, <2>3, CalmInvStep
<1> QED BY <1>1, <1>2, <1>3 DEF RebuildInv

\* While nothing fails, no two loads overlap and clients send what the room knows,
\* a restart at any moment loses nothing: whenever nobody is in the mutex of the
\* run's state, lastSeq is the last row of run_actions and Replay of its rows
\* (loadState in cmd/engine-a/runtime.go) gives exactly the engine in memory.
THEOREM RestartsRebuild == Spec => []RebuildsFromLog
<1>1. Init => RebuildInv
  BY RebuildInvInit
<1>2. RuntimeInv /\ ALP!LogInv /\ AcceptedInv /\ AppliedInv /\ RebuildInv /\ [Next]_vars
        => RebuildInv'
  BY RebuildInvNext
<1>3. RuntimeInv /\ ALP!LogInv /\ AppliedInv /\ RebuildInv => RebuildsFromLog
  <2> SUFFICES ASSUME RuntimeInv, ALP!LogInv, AppliedInv, RebuildInv, Undisturbed,
                      NEW s \in Slots, states[s].loaded, states[s].mu = Free
               PROVE  /\ states[s].lastSeq = AL!MaxSeq
                      /\ Replay(Sim, Listed) = Ok(states[s].engine)
    BY DEF RebuildsFromLog
  <2>1. DOMAIN log = states[s].applied
    BY HeldFacts DEF RebuildInv
  <2>2. EngineOK(states[s])
    BY DEF AppliedInv
  <2>3. Replay(Sim, Listed) = Ok(states[s].engine)
    BY <2>1, <2>2, ListedFacts DEF EngineOK
  <2>4. PICK m, last : m = AL!MaxSeq /\ last = states[s].lastSeq
    OBVIOUS
  <2>5. m \in Nat /\ last \in 1..m /\ \A i \in 1..m : i <= last
    BY <2>1, <2>2, <2>4, SeqFacts DEF EngineOK
  <2>6. last = m
    <3>1. m \in 1..m
      BY <2>5
    <3> QED BY <2>5, <3>1
  <2> QED BY <2>3, <2>4, <2>6
<1> QED BY <1>1, <1>2, <1>3, RuntimeInvariant, LogOfRuntime, AppliedInvariant, PTL DEF Spec

-----------------------------------------------------------------------------
(***************************************************************************)
(* Every API call is atomic                                                *)
(***************************************************************************)

\* A loaded run state is terminal when its engine is over, and only then.
OverIsTerminal ==
  \A s \in Slots : states[s].loaded => (states[s].terminal <=> Over(states[s].engine))

LEMMA OverIsTerminalNext ==
  ASSUME RuntimeInv, ALP!LogInv, AppliedInv, OverIsTerminal, [Next]_vars
  PROVE  OverIsTerminal'
<1> SUFFICES ASSUME NEW s \in Slots, states'[s].loaded
             PROVE  states'[s].terminal <=> Over(states'[s].engine)
  BY DEF OverIsTerminal, Over
<1>1. CASE EngineStays(s)
  BY <1>1 DEF EngineStays, SameEngine, OverIsTerminal
<1>2. CASE EngineLoads(s)
  <2>1. PICK e, rows : states'[s] = Loaded(e, rows)
    BY <1>2 DEF EngineLoads
  <2>2. PICK over, last, S :
          over = Over(e) /\ last = Last(rows).seq /\ S = {rows[i].seq : i \in DOMAIN rows}
    OBVIOUS
  <2>3. states'[s] = [EmptyState EXCEPT !.loaded = TRUE, !.engine = e, !.lastSeq = last,
                                        !.terminal = over, !.applied = S]
    BY <2>1, <2>2 DEF Loaded
  <2>4. states'[s].engine = e /\ states'[s].terminal = over
    BY <2>3, EmptyStateFacts DEF IsMap, StateFields
  <2> QED BY <2>2, <2>4
<1>3. CASE EngineActs(s)
  <2>1. PICK c \in Calls :
          /\ call[c].pc = "append" /\ call[c].slot = s /\ states'[s].terminal = states[s].terminal
          /\ TakesResult(s, ApplyAction(Sim, states[s].engine, call[c].key, call[c].req),
                         app[c].seq)
    BY <1>3 DEF EngineActs
  <2>2. states[s].loaded /\ EngineOK(states[s]) /\ states[s].mu = c /\ c # Free
    BY <2>1, MutexAssumption DEF RuntimeInv, CallOK, HasState, AppliedInv
  <2>3. ~states[s].terminal
    BY <2>2 DEF RuntimeInv, SlotOK
  <2>4. ~Over(states[s].engine)
    BY <2>2, <2>3 DEF OverIsTerminal
  <2>5. ~Over(states'[s].engine)
    BY <2>1, <2>2, <2>4, ActionsDoNotWin DEF TakesResult
  <2> QED BY <2>1, <2>3, <2>5
<1>4. CASE EngineTicks(s)
  BY <1>4 DEF EngineTicks
<1> QED BY <1>1, <1>2, <1>3, <1>4, StepsOfEngines DEF EngineSteps, EngineLost

\* What a call has asked for and been told, at each stage.
CallShape(c) ==
  /\ call[c].op \in {"none", "connect", "deltas", "wins", "apply"}
  /\ call[c].pc = "new" <=> call[c].op = "none"
  /\ call[c].pc = "new" => call[c].key = None /\ call[c].req = None
  /\ call[c].pc = "done" <=> call[c].reply # "none"
  /\ call[c].pc # "done" => call[c].seq = 0
  /\ call[c].pc = "subscribed" => call[c].op = "deltas"

AnswerFields == {"op", "key", "req", "reply", "seq"}

\* What a step may do to the calls: nothing clients see; start one; answer one that
\* is under way; or answer all of them with their loss.
SameAnswer(c) ==
  /\ \A f \in AnswerFields : call'[c][f] = call[c][f]
  /\ call'[c].pc = "new" <=> call[c].pc = "new"
  /\ call'[c].pc = "done" <=> call[c].pc = "done"
  /\ call'[c].pc = "subscribed" => call[c].pc = "subscribed" \/ call[c].op = "deltas"
Starts(c) ==
  \/ \E op \in Ops \ {"apply"} : Start(c, op, None, None)
  \/ \E key \in Keys, req \in Reqs : "apply" \in Ops /\ Start(c, "apply", key, req)
Answers(c, what, n) ==
  /\ call' = Reply(c, what, n) /\ call[c].pc \notin {"new", "done"} /\ what # "none"

LEMMA SameAnswers ==
  ASSUME Shapes, NEW c \in Calls, \A d \in Calls \ {c} : call'[d] = call[d], SameAnswer(c)
  PROVE  \A d \in Calls : SameAnswer(d)
BY DEF SameAnswer

\* The steps of a call that do not answer it.
LEMMA QuietSteps ==
  ASSUME RuntimeInv, ALP!LogInv, NEW c \in Calls, StateStep(c) \/ OperationStep(c)
  PROVE  (\A d \in Calls : SameAnswer(d)) \/ \E what, n : Answers(c, what, n)
<1>s. Shapes /\ \A d \in Calls \ {c} : call'[d] = call[d]
  BY StateStepMoves, OperationStepMoves DEF RuntimeInv
<1>1. ASSUME NEW pc \in {"load", "seed", "append"}, call' = Goto(c, pc), call[c].pc \notin {"new", "done"}
      PROVE  SameAnswer(c)
  BY <1>s, <1>1 DEF Goto, Shapes, IsMap, CallFields, SameAnswer, AnswerFields
<1>2. ASSUME NEW pc \in {"install", "lock", "subscribed"}, NEW s, NEW rows,
             \/ call' = [call EXCEPT ![c].pc = pc, ![c].slot = s]
             \/ call' = [call EXCEPT ![c].pc = pc, ![c].rows = rows]
             \/ call' = [call EXCEPT ![c].pc = pc, ![c].slot = s, ![c].rows = rows]
             \/ call' = [call EXCEPT ![c].pc = pc],
             call[c].pc \notin {"new", "done"}, pc = "subscribed" => call[c].op = "deltas"
      PROVE  SameAnswer(c)
  BY <1>s, <1>2 DEF Shapes, IsMap, CallFields, SameAnswer, AnswerFields
<1>3. CASE FindsState(c) \/ ListActions(c)
  <2>1. PICK s, rows : s = current /\ rows = Listed
    OBVIOUS
  <2> QED BY <1>s, <1>2, <1>3, <2>1, SameAnswers DEF FindsState, ListActions
<1>4. CASE MissesState(c) \/ SeedFirstTick(c)
  BY <1>s, <1>1, <1>4, SameAnswers DEF MissesState, SeedFirstTick
<1>5. CASE Seeded(c)
  <2>1. PICK rows : rows = <<[seq |-> app[c].seq, type |-> "tick", key |-> None, req |-> None]>>
    OBVIOUS
  <2>2. CASE app[c].phase = "ok"
    <3>1. call' = [call EXCEPT ![c].pc = "install", ![c].rows = rows] /\ call[c].pc = "seed"
      BY <1>5, <2>1, <2>2 DEF Seeded
    <3> QED BY <1>s, <1>2, <3>1, SameAnswers
  <2>3. CASE app[c].phase # "ok"
    BY <1>5, <2>3 DEF Seeded, Answers
  <2> QED BY <2>2, <2>3
<1>6. CASE LoadFails(c)
  BY <1>6 DEF LoadFails, Answers
<1>7. CASE Install(c)
  <2>1. PICK e : e = Replay(Sim, call[c].rows)
    OBVIOUS
  <2>2. CASE e.err # NoErr
    BY <1>7, <2>1, <2>2 DEF Install, Answers
  <2>3. CASE e.err = NoErr
    <3>1. PICK s \in Slots : call' = [call EXCEPT ![c].pc = "lock", ![c].slot = s, ![c].rows = <<>>]
      BY <1>7, <2>1, <2>3 DEF Install
    <3>2. call[c].pc = "install"
      BY <1>7 DEF Install
    <3> QED BY <1>s, <1>2, <3>1, <3>2, SameAnswers
  <2> QED BY <2>2, <2>3
<1>8. CASE Connect(c) \/ SubscribeWinUpdates(c)
  BY <1>8 DEF Connect, SubscribeWinUpdates, Locks, Answers
<1>9. CASE SubscribeDeltas(c)
  <2>1. call' = [call EXCEPT ![c].pc = "subscribed"] /\ call[c].pc = "lock" /\ call[c].op = "deltas"
    BY <1>9 DEF SubscribeDeltas, Locks
  <2> QED BY <1>s, <1>2, <2>1, SameAnswers
<1>10. CASE ApplyBegin(c)
  BY <1>s, <1>1, <1>10, SameAnswers DEF ApplyBegin, Locks, Answers
<1>11. CASE ApplyEnd(c)
  BY <1>11 DEF ApplyEnd, Answers, AL!Return, AL!Finished
<1> QED BY <1>3, <1>4, <1>5, <1>6, <1>7, <1>8, <1>9, <1>10, <1>11 DEF StateStep, OperationStep

LEMMA StepsOfAnswers ==
  ASSUME RuntimeInv, ALP!LogInv, [Next]_vars
  PROVE  \/ \A d \in Calls : SameAnswer(d)
         \/ \E c \in Calls : Starts(c)
         \/ \E c \in Calls : /\ StateStep(c) \/ OperationStep(c) \/ Unsubscribe(c)
                             /\ \E what, n : Answers(c, what, n)
         \/ Crash
<1>1. CASE call' = call
  BY <1>1 DEF SameAnswer
<1>2. ASSUME NEW c \in Calls, Unsubscribe(c) PROVE Answers(c, "closed", 0)
  BY <1>2 DEF Unsubscribe, Answers
<1> QED BY <1>1, <1>2, QuietSteps DEF Next, Starts, Receive, TickBegin, TickEnd, HoldExpires,
     Statement, StatementFails, LateInsert, vars

LEMMA CallShapeInit ==
  ASSUME Init, NEW c \in Calls
  PROVE  CallShape(c)
BY DEF Init, NewCall, CallShape

LEMMA CallShapeNext ==
  ASSUME RuntimeInv, ALP!LogInv, [Next]_vars, \A d \in Calls : CallShape(d), NEW c \in Calls
  PROVE  CallShape(c)'
<1>s. Shapes /\ CallShape(c)
  BY DEF RuntimeInv
<1>1. CASE SameAnswer(c)
  BY <1>s, <1>1 DEF SameAnswer, AnswerFields, CallShape
<1>2. ASSUME NEW b \in Calls, NEW what, NEW n, Answers(b, what, n) PROVE CallShape(c)'
  <2>1. CASE b = c
    <3>1. /\ call'[c].pc = "done" /\ call'[c].reply # "none" /\ call'[c].op = call[c].op
          /\ call[c].pc # "new"
      BY <1>s, <1>2, <2>1, ReplyFacts DEF Answers
    <3> QED BY <1>s, <3>1 DEF CallShape
  <2>2. CASE b # c
    <3>1. call'[c] = call[c]
      BY <1>s, <1>2, <2>2, ReplyFacts DEF Answers
    <3> QED BY <1>s, <3>1 DEF CallShape
  <2> QED BY <2>1, <2>2
<1>3. ASSUME NEW b \in Calls, Starts(b) PROVE CallShape(c)'
  <2>1. PICK op, key, req : Start(b, op, key, req) /\ op \in {"connect", "deltas", "wins", "apply"}
    BY <1>3, OpsAssumption DEF Starts
  <2>2. CASE b = c
    <3>1. /\ call'[c].pc = "state" /\ call'[c].op = op /\ call'[c].reply = call[c].reply
          /\ call'[c].seq = call[c].seq /\ call[c].pc = "new"
      BY <1>s, <2>1, <2>2 DEF Start, Shapes, IsMap, CallFields
    <3> QED BY <1>s, <2>1, <3>1 DEF CallShape
  <2>3. CASE b # c
    <3>1. call'[c] = call[c]
      BY <1>s, <2>1, <2>3 DEF Start, Shapes, IsMap
    <3> QED BY <1>s, <3>1 DEF CallShape
  <2> QED BY <2>2, <2>3
<1>4. CASE Crash
  <2>1. CASE call[c].pc \in {"new", "done"}
    BY <1>s, <1>4, <2>1 DEF Crash, CallShape
  <2>2. CASE call[c].pc \notin {"new", "done"}
    <3>1. PICK next : next = Reply(c, "lost", 0)
      OBVIOUS
    <3>2. next[c].pc = "done" /\ next[c].reply = "lost" /\ next[c].op = call[c].op
      BY <1>s, <3>1, ReplyFacts
    <3>3. call'[c] = next[c]
      BY <1>4, <2>2, <3>1 DEF Crash
    <3> QED BY <1>s, <2>2, <3>2, <3>3 DEF CallShape
  <2> QED BY <2>1, <2>2
<1> QED BY <1>1, <1>2, <1>3, <1>4, StepsOfAnswers

\* Two appends are never under way at once.
LEMMA OneOwner ==
  ASSUME RuntimeInv, CalmInv, NEW p \in Calls \cup Slots, NEW q \in Calls \cup Slots,
         Owner(p), Owner(q)
  PROVE  p = q
<1>1. ASSUME NEW o \in Calls \cup Slots, Owner(o)
      PROVE  \/ o \in Loading /\ current = 0
             \/ current \in Slots /\ states[current].loaded /\ Holder(current) = o
                /\ states[current].mu # Free
  <2>1. CASE o \in Calls /\ call[o].pc = "seed"
    BY <2>1 DEF Loading, CalmInv
  <2>2. CASE o \in Calls /\ call[o].pc = "append"
    <3>1. PICK t : t = call[o].slot
      OBVIOUS
    <3>2. t \in Slots /\ states[t].loaded /\ states[t].mu = o /\ o # Free /\ o # TickLoop
      BY <2>2, <3>1, MutexAssumption DEF RuntimeInv, CallOK, HasState
    <3>3. current = t
      BY <3>2 DEF CalmInv
    <3> QED BY <3>2, <3>3 DEF Holder
  <2>3. CASE o \in Slots /\ states[o].mu = TickLoop
    <3>1. states[o].loaded /\ TickLoop # Free
      BY <2>3 DEF RuntimeInv, SlotOK, Free, TickLoop
    <3>2. current = o
      BY <2>3, <3>1 DEF CalmInv
    <3> QED BY <2>3, <3>1, <3>2 DEF Holder
  <2> QED BY <1>1, <2>1, <2>2, <2>3 DEF Owner
<1>2. 0 \notin Slots
  BY DEF Slots
<1>3. CASE current = 0
  <2>1. p \in Loading /\ q \in Loading
    BY <1>1, <1>2, <1>3
  <2> QED BY <2>1 DEF CalmInv
<1>4. CASE current # 0
  BY <1>1, <1>4
<1> QED BY <1>3, <1>4

\* The log changes by the statement of an append only.
LEMMA RowsAddedBy ==
  ASSUME RuntimeInv, ALP!LogInv, CalmInv, [Next]_vars
  PROVE  log' = log \/ \E q \in Calls \cup Slots : Statement(q)
<1>1. ASSUME NEW o \in orphans PROVE FALSE
  BY <1>1 DEF CalmInv
<1>2. ASSUME NEW c \in Calls, StateStep(c) PROVE log' = log
  BY <1>2 DEF StateStep, FindsState, MissesState, ListActions, SeedFirstTick, Seeded,
     LoadFails, Install, logVars, AL!Begin, AL!Return
<1>3. ASSUME NEW c \in Calls, OperationStep(c) \/ Unsubscribe(c) PROVE log' = log
  BY <1>3 DEF OperationStep, Connect, SubscribeDeltas, SubscribeWinUpdates, ApplyBegin,
     ApplyEnd, Unsubscribe, logVars, AL!Begin, AL!Return
<1>4. ASSUME NEW s \in Slots, TickBegin(s) \/ TickEnd(s) \/ HoldExpires(s) PROVE log' = log
  BY <1>4 DEF TickBegin, TickEnd, HoldExpires, logVars, AL!Begin, AL!Return
<1> QED BY <1>1, <1>2, <1>3, <1>4 DEF Next, Start, Receive, StatementFails, Crash, vars,
     logVars, AL!Fail, AL!Abandon

\* An append sees the log as it is until its own row is there, so nothing refuses it.
AppCalm(p) ==
  /\ app[p].phase \notin {"relookup", "error"}
  /\ app[p].phase \in {"snapshot", "insert"} => ~AL!Duplicate(app[p])
  /\ app[p].phase = "insert" => app[p].max = AL!MaxSeq

LEMMA AppCalmStatement ==
  ASSUME RuntimeInv, ALP!LogInv, NEW p \in Calls \cup Slots, AppCalm(p), Statement(p)
  PROVE  AppCalm(p)'
<1>0. app \in [Calls \cup Slots -> ALP!Call] /\ DOMAIN log = 1..AL!MaxSeq /\ AL!MaxSeq \in Nat
  BY SeqFacts
<1>1. CASE AL!Lookup(p)
  <2>1. PICK d : d = AL!Looked(app[p], "snapshot")
    OBVIOUS
  <2>2. app'[p] = d /\ log' = log
    BY <1>0, <1>1, <2>1 DEF AL!Lookup
  <2>3. \/ d.phase \in {"ok", "conflict"}
        \/ d.phase = "snapshot" /\ d.entry = app[p].entry /\ AL!RowsOf(app[p].entry.req) = {}
    BY <2>1 DEF AL!Looked, AL!Result, AL!CallIn
  <2> QED BY <2>2, <2>3 DEF AppCalm, AL!Duplicate, AL!RowsOf
<1>2. CASE AL!Snapshot(p)
  <2>1. PICK m, d : m = AL!MaxSeq /\ d = AL!CallIn("insert", app[p].entry, m, 0)
    OBVIOUS
  <2>2. app'[p] = d /\ log' = log /\ app[p].phase = "snapshot"
    BY <1>0, <1>2, <2>1 DEF AL!Snapshot
  <2>3. d.phase = "insert" /\ d.entry = app[p].entry /\ d.max = m
    BY <2>1 DEF AL!CallIn
  <2>4. m = AL!MaxSeq'
    BY <2>1, <2>2 DEF AL!MaxSeq, AL!MaxSeqOf
  <2>5. ~AL!Duplicate(d)'
    BY <2>2, <2>3 DEF AppCalm, AL!Duplicate, AL!RowsOf
  <2> QED BY <2>2, <2>3, <2>4, <2>5 DEF AppCalm, AL!Duplicate, AL!RowsOf
<1>3. CASE AL!Insert(p)
  <2>1. app[p].phase = "insert" /\ app[p].max = AL!MaxSeq /\ ~AL!Duplicate(app[p])
    BY <1>3 DEF AL!Insert, AppCalm
  <2>2. ~AL!SeqTaken(app[p])
    <3>1. PICK m : m = AL!MaxSeq
      OBVIOUS
    <3>2. m + 1 \notin DOMAIN log
      BY <1>0, <3>1
    <3> QED BY <2>1, <3>1, <3>2 DEF AL!SeqTaken
  <2>3. PICK d, n : d = AL!Result(app[p], "ok", n) /\ app'[p] = d
    BY <1>0, <1>3, <2>1, <2>2 DEF AL!Insert, AL!Inserts
  <2>4. app'[p].phase = "ok"
    BY <2>3 DEF AL!Result, AL!CallIn
  <2> QED BY <2>4 DEF AppCalm
<1>4. CASE AL!Relookup(p)
  BY <1>4 DEF AL!Relookup, AppCalm
<1> QED BY <1>1, <1>2, <1>3, <1>4 DEF Statement

LEMMA AppCalmNext ==
  ASSUME RuntimeInv, ALP!LogInv, BudgetInv, Undisturbed, Undisturbed', CalmInv, [Next]_vars,
         \A p \in Calls \cup Slots : AppCalm(p), NEW p \in Calls \cup Slots
  PROVE  AppCalm(p)'
<1>0. app \in [Calls \cup Slots -> ALP!Call]
  BY SeqFacts
<1>1. CASE Statement(p)
  BY <1>1, AppCalmStatement
<1>2. CASE app'[p] = AL!IdleCall
  BY <1>2 DEF AppCalm, AL!IdleCall, AL!CallIn
<1>3. ASSUME NEW e, AL!Begin(p, e) PROVE AppCalm(p)'
  <2>1. /\ app'[p].phase = (IF e.req = None THEN "snapshot" ELSE "lookup")
        /\ app'[p].entry = e
    BY <1>0, <1>3 DEF AL!Begin, AL!CallIn
  <2> QED BY <2>1 DEF AppCalm, AL!Duplicate
<1>4. CASE app'[p] = app[p] /\ log' = log
  BY <1>4 DEF AppCalm, AL!Duplicate, AL!RowsOf, AL!MaxSeq, AL!MaxSeqOf
<1>5. CASE app'[p] = app[p] /\ \E q \in Calls \cup Slots : Statement(q) /\ q # p
  <2>1. PICK q \in Calls \cup Slots : Statement(q) /\ q # p
    BY <1>5
  <2>2. Owner(q)
    BY <2>1, StatementFacts DEF CalmInv, AL!InFlight
  <2>3. app[p].phase = "idle"
    BY <2>1, <2>2, OneOwner DEF CalmInv
  <2> QED BY <1>5, <2>3 DEF AppCalm
<1>6. ~StatementFails(p)
  BY UndisturbedSteps
<1> QED BY <1>1, <1>2, <1>3, <1>4, <1>5, <1>6, StepsOfApps, RowsAddedBy DEF AppSteps, BeginsFor,
       SeedFirstTick, StartsTick

\* The engine that is not inside its mutex, or waits for its row, is at the end of
\* the log.
LEMMA AtTheEnd ==
  ASSUME RuntimeInv, ALP!LogInv, AppliedInv, CalmInv, NEW t \in Slots, states[t].loaded,
         ~RowToCome(t)
  PROVE  states[t].lastSeq = AL!MaxSeq /\ Replay(Sim, Listed) = Ok(states[t].engine)
<1>1. DOMAIN log = states[t].applied
  BY DEF CalmInv, Recorded
<1>2. EngineOK(states[t])
  BY DEF AppliedInv
<1>3. Replay(Sim, Listed) = Ok(states[t].engine)
  BY <1>1, <1>2, ListedFacts DEF EngineOK
<1>4. PICK m, last : m = AL!MaxSeq /\ last = states[t].lastSeq
  OBVIOUS
<1>5. m \in Nat /\ last \in 1..m /\ \A i \in 1..m : i <= last
  BY <1>1, <1>2, <1>4, SeqFacts DEF EngineOK
<1>6. m \in 1..m
  BY <1>5
<1>7. last = m
  BY <1>5, <1>6
<1> QED BY <1>3, <1>4, <1>7

\* A statement is made for a run that is not over, on an engine at the end of the log.
LEMMA StatementOfLiveRun ==
  ASSUME RuntimeInv, ALP!LogInv, AppliedInv, OverIsTerminal, CalmInv,
         NEW p \in Calls \cup Slots, Statement(p)
  PROVE  \E e : Replay(Sim, Listed) = Ok(e) /\ ~Over(e)
<1>1. app[p].phase \in AL!InFlight
  BY StatementFacts
<1>2. Owner(p)
  BY <1>1 DEF CalmInv, AL!InFlight
<1>3. CASE p \in Calls /\ call[p].pc = "seed"
  <2>1. DOMAIN log = {}
    BY <1>1, <1>3 DEF CalmInv, LoadCalm, AL!InFlight
  <2>2. AL!MaxSeq = 0
    <3>1. PICK m : m = AL!MaxSeq
      OBVIOUS
    <3>2. m \in Nat /\ 1..m = {}
      BY <2>1, <3>1, SeqFacts
    <3>3. m # 0 => 1 \in 1..m
      BY <3>2
    <3> QED BY <3>1, <3>2, <3>3
  <2>3. Listed = <<>>
    <3>1. Listed = [i \in 1..0 |-> Row(i, i)]
      BY <2>2, ListedFacts
    <3> QED BY <3>1
  <2>4. Replay(Sim, Listed) = Ok(NewEngine(Sim))
    <3>1. LP!Replay(Sim, <<>>) = LP!Ok(LP!NewEngine(Sim)) /\ LP!NewEngine(Sim) = NewEngine(Sim)
      BY LP!ReplayNone DEF LP!NewEngine, NewEngine
    <3> QED BY <2>3, <3>1, SameReplay
  <2>5. ~Over(NewEngine(Sim))
    <3>1. ~NewEngine(Sim).won /\ NewEngine(Sim).tick = 0
      BY DEF NewEngine
    <3> QED BY <3>1, RuntimeBounds DEF Over
  <2> QED BY <2>4, <2>5
<1>4. ASSUME NEW t \in Slots, states[t].loaded, states[t].mu # Free, Holder(t) = p
      PROVE  \E e : Replay(Sim, Listed) = Ok(e) /\ ~Over(e)
  <2>1. ~RowToCome(t)
    BY <1>1, <1>4 DEF RowToCome, AL!InFlight
  <2>2. Replay(Sim, Listed) = Ok(states[t].engine)
    BY <1>4, <2>1, AtTheEnd
  <2>3. ~states[t].terminal
    BY <1>4 DEF RuntimeInv, SlotOK
  <2> QED BY <1>4, <2>2, <2>3 DEF OverIsTerminal
<1>5. CASE p \in Calls /\ call[p].pc = "append"
  <2>1. PICK t : t = call[p].slot
    OBVIOUS
  <2>2. t \in Slots /\ states[t].loaded /\ states[t].mu = p /\ p # Free /\ p # TickLoop
    BY <1>5, <2>1, MutexAssumption DEF RuntimeInv, CallOK, HasState
  <2> QED BY <1>4, <2>2 DEF Holder
<1>6. CASE p \in Slots /\ states[p].mu = TickLoop
  <2>1. states[p].loaded /\ Free # TickLoop
    BY <1>6 DEF RuntimeInv, SlotOK, Free, TickLoop
  <2> QED BY <1>4, <1>6, <2>1 DEF Holder
<1> QED BY <1>2, <1>3, <1>5, <1>6 DEF Owner

\* A row that is added comes last in the list.
LEMMA ListedMore ==
  ASSUME RuntimeInv, ALP!LogInv, [Next]_vars, NEW p \in Calls \cup Slots, Statement(p),
         log' # log
  PROVE  LET new == [seq |-> Len(Listed) + 1, type |-> app[p].entry.type,
                     key |-> app[p].entry.key, req |-> app[p].entry.req]
         IN  /\ Listed' = Append(Listed, new) /\ Len(Listed) = AL!MaxSeq
             /\ \E U : Listed \in Seq(U) /\ new \in U
<1>1. PICK m, D : m = AL!MaxSeq /\ D = DOMAIN log'
  OBVIOUS
<1>2. m \in Nat /\ DOMAIN log = 1..m /\ D = 1..(m + 1) /\ log'[m + 1] = app[p].entry
  <2>1. DOMAIN log' = DOMAIN log \cup {AL!MaxSeq + 1} /\ log'[AL!MaxSeq + 1] = app[p].entry
    BY StatementFacts
  <2> QED BY <1>1, <2>1, SeqFacts
<1>3. Cardinality(D) = m + 1 /\ \A i \in 1..(m + 1) : Nth(D, i) = i
  BY <1>2, NthOfInterval
<1>r. PICK R : R = [i \in 1..(m + 1) |-> Row(i, i)']
  OBVIOUS
<1> DEFINE f == [i \in 1..(m + 1) |-> R[i]]
           g == [i \in 1..m |-> R[i]]
           new == R[m + 1]
           U == {R[i] : i \in 1..(m + 1)}
<1>4. Listed' = f
  <2>1. Listed' = [i \in 1..Cardinality(D) |-> Row(Nth(D, i), Nth(D, i))']
    BY <1>1 DEF Listed
  <2> QED BY <1>3, <1>r, <2>1
<1>5. Listed = g
  <2>1. Listed = [i \in 1..m |-> Row(i, i)]
    BY <1>1, ListedFacts
  <2>2. \A i \in 1..m : Row(i, i)' = Row(i, i)
    BY <1>2, RowsOfRunStay
  <2>3. \A i \in 1..m : R[i] = Row(i, i)'
    BY <1>2, <1>r
  <2> QED BY <2>1, <2>2, <2>3
<1>6. new = [seq |-> m + 1, type |-> app[p].entry.type, key |-> app[p].entry.key,
             req |-> app[p].entry.req]
  <2>1. new = Row(m + 1, m + 1)'
    BY <1>2, <1>r
  <2> QED BY <1>2, <2>1 DEF Row
<1>7. f \in [1..(m + 1) -> U] /\ g \in [1..m -> U] /\ new \in U
  BY <1>2
<1>8. f[m + 1] = new /\ \A i \in 1..m : f[i] = g[i]
  BY <1>2
<1> HIDE DEF f, g, new, U
<1>9. f \in Seq(U) /\ Len(f) = m + 1 /\ g \in Seq(U) /\ Len(g) = m
  BY <1>2, <1>7
<1>10. f = Append(g, new)
  <2>1. /\ Append(g, new) \in Seq(U) /\ Len(Append(g, new)) = m + 1
        /\ \A i \in 1..m : Append(g, new)[i] = g[i]
        /\ Append(g, new)[m + 1] = new
    BY <1>7, <1>9, AppendProperties
  <2>2. \A i \in 1..(m + 1) : f[i] = Append(g, new)[i]
    <3>1. \A i \in 1..(m + 1) : i \in 1..m \/ i = m + 1
      BY <1>2
    <3> QED BY <1>8, <2>1, <3>1
  <2> QED BY <1>9, <2>1, <2>2, SeqEqual
<1> QED BY <1>1, <1>4, <1>5, <1>6, <1>7, <1>9, <1>10

\* Replay takes the log as long as nothing disturbs the run.
LogReplays == Replay(Sim, Listed).err = NoErr

LEMMA LogReplaysNext ==
  ASSUME RuntimeInv, ALP!LogInv, AppliedInv, OverIsTerminal, CalmInv, LogReplays,
         Undisturbed', [Next]_vars
  PROVE  LogReplays'
<1>1. CASE log' = log
  <2>1. Listed' = Listed
    BY <1>1 DEF Listed, Row
  <2> QED BY <2>1 DEF LogReplays
<1>2. ASSUME NEW p \in Calls \cup Slots, Statement(p), log' # log PROVE LogReplays'
  <2>1. PICK entry, m, new :
          /\ entry = app[p].entry /\ m = AL!MaxSeq
          /\ new = [seq |-> m + 1, type |-> entry.type, key |-> entry.key, req |-> entry.req]
    OBVIOUS
  <2>2. PICK U : Listed \in Seq(U) /\ new \in U
    BY <1>2, <2>1, ListedMore
  <2>3. Listed' = Append(Listed, new) /\ Len(Listed) = m
    BY <1>2, <2>1, ListedMore
  <2>4. PICK e : Replay(Sim, Listed) = Ok(e) /\ ~Over(e)
    BY <1>2, StatementOfLiveRun
  <2>5. Len(e.log) = m
    <3>1. LP!Replay(Sim, Listed) = LP!Ok(e) /\ LP!Ok(e).err = LP!NoErr /\ LP!Ok(e).engine = e
      BY <2>4, SameReplay DEF LP!Ok
    <3>2. LP!Replay(Sim, Listed).err = LP!NoErr /\ LP!Replay(Sim, Listed).engine = e
      BY <3>1
    <3> QED BY <2>2, <2>3, <3>2, LP!ReplayedLog
  <2>6. log'[m + 1] = entry /\ m + 1 \in DOMAIN log'
    BY <1>2, <2>1, StatementFacts
  <2>7. entry \in ALP!Entry
    BY <2>1, SeqFacts DEF ALP!Call
  <2>8. /\ new.seq = m + 1 /\ new.type = entry.type /\ new.key = entry.key /\ new.req = entry.req
    BY <2>1
  <2>9. /\ HasShape(new)
        /\ new.type \in {"tick", "player"}
        /\ new.type = "player" => new.key \in DOMAIN Sim.actions
    <3>1. CASE entry = ALP!TickEntry
      BY <2>8, <3>1 DEF ALP!TickEntry, HasShape
    <3>2. CASE entry \in [type : {"player"}, key : Keys, req : Reqs]
      <4>1. entry.type = "player" /\ entry.key \in Keys /\ entry.req \in Reqs
        BY <3>2
      <4>2. entry.key \in DOMAIN Sim.actions
        BY <2>6, <4>1 DEF Undisturbed
      <4> QED BY <2>8, <4>1, <4>2, KeysAssumption DEF HasShape
    <3> QED BY <2>7, <3>1, <3>2 DEF ALP!Entry
  <2>10. Replay(Sim, Append(Listed, new)) = Continue(Sim, Replay(Sim, Listed), new)
    <3>1. \A sofar : LP!Continue(Sim, sofar, new) = Continue(Sim, sofar, new)
      <4>1. (\A x : LP!Ok(x) = Ok(x)) /\ \A why, x : LP!Err(why, x) = Err(why, x)
        BY SameReplay DEF LP!Err, Err
      <4>2. \A x : LP!Acceptable(x, new) = Acceptable(x, new)
        BY DEF LP!Acceptable, Acceptable, LP!HasShape, HasShape
      <4>3. \A x : LP!ReplayStep(Sim, x, new) = ReplayStep(Sim, x, new)
        BY <4>1, <4>2, SameTick, SameApply DEF LP!ReplayStep, ReplayStep
      <4> QED BY <4>3, SameReplay DEF LP!Continue, Continue
    <3>2. LP!Replay(Sim, Append(Listed, new)) = LP!Continue(Sim, LP!Replay(Sim, Listed), new)
      BY <2>2, LP!ReplayAppended
    <3> QED BY <3>1, <3>2, SameReplay
  <2>11. Continue(Sim, Ok(e), new) = ReplayStep(Sim, e, new)
    BY DEF Continue, Ok
  <2>12. ReplayStep(Sim, e, new).err = NoErr
    <3>1. Acceptable(e, new) /\ ~e.won
      BY <2>4, <2>5, <2>8, <2>9 DEF Acceptable, Over
    <3>2. CASE new.type = "tick"
      <4>1. ReplayStep(Sim, e, new) = Tick(Sim, e)
        BY <3>1, <3>2 DEF ReplayStep
      <4> QED BY <3>1, <4>1 DEF Tick, Ok
    <3>3. CASE new.type = "player"
      <4>1. ReplayStep(Sim, e, new) = ApplyAction(Sim, e, new.key, new.req)
        BY <3>1, <3>3 DEF ReplayStep
      <4> QED BY <2>9, <3>1, <3>3, <4>1 DEF ApplyAction, Ok
    <3> QED BY <2>9, <3>2, <3>3
  <2>13. Replay(Sim, Listed').err = NoErr
    BY <2>3, <2>4, <2>10, <2>11, <2>12
  <2> QED BY <2>13 DEF LogReplays
<1> QED BY <1>1, <1>2, RowsAddedBy

LEMMA LogReplaysInit == Init => LogReplays
<1> SUFFICES ASSUME Init PROVE LogReplays
  OBVIOUS
<1>1. DOMAIN log = {}
  BY DEF Init, AL!LogInit
<1>2. Listed = <<>>
  <2>1. Cardinality(DOMAIN log) = 0
    BY <1>1, FS_EmptySet
  <2> QED BY <2>1 DEF Listed
<1>3. LP!Replay(Sim, <<>>) = LP!Ok(LP!NewEngine(Sim))
  BY LP!ReplayNone
<1> QED BY <1>2, <1>3, SameReplay DEF LogReplays, Ok

\* The abstract run in terms of the calls and the log.
LEMMA AtomicFacts ==
  ASSUME NEW c \in Calls
  PROVE  /\ Atomic!Open(c) <=> call[c].op # "none" /\ call[c].reply = "none"
         /\ \A req : Atomic!Recorded(req) = {i \in DOMAIN Listed : Listed[i].req = req}
         /\ \A type, key, req : Atomic!Extended(type, key, req) =
              Append(Listed, [seq |-> Len(Listed) + 1, type |-> type, key |-> key, req |-> req])
         /\ EndedRun(Listed) <=> Over(Replay(Sim, Listed).engine)
BY DEF Atomic!Open, Atomic!Recorded, Atomic!Extended, EndedRun

\* What clients see of a call, and of the calls that a step leaves or answers.
Answer(c) == [op |-> call[c].op, key |-> call[c].key, req |-> call[c].req,
              reply |-> call[c].reply, seq |-> call[c].seq]

LEMMA AnswersKept ==
  ASSUME \A d \in Calls : SameAnswer(d), log' = log, Undisturbed, Undisturbed'
  PROVE  UNCHANGED Atomic!vars
<1>1. \A d \in Calls : Answer(d)' = Answer(d)
  BY DEF SameAnswer, AnswerFields, Answer
<1>2. Listed' = Listed
  BY DEF Listed, Row
<1>3. (~Undisturbed)' = ~Undisturbed
  OBVIOUS
<1>4. [d \in Calls |-> Answer(d)]' = [d \in Calls |-> Answer(d)]
  BY <1>1
<1> QED BY <1>2, <1>3, <1>4 DEF Atomic!vars, Answer

LEMMA AnswersTold ==
  ASSUME Shapes, NEW c \in Calls, NEW what, NEW n, call' = Reply(c, what, n)
  PROVE  Atomic!Told(c, what, n)
<1>0. /\ call'[c].reply = what /\ call'[c].seq = n /\ call'[c].op = call[c].op
      /\ call'[c].key = call[c].key /\ call'[c].req = call[c].req
      /\ \A d \in Calls \ {c} : call'[d] = call[d]
  BY ReplyFacts
<1>1. /\ Answer(c)' = [Answer(c) EXCEPT !.reply = what, !.seq = n]
      /\ \A d \in Calls \ {c} : Answer(d)' = Answer(d)
  <2>1. \A d \in Calls \ {c} : Answer(d)' = Answer(d)
    BY <1>0 DEF Answer
  <2>2. Answer(c)' = [op |-> call[c].op, key |-> call[c].key, req |-> call[c].req,
                      reply |-> what, seq |-> n]
    BY <1>0 DEF Answer
  <2>3. [Answer(c) EXCEPT !.reply = what, !.seq = n] =
          [op |-> call[c].op, key |-> call[c].key, req |-> call[c].req,
           reply |-> what, seq |-> n]
    <3>1. PICK o, k, r, y, m : Answer(c) = [op |-> o, key |-> k, req |-> r, reply |-> y, seq |-> m]
      BY DEF Answer
    <3>2. o = call[c].op /\ k = call[c].key /\ r = call[c].req
      BY <3>1 DEF Answer
    <3>3. [Answer(c) EXCEPT !.reply = what, !.seq = n] =
            [op |-> o, key |-> k, req |-> r, reply |-> what, seq |-> n]
      <4>1. PICK x, z : x = Answer(c) /\ z = [x EXCEPT !.reply = what]
        OBVIOUS
      <4>2. z = [op |-> o, key |-> k, req |-> r, reply |-> what, seq |-> m]
        BY <3>1, <4>1
      <4>3. [z EXCEPT !.seq = n] = [op |-> o, key |-> k, req |-> r, reply |-> what, seq |-> n]
        BY <4>2
      <4> QED BY <4>1, <4>3
    <3> QED BY <3>2, <3>3
  <2> QED BY <2>1, <2>2, <2>3
<1>2. [d \in Calls |-> Answer(d)]' =
        [[d \in Calls |-> Answer(d)] EXCEPT ![c].reply = what, ![c].seq = n]
  BY <1>1
<1> QED BY <1>2 DEF Atomic!Told, Answer

\* A start is a question.
LEMMA AnswersAsked ==
  ASSUME Shapes, NEW c \in Calls, CallShape(c), Starts(c), log' = log, Undisturbed, Undisturbed'
  PROVE  Atomic!Ask(c)
<1>1. Listed' = Listed /\ (~Undisturbed)' = ~Undisturbed
  BY DEF Listed, Row
<1>2. PICK op, key, req :
        /\ Start(c, op, key, req)
        /\ \/ op \in {"connect", "deltas", "wins"} /\ key = None /\ req = None
           \/ op = "apply" /\ key \in Keys /\ req \in Reqs
  BY OpsAssumption DEF Starts
<1>3. /\ call[c].pc = "new"
      /\ call'[c].op = op /\ call'[c].key = key /\ call'[c].req = req
      /\ call'[c].reply = call[c].reply /\ call'[c].seq = call[c].seq
      /\ \A d \in Calls \ {c} : call'[d] = call[d]
  BY <1>2 DEF Start, Shapes, IsMap, CallFields
<1>4. call[c].op = "none" /\ call[c].key = None /\ call[c].req = None
  BY <1>3 DEF CallShape
<1>5. call[c].reply = "none" /\ call[c].seq = 0
  BY <1>3 DEF CallShape
<1>6. /\ Answer(c)' = Atomic!Asking(op, key, req)
      /\ \A d \in Calls \ {c} : Answer(d)' = Answer(d)
  BY <1>3, <1>5 DEF Answer, Atomic!Asking
<1>7. [d \in Calls |-> Answer(d)]' =
        [[d \in Calls |-> Answer(d)] EXCEPT ![c] = Atomic!Asking(op, key, req)]
  BY <1>6
<1>8. [d \in Calls |-> Answer(d)][c].op = "none"
  BY <1>4 DEF Answer
<1> QED BY <1>1, <1>2, <1>7, <1>8 DEF Atomic!Ask, Answer

\* A restart is a loss of every open call.
LEMMA AnswersLost ==
  ASSUME Shapes, \A c \in Calls : CallShape(c), Crash, log' = log, Undisturbed, Undisturbed'
  PROVE  Atomic!Restart
<1>1. Listed' = Listed /\ (~Undisturbed)' = ~Undisturbed
  BY DEF Listed, Row
<1>2. ASSUME NEW c \in Calls
      PROVE  Answer(c)' = IF Atomic!Open(c) THEN [Answer(c) EXCEPT !.reply = "lost"] ELSE Answer(c)
  <2>1. Atomic!Open(c) <=> call[c].pc \notin {"new", "done"}
    BY AtomicFacts DEF CallShape
  <2>2. CASE call[c].pc \in {"new", "done"}
    BY <2>1, <2>2 DEF Crash, Answer
  <2>3. CASE call[c].pc \notin {"new", "done"}
    <3>1. PICK next : next = Reply(c, "lost", 0)
      OBVIOUS
    <3>2. /\ next[c].reply = "lost" /\ next[c].seq = 0 /\ next[c].op = call[c].op
          /\ next[c].key = call[c].key /\ next[c].req = call[c].req
      BY <3>1, ReplyFacts
    <3>3. call'[c] = next[c]
      BY <2>3, <3>1 DEF Crash
    <3>4. call[c].seq = 0
      BY <2>3 DEF CallShape
    <3> QED BY <2>1, <2>3, <3>2, <3>3, <3>4 DEF Answer
  <2> QED BY <2>2, <2>3
<1>3. [c \in Calls |-> Answer(c)]' =
        [c \in Calls |-> IF Atomic!Open(c) THEN [Answer(c) EXCEPT !.reply = "lost"]
                         ELSE Answer(c)]
  BY <1>2
<1>4. \A c \in Calls : [d \in Calls |-> Answer(d)][c] = Answer(c)
  OBVIOUS
<1> QED BY <1>1, <1>3, <1>4 DEF Atomic!Restart, Answer

\* When an answer is truthful, in terms of the calls and the log.
LEMMA TruthfulWhen ==
  ASSUME NEW c \in Calls, NEW n \in 0..Len(Listed)
  PROVE  /\ call[c].op = "connect" /\ n = Len(Listed) => Atomic!Truthful(c, "snapshot", n)
         /\ call[c].op = "deltas" => Atomic!Truthful(c, "closed", n)
         /\ call[c].op = "wins" => Atomic!Truthful(c, "subscribed", n)
<1>1. PICK a : a = [d \in Calls |-> [op |-> call[d].op, key |-> call[d].key, req |-> call[d].req,
                                     reply |-> call[d].reply, seq |-> call[d].seq]]
  OBVIOUS
<1>2. a[c].op = call[c].op
  BY <1>1
<1>3. call[c].op = "connect" /\ n = Len(Listed) => Atomic!Truthful(c, "snapshot", n)
  BY <1>1, <1>2 DEF Atomic!Truthful
<1>4. /\ call[c].op = "deltas" => Atomic!Truthful(c, "closed", n)
      /\ call[c].op = "wins" => Atomic!Truthful(c, "subscribed", n)
  BY <1>1, <1>2 DEF Atomic!Truthful
<1> QED BY <1>3, <1>4

\* The same for an action.
LEMMA TruthfulAction ==
  ASSUME NEW c \in Calls, NEW n \in 0..Len(Listed), call[c].op = "apply"
  PROVE  /\ n \in DOMAIN Listed /\ Listed[n].req = call[c].req /\ Listed[n].key = call[c].key
              => Atomic!Truthful(c, "accepted", n)
         /\ (\E i \in DOMAIN Listed : Listed[i].req = call[c].req /\ Listed[i].key # call[c].key)
              => Atomic!Truthful(c, "conflict", n)
         /\ Over(Replay(Sim, Listed).engine) => Atomic!Truthful(c, "completed", n)
<1>1. PICK a : a = [d \in Calls |-> [op |-> call[d].op, key |-> call[d].key, req |-> call[d].req,
                                     reply |-> call[d].reply, seq |-> call[d].seq]]
  OBVIOUS
<1>2. a[c].op = call[c].op /\ a[c].key = call[c].key /\ a[c].req = call[c].req
  BY <1>1
<1>3. \A req : Atomic!Recorded(req) = {i \in DOMAIN Listed : Listed[i].req = req}
  BY AtomicFacts
<1>4. EndedRun(Listed) <=> Over(Replay(Sim, Listed).engine)
  BY AtomicFacts
<1>5. ASSUME n \in DOMAIN Listed, Listed[n].req = call[c].req, Listed[n].key = call[c].key
      PROVE  Atomic!Truthful(c, "accepted", n)
  BY <1>1, <1>2, <1>3, <1>5 DEF Atomic!Truthful
<1>6. ASSUME NEW i \in DOMAIN Listed, Listed[i].req = call[c].req, Listed[i].key # call[c].key
      PROVE  Atomic!Truthful(c, "conflict", n)
  BY <1>1, <1>2, <1>3, <1>6 DEF Atomic!Truthful
<1>7. ASSUME Over(Replay(Sim, Listed).engine)
      PROVE  Atomic!Truthful(c, "completed", n)
  BY <1>1, <1>2, <1>4, <1>7 DEF Atomic!Truthful
<1> QED BY <1>5, <1>6, <1>7, Zenon

\* An answer that is truthful is told.
LEMMA TellWhen ==
  ASSUME Shapes, NEW c \in Calls, CallShape(c), log' = log, Undisturbed, Undisturbed',
         NEW what \in {"snapshot", "closed", "subscribed", "accepted", "conflict", "completed"},
         NEW n \in 0..Len(Listed), Answers(c, what, n), Atomic!Truthful(c, what, n)
  PROVE  Atomic!Tell(c)
<1>1. Listed' = Listed /\ (~Undisturbed)' = ~Undisturbed
  BY DEF Listed, Row
<1>2. Atomic!Told(c, what, n)
  BY AnswersTold DEF Answers
<1>3. Atomic!Open(c)
  BY AtomicFacts DEF Answers, CallShape
<1> QED BY <1>1, <1>2, <1>3 DEF Atomic!Tell

\* What a call under the mutex of a calm run knows.
LEMMA LockedFacts ==
  ASSUME RuntimeInv, ALP!LogInv, AppliedInv, OverIsTerminal, CalmInv, NEW c \in Calls,
         NEW op, Locks(c, op)
  PROVE  /\ call[c].slot \in Slots /\ states[call[c].slot].lastSeq = Len(Listed)
         /\ Len(Listed) \in Nat /\ 0 \in 0..Len(Listed)
         /\ states[call[c].slot].terminal => Over(Replay(Sim, Listed).engine)
<1>1. PICK t : t = call[c].slot
  OBVIOUS
<1>2. t \in Slots /\ states[t].loaded /\ states[t].mu = Free
  BY <1>1 DEF Locks, RuntimeInv, CallOK, HasState
<1>3. ~RowToCome(t)
  BY <1>2 DEF RowToCome
<1>4. states[t].lastSeq = AL!MaxSeq /\ Replay(Sim, Listed) = Ok(states[t].engine)
  BY <1>2, <1>3, AtTheEnd
<1>5. Len(Listed) = AL!MaxSeq /\ AL!MaxSeq \in Nat
  <2>1. PICK m : m = AL!MaxSeq
    OBVIOUS
  <2>2. m \in Nat /\ Listed = [i \in 1..m |-> Row(i, i)]
    BY <2>1, SeqFacts, ListedFacts
  <2>3. Len(Listed) = m
    BY <2>2
  <2> QED BY <2>1, <2>2, <2>3
<1>6. states[t].terminal => Over(Replay(Sim, Listed).engine)
  BY <1>2, <1>4 DEF OverIsTerminal, Ok
<1>7. 0 \in 0..Len(Listed)
  BY <1>5
<1> QED BY <1>1, <1>2, <1>4, <1>5, <1>6, <1>7

\* What the result of an append tells its call.
LEMMA AppendFacts ==
  ASSUME RuntimeInv, ALP!LogInv, AcceptedInv, NEW c \in Calls, call[c].pc = "append",
         CallOK(c), call[c].op = "apply"
  PROVE  /\ app[c].phase = "ok" =>
              /\ app[c].seq \in 0..Len(Listed) /\ app[c].seq \in DOMAIN Listed
              /\ Listed[app[c].seq].req = call[c].req /\ Listed[app[c].seq].key = call[c].key
              /\ log[app[c].seq] = AL!PlayerEntry(call[c].key, call[c].req)
              /\ app[c].seq \in DOMAIN log
         /\ app[c].phase = "conflict" =>
              \E i \in DOMAIN Listed : /\ Listed[i].req = call[c].req
                                       /\ Listed[i].key # call[c].key
         /\ 0 \in 0..Len(Listed)
<1>1. PICK m : m = AL!MaxSeq
  OBVIOUS
<1>2. m \in Nat /\ DOMAIN log = 1..m /\ Listed = [i \in 1..m |-> Row(i, i)]
  BY <1>1, SeqFacts, ListedFacts
<1>3. Len(Listed) = m /\ DOMAIN Listed = 1..m
  BY <1>2
<1>4. \A i \in 1..m : Listed[i].req = log[i].req /\ Listed[i].key = log[i].key
  BY <1>2 DEF Row
<1>5. app[c].entry = AL!PlayerEntry(call[c].key, call[c].req)
  BY DEF AcceptedInv, AppendsOwnEntry
<1>6. call[c].req # None
  BY KeysAssumption DEF CallOK
<1>7. ASSUME app[c].phase = "ok"
      PROVE  /\ app[c].seq \in 0..Len(Listed) /\ app[c].seq \in DOMAIN Listed
             /\ Listed[app[c].seq].req = call[c].req /\ Listed[app[c].seq].key = call[c].key
             /\ log[app[c].seq] = AL!PlayerEntry(call[c].key, call[c].req)
             /\ app[c].seq \in DOMAIN log
  <2>1. app[c].seq \in 1..m /\ log[app[c].seq] = AL!PlayerEntry(call[c].key, call[c].req)
    BY <1>2, <1>5, <1>7 DEF ALP!LogInv, ALP!OkIsDurable
  <2> QED BY <1>2, <1>3, <1>4, <2>1 DEF AL!PlayerEntry
<1>8. ASSUME app[c].phase = "conflict"
      PROVE  \E i \in DOMAIN Listed : /\ Listed[i].req = call[c].req
                                      /\ Listed[i].key # call[c].key
  <2>1. PICK i \in 1..m : log[i].req = app[c].entry.req /\ log[i] # app[c].entry
    BY <1>2, <1>8 DEF ALP!LogInv, ALP!ConflictIsReal
  <2>2. log[i] \in ALP!Entry
    BY <1>2 DEF ALP!LogInv, ALP!LogTypeOK
  <2>3. log[i].req = call[c].req /\ log[i] # AL!PlayerEntry(call[c].key, call[c].req)
    BY <1>5, <2>1 DEF AL!PlayerEntry
  <2>4. log[i] \in [type : {"player"}, key : Keys, req : Reqs]
    BY <1>6, <2>2, <2>3 DEF ALP!Entry, ALP!TickEntry
  <2>5. log[i] = AL!PlayerEntry(log[i].key, log[i].req)
    BY <2>4 DEF AL!PlayerEntry
  <2>6. log[i].key # call[c].key
    BY <2>3, <2>5
  <2> QED BY <1>3, <1>4, <2>3, <2>6
<1>9. 0 \in 0..Len(Listed)
  BY <1>2, <1>3
<1> QED BY <1>7, <1>8, <1>9

\* The invariant of an undisturbed run.
AtomicInv ==
  /\ OverIsTerminal
  /\ \A c \in Calls : CallShape(c)
  /\ Undisturbed => LogReplays /\ \A p \in Calls \cup Slots : AppCalm(p)

\* Every answer is truthful when it is given.
LEMMA AnswersAreTrue ==
  ASSUME RuntimeInv, ALP!LogInv, AcceptedInv, AppliedInv, RebuildInv, AtomicInv,
         Undisturbed, Undisturbed', [Next]_vars, NEW c \in Calls,
         StateStep(c) \/ OperationStep(c) \/ Unsubscribe(c), \E what, n : Answers(c, what, n)
  PROVE  Atomic!Tell(c)
<1>0. /\ Shapes /\ CallShape(c) /\ CallOK(c) /\ PhaseOK(c) /\ AppCalm(c) /\ OverIsTerminal
      /\ CalmInv /\ LoadCalm(c) /\ WonIsOver /\ BudgetInv /\ LogReplays
  BY DEF RuntimeInv, AppliedInv, RebuildInv, AtomicInv, CalmInv
<1>1. log' = log
  BY DEF StateStep, FindsState, MissesState, ListActions, SeedFirstTick, Seeded,
     LoadFails, Install, OperationStep, Connect, SubscribeDeltas, SubscribeWinUpdates,
     ApplyBegin, ApplyEnd, Unsubscribe, logVars, AL!Begin, AL!Return
<1>2. /\ call[c].pc \notin {"new", "done"} /\ call'[c].pc = "done"
  BY <1>0, ReplyFacts DEF Answers
<1>3. CASE StateStep(c)
  <2>1. CASE Seeded(c)
    <3>1. app[c].phase # "ok"
      BY <1>0, <1>2, <2>1 DEF Seeded, Shapes, IsMap, CallFields
    <3>2. app[c].phase \in {"conflict", "error"} /\ call[c].pc = "seed"
      BY <2>1, <3>1 DEF Seeded, AL!Return, AL!Finished
    <3>3. app[c].phase = "conflict" /\ app[c].entry.req = None
      BY <1>0, <3>2 DEF AppCalm, PhaseOK, AL!TickEntry
    <3>4. app \in [Calls \cup Slots -> ALP!Call]
      BY SeqFacts
    <3>5. PICK i \in DOMAIN log : log[i].req = None /\ log[i] # app[c].entry
      BY <3>3 DEF ALP!LogInv, ALP!ConflictIsReal
    <3>6. log[i] \in ALP!Entry
      BY DEF ALP!LogInv, ALP!LogTypeOK
    <3>7. log[i] = ALP!TickEntry
      BY <3>5, <3>6, KeysAssumption DEF ALP!Entry
    <3>8. app[c].entry = ALP!TickEntry
      BY <1>0, <3>2 DEF PhaseOK, AL!TickEntry, ALP!TickEntry
    <3> QED BY <3>5, <3>7, <3>8
  <2>2. CASE Install(c)
    <3>1. call[c].pc = "install" /\ call[c].rows = Listed
      BY <1>0, <2>2 DEF Install, LoadCalm
    <3>2. Replay(Sim, call[c].rows).err = NoErr
      BY <1>0, <3>1 DEF LogReplays
    <3>3. PICK s \in Slots : call' = [call EXCEPT ![c].pc = "lock", ![c].slot = s, ![c].rows = <<>>]
      BY <2>2, <3>2 DEF Install
    <3>4. call'[c].pc = "lock"
      BY <1>0, <3>3 DEF Shapes, IsMap, CallFields
    <3> QED BY <1>2, <3>4
  <2>3. ~LoadFails(c)
    BY <1>0, UndisturbedSteps
  <2>4. CASE MissesState(c) \/ SeedFirstTick(c)
    BY <1>0, <1>2, <2>4, GotoFacts DEF MissesState, SeedFirstTick
  <2>5. CASE FindsState(c) \/ ListActions(c)
    BY <1>0, <1>2, <2>5 DEF FindsState, ListActions, Shapes, IsMap, CallFields
  <2> QED BY <1>3, <2>1, <2>2, <2>3, <2>4, <2>5 DEF StateStep
<1>4. CASE Connect(c)
  <2>1. PICK n : n = Len(Listed)
    OBVIOUS
  <2>2. Locks(c, "connect") /\ call[c].op = "connect"
    BY <1>4 DEF Connect, Locks
  <2>3. n \in Nat /\ states[call[c].slot].lastSeq = n
    BY <1>0, <2>1, <2>2, LockedFacts
  <2>4. Answers(c, "snapshot", n)
    BY <1>2, <1>4, <2>3 DEF Connect, Answers
  <2>5. n \in 0..Len(Listed)
    BY <2>1, <2>3
  <2> QED BY <1>0, <1>1, <2>1, <2>2, <2>4, <2>5, TellWhen, TruthfulWhen
<1>5. CASE SubscribeWinUpdates(c)
  <2>1. Locks(c, "wins") /\ call[c].op = "wins"
    BY <1>5 DEF SubscribeWinUpdates, Locks
  <2>2. 0 \in 0..Len(Listed)
    BY <1>0, <2>1, LockedFacts
  <2>3. Answers(c, "subscribed", 0)
    BY <1>2, <1>5 DEF SubscribeWinUpdates, Answers
  <2> QED BY <1>0, <1>1, <2>1, <2>2, <2>3, TellWhen, TruthfulWhen
<1>6. CASE SubscribeDeltas(c)
  <2>1. call' = Goto(c, "subscribed")
    BY <1>6 DEF SubscribeDeltas, Goto
  <2> QED BY <1>0, <1>2, <2>1, GotoFacts
<1>7. CASE Unsubscribe(c)
  <2>1. call[c].op = "deltas"
    BY <1>0, <1>7 DEF Unsubscribe, CallShape
  <2>2. 0 \in 0..Len(Listed)
    <3>1. PICK m : m = AL!MaxSeq
      OBVIOUS
    <3>2. m \in Nat /\ Listed = [i \in 1..m |-> Row(i, i)]
      BY <3>1, SeqFacts, ListedFacts
    <3>3. Len(Listed) = m
      BY <3>2
    <3> QED BY <3>2, <3>3
  <2>3. Answers(c, "closed", 0)
    BY <1>2, <1>7 DEF Unsubscribe, Answers
  <2> QED BY <1>0, <1>1, <2>1, <2>2, <2>3, TellWhen, TruthfulWhen
<1>8. CASE ApplyBegin(c)
  <2>1. Locks(c, "apply") /\ call[c].op = "apply"
    BY <1>8 DEF ApplyBegin, Locks
  <2>2. call' # Goto(c, "append")
    BY <1>0, <1>2, GotoFacts
  <2>3. states[call[c].slot].terminal /\ call' = Reply(c, "completed", 0)
    BY <1>8, <2>2 DEF ApplyBegin, Refused
  <2>4. Over(Replay(Sim, Listed).engine) /\ 0 \in 0..Len(Listed)
    BY <1>0, <2>1, <2>3, LockedFacts
  <2>5. Answers(c, "completed", 0)
    BY <1>2, <2>3 DEF Answers
  <2> QED BY <1>0, <1>1, <2>1, <2>4, <2>5, TellWhen, TruthfulAction
<1>9. CASE ApplyEnd(c)
  <2>1. call[c].pc = "append" /\ call[c].op = "apply" /\ app[c].phase \in {"ok", "conflict"}
    BY <1>0, <1>9 DEF ApplyEnd, PhaseOK, AL!Return, AL!Finished, AppCalm
  <2>2. CASE app[c].phase = "conflict"
    <3>1. call' = Reply(c, "conflict", 0)
      BY <1>9, <2>2 DEF ApplyEnd
    <3>2. Answers(c, "conflict", 0) /\ 0 \in 0..Len(Listed)
      BY <1>0, <1>2, <2>1, <3>1, AppendFacts DEF Answers
    <3>3. \E i \in DOMAIN Listed : Listed[i].req = call[c].req /\ Listed[i].key # call[c].key
      BY <1>0, <2>1, <2>2, AppendFacts
    <3> QED BY <1>0, <1>1, <2>1, <3>2, <3>3, TellWhen, TruthfulAction
  <2>3. CASE app[c].phase = "ok"
    <3>1. PICK t, n, result :
            /\ t = call[c].slot /\ n = app[c].seq
            /\ result = ApplyAction(Sim, states[t].engine, call[c].key, call[c].req)
      OBVIOUS
    <3>2. /\ n \in 0..Len(Listed) /\ n \in DOMAIN Listed /\ Listed[n].req = call[c].req
          /\ Listed[n].key = call[c].key
          /\ n \in DOMAIN log /\ log[n] = AL!PlayerEntry(call[c].key, call[c].req)
      BY <1>0, <2>1, <2>3, <3>1, AppendFacts
    <3>3. result.err = NoErr
      <4>1. call[c].key \in DOMAIN Sim.actions
        BY <3>2 DEF Undisturbed, AL!PlayerEntry
      <4>2. t \in Slots /\ states[t].loaded /\ states[t].mu = c /\ c # Free
        BY <1>0, <2>1, <3>1, MutexAssumption DEF CallOK, HasState
      <4>3. ~states[t].engine.won
        BY <1>0, <4>2, HeldFacts
      <4> QED BY <3>1, <4>1, <4>3 DEF ApplyAction, Ok
    <3>4. call' = Reply(c, "accepted", n)
      BY <1>9, <2>3, <3>1, <3>3 DEF ApplyEnd
    <3>5. Answers(c, "accepted", n)
      BY <1>2, <3>4 DEF Answers
    <3> QED BY <1>0, <1>1, <2>1, <3>2, <3>5, TellWhen, TruthfulAction
  <2> QED BY <2>1, <2>2, <2>3
<1> QED BY <1>3, <1>4, <1>5, <1>6, <1>7, <1>8, <1>9 DEF OperationStep

LEMMA AtomicInvInit == Init => AtomicInv
<1> SUFFICES ASSUME Init PROVE AtomicInv
  OBVIOUS
<1>1. OverIsTerminal
  BY EmptyStateFacts DEF Init, OverIsTerminal
<1>2. \A c \in Calls : CallShape(c)
  BY CallShapeInit
<1>3. \A p \in Calls \cup Slots : AppCalm(p)
  BY DEF Init, AL!LogInit, AL!IdleCall, AL!CallIn, AppCalm
<1> QED BY <1>1, <1>2, <1>3, LogReplaysInit DEF AtomicInv

LEMMA AtomicInvNext ==
  ASSUME RuntimeInv, ALP!LogInv, AppliedInv, RebuildInv, AtomicInv, [Next]_vars
  PROVE  AtomicInv'
<1>1. OverIsTerminal'
  BY OverIsTerminalNext DEF AtomicInv
<1>2. \A c \in Calls : CallShape(c)'
  BY CallShapeNext DEF AtomicInv
<1>3. ASSUME Undisturbed' PROVE LogReplays' /\ \A p \in Calls \cup Slots : AppCalm(p)'
  <2>1. Undisturbed /\ BudgetInv
    BY <1>3, UndisturbedBefore DEF RebuildInv
  <2>2. CalmInv /\ OverIsTerminal /\ LogReplays /\ \A p \in Calls \cup Slots : AppCalm(p)
    BY <2>1 DEF RebuildInv, AtomicInv
  <2>3. LogReplays'
    BY <1>3, <2>2, LogReplaysNext
  <2>4. \A p \in Calls \cup Slots : AppCalm(p)'
    BY <1>3, <2>1, <2>2, AppCalmNext
  <2> QED BY <2>3, <2>4
<1> QED BY <1>1, <1>2, <1>3 DEF AtomicInv

\* A row is an action that takes effect, or a tick.
LEMMA RowsAreEffects ==
  ASSUME RuntimeInv, ALP!LogInv, AcceptedInv, AppliedInv, RebuildInv, AtomicInv,
         Undisturbed, Undisturbed', [Next]_vars,
         NEW p \in Calls \cup Slots, Statement(p), log' # log
  PROVE  Atomic!Advance \/ \E c \in Calls : Atomic!Act(c)
<1>0. /\ \A c \in Calls : CallShape(c) /\ CallOK(c) /\ PhaseOK(c)
      /\ AppCalm(p) /\ OverIsTerminal /\ CalmInv
  BY DEF RuntimeInv, AppliedInv, RebuildInv, AtomicInv
<1>1. PICK entry : entry = app[p].entry
  OBVIOUS
<1>2. Listed' = Atomic!Extended(entry.type, entry.key, entry.req)
  BY <1>1, ListedMore DEF Atomic!Extended
<1>3. /\ [d \in Calls |-> Answer(d)]' = [d \in Calls |-> Answer(d)]
      /\ (~Undisturbed)' = ~Undisturbed
  <2>1. \A d \in Calls : Answer(d)' = Answer(d)
    BY DEF Statement, Answer
  <2> QED BY <2>1
<1>4. ~EndedRun(Listed)
  <2>1. PICK e : Replay(Sim, Listed) = Ok(e) /\ ~Over(e)
    BY <1>0, StatementOfLiveRun
  <2>2. Replay(Sim, Listed).engine = e
    BY <2>1 DEF Ok
  <2> QED BY <2>1, <2>2 DEF EndedRun
<1>5. Owner(p)
  BY <1>0, StatementFacts DEF CalmInv, AL!InFlight
<1>6. CASE entry = AL!TickEntry
  <2>1. Listed' = Atomic!Extended("tick", None, None)
    BY <1>2, <1>6 DEF AL!TickEntry
  <2> QED BY <1>3, <1>4, <2>1 DEF Atomic!Advance, Answer
<1>7. CASE p \in Calls /\ call[p].pc = "append"
  <2>1. /\ entry = AL!PlayerEntry(call[p].key, call[p].req)
        /\ call[p].op = "apply" /\ call[p].req # None
    BY <1>0, <1>1, <1>7, KeysAssumption DEF AcceptedInv, AppendsOwnEntry, PhaseOK, CallOK
  <2>2. Listed' = Atomic!Extended("player", call[p].key, call[p].req)
    BY <1>2, <2>1 DEF AL!PlayerEntry
  <2>3. Atomic!Open(p)
    BY <1>0, <1>7, AtomicFacts DEF CallShape
  <2>4. call[p].key \in DOMAIN Sim.actions
    <3>1. AL!MaxSeq + 1 \in DOMAIN log' /\ log'[AL!MaxSeq + 1] = entry
      BY <1>1, StatementFacts
    <3>2. entry.type = "player" /\ entry.key = call[p].key
      BY <2>1 DEF AL!PlayerEntry
    <3> QED BY <3>1, <3>2 DEF Undisturbed
  <2>5. \A i \in DOMAIN log : log[i].req # call[p].req
    <3>1. app[p].phase = "insert" /\ AL!Inserts(app[p])
      BY DEF Statement, AL!Lookup, AL!Snapshot, AL!Insert, AL!Relookup
    <3>2. AL!RowsOf(call[p].req) = {}
      BY <1>1, <2>1, <3>1 DEF AL!Inserts, AL!Duplicate, AL!PlayerEntry
    <3> QED BY <3>2 DEF AL!RowsOf
  <2>6. Atomic!Recorded(call[p].req) = {}
    <3>1. PICK m : m = AL!MaxSeq
      OBVIOUS
    <3>2. m \in Nat /\ DOMAIN log = 1..m /\ Listed = [i \in 1..m |-> Row(i, i)]
      BY <3>1, SeqFacts, ListedFacts
    <3>3. \A i \in DOMAIN Listed : Listed[i].req = log[i].req /\ i \in DOMAIN log
      BY <3>2 DEF Row
    <3> QED BY <1>7, <2>5, <3>3, AtomicFacts
  <2>7. /\ [d \in Calls |-> Answer(d)][p].op = call[p].op
        /\ [d \in Calls |-> Answer(d)][p].key = call[p].key
        /\ [d \in Calls |-> Answer(d)][p].req = call[p].req
    BY <1>7 DEF Answer
  <2> QED BY <1>3, <1>4, <1>7, <2>1, <2>2, <2>3, <2>4, <2>6, <2>7 DEF Atomic!Act, Answer
<1>8. CASE ~(p \in Calls /\ call[p].pc = "append")
  <2>1. entry = AL!TickEntry
    BY <1>0, <1>1, <1>5, <1>8 DEF Owner, PhaseOK, AppliedInv, TickOK
  <2> QED BY <1>6, <2>1
<1> QED BY <1>7, <1>8

\* Every step of the runtime is one of the abstract run, or none.
LEMMA RuntimeIsAtomic ==
  ASSUME RuntimeInv, ALP!LogInv, AcceptedInv, AppliedInv, RebuildInv, AtomicInv, [Next]_vars
  PROVE  [Atomic!Next]_(Atomic!vars)
<1>1. CASE ~Undisturbed'
  BY <1>1 DEF Atomic!Next, Atomic!Disturb
<1>2. CASE Undisturbed'
  <2>0. Undisturbed /\ Shapes /\ \A c \in Calls : CallShape(c)
    BY <1>2, UndisturbedBefore DEF RebuildInv, RuntimeInv, AtomicInv
  <2>1. CalmInv
    BY <2>0 DEF RebuildInv
  <2>2. CASE log' # log
    <3>1. PICK p \in Calls \cup Slots : Statement(p)
      BY <2>1, <2>2, RowsAddedBy
    <3>2. Atomic!Advance \/ \E c \in Calls : Atomic!Act(c)
      BY <1>2, <2>0, <2>2, <3>1, RowsAreEffects
    <3> QED BY <3>2 DEF Atomic!Next
  <2>3. CASE log' = log
    <3>1. CASE \A d \in Calls : SameAnswer(d)
      BY <1>2, <2>0, <2>3, <3>1, AnswersKept
    <3>2. ASSUME NEW c \in Calls, Starts(c) PROVE Atomic!Ask(c)
      BY <1>2, <2>0, <2>3, <3>2, AnswersAsked
    <3>3. ASSUME NEW c \in Calls, StateStep(c) \/ OperationStep(c) \/ Unsubscribe(c),
                 \E what, n : Answers(c, what, n)
          PROVE  Atomic!Tell(c)
      BY <1>2, <2>0, <3>3, AnswersAreTrue
    <3>4. CASE Crash
      BY <1>2, <2>0, <2>3, <3>4, AnswersLost DEF Atomic!Next
    <3> QED BY <3>1, <3>2, <3>3, <3>4, StepsOfAnswers DEF Atomic!Next
  <2> QED BY <2>2, <2>3
<1> QED BY <1>1, <1>2

LEMMA RuntimeStartsAtomic ==
  ASSUME Init
  PROVE  Atomic!Init
<1>1. DOMAIN log = {}
  BY DEF Init, AL!LogInit
<1>2. Listed = <<>>
  <2>1. Cardinality(DOMAIN log) = 0
    BY <1>1, FS_EmptySet
  <2> QED BY <2>1 DEF Listed
<1>3. [d \in Calls |-> Answer(d)] = [d \in Calls |-> Atomic!NotMade]
  BY DEF Init, NewCall, Answer, Atomic!NotMade, Atomic!Asking
<1>4. (~Undisturbed) = FALSE
  BY <1>1 DEF Init, Undisturbed
<1> QED BY <1>2, <1>3, <1>4 DEF Atomic!Init, Answer

\* The runtime keeps its promise to its clients: for any number of calls, and with
\* mutex, SQL statements, ticks and restarts interleaved in any way, what ApplyAction,
\* Connect and the subscriptions of cmd/engine-a/runtime.go do and answer is what
\* AtomicRun allows, until a statement fails, two loads overlap or an action the room
\* does not know is logged.
THEOREM CallsTakeEffectAtOnce == Spec => CallsAreAtomic
<1>1. Init => AtomicInv /\ Atomic!Init
  BY AtomicInvInit, RuntimeStartsAtomic
<1>2. RuntimeInv /\ ALP!LogInv /\ AppliedInv /\ RebuildInv /\ AtomicInv /\ [Next]_vars
        => AtomicInv'
  BY AtomicInvNext
<1>3. RuntimeInv /\ ALP!LogInv /\ AcceptedInv /\ AppliedInv /\ RebuildInv /\ AtomicInv
        /\ [Next]_vars => [Atomic!Next]_(Atomic!vars)
  BY RuntimeIsAtomic
<1>4. Init => RebuildInv
  BY RebuildInvInit
<1>5. RuntimeInv /\ ALP!LogInv /\ AcceptedInv /\ AppliedInv /\ RebuildInv /\ [Next]_vars
        => RebuildInv'
  BY RebuildInvNext
<1> QED BY <1>1, <1>2, <1>3, <1>4, <1>5, RuntimeInvariant, LogOfRuntime, AppliedInvariant,
       PTL DEF Spec, CallsAreAtomic, Atomic!Spec
=============================================================================

--------------------------- MODULE WSHandler_proofs ---------------------------
(***************************************************************************)
(* Proofs about WSHandler: a client gets every delta once and none before  *)
(* its acceptance, and a run has one open connection.                      *)
(***************************************************************************)
EXTENDS WSHandler, FiniteSetTheorems, TLAPS

\* The tracker is not set in these places.
Early == {"new", "replace", "connect", "ack", "snapshot"}
Late == {"subscribe", "subscribeWins", "read", "apply", "accepted", "advance", "delta"}
Ending == {"shut", "leave", "close", "gone"}

\* Where goroutine pc calls closeWith.
Refusing == {"connect", "snapshot", "subscribe", "subscribeWins", "read", "apply", "advance"}

Written == [type : {"snapshot", "delta", "action_accepted"}, seq : Nat]
Connection ==
  [pc : Early \cup Late \cup Ending, old : Conns \cup {NoConn}, seq : Nat, snap : Nat, last : Nat,
   subscribed : BOOLEAN, chan : Seq(Nat),
   stream : {"off", "wait", "advance", "write", "shut", "done"},
   held : Nat, wins : {"off", "wait", "told", "done"},
   beat : {"off", "wait", "silent", "late", "done"}, mu : Goroutines \cup {"free"},
   stop : BOOLEAN, closed : BOOLEAN, broken : BOOLEAN, wire : Seq(Written)]

Runtime ==
  [seq : Nat \ {0}, last : Nat \ {0}, actions : SUBSET Nat, acts : Nat, ticking : BOOLEAN,
   over : BOOLEAN, winSubs : SUBSET Conns]

\* r is a runtime: its actions and its engine are no further than its log.
RuntimeOK(r) ==
  /\ r \in Runtime
  /\ r.last <= r.seq
  /\ \A a \in r.actions : a <= r.seq

WSTypeOK ==
  /\ RuntimeOK(rt)
  /\ active \in Conns \cup {NoConn}
  /\ conn \in [Conns -> Connection]

-----------------------------------------------------------------------------
DeltasOn(k) == {i \in DOMAIN k.wire : k.wire[i].type = "delta"}
DeltaSeqs(k) == {k.wire[i].seq : i \in DeltasOn(k)}

\* seq is a tick the runtime r has done.
IsTick(seq, r) == seq <= r.seq /\ seq \notin r.actions

\* What connection k passes on has happened; the deltas it is pushed are ticks.
SeqsAreOld(k, r) ==
  /\ k.seq <= r.seq
  /\ \A i \in DOMAIN k.wire : k.wire[i].seq <= r.seq
  /\ \A i \in DOMAIN k.chan : IsTick(k.chan[i], r)
  /\ k.stream \in {"advance", "write"} => IsTick(k.held, r)

\* Nothing is written or streamed before the snapshot.
StartOK(k) ==
  /\ k.pc \in Early => k.last = 0 /\ k.wire = <<>>
  /\ k.pc \in Early \cup {"subscribe"} => k.stream = "off"
  /\ ~k.closed /\ k.pc \in {"ack", "snapshot"} => k.seq = k.snap
  /\ ~Dead(k) /\ k.last = 0 => k.pc \in Early \cup Ending /\ k.stream = "off"

IsAccepted(k, i, seq) == k.wire[i].type = "action_accepted" /\ k.wire[i].seq = seq

\* The acceptance goes first.
AcceptedFirst(k, r) ==
  /\ ~k.closed /\ k.pc \in {"advance", "delta"} =>
       \E i \in DOMAIN k.wire : IsAccepted(k, i, k.seq)
  /\ \A i \in DeltasOn(k) : k.wire[i].seq \in r.actions =>
       \E j \in DOMAIN k.wire : j < i /\ IsAccepted(k, j, k.wire[i].seq)

\* Every seq the tracker let through is on the wire, or with one of the goroutines,
\* and in one place.
Streaming(k) == IF k.stream = "write" THEN {k.held} ELSE {}
Replying(k) == IF k.pc = "delta" THEN {k.seq} ELSE {}
Contiguous(k) ==
  /\ DeltaSeqs(k) \cup Streaming(k) \cup Replying(k) = (k.snap + 1)..k.last
  /\ k.snap <= k.last
  /\ \A i, j \in DeltasOn(k) : k.wire[i].seq = k.wire[j].seq => i = j
  /\ DeltaSeqs(k) \cap Streaming(k) = {}
  /\ DeltaSeqs(k) \cap Replying(k) = {}
  /\ Streaming(k) \cap Replying(k) = {}

ConnOK(k, r) ==
  /\ SeqsAreOld(k, r)
  /\ StartOK(k)
  /\ AcceptedFirst(k, r)
  /\ ~Dead(k) /\ k.last # 0 => Contiguous(k)

WSInv ==
  /\ WSTypeOK
  /\ \A c \in Conns : ConnOK(conn[c], rt)
  /\ OneConnection

-----------------------------------------------------------------------------
\* What a connection is made of.
LEMMA ConnTyped ==
  ASSUME NEW k \in Connection
  PROVE  /\ k.pc \in Early \cup Late \cup Ending /\ k.old \in Conns \cup {NoConn}
         /\ k.seq \in Nat /\ k.snap \in Nat /\ k.last \in Nat /\ k.held \in Nat
         /\ \A i \in DOMAIN k.chan : k.chan[i] \in Nat
         /\ \A i \in DOMAIN k.wire : i \in Nat /\ k.wire[i].seq \in Nat
<1>1. k.wire \in Seq(Written) /\ k.chan \in Seq(Nat)
  BY DEF Connection
<1>2. \A i \in DOMAIN k.wire : i \in Nat /\ k.wire[i] \in Written
  BY <1>1
<1>3. \A i \in DOMAIN k.chan : k.chan[i] \in Nat
  BY <1>1
<1> QED BY <1>2, <1>3 DEF Connection, Written

\* The runtime q comes after r: its seqs grow, and so do those of its actions.
Follows(r, q) ==
  /\ r.seq <= q.seq
  /\ \A a \in q.actions : a \in r.actions \/ a > r.seq

LEMMA ConnLater ==
  ASSUME NEW r, RuntimeOK(r), NEW q, RuntimeOK(q), Follows(r, q),
         NEW k \in Connection, ConnOK(k, r)
  PROVE  ConnOK(k, q)
<1>1. r.seq \in Nat /\ q.seq \in Nat /\ r.seq <= q.seq
  BY DEF RuntimeOK, Runtime, Follows
<1>2. ASSUME NEW s \in Nat, IsTick(s, r) PROVE IsTick(s, q)
  BY <1>1, <1>2 DEF IsTick, Follows
<1>3. /\ k.seq \in Nat /\ k.held \in Nat /\ \A i \in DOMAIN k.chan : k.chan[i] \in Nat
      /\ \A i \in DOMAIN k.wire : k.wire[i].seq \in Nat
  BY ConnTyped
<1>4. SeqsAreOld(k, q)
  BY <1>1, <1>2, <1>3 DEF SeqsAreOld, ConnOK
<1>5. AcceptedFirst(k, q)
  <2>1. \A i \in DeltasOn(k) : k.wire[i].seq \in q.actions => k.wire[i].seq \in r.actions
    BY <1>1, <1>3 DEF Follows, ConnOK, SeqsAreOld, DeltasOn
  <2> QED BY <2>1 DEF AcceptedFirst, ConnOK
<1> QED BY <1>4, <1>5 DEF ConnOK

-----------------------------------------------------------------------------
\* A step of connection k to y that writes nothing and numbers nothing.
Moves(k, y) ==
  /\ y.wire = k.wire \/ (y.closed /\ y.wire = <<>>)
  /\ y.last = k.last \/ (y.closed /\ y.pc \in Ending)
  /\ y.chan \in {k.chan, <<>>} /\ y.seq \in {k.seq, 0}
  /\ \/ y.stream = k.stream /\ y.held = k.held
     \/ (k.stream # "write" \/ Dead(y)) /\ y.stream \in {"wait", "shut", "done"}
  /\ k.closed => y.closed
  /\ Dead(k) => Dead(y)
  /\ Dead(y) \/ (Replying(y) = Replying(k) /\ y.snap = k.snap)
  /\ k.pc \in Early \cup Ending => y.pc \in Early \cup Ending
  /\ y.pc \in Early => k.pc \in Early
  /\ y.pc \in Early \cup {"subscribe"} => k.pc \in Early \cup {"subscribe"}
  /\ y.stream = k.stream \/ k.stream # "off" \/ (k.pc \in Late /\ y.pc \in Late \ {"subscribe"})
  /\ y.closed \/ (y.pc \in {"ack", "snapshot"} =>
       k.pc \in {"ack", "snapshot"} /\ y.seq = k.seq /\ y.snap = k.snap)
  /\ y.closed \/ (y.pc \in {"advance", "delta"} => k.pc \in {"advance", "delta"} /\ y.seq = k.seq)

\* A connection whose wire, tracker and goroutines' hands are those of k.
LEMMA ContiguousKept ==
  ASSUME NEW k, NEW y, Contiguous(k), y.wire = k.wire, y.last = k.last, y.snap = k.snap,
         Streaming(y) = Streaming(k), Replying(y) = Replying(k)
  PROVE  Contiguous(y)
<1>1. DeltasOn(y) = DeltasOn(k) /\ DeltaSeqs(y) = DeltaSeqs(k)
  BY DEF DeltasOn, DeltaSeqs
<1> QED BY <1>1, Zenon DEF Contiguous

LEMMA MovesOK ==
  ASSUME NEW r, RuntimeOK(r), NEW k \in Connection, ConnOK(k, r), NEW y \in Connection, Moves(k, y)
  PROVE  ConnOK(y, r)
<1>1. k.seq \in Nat /\ r.seq \in Nat
  BY ConnTyped DEF RuntimeOK, Runtime
<1>2. SeqsAreOld(y, r)
  BY <1>1 DEF ConnOK, SeqsAreOld, Moves
<1>3. StartOK(y)
  <2>1. y.pc \in Early => y.last = 0 /\ y.wire = <<>>
    BY DEF ConnOK, StartOK, Moves, Early, Ending
  <2>2. y.pc \in Early \cup {"subscribe"} => y.stream = "off"
    BY DEF ConnOK, StartOK, Moves, Early, Late
  <2>3. ~y.closed /\ y.pc \in {"ack", "snapshot"} => y.seq = y.snap
    BY DEF ConnOK, StartOK, Moves
  <2>4. ~Dead(y) /\ y.last = 0 => y.pc \in Early \cup Ending /\ y.stream = "off"
    <3> SUFFICES ASSUME ~Dead(y), y.last = 0 PROVE y.pc \in Early \cup Ending /\ y.stream = "off"
      OBVIOUS
    <3>1. ~Dead(k) /\ k.last = 0
      BY DEF Moves, Dead
    <3>2. k.pc \in Early \cup Ending /\ k.stream = "off"
      BY <3>1 DEF ConnOK, StartOK
    <3>3. k.pc \notin Late
      BY <3>2 DEF Early, Late, Ending
    <3> QED BY <3>2, <3>3 DEF Moves
  <2> QED BY <2>1, <2>2, <2>3, <2>4 DEF StartOK
<1>4. AcceptedFirst(y, r)
  <2>1. CASE y.wire = k.wire
    BY <2>1 DEF ConnOK, AcceptedFirst, Moves, DeltasOn, IsAccepted
  <2>2. CASE y.closed /\ y.wire = <<>>
    BY <2>2 DEF AcceptedFirst, DeltasOn
  <2> QED BY <2>1, <2>2 DEF Moves
<1>5. ASSUME ~Dead(y), y.last # 0 PROVE Contiguous(y)
  <2>1. ~y.closed /\ ~Dead(k) /\ y.last = k.last /\ y.wire = k.wire
    BY <1>5 DEF Moves, Dead
  <2>2. Contiguous(k)
    BY <1>5, <2>1 DEF ConnOK
  <2>3. Streaming(y) = Streaming(k) /\ Replying(y) = Replying(k) /\ y.snap = k.snap
    BY <1>5 DEF Moves, Streaming
  <2> QED BY <2>1, <2>2, <2>3, ContiguousKept
<1> QED BY <1>2, <1>3, <1>4, <1>5 DEF ConnOK

\* A step that neither lets a connection in nor takes the place of another.
Stays(k, y) ==
  /\ y.pc \notin {"new", "leave", "close", "gone"} /\ ~y.closed =>
       k.pc \notin {"new", "leave", "close", "gone"} /\ ~k.closed
  /\ k.pc = "replace" => y.pc = "replace" /\ y.old = k.old

\* A step that changes connection c leaves the others as they are.
LEMMA OthersStay ==
  ASSUME WSInv, NEW c \in Conns, NEW y \in Connection, conn' = [conn EXCEPT ![c] = y],
         RuntimeOK(rt'), Follows(rt, rt'), ConnOK(y, rt')
  PROVE  /\ conn' \in [Conns -> Connection] /\ conn'[c] = y
         /\ \A d \in Conns : d # c => conn'[d] = conn[d]
         /\ \A d \in Conns : ConnOK(conn'[d], rt')
<1>1. /\ conn \in [Conns -> Connection] /\ conn' \in [Conns -> Connection] /\ conn'[c] = y
      /\ \A d \in Conns : d # c => conn'[d] = conn[d]
  BY DEF WSInv, WSTypeOK
<1>2. ASSUME NEW d \in Conns PROVE ConnOK(conn'[d], rt')
  <2>1. CASE d = c
    BY <1>1, <2>1
  <2>2. CASE d # c
    BY <1>1, <2>2, ConnLater DEF WSInv, WSTypeOK
  <2> QED BY <2>1, <2>2
<1> QED BY <1>1, <1>2

LEMMA ConnsStep ==
  ASSUME WSInv, conn' \in [Conns -> Connection], RuntimeOK(rt'), active' = active,
         \A d \in Conns : ConnOK(conn'[d], rt') /\ Stays(conn[d], conn'[d])
  PROVE  WSInv'
<1>1. OneConnection'
  <2> SUFFICES ASSUME NEW e \in Conns, Serving(e)', ~conn'[e].closed, active' # e
               PROVE  \E d \in Conns : conn'[d].pc = "replace" /\ conn'[d].old = e
    BY DEF OneConnection
  <2>1. Serving(e) /\ ~conn[e].closed
    BY DEF Serving, Stays
  <2>2. PICK d \in Conns : conn[d].pc = "replace" /\ conn[d].old = e
    BY <2>1 DEF WSInv, OneConnection
  <2> QED BY <2>2 DEF Stays
<1> QED BY <1>1 DEF WSInv, WSTypeOK

LEMMA ConnStep ==
  ASSUME WSInv, NEW c \in Conns, NEW y \in Connection, conn' = [conn EXCEPT ![c] = y],
         RuntimeOK(rt'), Follows(rt, rt'), ConnOK(y, rt'), active' = active, Stays(conn[c], y)
  PROVE  WSInv'
<1>1. /\ conn' \in [Conns -> Connection] /\ conn'[c] = y
      /\ \A d \in Conns : d # c => conn'[d] = conn[d]
      /\ \A d \in Conns : ConnOK(conn'[d], rt')
  BY OthersStay
<1>2. \A d \in Conns : Stays(conn[d], conn'[d])
  BY <1>1 DEF Stays
<1> QED BY <1>1, <1>2, ConnsStep

LEMMA RuntimeMoveStep ==
  ASSUME WSInv, NEW c \in Conns, NEW y \in Connection, Set(c, y), active' = active,
         RuntimeOK(rt'), Follows(rt, rt'), Moves(conn[c], y), Stays(conn[c], y)
  PROVE  WSInv'
<1>1. RuntimeOK(rt) /\ conn[c] \in Connection /\ ConnOK(conn[c], rt)
  BY DEF WSInv, WSTypeOK
<1>2. ConnOK(conn[c], rt')
  BY <1>1, ConnLater
<1>3. ConnOK(y, rt')
  BY <1>1, <1>2, MovesOK
<1> QED BY <1>3, ConnStep DEF Set

LEMMA MoveStep ==
  ASSUME WSInv, NEW c \in Conns, NEW y \in Connection, Set(c, y), UNCHANGED <<rt, active>>,
         Moves(conn[c], y), Stays(conn[c], y)
  PROVE  WSInv'
<1>1. RuntimeOK(rt') /\ Follows(rt, rt')
  BY DEF WSInv, WSTypeOK, Follows, RuntimeOK, Runtime
<1> QED BY <1>1, RuntimeMoveStep

\* The connection y is k, but for the place of the goroutines that only listen, the
\* mutex and the subscription.
Alike(k, y) ==
  /\ y.old = k.old /\ y.seq = k.seq /\ y.snap = k.snap /\ y.last = k.last /\ y.chan = k.chan
  /\ y.stream = k.stream /\ y.held = k.held /\ y.wire = k.wire
  /\ (y.closed <=> k.closed) /\ (k.broken => y.broken)

\* What closeWith leaves of a connection.
LEMMA ClosedFacts ==
  ASSUME NEW k \in Connection, NEW z, z = Closed(k)
  PROVE  /\ z \in Connection /\ z.closed /\ z.wire = <<>>
         /\ z.pc = k.pc /\ z.old = k.old /\ z.seq = k.seq /\ z.last = k.last /\ z.chan = k.chan
         /\ z.stream = k.stream /\ z.held = k.held
<1> DEFINE none == <<>>
<1>1. none \in Seq(Written)
  OBVIOUS
<1> HIDE DEF none
<1>2. z = [k EXCEPT !.closed = TRUE, !.broken = FALSE, !.snap = 0, !.wire = none]
  BY DEF Closed, none
<1>3. z \in Connection /\ z.wire = none
  <2> DEFINE x == [k EXCEPT !.closed = TRUE, !.broken = FALSE, !.snap = 0]
  <2>1. x \in Connection
    BY DEF Connection
  <2>2. z = [x EXCEPT !.wire = none]
    BY <1>2
  <2> HIDE DEF x
  <2> QED BY <1>1, <2>1, <2>2 DEF Connection
<1>4. /\ z.closed /\ z.pc = k.pc /\ z.old = k.old /\ z.seq = k.seq /\ z.last = k.last
      /\ z.chan = k.chan /\ z.stream = k.stream /\ z.held = k.held
  BY <1>2 DEF Connection
<1> QED BY <1>3, <1>4 DEF none

-----------------------------------------------------------------------------
\* What goroutine pc does not see: the mutex, the heartbeat, the win updates.
LEMMA QuietStep ==
  ASSUME WSInv, NEW c \in Conns, NEW y \in Connection, Set(c, y), UNCHANGED <<rt, active>>,
         Alike(conn[c], y), y.pc = conn[c].pc
  PROVE  WSInv'
<1> DEFINE k == conn[c]
<1>1. Moves(k, y)
  BY DEF Moves, Alike, Replying, Dead, Early, Late
<1>2. Stays(k, y)
  BY DEF Stays, Alike
<1> QED BY <1>1, <1>2, MoveStep

\* A goroutine closes the connection; goroutine pc may be the one.
LEMMA ClosingStep ==
  ASSUME WSInv, NEW c \in Conns, NEW y \in Connection, Set(c, y), UNCHANGED <<rt, active>>,
         y.closed, y.wire = <<>>, y.old = conn[c].old, y.seq = conn[c].seq, y.chan = conn[c].chan,
         \/ y.stream = conn[c].stream /\ y.held = conn[c].held
         \/ conn[c].stream = "shut" /\ y.stream = "done",
         y.last = conn[c].last \/ y.pc \in Ending,
         y.pc = conn[c].pc \/ (conn[c].pc # "replace" /\ y.pc \in Ending)
  PROVE  WSInv'
<1> DEFINE k == conn[c]
<1>1. Moves(k, y)
  BY DEF Moves, Dead, Early, Late, Ending
<1>2. Stays(k, y)
  BY DEF Stays
<1> QED BY <1>1, <1>2, MoveStep

\* Goroutine pc calls closeWith, of a connection that has nothing to keep but its
\* order.
LEMMA ShutStep ==
  ASSUME WSInv, NEW c \in Conns, Set(c, Shut(conn[c])), active' = active,
         RuntimeOK(rt'), Follows(rt, rt'), conn[c].pc \in Refusing
  PROVE  WSInv'
<1> DEFINE k == conn[c]
           y == Shut(k)
<1>1. k \in Connection
  BY DEF WSInv, WSTypeOK
<1>2. y \in Connection /\ Alike([k EXCEPT !.seq = 0], y) /\ y.pc = "shut"
  BY <1>1 DEF Connection, Shut, Ending, Alike
<1>3. /\ y.old = k.old /\ y.seq = 0 /\ y.snap = k.snap /\ y.last = k.last /\ y.chan = k.chan
      /\ y.stream = k.stream /\ y.held = k.held /\ y.wire = k.wire
      /\ (y.closed <=> k.closed) /\ (y.broken <=> k.broken)
  BY <1>1 DEF Connection, Shut
<1> HIDE DEF y
<1>4. Moves(k, y)
  BY <1>2, <1>3 DEF Moves, Replying, Dead, Early, Ending, Refusing
<1>5. Stays(k, y)
  BY <1>2, <1>3 DEF Stays, Refusing
<1> QED BY <1>2, <1>4, <1>5, RuntimeMoveStep DEF y

\* A runtime whose log and engine stay as they are.
LEMMA RuntimeKept ==
  ASSUME NEW r, RuntimeOK(r), NEW q \in Runtime,
         q.seq = r.seq, q.last = r.last, q.actions = r.actions
  PROVE  RuntimeOK(q) /\ Follows(r, q)
BY DEF RuntimeOK, Runtime, Follows

LEMMA SameRuntime ==
  ASSUME WSInv, rt' = rt
  PROVE  RuntimeOK(rt') /\ Follows(rt, rt')
BY DEF WSInv, WSTypeOK, Follows, RuntimeOK, Runtime

\* ensureTickLoopLocked.
LEMMA ClockStarts ==
  ASSUME WSInv, rt' = [rt EXCEPT !.ticking = ~rt.over]
  PROVE  RuntimeOK(rt') /\ Follows(rt, rt')
<1>1. RuntimeOK(rt)
  BY DEF WSInv, WSTypeOK
<1> DEFINE b == ~rt.over
<1>2. b \in BOOLEAN
  OBVIOUS
<1>3. rt' = [rt EXCEPT !.ticking = b]
  OBVIOUS
<1> HIDE DEF b
<1>4. rt' \in Runtime /\ rt'.seq = rt.seq /\ rt'.last = rt.last /\ rt'.actions = rt.actions
  BY <1>1, <1>2, <1>3 DEF RuntimeOK, Runtime
<1> QED BY <1>1, <1>4, RuntimeKept

-----------------------------------------------------------------------------
\* The steps that only move a connection along.
LEMMA HandlerMoves ==
  ASSUME WSInv, NEW c \in Conns,
         \/ \E m \in Messages : ReadRefused(c, m) \/ ReadAction(c, m)
         \/ WriteAck(c) \/ SubscribeDeltas(c) \/ SubscribeWins(c) \/ ReadFails(c)
  PROVE  WSInv'
<1> DEFINE k == conn[c]
<1>1. k \in Connection /\ ConnOK(k, rt) /\ StartOK(k) /\ RuntimeOK(rt)
  BY DEF WSInv, WSTypeOK, ConnOK
<1>2. ASSUME NEW y, y = Shut(k), Set(c, y), UNCHANGED <<rt, active>>, k.pc \in Refusing
      PROVE  WSInv'
  BY <1>2, SameRuntime, ShutStep
<1>3. ASSUME NEW m \in Messages, ReadRefused(c, m) PROVE WSInv'
  BY <1>2, <1>3 DEF ReadRefused, Refusing
<1>4. ASSUME NEW m \in Messages, ReadAction(c, m) PROVE WSInv'
  <2> DEFINE y == [k EXCEPT !.pc = "apply"]
  <2>1. k.pc = "read" /\ Set(c, y) /\ UNCHANGED <<rt, active>>
    BY <1>4 DEF ReadAction
  <2>2. y \in Connection /\ y.pc = "apply" /\ Alike(k, y) /\ (y.broken <=> k.broken)
    BY <1>1 DEF Connection, Late, Alike
  <2> HIDE DEF y
  <2>3. Moves(k, y) /\ Stays(k, y)
    BY <2>1, <2>2 DEF Moves, Stays, Alike, Replying, Dead, Early, Late, Ending
  <2> QED BY <2>1, <2>2, <2>3, MoveStep
<1>5. ASSUME WriteAck(c) PROVE WSInv'
  <2> DEFINE next == IF Dead(k) THEN "leave" ELSE "snapshot"
             y == [k EXCEPT !.pc = next, !.mu = "free"]
  <2>1. k.pc = "ack" /\ Set(c, y) /\ UNCHANGED <<rt, active>>
    BY <1>5 DEF WriteAck
  <2>2. next \in {"leave", "snapshot"}
    OBVIOUS
  <2> HIDE DEF next
  <2>3. y \in Connection
    <3> DEFINE x == [k EXCEPT !.pc = next]
    <3>1. x \in Connection
      BY <1>1, <2>2 DEF Connection, Early, Ending
    <3>2. y = [x EXCEPT !.mu = "free"]
      OBVIOUS
    <3> HIDE DEF x, y
    <3> QED BY <3>1, <3>2 DEF Connection
  <2>4. y.pc = next /\ Alike(k, y) /\ (y.broken <=> k.broken)
    BY <1>1 DEF Connection, Alike
  <2> HIDE DEF y
  <2>5. Moves(k, y) /\ Stays(k, y)
    BY <2>1, <2>2, <2>4 DEF Moves, Stays, Alike, Replying, Dead, Early, Late, Ending
  <2> QED BY <2>1, <2>3, <2>5, MoveStep
<1>6. ASSUME SubscribeDeltas(c) PROVE WSInv'
  <2> DEFINE y == [k EXCEPT !.subscribed = TRUE, !.stream = "wait", !.pc = "subscribeWins"]
  <2>1. k.pc = "subscribe" /\ active' = active
    BY <1>6 DEF SubscribeDeltas
  <2>2. CASE Set(c, Shut(k)) /\ UNCHANGED rt
    BY <1>2, <2>1, <2>2 DEF Refusing
  <2>3. CASE Set(c, y) /\ rt' = [rt EXCEPT !.ticking = ~rt.over]
    <3>1. k.stream = "off"
      BY <1>1, <2>1 DEF StartOK
    <3>2. /\ y \in Connection /\ y.pc = "subscribeWins" /\ y.stream = "wait"
          /\ y.old = k.old /\ y.seq = k.seq /\ y.snap = k.snap /\ y.last = k.last
          /\ y.chan = k.chan /\ y.wire = k.wire
          /\ (y.closed <=> k.closed) /\ (y.broken <=> k.broken)
      BY <1>1 DEF Connection, Late
    <3> HIDE DEF y
    <3>3. Moves(k, y) /\ Stays(k, y)
      BY <2>1, <3>1, <3>2 DEF Moves, Stays, Replying, Dead, Early, Late, Ending
    <3> QED BY <2>1, <2>3, <3>2, <3>3, ClockStarts, RuntimeMoveStep
  <2> QED BY <1>6, <2>2, <2>3 DEF SubscribeDeltas
<1>7. ASSUME SubscribeWins(c) PROVE WSInv'
  <2> DEFINE y == [k EXCEPT !.wins = "wait", !.beat = "wait", !.pc = "read"]
             subs == rt.winSubs \cup {c}
  <2>1. k.pc = "subscribeWins" /\ active' = active
    BY <1>7 DEF SubscribeWins
  <2>2. CASE Set(c, Shut(k)) /\ UNCHANGED rt
    BY <1>2, <2>1, <2>2 DEF Refusing
  <2>3. CASE Set(c, y) /\ rt' = [rt EXCEPT !.winSubs = subs]
    <3>1. y \in Connection /\ y.pc = "read" /\ Alike(k, y) /\ (y.broken <=> k.broken)
      BY <1>1 DEF Connection, Late, Alike
    <3> HIDE DEF y
    <3>2. Moves(k, y) /\ Stays(k, y)
      BY <2>1, <3>1 DEF Moves, Stays, Alike, Replying, Dead, Early, Late, Ending
    <3>3. subs \in SUBSET Conns
      BY <1>1 DEF RuntimeOK, Runtime
    <3> HIDE DEF subs
    <3>4. rt' \in Runtime /\ rt'.seq = rt.seq /\ rt'.last = rt.last /\ rt'.actions = rt.actions
      BY <1>1, <2>3, <3>3 DEF RuntimeOK, Runtime
    <3>5. RuntimeOK(rt') /\ Follows(rt, rt')
      BY <1>1, <3>4, RuntimeKept
    <3> QED BY <2>1, <2>3, <3>1, <3>2, <3>5, RuntimeMoveStep
  <2> QED BY <1>7, <2>2, <2>3 DEF SubscribeWins
<1>8. ASSUME ReadFails(c) PROVE WSInv'
  <2> DEFINE y == [k EXCEPT !.pc = "leave"]
  <2>1. k.pc = "read" /\ Set(c, y) /\ UNCHANGED <<rt, active>>
    BY <1>8 DEF ReadFails
  <2>2. y \in Connection /\ y.pc = "leave" /\ Alike(k, y) /\ (y.broken <=> k.broken)
    BY <1>1 DEF Connection, Ending, Alike
  <2> HIDE DEF y
  <2>3. Moves(k, y) /\ Stays(k, y)
    BY <2>1, <2>2 DEF Moves, Stays, Alike, Replying, Dead, Early, Late, Ending
  <2> QED BY <2>1, <2>2, <2>3, MoveStep
<1> QED BY <1>3, <1>4, <1>5, <1>6, <1>7, <1>8

\* The steps that close a connection.
LEMMA ClosingMoves ==
  ASSUME WSInv, NEW c \in Conns,
         \/ \E m \in Messages : RefuseHello(c, m)
         \/ CloseShut(c) \/ CloseNormal(c) \/ CloseStream(c) \/ CloseLate(c)
  PROVE  WSInv'
<1> DEFINE k == conn[c]
<1>1. k \in Connection
  BY DEF WSInv, WSTypeOK
<1>2. PICK z : z = Closed(k)
  OBVIOUS
<1>3. /\ z \in Connection /\ z.closed /\ z.wire = <<>>
      /\ z.pc = k.pc /\ z.old = k.old /\ z.seq = k.seq /\ z.last = k.last /\ z.chan = k.chan
      /\ z.stream = k.stream /\ z.held = k.held
  BY <1>1, <1>2, ClosedFacts
<1>4. ASSUME NEW p \in Ending, k.pc # "replace", UNCHANGED <<rt, active>>,
             NEW y, y = [z EXCEPT !.pc = p] \/ y = [z EXCEPT !.pc = p, !.last = 0], Set(c, y)
      PROVE  WSInv'
  <2>1. /\ y \in Connection /\ y.closed /\ y.wire = z.wire /\ y.pc = p
        /\ y.old = z.old /\ y.seq = z.seq /\ y.chan = z.chan
        /\ y.stream = z.stream /\ y.held = z.held
    <3>1. CASE y = [z EXCEPT !.pc = p]
      BY <1>3, <3>1 DEF Connection
    <3>2. CASE y = [z EXCEPT !.pc = p, !.last = 0]
      BY <1>3, <3>2 DEF Connection
    <3> QED BY <1>4, <3>1, <3>2
  <2> QED BY <1>3, <1>4, <2>1, ClosingStep
<1>5. ASSUME NEW m \in Messages, RefuseHello(c, m) PROVE WSInv'
  BY <1>2, <1>4, <1>5 DEF RefuseHello, Ending
<1>6. ASSUME CloseShut(c) PROVE WSInv'
  BY <1>2, <1>4, <1>6 DEF CloseShut, Ending
<1>7. ASSUME CloseNormal(c) PROVE WSInv'
  BY <1>2, <1>4, <1>7 DEF CloseNormal, Ending
<1>8. ASSUME CloseStream(c) PROVE WSInv'
  <2> DEFINE y == [z EXCEPT !.stream = "done"]
  <2>1. k.stream = "shut" /\ Set(c, y) /\ UNCHANGED <<rt, active>>
    BY <1>2, <1>8 DEF CloseStream
  <2>2. /\ y \in Connection /\ y.closed /\ y.wire = z.wire /\ y.pc = z.pc
        /\ y.old = z.old /\ y.seq = z.seq /\ y.chan = z.chan /\ y.last = z.last /\ y.stream = "done"
    BY <1>3 DEF Connection
  <2> HIDE DEF y
  <2> QED BY <1>3, <2>1, <2>2, ClosingStep
<1>9. ASSUME CloseLate(c) PROVE WSInv'
  <2> DEFINE y == [z EXCEPT !.beat = "done"]
  <2>1. Set(c, y) /\ UNCHANGED <<rt, active>>
    BY <1>2, <1>9 DEF CloseLate
  <2>2. /\ y \in Connection /\ y.closed /\ y.wire = z.wire /\ y.pc = z.pc
        /\ y.old = z.old /\ y.seq = z.seq /\ y.chan = z.chan /\ y.last = z.last
        /\ y.stream = z.stream /\ y.held = z.held
    BY <1>3 DEF Connection
  <2> HIDE DEF y
  <2> QED BY <1>3, <2>1, <2>2, ClosingStep
<1> QED BY <1>5, <1>6, <1>7, <1>8, <1>9

LEMMA StreamMoves ==
  ASSUME WSInv, NEW c \in Conns, StreamStops(c) \/ Unsubscribed(c)
  PROVE  WSInv'
<1> DEFINE k == conn[c]
<1>1. k \in Connection /\ ConnOK(k, rt) /\ StartOK(k)
  BY DEF WSInv, WSTypeOK, ConnOK
<1>2. ASSUME StreamStops(c) PROVE WSInv'
  <2> DEFINE y == [k EXCEPT !.stream = "done"]
  <2>1. k.stream = "wait" /\ Set(c, y) /\ UNCHANGED <<rt, active>>
    BY <1>2 DEF StreamStops
  <2>2. /\ y \in Connection /\ (y.closed <=> k.closed) /\ (y.broken <=> k.broken)
        /\ y.pc = k.pc /\ y.wire = k.wire /\ y.last = k.last /\ y.chan = k.chan /\ y.seq = k.seq
        /\ y.stream = "done" /\ y.snap = k.snap /\ y.old = k.old
    BY <1>1 DEF Connection
  <2> HIDE DEF y
  <2>3. Moves(k, y) /\ Stays(k, y)
    BY <2>1, <2>2 DEF Moves, Stays, Replying, Dead
  <2> QED BY <2>1, <2>2, <2>3, MoveStep
<1>3. ASSUME Unsubscribed(c) PROVE WSInv'
  <2> DEFINE none == <<>>
             y == [k EXCEPT !.subscribed = FALSE, !.chan = none]
  <2>1. Set(c, y) /\ UNCHANGED <<rt, active>>
    BY <1>3 DEF Unsubscribed
  <2>2. none \in Seq(Nat) /\ none = <<>>
    OBVIOUS
  <2> HIDE DEF none
  <2>3. y \in Connection /\ y.chan = none
    BY <1>1, <2>2 DEF Connection
  <2>4. /\ (y.closed <=> k.closed) /\ (y.broken <=> k.broken)
        /\ y.pc = k.pc /\ y.wire = k.wire /\ y.last = k.last /\ y.seq = k.seq
        /\ y.stream = k.stream /\ y.held = k.held /\ y.snap = k.snap /\ y.old = k.old
    BY <1>1 DEF Connection
  <2> HIDE DEF y
  <2>5. Moves(k, y) /\ Stays(k, y)
    BY <2>2, <2>3, <2>4 DEF Moves, Stays, Replying, Dead
  <2> QED BY <2>1, <2>3, <2>5, MoveStep
<1> QED BY <1>2, <1>3

Quiet(k, y) == y \in Connection /\ y.pc = k.pc /\ Alike(k, y)

LEMMA QuietFields ==
  ASSUME NEW k \in Connection
  PROVE  /\ \A w \in {"off", "wait", "told", "done"} : Quiet(k, [k EXCEPT !.wins = w])
         /\ \A b \in {"off", "wait", "silent", "late", "done"} : Quiet(k, [k EXCEPT !.beat = b])
         /\ \A u \in Goroutines \cup {"free"} : Quiet(k, [k EXCEPT !.mu = u])
         /\ Quiet(k, [k EXCEPT !.broken = TRUE])
<1>1. ASSUME NEW w \in {"off", "wait", "told", "done"} PROVE Quiet(k, [k EXCEPT !.wins = w])
  <2>1. [k EXCEPT !.wins = w] \in Connection
    BY DEF Connection
  <2> QED BY <2>1 DEF Connection, Quiet, Alike
<1>2. ASSUME NEW b \in {"off", "wait", "silent", "late", "done"} PROVE Quiet(k, [k EXCEPT !.beat = b])
  <2>1. [k EXCEPT !.beat = b] \in Connection
    BY DEF Connection
  <2> QED BY <2>1 DEF Connection, Quiet, Alike
<1>3. ASSUME NEW u \in Goroutines \cup {"free"} PROVE Quiet(k, [k EXCEPT !.mu = u])
  <2>1. [k EXCEPT !.mu = u] \in Connection
    BY DEF Connection
  <2> QED BY <2>1 DEF Connection, Quiet, Alike
<1>4. Quiet(k, [k EXCEPT !.broken = TRUE])
  <2>1. [k EXCEPT !.broken = TRUE] \in Connection
    BY DEF Connection
  <2> QED BY <2>1 DEF Connection, Quiet, Alike
<1> QED BY <1>1, <1>2, <1>3, <1>4

LEMMA QuietMoves ==
  ASSUME WSInv, NEW c \in Conns,
         \/ WriteWin(c) \/ WinStops(c) \/ Ping(c) \/ BeatTimesOut(c) \/ BeatStops(c) \/ Network(c)
         \/ \E m \in Messages : ReadPong(c, m)
  PROVE  WSInv'
<1> DEFINE k == conn[c]
<1>1. k \in Connection /\ k.beat \in {"off", "wait", "silent", "late", "done"}
  BY DEF WSInv, WSTypeOK, Connection
<1>2. ASSUME NEW y, Quiet(k, y), Set(c, y), UNCHANGED <<rt, active>> PROVE WSInv'
  BY <1>2, QuietStep DEF Quiet
\* A write also lets go of the mutex.
<1>3. ASSUME NEW z, Quiet(k, z), Set(c, [z EXCEPT !.mu = "free"]), UNCHANGED <<rt, active>>
      PROVE  WSInv'
  <2>1. z \in Connection
    BY <1>3 DEF Quiet
  <2>2. PICK y : y = [z EXCEPT !.mu = "free"]
    OBVIOUS
  <2>3. Quiet(z, y)
    BY <2>1, <2>2, QuietFields
  <2>4. Quiet(k, y)
    BY <1>3, <2>3 DEF Quiet, Alike
  <2> QED BY <1>2, <1>3, <2>2, <2>4
<1>4. ASSUME WriteWin(c) PROVE WSInv'
  <2> DEFINE w == IF Dead(k) THEN "done" ELSE "wait"
  <2>1. Set(c, [[k EXCEPT !.wins = w] EXCEPT !.mu = "free"]) /\ UNCHANGED <<rt, active>>
    BY <1>4 DEF WriteWin
  <2>2. Quiet(k, [k EXCEPT !.wins = w])
    BY <1>1, QuietFields
  <2> HIDE DEF w
  <2> QED BY <1>3, <2>1, <2>2
<1>5. ASSUME Ping(c) PROVE WSInv'
  <2> DEFINE b == IF Dead(k) THEN "done" ELSE k.beat
  <2>1. Set(c, [[k EXCEPT !.beat = b] EXCEPT !.mu = "free"]) /\ UNCHANGED <<rt, active>>
    BY <1>5 DEF Ping
  <2>2. Quiet(k, [k EXCEPT !.beat = b])
    BY <1>1, QuietFields
  <2> HIDE DEF b
  <2> QED BY <1>3, <2>1, <2>2
<1>6. ASSUME NEW m \in Messages, ReadPong(c, m) PROVE WSInv'
  <2> DEFINE b == IF k.beat = "silent" THEN "wait" ELSE k.beat
  <2>1. Set(c, [k EXCEPT !.beat = b]) /\ UNCHANGED <<rt, active>>
    BY <1>6 DEF ReadPong
  <2>2. Quiet(k, [k EXCEPT !.beat = b])
    BY <1>1, QuietFields
  <2> HIDE DEF b
  <2> QED BY <1>2, <2>1, <2>2
<1>7. ASSUME WinStops(c) PROVE WSInv'
  BY <1>1, <1>2, <1>7, QuietFields DEF WinStops
<1>8. ASSUME BeatTimesOut(c) \/ BeatStops(c) \/ Silence(c) PROVE WSInv'
  BY <1>1, <1>2, <1>8, QuietFields DEF BeatTimesOut, BeatStops, Silence
<1>9. ASSUME Breaks(c) PROVE WSInv'
  BY <1>1, <1>2, <1>9, QuietFields DEF Breaks
<1>10. ASSUME NEW g \in Goroutines, Stalls(c, g) PROVE WSInv'
  BY <1>1, <1>2, <1>10, QuietFields DEF Stalls
<1> QED BY <1>4, <1>5, <1>6, <1>7, <1>8, <1>9, <1>10 DEF Network

-----------------------------------------------------------------------------
\* The wire of y is the wire of k and one message more.
OneMore(k, y, type, seq) ==
  \E n \in Nat :
    /\ DOMAIN y.wire = DOMAIN k.wire \cup {n}
    /\ \A i \in DOMAIN k.wire : i \in Nat /\ i < n /\ y.wire[i] = k.wire[i]
    /\ y.wire[n] = [type |-> type, seq |-> seq]

LEMMA OneMoreFacts ==
  ASSUME NEW k \in Connection, NEW y \in Connection, NEW type, NEW seq \in Nat,
         OneMore(k, y, type, seq)
  PROVE  /\ DeltaSeqs(y) = DeltaSeqs(k) \cup (IF type = "delta" THEN {seq} ELSE {})
         /\ \A b \in Nat : seq <= b /\ (\A i \in DOMAIN k.wire : k.wire[i].seq <= b) =>
              \A i \in DOMAIN y.wire : y.wire[i].seq <= b
         /\ \A s : (\E i \in DOMAIN k.wire : IsAccepted(k, i, s)) =>
              \E i \in DOMAIN y.wire : IsAccepted(y, i, s)
         /\ type = "action_accepted" => \E i \in DOMAIN y.wire : IsAccepted(y, i, seq)
         /\ /\ \A i, j \in DeltasOn(k) : k.wire[i].seq = k.wire[j].seq => i = j
            /\ type = "delta" => seq \notin DeltaSeqs(k)
            => \A i, j \in DeltasOn(y) : y.wire[i].seq = y.wire[j].seq => i = j
<1>1. PICK n \in Nat :
        /\ DOMAIN y.wire = DOMAIN k.wire \cup {n}
        /\ \A i \in DOMAIN k.wire : i \in Nat /\ i < n /\ y.wire[i] = k.wire[i]
        /\ y.wire[n] = [type |-> type, seq |-> seq]
  BY DEF OneMore
<1>2. n \notin DOMAIN k.wire
  BY <1>1
<1>3. DeltasOn(y) = DeltasOn(k) \cup (IF type = "delta" THEN {n} ELSE {})
  BY <1>1, <1>2 DEF DeltasOn
<1>4. \A i \in DeltasOn(k) : i \in DOMAIN k.wire /\ y.wire[i] = k.wire[i]
  BY <1>1 DEF DeltasOn
<1>5. y.wire[n].type = type /\ y.wire[n].seq = seq
  BY <1>1
<1>6. DeltaSeqs(y) = DeltaSeqs(k) \cup (IF type = "delta" THEN {seq} ELSE {})
  BY <1>3, <1>4, <1>5 DEF DeltaSeqs
<1>7. ASSUME \A i, j \in DeltasOn(k) : k.wire[i].seq = k.wire[j].seq => i = j,
             type = "delta" => seq \notin DeltaSeqs(k),
             NEW i \in DeltasOn(y), NEW j \in DeltasOn(y), y.wire[i].seq = y.wire[j].seq
      PROVE  i = j
  <2>1. CASE i \in DeltasOn(k) /\ j \in DeltasOn(k)
    BY <1>4, <1>7, <2>1
  <2>2. CASE i = n /\ j = n
    BY <2>2
  <2>3. CASE type = "delta" /\ i = n /\ j \in DeltasOn(k)
    BY <1>4, <1>5, <1>7, <2>3 DEF DeltaSeqs
  <2>4. CASE type = "delta" /\ j = n /\ i \in DeltasOn(k)
    BY <1>4, <1>5, <1>7, <2>4 DEF DeltaSeqs
  <2> QED BY <1>3, <1>7, <2>1, <2>2, <2>3, <2>4
<1>8. \A b \in Nat : seq <= b /\ (\A i \in DOMAIN k.wire : k.wire[i].seq <= b) =>
        \A i \in DOMAIN y.wire : y.wire[i].seq <= b
  BY <1>1, <1>5
<1>9. /\ \A s : (\E i \in DOMAIN k.wire : IsAccepted(k, i, s)) =>
          \E i \in DOMAIN y.wire : IsAccepted(y, i, s)
      /\ type = "action_accepted" => \E i \in DOMAIN y.wire : IsAccepted(y, i, seq)
  BY <1>1, <1>5 DEF IsAccepted
<1> QED BY <1>6, <1>7, <1>8, <1>9

\* A message that is no delta of an action, or whose action was accepted, keeps the
\* order.
LEMMA OrderKept ==
  ASSUME NEW k \in Connection, NEW y \in Connection, NEW type, NEW seq \in Nat,
         OneMore(k, y, type, seq), NEW r,
         \A i \in DeltasOn(k) : k.wire[i].seq \in r.actions =>
           \E j \in DOMAIN k.wire : j < i /\ IsAccepted(k, j, k.wire[i].seq),
         \/ type # "delta" \/ seq \notin r.actions
         \/ \E j \in DOMAIN k.wire : IsAccepted(k, j, seq)
  PROVE  \A i \in DeltasOn(y) : y.wire[i].seq \in r.actions =>
           \E j \in DOMAIN y.wire : j < i /\ IsAccepted(y, j, y.wire[i].seq)
<1>1. PICK n \in Nat :
        /\ DOMAIN y.wire = DOMAIN k.wire \cup {n}
        /\ \A i \in DOMAIN k.wire : i \in Nat /\ i < n /\ y.wire[i] = k.wire[i]
        /\ y.wire[n] = [type |-> type, seq |-> seq]
  BY DEF OneMore
<1> SUFFICES ASSUME NEW i \in DeltasOn(y), y.wire[i].seq \in r.actions
             PROVE  \E j \in DOMAIN y.wire : j < i /\ IsAccepted(y, j, y.wire[i].seq)
  OBVIOUS
<1>2. CASE i \in DOMAIN k.wire
  BY <1>1, <1>2 DEF DeltasOn, IsAccepted
<1>3. CASE i = n
  BY <1>1, <1>3 DEF DeltasOn, IsAccepted
<1> QED BY <1>1, <1>2, <1>3 DEF DeltasOn

\* A write changes neither what the connection has numbered nor what it streams.
Keeps(k, z) ==
  /\ z.snap = k.snap /\ z.last = k.last /\ z.chan = k.chan
  /\ z.stream = k.stream /\ z.held = k.held /\ z.old = k.old
  /\ (z.closed <=> k.closed) /\ (z.broken <=> k.broken)

\* A write puts one message at the end of the wire.
LEMMA OnWireFacts ==
  ASSUME NEW k \in Connection, NEW type \in {"snapshot", "delta", "action_accepted"}, NEW seq \in Nat,
         NEW z, z = OnWire(k, type, seq)
  PROVE  /\ z \in Connection /\ OneMore(k, z, type, seq) /\ Keeps(k, z)
         /\ z.pc = k.pc /\ z.seq = k.seq
<1> DEFINE m == [type |-> type, seq |-> seq]
           w == Append(k.wire, m)
           n == Len(k.wire) + 1
<1>1. k.wire \in Seq(Written) /\ m \in Written
  BY DEF Connection, Written
<1>2. /\ w \in Seq(Written) /\ n \in Nat
      /\ DOMAIN w = DOMAIN k.wire \cup {n}
      /\ \A i \in DOMAIN k.wire : i \in Nat /\ i < n /\ w[i] = k.wire[i]
      /\ w[n] = m
  BY <1>1
<1>3. z = [k EXCEPT !.wire = w]
  BY DEF OnWire, Connection
<1> HIDE DEF w, n
<1>4. z \in Connection /\ z.wire = w
  BY <1>2, <1>3 DEF Connection
<1>5. OneMore(k, z, type, seq)
  BY <1>2, <1>4 DEF OneMore
<1>6. z.pc = k.pc /\ z.seq = k.seq /\ Keeps(k, z)
  BY <1>3 DEF Connection, Keeps
<1> QED BY <1>4, <1>5, <1>6

\* What connWriter.write does for the goroutine that reads.
LEMMA WroteFacts ==
  ASSUME NEW k \in Connection, NEW type \in {"snapshot", "delta", "action_accepted"}, NEW seq \in Nat,
         NEW next \in Late, NEW z, z = Wrote(k, type, seq, next)
  PROVE  /\ z \in Connection /\ Keeps(k, z)
         /\ \/ Dead(k) /\ z.pc = "leave" /\ z.seq = 0 /\ z.wire = k.wire
            \/ ~Dead(k) /\ z.pc = next /\ z.seq = k.seq /\ OneMore(k, z, type, seq)
<1>1. CASE Dead(k)
  <2>1. z = [k EXCEPT !.pc = "leave", !.mu = "free", !.seq = 0]
    BY <1>1 DEF Wrote
  <2>2. z \in Connection /\ z.pc = "leave" /\ z.seq = 0 /\ z.wire = k.wire
    <3> DEFINE x == [k EXCEPT !.pc = "leave", !.mu = "free"]
    <3>1. x \in Connection /\ x.pc = "leave" /\ x.wire = k.wire
      BY DEF Connection, Ending
    <3>2. z = [x EXCEPT !.seq = 0]
      BY <2>1
    <3> HIDE DEF x
    <3>3. z \in Connection
      <4> DEFINE u == [x EXCEPT !.seq = 0]
      <4>1. u \in Connection
        BY <3>1 DEF Connection
      <4> QED BY <3>2, <4>1
    <3>4. z.pc = x.pc /\ z.seq = 0 /\ z.wire = x.wire
      BY <3>1, <3>2 DEF Connection
    <3> QED BY <3>1, <3>3, <3>4
  <2>3. Keeps(k, z)
    BY <2>1 DEF Connection, Keeps
  <2> QED BY <1>1, <2>2, <2>3
<1>2. CASE ~Dead(k)
  <2> DEFINE x == OnWire(k, type, seq)
  <2>1. /\ x \in Connection /\ OneMore(k, x, type, seq) /\ Keeps(k, x)
        /\ x.pc = k.pc /\ x.seq = k.seq
    BY OnWireFacts
  <2>2. z = [x EXCEPT !.pc = next, !.mu = "free"]
    BY <1>2 DEF Wrote
  <2> HIDE DEF x
  <2>3. z \in Connection /\ z.pc = next /\ z.seq = x.seq /\ z.wire = x.wire
    <3> DEFINE u == [x EXCEPT !.pc = next]
    <3>1. u \in Connection /\ u.pc = next /\ u.seq = x.seq /\ u.wire = x.wire
      BY <2>1 DEF Connection
    <3>2. z = [u EXCEPT !.mu = "free"]
      BY <2>2
    <3> HIDE DEF u
    <3>3. Quiet(u, z)
      <4>1. Quiet(u, [u EXCEPT !.mu = "free"])
        BY <3>1, QuietFields
      <4> QED BY <3>2, <4>1
    <3>4. z.wire = u.wire /\ z.seq = u.seq
      BY <3>3 DEF Quiet, Alike
    <3> QED BY <3>1, <3>3, <3>4 DEF Quiet
  <2>4. Keeps(k, z)
    BY <2>1, <2>2 DEF Connection, Keeps
  <2>5. OneMore(k, z, type, seq)
    BY <2>1, <2>3 DEF OneMore
  <2> QED BY <1>2, <2>1, <2>3, <2>4, <2>5
<1> QED BY <1>1, <1>2

-----------------------------------------------------------------------------
LEMMA ConnectStep ==
  ASSUME WSInv, NEW c \in Conns, Connect(c)
  PROVE  WSInv'
<1> DEFINE k == conn[c]
           y == [k EXCEPT !.seq = rt.last, !.snap = rt.last, !.pc = "ack"]
<1>1. k.pc = "connect" /\ k \in Connection /\ ConnOK(k, rt) /\ RuntimeOK(rt) /\ active' = active
  BY DEF Connect, WSInv, WSTypeOK
<1>2. CASE Set(c, Shut(k)) /\ UNCHANGED rt
  BY <1>1, <1>2, SameRuntime, ShutStep DEF Refusing
<1>3. CASE Set(c, y) /\ rt' = [rt EXCEPT !.ticking = ~rt.over]
  <2>1. rt.last \in Nat /\ rt.seq \in Nat /\ rt.last <= rt.seq
    BY <1>1 DEF RuntimeOK, Runtime
  <2>2. RuntimeOK(rt') /\ Follows(rt, rt')
    BY <1>3, ClockStarts
  <2>3. /\ y \in Connection /\ y.pc = "ack" /\ y.seq = rt.last /\ y.snap = rt.last
        /\ y.wire = k.wire /\ y.chan = k.chan /\ y.last = k.last /\ y.stream = k.stream
        /\ y.held = k.held /\ (y.closed <=> k.closed)
    BY <1>1, <2>1 DEF Connection, Early
  <2> HIDE DEF y
  <2>4. ConnOK(y, rt)
    <3>1. SeqsAreOld(y, rt)
      BY <1>1, <2>1, <2>3 DEF ConnOK, SeqsAreOld
    <3>2. StartOK(y) /\ y.last = 0
      BY <1>1, <2>3 DEF ConnOK, StartOK, Early
    <3>3. AcceptedFirst(y, rt)
      BY <1>1, <2>3 DEF ConnOK, AcceptedFirst, DeltasOn, IsAccepted
    <3> QED BY <3>1, <3>2, <3>3 DEF ConnOK
  <2>5. ConnOK(y, rt')
    BY <1>1, <2>2, <2>3, <2>4, ConnLater
  <2>6. Stays(k, y)
    BY <1>1, <2>3 DEF Stays
  <2> QED BY <1>1, <1>3, <2>2, <2>3, <2>5, <2>6, ConnStep DEF Set
<1> QED BY <1>2, <1>3 DEF Connect

\* The snapshot starts the sequence of deltas.
LEMMA WriteSnapshotStep ==
  ASSUME WSInv, NEW c \in Conns, WriteSnapshot(c)
  PROVE  WSInv'
<1> DEFINE k == conn[c]
           y == [Wrote(k, "snapshot", k.seq, "subscribe") EXCEPT !.last = k.seq, !.seq = 0]
<1>1. /\ k.pc = "snapshot" /\ k \in Connection /\ ConnOK(k, rt) /\ RuntimeOK(rt)
      /\ UNCHANGED <<rt, active>>
  BY DEF WriteSnapshot, WSInv, WSTypeOK
<1>2. CASE k.seq <= 0
  BY <1>1, <1>2, SameRuntime, ShutStep DEF WriteSnapshot, Refusing
<1>3. CASE ~(k.seq <= 0)
  <2>1. Set(c, y)
    BY <1>3 DEF WriteSnapshot
  <2>2. /\ k.seq \in Nat /\ k.seq # 0 /\ rt.seq \in Nat
        /\ k.last = 0 /\ k.wire = <<>> /\ k.stream = "off" /\ (~k.closed => k.seq = k.snap)
    BY <1>1, <1>3, ConnTyped DEF RuntimeOK, Runtime, ConnOK, StartOK, Early
  <2>3. DeltasOn(k) = {} /\ DeltaSeqs(k) = {}
    BY <2>2 DEF DeltasOn, DeltaSeqs
  <2> HIDE DEF k
  <2>4. PICK z : z = Wrote(k, "snapshot", k.seq, "subscribe")
    OBVIOUS
  <2>5. /\ z \in Connection /\ Keeps(k, z)
        /\ \/ Dead(k) /\ z.pc = "leave" /\ z.wire = k.wire
           \/ ~Dead(k) /\ z.pc = "subscribe" /\ OneMore(k, z, "snapshot", k.seq)
    <3>1. "subscribe" \in Late
      BY DEF Late
    <3>2. k \in Connection /\ k.seq \in Nat /\ "snapshot" \in {"snapshot", "delta", "action_accepted"}
      BY <1>1, <2>2
    <3> QED BY <2>4, <3>1, <3>2, WroteFacts
  <2> HIDE DEF y
  <2>6. /\ y \in Connection /\ y.seq = 0 /\ y.last = k.seq /\ y.wire = z.wire /\ y.pc = z.pc
        /\ y.snap = k.snap /\ y.chan = k.chan /\ y.stream = "off"
        /\ (y.closed <=> k.closed) /\ (y.broken <=> k.broken)
    BY <2>2, <2>5, <2>4 DEF Connection, Keeps, y
  <2>7. ConnOK(y, rt)
    <3>1. CASE Dead(k)
      BY <1>1, <2>2, <2>3, <2>5, <2>6, <3>1
         DEF ConnOK, SeqsAreOld, StartOK, AcceptedFirst, DeltasOn, Early, Dead
    <3>2. CASE ~Dead(k)
      <4>1. OneMore(k, y, "snapshot", k.seq) /\ y.pc = "subscribe"
        BY <2>5, <2>6, <3>2 DEF OneMore
      <4>2. /\ DeltaSeqs(y) = {} /\ \A i \in DOMAIN y.wire : y.wire[i].seq <= rt.seq
            /\ \A i, j \in DeltasOn(y) : y.wire[i].seq = y.wire[j].seq => i = j
        BY <1>1, <2>2, <2>3, <2>6, <4>1, OneMoreFacts DEF ConnOK, SeqsAreOld
      <4>3. DeltasOn(y) = {}
        BY <4>2 DEF DeltaSeqs
      <4>4. SeqsAreOld(y, rt) /\ StartOK(y) /\ AcceptedFirst(y, rt)
        BY <1>1, <2>2, <2>6, <4>1, <4>2, <4>3 DEF ConnOK, SeqsAreOld, StartOK, AcceptedFirst, Early
      <4>5. Contiguous(y)
        BY <2>2, <2>6, <3>2, <4>1, <4>2, <4>3 DEF Contiguous, Streaming, Replying, Dead
      <4> QED BY <4>4, <4>5 DEF ConnOK
    <3> QED BY <3>1, <3>2
  <2>8. RuntimeOK(rt') /\ Follows(rt, rt') /\ ConnOK(y, rt')
    BY <1>1, <2>7, SameRuntime
  <2>9. Stays(k, y)
    BY <1>1, <2>5, <2>6 DEF Stays
  <2> QED BY <1>1, <2>1, <2>6, <2>8, <2>9, ConnStep DEF Set, k
<1> QED BY <1>2, <1>3

-----------------------------------------------------------------------------
\* The runtime answered with a seq it has handed out.
LEMMA AppliedOK ==
  ASSUME NEW r, RuntimeOK(r), NEW k \in Connection, ConnOK(k, r), k.pc = "apply",
         NEW seq \in Nat, seq <= r.seq, NEW y, y = Applied(k, seq)
  PROVE  y \in Connection /\ ConnOK(y, r) /\ Stays(k, y)
<1>1. /\ y \in Connection /\ y.pc = "accepted" /\ y.seq = seq
      /\ y.snap = k.snap /\ y.last = k.last /\ y.chan = k.chan /\ y.wire = k.wire
      /\ y.stream = k.stream /\ y.held = k.held
      /\ (y.closed <=> k.closed) /\ (y.broken <=> k.broken)
  BY DEF Applied, Connection, Late
<1>2. SeqsAreOld(y, r)
  BY <1>1 DEF ConnOK, SeqsAreOld
<1>3. StartOK(y)
  BY <1>1 DEF ConnOK, StartOK, Early, Ending, Dead
<1>4. AcceptedFirst(y, r)
  BY <1>1 DEF ConnOK, AcceptedFirst, DeltasOn, IsAccepted
<1>5. ASSUME ~Dead(y), y.last # 0 PROVE Contiguous(y)
  <2>1. Contiguous(k)
    BY <1>1, <1>5 DEF ConnOK, Dead
  <2>2. Streaming(y) = Streaming(k) /\ Replying(y) = Replying(k)
    BY <1>1 DEF Streaming, Replying
  <2> QED BY <1>1, <2>1, <2>2, ContiguousKept
<1>6. Stays(k, y)
  BY <1>1 DEF Stays
<1> QED BY <1>1, <1>2, <1>3, <1>4, <1>5, <1>6 DEF ConnOK

\* An action in the log, new or not.
LEMMA LoggedFacts ==
  ASSUME RuntimeOK(rt), NEW seq \in rt.actions \cup {rt.seq + 1}, NEW q, q \in {Logged(seq), Taken(seq)}
  PROVE  /\ RuntimeOK(q) /\ Follows(rt, q)
         /\ seq \in Nat /\ seq <= q.seq
<1> DEFINE top == IF seq > rt.seq THEN seq ELSE rt.seq
           new == rt.actions \cup {seq}
           acts == rt.acts + 1
           seen == IF seq > rt.last THEN seq ELSE rt.last
<1>1. /\ rt \in Runtime /\ rt.seq \in Nat \ {0} /\ rt.last \in Nat \ {0} /\ rt.last <= rt.seq
      /\ rt.actions \in SUBSET Nat /\ rt.acts \in Nat /\ \A a \in rt.actions : a <= rt.seq
  BY DEF RuntimeOK, Runtime
<1>2. /\ seq \in Nat /\ (seq \in rt.actions \/ seq = rt.seq + 1)
      /\ top \in Nat \ {0} /\ new \in SUBSET Nat /\ acts \in Nat /\ seen \in Nat \ {0}
      /\ seq <= top /\ rt.seq <= top /\ seen <= top
  BY <1>1
<1>3. q = [rt EXCEPT !.seq = top, !.actions = new, !.acts = acts]
      \/ q = [[rt EXCEPT !.seq = top, !.actions = new, !.acts = acts]
                EXCEPT !.last = seen, !.ticking = TRUE]
  <2>1. Logged(seq) = [rt EXCEPT !.seq = top, !.actions = new, !.acts = acts]
    BY DEF Logged
  <2>2. Logged(seq).last = rt.last
    BY <1>1, <2>1 DEF Runtime
  <2> HIDE DEF top, new, acts
  <2>3. Taken(seq) = [[rt EXCEPT !.seq = top, !.actions = new, !.acts = acts]
                        EXCEPT !.last = seen, !.ticking = TRUE]
    BY <2>1, <2>2 DEF Taken
  <2> QED BY <2>1, <2>3
<1> HIDE DEF top, new, acts, seen
<1>4. q \in Runtime /\ q.seq = top /\ q.actions = new /\ q.last \in {rt.last, seen}
  BY <1>1, <1>2, <1>3 DEF Runtime
<1>5. \A a \in new : a = seq \/ a \in rt.actions
  BY DEF new
<1>6. q.last <= q.seq
  BY <1>1, <1>2, <1>4
<1>7. \A a \in q.actions : a <= q.seq /\ (a \in rt.actions \/ a > rt.seq)
  <2>1. ASSUME NEW a \in rt.actions PROVE a <= top
    BY <1>1, <1>2, <2>1
  <2>2. seq <= top /\ (seq \in rt.actions \/ seq > rt.seq)
    BY <1>1, <1>2
  <2> QED BY <1>4, <1>5, <2>1, <2>2
<1> QED BY <1>2, <1>4, <1>6, <1>7 DEF RuntimeOK, Follows

LEMMA ApplyStep ==
  ASSUME WSInv, NEW c \in Conns, Apply(c)
  PROVE  WSInv'
<1> DEFINE k == conn[c]
<1>1. k.pc = "apply" /\ k \in Connection /\ ConnOK(k, rt) /\ RuntimeOK(rt) /\ active' = active
  BY DEF Apply, WSInv, WSTypeOK
<1>2. ASSUME NEW seq \in rt.actions \cup {rt.seq + 1}, rt' = Taken(seq), Set(c, Applied(k, seq))
      PROVE  WSInv'
  <2> DEFINE y == Applied(k, seq)
  <2>1. RuntimeOK(rt') /\ Follows(rt, rt') /\ seq \in Nat /\ seq <= rt'.seq
    BY <1>1, <1>2, LoggedFacts
  <2>2. ConnOK(k, rt')
    BY <1>1, <2>1, ConnLater
  <2>3. y \in Connection /\ ConnOK(y, rt') /\ Stays(k, y)
    BY <1>1, <2>1, <2>2, AppliedOK
  <2> QED BY <1>1, <1>2, <2>1, <2>3, ConnStep DEF Set
<1>3. ASSUME NEW seq \in rt.actions \cup {rt.seq + 1}, rt' = Logged(seq), Set(c, Shut(k))
      PROVE  WSInv'
  <2>1. RuntimeOK(rt') /\ Follows(rt, rt')
    BY <1>1, <1>3, LoggedFacts
  <2> QED BY <1>1, <1>3, <2>1, ShutStep DEF Refusing
<1>4. ASSUME Set(c, Shut(k)), UNCHANGED rt PROVE WSInv'
  BY <1>1, <1>4, SameRuntime, ShutStep DEF Refusing
<1> QED BY <1>2, <1>3, <1>4 DEF Apply

\* A write of an open connection whose numbering has begun.
LEMMA WriteOK ==
  ASSUME NEW r, RuntimeOK(r), NEW k \in Connection, ConnOK(k, r), ~Dead(k),
         k.pc \in Late \/ k.stream # "off",
         NEW y \in Connection, NEW type, NEW seq \in Nat, seq <= r.seq, OneMore(k, y, type, seq),
         y.snap = k.snap, y.last = k.last, y.chan = k.chan, y.seq \in {k.seq, 0},
         (y.stream = k.stream /\ y.held = k.held) \/ y.stream = "wait",
         y.pc \notin Early \cup {"subscribe"},
         y.pc \in {"advance", "delta"} => \E i \in DOMAIN y.wire : IsAccepted(y, i, y.seq),
         \/ type # "delta" \/ seq \notin r.actions
         \/ \E j \in DOMAIN k.wire : IsAccepted(k, j, seq),
         type # "delta" => Streaming(y) = Streaming(k) /\ Replying(y) = Replying(k),
         type = "delta" =>
           \/ Streaming(k) = {seq} /\ Streaming(y) = {} /\ Replying(y) = Replying(k)
           \/ Replying(k) = {seq} /\ Replying(y) = {} /\ Streaming(y) = Streaming(k)
  PROVE  ConnOK(y, r)
<1>1. /\ DeltaSeqs(y) = DeltaSeqs(k) \cup (IF type = "delta" THEN {seq} ELSE {})
      /\ \A b \in Nat : seq <= b /\ (\A i \in DOMAIN k.wire : k.wire[i].seq <= b) =>
           \A i \in DOMAIN y.wire : y.wire[i].seq <= b
      /\ /\ \A i, j \in DeltasOn(k) : k.wire[i].seq = k.wire[j].seq => i = j
         /\ type = "delta" => seq \notin DeltaSeqs(k)
         => \A i, j \in DeltasOn(y) : y.wire[i].seq = y.wire[j].seq => i = j
  BY OneMoreFacts
<1>2. r.seq \in Nat
  BY DEF RuntimeOK, Runtime
<1>3. SeqsAreOld(y, r)
  BY <1>1, <1>2 DEF ConnOK, SeqsAreOld
<1>4. k.last # 0
  BY DEF ConnOK, StartOK, Early, Late, Ending
<1>5. StartOK(y)
  BY <1>4 DEF StartOK, Early
<1>6. AcceptedFirst(y, r)
  <2>1. \A i \in DeltasOn(k) : k.wire[i].seq \in r.actions =>
          \E j \in DOMAIN k.wire : j < i /\ IsAccepted(k, j, k.wire[i].seq)
    BY DEF ConnOK, AcceptedFirst
  <2>2. \A i \in DeltasOn(y) : y.wire[i].seq \in r.actions =>
          \E j \in DOMAIN y.wire : j < i /\ IsAccepted(y, j, y.wire[i].seq)
    BY <2>1, OrderKept
  <2> QED BY <2>2 DEF AcceptedFirst
<1>7. Contiguous(y)
  <2>1. Contiguous(k)
    BY <1>4 DEF ConnOK
  <2>2. CASE type # "delta"
    BY <1>1, <2>1, <2>2 DEF Contiguous
  <2>3. CASE type = "delta"
    <3>1. seq \notin DeltaSeqs(k)
      BY <2>1, <2>3 DEF Contiguous
    <3>2. \A i, j \in DeltasOn(y) : y.wire[i].seq = y.wire[j].seq => i = j
      BY <1>1, <2>1, <3>1 DEF Contiguous
    <3>3. DeltaSeqs(y) = DeltaSeqs(k) \cup {seq}
      BY <1>1, <2>3
    <3> QED BY <2>1, <2>3, <3>1, <3>2, <3>3 DEF Contiguous
  <2> QED BY <2>2, <2>3
<1> QED BY <1>3, <1>5, <1>6, <1>7 DEF ConnOK

LEMMA WriteAcceptedStep ==
  ASSUME WSInv, NEW c \in Conns, WriteAccepted(c)
  PROVE  WSInv'
<1> DEFINE k == conn[c]
<1>1. /\ k.pc = "accepted" /\ k \in Connection /\ ConnOK(k, rt) /\ RuntimeOK(rt)
      /\ UNCHANGED <<rt, active>>
  BY DEF WriteAccepted, WSInv, WSTypeOK
<1>2. k.seq \in Nat /\ k.seq <= rt.seq /\ "advance" \in Late
  BY <1>1, ConnTyped DEF ConnOK, SeqsAreOld, Late
<1>3. PICK y : y = Wrote(k, "action_accepted", k.seq, "advance")
  OBVIOUS
<1>4. /\ y \in Connection /\ Keeps(k, y)
      /\ \/ Dead(k) /\ y.pc = "leave" /\ y.seq = 0 /\ y.wire = k.wire
         \/ ~Dead(k) /\ y.pc = "advance" /\ y.seq = k.seq /\ OneMore(k, y, "action_accepted", k.seq)
  BY <1>1, <1>2, <1>3, WroteFacts
<1>5. CASE Dead(k)
  <2>1. Moves(k, y)
    BY <1>1, <1>4, <1>5 DEF Moves, Keeps, Early, Late, Ending, Dead
  <2>2. Stays(k, y)
    BY <1>1, <1>4, <1>5 DEF Stays, Keeps, Dead
  <2> QED BY <1>1, <1>3, <1>4, <2>1, <2>2, MoveStep DEF WriteAccepted
<1>6. CASE ~Dead(k)
  <2>1. OneMore(k, y, "action_accepted", k.seq) /\ y.pc = "advance" /\ y.seq = k.seq
    BY <1>4, <1>6 DEF Keeps
  <2>2. \E i \in DOMAIN y.wire : IsAccepted(y, i, y.seq)
    BY <1>1, <1>2, <1>4, <2>1, OneMoreFacts
  <2>3. Streaming(y) = Streaming(k) /\ Replying(y) = Replying(k)
    BY <1>1, <1>4, <2>1 DEF Streaming, Replying, Keeps
  <2>4. ConnOK(y, rt)
    <3>1. /\ y.snap = k.snap /\ y.last = k.last /\ y.chan = k.chan
          /\ y.stream = k.stream /\ y.held = k.held
          /\ k.pc \in Late /\ y.pc \notin Early \cup {"subscribe"}
      BY <1>1, <1>4, <2>1 DEF Keeps, Early, Late
    <3> HIDE DEF k
    <3> QED BY <1>1, <1>2, <1>4, <1>6, <2>1, <2>2, <2>3, <3>1, WriteOK
  <2>5. RuntimeOK(rt') /\ Follows(rt, rt') /\ ConnOK(y, rt')
    BY <1>1, <2>4 DEF Follows, RuntimeOK, Runtime
  <2>6. Stays(k, y)
    BY <1>1, <1>6 DEF Stays, Dead
  <2> QED BY <1>1, <1>3, <1>4, <2>5, <2>6, ConnStep DEF WriteAccepted, Set
<1> QED BY <1>5, <1>6

LEMMA WriteReplyStep ==
  ASSUME WSInv, NEW c \in Conns, WriteReply(c)
  PROVE  WSInv'
<1> DEFINE k == conn[c]
           y == [Wrote(k, "delta", k.seq, "read") EXCEPT !.seq = 0]
<1>1. /\ k.pc = "delta" /\ k \in Connection /\ ConnOK(k, rt) /\ RuntimeOK(rt)
      /\ UNCHANGED <<rt, active>> /\ Set(c, y)
  BY DEF WriteReply, WSInv, WSTypeOK
<1>2. k.seq \in Nat /\ k.seq <= rt.seq /\ "read" \in Late
  BY <1>1, ConnTyped DEF ConnOK, SeqsAreOld, Late
<1>3. PICK z : z = Wrote(k, "delta", k.seq, "read")
  OBVIOUS
<1>4. /\ z \in Connection /\ Keeps(k, z)
      /\ \/ Dead(k) /\ z.pc = "leave" /\ z.wire = k.wire
         \/ ~Dead(k) /\ z.pc = "read" /\ OneMore(k, z, "delta", k.seq)
  BY <1>1, <1>2, <1>3, WroteFacts
<1>5. y = [z EXCEPT !.seq = 0]
  BY <1>3
<1> HIDE DEF y
<1>6. y \in Connection /\ y.pc = z.pc /\ y.wire = z.wire /\ y.seq = 0
  BY <1>4, <1>5 DEF Connection
<1>7. /\ y.snap = k.snap /\ y.last = k.last /\ y.chan = k.chan
      /\ y.stream = k.stream /\ y.held = k.held
      /\ (y.closed <=> k.closed) /\ (y.broken <=> k.broken)
  BY <1>4, <1>5 DEF Connection, Keeps
<1>8. CASE Dead(k)
  <2>1. Moves(k, y)
    BY <1>1, <1>4, <1>6, <1>7, <1>8 DEF Moves, Early, Late, Ending, Dead
  <2>2. Stays(k, y)
    BY <1>1, <1>4, <1>6, <1>7, <1>8 DEF Stays, Dead
  <2> QED BY <1>1, <1>6, <2>1, <2>2, MoveStep
<1>9. CASE ~Dead(k)
  <2>1. OneMore(k, y, "delta", k.seq) /\ y.pc = "read"
    BY <1>4, <1>6, <1>9 DEF OneMore
  <2>2. Replying(k) = {k.seq} /\ Replying(y) = {} /\ Streaming(y) = Streaming(k)
    BY <1>1, <1>7, <2>1 DEF Streaming, Replying
  <2>3. \E j \in DOMAIN k.wire : IsAccepted(k, j, k.seq)
    BY <1>1, <1>9 DEF ConnOK, AcceptedFirst, Dead
  <2>4. k.pc \in Late /\ y.pc \notin Early \cup {"subscribe"}
    BY <1>1, <2>1 DEF Early, Late
  <2>5. ConnOK(y, rt)
    <3> HIDE DEF k
    <3> QED BY <1>1, <1>2, <1>6, <1>7, <1>9, <2>1, <2>2, <2>3, <2>4, WriteOK
  <2>6. RuntimeOK(rt') /\ Follows(rt, rt') /\ ConnOK(y, rt')
    BY <1>1, <2>5 DEF Follows, RuntimeOK, Runtime
  <2>7. Stays(k, y)
    BY <1>1, <1>9 DEF Stays, Dead
  <2> QED BY <1>1, <1>6, <2>6, <2>7, ConnStep DEF Set
<1> QED BY <1>8, <1>9

LEMMA WriteStreamStep ==
  ASSUME WSInv, NEW c \in Conns, WriteStream(c)
  PROVE  WSInv'
<1> DEFINE k == conn[c]
           y == [OnWire(k, "delta", k.held) EXCEPT !.stream = "wait", !.held = 0, !.mu = "free"]
<1>1. /\ k.stream = "write" /\ k \in Connection /\ ConnOK(k, rt) /\ RuntimeOK(rt)
      /\ UNCHANGED <<rt, active>>
  BY DEF WriteStream, WSInv, WSTypeOK
<1>2. k.pc \notin Early \cup {"subscribe"} /\ k.held \in Nat /\ IsTick(k.held, rt)
  BY <1>1, ConnTyped DEF ConnOK, StartOK, SeqsAreOld
<1>3. CASE Dead(k)
  <2> DEFINE x == [k EXCEPT !.stream = "done", !.mu = "free", !.held = 0]
  <2>1. Set(c, x)
    BY <1>3 DEF WriteStream
  <2>2. /\ x \in Connection /\ x.stream = "done" /\ (x.closed <=> k.closed)
        /\ x.pc = k.pc /\ x.wire = k.wire /\ x.last = k.last /\ x.chan = k.chan /\ x.seq = k.seq
        /\ x.snap = k.snap /\ x.old = k.old /\ (x.broken <=> k.broken)
    BY <1>1 DEF Connection
  <2> HIDE DEF x
  <2>3. Moves(k, x) /\ Stays(k, x)
    BY <1>1, <1>3, <2>2 DEF Moves, Stays, Replying, Dead
  <2> QED BY <1>1, <2>1, <2>2, <2>3, MoveStep
<1>4. CASE ~Dead(k)
  <2>1. Set(c, y)
    BY <1>4 DEF WriteStream
  <2>2. PICK z : z = OnWire(k, "delta", k.held)
    OBVIOUS
  <2>3. /\ z \in Connection /\ OneMore(k, z, "delta", k.held) /\ z.pc = k.pc
        /\ z.seq = k.seq /\ Keeps(k, z)
    <3>1. "delta" \in {"snapshot", "delta", "action_accepted"}
      OBVIOUS
    <3>2. k.held \in Nat
      BY <1>1, <1>2
    <3> HIDE DEF k
    <3> QED BY <1>1, <2>2, <3>1, <3>2, OnWireFacts, ZenonT(30)
  <2>4. y = [z EXCEPT !.stream = "wait", !.held = 0, !.mu = "free"]
    BY <2>2
  <2> HIDE DEF y
  <2>5. /\ y \in Connection /\ y.pc = k.pc /\ y.wire = z.wire /\ y.stream = "wait"
        /\ y.snap = z.snap /\ y.last = z.last /\ y.chan = z.chan
        /\ y.seq = z.seq /\ y.old = z.old /\ (y.closed <=> z.closed)
    <3>1. y \in Connection
      BY <2>3, <2>4 DEF Connection
    <3>2. /\ y.pc = z.pc /\ y.wire = z.wire /\ y.snap = z.snap /\ y.last = z.last
          /\ y.chan = z.chan /\ y.seq = z.seq /\ y.old = z.old /\ (y.closed <=> z.closed)
      BY <2>3, <2>4 DEF Connection
    <3>3. y.stream = "wait"
      BY <2>3, <2>4 DEF Connection
    <3> QED BY <2>3, <3>1, <3>2, <3>3
  <2>6. /\ y.snap = k.snap /\ y.last = k.last /\ y.chan = k.chan
        /\ y.seq = k.seq /\ y.old = k.old /\ (y.closed <=> k.closed)
    BY <2>3, <2>5 DEF Keeps
  <2>7. OneMore(k, y, "delta", k.held)
    BY <2>3, <2>5 DEF OneMore
  <2>8. Streaming(k) = {k.held} /\ Streaming(y) = {} /\ Replying(y) = Replying(k)
    BY <1>1, <2>5, <2>6 DEF Streaming, Replying
  <2>9. y.pc \in {"advance", "delta"} => \E i \in DOMAIN y.wire : IsAccepted(y, i, y.seq)
    BY <1>1, <1>2, <1>4, <2>5, <2>6, <2>7, OneMoreFacts DEF ConnOK, AcceptedFirst, Dead
  <2>10. ConnOK(y, rt)
    <3>1. k.held <= rt.seq /\ k.held \notin rt.actions
      BY <1>2 DEF IsTick
    <3>2. k.stream # "off"
      BY <1>1
    <3> HIDE DEF k
    <3> QED BY <1>1, <1>2, <1>4, <2>5, <2>6, <2>7, <2>8, <2>9, <3>1, <3>2, WriteOK
  <2>11. RuntimeOK(rt') /\ Follows(rt, rt') /\ ConnOK(y, rt')
    BY <1>1, <2>10 DEF Follows, RuntimeOK, Runtime
  <2>12. Stays(k, y)
    BY <2>5, <2>6 DEF Stays
  <2> QED BY <1>1, <2>1, <2>5, <2>11, <2>12, ConnStep DEF Set
<1> QED BY <1>3, <1>4

-----------------------------------------------------------------------------
\* The tracker moves to the next seq in the hand of goroutine y of connection k.
LEMMA TrackedOK ==
  ASSUME NEW r, RuntimeOK(r), NEW k \in Connection, ConnOK(k, r), k.pc \notin Early \cup {"subscribe"},
         NEW y \in Connection, y.last = k.last + 1,
         y.wire = k.wire, y.snap = k.snap, y.chan = k.chan, y.seq = k.seq, y.held = k.held,
         y.closed <=> k.closed, y.broken <=> k.broken,
         \/ /\ k.pc = "advance" /\ y.pc = "delta" /\ y.stream = k.stream
            /\ y.seq = y.last
         \/ /\ k.stream = "advance" /\ y.stream = "write" /\ y.pc = k.pc
            /\ y.held = y.last
  PROVE  ConnOK(y, r)
<1>1. k.last \in Nat /\ k.snap \in Nat
  BY ConnTyped
<1>2. SeqsAreOld(y, r)
  BY DEF ConnOK, SeqsAreOld
<1>3. StartOK(y)
  BY <1>1 DEF StartOK, Early
<1>4. AcceptedFirst(y, r)
  BY DEF ConnOK, AcceptedFirst, DeltasOn, IsAccepted
<1>5. ASSUME ~Dead(y) PROVE Contiguous(y)
  <2>1. Contiguous(k)
    BY <1>5 DEF ConnOK, StartOK, Early, Ending, Dead
  <2>2. DeltasOn(y) = DeltasOn(k) /\ DeltaSeqs(y) = DeltaSeqs(k)
    BY DEF DeltasOn, DeltaSeqs
  <2>3. \/ Streaming(y) = Streaming(k) /\ Replying(k) = {} /\ Replying(y) = {y.last}
        \/ Replying(y) = Replying(k) /\ Streaming(k) = {} /\ Streaming(y) = {y.last}
    BY DEF Streaming, Replying
  <2>4. (y.snap + 1)..y.last = (k.snap + 1)..k.last \cup {y.last} /\ y.last \notin (k.snap + 1)..k.last
    BY <1>1, <2>1 DEF Contiguous
  <2>5. y.snap <= y.last
    BY <1>1, <2>1 DEF Contiguous
  <2>6. \A i, j \in DeltasOn(y) : y.wire[i].seq = y.wire[j].seq => i = j
    BY <2>1, <2>2 DEF Contiguous
  <2> DEFINE range == (k.snap + 1)..k.last
  <2>7. DeltaSeqs(k) \cup Streaming(k) \cup Replying(k) = range
    BY <2>1 DEF Contiguous
  <2>8. /\ DeltaSeqs(k) \cap Streaming(k) = {} /\ DeltaSeqs(k) \cap Replying(k) = {}
        /\ Streaming(k) \cap Replying(k) = {}
    BY <2>1 DEF Contiguous
  <2>9. (y.snap + 1)..y.last = range \cup {y.last} /\ y.last \notin range
    BY <2>4
  <2> HIDE DEF range
  <2>10. /\ DeltaSeqs(y) \cup Streaming(y) \cup Replying(y) = range \cup {y.last}
         /\ DeltaSeqs(y) \cap Streaming(y) = {} /\ DeltaSeqs(y) \cap Replying(y) = {}
         /\ Streaming(y) \cap Replying(y) = {}
    BY <2>2, <2>3, <2>7, <2>8, <2>9
  <2> QED BY <2>5, <2>6, <2>9, <2>10 DEF Contiguous
<1> QED BY <1>2, <1>3, <1>4, <1>5 DEF ConnOK

\* What the tracker says.
LEMMA AdvanceFacts ==
  ASSUME NEW k \in Connection, NEW seq \in Nat
  PROVE  /\ Advance(k, seq) \in {"gap", "send", "skip"}
         /\ Advance(k, seq) = "send" => seq = k.last + 1
BY ConnTyped DEF Advance

LEMMA AdvanceReplyStep ==
  ASSUME WSInv, NEW c \in Conns, AdvanceReply(c)
  PROVE  WSInv'
<1> DEFINE k == conn[c]
<1>1. /\ k.pc = "advance" /\ k \in Connection /\ ConnOK(k, rt) /\ RuntimeOK(rt)
      /\ UNCHANGED <<rt, active>>
  BY DEF AdvanceReply, WSInv, WSTypeOK
<1>2. k.seq \in Nat /\ k.last \in Nat
  BY <1>1, ConnTyped
<1>3. /\ Advance(k, k.seq) \in {"gap", "send", "skip"}
      /\ Advance(k, k.seq) = "send" => k.seq = k.last + 1
  BY <1>1, <1>2, AdvanceFacts
<1>4. CASE Advance(k, k.seq) = "gap"
  <2>1. Set(c, Shut(k))
    BY <1>4 DEF AdvanceReply
  <2> QED BY <1>1, <2>1, SameRuntime, ShutStep DEF Refusing
<1>5. CASE Advance(k, k.seq) = "skip"
  <2> DEFINE y == [k EXCEPT !.pc = "read", !.seq = 0]
  <2>1. Set(c, y)
    BY <1>5 DEF AdvanceReply
  <2>2. /\ y \in Connection /\ y.pc = "read" /\ y.seq = 0 /\ (y.closed <=> k.closed) /\ (y.broken <=> k.broken)
        /\ y.wire = k.wire /\ y.last = k.last /\ y.chan = k.chan
        /\ y.snap = k.snap /\ y.stream = k.stream /\ y.held = k.held
    BY <1>1 DEF Connection, Late
  <2> HIDE DEF y
  <2>3. Moves(k, y) /\ Stays(k, y)
    BY <1>1, <2>2 DEF Moves, Stays, Replying, Dead, Early, Late, Ending
  <2> QED BY <1>1, <2>1, <2>2, <2>3, MoveStep
<1>6. CASE Advance(k, k.seq) = "send"
  <2> DEFINE y == [k EXCEPT !.last = k.seq, !.pc = "delta"]
  <2>1. Set(c, y)
    BY <1>6 DEF AdvanceReply
  <2>2. /\ y \in Connection /\ y.pc = "delta" /\ y.last = k.seq /\ (y.closed <=> k.closed) /\ (y.broken <=> k.broken)
        /\ y.wire = k.wire /\ y.seq = k.seq /\ y.chan = k.chan
        /\ y.snap = k.snap /\ y.stream = k.stream /\ y.held = k.held
    BY <1>1, <1>2 DEF Connection, Late
  <2> HIDE DEF y
  <2>3. ConnOK(y, rt)
    <3>1. y.last = k.last + 1 /\ k.pc \notin Early \cup {"subscribe"}
      BY <1>1, <1>3, <1>6, <2>2 DEF Early
    <3> HIDE DEF k
    <3> QED BY <1>1, <2>2, <3>1, TrackedOK
  <2>4. RuntimeOK(rt') /\ Follows(rt, rt') /\ ConnOK(y, rt')
    BY <1>1, <2>3 DEF Follows, RuntimeOK, Runtime
  <2>5. Stays(k, y)
    BY <1>1, <2>2 DEF Stays
  <2> QED BY <1>1, <2>1, <2>2, <2>4, <2>5, ConnStep DEF Set
<1> QED BY <1>3, <1>4, <1>5, <1>6

LEMMA AdvanceStreamStep ==
  ASSUME WSInv, NEW c \in Conns, AdvanceStream(c)
  PROVE  WSInv'
<1> DEFINE k == conn[c]
<1>1. /\ k.stream = "advance" /\ k \in Connection /\ ConnOK(k, rt) /\ RuntimeOK(rt)
      /\ UNCHANGED <<rt, active>>
  BY DEF AdvanceStream, WSInv, WSTypeOK
<1>2. k.held \in Nat /\ k.last \in Nat /\ k.pc \notin Early \cup {"subscribe"}
  BY <1>1, ConnTyped DEF ConnOK, StartOK
<1>3. /\ Advance(k, k.held) \in {"gap", "send", "skip"}
      /\ Advance(k, k.held) = "send" => k.held = k.last + 1
  BY <1>1, <1>2, AdvanceFacts
<1>4. CASE Advance(k, k.held) = "gap"
  <2> DEFINE y == [k EXCEPT !.stream = "shut", !.held = 0]
  <2>1. Set(c, y)
    BY <1>4 DEF AdvanceStream
  <2>2. /\ y \in Connection /\ y.stream = "shut"
        /\ (y.closed <=> k.closed) /\ (y.broken <=> k.broken)
        /\ y.pc = k.pc /\ y.wire = k.wire /\ y.last = k.last /\ y.chan = k.chan /\ y.seq = k.seq
        /\ y.snap = k.snap /\ y.old = k.old
    BY <1>1 DEF Connection
  <2> HIDE DEF y
  <2>3. Moves(k, y) /\ Stays(k, y)
    BY <1>1, <1>2, <2>2 DEF Moves, Stays, Early, Replying, Dead
  <2> QED BY <1>1, <2>1, <2>2, <2>3, MoveStep
<1>5. CASE Advance(k, k.held) = "skip"
  <2> DEFINE y == [k EXCEPT !.stream = "wait", !.held = 0]
  <2>1. Set(c, y)
    BY <1>5 DEF AdvanceStream
  <2>2. /\ y \in Connection /\ (y.closed <=> k.closed) /\ (y.broken <=> k.broken) /\ y.stream = "wait"
        /\ y.pc = k.pc /\ y.wire = k.wire /\ y.last = k.last /\ y.chan = k.chan /\ y.seq = k.seq
        /\ y.snap = k.snap /\ y.old = k.old
    BY <1>1 DEF Connection
  <2> HIDE DEF y
  <2>3. Moves(k, y) /\ Stays(k, y)
    BY <1>1, <1>2, <2>2 DEF Moves, Stays, Early, Replying, Dead
  <2> QED BY <1>1, <2>1, <2>2, <2>3, MoveStep
<1>6. CASE Advance(k, k.held) = "send"
  <2> DEFINE y == [k EXCEPT !.last = k.held, !.stream = "write"]
  <2>1. Set(c, y)
    BY <1>6 DEF AdvanceStream
  <2>2. /\ y \in Connection /\ y.stream = "write" /\ y.last = k.held /\ (y.closed <=> k.closed) /\ (y.broken <=> k.broken)
        /\ y.wire = k.wire /\ y.seq = k.seq /\ y.chan = k.chan
        /\ y.snap = k.snap /\ y.pc = k.pc /\ y.held = k.held /\ y.old = k.old
    BY <1>1, <1>2 DEF Connection
  <2> HIDE DEF y
  <2>3. ConnOK(y, rt)
    <3>1. y.last = k.last + 1 /\ y.held = y.last
      BY <1>3, <1>6, <2>2
    <3> HIDE DEF k
    <3> QED BY <1>1, <1>2, <2>2, <3>1, TrackedOK
  <2>4. RuntimeOK(rt') /\ Follows(rt, rt') /\ ConnOK(y, rt')
    BY <1>1, <2>3 DEF Follows, RuntimeOK, Runtime
  <2>5. Stays(k, y)
    BY <2>2 DEF Stays
  <2> QED BY <1>1, <2>1, <2>2, <2>4, <2>5, ConnStep DEF Set
<1> QED BY <1>3, <1>4, <1>5, <1>6

LEMMA TakeDeltaStep ==
  ASSUME WSInv, NEW c \in Conns, TakeDelta(c)
  PROVE  WSInv'
<1> DEFINE k == conn[c]
           h == Head(k.chan)
           t == Tail(k.chan)
           y == [k EXCEPT !.held = h, !.chan = t, !.stream = "advance"]
<1>1. /\ k.stream = "wait" /\ k.chan # <<>> /\ k \in Connection /\ ConnOK(k, rt) /\ RuntimeOK(rt)
      /\ UNCHANGED <<rt, active>> /\ Set(c, y)
  BY DEF TakeDelta, WSInv, WSTypeOK
<1>2. k.chan \in Seq(Nat) /\ k.pc \notin Early \cup {"subscribe"}
  BY <1>1 DEF Connection, ConnOK, StartOK
<1>3. /\ h \in Nat /\ t \in Seq(Nat) /\ 1 \in DOMAIN k.chan /\ h = k.chan[1]
      /\ \A i \in DOMAIN t : i + 1 \in DOMAIN k.chan /\ t[i] = k.chan[i + 1]
  BY <1>1, <1>2
<1>4. IsTick(h, rt) /\ \A i \in DOMAIN t : IsTick(t[i], rt)
  BY <1>1, <1>3 DEF ConnOK, SeqsAreOld
<1> HIDE DEF h, t
<1>5. /\ y \in Connection /\ y.stream = "advance" /\ y.held = h /\ y.chan = t
      /\ y.pc = k.pc /\ y.wire = k.wire /\ y.last = k.last /\ y.seq = k.seq
      /\ y.snap = k.snap /\ y.old = k.old /\ (y.closed <=> k.closed) /\ (y.broken <=> k.broken)
  BY <1>1, <1>3 DEF Connection
<1> HIDE DEF y
<1>6. ConnOK(y, rt)
  <2>1. SeqsAreOld(y, rt)
    BY <1>1, <1>4, <1>5 DEF ConnOK, SeqsAreOld
  <2>2. StartOK(y)
    BY <1>1, <1>2, <1>5 DEF ConnOK, StartOK, Dead
  <2>3. AcceptedFirst(y, rt)
    BY <1>1, <1>5 DEF ConnOK, AcceptedFirst, DeltasOn, IsAccepted
  <2>4. ASSUME ~Dead(y), y.last # 0 PROVE Contiguous(y)
    <3>1. Contiguous(k)
      BY <1>1, <1>5, <2>4 DEF ConnOK, Dead
    <3>2. Streaming(y) = Streaming(k) /\ Replying(y) = Replying(k)
      BY <1>1, <1>5 DEF Streaming, Replying
    <3> QED BY <1>5, <3>1, <3>2, ContiguousKept
  <2> QED BY <2>1, <2>2, <2>3, <2>4 DEF ConnOK
<1>7. RuntimeOK(rt') /\ Follows(rt, rt') /\ ConnOK(y, rt')
  BY <1>1, <1>6 DEF Follows, RuntimeOK, Runtime
<1>8. Stays(k, y)
  BY <1>5 DEF Stays
<1> QED BY <1>1, <1>5, <1>7, <1>8, ConnStep DEF Set

-----------------------------------------------------------------------------
\* A tick pushed to connection k.
LEMMA PushedOK ==
  ASSUME NEW r, RuntimeOK(r), NEW k \in Connection, ConnOK(k, r),
         NEW s \in Nat, IsTick(s, r), NEW y, y = [k EXCEPT !.chan = Append(@, s)]
  PROVE  y \in Connection /\ ConnOK(y, r) /\ Stays(k, y)
<1> DEFINE w == Append(k.chan, s)
<1>1. k.chan \in Seq(Nat)
  BY DEF Connection
<1>2. w \in Seq(Nat) /\ \A i \in DOMAIN w : w[i] = s \/ (i \in DOMAIN k.chan /\ w[i] = k.chan[i])
  BY <1>1
<1>3. y = [k EXCEPT !.chan = w]
  BY DEF Connection
<1> HIDE DEF w
<1>4. /\ y \in Connection /\ y.chan = w
      /\ y.pc = k.pc /\ y.wire = k.wire /\ y.last = k.last /\ y.seq = k.seq /\ y.held = k.held
      /\ y.stream = k.stream /\ y.snap = k.snap /\ y.old = k.old /\ (y.closed <=> k.closed)
      /\ (y.broken <=> k.broken)
  BY <1>2, <1>3 DEF Connection
<1>5. SeqsAreOld(y, r)
  BY <1>2, <1>4 DEF ConnOK, SeqsAreOld
<1>6. StartOK(y)
  BY <1>4 DEF ConnOK, StartOK, Dead
<1>7. AcceptedFirst(y, r)
  BY <1>4 DEF ConnOK, AcceptedFirst, DeltasOn, IsAccepted
<1>8. ASSUME ~Dead(y), y.last # 0 PROVE Contiguous(y)
  <2>1. Contiguous(k)
    BY <1>4, <1>8 DEF ConnOK, Dead
  <2>2. Streaming(y) = Streaming(k) /\ Replying(y) = Replying(k)
    BY <1>4 DEF Streaming, Replying
  <2> QED BY <1>4, <2>1, <2>2, ContiguousKept
<1>9. Stays(k, y)
  BY <1>4 DEF Stays
<1> QED BY <1>4, <1>5, <1>6, <1>7, <1>8, <1>9 DEF ConnOK

\* The row of a tick.
LEMMA TickedFacts ==
  ASSUME RuntimeOK(rt), NEW q, NEW top \in {rt.seq, rt.seq + 1},
         \/ q = [rt EXCEPT !.seq = rt.seq + 1, !.last = rt.seq + 1]
         \/ q = [rt EXCEPT !.seq = rt.seq + 1, !.last = rt.seq + 1, !.ticking = FALSE, !.over = TRUE]
         \/ q = [rt EXCEPT !.seq = top, !.ticking = FALSE]
  PROVE  RuntimeOK(q) /\ Follows(rt, q)
<1> DEFINE next == rt.seq + 1
<1>1. /\ rt \in Runtime /\ rt.seq \in Nat \ {0} /\ next \in Nat \ {0} /\ top \in Nat \ {0}
      /\ rt.last <= rt.seq /\ rt.last \in Nat /\ rt.actions \in SUBSET Nat
      /\ rt.seq <= next /\ rt.seq <= top /\ \A a \in rt.actions : a <= rt.seq
  BY DEF RuntimeOK, Runtime
<1>2. \/ q = [rt EXCEPT !.seq = next, !.last = next]
      \/ q = [rt EXCEPT !.seq = next, !.last = next, !.ticking = FALSE, !.over = TRUE]
      \/ q = [rt EXCEPT !.seq = top, !.ticking = FALSE]
  OBVIOUS
<1> HIDE DEF next
<1>3. /\ q \in Runtime /\ q.actions = rt.actions
      /\ (q.seq = next /\ q.last = next) \/ (q.seq = top /\ q.last = rt.last)
  BY <1>1, <1>2 DEF Runtime
<1> QED BY <1>1, <1>3 DEF RuntimeOK, Follows

LEMMA TickStep ==
  ASSUME WSInv, Tick
  PROVE  WSInv'
<1>1. /\ RuntimeOK(rt) /\ rt' = [rt EXCEPT !.seq = @ + 1, !.last = rt.seq + 1]
      /\ active' = active
      /\ conn \in [Conns -> Connection]
  BY DEF Tick, WSInv, WSTypeOK
<1>2. rt.seq \in Nat /\ rt'.seq = rt.seq + 1 /\ rt'.actions = rt.actions
  BY <1>1 DEF RuntimeOK, Runtime
<1>3. RuntimeOK(rt') /\ Follows(rt, rt')
  BY <1>1, TickedFacts
<1>4. rt.seq + 1 \in Nat /\ IsTick(rt.seq + 1, rt')
  BY <1>1, <1>2 DEF IsTick, RuntimeOK, Runtime
<1>5. ASSUME NEW d \in Conns
      PROVE  conn'[d] \in Connection /\ ConnOK(conn'[d], rt') /\ Stays(conn[d], conn'[d])
  <2> DEFINE y == [conn[d] EXCEPT !.chan = Append(@, rt.seq + 1)]
  <2>1. conn[d] \in Connection /\ ConnOK(conn[d], rt')
    BY <1>1, <1>3, ConnLater DEF WSInv
  <2>2. y \in Connection /\ ConnOK(y, rt') /\ Stays(conn[d], y)
    BY <1>3, <1>4, <2>1, PushedOK
  <2>3. conn'[d] = y \/ conn'[d] = conn[d]
    BY DEF Tick
  <2> HIDE DEF y
  <2> QED BY <2>1, <2>2, <2>3 DEF Stays
<1>6. conn' \in [Conns -> Connection]
  <2>1. conn' = [d \in Conns |-> conn'[d]]
    BY DEF Tick
  <2> QED BY <1>5, <2>1
<1> QED BY <1>1, <1>3, <1>5, <1>6, ConnsStep

LEMMA LastTickStep ==
  ASSUME WSInv, LastTick
  PROVE  WSInv'
<1>1. /\ RuntimeOK(rt)
      /\ rt' = [rt EXCEPT !.seq = @ + 1, !.last = rt.seq + 1, !.ticking = FALSE, !.over = TRUE]
      /\ active' = active /\ conn \in [Conns -> Connection]
  BY DEF LastTick, WSInv, WSTypeOK
<1>2. RuntimeOK(rt') /\ Follows(rt, rt')
  BY <1>1, TickedFacts
<1>3. ASSUME NEW d \in Conns
      PROVE  conn'[d] \in Connection /\ ConnOK(conn'[d], rt') /\ Stays(conn[d], conn'[d])
  <2> DEFINE y == [conn[d] EXCEPT !.wins = "told"]
  <2>1. conn[d] \in Connection /\ ConnOK(conn[d], rt')
    BY <1>1, <1>2, ConnLater DEF WSInv
  <2>2. y \in Connection /\ y.pc = conn[d].pc /\ Alike(conn[d], y)
    BY <2>1 DEF Connection, Alike
  <2>3. conn'[d] = y \/ conn'[d] = conn[d]
    BY DEF LastTick
  <2> HIDE DEF y
  <2>4. Moves(conn[d], y) /\ Stays(conn[d], y)
    BY <2>2 DEF Moves, Stays, Alike, Replying, Dead, Early, Late
  <2> QED BY <1>2, <2>1, <2>2, <2>3, <2>4, MovesOK DEF Stays
<1>4. conn' \in [Conns -> Connection]
  <2>1. conn' = [d \in Conns |-> conn'[d]]
    BY DEF LastTick
  <2> QED BY <1>3, <2>1
<1> QED BY <1>1, <1>2, <1>3, <1>4, ConnsStep

LEMMA TickFailsStep ==
  ASSUME WSInv, TickFails
  PROVE  WSInv'
<1>1. RuntimeOK(rt) /\ active' = active /\ conn' = conn /\ conn \in [Conns -> Connection]
  BY DEF TickFails, WSInv, WSTypeOK
<1>2. RuntimeOK(rt') /\ Follows(rt, rt')
  BY <1>1, TickedFacts DEF TickFails
<1>3. \A d \in Conns : ConnOK(conn'[d], rt') /\ Stays(conn[d], conn'[d])
  BY <1>1, <1>2, ConnLater DEF Stays, WSInv
<1> QED BY <1>1, <1>2, <1>3, ConnsStep

-----------------------------------------------------------------------------
\* The newcomer is registered; whom it replaces is in its hand until it is closed.
LEMMA RegisterStep ==
  ASSUME WSInv, NEW c \in Conns, NEW m \in Messages, Register(c, m)
  PROVE  WSInv'
<1> DEFINE k == conn[c]
           next == IF active = NoConn THEN "connect" ELSE "replace"
           y == [k EXCEPT !.old = active, !.pc = next]
<1>1. /\ k.pc = "new" /\ k \in Connection /\ ConnOK(k, rt) /\ RuntimeOK(rt)
      /\ active \in Conns \cup {NoConn} /\ active' = c /\ rt' = rt /\ conn' = [conn EXCEPT ![c] = y]
  BY DEF Register, Set, WSInv, WSTypeOK
<1>2. /\ y \in Connection /\ (y.closed <=> k.closed) /\ (y.broken <=> k.broken) /\ y.pc = next /\ y.old = active
      /\ y.wire = k.wire /\ y.last = k.last /\ y.chan = k.chan /\ y.seq = k.seq
      /\ y.stream = k.stream /\ y.held = k.held /\ y.snap = k.snap
  BY <1>1 DEF Connection, Early
<1> HIDE DEF y
<1>3. Moves(k, y)
  BY <1>1, <1>2 DEF Moves, Replying, Dead, Early, Late, Ending
<1>4. RuntimeOK(rt') /\ Follows(rt, rt') /\ ConnOK(y, rt')
  BY <1>1, <1>2, <1>3, MovesOK DEF Follows, RuntimeOK, Runtime
<1>5. /\ conn' \in [Conns -> Connection] /\ conn'[c] = y
      /\ \A d \in Conns : d # c => conn'[d] = conn[d]
      /\ \A d \in Conns : ConnOK(conn'[d], rt')
  BY <1>1, <1>2, <1>4, OthersStay
<1>6. OneConnection'
  <2> SUFFICES ASSUME NEW e \in Conns, Serving(e)', ~conn'[e].closed, active' # e
               PROVE  \E d \in Conns : conn'[d].pc = "replace" /\ conn'[d].old = e
    BY DEF OneConnection
  <2>1. e # c /\ conn'[e] = conn[e]
    BY <1>1, <1>5
  <2>2. CASE active = e
    BY <1>2, <1>5, <2>2, ConnsAssumption
  <2>3. CASE active # e
    <3>1. PICK d \in Conns : conn[d].pc = "replace" /\ conn[d].old = e
      BY <2>1, <2>3 DEF WSInv, OneConnection, Serving
    <3>2. d # c
      BY <1>1, <3>1
    <3> QED BY <1>5, <3>1, <3>2
  <2> QED BY <2>2, <2>3
<1> QED BY <1>1, <1>4, <1>5, <1>6 DEF WSInv, WSTypeOK

LEMMA CloseOldStep ==
  ASSUME WSInv, NEW c \in Conns, CloseOld(c)
  PROVE  WSInv'
<1> DEFINE k == conn[c]
           o == conn[c].old
           y == [k EXCEPT !.pc = "connect", !.old = NoConn]
           mid == [conn EXCEPT ![c] = y]
<1>1. /\ k.pc = "replace" /\ k \in Connection /\ ConnOK(k, rt) /\ RuntimeOK(rt)
      /\ active' = active /\ rt' = rt /\ conn \in [Conns -> Connection]
      /\ \A d \in Conns : conn[d] \in Connection /\ ConnOK(conn[d], rt)
  BY DEF CloseOld, WSInv, WSTypeOK
<1>2. conn' = [mid EXCEPT ![o] = Closed(@)]
  <2> DEFINE moved == [conn EXCEPT ![c].pc = "connect", ![c].old = NoConn]
  <2>1. conn' = [moved EXCEPT ![o] = Closed(@)]
    BY DEF CloseOld
  <2>2. moved = mid
    BY <1>1 DEF Connection
  <2> QED BY <2>1, <2>2
<1>3. /\ y \in Connection /\ (y.closed <=> k.closed) /\ (y.broken <=> k.broken) /\ y.pc = "connect"
      /\ y.wire = k.wire /\ y.last = k.last /\ y.chan = k.chan /\ y.seq = k.seq
      /\ y.stream = k.stream /\ y.held = k.held /\ y.snap = k.snap
  BY <1>1 DEF Connection, Early
<1> HIDE DEF y
<1>4. Moves(k, y)
  BY <1>1, <1>3 DEF Moves, Replying, Dead, Early, Late, Ending
<1>5. ConnOK(y, rt)
  BY <1>1, <1>3, <1>4, MovesOK
<1>6. /\ mid \in [Conns -> Connection] /\ mid[c] = y
      /\ \A d \in Conns : d # c => mid[d] = conn[d]
      /\ \A d \in Conns : mid[d] \in Connection /\ ConnOK(mid[d], rt)
  BY <1>1, <1>3, <1>5
<1> HIDE DEF mid
<1>7. ASSUME NEW x \in Connection, ConnOK(x, rt)
      PROVE  /\ Closed(x) \in Connection /\ ConnOK(Closed(x), rt)
             /\ Closed(x).pc = x.pc /\ Closed(x).old = x.old
  <2>1. PICK z : z = Closed(x)
    OBVIOUS
  <2>2. /\ z \in Connection /\ z.closed /\ z.wire = <<>>
        /\ z.pc = x.pc /\ z.old = x.old /\ z.seq = x.seq /\ z.last = x.last /\ z.chan = x.chan
        /\ z.stream = x.stream /\ z.held = x.held
    BY <1>7, <2>1, ClosedFacts
  <2>3. Moves(x, z)
    BY <2>2 DEF Moves, Dead, Early, Late, Ending
  <2> QED BY <1>1, <1>7, <2>1, <2>2, <2>3, MovesOK
<1>8. /\ conn' \in [Conns -> Connection]
      /\ \A d \in Conns : d # o => conn'[d] = mid[d]
      /\ \A d \in Conns : conn'[d].pc = mid[d].pc /\ conn'[d].old = mid[d].old
      /\ \A d \in Conns : ConnOK(conn'[d], rt)
      /\ o \in Conns => conn'[o].closed
  <2>1. CASE o \in Conns
    <3>1. conn'[o] = Closed(mid[o]) /\ \A d \in Conns : d # o => conn'[d] = mid[d]
      BY <1>2, <1>6, <2>1
    <3>2. Closed(mid[o]) \in Connection /\ conn' \in [Conns -> Connection]
      BY <1>2, <1>6, <1>7, <2>1
    <3>3. Closed(mid[o]).closed
      BY <1>6, <2>1 DEF Closed, Connection
    <3> QED BY <1>6, <1>7, <2>1, <3>1, <3>2, <3>3
  <2>2. CASE o \notin Conns
    <3>1. conn' = mid
      BY <1>2, <1>6, <2>2
    <3> QED BY <1>6, <2>2, <3>1
  <2> QED BY <2>1, <2>2
<1>9. OneConnection'
  <2> SUFFICES ASSUME NEW e \in Conns, Serving(e)', ~conn'[e].closed, active' # e
               PROVE  \E d \in Conns : conn'[d].pc = "replace" /\ conn'[d].old = e
    BY DEF OneConnection
  <2>1. e # o /\ conn'[e] = mid[e]
    BY <1>8
  <2>2. Serving(e) /\ ~conn[e].closed
    BY <1>1, <1>3, <1>6, <2>1 DEF Serving
  <2>3. PICK d \in Conns : conn[d].pc = "replace" /\ conn[d].old = e
    BY <1>1, <2>2 DEF WSInv, OneConnection
  <2>4. d # c
    BY <2>1, <2>3
  <2> QED BY <1>6, <1>8, <2>3, <2>4
<1> QED BY <1>1, <1>8, <1>9 DEF WSInv, WSTypeOK

\* unregisterActive forgets a connection that no longer serves.
LEMMA LeaveStep ==
  ASSUME WSInv, NEW c \in Conns, Leave(c)
  PROVE  WSInv'
<1> DEFINE k == conn[c]
           y == [k EXCEPT !.stop = TRUE, !.pc = "close"]
<1>1. /\ k.pc = "leave" /\ k \in Connection /\ ConnOK(k, rt) /\ RuntimeOK(rt)
      /\ active \in Conns \cup {NoConn} /\ active' = (IF active = c THEN NoConn ELSE active)
      /\ rt' = rt /\ conn' = [conn EXCEPT ![c] = y]
  BY DEF Leave, Set, WSInv, WSTypeOK
<1>2. /\ y \in Connection /\ (y.closed <=> k.closed) /\ (y.broken <=> k.broken) /\ y.pc = "close"
      /\ y.wire = k.wire /\ y.last = k.last /\ y.chan = k.chan /\ y.seq = k.seq
      /\ y.stream = k.stream /\ y.held = k.held /\ y.snap = k.snap
  BY <1>1 DEF Connection, Ending
<1> HIDE DEF y
<1>3. Moves(k, y)
  BY <1>1, <1>2 DEF Moves, Replying, Dead, Early, Late, Ending
<1>4. RuntimeOK(rt') /\ Follows(rt, rt') /\ ConnOK(y, rt')
  BY <1>1, <1>2, <1>3, MovesOK DEF Follows, RuntimeOK, Runtime
<1>5. /\ conn' \in [Conns -> Connection] /\ conn'[c] = y
      /\ \A d \in Conns : d # c => conn'[d] = conn[d]
      /\ \A d \in Conns : ConnOK(conn'[d], rt')
  BY <1>1, <1>2, <1>4, OthersStay
<1>6. OneConnection'
  <2> SUFFICES ASSUME NEW e \in Conns, Serving(e)', ~conn'[e].closed, active' # e
               PROVE  \E d \in Conns : conn'[d].pc = "replace" /\ conn'[d].old = e
    BY DEF OneConnection
  <2>1. e # c /\ conn'[e] = conn[e]
    BY <1>2, <1>5 DEF Serving
  <2>2. PICK d \in Conns : conn[d].pc = "replace" /\ conn[d].old = e
    BY <1>1, <2>1 DEF WSInv, OneConnection, Serving
  <2>3. d # c
    BY <1>1, <2>2
  <2> QED BY <1>5, <2>2, <2>3
<1> QED BY <1>1, <1>4, <1>5, <1>6 DEF WSInv, WSTypeOK

-----------------------------------------------------------------------------
LEMMA WSInvInit ==
  ASSUME WSInit
  PROVE  WSInv
<1>1. NewConn \in Connection
  <2> DEFINE none == <<>>
  <2>1. none \in Seq(Nat) /\ none \in Seq(Written)
    OBVIOUS
  <2>2. NewConn = [pc |-> "new", old |-> NoConn, seq |-> 0, snap |-> 0, last |-> 0,
                   subscribed |-> FALSE, chan |-> none, stream |-> "off", held |-> 0,
                   wins |-> "off", beat |-> "off", mu |-> "free", stop |-> FALSE,
                   closed |-> FALSE, broken |-> FALSE, wire |-> none]
    BY DEF NewConn
  <2> HIDE DEF none
  <2> QED BY <2>1, <2>2 DEF Connection, Early
<1>2. /\ NewConn.pc = "new" /\ NewConn.seq = 0 /\ NewConn.last = 0 /\ NewConn.stream = "off"
      /\ NewConn.chan = <<>> /\ NewConn.wire = <<>>
  BY DEF NewConn
<1>3. rt.seq = 1 /\ rt.actions = {} /\ RuntimeOK(rt)
  BY DEF WSInit, RuntimeOK, Runtime
<1>4. ConnOK(NewConn, rt)
  BY <1>2, <1>3 DEF ConnOK, SeqsAreOld, StartOK, AcceptedFirst, DeltasOn, Early
<1>5. conn \in [Conns -> Connection] /\ \A c \in Conns : conn[c] = NewConn
  BY <1>1 DEF WSInit
<1>6. OneConnection
  BY <1>2, <1>5 DEF OneConnection, Serving
<1> QED BY <1>3, <1>4, <1>5, <1>6 DEF WSInit, WSInv, WSTypeOK

LEMMA WSInvStep ==
  ASSUME WSInv, [WSNext]_wsVars
  PROVE  WSInv'
<1>1. ASSUME NEW c \in Conns, Handle(c) PROVE WSInv'
  BY <1>1, CloseOldStep, ConnectStep, HandlerMoves, ClosingMoves, WriteSnapshotStep, ApplyStep,
     WriteAcceptedStep, AdvanceReplyStep, WriteReplyStep, LeaveStep DEF Handle
<1>2. ASSUME NEW c \in Conns, Client(c) PROVE WSInv'
  BY <1>2, HandlerMoves, ClosingMoves, QuietMoves, RegisterStep DEF Client
<1>3. ASSUME NEW c \in Conns, Stream(c) PROVE WSInv'
  BY <1>3, TakeDeltaStep, AdvanceStreamStep, WriteStreamStep, ClosingMoves, StreamMoves DEF Stream
<1>4. ASSUME NEW c \in Conns, WinStream(c) \/ Beat(c) \/ Network(c) PROVE WSInv'
  BY <1>4, QuietMoves, ClosingMoves DEF WinStream, Beat
<1>5. ASSUME NEW c \in Conns, ReadFails(c) \/ Unsubscribed(c) PROVE WSInv'
  BY <1>5, HandlerMoves, StreamMoves
<1>6. CASE UNCHANGED wsVars
  BY <1>6 DEF wsVars, WSInv, WSTypeOK, OneConnection, Serving
<1> QED BY <1>1, <1>2, <1>3, <1>4, <1>5, <1>6, TickStep, TickFailsStep, LastTickStep DEF WSNext

\* Whatever the goroutines of the connections do, the invariant holds.
THEOREM WSInvariant == WSSpec => []WSInv
<1>1. WSInit => WSInv
  BY WSInvInit
<1>2. WSInv /\ [WSNext]_wsVars => WSInv'
  BY WSInvStep
<1> QED BY <1>1, <1>2, PTL DEF WSSpec

\* ws_handler.go: two tabs never both stay on one run.
THEOREM RunHasOneConnection == WSSpec => []OneConnection
<1>1. WSInv => OneConnection
  BY DEF WSInv
<1> QED BY <1>1, WSInvariant, PTL

\* handleApplyAction writes the acceptance of an action before writeDelta, and the
\* tick stream never carries an action: every delta of an action comes after its
\* acceptance.
THEOREM ActionsAreAcceptedFirst == WSSpec => []AcceptedBeforeDelta
<1>1. ASSUME WSInv PROVE AcceptedBeforeDelta
  <2> SUFFICES ASSUME NEW c \in Conns, NEW i \in Deltas(c), conn[c].wire[i].seq \in rt.actions
               PROVE  \E j \in 1..(i - 1) : conn[c].wire[j] =
                        [type |-> "action_accepted", seq |-> conn[c].wire[i].seq]
    BY DEF AcceptedBeforeDelta
  <2> DEFINE w == conn[c].wire
  <2>1. w \in Seq(Written) /\ i \in DOMAIN w /\ i \in DeltasOn(conn[c])
    BY <1>1 DEF WSInv, WSTypeOK, Connection, Deltas, DeltasOn
  <2>2. PICK j \in DOMAIN w : j < i /\ IsAccepted(conn[c], j, w[i].seq)
    BY <1>1, <2>1 DEF WSInv, ConnOK, AcceptedFirst
  <2>3. w[j].type = "action_accepted" /\ w[j].seq = w[i].seq
    BY <2>2 DEF IsAccepted
  <2> HIDE DEF w
  <2>4. j \in 1..(i - 1) /\ w[j] \in Written
    BY <2>1, <2>2
  <2>5. w[j] = [type |-> "action_accepted", seq |-> w[i].seq]
    BY <2>3, <2>4 DEF Written
  <2> QED BY <2>4, <2>5 DEF w
<1> QED BY <1>1, WSInvariant, PTL

\* writeDelta is called by two goroutines and does not advance the tracker and write
\* in one step: still an open connection's deltas are without gap and duplicate.
THEOREM DeltasAreNeitherLostNorRepeated == WSSpec => []NoDeltaLost
<1>1. ASSUME WSInv PROVE NoDeltaLost
  <2> SUFFICES ASSUME NEW c \in Conns, ~Dead(conn[c]), conn[c].last # 0
               PROVE  /\ SeqsOf(c, "delta")
                          \cup (IF conn[c].stream = "write" THEN {conn[c].held} ELSE {})
                          \cup (IF conn[c].pc = "delta" THEN {conn[c].seq} ELSE {})
                        = (conn[c].snap + 1)..conn[c].last
                      /\ Cardinality(Deltas(c)) = Cardinality(SeqsOf(c, "delta"))
    BY DEF NoDeltaLost
  <2> DEFINE k == conn[c]
             f == [i \in Deltas(c) |-> k.wire[i].seq]
  <2>1. Contiguous(k) /\ k \in Connection
    BY <1>1 DEF WSInv, WSTypeOK, ConnOK
  <2>2. Deltas(c) = DeltasOn(k) /\ SeqsOf(c, "delta") = DeltaSeqs(k)
    BY DEF Deltas, DeltasOn, SeqsOf, DeltaSeqs
  <2>3. f \in Bijection(Deltas(c), SeqsOf(c, "delta"))
    BY <2>1, <2>2 DEF Contiguous, DeltaSeqs, Bijection, Injection, Surjection, IsInjective
  <2>4. IsFiniteSet(Deltas(c))
    <3> DEFINE n == Len(k.wire)
    <3>1. k.wire \in Seq(Written) /\ n \in Int
      BY <2>1 DEF Connection
    <3>2. Deltas(c) \subseteq 1..n
      BY <3>1 DEF Deltas
    <3> HIDE DEF n
    <3>3. IsFiniteSet(1..n)
      BY <3>1, FS_Interval
    <3> QED BY <3>1, <3>2, <3>3, FS_Subset
  <2>5. Cardinality(Deltas(c)) = Cardinality(SeqsOf(c, "delta"))
    BY <2>3, <2>4, FS_Bijection DEF ExistsBijection
  <2> QED BY <2>1, <2>2, <2>5 DEF Contiguous, Streaming, Replying
<1> QED BY <1>1, WSInvariant, PTL
=============================================================================

----------------------------- MODULE WSHandler -----------------------------
(***************************************************************************)
(* The WebSocket connections of one run                                    *)
(* (internal/engine/a/transport/ws_handler.go): for every connection the   *)
(* goroutine of handleConnection, which reads and answers, the goroutine   *)
(* that streams tick deltas, the one that streams win updates and the      *)
(* heartbeat, all writing to one connWriter, and the registry of the one   *)
(* active connection per run.                                              *)
(*                                                                         *)
(* The runtime below is what EngineARuntime shows of a run: one sequence   *)
(* of ticks and actions, each done atomically under the run's mutex, ticks *)
(* pushed to the subscribers and actions only returned to their caller.    *)
(* Its Connect always asks for a snapshot and its ApplyAction never        *)
(* returns a win payload, so those branches of the handler are left out.   *)
(*                                                                         *)
(* A write of connWriter is one step, unless the client does not read: the *)
(* write has no deadline and then holds the mutex of the connWriter for as *)
(* long as the client likes (Stalls), and closeWith waits for that mutex.  *)
(***************************************************************************)
EXTENDS Integers, Sequences, FiniteSets

CONSTANTS
  Conns,     \* WebSocket connections, each made once
  NoConn,    \* nil
  Messages,  \* what clients send
  Slow,      \* the connections whose client may stop reading, for ever
  Mute,      \* those whose client may stop answering pings
  DeltaCap,  \* capacity of a delta channel (16 in the runtime)
  MaxSeq,    \* bound: seqs the runtime hands out
  MaxActs    \* bound: actions applied on all connections, retries included

\* A message as far as the handler looks at it.  A type "none" is no envelope, a
\* broken payload does not decode or lacks a field, a forged one is a hello whose
\* token VerifyRunToken refuses.
ASSUME MessagesAssumption ==
  Messages \subseteq [type : {"none", "hello", "apply_action", "pong"}, version : Int,
                      run : {"this", "other", "none"}, payload : {"whole", "forged", "broken"}]
ASSUME ConnsAssumption == NoConn \notin Conns /\ Slow \cup Mute \subseteq Conns
ASSUME WSBounds == DeltaCap \in Nat \ {0} /\ MaxSeq \in Nat \ {0} /\ MaxActs \in Nat

VARIABLES
  rt,      \* the runtime: the rows of its log, lastSeq, clock, end, winSubs
  active,  \* h.active[runID]
  conn     \* conn[c]: the four goroutines of connection c, and its wire

wsVars == <<rt, active, conn>>

-----------------------------------------------------------------------------
\* pc, stream, wins and beat are where the four goroutines stand.  seq: what pc is
\* to write next; held: what stream is to write next; last: seqTracker.last; snap:
\* the snapshot's seq; mu: which goroutine a write holds up; broken: writes fail,
\* though nobody has closed the connection yet.
NewConn ==
  [pc |-> "new", old |-> NoConn, seq |-> 0, snap |-> 0, last |-> 0,
   subscribed |-> FALSE, chan |-> <<>>, stream |-> "off", held |-> 0, wins |-> "off",
   beat |-> "off", mu |-> "free", stop |-> FALSE, closed |-> FALSE, broken |-> FALSE,
   wire |-> <<>>]

\* seq is the last row of the log, last the runtime's own lastSeq: a row whose
\* INSERT was reported as failed, or whose action the engine refused, is behind it.
WSInit ==
  /\ rt = [seq |-> 1, last |-> 1, actions |-> {}, acts |-> 0, ticking |-> FALSE,
           over |-> FALSE, winSubs |-> {}]
  /\ active = NoConn
  /\ conn = [c \in Conns |-> NewConn]

\* closeWith, once it has the mutex.  Nothing depends on the close code, so it is
\* left out; and nothing more is written, so the wire is forgotten.
Closed(k) == [k EXCEPT !.closed = TRUE, !.broken = FALSE, !.snap = 0, !.wire = <<>>]

\* The connection after goroutine pc calls closeWith, to return from it at "leave".
Shut(k) == [k EXCEPT !.pc = "shut", !.seq = 0]

Set(c, k) == conn' = [conn EXCEPT ![c] = k]

\* A write fails.
Dead(k) == k.closed \/ k.broken

\* Goroutine g has the mutex of the connWriter, or gets it.
MayWrite(k, g) == k.mu \in {"free", g}

\* connWriter.write on a connection that is not dead.  The wire keeps what carries
\* a seq: hello_ack, ping and win_update leave no trace.
OnWire(k, type, seq) == [k EXCEPT !.wire = Append(@, [type |-> type, seq |-> seq])]

\* The write of goroutine pc, which then goes on to next; a failed one ends it.
Wrote(k, type, seq, next) ==
  IF Dead(k) THEN [k EXCEPT !.pc = "leave", !.mu = "free", !.seq = 0]
  ELSE [OnWire(k, type, seq) EXCEPT !.pc = next, !.mu = "free"]

\* MUTANT of Advance: a jump forward is sent.
AdvanceAnywhere(k, seq) == IF seq <= k.last THEN "skip" ELSE "send"

\* seqTracker.advance: the next seq is sent, an old one skipped, any other a gap.
Advance(k, seq) ==
  IF seq <= k.last THEN "skip" ELSE IF seq # k.last + 1 THEN "gap" ELSE "send"

-----------------------------------------------------------------------------
(***************************************************************************)
(* handleConnection up to the read loop                                    *)
(***************************************************************************)

IsEnvelope(m) == m.type # "none"
Decodes(m) == m.payload # "broken"
ValidHello(m) == m.version = 1 /\ m.run # "none" /\ Decodes(m)
ValidAction(m) == m.version = 1 /\ m.run # "none" /\ Decodes(m)

\* The first message lets the client in.
Admitted(m) ==
  IsEnvelope(m) /\ m.type = "hello" /\ ValidHello(m) /\ m.run = "this" /\ m.payload # "forged"

RefuseHello(c, m) ==
  /\ conn[c].pc = "new" /\ ~Admitted(m)
  /\ Set(c, [Closed(conn[c]) EXCEPT !.pc = "gone"])
  /\ UNCHANGED <<rt, active>>

\* registerActive swaps the map entry under h.mu ...
Register(c, m) ==
  /\ conn[c].pc = "new" /\ Admitted(m)
  /\ active' = c
  /\ Set(c, [conn[c] EXCEPT !.old = active,
                            !.pc = IF active = NoConn THEN "connect" ELSE "replace"])
  /\ UNCHANGED rt

\* ... and then closes the connection it replaced, once no write holds that up.
CloseOld(c) ==
  /\ conn[c].pc = "replace" /\ conn[conn[c].old].mu = "free"
  /\ conn' = [[conn EXCEPT ![c].pc = "connect", ![c].old = NoConn]
                EXCEPT ![conn[c].old] = Closed(@)]
  /\ UNCHANGED <<rt, active>>

Connect(c) ==
  /\ conn[c].pc = "connect"
  /\ \/ /\ Set(c, [conn[c] EXCEPT !.seq = rt.last, !.snap = rt.last, !.pc = "ack"])
        /\ rt' = [rt EXCEPT !.ticking = ~rt.over]
     \/ Set(c, Shut(conn[c])) /\ UNCHANGED rt
  /\ UNCHANGED active

WriteAck(c) ==
  /\ conn[c].pc = "ack" /\ MayWrite(conn[c], "pc")
  /\ Set(c, [conn[c] EXCEPT !.pc = IF Dead(conn[c]) THEN "leave" ELSE "snapshot",
                            !.mu = "free"])
  /\ UNCHANGED <<rt, active>>

\* The tracker is set once the snapshot is written; nobody reads it before.
WriteSnapshot(c) ==
  /\ conn[c].pc = "snapshot" /\ MayWrite(conn[c], "pc")
  /\ Set(c, IF conn[c].seq <= 0 THEN Shut(conn[c])
            ELSE [Wrote(conn[c], "snapshot", conn[c].seq, "subscribe") EXCEPT
                    !.last = conn[c].seq, !.seq = 0])
  /\ UNCHANGED <<rt, active>>

SubscribeDeltas(c) ==
  /\ conn[c].pc = "subscribe"
  /\ \/ /\ Set(c, [conn[c] EXCEPT !.subscribed = TRUE, !.stream = "wait", !.pc = "subscribeWins"])
        /\ rt' = [rt EXCEPT !.ticking = ~rt.over]
     \/ Set(c, Shut(conn[c])) /\ UNCHANGED rt
  /\ UNCHANGED active

\* The runtime never takes a channel out of winSubs: it outlives the connection.
\* The heartbeat starts with the read loop.
SubscribeWins(c) ==
  /\ conn[c].pc = "subscribeWins"
  /\ \/ /\ Set(c, [conn[c] EXCEPT !.wins = "wait", !.beat = "wait", !.pc = "read"])
        /\ rt' = [rt EXCEPT !.winSubs = @ \cup {c}]
     \/ Set(c, Shut(conn[c])) /\ UNCHANGED rt
  /\ UNCHANGED active

-----------------------------------------------------------------------------
(***************************************************************************)
(* The read loop                                                           *)
(***************************************************************************)

\* The client went away or sent no envelope, or another goroutine closed the
\* connection.
ReadFails(c) ==
  /\ conn[c].pc = "read"
  /\ Set(c, [conn[c] EXCEPT !.pc = "leave"])
  /\ UNCHANGED <<rt, active>>

\* RecordPong: the heartbeat's deadline moves, unless it has seen it pass.
ReadPong(c, m) ==
  /\ conn[c].pc = "read" /\ ~conn[c].closed /\ m.type = "pong"
  /\ Set(c, [conn[c] EXCEPT !.beat = IF @ = "silent" THEN "wait" ELSE @])
  /\ UNCHANGED <<rt, active>>

Accepts(m) == m.type = "apply_action" /\ ValidAction(m) /\ m.run = "this"

ReadRefused(c, m) ==
  /\ conn[c].pc = "read" /\ ~conn[c].closed
  /\ IsEnvelope(m) /\ m.type # "pong" /\ ~Accepts(m)
  /\ Set(c, Shut(conn[c]))
  /\ UNCHANGED <<rt, active>>

ReadAction(c, m) ==
  /\ conn[c].pc = "read" /\ ~conn[c].closed /\ Accepts(m)
  /\ Set(c, [conn[c] EXCEPT !.pc = "apply"])
  /\ UNCHANGED <<rt, active>>

\* The connection after the runtime answered its action with seq.
Applied(k, seq) ==
  [k EXCEPT !.seq = seq, !.pc = "accepted"]

\* The runtime with a row for an action under seq, old or new.
Logged(seq) ==
  [rt EXCEPT !.seq = IF seq > @ THEN seq ELSE @, !.actions = @ \cup {seq}, !.acts = @ + 1]

\* ... which the engine has taken, now or before.
Taken(seq) == [Logged(seq) EXCEPT !.last = IF seq > @ THEN seq ELSE @, !.ticking = TRUE]

\* MUTANT of Apply: the delta is written without the acceptance before it.
ApplyUnannounced(c) ==
  /\ conn[c].pc = "apply" /\ rt.acts < MaxActs /\ rt.seq < MaxSeq /\ ~rt.over
  /\ rt' = Taken(rt.seq + 1)
  /\ Set(c, [Applied(conn[c], rt.seq + 1) EXCEPT !.pc = "advance"])
  /\ UNCHANGED active

\* ApplyAction of the runtime.  The action is new, or a retry of one in the log, on
\* whatever connection; it is accepted; or it fails and its row stays, the engine
\* having refused it or the INSERT being reported as failed; or it fails without a
\* trace.  Whether the connection is closed by now is not looked at.
Apply(c) ==
  /\ conn[c].pc = "apply"
  /\ \/ /\ rt.acts < MaxActs /\ ~rt.over
        /\ \E seq \in rt.actions \cup {rt.seq + 1} :
             /\ seq <= MaxSeq
             /\ \/ rt' = Taken(seq) /\ Set(c, Applied(conn[c], seq))
                \/ rt' = Logged(seq) /\ Set(c, Shut(conn[c]))
     \/ Set(c, Shut(conn[c])) /\ UNCHANGED rt
  /\ UNCHANGED active

WriteAccepted(c) ==
  /\ conn[c].pc = "accepted" /\ MayWrite(conn[c], "pc")
  /\ Set(c, Wrote(conn[c], "action_accepted", conn[c].seq, "advance"))
  /\ UNCHANGED <<rt, active>>

\* writeDelta, first half: the tracker.
AdvanceReply(c) ==
  /\ conn[c].pc = "advance"
  /\ LET k == conn[c] IN
       Set(c, CASE Advance(k, k.seq) = "gap" -> Shut(k)
                [] Advance(k, k.seq) = "send" -> [k EXCEPT !.last = k.seq, !.pc = "delta"]
                [] Advance(k, k.seq) = "skip" -> [k EXCEPT !.pc = "read", !.seq = 0])
  /\ UNCHANGED <<rt, active>>

\* writeDelta, second half: the connection.
WriteReply(c) ==
  /\ conn[c].pc = "delta" /\ MayWrite(conn[c], "pc")
  /\ Set(c, [Wrote(conn[c], "delta", conn[c].seq, "read") EXCEPT !.seq = 0])
  /\ UNCHANGED <<rt, active>>

-----------------------------------------------------------------------------
(***************************************************************************)
(* closeWith, and the deferred calls, last one first                       *)
(***************************************************************************)

CloseShut(c) ==
  /\ conn[c].pc = "shut" /\ conn[c].mu = "free"
  /\ Set(c, [Closed(conn[c]) EXCEPT !.pc = "leave"])
  /\ UNCHANGED <<rt, active>>

\* MUTANT of Leave: the goroutines are not stopped.
LeaveStreaming(c) ==
  /\ conn[c].pc = "leave"
  /\ active' = IF active = c THEN NoConn ELSE active
  /\ Set(c, [conn[c] EXCEPT !.pc = "close"])
  /\ UNCHANGED rt

\* MUTANT of Leave: whoever is registered is removed.
LeaveAnyone(c) ==
  /\ conn[c].pc = "leave"
  /\ active' = NoConn
  /\ Set(c, [conn[c] EXCEPT !.stop = TRUE, !.pc = "close"])
  /\ UNCHANGED rt

\* close(stopHeartbeat), close(stopWin), close(stopDelta), unregisterActive.
Leave(c) ==
  /\ conn[c].pc = "leave"
  /\ active' = IF active = c THEN NoConn ELSE active
  /\ Set(c, [conn[c] EXCEPT !.stop = TRUE, !.pc = "close"])
  /\ UNCHANGED rt

CloseNormal(c) ==
  /\ conn[c].pc = "close" /\ conn[c].mu = "free"
  /\ Set(c, [Closed(conn[c]) EXCEPT !.pc = "gone", !.last = 0])
  /\ UNCHANGED <<rt, active>>

\* The request is over, its context is cancelled and the runtime ends its delta
\* subscription.  What is left in the channel can no longer be written.
Unsubscribed(c) ==
  /\ conn[c].pc = "gone" /\ conn[c].subscribed
  /\ Set(c, [conn[c] EXCEPT !.subscribed = FALSE, !.chan = <<>>])
  /\ UNCHANGED <<rt, active>>

-----------------------------------------------------------------------------
(***************************************************************************)
(* streamRuntimeDeltas, streamRuntimeWinUpdates, runHeartbeat              *)
(***************************************************************************)

TakeDelta(c) ==
  /\ conn[c].stream = "wait" /\ conn[c].chan # <<>>
  /\ Set(c, [conn[c] EXCEPT !.held = Head(conn[c].chan), !.chan = Tail(@), !.stream = "advance"])
  /\ UNCHANGED <<rt, active>>

AdvanceStream(c) ==
  /\ conn[c].stream = "advance"
  /\ LET k == conn[c] IN
       Set(c, CASE Advance(k, k.held) = "gap" -> [k EXCEPT !.stream = "shut", !.held = 0]
                [] Advance(k, k.held) = "send" -> [k EXCEPT !.last = k.held, !.stream = "write"]
                [] Advance(k, k.held) = "skip" -> [k EXCEPT !.stream = "wait", !.held = 0])
  /\ UNCHANGED <<rt, active>>

WriteStream(c) ==
  /\ conn[c].stream = "write" /\ MayWrite(conn[c], "stream")
  /\ LET k == conn[c] IN
       Set(c, IF Dead(k) THEN [k EXCEPT !.stream = "done", !.mu = "free", !.held = 0]
              ELSE [OnWire(k, "delta", k.held) EXCEPT !.stream = "wait", !.held = 0,
                                                      !.mu = "free"])
  /\ UNCHANGED <<rt, active>>

\* closeWith after a gap.
CloseStream(c) ==
  /\ conn[c].stream = "shut" /\ conn[c].mu = "free"
  /\ Set(c, [Closed(conn[c]) EXCEPT !.stream = "done"])
  /\ UNCHANGED <<rt, active>>

\* The stop channel, or the delta channel after Unsubscribed.
StreamStops(c) ==
  /\ conn[c].stream = "wait"
  /\ conn[c].stop \/ (conn[c].pc = "gone" /\ ~conn[c].subscribed)
  /\ Set(c, [conn[c] EXCEPT !.stream = "done"])
  /\ UNCHANGED <<rt, active>>

WriteWin(c) ==
  /\ conn[c].wins = "told" /\ MayWrite(conn[c], "wins")
  /\ LET k == conn[c] IN
       Set(c, [k EXCEPT !.wins = IF Dead(k) THEN "done" ELSE "wait", !.mu = "free"])
  /\ UNCHANGED <<rt, active>>

WinStops(c) ==
  /\ conn[c].wins \in {"wait", "told"} /\ conn[c].stop /\ conn[c].mu # "wins"
  /\ Set(c, [conn[c] EXCEPT !.wins = "done"])
  /\ UNCHANGED <<rt, active>>

\* A ping is due.
Ping(c) ==
  /\ \/ conn[c].beat = "wait" /\ conn[c].mu = "free"
     \/ conn[c].mu = "beat"
  /\ LET k == conn[c] IN
       Set(c, [k EXCEPT !.beat = IF Dead(k) THEN "done" ELSE @, !.mu = "free"])
  /\ UNCHANGED <<rt, active>>

\* The last pong is longer ago than the heartbeat allows; "silent" until it looks.
Silence(c) ==
  /\ c \in Mute /\ conn[c].beat = "wait" /\ ~conn[c].closed
  /\ Set(c, [conn[c] EXCEPT !.beat = "silent"])
  /\ UNCHANGED <<rt, active>>

\* TimedOut is looked at first.  A pong that comes now is too late.
BeatTimesOut(c) ==
  /\ conn[c].beat = "silent" /\ conn[c].mu # "beat"
  /\ Set(c, [conn[c] EXCEPT !.beat = "late"])
  /\ UNCHANGED <<rt, active>>

\* MUTANT of CloseLate: the heartbeat ends and closes nothing.
LeaveLate(c) ==
  /\ conn[c].beat = "late" /\ conn[c].mu = "free"
  /\ Set(c, [conn[c] EXCEPT !.beat = "done"])
  /\ UNCHANGED <<rt, active>>

CloseLate(c) ==
  /\ conn[c].beat = "late" /\ conn[c].mu = "free"
  /\ Set(c, [Closed(conn[c]) EXCEPT !.beat = "done"])
  /\ UNCHANGED <<rt, active>>

BeatStops(c) ==
  /\ conn[c].beat \in {"wait", "silent"} /\ conn[c].stop /\ conn[c].mu # "beat"
  /\ Set(c, [conn[c] EXCEPT !.beat = "done"])
  /\ UNCHANGED <<rt, active>>

-----------------------------------------------------------------------------
(***************************************************************************)
(* The network                                                             *)
(***************************************************************************)

\* Goroutine g is about to write.
Writing(k, g) ==
  CASE g = "pc" -> k.pc \in {"ack", "snapshot", "accepted", "delta"}
    [] g = "stream" -> k.stream = "write"
    [] g = "wins" -> k.wins = "told"
    [] g = "beat" -> k.beat = "wait"

\* The client has stopped reading and the buffers are full.
Stalls(c, g) ==
  /\ c \in Slow /\ Writing(conn[c], g) /\ conn[c].mu = "free" /\ ~Dead(conn[c])
  /\ Set(c, [conn[c] EXCEPT !.mu = g])
  /\ UNCHANGED <<rt, active>>

\* The network is gone.  Whoever writes finds out, and so does whoever reads.
Breaks(c) ==
  /\ conn[c].pc \notin {"new", "gone"} /\ ~Dead(conn[c])
  /\ Set(c, [conn[c] EXCEPT !.broken = TRUE])
  /\ UNCHANGED <<rt, active>>

-----------------------------------------------------------------------------
(***************************************************************************)
(* The tick loop of the runtime                                            *)
(***************************************************************************)

\* pushDelta drops a tick when the channel is full.
Tick ==
  /\ rt.ticking /\ rt.seq < MaxSeq
  /\ rt' = [rt EXCEPT !.seq = @ + 1, !.last = rt.seq + 1]
  /\ conn' = [c \in Conns |->
                IF conn[c].subscribed /\ Len(conn[c].chan) < DeltaCap
                THEN [conn[c] EXCEPT !.chan = Append(@, rt.seq + 1)] ELSE conn[c]]
  /\ UNCHANGED active

\* The append fails, or the engine does: the clock stops, until somebody connects,
\* subscribes or acts.  The row may be there all the same.
TickFails ==
  /\ rt.ticking
  /\ \E seq \in {rt.seq, rt.seq + 1} :
       seq <= MaxSeq /\ rt' = [rt EXCEPT !.seq = seq, !.ticking = FALSE]
  /\ UNCHANGED <<active, conn>>

\* The last tick is not pushed; the win update is.
LastTick ==
  /\ rt.ticking /\ rt.seq < MaxSeq
  /\ rt' = [rt EXCEPT !.seq = @ + 1, !.last = rt.seq + 1, !.ticking = FALSE, !.over = TRUE]
  /\ conn' = [c \in Conns |->
                IF c \in rt.winSubs /\ conn[c].wins = "wait" THEN [conn[c] EXCEPT !.wins = "told"] ELSE conn[c]]
  /\ UNCHANGED active

-----------------------------------------------------------------------------
Handle(c) ==
  \/ CloseOld(c) \/ Connect(c) \/ WriteAck(c) \/ WriteSnapshot(c)
  \/ SubscribeDeltas(c) \/ SubscribeWins(c)
  \/ Apply(c) \/ WriteAccepted(c) \/ AdvanceReply(c) \/ WriteReply(c)
  \/ CloseShut(c) \/ Leave(c) \/ CloseNormal(c)

Client(c) ==
  \E m \in Messages :
    RefuseHello(c, m) \/ Register(c, m) \/ ReadRefused(c, m) \/ ReadAction(c, m) \/ ReadPong(c, m)

Stream(c) == TakeDelta(c) \/ AdvanceStream(c) \/ WriteStream(c) \/ CloseStream(c) \/ StreamStops(c)

WinStream(c) == WriteWin(c) \/ WinStops(c)

Beat(c) == Ping(c) \/ BeatTimesOut(c) \/ CloseLate(c) \/ BeatStops(c)

Goroutines == {"pc", "stream", "wins", "beat"}
Network(c) == Silence(c) \/ Breaks(c) \/ \E g \in Goroutines : Stalls(c, g)

WSNext ==
  \/ \E c \in Conns :
       \/ Handle(c)
       \/ Client(c)
       \/ ReadFails(c)
       \/ Stream(c)
       \/ WinStream(c)
       \/ Beat(c)
       \/ Unsubscribed(c)
       \/ Network(c)
  \/ Tick
  \/ TickFails
  \/ LastTick

WSSpec == WSInit /\ [][WSNext]_wsVars

\* The write of goroutine g takes as long as the client likes.
Stalled(c, g) == conn[c].mu = g /\ ~conn[c].broken

\* Goroutines run, unless a client holds up their write; a read of a dead connection
\* fails, a cancelled subscription ends.  Clients and the clock of the run owe
\* nothing.
WSFairness ==
  \A c \in Conns :
    /\ WF_wsVars(~Stalled(c, "pc") /\ Handle(c))
    /\ WF_wsVars(~Stalled(c, "stream") /\ Stream(c))
    /\ WF_wsVars(~Stalled(c, "wins") /\ WinStream(c))
    /\ WF_wsVars(~Stalled(c, "beat") /\ Beat(c))
    /\ WF_wsVars(Unsubscribed(c))
    /\ WF_wsVars(Dead(conn[c]) /\ ReadFails(c))

WSFairSpec == WSSpec /\ WSFairness

-----------------------------------------------------------------------------
SeqsOf(c, type) == {conn[c].wire[i].seq : i \in {j \in DOMAIN conn[c].wire :
                                                    conn[c].wire[j].type = type}}
Deltas(c) == {i \in DOMAIN conn[c].wire : conn[c].wire[i].type = "delta"}

\* Two goroutines number and write deltas, and advancing the tracker is not atomic
\* with writing.  Still every seq between the snapshot and the tracker is, exactly
\* once, on the wire or in the hand of the goroutine that is about to write it: an
\* open connection has no gap and no duplicate.
NoDeltaLost ==
  \A c \in Conns : LET k == conn[c] IN
    ~Dead(k) /\ k.last # 0 =>
      /\ SeqsOf(c, "delta")
           \cup (IF k.stream = "write" THEN {k.held} ELSE {})
           \cup (IF k.pc = "delta" THEN {k.seq} ELSE {})
         = (k.snap + 1)..k.last
      /\ Cardinality(Deltas(c)) = Cardinality(SeqsOf(c, "delta"))

\* The delta of an action never reaches a client before that action's acceptance.
AcceptedBeforeDelta ==
  \A c \in Conns : \A i \in Deltas(c) :
    conn[c].wire[i].seq \in rt.actions =>
      \E j \in 1..(i - 1) :
        conn[c].wire[j] = [type |-> "action_accepted", seq |-> conn[c].wire[i].seq]

\* Past its hello, an open connection is the registered one, or some handler is
\* about to close it: two tabs never both stay on one run.
Serving(c) == conn[c].pc \notin {"new", "leave", "close", "gone"}
OneConnection ==
  \A c \in Conns : Serving(c) /\ ~conn[c].closed /\ active # c =>
    \E d \in Conns : conn[d].pc = "replace" /\ conn[d].old = c

\* A connection that is closed or broken is given up: its four goroutines end, it
\* is not registered and its delta subscription ends.  (Its channel in winSubs is
\* never taken out, so nothing is said of that one.)  A handler that still waits
\* for the connection it replaces to be closed is excepted: that one's client may
\* hold it up for ever.
Released(c) ==
  /\ conn[c].pc = "gone" /\ active # c /\ ~conn[c].subscribed
  /\ conn[c].stream \in {"off", "done"} /\ conn[c].wins \in {"off", "done"}
  /\ conn[c].beat \in {"off", "done"}
ClosedIsReleased ==
  \A c \in Conns : (Dead(conn[c]) /\ conn[c].pc # "replace") ~> Released(c)

\* A client that has been silent for too long is disconnected, unless a pong comes
\* before the heartbeat looks.  So it is when the client reads what it is sent: then
\* the heartbeat gets the mutex, whatever the other goroutines write.  A client that
\* has stopped reading is not: the write that it holds up keeps the mutex.
TooSilent(c) == conn[c].beat \in {"silent", "late"}
SilentIsClosed == \A c \in Conns : TooSilent(c) ~> (conn[c].closed \/ conn[c].beat = "wait")
=============================================================================

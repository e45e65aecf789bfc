---------------------------- MODULE EngineAClient ----------------------------
(***************************************************************************)
(* The Engine A page of the browser (web/src/hooks/use-ws.ts and           *)
(* use-engine-a.ts) against the server it talks to: one page, the sockets  *)
(* it makes, and for each the connection the server keeps.                 *)
(*                                                                         *)
(* A browser event handler runs to completion, so each is one action.  A   *)
(* socket the page has closed delivers nothing: a message event is         *)
(* dispatched only while readyState is OPEN.  The server is what WSHandler *)
(* shows of a connection: hello_ack and a snapshot, then deltas of         *)
(* consecutive seqs, where the reply to an action and a tick may change    *)
(* places on the wire; a gap closes the connection.  Delays are not        *)
(* modelled: an armed timer fires some time.  ping, pong and               *)
(* action_accepted change nothing the properties speak of.                 *)
(***************************************************************************)
EXTENDS Integers, Sequences, FiniteSets, SequencesExt

CONSTANTS
  Socks,      \* WebSocket objects; one that is over on both sides is used again
  NoSock,     \* null
  MaxSeq,     \* bound: seqs of the run
  MaxFaults   \* bound: connections the server or the network breaks

ASSUME SockAssumption == NoSock \notin Socks /\ Socks # {}
ASSUME ClientBounds == MaxSeq \in Nat \ {0} /\ MaxFaults \in Nat

VARIABLES
  page,    \* the refs and the state of useWs and useEngineA
  sock,    \* sock[s]: both ends of a socket
  run,     \* the run: its last seq and how it ended
  faults

clientVars == <<page, sock, run, faults>>

-----------------------------------------------------------------------------
\* wsSeq is useWs.lastSeqRef, seq is useEngineA.lastSeqRef.
NewPage == [mounted |-> FALSE, cur |-> NoSock, timer |-> FALSE, shows |-> "disconnected",
            wsSeq |-> 0, seq |-> 0, won |-> FALSE]

\* state: readyState.  srv: the server's end.  up: actions on their way to the
\* server; last: its seqTracker; resume: resumeFromSeq of the hello; missed (history):
\* the run ended between the connection's snapshot and its subscription.
Gone == [state |-> "closed", srv |-> "gone", down |-> <<>>, up |-> FALSE, last |-> 0,
         resume |-> 0, missed |-> FALSE]

ClientInit ==
  /\ page = NewPage
  /\ sock = [s \in Socks |-> Gone]
  /\ run = [seq |-> 1, end |-> "no"]
  /\ faults = 0

Open(s) == sock[s].state # "closed"
Free(s) == ~Open(s) /\ sock[s].srv = "gone"

\* ws.close(): what is still on its way is never dispatched.
ClosedByPage(k) == [k EXCEPT !.state = "closed", !.down = <<>>]

\* connect(resume) on page p: the timer is cleared, the socket before it loses its
\* onclose and is closed, and s takes its place.
ConnectTo(s, p, resume) ==
  /\ Free(s)
  /\ page' = [p EXCEPT !.timer = FALSE, !.cur = s]
  /\ sock' = [[k \in Socks |-> IF k = page.cur THEN ClosedByPage(sock[k]) ELSE sock[k]]
                EXCEPT ![s] = [Gone EXCEPT !.state = "connecting", !.srv = "none", !.resume = resume]]

-----------------------------------------------------------------------------
(***************************************************************************)
(* The page                                                                *)
(***************************************************************************)

Mount(s) ==
  /\ ~page.mounted
  /\ ConnectTo(s, [NewPage EXCEPT !.mounted = TRUE], 0)
  /\ UNCHANGED <<run, faults>>

\* MUTANT of Unmount: the timer is left armed.
UnmountArmed ==
  /\ page.mounted
  /\ page' = [NewPage EXCEPT !.timer = page.timer]
  /\ sock' = [s \in Socks |-> IF s = page.cur THEN ClosedByPage(sock[s]) ELSE sock[s]]
  /\ UNCHANGED <<run, faults>>

\* The cleanup of the effect; the component's refs and state go with it.
Unmount ==
  /\ page.mounted
  /\ page' = NewPage
  /\ sock' = [s \in Socks |-> IF s = page.cur THEN ClosedByPage(sock[s]) ELSE sock[s]]
  /\ UNCHANGED <<run, faults>>

\* onopen sends the hello.
Opened(s) ==
  /\ sock[s].state = "connecting" /\ sock[s].srv = "none"
  /\ sock' = [sock EXCEPT ![s].state = "open", ![s].srv = "hello"]
  /\ UNCHANGED <<page, run, faults>>

\* dispatchAction on an open socket; on any other the click is lost.
Dispatch(s) ==
  /\ page.cur = s /\ sock[s].state = "open" /\ ~sock[s].up
  /\ sock' = [sock EXCEPT ![s].up = TRUE]
  /\ UNCHANGED <<page, run, faults>>

\* A delta is told by where it comes from, the tick loop or an action.
IsDelta(m) == m.type \in {"tick", "action"}

Received(s) == sock' = [sock EXCEPT ![s].down = Tail(@)]

\* MUTANT of ReceiveState: a delta of any seq is shown.
ReceiveAnyDelta(s, m) ==
  /\ m.type = "snapshot" \/ IsDelta(m)
  /\ page' = [page EXCEPT !.seq = m.seq, !.wsSeq = m.seq, !.won = @ \/ m.won]
  /\ Received(s)

\* A snapshot, or the next delta: the two copies of the seq move together.
ReceiveState(s, m) ==
  /\ m.type = "snapshot" \/ (IsDelta(m) /\ m.seq = page.seq + 1)
  /\ page' = [page EXCEPT !.seq = m.seq, !.wsSeq = m.seq, !.won = @ \/ m.won]
  /\ Received(s)

\* Any other delta: reconnect(true).  useEngineA keeps its seq.
ReceiveGap(m) ==
  /\ IsDelta(m) /\ m.seq # page.seq + 1
  /\ \E n \in Socks \ {page.cur} : ConnectTo(n, [page EXCEPT !.wsSeq = 0], 0)

ReceiveAck(s, m) ==
  /\ m.type = "hello_ack"
  /\ page' = [page EXCEPT !.shows = "connected"]
  /\ Received(s)

ReceiveWin(s, m) ==
  /\ m.type = "win_update"
  /\ page' = [page EXCEPT !.won = @ \/ m.won]
  /\ Received(s)

Receive(s) ==
  /\ sock[s].state = "open" /\ sock[s].down # <<>>
  /\ LET m == Head(sock[s].down) IN
       ReceiveState(s, m) \/ ReceiveGap(m) \/ ReceiveAck(s, m) \/ ReceiveWin(s, m)
  /\ UNCHANGED <<run, faults>>

\* MUTANT of SocketClosed: the handler does not arm the timer.
SocketClosedForGood(s) ==
  /\ Open(s) /\ sock[s].srv = "gone" /\ sock[s].down = <<>>
  /\ sock' = [sock EXCEPT ![s] = Gone]
  /\ page' = [page EXCEPT !.shows = "reconnecting"]
  /\ UNCHANGED <<run, faults>>

\* onclose of the current socket, after the messages the server sent before it
\* closed: a socket the page has closed itself has no onclose.
SocketClosed(s) ==
  /\ Open(s) /\ sock[s].srv = "gone" /\ sock[s].down = <<>>
  /\ sock' = [sock EXCEPT ![s] = Gone]
  /\ page' = [page EXCEPT !.shows = "reconnecting", !.timer = TRUE]
  /\ UNCHANGED <<run, faults>>

TimerFires(s) ==
  /\ page.timer
  /\ ConnectTo(s, page, page.wsSeq)
  /\ UNCHANGED <<run, faults>>

-----------------------------------------------------------------------------
(***************************************************************************)
(* The server                                                              *)
(***************************************************************************)
Msg(type, seq) == [type |-> type, seq |-> seq, won |-> run.end = "won"]

Active(k) == k.srv \in {"serving", "live"}

\* What a socket that is already closed by the page is sent goes nowhere.
Sent(k, q) == [k EXCEPT !.down = IF k.state = "open" THEN q ELSE <<>>]

\* A tick's delta and an action's are written by two goroutines.
Wires(q, m) ==
  {Append(q, m)} \cup
  (IF q # <<>> /\ {Last(q).type, m.type} = {"tick", "action"} THEN {Front(q) \o <<m, Last(q)>>} ELSE {})

\* A delta of seq for connection k: the next one is written, any other closes it.
Deltas(k, seq, type) ==
  IF seq # k.last + 1 THEN {[k EXCEPT !.srv = "gone"]}
  ELSE {[Sent(k, q) EXCEPT !.last = seq] : q \in Wires(k.down, Msg(type, seq))}

\* MUTANT of Welcome: a connection that resumes is sent no snapshot.
WelcomeResuming(k) ==
  IF k.resume > 0 THEN [Sent(k, <<Msg("hello_ack", 0)>>) EXCEPT !.srv = "serving", !.last = k.resume]
  ELSE [Sent(k, <<Msg("hello_ack", 0), Msg("snapshot", run.seq)>>) EXCEPT
          !.srv = "serving", !.last = run.seq]

\* The runtime's Connect ignores resumeFromSeq and always has a snapshot sent.
Welcome(k) ==
  [Sent(k, <<Msg("hello_ack", 0), Msg("snapshot", run.seq)>>) EXCEPT
     !.srv = "serving", !.last = run.seq]

\* The hello of s: the connection before it is closed.
Hello(s) ==
  /\ sock[s].srv = "hello"
  /\ sock' = [k \in Socks |-> IF k = s THEN Welcome(sock[k])
                              ELSE IF Active(sock[k]) THEN [sock[k] EXCEPT !.srv = "gone"]
                              ELSE sock[k]]
  /\ UNCHANGED <<page, run, faults>>

\* SubscribeDeltas and SubscribeWinUpdates.
Subscribe(s) ==
  /\ sock[s].srv = "serving"
  /\ sock' = [sock EXCEPT ![s].srv = "live"]
  /\ UNCHANGED <<page, run, faults>>

\* An action reaches the run, whose reply goes to this connection only; a run
\* that is over refuses it, which closes the connection.
Apply(s) ==
  /\ sock[s].srv = "live" /\ sock[s].up
  /\ \/ /\ run.end = "no" /\ run.seq < MaxSeq
        /\ run' = [run EXCEPT !.seq = @ + 1]
        /\ \E k \in Deltas(sock[s], run.seq + 1, "action") : sock' = [sock EXCEPT ![s] = [k EXCEPT !.up = FALSE]]
     \/ /\ run.end # "no"
        /\ sock' = [sock EXCEPT ![s].srv = "gone"]
        /\ UNCHANGED run
  /\ UNCHANGED <<page, faults>>

\* A tick is pushed to the subscribed connection, whose channel may be full.
Tick ==
  /\ run.end = "no" /\ run.seq < MaxSeq
  /\ run' = [run EXCEPT !.seq = @ + 1]
  /\ \/ UNCHANGED sock
     \/ \E s \in Socks : /\ sock[s].srv = "live"
                         /\ \E k \in Deltas(sock[s], run.seq + 1, "tick") : sock' = [sock EXCEPT ![s] = k]
  /\ UNCHANGED <<page, faults>>

\* The last tick is told by a win update only, to whoever is subscribed by then.
LastTick ==
  /\ run.end = "no" /\ run.seq < MaxSeq
  /\ \E end \in {"won", "timeout"} :
       /\ run' = [seq |-> run.seq + 1, end |-> end]
       /\ sock' = [s \in Socks |->
            IF sock[s].srv = "live"
            THEN Sent(sock[s], Append(sock[s].down, [Msg("win_update", 0) EXCEPT !.won = (end = "won")]))
            ELSE [sock[s] EXCEPT !.missed = (sock[s].srv = "serving")]]
  /\ UNCHANGED <<page, faults>>

\* The server reads that the page has closed the socket.
ServerSees(s) ==
  /\ ~Open(s) /\ sock[s].srv # "gone"
  /\ sock' = [sock EXCEPT ![s] = Gone]
  /\ UNCHANGED <<page, run, faults>>

\* A broken network, a refused token, a pong timeout, another tab, a restart.
Break(s) ==
  /\ faults < MaxFaults /\ faults' = faults + 1
  /\ Open(s) /\ sock[s].srv # "gone"
  /\ sock' = [sock EXCEPT ![s].srv = "gone", ![s].down = <<>>]
  /\ UNCHANGED <<page, run>>

-----------------------------------------------------------------------------
PageStep(s) == Opened(s) \/ Receive(s) \/ SocketClosed(s) \/ TimerFires(s)
ServerStep(s) == Hello(s) \/ Subscribe(s) \/ Apply(s) \/ ServerSees(s)

ClientNext ==
  \/ \E s \in Socks : PageStep(s) \/ ServerStep(s) \/ Mount(s) \/ Dispatch(s) \/ Break(s)
  \/ Unmount \/ Tick \/ LastTick

ClientSpec == ClientInit /\ [][ClientNext]_clientVars

\* Browser events are dispatched, an armed timer fires and the server's goroutines
\* run.  Nobody has to click, to stay, or to let the run tick.
ClientFairness ==
  /\ WF_clientVars(\E s \in Socks : TimerFires(s))
  /\ \A s \in Socks : WF_clientVars(Opened(s)) /\ WF_clientVars(Receive(s))
                      /\ WF_clientVars(SocketClosed(s)) /\ WF_clientVars(ServerStep(s))

ClientFairSpec == ClientSpec /\ ClientFairness

-----------------------------------------------------------------------------
\* A backoff timer, a forced reconnect and an unmount never cross: a mounted page
\* has either one socket or an armed timer, never both and never neither, and an
\* unmounted page has none of them.
OnePathToServer ==
  /\ \A s \in Socks : Open(s) => page.cur = s
  /\ page.mounted => (page.timer <=> \A s \in Socks : ~Open(s))
  /\ ~page.mounted => ~page.timer /\ \A s \in Socks : ~Open(s)

\* While the page is mounted, its view never falls back to an earlier seq: not by a
\* reconnect, not by deltas the server wrote in the wrong order, not by a socket the
\* page has given up.
ViewNeverGoesBack == [][page.mounted /\ page.mounted' => page'.seq >= page.seq]_clientVars

\* Faults are bounded: whatever broke the connection, a gap included, a page that
\* stays gets one that is subscribed, and stops showing that it reconnects.
Settled == \E s \in Socks : page.cur = s /\ sock[s].state = "open" /\ sock[s].srv = "live"
Reconnects ==
  /\ page.mounted ~> Settled \/ ~page.mounted
  /\ page.shows = "reconnecting" ~> page.shows # "reconnecting"

\* A player who stays sees the run won.  The exception is a hole of the code: the
\* last tick fell between the snapshot of the page's connection and its
\* subscription, and nothing tells that connection any more.
Missed == \E s \in Socks : page.cur = s /\ sock[s].missed
WinIsShown == page.mounted /\ run.end = "won" ~> page.won \/ ~page.mounted \/ Missed
=============================================================================

------------------------ MODULE EngineAClient_proofs ------------------------
(***************************************************************************)
(* A page has one path to the server and its view never goes back, for     *)
(* any number of sockets, faults and seqs.                                 *)
(***************************************************************************)
EXTENDS EngineAClient, TLAPS

Message == [type : {"hello_ack", "snapshot", "tick", "action", "win_update"}, seq : Nat, won : BOOLEAN]
Socket == [state : {"connecting", "open", "closed"}, srv : {"none", "hello", "serving", "live", "gone"},
           down : Seq(Message), up : BOOLEAN, last : Nat, resume : Nat, missed : BOOLEAN]
Page == [mounted : BOOLEAN, cur : Socks \cup {NoSock}, timer : BOOLEAN,
         shows : {"disconnected", "connected", "reconnecting"}, wsSeq : Nat, seq : Nat, won : BOOLEAN]

ClientTypeOK ==
  /\ page \in Page
  /\ sock \in [Socks -> Socket]
  /\ run \in [seq : Nat, end : {"no", "won", "timeout"}]
  /\ faults \in Nat

OpenIsCurrent == \A s \in Socks : Open(s) => page.cur = s
TimerOrSocket == page.mounted => (page.timer <=> \A s \in Socks : ~Open(s))
UnmountedHasNone == ~page.mounted => ~page.timer /\ \A s \in Socks : ~Open(s)

LEMMA PathParts == OnePathToServer <=> OpenIsCurrent /\ TimerOrSocket /\ UnmountedHasNone
  BY DEF OnePathToServer, OpenIsCurrent, TimerOrSocket, UnmountedHasNone

-----------------------------------------------------------------------------
LEMMA NoMessages == <<>> \in Seq(Message)
  OBVIOUS

\* What the server does to a connection leaves readyState alone.
LEMMA MsgTyped ==
  ASSUME ClientTypeOK, NEW type \in {"hello_ack", "snapshot", "tick", "action", "win_update"}, NEW n \in Nat
  PROVE  Msg(type, n) \in Message
  BY DEF Msg, Message, ClientTypeOK

LEMMA SentTyped ==
  ASSUME NEW k \in Socket, NEW q \in Seq(Message)
  PROVE  Sent(k, q) \in Socket /\ Sent(k, q).state = k.state
<1> DEFINE d == IF k.state = "open" THEN q ELSE <<>>
<1>1. d \in Seq(Message)
  BY NoMessages
<1> HIDE DEF d
<1>2. [k EXCEPT !.down = d] \in Socket /\ [k EXCEPT !.down = d].state = k.state
  BY <1>1 DEF Socket
<1> QED
  BY <1>2 DEF Sent, d

LEMMA ClosedTyped ==
  ASSUME NEW k \in Socket
  PROVE  ClosedByPage(k) \in Socket /\ ClosedByPage(k).state = "closed"
<1> DEFINE none == <<>>
<1>1. none \in Seq(Message)
  BY NoMessages
<1> HIDE DEF none
<1>2. [k EXCEPT !.state = "closed", !.down = none] \in Socket
  BY <1>1 DEF Socket
<1>3. [k EXCEPT !.state = "closed", !.down = none].state = "closed"
  BY DEF Socket
<1> QED
  BY <1>2, <1>3 DEF ClosedByPage, none

LEMMA WiresTyped ==
  ASSUME NEW q \in Seq(Message), NEW m \in Message
  PROVE  Wires(q, m) \subseteq Seq(Message)
<1>1. Append(q, m) \in Seq(Message)
  OBVIOUS
<1>2. ASSUME q # <<>>
      PROVE  Front(q) \o <<m, Last(q)>> \in Seq(Message)
  <2>1. Len(q) \in Nat \ {0} /\ Last(q) \in Message
    BY <1>2 DEF Last
  <2>2. Front(q) \in Seq(Message)
    BY <2>1 DEF Front
  <2>3. <<m, Last(q)>> \in Seq(Message)
    BY <2>1
  <2> QED
    BY <2>2, <2>3
<1> QED
  BY <1>1, <1>2 DEF Wires

LEMMA DeltasTyped ==
  ASSUME ClientTypeOK, NEW k \in Socket, NEW n \in Nat, NEW type \in {"tick", "action"},
         NEW d \in Deltas(k, n, type)
  PROVE  d \in Socket /\ d.state = k.state
<1>1. CASE n # k.last + 1
  BY <1>1 DEF Deltas, Socket
<1>2. CASE n = k.last + 1
  <2>1. PICK q \in Wires(k.down, Msg(type, n)) : d = [Sent(k, q) EXCEPT !.last = n]
    BY <1>2 DEF Deltas
  <2>2. q \in Seq(Message)
    BY <2>1, MsgTyped, WiresTyped DEF Socket
  <2>3. Sent(k, q) \in Socket /\ Sent(k, q).state = k.state
    BY <2>2, SentTyped
  <2> QED
    BY <2>1, <2>3 DEF Socket
<1> QED
  BY <1>1, <1>2

LEMMA WelcomeTyped ==
  ASSUME ClientTypeOK, NEW k \in Socket
  PROVE  Welcome(k) \in Socket /\ Welcome(k).state = k.state
<1> DEFINE q == <<Msg("hello_ack", 0), Msg("snapshot", run.seq)>>
<1>1. run.seq \in Nat
  BY DEF ClientTypeOK
<1>2. Msg("hello_ack", 0) \in Message /\ Msg("snapshot", run.seq) \in Message
  BY <1>1, MsgTyped
<1>3. q \in Seq(Message)
  BY <1>2
<1>4. Sent(k, q) \in Socket /\ Sent(k, q).state = k.state
  BY <1>3, SentTyped
<1>5. Welcome(k) = [Sent(k, q) EXCEPT !.srv = "serving", !.last = run.seq]
  BY DEF Welcome
<1> HIDE DEF q
<1> QED
  BY <1>1, <1>4, <1>5 DEF Socket

\* A connect leaves one open socket and no timer.
LEMMA ConnectPath ==
  ASSUME ClientTypeOK, OpenIsCurrent, NEW s \in Socks, NEW p \in Page, NEW r \in Nat,
         ConnectTo(s, p, r), p.mounted
  PROVE  page' \in Page /\ sock' \in [Socks -> Socket] /\ OnePathToServer'
<1>1. Gone \in Socket
  BY DEF Gone, Socket
<1>2. page' = [p EXCEPT !.timer = FALSE, !.cur = s] /\ page' \in Page
  BY DEF ConnectTo, Page
<1>3. page'.mounted /\ ~page'.timer /\ page'.cur = s
  BY <1>2 DEF Page
<1> DEFINE new == [Gone EXCEPT !.state = "connecting", !.srv = "none", !.resume = r]
<1>4. new \in Socket /\ new.state = "connecting"
  BY <1>1 DEF Socket, Gone
<1>5. \A k \in Socks : sock'[k] = IF k = s THEN new ELSE IF k = page.cur THEN ClosedByPage(sock[k]) ELSE sock[k]
  BY DEF ConnectTo
<1>6. \A k \in Socks : sock[k] \in Socket
  BY DEF ClientTypeOK
<1>7. \A k \in Socks : ClosedByPage(sock[k]) \in Socket /\ ClosedByPage(sock[k]).state = "closed"
  BY <1>6, ClosedTyped
<1> HIDE DEF new
<1>8. sock' \in [Socks -> Socket]
  <2>1. sock' = [k \in Socks |-> sock'[k]]
    BY DEF ConnectTo
  <2>2. \A k \in Socks : sock'[k] \in Socket
    BY <1>4, <1>5, <1>6, <1>7
  <2> QED
    BY <2>1, <2>2
<1>9. \A k \in Socks : Open(k)' <=> k = s
  <2> TAKE k \in Socks
  <2>1. CASE k = s
    BY <2>1, <1>4, <1>5 DEF Open
  <2>2. CASE k # s
    BY <2>2, <1>5, <1>7 DEF Open, OpenIsCurrent
  <2> QED
    BY <2>1, <2>2
<1> QED
  BY <1>2, <1>3, <1>8, <1>9 DEF OnePathToServer

\* A step that changes no readyState, mount, timer or current socket keeps the path.
LEMMA SamePath ==
  ASSUME OnePathToServer,
         page'.mounted = page.mounted, page'.timer = page.timer, page'.cur = page.cur,
         \A s \in Socks : sock'[s].state = sock[s].state
  PROVE  OnePathToServer'
<1>1. \A s \in Socks : Open(s)' <=> Open(s)
  BY DEF Open
<1> QED
  BY <1>1 DEF OnePathToServer

PathInv == ClientTypeOK /\ OnePathToServer

LEMMA PathInit == ClientInit => PathInv
<1> SUFFICES ASSUME ClientInit PROVE PathInv
  OBVIOUS
<1>1. Gone \in Socket /\ Gone.state = "closed"
  BY DEF Gone, Socket
<1>2. NewPage \in Page /\ ~NewPage.mounted /\ ~NewPage.timer
  BY DEF NewPage, Page
<1>3. ClientTypeOK
  BY <1>1, <1>2 DEF ClientInit, ClientTypeOK
<1>4. \A s \in Socks : ~Open(s)
  BY <1>1 DEF ClientInit, Open
<1> QED
  BY <1>2, <1>3, <1>4 DEF PathInv, OnePathToServer, ClientInit

LEMMA PathPage ==
  ASSUME PathInv, NEW s \in Socks, PageStep(s) \/ Mount(s) \/ Dispatch(s) \/ Unmount
  PROVE  PathInv'
<1> USE DEF PathInv
<1>0. OpenIsCurrent /\ TimerOrSocket /\ UnmountedHasNone
  BY PathParts
<1>1. /\ page \in Page /\ sock \in [Socks -> Socket] /\ sock[s] \in Socket
      /\ run \in [seq : Nat, end : {"no", "won", "timeout"}] /\ faults \in Nat
  BY DEF ClientTypeOK
<1>2. Gone \in Socket /\ Gone.state = "closed" /\ Gone.srv = "gone"
  BY DEF Gone, Socket
<1>3. CASE Opened(s)
  <2>1. sock' \in [Socks -> Socket]
    BY <1>1, <1>3 DEF Opened, Socket
  <2>2. \A k \in Socks : Open(k)' <=> Open(k)
    BY <1>1, <1>3 DEF Opened, Open, Socket
  <2> QED
    BY <1>1, <1>3, <2>1, <2>2 DEF Opened, ClientTypeOK, OnePathToServer
<1>4. CASE Receive(s)
  <2>1. PICK m \in Message : /\ m = Head(sock[s].down)
                             /\ ReceiveState(s, m) \/ ReceiveGap(m) \/ ReceiveAck(s, m) \/ ReceiveWin(s, m)
    BY <1>1, <1>4 DEF Receive, Socket
  <2>2. run' = run /\ faults' = faults /\ sock[s].down # <<>> /\ Open(s)
    BY <1>4 DEF Receive, Open
  <2>3. Tail(sock[s].down) \in Seq(Message)
    BY <1>1, <2>2 DEF Socket
  <2>4. ASSUME Received(s)
        PROVE  /\ sock' \in [Socks -> Socket]
               /\ \A k \in Socks : sock'[k].state = sock[k].state
    BY <1>1, <2>3, <2>4 DEF Received, Socket
  <2>5. CASE ReceiveState(s, m)
    <3>1. page' \in Page /\ page'.mounted = page.mounted /\ page'.timer = page.timer /\ page'.cur = page.cur
      BY <1>1, <2>1, <2>5 DEF ReceiveState, Page, Message
    <3> QED
      BY <1>1, <2>2, <2>4, <2>5, <3>1, SamePath DEF ReceiveState, ClientTypeOK
  <2>6. CASE ReceiveAck(s, m)
    <3>1. page' \in Page /\ page'.mounted = page.mounted /\ page'.timer = page.timer /\ page'.cur = page.cur
      BY <1>1, <2>6 DEF ReceiveAck, Page
    <3> QED
      BY <1>1, <2>2, <2>4, <2>6, <3>1, SamePath DEF ReceiveAck, ClientTypeOK
  <2>7. CASE ReceiveWin(s, m)
    <3>1. page' \in Page /\ page'.mounted = page.mounted /\ page'.timer = page.timer /\ page'.cur = page.cur
      BY <1>1, <2>1, <2>7 DEF ReceiveWin, Page, Message
    <3> QED
      BY <1>1, <2>2, <2>4, <2>7, <3>1, SamePath DEF ReceiveWin, ClientTypeOK
  <2>8. CASE ReceiveGap(m)
    <3>1. PICK n \in Socks : ConnectTo(n, [page EXCEPT !.wsSeq = 0], 0)
      BY <2>8 DEF ReceiveGap
    <3>2. page.mounted
      BY <1>0, <2>2 DEF UnmountedHasNone
    <3>3. [page EXCEPT !.wsSeq = 0] \in Page /\ [page EXCEPT !.wsSeq = 0].mounted
      BY <1>1, <3>2 DEF Page
    <3> QED
      BY <1>0, <1>1, <2>2, <3>1, <3>3, ConnectPath DEF ClientTypeOK
  <2> QED
    BY <2>1, <2>5, <2>6, <2>7, <2>8
<1>5. CASE SocketClosed(s)
  <2>1. page' = [page EXCEPT !.shows = "reconnecting", !.timer = TRUE] /\ page' \in Page
    BY <1>1, <1>5 DEF SocketClosed, Page
  <2>2. page.mounted /\ page.cur = s
    BY <1>0, <1>5 DEF SocketClosed, UnmountedHasNone, OpenIsCurrent
  <2>3. page'.mounted /\ page'.timer
    BY <1>1, <2>1, <2>2 DEF Page
  <2>4. sock' \in [Socks -> Socket] /\ \A k \in Socks : ~Open(k)'
    BY <1>0, <1>1, <1>2, <1>5, <2>2 DEF SocketClosed, Open, OpenIsCurrent
  <2> QED
    BY <1>1, <1>5, <2>1, <2>3, <2>4 DEF SocketClosed, ClientTypeOK, OnePathToServer
<1>6. CASE TimerFires(s)
  <2>1. page.mounted /\ page.wsSeq \in Nat
    BY <1>0, <1>1, <1>6 DEF TimerFires, UnmountedHasNone, Page
  <2>2. ConnectTo(s, page, page.wsSeq) /\ UNCHANGED <<run, faults>>
    BY <1>6 DEF TimerFires
  <2> QED
    BY <1>0, <1>1, <2>1, <2>2, ConnectPath DEF ClientTypeOK
<1>7. CASE Mount(s)
  <2>1. [NewPage EXCEPT !.mounted = TRUE] \in Page /\ [NewPage EXCEPT !.mounted = TRUE].mounted
    BY DEF NewPage, Page
  <2>2. ConnectTo(s, [NewPage EXCEPT !.mounted = TRUE], 0) /\ UNCHANGED <<run, faults>>
    BY <1>7 DEF Mount
  <2> QED
    BY <1>0, <1>1, <2>1, <2>2, ConnectPath DEF ClientTypeOK
<1>8. CASE Dispatch(s)
  <2>1. sock' \in [Socks -> Socket] /\ \A k \in Socks : sock'[k].state = sock[k].state
    BY <1>1, <1>8 DEF Dispatch, Socket
  <2> QED
    BY <1>1, <1>8, <2>1, SamePath DEF Dispatch, ClientTypeOK
<1>9. CASE Unmount
  <2>1. NewPage \in Page /\ ~NewPage.mounted /\ ~NewPage.timer
    BY DEF NewPage, Page
  <2>2. \A k \in Socks : ClosedByPage(sock[k]) \in Socket /\ ClosedByPage(sock[k]).state = "closed"
    BY <1>1, ClosedTyped DEF ClientTypeOK
  <2>3. \A k \in Socks : sock'[k] \in Socket /\ ~Open(k)'
    BY <1>0, <1>1, <1>9, <2>2 DEF Unmount, Open, OpenIsCurrent
  <2>4. sock' \in [Socks -> Socket]
    BY <1>9, <2>3 DEF Unmount
  <2> QED
    BY <1>1, <1>9, <2>1, <2>3, <2>4 DEF Unmount, ClientTypeOK, OnePathToServer
<1> QED
  BY <1>3, <1>4, <1>5, <1>6, <1>7, <1>8, <1>9 DEF PageStep

LEMMA PathServer ==
  ASSUME PathInv, NEW s \in Socks, ServerStep(s) \/ Break(s) \/ Tick \/ LastTick
  PROVE  PathInv'
<1> USE DEF PathInv
<1>1. /\ page \in Page /\ sock \in [Socks -> Socket]
      /\ run \in [seq : Nat, end : {"no", "won", "timeout"}] /\ faults \in Nat
      /\ \A k \in Socks : sock[k] \in Socket
  BY DEF ClientTypeOK
<1>2. run.seq + 1 \in Nat
  BY <1>1
<1>3. SUFFICES /\ page' = page /\ faults' \in Nat
               /\ run' \in [seq : Nat, end : {"no", "won", "timeout"}]
               /\ sock' \in [Socks -> Socket]
               /\ \A k \in Socks : sock'[k].state = sock[k].state
  BY <1>1, SamePath DEF ClientTypeOK
<1>4. CASE Hello(s)
  <2>1. \A k \in Socks : sock'[k] \in Socket /\ sock'[k].state = sock[k].state
    <3> TAKE k \in Socks
    <3>1. CASE k = s
      BY <1>1, <1>4, <3>1, WelcomeTyped DEF Hello
    <3>2. CASE k # s
      BY <1>1, <1>4, <3>2 DEF Hello, Socket
    <3> QED
      BY <3>1, <3>2
  <2> QED
    BY <1>1, <1>4, <2>1 DEF Hello
<1>5. CASE Subscribe(s)
  BY <1>1, <1>5 DEF Subscribe, Socket
<1>6. CASE Apply(s)
  <2>1. CASE run.end = "no" /\ run' = [run EXCEPT !.seq = @ + 1]
    <3>1. PICK k \in Deltas(sock[s], run.seq + 1, "action") : sock' = [sock EXCEPT ![s] = [k EXCEPT !.up = FALSE]]
      BY <1>6, <2>1 DEF Apply
    <3>2. k \in Socket /\ k.state = sock[s].state
      BY <1>1, <1>2, <3>1, DeltasTyped
    <3>3. [k EXCEPT !.up = FALSE] \in Socket /\ [k EXCEPT !.up = FALSE].state = sock[s].state
      BY <3>2 DEF Socket
    <3> QED
      BY <1>1, <1>6, <2>1, <3>1, <3>3 DEF Apply
  <2>2. CASE sock' = [sock EXCEPT ![s].srv = "gone"] /\ UNCHANGED run
    <3>1. [sock[s] EXCEPT !.srv = "gone"] \in Socket /\ page' = page /\ faults' = faults
          /\ [sock[s] EXCEPT !.srv = "gone"].state = sock[s].state
      BY <1>1, <1>6 DEF Apply, Socket
    <3> QED BY <1>1, <2>2, <3>1, SMTT(30)
  <2> QED
    BY <1>6, <2>1, <2>2 DEF Apply
<1>7. CASE ServerSees(s)
  <2>1. Gone \in Socket /\ Gone.state = "closed"
    BY DEF Gone, Socket
  <2>2. sock[s].state = "closed" /\ sock' = [sock EXCEPT ![s] = Gone] /\ UNCHANGED <<page, run, faults>>
    BY <1>7 DEF ServerSees, Open
  <2> QED
    BY <1>1, <2>1, <2>2
<1>8. CASE Break(s)
  <2>1. [sock[s] EXCEPT !.srv = "gone", !.down = <<>>] \in Socket
    <3> DEFINE none == <<>>
    <3>1. none \in Seq(Message)
      BY NoMessages
    <3> HIDE DEF none
    <3>2. [sock[s] EXCEPT !.srv = "gone", !.down = none] \in Socket
      BY <1>1, <3>1 DEF Socket
    <3> QED
      BY <3>2 DEF none
  <2>2. sock' = [sock EXCEPT ![s] = [sock[s] EXCEPT !.srv = "gone", !.down = <<>>]]
    BY <1>1, <1>8 DEF Break
  <2>3. [sock[s] EXCEPT !.srv = "gone", !.down = <<>>].state = sock[s].state
    BY <1>1 DEF Socket
  <2> QED
    BY <1>1, <1>8, <2>1, <2>2, <2>3 DEF Break
<1>9. CASE Tick
  <2>1. CASE UNCHANGED sock
    BY <1>1, <1>9, <2>1 DEF Tick
  <2>2. CASE \E t \in Socks : \E k \in Deltas(sock[t], run.seq + 1, "tick") : sock' = [sock EXCEPT ![t] = k]
    <3>0. PICK t \in Socks : \E k \in Deltas(sock[t], run.seq + 1, "tick") : sock' = [sock EXCEPT ![t] = k]
      BY <2>2
    <3>1. PICK k \in Deltas(sock[t], run.seq + 1, "tick") : sock' = [sock EXCEPT ![t] = k]
      BY <3>0
    <3>2. k \in Socket /\ k.state = sock[t].state
      BY <1>1, <1>2, <3>1, DeltasTyped
    <3> QED
      BY <1>1, <1>9, <3>1, <3>2 DEF Tick
  <2> QED
    BY <1>9, <2>1, <2>2 DEF Tick
<1>10. CASE LastTick
  <2>1. PICK end \in {"won", "timeout"} :
          /\ run' = [seq |-> run.seq + 1, end |-> end]
          /\ sock' = [k \in Socks |->
               IF sock[k].srv = "live"
               THEN Sent(sock[k], Append(sock[k].down, [Msg("win_update", 0) EXCEPT !.won = (end = "won")]))
               ELSE [sock[k] EXCEPT !.missed = (sock[k].srv = "serving")]]
    BY <1>10 DEF LastTick
  <2>2. \A k \in Socks : sock'[k] \in Socket /\ sock'[k].state = sock[k].state
    <3> TAKE k \in Socks
    <3> DEFINE w == [Msg("win_update", 0) EXCEPT !.won = (end = "won")]
    <3>0. Msg("win_update", 0) \in Message
      BY MsgTyped
    <3>1. w \in Message
      BY <3>0 DEF Message
    <3> HIDE DEF w
    <3>2. Append(sock[k].down, w) \in Seq(Message)
      BY <1>1, <3>1 DEF Socket
    <3>3. CASE sock[k].srv = "live"
      BY <1>1, <2>1, <3>2, <3>3, SentTyped DEF w
    <3>4. CASE sock[k].srv # "live"
      BY <1>1, <2>1, <3>4 DEF Socket
    <3> QED
      BY <3>3, <3>4
  <2> QED
    BY <1>1, <1>2, <1>10, <2>1, <2>2 DEF LastTick
<1> QED
  BY <1>4, <1>5, <1>6, <1>7, <1>8, <1>9, <1>10 DEF ServerStep

LEMMA PathNext == PathInv /\ [ClientNext]_clientVars => PathInv'
<1> SUFFICES ASSUME PathInv, [ClientNext]_clientVars PROVE PathInv'
  OBVIOUS
<1>1. CASE UNCHANGED clientVars
  BY <1>1 DEF clientVars, PathInv, ClientTypeOK, OnePathToServer, Open
<1>2. CASE \E s \in Socks : PageStep(s) \/ Mount(s) \/ Dispatch(s)
  BY <1>2, PathPage
<1>3. CASE \E s \in Socks : ServerStep(s) \/ Break(s)
  BY <1>3, PathServer
<1>4. CASE Unmount \/ Tick \/ LastTick
  BY <1>4, PathPage, PathServer, SockAssumption
<1> QED BY <1>1, <1>2, <1>3, <1>4 DEF ClientNext

\* One path to the server: a page of useWs has either one socket or an armed timer,
\* whatever order backoff, forced reconnects, unmounts and the server's closes come in.
THEOREM PageHasOnePath == ClientSpec => []OnePathToServer
<1>1. ClientInit => PathInv
  BY PathInit
<1>2. PathInv /\ [ClientNext]_clientVars => PathInv'
  BY PathNext
<1> QED
  BY <1>1, <1>2, PTL DEF ClientSpec, PathInv

-----------------------------------------------------------------------------
(***************************************************************************)
(* The view of a page never goes back                                      *)
(***************************************************************************)

\* Nothing on its way is ahead of r; a snapshot is not older than the view n,
\* and nothing but the hello_ack comes before it.
QueueOK(q, n, r) ==
  \A i \in 1..Len(q) :
    /\ q[i].seq <= r
    /\ q[i].type = "snapshot" =>
         n <= q[i].seq /\ \A j \in 1..(i - 1) : q[j].type = "hello_ack"

ViewInv ==
  /\ page.seq <= run.seq
  /\ \A s \in Socks : Open(s) => QueueOK(sock[s].down, page.seq, run.seq)

\* The queue of a fresh connection.
LEMMA WelcomeOrder ==
  ASSUME ClientTypeOK, page.seq <= run.seq
  PROVE  QueueOK(<<Msg("hello_ack", 0), Msg("snapshot", run.seq)>>, page.seq, run.seq)
<1> DEFINE ack == Msg("hello_ack", 0)
           snap == Msg("snapshot", run.seq)
<1>1. ack.seq = 0 /\ ack.type = "hello_ack" /\ snap.seq = run.seq /\ snap.type = "snapshot"
  BY DEF Msg
<1>2. run.seq \in Nat
  BY DEF ClientTypeOK
<1> DEFINE q == <<ack, snap>>
<1>3. q = <<Msg("hello_ack", 0), Msg("snapshot", run.seq)>>
  OBVIOUS
<1> HIDE DEF ack, snap
<1>4. Len(q) = 2 /\ q[1] = ack /\ q[2] = snap
  OBVIOUS
<1> HIDE DEF q
<1>5. QueueOK(q, page.seq, run.seq)
  BY <1>1, <1>2, <1>4 DEF QueueOK
<1> QED BY <1>3, <1>5

\* Taking a message off the front.
LEMMA TailOrder ==
  ASSUME NEW q \in Seq(Message), q # <<>>, NEW n \in Nat, NEW last \in Nat, QueueOK(q, n, last)
  PROVE  QueueOK(Tail(q), n, last)
<1>1. Len(q) \in Nat \ {0} /\ Len(Tail(q)) = Len(q) - 1
  OBVIOUS
<1>2. \A i \in 1..(Len(q) - 1) : Tail(q)[i] = q[i + 1] /\ i + 1 \in 1..Len(q)
  BY <1>1
<1> SUFFICES ASSUME NEW i \in 1..(Len(q) - 1)
             PROVE  /\ Tail(q)[i].seq <= last
                    /\ Tail(q)[i].type = "snapshot" =>
                         /\ n <= Tail(q)[i].seq
                         /\ \A j \in 1..(i - 1) : Tail(q)[j].type = "hello_ack"
  BY <1>1 DEF QueueOK
<1>3. \A j \in 1..(i - 1) : Tail(q)[j] = q[j + 1] /\ j + 1 \in 1..((i + 1) - 1)
  BY <1>1, <1>2
<1> QED BY <1>2, <1>3 DEF QueueOK

\* Behind anything but the hello_ack there is no snapshot, so what the page takes does
\* not make the rest of its queue old.
LEMMA TailAnyView ==
  ASSUME NEW q \in Seq(Message), q # <<>>, NEW n \in Nat, NEW last \in Nat, QueueOK(q, n, last),
         Head(q).type # "hello_ack", NEW k \in Nat
  PROVE  QueueOK(Tail(q), k, last)
<1>1. Len(q) \in Nat \ {0} /\ Len(Tail(q)) = Len(q) - 1 /\ Head(q) = q[1]
  OBVIOUS
<1>2. \A i \in 1..(Len(q) - 1) : Tail(q)[i] = q[i + 1] /\ i + 1 \in 1..Len(q)
  BY <1>1
<1>3. ASSUME NEW i \in 1..(Len(q) - 1)
      PROVE  Tail(q)[i].seq <= last /\ Tail(q)[i].type # "snapshot"
  <2>1. 1 \in 1..((i + 1) - 1)
    OBVIOUS
  <2> QED BY <1>1, <1>2, <2>1 DEF QueueOK
<1> QED BY <1>1, <1>3 DEF QueueOK

\* A message the server adds at the end.
LEMMA AppendOrder ==
  ASSUME NEW q \in Seq(Message), NEW n \in Nat, NEW last \in Nat, QueueOK(q, n, last),
         NEW m \in Message,
         m.type # "snapshot", m.seq <= last
  PROVE  QueueOK(Append(q, m), n, last)
<1>1. Len(q) \in Nat /\ Len(Append(q, m)) = Len(q) + 1 /\ Append(q, m)[Len(q) + 1] = m
  OBVIOUS
<1>2. \A i \in 1..Len(q) : Append(q, m)[i] = q[i]
  OBVIOUS
<1> HIDE DEF QueueOK
<1> DEFINE a == Append(q, m)
<1> HIDE DEF a
<1>3. ASSUME NEW i \in 1..(Len(q) + 1)
      PROVE  /\ a[i].seq <= last
             /\ a[i].type = "snapshot" =>
                  n <= a[i].seq /\ \A j \in 1..(i - 1) : a[j].type = "hello_ack"
  <2>1. CASE i = Len(q) + 1
    BY <1>1, <2>1 DEF a
  <2>2. CASE i \in 1..Len(q)
    <3>1. a[i] = q[i] /\ \A j \in 1..(i - 1) : a[j] = q[j]
      BY <1>1, <1>2, <2>2 DEF a
    <3> QED BY <2>2, <3>1 DEF QueueOK
  <2> QED BY <1>1, <2>1, <2>2
<1> QED BY <1>1, <1>3 DEF QueueOK, a

\* Two deltas that change places.
LEMMA WiresOrder ==
  ASSUME NEW q \in Seq(Message), NEW n \in Nat, NEW last \in Nat, QueueOK(q, n, last),
         NEW m \in Message, IsDelta(m),
         m.seq <= last, NEW w \in Wires(q, m)
  PROVE  QueueOK(w, n, last)
<1>1. CASE w = Append(q, m)
  BY <1>1, AppendOrder DEF IsDelta
<1>2. CASE q # <<>> /\ Last(q).type \in {"tick", "action"} /\ w = Front(q) \o <<m, Last(q)>>
  <2> DEFINE k == Len(q) - 1
             p == Front(q)
             r == Append(p, m)
  <2>1. k \in Nat /\ Len(q) = k + 1 /\ Last(q) = q[k + 1] /\ Last(q) \in Message
    BY <1>2 DEF Last
  <2>2. p \in Seq(Message) /\ Len(p) = k /\ \A i \in 1..k : p[i] = q[i]
    BY <2>1 DEF Front
  <2>3. QueueOK(p, n, last)
    <3> HIDE DEF p, k
    <3> SUFFICES ASSUME NEW i \in 1..k
                 PROVE  /\ p[i].seq <= last
                        /\ p[i].type = "snapshot" =>
                             n <= p[i].seq /\ \A j \in 1..(i - 1) : p[j].type = "hello_ack"
      BY <2>2 DEF QueueOK
    <3>1. i \in 1..Len(q) /\ \A j \in 1..(i - 1) : p[j] = q[j]
      BY <2>1, <2>2
    <3> QED BY <2>2, <3>1 DEF QueueOK
  <2>4. w = Append(r, Last(q))
    BY <1>2, <2>1, <2>2
  <2> HIDE DEF p
  <2>5. r \in Seq(Message) /\ QueueOK(r, n, last)
    BY <2>2, <2>3, AppendOrder DEF IsDelta
  <2>6. Last(q).seq <= last /\ Last(q).type # "snapshot"
    BY <1>2, <2>1 DEF QueueOK
  <2> HIDE DEF r, k
  <2> QED BY <2>1, <2>4, <2>5, <2>6, AppendOrder
<1> QED BY <1>1, <1>2 DEF Wires

LEMMA EmptyOrder ==
  ASSUME NEW n, NEW last
  PROVE  QueueOK(<<>>, n, last)
BY DEF QueueOK

\* The run only goes on.
LEMMA LaterOrder ==
  ASSUME NEW q \in Seq(Message), NEW n, NEW last \in Nat, QueueOK(q, n, last),
         NEW later \in Nat, last <= later
  PROVE  QueueOK(q, n, later)
<1>1. \A i \in 1..Len(q) : q[i] \in Message
  OBVIOUS
<1>2. \A i \in 1..Len(q) : q[i].seq \in Nat
  BY <1>1 DEF Message
<1> QED BY <1>2 DEF QueueOK

\* What the server sends on a connection: nothing, or what it wrote.
LEMMA SentOrder ==
  ASSUME NEW k \in Socket, NEW q, NEW n, NEW last, QueueOK(q, n, last)
  PROVE  QueueOK(Sent(k, q).down, n, last)
<1>1. Sent(k, q).down = q \/ Sent(k, q).down = <<>>
  BY DEF Sent, Socket
<1> QED BY <1>1, EmptyOrder

LEMMA DeltasOrder ==
  ASSUME ClientTypeOK, NEW k \in Socket, NEW n \in Nat, NEW last \in Nat, QueueOK(k.down, n, last),
         NEW type \in {"tick", "action"}, NEW seq \in Nat, seq <= last,
         NEW d \in Deltas(k, seq, type)
  PROVE  QueueOK(d.down, n, last)
<1>1. CASE d = [k EXCEPT !.srv = "gone"]
  BY <1>1 DEF Socket
<1>2. CASE \E q \in Wires(k.down, Msg(type, seq)) : d = [Sent(k, q) EXCEPT !.last = seq]
  <2>1. PICK q \in Wires(k.down, Msg(type, seq)) : d = [Sent(k, q) EXCEPT !.last = seq]
    BY <1>2
  <2>2. PICK m : m = Msg(type, seq)
    OBVIOUS
  <2>3. m \in Message /\ IsDelta(m) /\ m.seq = seq
    BY <2>2, MsgTyped DEF Msg, IsDelta
  <2>4. q \in Seq(Message) /\ k.down \in Seq(Message)
    BY <2>1, <2>2, <2>3, WiresTyped DEF Socket
  <2>5. Sent(k, q) \in Socket
    BY <2>4, SentTyped
  <2>6. d.down = Sent(k, q).down
    BY <2>1, <2>5 DEF Socket
  <2>7. QueueOK(q, n, last)
    BY <2>1, <2>2, <2>3, <2>4, WiresOrder
  <2> QED BY <2>6, <2>7, SentOrder
<1> QED BY <1>1, <1>2 DEF Deltas

ViewStays == page.mounted /\ page'.mounted => page'.seq >= page.seq

\* A step that keeps the view and, of every open socket, leaves the queue in order.
LEMMA ViewKept ==
  ASSUME PathInv, PathInv', ViewInv, page'.seq = page.seq, run.seq <= run'.seq,
         \A k \in Socks : Open(k)' => QueueOK(sock'[k].down, page.seq, run'.seq)
  PROVE  ViewInv' /\ ViewStays
<1>1. page.seq \in Nat /\ run.seq \in Nat /\ run'.seq \in Nat
  BY DEF PathInv, ClientTypeOK, Page
<1> QED BY <1>1 DEF ViewInv, ViewStays

\* A connect leaves the view alone and starts with an empty queue.
LEMMA ViewConnect ==
  ASSUME PathInv, PathInv', ViewInv, NEW s \in Socks, NEW p \in Page, NEW resume \in Nat,
         ConnectTo(s, p, resume), p.seq <= run.seq, run' = run
  PROVE  ViewInv' /\ page'.seq = p.seq
<1>1. page'.seq = p.seq /\ page'.cur = s
  BY DEF ConnectTo, Page
<1> DEFINE new == [Gone EXCEPT !.state = "connecting", !.srv = "none", !.resume = resume]
<1>2. new.down = <<>>
  BY DEF Gone
<1>3. sock'[s] = new
  BY DEF ConnectTo
<1> HIDE DEF new
<1>4. \A k \in Socks : Open(k)' => k = s
  BY <1>1 DEF PathInv, OnePathToServer
<1>5. \A k \in Socks : Open(k)' => QueueOK(sock'[k].down, page'.seq, run'.seq)
  BY <1>2, <1>3, <1>4, EmptyOrder
<1> QED BY <1>1, <1>5 DEF ViewInv

\* A message the page takes.
LEMMA ViewReceive ==
  ASSUME PathInv, PathInv', ViewInv, NEW s \in Socks, Receive(s)
  PROVE  ViewInv' /\ ViewStays
<1>1. /\ page \in Page /\ sock \in [Socks -> Socket] /\ sock[s] \in Socket /\ run.seq \in Nat
      /\ page.seq \in Nat /\ Open(s)
  BY DEF PathInv, ClientTypeOK, Page, Receive, Open
<1>2. PICK q, m, n, last :
        q = sock[s].down /\ m = Head(q) /\ n = page.seq /\ last = run.seq
  OBVIOUS
<1>3. /\ q \in Seq(Message) /\ q # <<>> /\ m \in Message /\ run' = run
      /\ QueueOK(q, n, last) /\ n \in Nat /\ last \in Nat
      /\ ReceiveState(s, m) \/ ReceiveGap(m) \/ ReceiveAck(s, m) \/ ReceiveWin(s, m)
  BY <1>1, <1>2 DEF Receive, ViewInv, Socket
<1>4. \A k \in Socks : Open(k) => k = s
  BY <1>1 DEF PathInv, OnePathToServer
<1>5. ASSUME Received(s)
      PROVE  \A k \in Socks : Open(k)' => k = s /\ sock'[k].down = Tail(q)
  <2>1. sock' = [sock EXCEPT ![s] = [sock[s] EXCEPT !.down = Tail(q)]]
    BY <1>1, <1>2, <1>5 DEF Received
  <2>2. sock'[s] = [sock[s] EXCEPT !.down = Tail(q)] /\ \A k \in Socks \ {s} : sock'[k] = sock[k]
    BY <1>1, <2>1
  <2>3. sock'[s].down = Tail(q)
    BY <1>1, <2>2 DEF Socket
  <2> QED BY <1>4, <2>2, <2>3 DEF Open
<1>6. CASE ReceiveState(s, m)
  <2>1. m.type \in {"snapshot", "tick", "action"}
    BY <1>6 DEF ReceiveState, IsDelta
  <2>2. n <= m.seq /\ m.seq <= last /\ m.seq \in Nat
    <3>1. m = q[1] /\ 1 \in 1..Len(q)
      BY <1>2, <1>3
    <3>2. m.seq <= last /\ (m.type = "snapshot" => n <= m.seq) /\ m.seq \in Nat
      BY <1>3, <3>1 DEF QueueOK, Message
    <3>3. m.type # "snapshot" => m.seq = n + 1
      BY <1>2, <1>6 DEF ReceiveState
    <3> QED BY <1>3, <3>2, <3>3
  <2>3. page'.seq = m.seq
    BY <1>1, <1>6 DEF ReceiveState, Page
  <2>4. QueueOK(Tail(q), m.seq, last)
    BY <1>2, <1>3, <2>1, <2>2, TailAnyView
  <2>5. \A k \in Socks : Open(k)' => QueueOK(sock'[k].down, page'.seq, run'.seq)
    BY <1>2, <1>3, <1>5, <1>6, <2>3, <2>4 DEF ReceiveState
  <2> QED BY <1>2, <1>3, <2>2, <2>3, <2>5 DEF ViewInv, ViewStays
<1>7. CASE ReceiveAck(s, m) \/ ReceiveWin(s, m)
  <2>1. page'.seq = page.seq /\ Received(s)
    BY <1>1, <1>7 DEF ReceiveAck, ReceiveWin, Page
  <2>2. QueueOK(Tail(q), n, last)
    BY <1>3, TailOrder
  <2> QED BY <1>1, <1>2, <1>3, <1>5, <2>1, <2>2, ViewKept
<1>8. CASE ReceiveGap(m)
  <2>0. PICK p : p = [page EXCEPT !.wsSeq = 0]
    OBVIOUS
  <2>1. PICK t \in Socks : ConnectTo(t, p, 0)
    BY <1>8, <2>0 DEF ReceiveGap
  <2>2. p \in Page /\ p.seq = page.seq
    BY <1>1, <2>0 DEF Page
  <2>3. ViewInv' /\ page'.seq = page.seq
    BY <1>3, <2>1, <2>2, ViewConnect DEF ViewInv
  <2> QED BY <1>1, <2>3 DEF ViewStays
<1> QED BY <1>3, <1>6, <1>7, <1>8

\* The other steps of the page.
LEMMA ViewPage ==
  ASSUME PathInv, PathInv', ViewInv, NEW s \in Socks,
         PageStep(s) \/ Mount(s) \/ Dispatch(s) \/ Unmount
  PROVE  ViewInv' /\ ViewStays
<1>1. /\ page \in Page /\ sock \in [Socks -> Socket] /\ sock[s] \in Socket /\ run.seq \in Nat
      /\ page.seq \in Nat /\ page.seq <= run.seq
  BY DEF PathInv, ClientTypeOK, Page, ViewInv
<1>2. CASE Receive(s)
  BY <1>2, ViewReceive
<1>3. CASE Opened(s) \/ Dispatch(s)
  <2>1. PICK new : /\ sock' = [sock EXCEPT ![s] = new] /\ new.down = sock[s].down
                   /\ Open(s) /\ page' = page /\ run' = run
    <3>1. CASE Opened(s)
      <4>1. [sock[s] EXCEPT !.state = "open", !.srv = "hello"].down = sock[s].down
        BY <1>1 DEF Socket
      <4> QED BY <1>1, <3>1, <4>1 DEF Opened, Open
    <3>2. CASE Dispatch(s)
      <4>1. [sock[s] EXCEPT !.up = TRUE].down = sock[s].down
        BY <1>1 DEF Socket
      <4> QED BY <1>1, <3>2, <4>1 DEF Dispatch, Open
    <3> QED BY <1>3, <3>1, <3>2
  <2>2. sock'[s].down = sock[s].down /\ \A k \in Socks \ {s} : sock'[k] = sock[k]
    BY <1>1, <2>1
  <2>3. \A k \in Socks : Open(k)' => Open(k) /\ sock'[k].down = sock[k].down
    BY <2>1, <2>2 DEF Open
  <2>4. \A k \in Socks : Open(k)' => QueueOK(sock'[k].down, page.seq, run'.seq)
    BY <2>1, <2>3 DEF ViewInv
  <2> QED BY <1>1, <2>1, <2>4, ViewKept
<1>4. CASE SocketClosed(s)
  <2>1. page'.seq = page.seq /\ run' = run
    BY <1>1, <1>4 DEF SocketClosed, Page
  <2>2. sock'[s] = Gone /\ \A k \in Socks \ {s} : sock'[k] = sock[k] /\ ~Open(k)
    BY <1>1, <1>4 DEF SocketClosed, PathInv, OnePathToServer
  <2>3. \A k \in Socks : ~Open(k)'
    BY <2>2 DEF Open, Gone
  <2> QED BY <1>1, <2>1, <2>3, ViewKept
<1>5. CASE TimerFires(s)
  <2>1. page.wsSeq \in Nat /\ ConnectTo(s, page, page.wsSeq) /\ run' = run
    BY <1>1, <1>5 DEF TimerFires, Page
  <2> QED BY <1>1, <2>1, ViewConnect DEF ViewStays
<1>6. CASE Mount(s)
  <2>1. PICK p : p = [NewPage EXCEPT !.mounted = TRUE]
    OBVIOUS
  <2>2. p \in Page /\ p.seq = 0
    BY <2>1 DEF NewPage, Page
  <2>3. ConnectTo(s, p, 0) /\ run' = run /\ ~page.mounted
    BY <1>6, <2>1 DEF Mount
  <2> QED BY <1>1, <2>2, <2>3, ViewConnect DEF ViewStays
<1>7. CASE Unmount
  <2>1. ~page'.mounted /\ page'.seq = 0 /\ run' = run
    BY <1>7 DEF Unmount, NewPage
  <2>2. \A k \in Socks : ~Open(k)'
    BY <2>1 DEF PathInv, OnePathToServer
  <2> QED BY <1>1, <2>1, <2>2 DEF ViewInv, ViewStays
<1> QED BY <1>2, <1>3, <1>4, <1>5, <1>6, <1>7 DEF PageStep

\* The steps of the server and of the network.
LEMMA ViewServer ==
  ASSUME PathInv, PathInv', ViewInv, NEW s \in Socks,
         ServerStep(s) \/ Break(s) \/ Tick \/ LastTick
  PROVE  ViewInv' /\ ViewStays
<1>1. /\ ClientTypeOK /\ sock \in [Socks -> Socket] /\ run.seq \in Nat /\ run'.seq \in Nat
      /\ page.seq \in Nat /\ page.seq <= run.seq /\ \A k \in Socks : sock[k] \in Socket
  BY DEF PathInv, ClientTypeOK, Page, ViewInv
<1>2. PICK n, old, last : n = page.seq /\ old = run.seq /\ last = run'.seq
  OBVIOUS
<1>3. page' = page /\ last \in {old, old + 1}
  <2>1. page' = page
    BY DEF ServerStep, Hello, Subscribe, Apply, ServerSees, Break, Tick, LastTick
  <2>2. run' = run \/ run'.seq = run.seq + 1
    <3>1. [run EXCEPT !.seq = @ + 1].seq = run.seq + 1
      BY <1>1 DEF ClientTypeOK
    <3>2. CASE Apply(s) \/ Tick
      BY <3>1, <3>2 DEF Apply, Tick
    <3>3. CASE LastTick
      <4>1. PICK end : run' = [seq |-> run.seq + 1, end |-> end]
        BY <3>3 DEF LastTick
      <4> QED BY <4>1
    <3>4. CASE Hello(s) \/ Subscribe(s) \/ ServerSees(s) \/ Break(s)
      BY <3>4 DEF Hello, Subscribe, ServerSees, Break
    <3> QED BY <3>2, <3>3, <3>4 DEF ServerStep
  <2> QED BY <1>1, <1>2, <2>1, <2>2
<1>4. n \in Nat /\ old \in Nat /\ last \in Nat /\ old <= last /\ n <= last
  BY <1>1, <1>2, <1>3
<1>5. \A k \in Socks : Open(k) => QueueOK(sock[k].down, n, last)
  <2> SUFFICES ASSUME NEW k \in Socks, Open(k) PROVE QueueOK(sock[k].down, n, last)
    OBVIOUS
  <2>1. sock[k].down \in Seq(Message) /\ QueueOK(sock[k].down, n, old)
    BY <1>1, <1>2 DEF ViewInv, Socket
  <2> QED BY <1>4, <2>1, LaterOrder
<1>6. SUFFICES ASSUME NEW k \in Socks, Open(k)' PROVE QueueOK(sock'[k].down, n, last)
  BY <1>1, <1>2, <1>3, <1>4, ViewKept
<1>7. CASE sock'[k] = sock[k]
  BY <1>5, <1>6, <1>7 DEF Open
<1>8. ASSUME NEW d, sock'[k] = d, d.state = sock[k].state, d.down = sock[k].down
      PROVE  QueueOK(sock'[k].down, n, last)
  BY <1>5, <1>6, <1>8 DEF Open
<1>9. CASE Hello(s)
  <2>1. CASE k = s
    <3>1. PICK q : q = <<Msg("hello_ack", 0), Msg("snapshot", run.seq)>>
      OBVIOUS
    <3>2. sock'[k] = [Sent(sock[k], q) EXCEPT !.srv = "serving", !.last = run.seq]
      BY <1>9, <2>1, <3>1 DEF Hello, Welcome
    <3>3. sock'[k].down = Sent(sock[k], q).down
      BY <3>2 DEF Sent, Socket
    <3>4. QueueOK(q, n, last)
      <4>1. run' = run
        BY <1>9 DEF Hello
      <4> QED BY <1>1, <1>2, <3>1, <4>1, WelcomeOrder
    <3> QED BY <1>1, <3>3, <3>4, SentOrder
  <2>2. CASE k # s
    <3>1. sock'[k] = sock[k] \/ sock'[k] = [sock[k] EXCEPT !.srv = "gone"]
      BY <1>9, <2>2 DEF Hello
    <3>2. /\ [sock[k] EXCEPT !.srv = "gone"].down = sock[k].down
          /\ [sock[k] EXCEPT !.srv = "gone"].state = sock[k].state
      BY <1>1 DEF Socket
    <3> QED BY <1>7, <1>8, <3>1, <3>2
  <2> QED BY <2>1, <2>2
<1>10. ASSUME NEW t \in Socks, NEW seq \in Nat, seq <= last, NEW type \in {"tick", "action"},
              NEW d \in Deltas(sock[t], seq, type), sock'[t].down = d.down,
              sock'[t].state = d.state, \A j \in Socks \ {t} : sock'[j] = sock[j]
       PROVE  QueueOK(sock'[k].down, n, last)
  <2>1. CASE k = t
    <3>1. d.state = sock[k].state
      BY <1>1, <1>10, <2>1, DeltasTyped
    <3>2. Open(k)
      BY <1>6, <1>10, <2>1, <3>1 DEF Open
    <3> QED BY <1>1, <1>4, <1>5, <1>10, <2>1, <3>2, DeltasOrder
  <2> QED BY <1>7, <1>10, <2>1
<1>11. CASE Apply(s)
  <2>1. CASE sock' = [sock EXCEPT ![s].srv = "gone"]
    <3>1. /\ [sock[s] EXCEPT !.srv = "gone"].down = sock[s].down
          /\ [sock[s] EXCEPT !.srv = "gone"].state = sock[s].state
      BY <1>1 DEF Socket
    <3>2. sock'[k] = IF k = s THEN [sock[s] EXCEPT !.srv = "gone"] ELSE sock[k]
      BY <1>1, <2>1
    <3> QED BY <1>7, <1>8, <3>1, <3>2
  <2>2. CASE /\ run' = [run EXCEPT !.seq = @ + 1]
             /\ \E d \in Deltas(sock[s], run.seq + 1, "action") :
                  sock' = [sock EXCEPT ![s] = [d EXCEPT !.up = FALSE]]
    <3>1. PICK d \in Deltas(sock[s], run.seq + 1, "action") :
                 sock' = [sock EXCEPT ![s] = [d EXCEPT !.up = FALSE]]
      BY <2>2
    <3>2. run.seq + 1 \in Nat /\ run.seq + 1 <= last
      BY <1>1, <1>2, <2>2 DEF ClientTypeOK
    <3>3. d \in Socket
      BY <1>1, <3>1, <3>2, DeltasTyped
    <3>4. sock'[s] = [d EXCEPT !.up = FALSE] /\ \A j \in Socks \ {s} : sock'[j] = sock[j]
      BY <1>1, <3>1
    <3>5. sock'[s].down = d.down /\ sock'[s].state = d.state
      BY <3>3, <3>4 DEF Socket
    <3> QED BY <1>10, <3>1, <3>2, <3>4, <3>5
  <2> QED BY <1>11, <2>1, <2>2 DEF Apply
<1>12. CASE Tick
  <2>1. CASE UNCHANGED sock
    BY <1>7, <2>1
  <2>2. CASE \E t \in Socks : \E d \in Deltas(sock[t], run.seq + 1, "tick") :
               sock' = [sock EXCEPT ![t] = d]
    <3>1. PICK t \in Socks : \E d \in Deltas(sock[t], run.seq + 1, "tick") :
                 sock' = [sock EXCEPT ![t] = d]
      BY <2>2
    <3>2. PICK d \in Deltas(sock[t], run.seq + 1, "tick") : sock' = [sock EXCEPT ![t] = d]
      BY <3>1
    <3>3. run.seq + 1 \in Nat /\ run.seq + 1 <= last
      BY <1>1, <1>2, <1>12 DEF ClientTypeOK, Tick
    <3>4. sock'[t] = d /\ \A j \in Socks \ {t} : sock'[j] = sock[j]
      BY <1>1, <3>2
    <3> QED BY <1>10, <3>2, <3>3, <3>4
  <2> QED BY <1>12, <2>1, <2>2 DEF Tick
<1>13. CASE LastTick
  <2>1. PICK end \in {"won", "timeout"} :
          sock'[k] = IF sock[k].srv = "live"
                     THEN Sent(sock[k], Append(sock[k].down,
                                  [Msg("win_update", 0) EXCEPT !.won = (end = "won")]))
                     ELSE [sock[k] EXCEPT !.missed = (sock[k].srv = "serving")]
    BY <1>13 DEF LastTick
  <2>2. CASE sock[k].srv # "live"
    <3>1. PICK b : b = (sock[k].srv = "serving")
      OBVIOUS
    <3>2. /\ [sock[k] EXCEPT !.missed = b].down = sock[k].down
          /\ [sock[k] EXCEPT !.missed = b].state = sock[k].state
      BY <1>1 DEF Socket
    <3> QED BY <1>8, <2>1, <2>2, <3>1, <3>2
  <2>3. CASE sock[k].srv = "live"
    <3>1. PICK m : m = [Msg("win_update", 0) EXCEPT !.won = (end = "won")]
      OBVIOUS
    <3>2. Msg("win_update", 0) \in Message /\ Msg("win_update", 0).seq = 0
          /\ Msg("win_update", 0).type = "win_update"
      BY <1>1, MsgTyped DEF Msg
    <3>3. m \in Message /\ m.seq = 0 /\ m.type = "win_update"
      BY <3>1, <3>2 DEF Message
    <3>4. sock'[k] = Sent(sock[k], Append(sock[k].down, m)) /\ sock[k].down \in Seq(Message)
      BY <1>1, <2>1, <2>3, <3>1 DEF Socket
    <3>5. Open(k)
      <4>1. Append(sock[k].down, m) \in Seq(Message)
        BY <3>3, <3>4
      <4>2. sock'[k].state = sock[k].state
        BY <1>1, <3>4, <4>1, SentTyped
      <4> QED BY <1>6, <4>2 DEF Open
    <3>6. QueueOK(Append(sock[k].down, m), n, last)
      BY <1>4, <1>5, <3>3, <3>4, <3>5, AppendOrder
    <3> QED BY <1>1, <3>4, <3>6, SentOrder
  <2> QED BY <2>2, <2>3
<1>14. CASE Subscribe(s)
  <2>1. /\ [sock[s] EXCEPT !.srv = "live"].down = sock[s].down
        /\ [sock[s] EXCEPT !.srv = "live"].state = sock[s].state
    BY <1>1 DEF Socket
  <2>2. sock'[k] = IF k = s THEN [sock[s] EXCEPT !.srv = "live"] ELSE sock[k]
    BY <1>1, <1>14 DEF Subscribe
  <2> QED BY <1>7, <1>8, <2>1, <2>2
<1>15. CASE ServerSees(s)
  <2>1. sock'[k] = IF k = s THEN Gone ELSE sock[k]
    BY <1>1, <1>15 DEF ServerSees
  <2>2. k # s
    BY <1>6, <2>1 DEF Open, Gone
  <2> QED BY <1>7, <2>1, <2>2
<1>16. CASE Break(s)
  <2>1. sock'[k] = IF k = s THEN [sock[s] EXCEPT !.srv = "gone", !.down = <<>>] ELSE sock[k]
    BY <1>1, <1>16 DEF Break
  <2>2. [sock[s] EXCEPT !.srv = "gone", !.down = <<>>].down = <<>>
    BY <1>1 DEF Socket
  <2> QED BY <1>7, <2>1, <2>2, EmptyOrder
<1> QED BY <1>9, <1>11, <1>12, <1>13, <1>14, <1>15, <1>16 DEF ServerStep

\* Once the page has a seq, no reconnect, reordering or late message takes its view
\* back (lastSeqRef of use-engine-a): what is on its way on its only open socket is a
\* snapshot that is no older, or deltas of which it takes the next one only.
THEOREM ViewGoesForward == ClientSpec => ViewNeverGoesBack
<1>1. ClientInit => PathInv /\ ViewInv
  <2> SUFFICES ASSUME ClientInit PROVE PathInv /\ ViewInv
    OBVIOUS
  <2>1. page.seq <= run.seq
    BY DEF ClientInit, NewPage
  <2>2. \A s \in Socks : ~Open(s)
    BY DEF ClientInit, Gone, Open
  <2> QED BY <2>1, <2>2, PathInit DEF ViewInv
<1>2. PathInv /\ [ClientNext]_clientVars => PathInv'
  BY PathNext
<1>3. PathInv /\ PathInv' /\ ViewInv /\ [ClientNext]_clientVars => ViewInv' /\ ViewStays
  <2> SUFFICES ASSUME PathInv, PathInv', ViewInv, [ClientNext]_clientVars
               PROVE  ViewInv' /\ ViewStays
    OBVIOUS
  <2>1. CASE UNCHANGED clientVars
    <3>1. page' = page /\ sock' = sock /\ run' = run /\ page.seq \in Nat
      BY <2>1 DEF clientVars, PathInv, ClientTypeOK, Page
    <3> QED BY <3>1 DEF ViewInv, ViewStays, Open
  <2>2. CASE \E s \in Socks : PageStep(s) \/ Mount(s) \/ Dispatch(s)
    BY <2>2, ViewPage
  <2>3. CASE \E s \in Socks : ServerStep(s) \/ Break(s)
    BY <2>3, ViewServer
  <2>4. CASE Unmount \/ Tick \/ LastTick
    BY <2>4, ViewPage, ViewServer, SockAssumption
  <2> QED BY <2>1, <2>2, <2>3, <2>4 DEF ClientNext
<1>4. ViewStays => (page.mounted /\ page.mounted' => page'.seq >= page.seq)
  BY DEF ViewStays
<1> QED BY <1>1, <1>2, <1>3, <1>4, PTL DEF ClientSpec, ViewNeverGoesBack
=============================================================================

----------------------------- MODULE AtomicRun -----------------------------
(***************************************************************************)
(* What the Engine A runtime promises its clients: a run is one sequence of*)
(* ticks and actions, which determines the engine, and every API call takes*)
(* effect at one instant between the moment it is made and the moment it   *)
(* returns.  No map of run states, no mutex, no SQL statement and no tick  *)
(* loop is seen here, and a restart changes nothing but the calls it       *)
(* interrupts.                                                             *)
(*                                                                         *)
(* The promise ends with the first fault the runtime does not mask: once   *)
(* disturbed, anything may be seen.                                        *)
(***************************************************************************)
EXTENDS Naturals, Sequences

CONSTANTS
  Calls, Keys, Reqs,   \* the calls clients make, and what they can send
  None,                \* no action key, no request id
  Known,               \* the actions the room has
  Over(_)              \* whether a run with this history has ended

VARIABLES
  history,     \* the ticks and actions of the run so far
  answers,     \* answers[c]: what call c asked for and was told
  disturbed

vars == <<history, answers, disturbed>>

Asking(op, key, req) == [op |-> op, key |-> key, req |-> req, reply |-> "none", seq |-> 0]
NotMade == Asking("none", None, None)

Init ==
  /\ history = <<>>
  /\ answers = [c \in Calls |-> NotMade]
  /\ disturbed = FALSE

Open(c) == answers[c].op # "none" /\ answers[c].reply = "none"

\* The entries of client request req.
Recorded(req) == {i \in DOMAIN history : history[i].req = req}

Extended(type, key, req) ==
  Append(history, [seq |-> Len(history) + 1, type |-> type, key |-> key, req |-> req])

Ask(c) ==
  /\ answers[c].op = "none"
  /\ \/ \E op \in {"connect", "deltas", "wins"} :
          answers' = [answers EXCEPT ![c] = Asking(op, None, None)]
     \/ \E key \in Keys, req \in Reqs :
          answers' = [answers EXCEPT ![c] = Asking("apply", key, req)]
  /\ UNCHANGED <<history, disturbed>>

\* The clock ticks, until the run is over.
Advance ==
  /\ ~Over(history)
  /\ history' = Extended("tick", None, None)
  /\ UNCHANGED <<answers, disturbed>>

\* An action takes effect: once for each request id, while the call that sent it
\* still waits, and never in a run that is over.
Act(c) ==
  /\ Open(c) /\ answers[c].op = "apply"
  /\ ~Over(history)
  /\ answers[c].key \in Known
  /\ Recorded(answers[c].req) = {}
  /\ history' = Extended("player", answers[c].key, answers[c].req)
  /\ UNCHANGED <<answers, disturbed>>

\* What a call may be told of the run as it is now: a snapshot is up to date, an
\* accepted action is in the run under its seq, a request is in conflict only
\* with another action recorded under its id, and "completed" means over.
Truthful(c, reply, seq) ==
  CASE answers[c].op = "connect" -> reply = "snapshot" /\ seq = Len(history)
    [] answers[c].op = "deltas" -> reply = "closed"
    [] answers[c].op = "wins" -> reply = "subscribed"
    [] answers[c].op = "apply" ->
         \/ /\ reply = "accepted" /\ seq \in Recorded(answers[c].req)
            /\ history[seq].key = answers[c].key
         \/ /\ reply = "conflict"
            /\ \E i \in Recorded(answers[c].req) : history[i].key # answers[c].key
         \/ reply = "completed" /\ Over(history)
    [] OTHER -> FALSE

Told(c, reply, seq) == answers' = [answers EXCEPT ![c].reply = reply, ![c].seq = seq]

Tell(c) ==
  /\ Open(c)
  /\ \E reply \in {"snapshot", "closed", "subscribed", "accepted", "conflict", "completed"},
        seq \in 0..Len(history) : Truthful(c, reply, seq) /\ Told(c, reply, seq)
  /\ UNCHANGED <<history, disturbed>>

\* The process restarts: the calls it was serving get no answer.
Restart ==
  /\ answers' = [c \in Calls |-> IF Open(c) THEN [answers[c] EXCEPT !.reply = "lost"]
                                 ELSE answers[c]]
  /\ UNCHANGED <<history, disturbed>>

Disturb == disturbed'

Next ==
  \/ \E c \in Calls : Ask(c) \/ Act(c) \/ Tell(c)
  \/ Advance
  \/ Restart
  \/ Disturb

Spec == Init /\ [][Next]_vars
=============================================================================

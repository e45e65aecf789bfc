---------------------------- MODULE MCSimEngine ----------------------------
(***************************************************************************)
(* Small rooms for SimEngineLive: up and down drifts, both signs of the    *)
(* rate, a zero rate, events listed out of tick order, actions that        *)
(* compete with events and with each other, win checks of every operator,  *)
(* none, on a missing metric and with an unknown operator.                 *)
(***************************************************************************)
EXTENDS SimEngineLive, TLC

CONSTANT r1

Eff(m, target, rate) == [metric |-> m, target |-> target, rate |-> rate]
Ev(at, effects) == [at |-> at, effects |-> effects]
Check(m, op, v) == [metric |-> m, op |-> op, value |-> v]

Start == ("cpu" :> 4) @@ ("err" :> 0)
Keys == ("scale" :> <<Eff("cpu", 0, 3)>>)
          @@ ("flush" :> <<Eff("err", 1, 1), Eff("cpu", 2, 1), Eff("err", -2, 2)>>)

Room(events, checks) ==
  [initial |-> Start, events |-> events, actions |-> Keys, checks |-> checks]

MCSims ==
  { Room(<<Ev(0, <<Eff("cpu", 9, 2)>>)>>, <<Check("cpu", "<=", 0)>>),
    Room(<<Ev(0, <<Eff("cpu", -1, -2)>>)>>, <<Check("err", "==", -2), Check("cpu", "<", 2)>>),
    Room(<<Ev(2, <<Eff("err", 5, 3)>>), Ev(0, <<Eff("err", -5, 1)>>)>>, <<Check("err", ">", 2)>>),
    Room(<<Ev(1, <<Eff("cpu", 7, 0), Eff("err", 3, 2)>>)>>, <<Check("err", ">=", 3)>>),
    Room(<<>>, <<>>),
    Room(<<Ev(0, <<Eff("err", 2, 1)>>)>>, <<Check("disk", ">", 0)>>),
    Room(<<Ev(0, <<Eff("cpu", 5, 1)>>)>>, <<Check("cpu", "!=", 0)>>) }

MCReqs == {r1}
MCOtherKeys == {"bogus"}
=============================================================================

-------------------------- MODULE MCEngineARuntime --------------------------
(***************************************************************************)
(* A small room for EngineARuntime: one metric that an incident pushes up, *)
(* one action that brings it down and wins, and an action key the room     *)
(* does not know.                                                          *)
(***************************************************************************)
EXTENDS EngineARuntime, TLC

MCSim ==
  [initial |-> "cpu" :> 1,
   events |-> << [at |-> 0, effects |-> << [metric |-> "cpu", target |-> 3, rate |-> 1] >>] >>,
   actions |-> "fix" :> << [metric |-> "cpu", target |-> 0, rate |-> 2] >>,
   checks |-> << [metric |-> "cpu", op |-> "<=", value |-> 0] >>]

Symmetry == Permutations(Calls)
=============================================================================

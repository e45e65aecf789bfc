------------------------- MODULE MCPublishPipeline -------------------------
(***************************************************************************)
(* PublishPipeline for one room with a content (one) that has a metric     *)
(* which is no number, so that roomctl lets it through and the engine      *)
(* refuses it, a sound one (two), a third that lacks the win checks of the *)
(* second, and one of engine B that leaks its hidden tests.  Files of the  *)
(* first and the third mix to the second.                                  *)
(***************************************************************************)
EXTENDS PublishPipeline, TLC

CONSTANTS one, two, unwinnable, leaking

Good(keys) == [state |-> "good", keys |-> keys]
Files(action, effect) ==
  [metadata |-> "A", leak |-> FALSE, scenario |-> Good({}), actions |-> Good(action),
   signals |-> Good({}), win_checks |-> Good({}), simulation |-> Good(effect)]

MCTrim == [k \in {"a", " a", "b"} |-> IF k = " a" THEN "a" ELSE k]
Sound == Files({"a", "b"}, {"a", "b"})
MCHolds == [c \in Contents |->
  CASE c = one -> [Files({" a"}, {"a"}) EXCEPT !.scenario.state = "odd"]
    [] c = two -> Sound
    [] c = leaking -> [Sound EXCEPT !.metadata = "B", !.leak = TRUE]
    [] OTHER -> [Sound EXCEPT !.win_checks.state = "missing"]]

PipelineSymmetry == Permutations(Tools)
=============================================================================

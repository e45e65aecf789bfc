---------------------------- MODULE MCActionLog ----------------------------
(***************************************************************************)
(* ActionLog with appenders that are interchangeable.                      *)
(***************************************************************************)
EXTENDS ActionLog, TLC

Symmetry == Permutations(Appenders) \cup Permutations(Keys) \cup Permutations(Reqs)
=============================================================================

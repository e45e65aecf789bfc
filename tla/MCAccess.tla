------------------------------ MODULE MCAccess ------------------------------
(***************************************************************************)
(* Access for two accounts without a role and a run of each engine:        *)
(* requests, sessions and the accounts are interchangeable.                *)
(***************************************************************************)
EXTENDS Access, TLC

CONSTANTS runA, runB

MCEngineOf == (runA :> "A") @@ (runB :> "B")

AccessSymmetry == Permutations(Accounts) \cup Permutations(Requests) \cup Permutations(Sessions)
=============================================================================

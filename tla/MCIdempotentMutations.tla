----------------------- MODULE MCIdempotentMutations -----------------------
(***************************************************************************)
(* Requests for IdempotentMutations: a run asked for twice, with a blank   *)
(* after the id or, under the same id, by another user, in another room or *)
(* in one that has no version; a version published with and without        *)
(* activation, with a blank after its id, under an id that is no UUID,     *)
(* without a hash, or with a blank hash, slug or changelog; a second       *)
(* version under the id of the first; and a run without an id.             *)
(***************************************************************************)
EXTENDS IdempotentMutations, TLC

CONSTANTS ann, bob, i, padded, malformed, A, B, C, h

Run(user, id, room) ==
  [op |-> "startRun", user |-> user, id |-> id, room |-> room,
   version |-> NoVersion, hash |-> Null, changelog |-> Null, activate |-> FALSE]
Publication(id, version, activate) ==
  [op |-> "publish", user |-> ann, id |-> id, room |-> A,
   version |-> version, hash |-> h, changelog |-> "first", activate |-> activate]

MCPublished == (A :> 9) @@ (B :> 9) @@ (C :> NoVersion) @@ (Blank :> NoVersion)
MCTrim == (i :> i) @@ (padded :> i) @@ (malformed :> malformed) @@ (Null :> Null)

MCRequests ==
  { Run(ann, i, A), Run(ann, padded, A), Run(ann, i, B), Run(ann, i, C), Run(bob, i, A),
    Publication(i, 1, TRUE), Publication(i, 1, FALSE), Publication(i, 2, TRUE),
    Publication(padded, 1, TRUE), Publication(malformed, 1, TRUE),
    [Publication(i, 1, TRUE) EXCEPT !.hash = Null], [Publication(i, 1, TRUE) EXCEPT !.hash = Blank],
    [Publication(i, 1, TRUE) EXCEPT !.changelog = Blank],
    [Publication(i, 1, TRUE) EXCEPT !.room = Blank],
    Run(ann, Null, A) }

Symmetry == Permutations(Calls)
=============================================================================

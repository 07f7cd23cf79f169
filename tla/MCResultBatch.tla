--------------------------- MODULE MCResultBatch ---------------------------
(* Two batches that have one student in common, and one of them a student of *)
(* its own; two calls in flight.                                             *)
EXTENDS ResultBatch, TLC

CONSTANTS c1, c2, b1, b2, s1, s2

MCRoster == b1 :> {s1} @@ b2 :> {s1, s2}

MCMaxApprovals == b1 :> 2 @@ b2 :> 1

Symmetry == Permutations({c1, c2})
=============================================================================

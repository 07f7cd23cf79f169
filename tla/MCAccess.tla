------------------------------ MODULE MCAccess ------------------------------
(* Two calls in flight and four record requests of one unregistered         *)
(* institution; a link without a limit and one for a single view.            *)
EXTENDS Access, TLC

CONSTANTS c1, c2

Symmetry == Permutations({c1, c2})
=============================================================================

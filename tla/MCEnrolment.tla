---------------------------- MODULE MCEnrolment ----------------------------
(* Two calls in flight; a student registered, rolled over and registered     *)
(* again, with two transfer requests and two disputes.                       *)
EXTENDS Enrolment, TLC

CONSTANTS c1, c2

Symmetry == Permutations({c1, c2})
=============================================================================

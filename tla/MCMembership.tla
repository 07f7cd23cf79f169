---------------------------- MODULE MCMembership ----------------------------
(* Two calls in flight, the contact of an application and another member of  *)
(* the institution it founds.                                                *)
EXTENDS Membership, TLC

CONSTANTS c1, c2, contact, other

Symmetry == Permutations({c1, c2})
=============================================================================

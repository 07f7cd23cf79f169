-------------------------- MODULE MCFounderAccess --------------------------
(* One call on the keys and two on the founder's second factor in flight; one *)
(* request, one key and two secrets of it; two authenticators, and two sets   *)
(* of a single recovery code.                                                 *)
EXTENDS FounderAccess, TLC

CONSTANTS v1, v2

Symmetry == Permutations({v1, v2})
=============================================================================

-------------------------- MODULE MCPaymentIntake --------------------------
(* Two calls in flight for one request: the operations of one handler, of    *)
(* two handlers, and of a handler and a Paystack job, in every order.  Two   *)
(* charges: one that names the request, and one that is too small and known  *)
(* by its reference alone.                                                   *)
EXTENDS PaymentIntake, TLC

CONSTANTS h1, h2

Symmetry == Permutations({h1, h2})
=============================================================================

---------------------------- MODULE MCRateLimit ----------------------------
(* Two processes; a policy changed twice, a cap out of bounds among those   *)
(* asked for; a read that fails, and cleanups of buckets of any age.         *)
EXTENDS RateLimit

CONSTANTS p1, p2
=============================================================================

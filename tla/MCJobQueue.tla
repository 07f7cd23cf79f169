----------------------------- MODULE MCJobQueue -----------------------------
(* Two workers, two operators and two jobs, with two attempts and one.  The  *)
(* second job has the lower priority (the cleanup jobs are queued with       *)
(* priority -5).                                                             *)
EXTENDS JobQueue, TLC

CONSTANTS j1, j2, w1, w2

MCPriority == j1 :> 0 @@ j2 :> -5

MCPolicyMax == j1 :> 2 @@ j2 :> 1
=============================================================================

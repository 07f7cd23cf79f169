---------------------------- MODULE MCServices ----------------------------
(* Three services of the platform that share nothing, side by side: a        *)
(* behaviour is one of IdempotencyService, one of CacheService or one of the *)
(* workers and their health check, since the order of steps that do not      *)
(* touch each other tells nothing.                                           *)
(*                                                                           *)
(* Three calls with one key and two different requests: a race of two for    *)
(* the creation of the record, and one that comes at any time.  Two API      *)
(* processes, and two updates of what they cache that come to one of them.   *)
(* Two workers and two jobs.                                                 *)
EXTENDS Idempotency, Cache, WorkerHealth, TLC

CONSTANTS c1, c2, c3

ServicesInit == Init /\ CacheInit /\ HealthInit

IdempotencyStep == CacheInit /\ HealthInit /\ Next /\ UNCHANGED <<cacheVars, healthVars>>

CacheStep(action) == Init /\ HealthInit /\ action /\ UNCHANGED <<vars, healthVars>>

HealthStep(action) == Init /\ CacheInit /\ action /\ UNCHANGED <<vars, cacheVars>>

ServicesNext == IdempotencyStep \/ CacheStep(CacheNext) \/ HealthStep(HealthNext)

servicesVars == <<vars, cacheVars, healthVars>>

\* Commands are bounded by ACADID_CACHE_TIMEOUT_MS, entries by their ttlSeconds,
\* and what a process has begun it ends.
CacheFairness ==
    /\ WF_servicesVars(CacheStep(ExpireRemote))
    /\ \A p \in Servers :
        /\ WF_servicesVars(CacheStep(ExpireLocal(p)))
        /\ WF_servicesVars(CacheStep(fetch[p].at # "none" /\ Read(p)))
        /\ WF_servicesVars(CacheStep(push[p].at # "none" /\ Send(p)))

\* Time passes.
HealthFairness == \A j \in Tasks : WF_servicesVars(HealthStep(TaskAges(j)))

ServicesSpec ==
    ServicesInit /\ [][ServicesNext]_servicesVars /\ CacheFairness /\ HealthFairness
=============================================================================

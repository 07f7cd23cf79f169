------------------------------ MODULE RateLimit ------------------------------
(***************************************************************************)
(* RateLimitService: one bucket of the database, counted by every API      *)
(* process, and the policy that sets its limit, stored by the founder and  *)
(* cached for 15 seconds in each process.                                  *)
(*                                                                         *)
(* A request takes the policy from the cache or loads it, then counts      *)
(* itself with an upsert, one statement of the database, and is admitted   *)
(* or refused by the count it gets back.  The founder's update stores the  *)
(* policy and clears the cache of his own process, where a load that is    *)
(* under way may put the old policy back.                                  *)
(***************************************************************************)
EXTENDS Integers

CONSTANTS
    Processes,
    Limit,        \* the limit of the route or of the API key
    Caps,         \* emergency caps the founder may ask for
    MaxLimit,     \* the bound of the code, 100 000
    Window,       \* the longest window of a bucket, one hour, in ticks
    CleanupHours, \* hours a cleanup may be asked for
    MaxUpdates,   \* bounds: updates, failed reads, requests in a window
    MaxFailures,
    MaxCount

ASSUME RateLimitAssumption ==
    /\ Limit \in 1 .. MaxLimit
    /\ Caps \cup CleanupHours \subseteq Nat
    /\ Window \in Nat \ {0}
    /\ {MaxLimit, MaxUpdates, MaxFailures, MaxCount} \subseteq Nat

VARIABLES
    stored,    \* the cap in the platformSetting row
    cache,     \* cache[p]: the cap p has cached, or None
    load,      \* load[p]: what a read of p's has brought, or None
    request,   \* request[p]: the cap a request of p goes by, or None
    updating,  \* updating[p]: p has stored a policy and not cleared its cache
    age,       \* ticks since the window of the bucket began
    past,      \* ticks since the window of the bucket before began, 0 for none
    count,     \* requests counted in the bucket, 0 when there is none
    updater,   \* history: the process of the last update
    updates,
    failures,  \* history: reads that failed
    raced,     \* history: caches cleared while a load was under way
    admitted,  \* history: requests admitted in this window
    top        \* history: the highest limit a request of the window went by

policy == <<stored, cache, load, updating, updater, updates, failures, raced>>

bucket == <<age, past, count, admitted, top>>

rateVars == <<stored, cache, load, request, updating, age, past, count, updater, updates,
              failures, raced, admitted, top>>

-----------------------------------------------------------------------------
None == -1

\* clampNumber and parseBoundedNumber, of a number.
Clamp(value, low, high) ==
    IF value < low THEN low ELSE IF value > high THEN high ELSE value

Lower(a, b) == IF a < b THEN a ELSE b

Higher(a, b) == IF a > b THEN a ELSE b

\* The mode off, and the default policy, are a cap no limit reaches.
Off == MaxLimit

\* The caps parseRateLimitPolicyInput, the schema and normalisePolicyControl
\* make of what is asked for.
StorableCaps == {Off} \cup {Clamp(cap, 1, MaxLimit) : cap \in Caps}

\* applyEmergencyCap.  The overrides of a route's scope, a product or an institution,
\* which put another limit in the place of Limit, and of windowSeconds are left out:
\* of the policy the cap alone varies.
Effective(cap) == Lower(Limit, cap)

RateTypeOK ==
    /\ stored \in 1 .. MaxLimit
    /\ {cache, load, request} \subseteq [Processes -> 1 .. MaxLimit \cup {None}]
    /\ updating \in [Processes -> BOOLEAN]
    /\ age \in 0 .. Window - 1 /\ past \in 0 .. 2 * Window
    /\ count \in 0 .. MaxCount
    /\ updater \in Processes
    /\ updates \in 0 .. MaxUpdates /\ failures \in 0 .. MaxFailures
    /\ raced \in BOOLEAN
    /\ admitted \in 0 .. MaxCount /\ top \in 0 .. MaxLimit

RateInit ==
    /\ stored = Off
    /\ cache = [p \in Processes |-> None]
    /\ load = [p \in Processes |-> None]
    /\ request = [p \in Processes |-> None]
    /\ updating = [p \in Processes |-> FALSE]
    /\ age = 0 /\ past = 0 /\ count = 0
    /\ updater \in Processes
    /\ updates = 0 /\ failures = 0 /\ raced = FALSE
    /\ admitted = 0 /\ top = 0

-----------------------------------------------------------------------------
\* updateRateLimitPolicy, and updatePlatformSettings when it has a policy: the
\* row is stored ...
StorePolicy(p) ==
    /\ updates < MaxUpdates /\ ~updating[p]
    /\ stored' \in StorableCaps \ {stored}
    /\ updating' = [updating EXCEPT ![p] = TRUE]
    /\ updater' = p
    /\ updates' = updates + 1
    /\ UNCHANGED <<cache, load, request, failures, raced, bucket>>

\* Mutant of Cleared: only the API cache is invalidated, not the policy's.
NotCleared(p) == cache

Cleared(p) == [cache EXCEPT ![p] = None]

\* ... and, after the audit entry, the cache of the process is cleared.
ClearPolicyCache(p) ==
    /\ updating[p]
    /\ cache' = Cleared(p)
    /\ updating' = [updating EXCEPT ![p] = FALSE]
    /\ raced' = (raced \/ load[p] \notin {None, stored})
    /\ UNCHANGED <<stored, load, request, updater, updates, failures, bucket>>

\* 15 seconds after it was stored.
Expired(p) == cache[p] # None

ExpireCache(p) ==
    /\ Expired(p)
    /\ cache' = [cache EXCEPT ![p] = None]
    /\ UNCHANGED <<stored, load, request, updating, updater, updates, failures, raced, bucket>>

\* readPolicyControl: a request finds nothing cached and reads the row ...
StartLoad(p) ==
    /\ cache[p] = None /\ load[p] = None
    /\ load' = [load EXCEPT ![p] = stored]
    /\ UNCHANGED <<stored, cache, request, updating, updater, updates, failures, raced, bucket>>

\* ... or fails to, which stands for the default policy, its emergency mode off.
FailLoad(p) ==
    /\ cache[p] = None /\ load[p] = None
    /\ failures < MaxFailures
    /\ load' = [load EXCEPT ![p] = Off]
    /\ failures' = failures + 1
    /\ UNCHANGED <<stored, cache, request, updating, updater, updates, raced, bucket>>

\* It is cached, and the request goes by it.
FinishLoad(p) ==
    /\ load[p] # None
    /\ cache' = [cache EXCEPT ![p] = load[p]]
    /\ load' = [load EXCEPT ![p] = None]
    /\ request' = [request EXCEPT ![p] = load[p]]
    /\ UNCHANGED <<stored, updating, updater, updates, failures, raced, bucket>>

UseCache(p) ==
    /\ cache[p] # None /\ request[p] = None
    /\ request' = [request EXCEPT ![p] = cache[p]]
    /\ UNCHANGED <<policy, bucket>>

-----------------------------------------------------------------------------
\* Mutant of Allowed: the count before this request is compared.
AllowedBefore(n, limit) == n - 1 <= limit

Allowed(n, limit) == n <= limit

\* assertAllowed: the upsert increments the count, and writes the limit this
\* request goes by over the one of the request before.
Count(p) ==
    /\ request[p] # None
    /\ count < MaxCount
    /\ LET limit == Effective(request[p]) IN
       /\ count' = count + 1
       /\ top' = Higher(top, limit)
       /\ admitted' = IF Allowed(count', limit) THEN admitted + 1 ELSE admitted
    /\ request' = [request EXCEPT ![p] = None]
    /\ UNCHANGED <<policy, age, past>>

\* The bucket of the window before grows older, if it is still there.
Older == IF past = 0 THEN 0 ELSE Lower(past + 1, 2 * Window)

Tick ==
    /\ age + 1 < Window
    /\ age' = age + 1
    /\ past' = Older
    /\ UNCHANGED <<policy, request, count, admitted, top>>

\* The next window has a bucket of its own.
NextWindow ==
    /\ age + 1 = Window
    /\ age' = 0 /\ count' = 0 /\ admitted' = 0 /\ top' = 0
    /\ past' = IF count > 0 THEN Window ELSE Older
    /\ UNCHANGED <<policy, request>>

\* queueRateLimitBucketCleanup bounds what is asked for; the worker bounds what it
\* finds in the payload of the job once more ...
QueuedHours(asked) == Clamp(asked, 1, 720)

PayloadHours(queued) == Clamp(queued, 1, 720)

\* ... and so does cleanupExpiredBuckets, which deletes what began before the
\* cutoff.
TooOld(bucketAge, hours) == bucketAge > Window * Clamp(hours, 1, 720)

CleanUp ==
    /\ \E asked \in CleanupHours :
           LET hours == PayloadHours(QueuedHours(asked)) IN
           /\ TooOld(past, hours) \/ TooOld(age, hours)
           /\ past' = IF TooOld(past, hours) THEN 0 ELSE past
           /\ count' = IF TooOld(age, hours) THEN 0 ELSE count
    /\ UNCHANGED <<policy, request, age, admitted, top>>

-----------------------------------------------------------------------------
RateNext ==
    \/ \E p \in Processes :
        \/ StorePolicy(p) \/ ClearPolicyCache(p)
        \/ ExpireCache(p)
        \/ StartLoad(p) \/ FailLoad(p) \/ FinishLoad(p)
        \/ UseCache(p) \/ Count(p)
    \/ Tick \/ NextWindow \/ CleanUp

\* Time passes, and what a process has begun it ends.
RateFairness ==
    \A p \in Processes :
        /\ WF_rateVars(ExpireCache(p))
        /\ WF_rateVars(FinishLoad(p))
        /\ WF_rateVars(ClearPolicyCache(p))

RateSpec == RateInit /\ [][RateNext]_rateVars /\ RateFairness

-----------------------------------------------------------------------------
\* A window admits no more requests than the highest limit one of them went by,
\* though the processes go by different policies and each writes its own limit
\* into the bucket; no cleanup, whatever it is asked for, resets the count of a
\* window still open.  Its first request is admitted under every policy that can
\* be stored: no cap shuts the platform off.
AdmittedWithinLimit ==
    /\ admitted <= top
    /\ count > 0 => admitted > 0

\* The process that stored the policy last, and cleared its cache, goes by that
\* policy, unless a load was under way when it cleared or the row could not be
\* read.
UpdateTakesEffect ==
    ~updating[updater] /\ ~raced /\ failures = 0 => cache[updater] \in {None, stored}

\* Every process ends up with the stored policy: what is cached expires, and
\* nothing puts an old policy back for ever.
PolicySpreads == <>[](\A p \in Processes : cache[p] \in {None, stored})

\* An update of the founder's takes hold: at once where it was made, in the end in
\* every process.
PolicyTakesHold == [](UpdateTakesEffect /\ PolicySpreads)
=============================================================================

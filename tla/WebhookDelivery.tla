-------------------------- MODULE WebhookDelivery --------------------------
(***************************************************************************)
(* One WebhookDelivery row, on top of the job queue: its jobs are rows of  *)
(* JobQueue, all of type WEBHOOK_DELIVERY, and delivery.jobId names the    *)
(* one that is meant to deliver it.                                        *)
(*                                                                         *)
(* The handler of the job finds the delivery by jobId and status, and from *)
(* then on writes it by uuid.  The queue and the Founder operations write  *)
(* it too, in their own transactions: failOrRetryJob and                   *)
(* retryDeadLetterJob by jobId and status, retryWebhookDelivery by uuid,   *)
(* with a new job.  A replay is a new delivery with a job of its own:      *)
(* another instance of this module.                                        *)
(***************************************************************************)
EXTENDS JobQueue

CONSTANT MaxRetries     \* bound: retries of the delivery by an operator

ASSUME MaxRetriesAssumption == MaxRetries \in Nat

VARIABLES
    delivery,           \* the row of WebhookDelivery
    stage,              \* stage[w]: where w is in processWebhookDelivery
    retrying,           \* retrying[a]: a is past the check of retryWebhookDelivery
    accepted,           \* history: POSTs the receiver accepted
    unrecorded,         \* history: accepted POSTs the worker did not record
    retries,            \* history: retries of the delivery by an operator
    retriedInFlight     \* history: was one made while a worker was delivering?

deliveryVars == <<delivery, stage, retrying, accepted, unrecorded, retries, retriedInFlight>>

allDeliveryVars == <<vars, deliveryVars>>

-----------------------------------------------------------------------------
Live == {"PENDING", "RETRYING"}

Delivery == [status : {"ABSENT", "DELIVERED", "FAILED"} \cup Live,
             jobId : Jobs \cup {NoJob}]

\* "find": before the findFirst; "mark": before the update that counts the
\* attempt; "post": before the request; then what came of the request.
Stage == {"find", "mark", "post", "responded", "failed"}

\* The worker has found the delivery and will write it by uuid.
Delivering(w) == stage[w] # "find"

\* Mutant of PendingFor: the status is not asked for.
LinkedTo(j) == delivery.jobId = j

\* What the worker, failOrRetryJob and processWebhookDelivery look for.
PendingFor(j) == delivery.jobId = j /\ delivery.status \in Live

DeliveryTypeOK ==
    /\ TypeOK
    /\ delivery \in Delivery
    /\ delivery.status # "ABSENT" => delivery.jobId \in Jobs
    /\ stage \in [Workers -> Stage]
    /\ \A w \in Workers : Delivering(w) => wk[w].pc = "processing"
    /\ retrying \in [Admins -> BOOLEAN]
    /\ {accepted, unrecorded} \subseteq Nat
    /\ retries \in 0 .. MaxRetries
    /\ retriedInFlight \in BOOLEAN

DeliveryInit ==
    /\ Init
    /\ delivery = [status |-> "ABSENT", jobId |-> NoJob]
    /\ stage = [w \in Workers |-> "find"]
    /\ retrying = [a \in Admins |-> FALSE]
    /\ accepted = 0
    /\ unrecorded = 0
    /\ retries = 0
    /\ retriedInFlight = FALSE

-----------------------------------------------------------------------------
\* A job created now, to run now.
EnqueueNow(j) == Enqueue(j) /\ job'[j].runAfter = "due"

\* enqueueWebhookDelivery, and replayWebhookDelivery for the new delivery.
EnqueueDelivery(j) ==
    /\ delivery.status = "ABSENT"
    /\ EnqueueNow(j)
    /\ delivery' = [status |-> "PENDING", jobId |-> j]
    /\ UNCHANGED <<stage, retrying, accepted, unrecorded, retries, retriedInFlight>>

At(w, s) == wk[w].pc = "processing" /\ stage[w] = s

\* A delivery that is not there any more is a success ("no_pending_delivery").
Find(w) ==
    /\ At(w, "find")
    /\ \/ /\ PendingFor(wk[w].job)
          /\ stage' = [stage EXCEPT ![w] = "mark"]
          /\ UNCHANGED vars
       \/ /\ ~PendingFor(wk[w].job)
          /\ Returns(w)
          /\ UNCHANGED stage
    /\ UNCHANGED <<delivery, retrying, accepted, unrecorded, retries, retriedInFlight>>

Mark(w) ==
    /\ At(w, "mark")
    /\ delivery' = [delivery EXCEPT !.status = "RETRYING"]
    /\ stage' = [stage EXCEPT ![w] = "post"]
    /\ UNCHANGED <<vars, retrying, accepted, unrecorded, retries, retriedInFlight>>

\* The receiver accepts and answers; refuses, or is not reached; or accepts, and
\* its answer is lost or comes after the timeout.
Post(w) ==
    /\ At(w, "post")
    /\ \/ /\ accepted' = accepted + 1
          /\ stage' = [stage EXCEPT ![w] = "responded"]
          /\ UNCHANGED unrecorded
       \/ /\ stage' = [stage EXCEPT ![w] = "failed"]
          /\ UNCHANGED <<accepted, unrecorded>>
       \/ /\ accepted' = accepted + 1
          /\ unrecorded' = unrecorded + 1
          /\ stage' = [stage EXCEPT ![w] = "failed"]
    /\ UNCHANGED <<vars, delivery, retrying, retries, retriedInFlight>>

\* The update after the response, by uuid, and the end of the handler.
Record(w) ==
    /\ \/ /\ At(w, "responded")
          /\ delivery' = [delivery EXCEPT !.status = "DELIVERED"]
          /\ Returns(w)
       \/ /\ At(w, "failed")
          /\ delivery' = [delivery EXCEPT !.status = "RETRYING"]
          /\ Throws(w)
    /\ stage' = [stage EXCEPT ![w] = "find"]
    /\ UNCHANGED <<retrying, accepted, unrecorded, retries, retriedInFlight>>

\* A query throws, or buildWebhookHeaders does (the endpoint is not ACTIVE, its
\* secret is missing): the handler ends without its next write.
HandlerError(w) ==
    /\ stage[w] # "post"
    /\ Throws(w)
    /\ unrecorded' = IF stage[w] = "responded" THEN unrecorded + 1 ELSE unrecorded
    /\ stage' = [stage EXCEPT ![w] = "find"]
    /\ UNCHANGED <<delivery, retrying, accepted, retries, retriedInFlight>>

\* Mutant of FailOrRetryDelivery: the delivery awaits a retry in any case.
FailOrRetryJobOnly(w) ==
    /\ FailOrRetry(w)
    /\ delivery' = IF PendingFor(wk[w].job)
                   THEN [delivery EXCEPT !.status = "RETRYING"] ELSE delivery
    /\ UNCHANGED <<stage, retrying, accepted, unrecorded, retries, retriedInFlight>>

\* failOrRetryJob settles the job and, where it is still the job's, the delivery.
FailOrRetryDelivery(w) ==
    /\ FailOrRetry(w)
    /\ delivery' = IF PendingFor(wk[w].job)
                   THEN [delivery EXCEPT !.status =
                            IF ShouldRetry(w) THEN "RETRYING" ELSE "FAILED"]
                   ELSE delivery
    /\ UNCHANGED <<stage, retrying, accepted, unrecorded, retries, retriedInFlight>>

CrashDelivery(w) ==
    /\ Crash(w)
    /\ unrecorded' = IF stage[w] = "responded" THEN unrecorded + 1 ELSE unrecorded
    /\ stage' = [stage EXCEPT ![w] = "find"]
    /\ UNCHANGED <<delivery, retrying, accepted, retries, retriedInFlight>>

\* retryDeadLetterJob revives the delivery with its job.
RequeueDelivery(a) ==
    /\ RequeueDeadLetter(a)
    /\ delivery' = IF delivery.jobId = adm[a].job /\ delivery.status = "FAILED"
                   THEN [delivery EXCEPT !.status = "RETRYING"]
                   ELSE delivery
    /\ UNCHANGED <<stage, retrying, accepted, unrecorded, retries, retriedInFlight>>

\* retryWebhookDelivery, up to its check, on a read outside the transaction ...
ReadDelivery(a) ==
    /\ ~retrying[a]
    /\ delivery.status \notin {"ABSENT", "DELIVERED"}
    /\ retrying' = [retrying EXCEPT ![a] = TRUE]
    /\ UNCHANGED <<vars, delivery, stage, accepted, unrecorded, retries, retriedInFlight>>

\* Mutant of RetryDelivery: the delivery stays with its old job.
RetryKeepsJobId(a, j) ==
    /\ retrying[a]
    /\ retries < MaxRetries
    /\ retries' = retries + 1
    /\ EnqueueNow(j)
    /\ delivery' = [delivery EXCEPT !.status = "RETRYING"]
    /\ retriedInFlight' =
          (retriedInFlight \/ \E w \in Workers : Delivering(w))
    /\ retrying' = [retrying EXCEPT ![a] = FALSE]
    /\ UNCHANGED <<stage, accepted, unrecorded>>

\* ... and its transaction: a new job, and the delivery handed over to it.
RetryDelivery(a, j) ==
    /\ retrying[a]
    /\ retries < MaxRetries
    /\ retries' = retries + 1
    /\ EnqueueNow(j)
    /\ delivery' = [status |-> "RETRYING", jobId |-> j]
    /\ retriedInFlight' =
          (retriedInFlight \/ \E w \in Workers : Delivering(w))
    /\ retrying' = [retrying EXCEPT ![a] = FALSE]
    /\ UNCHANGED <<stage, accepted, unrecorded>>

-----------------------------------------------------------------------------
\* The steps of JobQueue that leave the delivery alone.
DeliveryQueueStep(w) ==
    /\ \/ \E j \in Jobs : Claim(w, j)
       \/ Complete(w)
       \/ CompleteRolledBack(w)
       \/ CompleteAckLost(w)
    /\ UNCHANGED deliveryVars

HandlerStep(w) ==
    \/ Find(w)
    \/ Mark(w)
    \/ Post(w)
    \/ Record(w)
    \/ HandlerError(w)

DeliveryWorkerStep(w) ==
    \/ DeliveryQueueStep(w)
    \/ HandlerStep(w)
    \/ FailOrRetryDelivery(w)

DeliveryBecomesDue(j) == BecomeDue(j) /\ UNCHANGED deliveryVars

DeliveryNext ==
    \/ \E j \in Jobs : EnqueueDelivery(j) \/ DeliveryBecomesDue(j)
    \/ \E w \in Workers :
          \/ DeliveryWorkerStep(w)
          \/ CrashDelivery(w)
          \/ Restart(w) /\ UNCHANGED deliveryVars
    \/ \E a \in Admins :
          \/ RequeueDelivery(a)
          \/ ReadDelivery(a)
          \/ \E j \in Jobs : ReadDeadLetter(a, j) /\ UNCHANGED deliveryVars
          \/ \E j \in Jobs : RetryDelivery(a, j)

DeliverySpec == DeliveryInit /\ [][DeliveryNext]_allDeliveryVars

\* The fairness of JobQueue, step for step; every request has a timeout.
DeliveryFairness ==
    /\ \A j \in Jobs : WF_allDeliveryVars(DeliveryBecomesDue(j))
    /\ \A w \in Workers : WF_allDeliveryVars(DeliveryWorkerStep(w))

FairDeliverySpec == DeliverySpec /\ DeliveryFairness

-----------------------------------------------------------------------------
\* A delivery that is still to be made has a job that will make it.
HasJob == delivery.status \in Live => job[delivery.jobId].status \in Waiting \cup {"RUNNING"}

\* Nothing interfered with the worker that delivers: no operator gave the delivery
\* a new job while one was at it, whose late write, by uuid, could undo the end the
\* new job came to, and no requeue of a job was overtaken by another one, which
\* could leave it in the hands of two workers.
Undisturbed == ~retriedInFlight /\ overtaken = 0

\* No undisturbed delivery is stranded, in RETRYING with a job that is over.
NotStranded == Undisturbed => HasJob

\* A FAILED delivery is one whose job is a dead letter, so the operator finds
\* both: failOrRetryJob and retryDeadLetterJob change the two together.
FailedIsDeadLetter ==
    overtaken = 0 /\ delivery.status = "FAILED" => job[delivery.jobId].status = "FAILED"

\* A delivery and its job go together: what failOrRetryJob, retryDeadLetterJob and
\* retryWebhookDelivery do to the one they do to the other.
FollowsJob == NotStranded /\ FailedIsDeadLetter

\* At least once, and no more than that, for an undisturbed delivery: every
\* acceptance beyond the first is owed to one the worker could not record, or to an
\* operator's retry; neither the retries of the queue nor the requeue of a dead
\* letter adds one.
DuplicatesExplained == Undisturbed => accepted <= 1 + unrecorded + retries

\* Every delivery ends as DELIVERED or FAILED, unless the process that runs its
\* job ends, or it was disturbed.
DeliverySettles ==
    delivery.status \in Live ~>
        \/ delivery.status \in {"DELIVERED", "FAILED"}
        \/ \E j \in Jobs : delivery.jobId = j /\ Orphaned(j)
        \/ ~Undisturbed
=============================================================================

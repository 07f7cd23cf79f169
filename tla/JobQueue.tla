------------------------------ MODULE JobQueue ------------------------------
(***************************************************************************)
(* The durable job queue of the API: the BackgroundJob table, the worker   *)
(* processes that claim, process and settle its rows, the retry policy,    *)
(* and the Founder operation that requeues a dead letter.                  *)
(*                                                                         *)
(* Every action is one database transaction or one step of a process       *)
(* between two transactions.  A worker keeps, from its claim to its last   *)
(* write, the copy of the row that the claim returned; an operator keeps   *)
(* the copy read before the transaction of retryDeadLetterJob.  Nothing    *)
(* in the writes that follow looks at the row again.                       *)
(***************************************************************************)
EXTENDS Integers, FiniteSets

CONSTANTS
    Jobs,           \* the rows that may be created
    Workers,        \* worker processes, by ACADID_WORKER_ID
    Admins,         \* Founder requests that may be in flight at once
    NoWorker,       \* lockedBy when it is null
    NoJob,          \* the job of a process that works on none
    Priority,       \* Priority[j]: the priority the producer gave j
    PolicyMax,      \* PolicyMax[j]: RetryPolicyService.maxAttemptsFor j's type
    MaxRevivals,    \* bound: dead-letter requeues
    MaxCrashes,     \* bound: worker processes that stop
    MaxLostAcks     \* bound: commits whose acknowledgement is lost

ASSUME JobQueueAssumption ==
    /\ NoWorker \notin Workers
    /\ NoJob \notin Jobs
    /\ Priority \in [Jobs -> Int]
    /\ PolicyMax \in [Jobs -> Nat \ {0}]
    /\ MaxRevivals \in Nat
    /\ MaxCrashes \in Nat
    /\ MaxLostAcks \in Nat

VARIABLES
    job,            \* job[j]: the row of j in BackgroundJob
    wk,             \* wk[w]: where worker w is, and its copy of the row
    adm,            \* adm[a]: the row operator a has read, or none
    failure,        \* history: failure[j], how the last attempt of j failed
    reports,        \* history: reports[j], the "succeeded" DomainEvents of j
    revivals,       \* number of requeues so far
    overtaken,      \* history: requeues that another requeue of the row overtook
    crossed,        \* history: crossed[a], one has since a read that row
    crashes,        \* number of workers stopped so far
    lostAcks        \* number of lost acknowledgements so far

vars == <<job, wk, adm, failure, reports, revivals, overtaken, crossed, crashes,
          lostAcks>>

-----------------------------------------------------------------------------
Waiting == {"QUEUED", "RETRYING"}

Status == {"ABSENT", "QUEUED", "RETRYING", "RUNNING", "SUCCEEDED", "FAILED"}

\* runAfter is kept as what the claim asks of it: past ("due") or not ("later").
Row == [status : Status, attempts : Nat, maxAttempts : Nat,
        lockedBy : Workers \cup {NoWorker}, runAfter : {"due", "later"}]

NoRow == [status |-> "ABSENT", attempts |-> 0, maxAttempts |-> 0,
          lockedBy |-> NoWorker, runAfter |-> "later"]

\* The error a handler threw; a NonRetryableJobError is "fatal".
Errors == {"none", "transient", "fatal"}

\* "idle": in claimNextJob; "processing": in processJob; "completing" and
\* "failing": about to run completeJob, failOrRetryJob; "down": no process.
Worker == [pc : {"idle", "processing", "completing", "failing", "down"},
           job : Jobs \cup {NoJob}, attempts : Nat, maxAttempts : Nat,
           error : Errors]

Idle == [pc |-> "idle", job |-> NoJob, attempts |-> 0, maxAttempts |-> 0,
         error |-> "none"]

Busy == {"processing", "completing", "failing"}

Holds(w, j) == wk[w].pc \in Busy /\ wk[w].job = j

\* Operator a has read nothing, or row j with these counts.
Snapshot == [job : Jobs \cup {NoJob}, attempts : Nat, maxAttempts : Nat]

NoSnapshot == [job |-> NoJob, attempts |-> 0, maxAttempts |-> 0]

TypeOK ==
    /\ job \in [Jobs -> Row]
    /\ wk \in [Workers -> Worker]
    /\ \A w \in Workers : wk[w].pc \in Busy => wk[w].job \in Jobs
    /\ adm \in [Admins -> Snapshot]
    /\ failure \in [Jobs -> Errors]
    /\ reports \in [Jobs -> Nat]
    /\ revivals \in 0 .. MaxRevivals
    /\ overtaken \in 0 .. revivals
    /\ crossed \in [Admins -> BOOLEAN]
    /\ crashes \in 0 .. MaxCrashes
    /\ lostAcks \in 0 .. MaxLostAcks

Init ==
    /\ job = [j \in Jobs |-> NoRow]
    /\ wk = [w \in Workers |-> Idle]
    /\ adm = [a \in Admins |-> NoSnapshot]
    /\ failure = [j \in Jobs |-> "none"]
    /\ reports = [j \in Jobs |-> 0]
    /\ revivals = 0
    /\ overtaken = 0
    /\ crossed = [a \in Admins |-> FALSE]
    /\ crashes = 0
    /\ lostAcks = 0

-----------------------------------------------------------------------------
\* QueueService.createJob: the row and its "queued" event, in one transaction.
Enqueue(j) ==
    /\ job[j].status = "ABSENT"
    /\ \E when \in {"due", "later"} :
          job' = [job EXCEPT ![j] = [NoRow EXCEPT !.status = "QUEUED",
                                                  !.maxAttempts = PolicyMax[j],
                                                  !.runAfter = when]]
    /\ UNCHANGED <<wk, adm, failure, reports, revivals, overtaken, crossed, crashes, lostAcks>>

\* Time passes runAfter.
BecomeDue(j) ==
    /\ job[j].status \in Waiting
    /\ job[j].runAfter = "later"
    /\ job' = [job EXCEPT ![j].runAfter = "due"]
    /\ UNCHANGED <<wk, adm, failure, reports, revivals, overtaken, crossed, crashes, lostAcks>>

\* Mutants of Eligible: only SUCCEEDED and FAILED rows are left out of the claim,
\* and RETRYING rows are.
EligibleUntilOver(j) ==
    job[j].status \in Waiting \cup {"RUNNING"} /\ job[j].runAfter = "due"

EligibleOnce(j) == job[j].status = "QUEUED" /\ job[j].runAfter = "due"

Eligible(j) == job[j].status \in Waiting /\ job[j].runAfter = "due"

\* The claim's ORDER BY: no eligible row has a higher priority.  Which of
\* several rows of one priority is first (runAfter, createdAt) is left open.
FirstInLine(j) ==
    /\ Eligible(j)
    /\ \A k \in Jobs : Eligible(k) => Priority[k] <= Priority[j]

\* The update of claimNextJob.
Claimed(row, w) ==
    [row EXCEPT !.status = "RUNNING", !.lockedBy = w, !.attempts = row.attempts + 1]

\* The updates that end an execution, in completeJob and failOrRetryJob ...
Released(row, s) == [row EXCEPT !.status = s, !.lockedBy = NoWorker]

\* ... and those that put a row back in line, by failOrRetryJob and by
\* retryDeadLetterJob.  Neither touches attempts.
Rescheduled(row, when, m) ==
    [row EXCEPT !.status = "RETRYING", !.lockedBy = NoWorker,
                !.runAfter = when, !.maxAttempts = m]

\* JobWorkerService.claimNextJob: FOR UPDATE SKIP LOCKED and the update that
\* follows make the claim one step; the worker keeps the updated row.
Claim(w, j) ==
    /\ wk[w].pc = "idle"
    /\ FirstInLine(j)
    /\ job' = [job EXCEPT ![j] = Claimed(@, w)]
    /\ wk' = [wk EXCEPT ![w] = [pc |-> "processing", job |-> j,
                                attempts |-> job[j].attempts + 1,
                                maxAttempts |-> job[j].maxAttempts,
                                error |-> "none"]]
    /\ UNCHANGED <<adm, failure, reports, revivals, overtaken, crossed, crashes, lostAcks>>

\* processJob returns a result, or throws.
Process(w) ==
    /\ wk[w].pc = "processing"
    /\ \/ wk' = [wk EXCEPT ![w] = [@ EXCEPT !.pc = "completing", !.error = "none"]]
       \/ \E e \in {"transient", "fatal"} :
             wk' = [wk EXCEPT ![w] = [@ EXCEPT !.pc = "failing", !.error = e]]
    /\ UNCHANGED <<job, adm, failure, reports, revivals, overtaken, crossed, crashes, lostAcks>>

\* Its two ways out, for a handler that throws no NonRetryableJobError.
Returns(w) == Process(w) /\ wk'[w].pc = "completing"

Throws(w) == Process(w) /\ wk'[w].error = "transient"

\* What completeJob stores: by uuid, whatever the row holds by then.
StoreSuccess(j) ==
    /\ job' = [job EXCEPT ![j] = Released(@, "SUCCEEDED")]
    /\ reports' = [reports EXCEPT ![j] = @ + 1]

Complete(w) ==
    /\ wk[w].pc = "completing"
    /\ StoreSuccess(wk[w].job)
    /\ wk' = [wk EXCEPT ![w] = Idle]
    /\ UNCHANGED <<adm, failure, revivals, overtaken, crossed, crashes, lostAcks>>

\* completeJob runs inside the try of runOnce: when its transaction is rolled
\* back, the job goes to failOrRetryJob like one whose handler threw.
CompleteRolledBack(w) ==
    /\ wk[w].pc = "completing"
    /\ wk' = [wk EXCEPT ![w] = [@ EXCEPT !.pc = "failing", !.error = "transient"]]
    /\ UNCHANGED <<job, adm, failure, reports, revivals, overtaken, crossed, crashes, lostAcks>>

\* The same when the transaction commits and only its acknowledgement is lost.
CompleteAckLost(w) ==
    /\ wk[w].pc = "completing"
    /\ lostAcks < MaxLostAcks
    /\ lostAcks' = lostAcks + 1
    /\ StoreSuccess(wk[w].job)
    /\ wk' = [wk EXCEPT ![w] = [@ EXCEPT !.pc = "failing", !.error = "transient"]]
    /\ UNCHANGED <<adm, failure, revivals, overtaken, crossed, crashes>>

\* Mutant of ShouldRetry: one retry too many.
ShouldRetryAtMaximum(w) == wk[w].error # "fatal" /\ wk[w].attempts <= wk[w].maxAttempts

\* RetryPolicyService.shouldRetry, on the worker's copy of the counts.
ShouldRetry(w) == wk[w].error # "fatal" /\ wk[w].attempts < wk[w].maxAttempts

\* failOrRetryJob: RETRYING with a later runAfter, or FAILED (the dead letter).
FailOrRetry(w) ==
    /\ wk[w].pc = "failing"
    /\ LET j == wk[w].job IN
       /\ \/ /\ ShouldRetry(w)
             /\ job' = [job EXCEPT ![j] = Rescheduled(@, "later", @.maxAttempts)]
          \/ /\ ~ShouldRetry(w)
             /\ job' = [job EXCEPT ![j] = Released(@, "FAILED")]
       /\ failure' = [failure EXCEPT ![j] = wk[w].error]
    /\ wk' = [wk EXCEPT ![w] = Idle]
    /\ UNCHANGED <<adm, reports, revivals, overtaken, crossed, crashes, lostAcks>>

\* The process ends: SIGTERM (shutdown exits without waiting for the job), a
\* kill, or an error thrown by claimNextJob or failOrRetryJob, which ends
\* startLoop.  The row it had claimed keeps RUNNING and lockedBy.
Crash(w) ==
    /\ wk[w].pc # "down"
    /\ crashes < MaxCrashes
    /\ crashes' = crashes + 1
    /\ wk' = [wk EXCEPT ![w] = [Idle EXCEPT !.pc = "down"]]
    /\ UNCHANGED <<job, adm, failure, reports, revivals, overtaken, crossed, lostAcks>>

\* The supervisor starts the process again, under the same worker id.
Restart(w) ==
    /\ wk[w].pc = "down"
    /\ wk' = [wk EXCEPT ![w] = Idle]
    /\ UNCHANGED <<job, adm, failure, reports, revivals, overtaken, crossed, crashes, lostAcks>>

-----------------------------------------------------------------------------
\* Mutant of ReadDeadLetter: the operator may name any job.
ReadAnyJob(a, j) ==
    /\ adm[a].job = NoJob
    /\ adm' = [adm EXCEPT ![a] = [job |-> j, attempts |-> job[j].attempts,
                                  maxAttempts |-> job[j].maxAttempts]]
    /\ UNCHANGED <<job, wk, failure, reports, revivals, overtaken, crossed, crashes, lostAcks>>

\* retryDeadLetterJob, up to its check: the row is read outside the transaction.
ReadDeadLetter(a, j) ==
    /\ adm[a].job = NoJob
    /\ job[j].status = "FAILED"
    /\ adm' = [adm EXCEPT ![a] = [job |-> j, attempts |-> job[j].attempts,
                                  maxAttempts |-> job[j].maxAttempts]]
    /\ UNCHANGED <<job, wk, failure, reports, revivals, overtaken, crossed, crashes, lostAcks>>

\* nextMaxAttempts: the largest of the three, on the operator's copy.
NextMaxAttempts(a, m) ==
    LET candidates == {adm[a].maxAttempts, adm[a].attempts + 1,
                       PolicyMax[adm[a].job]}
    IN m \in candidates /\ \A n \in candidates : n <= m

\* retryDeadLetterJob's transaction: an update by uuid, with no condition.  It
\* crosses every other request that has read the row.
RequeueDeadLetter(a) ==
    /\ adm[a].job # NoJob
    /\ revivals < MaxRevivals
    /\ revivals' = revivals + 1
    /\ overtaken' = IF crossed[a] THEN overtaken + 1 ELSE overtaken
    /\ crossed' = [b \in Admins |->
                      b # a /\ (crossed[b] \/ adm[b].job = adm[a].job)]
    /\ LET j == adm[a].job IN
       \E m \in {adm[a].maxAttempts, adm[a].attempts + 1, PolicyMax[j]} :
          /\ NextMaxAttempts(a, m)
          /\ job' = [job EXCEPT ![j] = Rescheduled(@, "due", m)]
    /\ adm' = [adm EXCEPT ![a] = NoSnapshot]
    /\ UNCHANGED <<wk, failure, reports, crashes, lostAcks>>

-----------------------------------------------------------------------------
WorkerStep(w) ==
    \/ \E j \in Jobs : Claim(w, j)
    \/ Process(w)
    \/ Complete(w)
    \/ CompleteRolledBack(w)
    \/ CompleteAckLost(w)
    \/ FailOrRetry(w)

Next ==
    \/ \E j \in Jobs : Enqueue(j) \/ BecomeDue(j)
    \/ \E w \in Workers : WorkerStep(w) \/ Crash(w) \/ Restart(w)
    \/ \E a \in Admins :
          RequeueDeadLetter(a) \/ \E j \in Jobs : ReadDeadLetter(a, j)

Spec == Init /\ [][Next]_vars

\* The worker loop never stops by itself, every handler is bounded by timeouts,
\* and time passes.  Producers, operators, crashes and restarts owe nothing.
Fairness ==
    /\ \A j \in Jobs : WF_vars(BecomeDue(j))
    /\ \A w \in Workers : WF_vars(WorkerStep(w))

FairSpec == Spec /\ Fairness

-----------------------------------------------------------------------------
\* The copy a worker acts on is the row: while it works the row is RUNNING,
\* locked by it, with the counts that shouldRetry will be asked about.  Only
\* after a lost acknowledgement may the row already be SUCCEEDED.
SnapshotCurrent(w) ==
    LET row == job[wk[w].job] IN
    /\ row.attempts = wk[w].attempts
    /\ row.maxAttempts = wk[w].maxAttempts
    /\ \/ row.status = "RUNNING" /\ row.lockedBy = w
       \/ row.status = "SUCCEEDED" /\ wk[w].pc = "failing" /\ lostAcks > 0

\* The copy an operator acts on is the row too: it is still the dead letter.
DeadLetterCurrent(a) ==
    LET row == job[adm[a].job] IN
    /\ row.status = "FAILED"
    /\ row.attempts = adm[a].attempts
    /\ row.maxAttempts = adm[a].maxAttempts

\* What an actor remembers of a row agrees with the row until the actor's own
\* last write to it, which looks at the row no more.
CopiesCurrent ==
    /\ \A w \in Workers : wk[w].pc \in Busy => SnapshotCurrent(w)
    /\ \A a \in Admins : adm[a].job # NoJob /\ ~crossed[a] => DeadLetterCurrent(a)

\* The lease.  No job is in the hands of more than one worker, but for one more
\* for each requeue that committed over another requeue of the row it had read;
\* and as long as there was none, every copy is current.  claimNextJob sees to
\* it at the claim; nothing in completeJob, failOrRetryJob or
\* retryDeadLetterJob checks that it still holds.
Lease ==
    /\ \A j \in Jobs : Cardinality({w \in Workers : Holds(w, j)}) <= 1 + overtaken
    /\ overtaken = 0 => CopiesCurrent

\* A row is tried as often as its policy allows, and once more for each requeue,
\* whatever copies of its counts were written back.  While no requeue was
\* overtaken, a row that waits has an attempt left by its own maxAttempts too
\* (claimNextJob increments attempts without looking at maxAttempts).
RetryBudget ==
    /\ \A j \in Jobs : job[j].attempts <= PolicyMax[j] + revivals
    /\ overtaken = 0 =>
          \A j \in Jobs :
              /\ job[j].status \in Waiting => job[j].attempts < job[j].maxAttempts
              /\ job[j].status = "RUNNING" => job[j].attempts <= job[j].maxAttempts

\* A dead letter is one for a reason: its last attempt failed for good, or failed
\* with no attempt left of those its policy allows (shouldRetry, asked with the
\* worker's copy); none that the row allows either, if no requeue was overtaken.
DeadLetterJustified ==
    \A j \in Jobs : job[j].status = "FAILED" =>
        \/ failure[j] = "fatal"
        \/ /\ failure[j] = "transient"
           /\ job[j].attempts >= PolicyMax[j]
           /\ overtaken = 0 => job[j].attempts >= job[j].maxAttempts

\* The outbox carries the success of a job once; every further report is owed to
\* an acknowledgement lost at the commit of completeJob, or to a requeue that
\* another one overtook.
SucceedsOnce == \A j \in Jobs : reports[j] <= 1 + lostAcks + overtaken

Settled(j) == job[j].status \in {"SUCCEEDED", "FAILED"}

\* RUNNING in the hands of no one: no action moves such a row again.
Orphaned(j) ==
    job[j].status = "RUNNING" /\ \A w \in Workers : ~Holds(w, j)

\* Every job that waits is settled in the end, or its own worker process ended
\* while it ran; no retry, requeue or other worker's end starves it.
Settles ==
    \A j \in Jobs :
        job[j].status \in Waiting ~> Settled(j) \/ Orphaned(j)

-----------------------------------------------------------------------------
\* The phase of a row, for JobLifecycle, and what a worker holds.
PhaseOf(row) ==
    CASE row.status = "ABSENT"    -> "absent"
      [] row.status \in Waiting   -> "waiting"
      [] row.status = "RUNNING"   -> "running"
      [] row.status = "SUCCEEDED" -> "done"
      [] row.status = "FAILED"    -> "dead"

HeldBy(worker) == IF worker.pc \in Busy THEN worker.job ELSE NoJob

phaseOf == [j \in Jobs |-> PhaseOf(job[j])]

holdingOf == [w \in Workers |-> HeldBy(wk[w])]

Lifecycle == INSTANCE JobLifecycle WITH
    phase <- phaseOf, holding <- holdingOf, lapsed <- overtaken > 0

\* The table and its workers keep the promise of JobLifecycle: only the worker
\* that started a job moves it on, and only a dead job is revived, until two
\* requeues of one dead letter overlap.
RefinesLifecycle == Lifecycle!Spec

\* retryDeadLetterJob's own words, "Only failed dead-letter jobs can be
\* retried.": no requeue does otherwise before one that another requeue of the
\* same row overtook.
OnlyDeadLettersRequeued ==
    [][\A a \in Admins :
          RequeueDeadLetter(a) /\ overtaken' = 0 => DeadLetterCurrent(a)]_vars
=============================================================================

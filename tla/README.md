# AcadID: a TLA+ verification of its transactional core

AcadID keeps academic identities, published results and credentials for institutions, and serves them to
learners, verifiers and developers. The API (`apps/api`, NestJS over PostgreSQL through Prisma) is a set of
stateless handlers and a worker process that share one database. Nearly every handler has the same shape: read a
row, decide on what was read, await something, then write the row **by its uuid** in a transaction that looks at
nothing again. What can go wrong is therefore in the interleavings of handlers, in processes that stop between
two transactions, and in retries; that is what these modules are about. The repository's tests
(`tests/*.test.mjs`, 38 files) call services and helpers one at a time, for the most part against stubs; they do not
interleave two calls, nor stop a process between two writes.

## 1. Inventory

| Component | State | Operations | What is hard | What makes it correct |
|---|---|---|---|---|
| Job queue and worker (`jobs/job-worker.service.ts`, `platform/services/queue.service.ts`, `retry-policy.service.ts`, `worker.ts`) | `BackgroundJob`, `WorkerHeartbeat`, `DomainEvent` | enqueueJob, claimNextJob, completeJob, failOrRetryJob, recordHeartbeat, shutdown | several workers, a process that ends in a job, an acknowledgement lost at commit, retries at the limit | one worker per job, no more attempts than allowed, every job settles, a job left behind is shown |
| Webhook delivery (worker, `admin.service.ts`) | `WebhookDelivery`, `WebhookEndpoint` | processWebhookDelivery, retryWebhookDelivery, replay | timeouts after acceptance, a retry racing a request in flight, job and delivery changed together | at least once, duplicates explained, no delivery stranded |
| Notifications (`notification-delivery.service.ts`) | `Notification` | deliverPendingForJob, retryNotification | a crash after the send; a job that succeeds though the provider refused | sent, or left where an operator can retry it |
| Idempotency (`idempotency.service.ts`) | `IdempotencyRecord` | execute, cleanupExpiredRecords | two calls with one key, a crash between effect and record | at most one effect per key |
| Cache (`cache.service.ts`) | per process, and Redis | getOrSet, set, invalidateTags | a load racing an invalidation, commands that fail or arrive late | nothing stale after an invalidation nothing overlaps; what is stale drains |
| Record requests and Paystack intake (`governance.service.ts`, `paystack-webhook.service.ts`, worker) | `RecordRequest`, `RevenueLedgerEntry`, `Credential` | review, confirm, refund (request, confirm), fulfil, receiveWebhook, the Paystack job | handlers that overlap, fields written back as read, jobs run again | money leaves escrow once, a charge is held once, a copy is published once |
| Results, credentials, standing (`governance.service.ts`, `ingestion.service.ts`) | `ResultBatch`, `AcademicRecord`, `Credential`, `AcademicStanding`, `AcademicSession`, `GradingRuleSet` | ingestResults, transitionBatch, rejectBatch, publishBatch, session status, sealed reopening, grading rules | checks outside the transaction, recomputation over records of concurrent publications | issued once per approval; standing agrees with the records; the seal holds |
| Rollover, transfers, disputes (`governance.service.ts`, `admin.service.ts`) | `Enrolment`, `RolloverRecord`, `TransferRequest`, `RolloverDispute` | confirmRollover, create/reviewTransferRequest, create/resolveRolloverDispute, ingestStudents | two decisions at once, a dispute resolved on an old status | an enrolment is decided once; closed transfers stay closed |
| Academic setup and authority (`ingestion.service.ts`, `authority.service.ts`) | `AcademicSession`, `AcademicStructure`, `Institution` | session updates, moves of structures, uploads and their scope walk | a tree that changes while it is walked, cycles | one current session; uploads within scope; walks end |
| Identity (`auth/*`) and staff (`portal.service.ts`, `admin.service.ts`) | `User`, `InstitutionUser`, `InstitutionApplication`, `MfaRecoveryCode` | login, invites, TOTP, recovery codes, applications, staff changes | single-use secrets consumed twice, a suspension overwritten | a code, an invite is used once; a suspension holds |
| API keys (`admin.service.ts`, `auth.service.ts`) | `DeveloperAccessRequest`, `ApiKey` | request, review, create, regenerate, revoke, lockdown, issueApiToken | an exchange under way when the key changes | dead secrets stay dead |
| Rate limits (`rate-limit.service.ts`) | `RateLimitBucket`, `PlatformSetting` | assertAllowed, updatePolicy, cleanup | cached policy, concurrent counting | at most the limit in a window; a policy takes hold |
| Access and verification (`gateway/access`, `gateway/verification`) | `AccessGrant`, `VerificationEvent`, ledger, invitation leads | share, revoke, verify, record requests | view limits under concurrency, an event without its fee | no more views than allowed, each verification billed once |
| Audit, crypto, web console, health probes, scripts | audit log, none | | | not modelled (section 6) |

The components interact through the database. An API handler enqueues a job in a transaction of its own
(`QueueService.enqueueJob`, behind `IdempotencyService.execute` when the caller gives a key); the worker claims
it and dispatches on its type: a webhook job writes the `WebhookDelivery` row, a Paystack job the
`RecordRequest` row, a validation job calls ingestResults, a cleanup job deletes idempotency records or buckets.
Operators reach back into the same rows (`retryDeadLetterJob`, `retryWebhookDelivery`, `retryNotification`).

## 2. Modules

| Module | Models | State and actions |
|---|---|---|
| `JobLifecycle` | what the queue promises | `phase`, `holding`; Submit, Start, Settle, Report, Lose, Revive |
| `JobQueue` | `BackgroundJob`, the workers, the requeue of dead letters | `job` rows; `wk`: each worker's place and its copy of the row as the claim returned it; `adm`: the row an operator read before the transaction. Enqueue, Claim, Process, Complete, CompleteRolledBack, CompleteAckLost, FailOrRetry, Crash, Restart, ReadDeadLetter and RequeueDeadLetter (the halves of retryDeadLetterJob), BecomeDue |
| `WebhookDelivery` | one delivery, composed with `JobQueue` (EXTENDS): each action is a queue action with what it does to the delivery, or a step of the handler | `delivery`; `stage`: the handler's place among its awaits |
| `Notification` | one notification, composed with `JobQueue` in the same way | `notice`; CreateNoticeJob (createJob) and EnqueueNotice (the row, in a later write); the handler's steps; retryNotification in two halves |
| `WorkerHealth` | heartbeats, the jobs workers leave behind, and checkQueueWorkers, which reads both | `process`, `holds`, `beat`, `stale`, `task`, `aged`; runOnce between its heartbeats, GiveUp, End, Shutdown, the passing of two minutes, 15 minutes and a day |
| `Idempotency` | one key of one scope | `record`; `call`: each call's place in execute. Submit, Find, CreateRecord, Handle, Store, Abort, Crash, Expire, CleanupExpiredRecords |
| `Cache` | one key with its tag, in every process and in Redis | `row` (the version in the database), `local`, `remote`, the tag set; `fetch` and `push`: what each process has under way. Every Redis command is a step that may fail |
| `RecordRequest` | one request and its ledger | `request` row; `op`: each call in flight with the row it read; Read, Abandon, and one Commit action per handler. `confirmed`, `released`, `refunded`, `published` count ledger entries and credentials |
| `PaymentIntake` | the charges Paystack reports, over `RecordRequest` (EXTENDS): receiveWebhook, the job that finds the request by metadata or reference and confirms it, its retry and requeue | `intake`: the job of each charge; `held`: confirmations of each charge; `reopened` |
| `AcademicSession` | the status of one session and the reopening of a sealed one | `session`; `reopen`; `desk`: calls between check and write |
| `ResultBatch` | the batches of that session, composed with `AcademicSession` (EXTENDS) | `batch`, `released`, `credentials`, `standing`; `call`. CheckUpload and CreateBatch (ingestResults), Transition, RejectBatch, and publishBatch as CheckPublish, Begin, Tally and Upsert for each student, Commit; Abandon |
| `Grading` | the grades of one tertiary student: the rule set an institution configures, the fallback rule, the CGPA roll-up and its classification | `rule`, `records`, `standing`; ConfigureRuleSet, IngestResults, Publish |
| `Enrolment` | the enrolments of one student number, with rollovers, transfers and disputes | the four tables; `call`: what each call read. A Read and a Commit action for each handler, IngestStudent, EscalateDispute, CloseDispute |
| `AcademicSetup` | current session, tree of structures, scope walk, direct and queued uploads | `current`, `row` (parent, type and name of each structure), `authorized`; `call`: a walk node by node (Visit) that gathers the `target`, then Allow or Refuse by the user's scopes, then CreateBatch, for a queued upload after RunJob's own check |
| `Membership` | applications, the institution they found, invitations, acceptance, members' status | `applications`, `institution`, `member`, tokens; `call` |
| `ApiAccess` | requests for API access, keys, secrets, the exchange for tokens | `requests`, `keys`, `dead` (secrets that were replaced or revoked); `call` |
| `FounderAccess` | the founder's login, second factor and recovery codes, over `ApiAccess` (EXTENDS), whose operations begin only under the founder's session | `user`, `codes`; `visit`: each login or set-up in flight |
| `RateLimit` | one bucket and the policy that sets its limit | `count`, `stored`, `cache` of each process, the load and the update it has under way |
| `Access` | a share link, verification by link and reference with its fee, an invitation lead | `grant`, `events`, `fees`, `lead`; `inquiry`: what each verification, request or review has read |
| `*Proofs` (8) | the theorems (section 5) | |
| `MC*` | constants, symmetry and, for `MCServices` and `MCDeliveries`, the composition | |

Every action is one transaction, or one step of a process between two transactions; PostgreSQL's row locks make
a transaction with one conditional update a single step. Two transactions that write several rows in turn are
opened up, as they run at READ COMMITTED, the default that the code leaves as it is: publishBatch (what it writes
is visible to itself, `Visible`, and to others from `Commit` on; a row it has written makes other writers wait,
`Locked`) and the session update that clears the current flags before it sets its own (`ClearCurrent`,
`SetCurrent`). A deadlock or a failed query rolls a transaction back, which is an action that changes nothing and
sends the process where the code's `catch` does. Unique keys of the schema are guards of the writes that meet
them: of an idempotency record, of an enrolment (institution, student number, status), and the one partial index,
which a migration adds outside the schema file, of the open reopen request of a session
(`SealedSessionReopenRequest_one_open_per_session_idx`).

Operators named "Mutant of X" are variants of X with a plausible bug in them. No specification refers to them;
they stand beside X to show which property tells the two apart.

What is abstracted:

- Times are kept as what the code asks of them: `runAfter` is "due" or "later"; a record, a cache entry, a grant is
  expired or not; a heartbeat is two minutes old or not.
- Statuses no code tells apart are one value, named where it is declared (`IN_REVIEW`, `OPEN`, `WAITING`,
  `WITHDRAWN`, `REJECTED`). An amount is set or not, too small or not.
- A request body is what its hash tells apart; a code of the authenticator is the secret it is made from; a
  cached value is the version of its row.
- A batch is its status and its roster; a standing is the set of batches whose records it counts. The arithmetic
  is in `Grading`, for one student, in integers of the precision the code rounds to.
- Records stay PUBLISHED when their batch goes back to review: only publishBatch writes them. amend and revoke of
  the API are stubs that invalidate a cache entry and are not modelled.
- Job handlers that are not modelled return, fail, or fail for good. `attempts` is a number as in the table.
- A user's scopes are sets of entries by uuid or name of a structure. The entries by code, the aliases
  (`class_arm`, `course_code`...) and the particulars of a direct upload's rows (mode, period, subject) are left out,
  as is the status of structures, at which the walk does not look. Registrars, administrators and API keys have no
  scope to check. An upload that names no structure is in: queued, it is let through, whatever scopes the user has;
  direct, no scope in the model matches the particulars of its rows.
- Of a rate-limit policy only the emergency cap changes: the overrides by scope, product and institution and the
  length of the window are constants of an instance.

The history variables (`overlaps`, `overtaken`, `outdated`, `stale`, `races`, `accepted`, `unrecorded`, `effects`, `held`,
`dead`, `redeemed`, `founded`, `asked`...) record what rows in other tables or the outside world would show; no guard
reads one, but for the named bounds. Most safety properties are exact when no two calls overlap and allow one
surplus for each commit over a row that changed since it was read. That is what this code promises: it takes no
locks, so an overlap may break the exact statement, and the properties say that nothing else may.

## 3. Runs

Bounds are named CONSTANTS (`Max...`) that appear in guards only. Two calls in flight are enough for a race between
any two handlers; three are used where a latecomer matters.

| Run | Question | Bounds, and why they are enough |
|---|---|---|
| `jobs` (`MCJobQueue`) | Does the queue keep its lease, its retry budget and its liveness and implement `JobLifecycle`? | 2 workers; 2 jobs of different priority with 2 attempts and 1 (retry, last attempt and dead letter occur); 1 crash, 1 lost acknowledgement; 2 operators and 2 requeues, which may overlap over one dead letter, with a claim in between |
| `deliveries` (`MCDeliveries`) | Is a notification sent once, or left where an operator finds it? Does a webhook delivery go with its job, are duplicates explained, does it settle? | A notification or a delivery in a behaviour, never both, as neither touches the other; 2 workers; 2 jobs: the row's first and the one a retry creates, or one of another type; 1 resend, 1 retry; a crash or a lost acknowledgement; 2 requeues, which overlap only for a notification, with one job (`SmallEnough`: two jobs with overlapping requeues are in `jobs`) |
| `record_requests` (`MCPaymentIntake`) | Escrow, publication, status and charges under overlapping handlers and payment jobs | 2 calls in flight, 4 commits: confirm, refund, reopen, confirm again; 2 charges: one that names the request, one too small and known by its reference |
| `academic_records` (`MCResultBatch`) | Do standings, credentials and the seal survive overlapping calls? | 2 calls; 2 batches with one student in common and one of its own; 2 approvals of the first, so that it is published, reopened and published again; 1 sealing, 2 reopen requests |
| `services` (`MCServices`) | Idempotency, cache and worker health | 3 calls, 2 requests, 1 cleanup; 2 processes, 2 updates or failures; 2 workers, 2 jobs |
| `enrolments` | Is an enrolment decided once, and does a closed transfer stay closed? | 2 calls; 2 rows of each table, so that a student is rolled over and enrolled again, with two transfer requests and two disputes; 1 overlap |
| `membership` | Invites, applications and suspensions | 2 calls; the contact and one more member; 2 applications, 2 invites, 1 overlap |
| `api_access` (`MCFounderAccess`) | The founder's second factor, and secrets of keys | 2 logins and 1 call on keys; 2 authenticators, 2 sets of a recovery code; 1 key with 2 secrets |
| `rate_limits` | Limits under policies cached and changed at different times | 2 processes, 2 updates with caps within and out of bounds, 1 failed read, cleanups of ages in, at and beyond the window |
| `access` | Views, fees and demand add up | 2 calls; links without limit and with a single view; 4 record requests, so that an update written late drops two others; 1 crash |
| `academic_setup` | Current session, scope, authority, end of walks | Either 2 editors over 2 sessions, or 1 upload, direct or queued, of any of 3 structures (two of one type) or of none, as the two share no variable (`SetupSpec`); a scope of one entry and one of two, by uuid and by name; 2 updates of parent, type and name, which make and undo cycles; 2 changes of authority |
| `grading` | The contract on five-point classification: **violated** | 2 records, scores of an A, B, C and F, a four-point scale beside the fallback |

`MCServices` puts three services side by side that share nothing: a behaviour is one of the idempotency service, or
of the cache, or of the workers' health. The order of steps that do not touch each other tells nothing, so
their product is not explored.

What the properties say is in the comment before each. The ones that take the most to break:

- `Lease`: what a worker or an operator remembers of a row agrees with the row until its last write, though
  neither looks again, unless a requeue committed over another requeue of the row it had read (`overtaken`); each of
  those puts the job in one more worker's hands at most. `RetryBudget` bounds the attempts in any case.
  `RefinesLifecycle`: the table and its workers implement `JobLifecycle`, which is bound by nothing any more once
  a revival overlooked another one.
- `Settles`: a waiting job becomes SUCCEEDED or FAILED, or its worker ended while it ran. The exception is real:
  `shutdown` does not wait for the job in hand and no code takes back a RUNNING row. `OrphansShow` is the
  counterpart: the health check shows such a job for good, whatever other workers do.
- `NoticeSentOnce`, `DuplicatesExplained`: a message or an event received again is owed to an answer that could not
  be recorded, to an operator's retry or to an overtaken requeue, never to the queue. The properties of a webhook
  delivery hold while it is `Undisturbed`: no operator retried it while a worker was at it, and no requeue was
  overtaken.
- `NoticeSettles`: a PENDING notification is sent or FAILED, or its job is a dead letter or an orphan. The exception
  is real too (`unsought`): a row created when its job was over, or for no job.
- `ChargesAccounted`: a Paystack charge is held once, through retries, requeues and lost acknowledgements, up to a
  commit over an unread row or a reviewer who reopens a refunded request; a job that confirmed nothing is FAILED.
- `StandingExact`, `StandingNeverAhead`: two publications with a student in common each tally without the other's
  records, and the later upsert wins: the standing then lacks a published batch until the student's next
  publication. For all others it is exact, and no overlap makes it count what is not published.
- `IssuesApproved`: one approval is good for one set of credentials, unless a rejection, a review step or a second
  publication takes the approval away while publishBatch signs.
- `RolledOverOnce`, `TransfersAgree`, `ClosedStaysClosed`: rollover, transfer and dispute decide one enrolment
  between them.
- `ScopeHolds`: the walk's answer, for scopes of several entries, against the set of ancestors of a tree that may
  have cycles and whose structures change parent, type and name; `WalksEnd`.
- `SecondFactorHolds`: a code is used once, a rotation leaves nothing of the old set, an enabled secret was proven,
  nobody comes in without it.
- `InvalidationHolds`, `StaleDrains`, `PolicyTakesHold`: what a cache may still hold after a change, and that it
  goes away.

### Disagreements and oddities

`grading` is a finding (PROJECT.json): with no linked rule set the roll-up guesses the scale by the greatest grade
point it sees, so five-point results without an A are normalized from four points and classified a class too
high. The following are in the models and in the properties' exceptions:

1. Two overlapping retryDeadLetterJob requests can requeue a job that a worker has claimed in between, though the
   code's own message says "Only failed dead-letter jobs can be retried" (`admin.service.ts:1785`). Two workers then
   run one job. The models have any number of operators; `overtaken` counts the requeues that did this, and the
   properties of the queue are exact while there is none and linear in their number, or void, after.
2. A fulfilment that commits between the check and the update of a refund leaves released funds refunded
   (`record-request-fulfillment-contract.md:151`); it is the `stale` of `EscrowConserved`.
3. A job that lost the acknowledgement of its commit is run again; after a refund and a reviewer's reopening it
   holds the same charge a second time. A `charge.success` event whose status is not success ends its job
   SUCCEEDED.
4. A redelivered Paystack event is refused with a conflict and not replayed (`README.md:115` of the repository), as
   the time of receipt is part of the hashed request.
5. A worker whose request was in flight when an operator retried the delivery undoes the end of the new job:
   `retriedInFlight` in `WebhookDelivery`.
6. An idempotent call that ends between effect and record leaves a key that answers no one
   (`event-driven-jobs-contract.md:26`).
7. updateAcademicSession reopens a sealed session without any request (`v5-academic-setup-contract.md:262`); the
   seal's properties speak of uploads only. A second open request of a session is refused by the unique index alone:
   the call that loses the race gets the error of the database. Of two overlapping reopen reviews the later marks the
   request, which may end REJECTED with its session reopened.
8. Result batches queued with an API key are always refused by the worker, which compares the administrator it runs
   as with the creator of the job.
9. A confirmation that passes its check can fail on the unique key of enrolments, when the student has a row of the
   new status already.
10. Default-graded records drop out of the CGPA once one record is linked to a tertiary rule set.
11. revokeGrant updates before it looks whose grant it is, and then reports the error.
12. Two overlapping rotations of recovery codes leave both sets valid; setupTotp disables the second factor until
    the new secret is enabled; enableTotp may enable a secret other than the one its code was checked against.
13. enqueueNotification has no caller, and takes the uuid of a job that is committed already: a row that is created
    after the job ran stays PENDING for ever, where retryNotification (FAILED rows only) refuses it. A provider's
    refusal ends the job SUCCEEDED and the notification FAILED.
14. A heartbeat after STOPPED, or the row of a worker that never returns, counts as a stale worker for ever; so does
    a worker that is busy for two minutes. The health check stays DEGRADED then.
15. A queued upload that names no structure is let through for any user with a scope, where the direct call refuses
    it to a user whose scopes are structures: the target of the first has no key to compare
    (`authority.service.ts:168`).
16. Two writers of one cache tag in Redis can lose a key from the tag set, which the invalidation then misses; it
    expires.

### Fairness

- `jobs`, `deliveries`: weak fairness of each worker's steps (`startLoop` polls for ever, each handler is bounded by a
  timeout) and of the passing of `runAfter`. Producers, operators, crashes and restarts have none: a process may
  stay down. A worker's fairness is for its loop as a whole, so it may go on serving other jobs.
- `academic_setup`: a walk's queries are answered.
- `rate_limits`: the 15 seconds of a cached policy pass, a load that is under way ends, and an update that stored its
  policy goes on to clear the cache.
- `services`: Redis commands are bounded by ACADID_CACHE_TIMEOUT_MS and entries by their ttl; what a process has begun
  it ends; a lock becomes 15 minutes old. Nothing is assumed of workers.

The other runs have safety properties only. Deadlock is not checked: every system here may come to rest (all jobs
settled, bounds used up).

## 4. Bounds that hide something

`MaxOverlaps = 1`, `MaxOutdated = 1` and `MaxRaces = 1` allow one commit over a changed row; each such property is
linear in the count, and its proof has no bound. `MaxRevivals = 2` allows one overtaken requeue, after which nothing
is exact any more; that each further one adds one is what the proofs of `Lease` and `NoticeSentOnce` show. One bound did hide something: three record requests are too few to
see that one late update of a lead may drop several others from its list. The proof of `DemandCounted` asked for it;
the property says now how the list may differ, and the run has a fourth request. `MaxWrites = 4` admits one reopening of a refunded request. Two
moves of structures make a cycle and undo it; longer cycles need more structures and walk the same code.

## 5. Proofs

For every value of the constants that meets the named assumptions:

| Module | Theorems | Inductive invariant |
|---|---|---|
| `JobQueueProofs` | TypeCorrect; LeaseHolds, RetryBudgetHolds, RequeuesAreSafe, DeadLettersJustified, SuccessReportedOnce, LifecycleRefined | `ExactInv` while no requeue was overtaken; always, `TokenInv` (the hands a job is in or may come into) and `CountsInv` (attempts and maxima, `BudgetInv`) |
| the same, of `Notification` and `WebhookDelivery` | NoticeImplementsQueue, MessagesAccounted; DeliveryImplementsQueue, DeliveryFollowsJob, DuplicatesAreExplained | `NoticeInv` (`Unannounced`, `MessageLedger`) over `TokenInv`; `DeliveryExact`: while no requeue was overtaken, `DeliveryInv` (`Attended`, `ReturnsSettled`, `GoTogether`, `EventLedger`) over `ExactInv` |
| `PaymentProofs`, of `RecordRequest` | TypeCorrect, EscrowIsConserved, PublishedAtMostOnce, RowConsistent, PaymentsReopenNothing | `TypeOK`, what handlers have read (`SeenAccepted`), `EscrowBooks`, `Publications`, `EscrowMatchesPayment`, `FulfilledPublished` |
| the same, of `PaymentIntake` | IntakeImplements, ChargesHeldOnce, EveryChargeAccounted | `Books`, `SuccessBooks`, over the invariant of `RecordRequest` |
| `ServicesProofs`, of `Idempotency` | TypeCorrect, KeyTakesEffectOnce, ReplaysMatch | `TypeOK`, `Ownership`, `Ledger`, `Answers` |
| the same, of `Cache` | NothingStale | `CacheInv`: what is on its way (`FlightInv`), in the process that wrote (`LocalInv`) and in Redis (`RemoteInv`, `TagInv`), against the row |
| the same, of `RateLimit` | AdmissionBounded, UpdateIsFollowed | `RateInv`: types, the counts of the window (`Counts`), the policies the last updater reads (`Takes`) |
| `ResultBatchProofs` | TypeCorrect, IssuesOnApproval, StandingIsExact, StandingIsNeverAhead, SealIsHeld | `TypeOK`; `IssueInv`; `StandingInv`; `UploadBeforeSeal` |
| `AcademicSetupProofs` | TypeCorrect, CurrentSessions, UploadsAreBacked, ScopeChecked | the editors' clears against the current flags; what a call has read of authority; the walk's set `Seen` against the ancestors |
| `ApiAccessProofs` | TypeCorrect, SecretsStayDead, TokensFollowKeys, KeysNeedAccess, OneOpen | secrets are numbered and dead ones are not those of ACTIVE keys; what calls have read agrees with the rows or is an overlap to come |
| the same, of `FounderAccess` | FounderSecretsStayDead, SecondFactor | `FounderInv`: types, the codes issued and their uses (`CodesInv`), the code of each visit (`VisitsInv`), `SecondFactorHolds` |
| `EnrolmentProofs` | TypeCorrect, DecidedOnce, TransfersStayAgreed, ClosedTransfersStay | `TypeInv` (types, rows referred to are there), `Decided`; `AgreeInv`, `ReviewsOpen` |
| `PortalProofs`, of `Membership` | TypeCorrect, InvitesRedeemedOnce, ApplicationsAreSettled, SuspensionsHold | `MemberInv`: types, what calls have read (`CallsRead`), the invitations (`Tokens`), `ApplicationsSettle` |
| the same, of `Access` | AccessTypeCorrect, ViewsAreAllowed, VerificationsBilledOnce, DemandIsCounted | `AccessInv`: types, what inquiries have read (`Seen`), `Views`, `Bills`, `DemandCounted` |

- **JobQueue.** Two arguments, neither of which assumes anything of the operators. Exclusive execution is not
  inductive: that a job is held by one worker says nothing of the copy a worker or an operator will write back. While
  `overtaken = 0`, `Exact` adds that copies agree with the row, and that a dead letter in an operator's hands is
  still dead; then each write by uuid meets the row it expects. LifecycleRefined maps each action to one of
  `JobLifecycle` or a stutter, by the same invariant. Once a requeue was overtaken copies differ and what is left is a
  count: `Tokens`, the workers that hold a job and the ways in which it may still come to one (it waits, it is a
  dead letter, an operator has a copy of the dead letter it was), is at most one, and one more for each overtaken
  requeue. From it follow the first half of `Lease` and, with the reports counted in, SuccessReportedOnce.
  `BudgetInv` says of the attempts that, once a row has had those of its policy, each worker whose failure would
  retry it is owed to a requeue; `CopiesFit` bounds what a stale copy can write back.
- **Notification and WebhookDelivery.** Each step of theirs is a step of the queue or leaves it alone, so the
  composition implements the queue and has its invariants. For a notification, `MessageLedger` counts who may yet
  call the provider: the workers that hold the job the row waits for, and its openings, whether the row was created
  before or after the job ran. For a delivery, `Attended` says that a worker past its query has the job the row
  waits for, and so is alone; `ReturnsSettled`, that a handler which returned left nothing to deliver, so that
  completeJob strands nothing. `EventLedger` is two-valued: before the receiver was told, what was accepted is
  covered by what was not recorded and by retries; after it, one more. These hold up to the first overtaken requeue
  (`DeliveryExact`), which is as far as the theorems go.
- **RecordRequest.** `released + refunded <= confirmed + stale` is not inductive: a refund adds to the left side.
  `EscrowBooks` says in which escrow states one confirmation is still unspent, so that a commit over the row it
  read spends that one, and any other commit adds to `stale`. `Publications` does the same with
  the row's credential. `SeenAccepted` carries a handler's guard from the read to the commit.
- **PaymentIntake.** Every step of the intake is a step of `RecordRequest` or leaves it alone, so its theorems
  hold of the composition. That a charge is held once needs the books of the row: while the row names a charge
  its payment is confirmed, and a job meets it again only after a refund and a reopening.
- **Idempotency.** `Ownership` says that a live record is owned by at most one call; `Ledger` counts
  the effects of dead records by the cleanups; `Answers` ties a stored response to the record's request.
- **Cache.** A stale value may sit in a process, in Redis, or in a command on its way, and each feeds the others.
  Once the row is written and until something overlaps or fails, `FlightInv` and `LocalInv` say that only the new
  version is under way and in the writer; what Redis still has of an older one the deletion under way will reach
  (`RemoteInv`), as its key is in the tag set or about to be added to it (`TagInv`).
- **RateLimit.** `Counts` ties the admitted calls to the count of the window and the greatest limit so far, and needs
  of the cleanup that it never takes a window that is open, whatever age it is asked for. UpdateIsFollowed says of
  a policy what no liveness property can: the process that stored it goes by it at once (`Takes` adds the load it
  may have under way).
- **ResultBatch.** That a standing is exact says nothing of the tallies on their way to it. `StandingInv` adds that
  two open transactions have different batches, that what their rosters have in common is noted with both, and
  that a tally, once made, holds the published batches and its own. `IssueInv` adds that an APPROVED batch has an
  approval no issue has used and that a publication past its check has seen APPROVED; `UploadBeforeSeal` carries
  the number of sealings from the check of ingestResults to its transaction.
- **AcademicSetup.** ScopeChecked needs of a walk no acyclic tree: the visited set with the node at hand is closed
  under `parent` but for that node, so at its end it is the set of ancestors; and each entry of the target is what
  some visited structure of its type has, and is written once one is visited, as long as no structure is updated.
- **ApiAccess.** A secret dies with the key that carries it or with the regeneration that replaces it, and every new
  secret is a new number.
- **FounderAccess.** Every step is one of `ApiAccess` or leaves it alone, so keys are as safe under the founder's
  session. `SecondFactorHolds` needs that a code is still there or was never issued if it has no use (`CodesInv`).
- **Membership.** An invitation in a member's row has been redeemed no more often than calls overlapped, and no two
  rows have the same (`Tokens`): an acceptance over the row it read adds the one that is allowed, and takes the
  invitation out of the row.
- **Access.** A grant that a verification has read let it in (`Seen`), so that a commit over the same row finds room
  for one view; a request on its way to the lead has not reached it, and no two calls have the same.
- **Enrolment.** A count of rollovers says nothing of the calls that will add one. `Decided` says that an ACTIVE
  enrolment has none and `Reads` that a confirmation has read ACTIVE: a commit that finds what it read adds the
  first, and any other is counted. `TransfersAgree` needs more of a transfer than it says: that a REQUESTED one has
  no rollover yet, a DISPUTED one its dispute, and that no two have one rollover (`AgreeInv`), as handlers look for
  the other row by these.

TLC checked these invariants or the theorems' formulas on instances before they were proved. The assumptions
are those named `...Assumption` in the modules, and finiteness of the charges in EveryChargeAccounted.

Every safety invariant and every action property that a passing run checks is the statement of a theorem. Only
model-checked are the liveness properties (`Settles`, `NoticeSettles`, `DeliverySettles`, `StaleDrains`,
`OrphansShow`, `PolicyTakesHold`, `WalksEnd`), which are out of the proof system's reach. No theorem is about
`WorkerHealth`, whose one property is of liveness, nor about `Grading`, whose roll-up is a fold over data.

## 6. Not modelled, and why

- Signatures, hashes, tokens and AIN check digits: cryptographic or pure. A model takes their answer.
- Parsing of bulk uploads and object storage: data conversion, and an external service.
- Audit log, request logging, error formatting: written, never read by a decision.
- The web console: presentation over the API. It keeps nothing the API relies on.
- Statistics, listings, exports, plans, settings of the founder and single-row edits (courses, calendars, profiles):
  each is one read or one write, with no interleaving to get wrong.
- Health probes, start-up, migrations, smoke and release scripts: no state of their own.
- `DomainEvent` rows: appended in the queue's transactions and read by no code; the reports counted in `JobQueue`
  are theirs.
- Replays of webhook deliveries and a second notification: other instances of the same modules.

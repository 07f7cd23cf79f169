---------------------------- MODULE Notification ----------------------------
(***************************************************************************)
(* One Notification row, by email, SMS or push, on top of the job queue.   *)
(* Its jobs are of the types PUSH_NOTIFICATION and SMS_EMAIL_DELIVERY; the *)
(* other rows of the queue are of any other type.                          *)
(*                                                                         *)
(* The queue and the row know little of each other.  A provider that       *)
(* refuses is an error the handler keeps to itself: the row is FAILED and  *)
(* the job succeeds, so it is retryNotification, with a new job, and not   *)
(* the queue, that tries again.  Only an error of the database reaches the *)
(* queue, and neither failOrRetryJob nor retryDeadLetterJob writes the row.*)
(*                                                                         *)
(* createJob commits the job by itself and enqueueNotification creates the *)
(* row in a write of its own, with that job's uuid or none: a worker may   *)
(* have looked for the row before it is there.                             *)
(***************************************************************************)
EXTENDS JobQueue

CONSTANT MaxResends     \* bound: retries of the notification by an operator

ASSUME MaxResendsAssumption == MaxResends \in Nat

VARIABLES
    notice,         \* the row of Notification
    type,           \* type[j]: the type of the job j, as far as this module asks
    step,           \* step[w]: where w is in deliverPendingForJob
    resending,      \* resending[a]: a is past the checks of retryNotification
    unsought,       \* history: no job was left to look for the row when it was created
    sent,           \* history: messages the provider accepted
    unrecordedSends,    \* history: accepted messages that were not recorded as SENT
    resends         \* history: retries of the notification by an operator

noticeVars == <<notice, type, step, resending, unsought, sent, unrecordedSends, resends>>

allNoticeVars == <<vars, noticeVars>>

-----------------------------------------------------------------------------
Notice == [status : {"ABSENT", "PENDING", "SENT", "FAILED"}, jobId : Jobs \cup {NoJob}]

\* "find": before the findMany; "send": before the provider is called; "sent",
\* "refused": before the update that records what came of it.
Step == {"find", "send", "sent", "refused"}

NoticeTypeOK ==
    /\ TypeOK
    /\ notice \in Notice
    /\ type \in [Jobs -> {"other", "notification"}]
    /\ step \in [Workers -> Step]
    /\ \A w \in Workers : step[w] # "find" => wk[w].pc = "processing"
    /\ resending \in [Admins -> BOOLEAN]
    /\ unsought \in BOOLEAN
    /\ {sent, unrecordedSends} \subseteq Nat
    /\ resends \in 0 .. MaxResends

NoticeInit ==
    /\ Init
    /\ notice = [status |-> "ABSENT", jobId |-> NoJob]
    /\ type = [j \in Jobs |-> "other"]
    /\ step = [w \in Workers |-> "find"]
    /\ resending = [a \in Admins |-> FALSE]
    /\ unsought = FALSE
    /\ sent = 0
    /\ unrecordedSends = 0
    /\ resends = 0

-----------------------------------------------------------------------------
\* A job that sends notifications, to run now or later.
EnqueueNoticeJob(j) ==
    /\ Enqueue(j)
    /\ type' = [type EXCEPT ![j] = "notification"]

\* QueueService.createJob, for such a job: it is committed without the row.
CreateNoticeJob(j) ==
    /\ EnqueueNoticeJob(j)
    /\ UNCHANGED <<notice, step, resending, unsought, sent, unrecordedSends, resends>>

\* No worker looks for a row of j from now on: it is of another type, or it has
\* succeeded, or its handler has just returned.
PastSearch(j) ==
    \/ type[j] = "other"
    \/ job[j].status = "SUCCEEDED"
    \/ \E w \in Workers : Holds(w, j) /\ wk[w].pc = "completing"

\* QueueService.enqueueNotification, for a job created before, or for none.
\* Nothing is asked of the job but that it exists.
EnqueueNotice ==
    /\ notice.status = "ABSENT"
    /\ \/ \E j \in Jobs :
             /\ job[j].status # "ABSENT"
             /\ notice' = [status |-> "PENDING", jobId |-> j]
             /\ unsought' = PastSearch(j)
       \/ /\ notice' = [status |-> "PENDING", jobId |-> NoJob]
          /\ unsought' = TRUE
    /\ UNCHANGED <<vars, type, step, resending, sent, unrecordedSends, resends>>

\* Mutant of NoticePendingFor: the job's notifications, in whatever status.
NoticeOf(j) == notice.jobId = j

\* The findMany of deliverPendingForJob.
NoticePendingFor(j) == notice.jobId = j /\ notice.status = "PENDING"

NoticeAt(w, s) ==
    /\ wk[w].pc = "processing"
    /\ type[wk[w].job] = "notification"
    /\ step[w] = s

\* A notification that is not pending any more is no error.
FindNotice(w) ==
    /\ NoticeAt(w, "find")
    /\ \/ /\ NoticePendingFor(wk[w].job)
          /\ step' = [step EXCEPT ![w] = "send"]
          /\ UNCHANGED vars
       \/ /\ ~NoticePendingFor(wk[w].job)
          /\ Returns(w)
          /\ UNCHANGED step
    /\ UNCHANGED <<notice, type, resending, unsought, sent, unrecordedSends, resends>>

\* send: the provider accepts (a dry run does too); there is no destination or
\* no provider, or it refuses; or it accepts and its answer does not come.
Send(w) ==
    /\ NoticeAt(w, "send")
    /\ \/ /\ sent' = sent + 1
          /\ step' = [step EXCEPT ![w] = "sent"]
          /\ UNCHANGED unrecordedSends
       \/ /\ step' = [step EXCEPT ![w] = "refused"]
          /\ UNCHANGED <<sent, unrecordedSends>>
       \/ /\ sent' = sent + 1
          /\ unrecordedSends' = unrecordedSends + 1
          /\ step' = [step EXCEPT ![w] = "refused"]
    /\ UNCHANGED <<vars, notice, type, resending, unsought, resends>>

\* deliverOne's update after the send, by uuid.  When it throws, the catch of
\* deliverOne takes it for a send that failed.
RecordSent(w) ==
    /\ NoticeAt(w, "sent")
    /\ \/ /\ notice' = [notice EXCEPT !.status = "SENT"]
          /\ step' = [step EXCEPT ![w] = "find"]
          /\ Returns(w)
          /\ UNCHANGED unrecordedSends
       \/ /\ unrecordedSends' = unrecordedSends + 1
          /\ step' = [step EXCEPT ![w] = "refused"]
          /\ UNCHANGED <<vars, notice>>
    /\ UNCHANGED <<type, resending, unsought, sent, resends>>

\* The update in the catch of deliverOne: the job goes on to succeed.
RecordRefused(w) ==
    /\ NoticeAt(w, "refused")
    /\ notice' = [notice EXCEPT !.status = "FAILED"]
    /\ step' = [step EXCEPT ![w] = "find"]
    /\ Returns(w)
    /\ UNCHANGED <<type, resending, unsought, sent, unrecordedSends, resends>>

\* The findMany, or the update in the catch, throws.
NoticeError(w) ==
    /\ NoticeAt(w, "find") \/ NoticeAt(w, "refused")
    /\ Throws(w)
    /\ step' = [step EXCEPT ![w] = "find"]
    /\ UNCHANGED <<notice, type, resending, unsought, sent, unrecordedSends, resends>>

CrashNotice(w) ==
    /\ Crash(w)
    /\ unrecordedSends' = IF step[w] = "sent" THEN unrecordedSends + 1 ELSE unrecordedSends
    /\ step' = [step EXCEPT ![w] = "find"]
    /\ UNCHANGED <<notice, type, resending, unsought, sent, resends>>

\* retryNotification, up to its checks, on a read outside the transaction ...
ReadNotice(a) ==
    /\ ~resending[a]
    /\ notice.status = "FAILED"
    /\ resending' = [resending EXCEPT ![a] = TRUE]
    /\ UNCHANGED <<vars, notice, type, step, unsought, sent, unrecordedSends, resends>>

\* Mutant of Resend: the notification stays with the job that is over.
ResendKeepsJobId(a, j) ==
    /\ resending[a]
    /\ resends < MaxResends
    /\ resends' = resends + 1
    /\ EnqueueNoticeJob(j)
    /\ job'[j].runAfter = "due"
    /\ notice' = [notice EXCEPT !.status = "PENDING"]
    /\ resending' = [resending EXCEPT ![a] = FALSE]
    /\ UNCHANGED <<step, unsought, sent, unrecordedSends>>

\* ... and its transaction: a new job, and the notification handed over to it.
Resend(a, j) ==
    /\ resending[a]
    /\ resends < MaxResends
    /\ resends' = resends + 1
    /\ EnqueueNoticeJob(j)
    /\ job'[j].runAfter = "due"
    /\ notice' = [status |-> "PENDING", jobId |-> j]
    /\ resending' = [resending EXCEPT ![a] = FALSE]
    /\ UNCHANGED <<step, unsought, sent, unrecordedSends>>

-----------------------------------------------------------------------------
\* The handlers of the other types, as JobQueue has them.
ProcessOther(w) ==
    /\ wk[w].pc = "processing"
    /\ type[wk[w].job] = "other"
    /\ Process(w)

NoticeQueueStep(w) ==
    /\ \/ \E j \in Jobs : Claim(w, j)
       \/ ProcessOther(w)
       \/ Complete(w)
       \/ CompleteRolledBack(w)
       \/ CompleteAckLost(w)
       \/ FailOrRetry(w)
    /\ UNCHANGED noticeVars

NoticeWorkerStep(w) ==
    \/ NoticeQueueStep(w)
    \/ FindNotice(w)
    \/ Send(w)
    \/ RecordSent(w)
    \/ RecordRefused(w)
    \/ NoticeError(w)

NoticeBecomesDue(j) == BecomeDue(j) /\ UNCHANGED noticeVars

NoticeNext ==
    \/ \E j \in Jobs :
          \/ Enqueue(j) /\ UNCHANGED noticeVars
          \/ CreateNoticeJob(j)
          \/ NoticeBecomesDue(j)
    \/ EnqueueNotice
    \/ \E w \in Workers :
          \/ NoticeWorkerStep(w)
          \/ CrashNotice(w)
          \/ Restart(w) /\ UNCHANGED noticeVars
    \/ \E a \in Admins :
          \/ RequeueDeadLetter(a) /\ UNCHANGED noticeVars
          \/ ReadNotice(a)
          \/ \E j \in Jobs : ReadDeadLetter(a, j) /\ UNCHANGED noticeVars
          \/ \E j \in Jobs : Resend(a, j)

NoticeSpec == NoticeInit /\ [][NoticeNext]_allNoticeVars

\* The fairness of JobQueue, step for step; every call of a provider is bounded
\* by ACADID_NOTIFICATION_TIMEOUT_MS.
NoticeFairness ==
    /\ \A j \in Jobs : WF_allNoticeVars(NoticeBecomesDue(j))
    /\ \A w \in Workers : WF_allNoticeVars(NoticeWorkerStep(w))

FairNoticeSpec == NoticeSpec /\ NoticeFairness

-----------------------------------------------------------------------------
\* Nobody is told the same thing twice without a reason: every accepted message
\* beyond the first is owed to one that could not be recorded as SENT, to an
\* operator's retry of the notification, or to a requeue of its job that another
\* one overtook; never to the queue running the job again.
NoticeSentOnce == sent <= 1 + unrecordedSends + resends + overtaken

\* A notification does not wait for a job that is over: it is sent, or FAILED and
\* so in reach of retryNotification, or its job is a dead letter, in reach of
\* retryDeadLetterJob, or the process that ran the job ended.  The exception is
\* the row that was created when no job was left to look for it: it may stay
\* PENDING for ever, where retryNotification refuses it.
NoticeSettles ==
    notice.status = "PENDING" ~>
        \/ notice.status # "PENDING"
        \/ \E j \in Jobs :
              notice.jobId = j /\ (job[j].status = "FAILED" \/ Orphaned(j))
        \/ unsought
=============================================================================

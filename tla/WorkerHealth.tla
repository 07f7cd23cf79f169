----------------------------- MODULE WorkerHealth -----------------------------
(***************************************************************************)
(* What the founder's system health tells of the job workers: the          *)
(* heartbeats that runOnce, startLoop and the shutdown of the process      *)
(* write, the jobs the workers leave behind, and checkQueueWorkers, which  *)
(* reads both.                                                             *)
(*                                                                         *)
(* No code returns a RUNNING job to the queue when its worker is gone      *)
(* (JobQueue), so this check is what its operators have.  A heartbeat may  *)
(* fail and is then skipped; the signal handler writes STOPPED while the   *)
(* loop runs on until the process ends.                                    *)
(***************************************************************************)
CONSTANTS
    Workers,   \* worker ids (ACADID_WORKER_ID), each of one process at a time
    Tasks      \* jobs of the queue

VARIABLES
    process,   \* process[w]: where the process of w is in runOnce, or "down"
    holds,     \* holds[w]: the job it has claimed, or NoTask
    stopping,  \* stopping[w]: it has had the signal to stop
    beat,      \* beat[w]: the status of its heartbeat row
    stale,     \* stale[w]: the row was last seen two minutes ago
    task,      \* task[j]: the status of the row of a job
    aged,      \* aged[j]: locked 15 minutes ago or, if FAILED, failed a day ago
    seen       \* jobs an operator has seen FAILED, to requeue them

fleet == <<process, holds, stopping>>

healthVars == <<fleet, beat, stale, task, aged, seen>>

-----------------------------------------------------------------------------
NoTask == "none"

Stages == {"down", "idle", "claimed", "working", "settled"}

\* "WAITING" stands for QUEUED and RETRYING, due or not.
TaskStatus == {"WAITING", "RUNNING", "SUCCEEDED", "FAILED"}

HealthTypeOK ==
    /\ process \in [Workers -> Stages]
    /\ holds \in [Workers -> Tasks \cup {NoTask}]
    /\ beat \in [Workers -> {"NONE", "ACTIVE", "STOPPED"}]
    /\ {stopping, stale} \subseteq [Workers -> BOOLEAN]
    /\ task \in [Tasks -> TaskStatus]
    /\ aged \in [Tasks -> BOOLEAN]
    /\ seen \subseteq Tasks

HealthInit ==
    /\ process = [w \in Workers |-> "down"]
    /\ holds = [w \in Workers |-> NoTask]
    /\ stopping = [w \in Workers |-> FALSE]
    /\ beat = [w \in Workers |-> "NONE"]
    /\ stale = [w \in Workers |-> FALSE]
    /\ task = [j \in Tasks |-> "WAITING"]
    /\ aged = [j \in Tasks |-> FALSE]
    /\ seen = {}

-----------------------------------------------------------------------------
\* recordHeartbeat: an upsert whose failure is logged and forgotten.  A heartbeat
\* of the loop knows nothing of the signal and writes ACTIVE over STOPPED.
Heartbeat(w, status) ==
    \/ /\ beat' = [beat EXCEPT ![w] = status]
       /\ stale' = [stale EXCEPT ![w] = FALSE]
    \/ UNCHANGED <<beat, stale>>

Start(w) ==
    /\ process[w] = "down"
    /\ process' = [process EXCEPT ![w] = "idle"]
    /\ Heartbeat(w, "ACTIVE")
    /\ UNCHANGED <<holds, stopping, task, aged, seen>>

\* runOnce begins, or finds no job.
BeatIdle(w) ==
    /\ process[w] = "idle"
    /\ Heartbeat(w, "ACTIVE")
    /\ UNCHANGED <<fleet, task, aged, seen>>

\* claimNextJob.
ClaimTask(w, j) ==
    /\ process[w] = "idle" /\ task[j] = "WAITING"
    /\ process' = [process EXCEPT ![w] = "claimed"]
    /\ holds' = [holds EXCEPT ![w] = j]
    /\ task' = [task EXCEPT ![j] = "RUNNING"]
    /\ aged' = [aged EXCEPT ![j] = FALSE]
    /\ UNCHANGED <<stopping, beat, stale, seen>>

BeatClaimed(w) ==
    /\ process[w] = "claimed"
    /\ process' = [process EXCEPT ![w] = "working"]
    /\ Heartbeat(w, "ACTIVE")
    /\ UNCHANGED <<holds, stopping, task, aged, seen>>

\* completeJob, or failOrRetryJob: by uuid, whatever the row is by then.
Settle(w) ==
    /\ process[w] = "working"
    /\ process' = [process EXCEPT ![w] = "settled"]
    /\ \E s \in TaskStatus \ {"RUNNING"} : task' = [task EXCEPT ![holds[w]] = s]
    /\ aged' = [aged EXCEPT ![holds[w]] = FALSE]
    /\ holds' = [holds EXCEPT ![w] = NoTask]
    /\ UNCHANGED <<stopping, beat, stale, seen>>

\* The heartbeat of finally.
BeatSettled(w) ==
    /\ process[w] = "settled"
    /\ process' = [process EXCEPT ![w] = "idle"]
    /\ Heartbeat(w, "ACTIVE")
    /\ UNCHANGED <<holds, stopping, task, aged, seen>>

Ends(w) ==
    /\ process' = [process EXCEPT ![w] = "down"]
    /\ holds' = [holds EXCEPT ![w] = NoTask]
    /\ stopping' = [stopping EXCEPT ![w] = FALSE]
    /\ UNCHANGED <<task, aged, seen>>

\* failOrRetryJob fails too: finally writes its heartbeat, and the error ends
\* startLoop and the process.
GiveUp(w) ==
    /\ process[w] = "working"
    /\ Heartbeat(w, "ACTIVE")
    /\ Ends(w)

\* The process ends: a crash, or the exit after the signal.
End(w) ==
    /\ process[w] # "down"
    /\ Ends(w)
    /\ UNCHANGED <<beat, stale>>

\* markWorkerStopped, on a signal or with --once; then the process closes.
Shutdown(w) ==
    /\ process[w] # "down" /\ ~stopping[w]
    /\ stopping' = [stopping EXCEPT ![w] = TRUE]
    /\ Heartbeat(w, "STOPPED")
    /\ UNCHANGED <<process, holds, task, aged, seen>>

-----------------------------------------------------------------------------
\* Two minutes without a heartbeat.
HeartbeatAges(w) ==
    /\ beat[w] # "NONE"
    /\ stale' = [stale EXCEPT ![w] = TRUE]
    /\ UNCHANGED <<fleet, beat, task, aged, seen>>

\* 15 minutes of a lock, a day of a failure.
TaskAges(j) ==
    /\ task[j] \in {"RUNNING", "FAILED"} /\ ~aged[j]
    /\ aged' = [aged EXCEPT ![j] = TRUE]
    /\ UNCHANGED <<fleet, beat, stale, task, seen>>

\* retryDeadLetterJob, up to its check, on a read outside the transaction ...
SeeFailed(j) ==
    /\ task[j] = "FAILED"
    /\ seen' = seen \cup {j}
    /\ UNCHANGED <<fleet, beat, stale, task, aged>>

\* ... and its update, by uuid: lockedAt and failedAt are null.
RequeueTask(j) ==
    /\ j \in seen
    /\ seen' = seen \ {j}
    /\ task' = [task EXCEPT ![j] = "WAITING"]
    /\ aged' = [aged EXCEPT ![j] = FALSE]
    /\ UNCHANGED <<fleet, beat, stale>>

HealthNext ==
    \/ \E w \in Workers :
        \/ Start(w)
        \/ BeatIdle(w) \/ BeatClaimed(w) \/ BeatSettled(w)
        \/ \E j \in Tasks : ClaimTask(w, j)
        \/ Settle(w) \/ GiveUp(w)
        \/ Shutdown(w) \/ End(w)
        \/ HeartbeatAges(w)
    \/ \E j \in Tasks : TaskAges(j) \/ SeeFailed(j) \/ RequeueTask(j)

-----------------------------------------------------------------------------
(* checkQueueWorkers. *)

StaleWorker(w) == beat[w] = "ACTIVE" /\ stale[w]

Held(j) == \E w \in Workers : holds[w] = j

\* Mutant of StaleRunning: only jobs of workers that are there are counted.
StaleRunningHeld(j) == task[j] = "RUNNING" /\ aged[j] /\ Held(j)

StaleRunning(j) == task[j] = "RUNNING" /\ aged[j]

FailedToday(j) == task[j] = "FAILED" /\ ~aged[j]

\* A backlog of more than 500 jobs is left out.
Degraded ==
    \/ \E w \in Workers : StaleWorker(w)
    \/ \E j \in Tasks : StaleRunning(j) \/ FailedToday(j)

-----------------------------------------------------------------------------
Orphaned(j) == task[j] = "RUNNING" /\ ~Held(j)

\* A job left RUNNING by a process that ended, which no worker will ever claim, is
\* shown for good: workers that are well, other jobs that succeed and heartbeats
\* written over the dead worker's row do not hide it.
OrphansShow == \A j \in Tasks : <>[]Orphaned(j) => <>[]Degraded
=============================================================================

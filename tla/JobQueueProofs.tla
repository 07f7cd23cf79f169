--------------------------- MODULE JobQueueProofs ---------------------------
(***************************************************************************)
(* Proofs about JobQueue, and about Notification and WebhookDelivery on    *)
(* top of it, for every number of jobs, workers, crashes and operators.    *)
(*                                                                         *)
(* Two arguments meet here.  As long as no requeue was overtaken by        *)
(* another one of the same row (overtaken = 0), what a worker or an        *)
(* operator remembers of a row is the row (Exact).  After that copies may  *)
(* differ, and what remains is a count: the workers that hold a job and    *)
(* the ways in which it may still be put in line are never more than one   *)
(* and one for each overtaken requeue (Tokens).                            *)
(***************************************************************************)
EXTENDS Notification, WebhookDelivery, FiniteSetTheorems, TLAPS

-----------------------------------------------------------------------------
(* The updates of one row. *)

\* claimNextJob makes a row a row: RUNNING, locked, one attempt more.
LEMMA ClaimedRow ==
    ASSUME NEW r \in Row, NEW w \in Workers
    PROVE  /\ Claimed(r, w) \in Row
           /\ Claimed(r, w).status = "RUNNING"
           /\ Claimed(r, w).lockedBy = w
           /\ Claimed(r, w).attempts = r.attempts + 1
           /\ Claimed(r, w).maxAttempts = r.maxAttempts
<1>1. ASSUME NEW n \in Nat
      PROVE  LET c == [r EXCEPT !.status = "RUNNING", !.lockedBy = w, !.attempts = n]
             IN  /\ c \in Row
                 /\ c.status = "RUNNING"
                 /\ c.lockedBy = w
                 /\ c.attempts = n
                 /\ c.maxAttempts = r.maxAttempts
  BY DEF Row, Status
<1>2. r.attempts + 1 \in Nat
  BY DEF Row
<1>3. QED
  BY <1>1, <1>2 DEF Claimed

\* completeJob and failOrRetryJob end an execution and keep the counts.
LEMMA ReleasedRow ==
    ASSUME NEW r \in Row, NEW s \in Status
    PROVE  /\ Released(r, s) \in Row
           /\ Released(r, s).status = s
           /\ Released(r, s).attempts = r.attempts
           /\ Released(r, s).maxAttempts = r.maxAttempts
BY DEF Row, Released

\* failOrRetryJob and retryDeadLetterJob put a row back in line.
LEMMA RescheduledRow ==
    ASSUME NEW r \in Row, NEW t \in {"due", "later"}, NEW m \in Nat
    PROVE  /\ Rescheduled(r, t, m) \in Row
           /\ Rescheduled(r, t, m).status = "RETRYING"
           /\ Rescheduled(r, t, m).attempts = r.attempts
           /\ Rescheduled(r, t, m).maxAttempts = m
BY DEF Row, Rescheduled, Status

\* A new row, and a row whose runAfter has passed.
LEMMA NewRow ==
    ASSUME NEW j \in Jobs, NEW t \in {"due", "later"}
    PROVE  LET r == [NoRow EXCEPT !.status = "QUEUED", !.maxAttempts = PolicyMax[j],
                                  !.runAfter = t]
           IN  /\ r \in Row
               /\ r.status = "QUEUED"
               /\ r.attempts = 0
               /\ r.maxAttempts = PolicyMax[j]
BY JobQueueAssumption DEF Row, NoRow, Status

\* A row whose runAfter has passed: nothing else of it changes.
LEMMA DueRow ==
    ASSUME NEW r \in Row
    PROVE  LET d == [r EXCEPT !.runAfter = "due"]
           IN  /\ d \in Row
               /\ d.status = r.status
               /\ d.lockedBy = r.lockedBy
               /\ d.attempts = r.attempts
               /\ d.maxAttempts = r.maxAttempts
BY DEF Row

-----------------------------------------------------------------------------
(* Type correctness. *)

\* An empty table, idle workers, no operator.
LEMMA InitTypeOK == Init => TypeOK
BY JobQueueAssumption
   DEF Init, TypeOK, Row, NoRow, Status, Worker, Idle, Busy, Errors, Snapshot, NoSnapshot

\* Every step of a producer, a worker or an operator keeps the types.
LEMMA NextTypeOK == TypeOK /\ [Next]_vars => TypeOK'
<1> SUFFICES ASSUME TypeOK, [Next]_vars PROVE TypeOK'
  OBVIOUS
<1> USE JobQueueAssumption DEF TypeOK
<1>1. ASSUME NEW j \in Jobs, Enqueue(j) PROVE TypeOK'
  <2>1. PICK t \in {"due", "later"} :
          job' = [job EXCEPT ![j] = [NoRow EXCEPT !.status = "QUEUED",
                                                  !.maxAttempts = PolicyMax[j],
                                                  !.runAfter = t]]
    BY <1>1 DEF Enqueue
  <2>2. job' \in [Jobs -> Row]
    BY <2>1, NewRow
  <2>3. QED
    BY <1>1, <2>2 DEF Enqueue
<1>2. ASSUME NEW j \in Jobs, BecomeDue(j) PROVE TypeOK'
  BY <1>2, DueRow DEF BecomeDue
<1>3. ASSUME NEW w \in Workers, NEW j \in Jobs, Claim(w, j) PROVE TypeOK'
  <2>1. job' \in [Jobs -> Row]
    BY <1>3, ClaimedRow DEF Claim
  <2>2. wk' \in [Workers -> Worker] /\ \A v \in Workers : wk'[v].pc \in Busy => wk'[v].job \in Jobs
    BY <1>3 DEF Claim, Worker, Busy, Errors, Row
  <2>3. QED
    BY <1>3, <2>1, <2>2 DEF Claim
<1>4. ASSUME NEW w \in Workers, Process(w) PROVE TypeOK'
  <2>1. CASE wk' = [wk EXCEPT ![w] = [@ EXCEPT !.pc = "completing", !.error = "none"]]
    <3>1. wk[w].pc \in Busy /\ "none" \in Errors
      BY <1>4 DEF Process, Busy, Errors
    <3>2. [wk[w] EXCEPT !.pc = "completing", !.error = "none"] \in Worker
      BY <3>1 DEF Worker
    <3>3. wk' \in [Workers -> Worker] /\ \A v \in Workers : wk'[v].pc \in Busy => wk'[v].job \in Jobs
      BY <2>1, <3>1, <3>2 DEF Worker
    <3>4. QED
      BY <1>4, <3>3 DEF Process
  <2>2. ASSUME NEW e \in {"transient", "fatal"},
               wk' = [wk EXCEPT ![w] = [@ EXCEPT !.pc = "failing", !.error = e]]
        PROVE  TypeOK'
    <3>1. wk[w].pc \in Busy /\ e \in Errors
      BY <1>4 DEF Process, Busy, Errors
    <3>2. [wk[w] EXCEPT !.pc = "failing", !.error = e] \in Worker
      BY <3>1 DEF Worker
    <3>3. wk' \in [Workers -> Worker] /\ \A v \in Workers : wk'[v].pc \in Busy => wk'[v].job \in Jobs
      BY <2>2, <3>1, <3>2 DEF Worker
    <3>4. QED
      BY <1>4, <3>3 DEF Process
  <2>3. QED
    BY <1>4, <2>1, <2>2 DEF Process
<1>5. ASSUME NEW w \in Workers, StoreSuccess(wk[w].job), wk[w].pc = "completing"
      PROVE  job' \in [Jobs -> Row] /\ reports' \in [Jobs -> Nat]
  BY <1>5, ReleasedRow DEF StoreSuccess, Busy, Status
<1>6. ASSUME NEW w \in Workers, Complete(w) PROVE TypeOK'
  BY <1>5, <1>6 DEF Complete, Idle, Worker, Busy, Errors
<1>7. ASSUME NEW w \in Workers, CompleteRolledBack(w) PROVE TypeOK'
  BY <1>7 DEF CompleteRolledBack, Worker, Busy, Errors
<1>8. ASSUME NEW w \in Workers, CompleteAckLost(w) PROVE TypeOK'
  <2>1. wk' \in [Workers -> Worker] /\ \A v \in Workers : wk'[v].pc \in Busy => wk'[v].job \in Jobs
    BY <1>8 DEF CompleteAckLost, Worker, Busy, Errors
  <2>2. lostAcks' \in 0 .. MaxLostAcks
    BY <1>8 DEF CompleteAckLost
  <2>3. QED
    BY <1>5, <1>8, <2>1, <2>2 DEF CompleteAckLost
<1>9. ASSUME NEW w \in Workers, FailOrRetry(w) PROVE TypeOK'
  <2>1. wk[w].job \in Jobs /\ wk[w].error \in Errors
    BY <1>9 DEF FailOrRetry, Worker, Busy
  <2>2. job[wk[w].job] \in Row /\ job[wk[w].job].maxAttempts \in Nat
    BY <2>1 DEF Row
  <2>3. job' \in [Jobs -> Row]
    <3>1. \/ job' = [job EXCEPT ![wk[w].job] = Rescheduled(@, "later", @.maxAttempts)]
          \/ job' = [job EXCEPT ![wk[w].job] = Released(@, "FAILED")]
      BY <1>9 DEF FailOrRetry
    <3>2. /\ Rescheduled(job[wk[w].job], "later", job[wk[w].job].maxAttempts) \in Row
          /\ Released(job[wk[w].job], "FAILED") \in Row
      BY <2>2, ReleasedRow, RescheduledRow DEF Status
    <3>3. QED
      BY <2>1, <3>1, <3>2
  <2>4. failure' \in [Jobs -> Errors]
    BY <1>9, <2>1 DEF FailOrRetry
  <2>5. wk' \in [Workers -> Worker] /\ \A v \in Workers : wk'[v].pc \in Busy => wk'[v].job \in Jobs
    BY <1>9 DEF FailOrRetry, Idle, Worker, Busy, Errors
  <2>6. QED
    BY <1>9, <2>3, <2>4, <2>5 DEF FailOrRetry
<1>10. ASSUME NEW w \in Workers, Crash(w) PROVE TypeOK'
  BY <1>10 DEF Crash, Idle, Worker, Busy, Errors
<1>11. ASSUME NEW w \in Workers, Restart(w) PROVE TypeOK'
  BY <1>11 DEF Restart, Idle, Worker, Busy, Errors
<1>12. ASSUME NEW a \in Admins, NEW j \in Jobs, ReadDeadLetter(a, j) PROVE TypeOK'
  BY <1>12 DEF ReadDeadLetter, Row, Snapshot
<1>13. ASSUME NEW a \in Admins, RequeueDeadLetter(a) PROVE TypeOK'
  <2>1. adm[a].job \in Jobs
    BY <1>13 DEF RequeueDeadLetter, Snapshot
  <2>2. PICK m \in {adm[a].maxAttempts, adm[a].attempts + 1, PolicyMax[adm[a].job]} :
          job' = [job EXCEPT ![adm[a].job] = Rescheduled(@, "due", m)]
    BY <1>13 DEF RequeueDeadLetter
  <2>3. m \in Nat
    BY <2>1 DEF Snapshot
  <2>4. job' \in [Jobs -> Row]
    BY <2>1, <2>2, <2>3, RescheduledRow
  <2>5. adm' \in [Admins -> Snapshot]
    BY <1>13 DEF RequeueDeadLetter, Snapshot, NoSnapshot
  <2>6. revivals' \in 0 .. MaxRevivals
    BY <1>13 DEF RequeueDeadLetter
  <2>7. overtaken' \in 0 .. revivals'
    BY <1>13 DEF RequeueDeadLetter
  <2>8. crossed' \in [Admins -> BOOLEAN]
    BY <1>13, Zenon DEF RequeueDeadLetter
  <2>9. QED
    BY <1>13, <2>4, <2>5, <2>6, <2>7, <2>8 DEF RequeueDeadLetter
<1>14. ASSUME UNCHANGED vars PROVE TypeOK'
  BY <1>14 DEF vars
<1>15. QED
  BY <1>1, <1>2, <1>3, <1>4, <1>6, <1>7, <1>8, <1>9, <1>10, <1>11, <1>12, <1>13, <1>14
     DEF Next, WorkerStep

\* Every reachable state of the queue is well typed: the counts stay natural
\* numbers, and a worker that works has a job (claimNextJob, runOnce).
THEOREM TypeCorrect == Spec => []TypeOK
BY InitTypeOK, NextTypeOK, PTL DEF Spec

-----------------------------------------------------------------------------
(* Rows and copies, whatever was overtaken. *)

\* What an update of one row leaves of the table.
LEMMA RowsAfter ==
    ASSUME TypeOK, NEW j \in Jobs, NEW r, job' = [job EXCEPT ![j] = r]
    PROVE  /\ job'[j] = r
           /\ \A k \in Jobs : k # j => job'[k] = job[k]
BY DEF TypeOK

\* What a step of one worker leaves of the workers.
LEMMA WorkersAfter ==
    ASSUME TypeOK, NEW w \in Workers, NEW x, wk' = [wk EXCEPT ![w] = x]
    PROVE  /\ wk'[w] = x
           /\ \A v \in Workers : v # w => wk'[v] = wk[v]
BY DEF TypeOK

\* A worker that moves within a job keeps the copy it claimed.
LEMMA CopyKept ==
    ASSUME NEW x \in Worker, NEW pc, NEW e
    PROVE  LET y == [x EXCEPT !.pc = pc, !.error = e]
           IN  /\ y.pc = pc /\ y.error = e
               /\ y.job = x.job
               /\ y.attempts = x.attempts /\ y.maxAttempts = x.maxAttempts
BY DEF Worker

\* The rest of processJob, and what follows a transaction that failed.
LEMMA StaysBusy ==
    ASSUME TypeOK, NEW w \in Workers,
           Process(w) \/ CompleteRolledBack(w) \/ CompleteAckLost(w)
    PROVE  /\ wk[w].pc \in Busy /\ wk'[w].pc \in Busy
           /\ wk'[w].job = wk[w].job
           /\ wk'[w].attempts = wk[w].attempts
           /\ wk'[w].maxAttempts = wk[w].maxAttempts
           /\ \A v \in Workers : v # w => wk'[v] = wk[v]
<1>1. wk[w] \in Worker /\ wk[w].pc \in Busy
  BY DEF TypeOK, Process, CompleteRolledBack, CompleteAckLost, Busy
<1>2. PICK pc \in Busy, e \in Errors :
        wk' = [wk EXCEPT ![w] = [wk[w] EXCEPT !.pc = pc, !.error = e]]
  BY DEF Process, CompleteRolledBack, CompleteAckLost, Busy, Errors
<1> DEFINE y == [wk[w] EXCEPT !.pc = pc, !.error = e]
<1>3. y.pc = pc /\ y.job = wk[w].job
      /\ y.attempts = wk[w].attempts /\ y.maxAttempts = wk[w].maxAttempts
  BY <1>1, CopyKept
<1>4. wk' = [wk EXCEPT ![w] = y]
  BY <1>2
<1> HIDE DEF y
<1>5. wk'[w] = y /\ \A v \in Workers : v # w => wk'[v] = wk[v]
  BY <1>4, WorkersAfter
<1> QED BY <1>1, <1>2, <1>3, <1>5

\* A worker that lets its job go, or had none.
LEMMA LetsGo ==
    ASSUME TypeOK, NEW w \in Workers,
           Complete(w) \/ FailOrRetry(w) \/ Crash(w) \/ Restart(w)
    PROVE  /\ wk'[w].pc \notin Busy
           /\ \A v \in Workers : v # w => wk'[v] = wk[v]
BY DEF TypeOK, Complete, FailOrRetry, Crash, Restart, Idle, Busy

\* The claim.
LEMMA ClaimTakes ==
    ASSUME TypeOK, NEW w \in Workers, NEW j \in Jobs, Claim(w, j)
    PROVE  /\ job[j].status \in Waiting /\ job'[j] = Claimed(job[j], w)
           /\ job'[j].status = "RUNNING"
           /\ job'[j].attempts = job[j].attempts + 1
           /\ job'[j].maxAttempts = job[j].maxAttempts
           /\ \A k \in Jobs : k # j => job'[k] = job[k]
           /\ wk[w].pc = "idle"
           /\ wk'[w].pc = "processing" /\ wk'[w].job = j /\ wk'[w].error = "none"
           /\ wk'[w].attempts = job[j].attempts + 1
           /\ wk'[w].maxAttempts = job[j].maxAttempts
           /\ \A v \in Workers : v # w => wk'[v] = wk[v]
<1>1. job' = [job EXCEPT ![j] = Claimed(job[j], w)] /\ job[j] \in Row
  BY DEF Claim, TypeOK
<1>2. job'[j] = Claimed(job[j], w) /\ \A k \in Jobs : k # j => job'[k] = job[k]
  BY <1>1, RowsAfter
<1>3. /\ Claimed(job[j], w).status = "RUNNING"
      /\ Claimed(job[j], w).attempts = job[j].attempts + 1
      /\ Claimed(job[j], w).maxAttempts = job[j].maxAttempts
  BY <1>1, ClaimedRow
<1>4. /\ wk'[w].pc = "processing" /\ wk'[w].job = j /\ wk'[w].error = "none"
      /\ wk'[w].attempts = job[j].attempts + 1
      /\ wk'[w].maxAttempts = job[j].maxAttempts
      /\ \A v \in Workers : v # w => wk'[v] = wk[v]
  BY DEF Claim, TypeOK
<1> QED BY <1>2, <1>3, <1>4 DEF Claim, FirstInLine, Eligible

\* completeJob's update of the row, and its event.
LEMMA SuccessStored ==
    ASSUME TypeOK, NEW w \in Workers, Complete(w) \/ CompleteAckLost(w)
    PROVE  /\ wk[w].job \in Jobs
           /\ job'[wk[w].job] = Released(job[wk[w].job], "SUCCEEDED")
           /\ job'[wk[w].job].status = "SUCCEEDED"
           /\ job'[wk[w].job].attempts = job[wk[w].job].attempts
           /\ job'[wk[w].job].maxAttempts = job[wk[w].job].maxAttempts
           /\ \A k \in Jobs : k # wk[w].job => job'[k] = job[k] /\ reports'[k] = reports[k]
           /\ reports'[wk[w].job] = reports[wk[w].job] + 1
<1>1. wk[w].job \in Jobs /\ StoreSuccess(wk[w].job) /\ job[wk[w].job] \in Row
  BY DEF TypeOK, Complete, CompleteAckLost, Busy
<1>2. job' = [job EXCEPT ![wk[w].job] = Released(job[wk[w].job], "SUCCEEDED")]
  BY <1>1 DEF StoreSuccess
<1>3. /\ job'[wk[w].job] = Released(job[wk[w].job], "SUCCEEDED")
      /\ \A k \in Jobs : k # wk[w].job => job'[k] = job[k]
  BY <1>1, <1>2, RowsAfter
<1>4. /\ Released(job[wk[w].job], "SUCCEEDED").status = "SUCCEEDED"
      /\ Released(job[wk[w].job], "SUCCEEDED").attempts = job[wk[w].job].attempts
      /\ Released(job[wk[w].job], "SUCCEEDED").maxAttempts = job[wk[w].job].maxAttempts
  BY <1>1, ReleasedRow DEF Status
<1>5. /\ reports'[wk[w].job] = reports[wk[w].job] + 1
      /\ \A k \in Jobs : k # wk[w].job => reports'[k] = reports[k]
  BY <1>1 DEF TypeOK, StoreSuccess
<1> QED BY <1>1, <1>3, <1>4, <1>5

\* failOrRetryJob's update of the row.
LEMMA FailureStored ==
    ASSUME TypeOK, NEW w \in Workers, FailOrRetry(w)
    PROVE  /\ wk[w].job \in Jobs /\ wk[w].pc = "failing"
           /\ job'[wk[w].job].status = IF ShouldRetry(w) THEN "RETRYING" ELSE "FAILED"
           /\ job'[wk[w].job].attempts = job[wk[w].job].attempts
           /\ job'[wk[w].job].maxAttempts = job[wk[w].job].maxAttempts
           /\ \A k \in Jobs : k # wk[w].job => job'[k] = job[k] /\ failure'[k] = failure[k]
           /\ failure'[wk[w].job] = wk[w].error
<1> DEFINE j == wk[w].job
<1>1. j \in Jobs /\ job[j] \in Row /\ job[j].maxAttempts \in Nat /\ wk[w].pc = "failing"
  BY DEF TypeOK, FailOrRetry, Busy, Row
<1>2. failure'[j] = wk[w].error /\ \A k \in Jobs : k # j => failure'[k] = failure[k]
  BY <1>1 DEF FailOrRetry, TypeOK
<1>3. ASSUME NEW m \in Nat
      PROVE  /\ Rescheduled(job[j], "later", m).status = "RETRYING"
             /\ Rescheduled(job[j], "later", m).attempts = job[j].attempts
             /\ Rescheduled(job[j], "later", m).maxAttempts = m
  BY <1>1, RescheduledRow
<1>4. /\ Released(job[j], "FAILED").status = "FAILED"
      /\ Released(job[j], "FAILED").attempts = job[j].attempts
      /\ Released(job[j], "FAILED").maxAttempts = job[j].maxAttempts
  BY <1>1, ReleasedRow DEF Status
<1>5. CASE ShouldRetry(w)
  <2>1. job' = [job EXCEPT ![j] = Rescheduled(job[j], "later", job[j].maxAttempts)]
    BY <1>5 DEF FailOrRetry
  <2> HIDE DEF j
  <2>2. /\ job'[j] = Rescheduled(job[j], "later", job[j].maxAttempts)
        /\ \A k \in Jobs : k # j => job'[k] = job[k]
    BY <1>1, <2>1, RowsAfter
  <2> QED BY <1>1, <1>2, <1>3, <1>5, <2>2 DEF j
<1>6. CASE ~ShouldRetry(w)
  <2>1. job' = [job EXCEPT ![j] = Released(job[j], "FAILED")]
    BY <1>6 DEF FailOrRetry
  <2> HIDE DEF j
  <2>2. /\ job'[j] = Released(job[j], "FAILED")
        /\ \A k \in Jobs : k # j => job'[k] = job[k]
    BY <1>1, <2>1, RowsAfter
  <2> QED BY <1>1, <1>2, <1>4, <1>6, <2>2 DEF j
<1> QED BY <1>5, <1>6

\* createJob's row.
LEMMA RowCreated ==
    ASSUME TypeOK, NEW j \in Jobs, Enqueue(j)
    PROVE  /\ job[j].status = "ABSENT" /\ job'[j].status = "QUEUED"
           /\ job'[j].attempts = 0 /\ job'[j].maxAttempts = PolicyMax[j]
           /\ \A k \in Jobs : k # j => job'[k] = job[k]
<1>1. PICK t \in {"due", "later"} :
        job' = [job EXCEPT ![j] = [NoRow EXCEPT !.status = "QUEUED",
                                                !.maxAttempts = PolicyMax[j],
                                                !.runAfter = t]]
  BY DEF Enqueue
<1> DEFINE r == [NoRow EXCEPT !.status = "QUEUED", !.maxAttempts = PolicyMax[j],
                              !.runAfter = t]
<1>2. r.status = "QUEUED" /\ r.attempts = 0 /\ r.maxAttempts = PolicyMax[j]
  BY NewRow
<1>3. job' = [job EXCEPT ![j] = r]
  BY <1>1
<1> HIDE DEF r
<1>4. job'[j] = r /\ \A k \in Jobs : k # j => job'[k] = job[k]
  BY <1>3, RowsAfter
<1> QED BY <1>2, <1>4 DEF Enqueue

\* Time that passes changes neither the status nor the counts of a row.
LEMMA RowDue ==
    ASSUME TypeOK, NEW j \in Jobs, BecomeDue(j), NEW k \in Jobs
    PROVE  /\ job'[k].status = job[k].status
           /\ job'[k].lockedBy = job[k].lockedBy
           /\ job'[k].attempts = job[k].attempts
           /\ job'[k].maxAttempts = job[k].maxAttempts
<1> DEFINE r == [job[j] EXCEPT !.runAfter = "due"]
<1>1. job' = [job EXCEPT ![j] = r] /\ job[j] \in Row
  BY DEF BecomeDue, TypeOK
<1>2. /\ r.status = job[j].status /\ r.lockedBy = job[j].lockedBy
      /\ r.attempts = job[j].attempts /\ r.maxAttempts = job[j].maxAttempts
  BY <1>1, DueRow
<1> HIDE DEF r
<1>3. job'[j] = r /\ \A i \in Jobs : i # j => job'[i] = job[i]
  BY <1>1, RowsAfter
<1> QED BY <1>2, <1>3

\* retryDeadLetterJob's update of the row: in line again, with the largest of
\* the three for a maximum.
LEMMA RowRequeued ==
    ASSUME TypeOK, NEW a \in Admins, RequeueDeadLetter(a)
    PROVE  /\ adm[a].job \in Jobs
           /\ job'[adm[a].job].status = "RETRYING"
           /\ job'[adm[a].job].attempts = job[adm[a].job].attempts
           /\ job'[adm[a].job].maxAttempts \in
                 {adm[a].maxAttempts, adm[a].attempts + 1, PolicyMax[adm[a].job]}
           /\ adm[a].attempts + 1 <= job'[adm[a].job].maxAttempts
           /\ PolicyMax[adm[a].job] <= job'[adm[a].job].maxAttempts
           /\ \A k \in Jobs : k # adm[a].job => job'[k] = job[k]
<1> DEFINE j == adm[a].job
<1>1. j \in Jobs /\ job[j] \in Row /\ PolicyMax[j] \in Nat
      /\ adm[a].attempts \in Nat /\ adm[a].maxAttempts \in Nat
  BY JobQueueAssumption DEF TypeOK, RequeueDeadLetter, Snapshot
<1>2. PICK m \in {adm[a].maxAttempts, adm[a].attempts + 1, PolicyMax[j]} :
        NextMaxAttempts(a, m) /\ job' = [job EXCEPT ![j] = Rescheduled(job[j], "due", m)]
  BY DEF RequeueDeadLetter
<1>3. m \in Nat /\ adm[a].attempts + 1 <= m /\ PolicyMax[j] <= m
  BY <1>1, <1>2 DEF NextMaxAttempts
<1>4. /\ Rescheduled(job[j], "due", m).status = "RETRYING"
      /\ Rescheduled(job[j], "due", m).attempts = job[j].attempts
      /\ Rescheduled(job[j], "due", m).maxAttempts = m
  BY <1>1, <1>3, RescheduledRow
<1> HIDE DEF j
<1>5. job'[j] = Rescheduled(job[j], "due", m) /\ \A k \in Jobs : k # j => job'[k] = job[k]
  BY <1>1, <1>2, RowsAfter
<1> QED BY <1>1, <1>2, <1>3, <1>4, <1>5 DEF j
-----------------------------------------------------------------------------
(* Sets of workers, counted. *)

\* No more than before.
LEMMA CountSubset ==
    ASSUME NEW S, IsFiniteSet(S), NEW T, T \subseteq S
    PROVE  /\ IsFiniteSet(T)
           /\ Cardinality(S) \in Nat /\ Cardinality(T) \in Nat
           /\ Cardinality(T) <= Cardinality(S)
BY FS_Subset, FS_CardinalityType

\* One more at most.
LEMMA CountMore ==
    ASSUME NEW S, IsFiniteSet(S), NEW x, NEW T, T \subseteq S \cup {x}
    PROVE  /\ IsFiniteSet(T)
           /\ Cardinality(S) \in Nat /\ Cardinality(T) \in Nat
           /\ Cardinality(T) <= Cardinality(S) + 1
<1>1. IsFiniteSet(S \cup {x}) /\ Cardinality(S) \in Nat
      /\ (Cardinality(S \cup {x}) = Cardinality(S)
            \/ Cardinality(S \cup {x}) = Cardinality(S) + 1)
  BY FS_AddElement, FS_CardinalityType
<1>2. /\ IsFiniteSet(T) /\ Cardinality(T) \in Nat
      /\ Cardinality(T) <= Cardinality(S \cup {x})
  BY <1>1, CountSubset
<1> QED BY <1>1, <1>2

\* One less.
LEMMA CountLess ==
    ASSUME NEW S, IsFiniteSet(S), NEW x \in S, NEW T, T \subseteq S \ {x}
    PROVE  /\ IsFiniteSet(T)
           /\ Cardinality(S) \in Nat /\ Cardinality(T) \in Nat
           /\ Cardinality(T) + 1 <= Cardinality(S)
<1>1. IsFiniteSet(S \ {x}) /\ Cardinality(S) \in Nat
      /\ Cardinality(S \ {x}) = Cardinality(S) - 1
  BY FS_RemoveElement, FS_CardinalityType
<1>2. /\ IsFiniteSet(T) /\ Cardinality(T) \in Nat
      /\ Cardinality(T) <= Cardinality(S \ {x})
      /\ Cardinality(S \ {x}) \in Nat
  BY <1>1, CountSubset
<1> QED BY <1>1, <1>2

-----------------------------------------------------------------------------
(* The hands a job is in, or may yet come into. *)

Holders(j) == {w \in Workers : Holds(w, j)}

\* j may be claimed once more: it waits, it is yet to be created, or it is a dead
\* letter, which one requeue puts in line.
MayBeClaimed(j) == job[j].status \in {"ABSENT", "FAILED"} \cup Waiting

\* An operator acts on a copy of the dead letter that j is no more.
MayBeRevived(j) ==
    /\ job[j].status # "FAILED"
    /\ \E a \in Admins : adm[a].job = j /\ ~crossed[a]

Openings(j) == (IF MayBeClaimed(j) THEN 1 ELSE 0) + (IF MayBeRevived(j) THEN 1 ELSE 0)

\* What is counted: the workers that hold j, and its openings.  Each overtaken
\* requeue adds one.
Tokens(j) == Cardinality(Holders(j)) + Openings(j)

\* Nobody has a copy of a row that is yet to be created.
Unseen ==
    \A j \in Jobs : job[j].status = "ABSENT" =>
        /\ Holders(j) = {}
        /\ \A a \in Admins : adm[a].job # j

LEMMA OpeningsType ==
    ASSUME NEW j
    PROVE  /\ Openings(j) \in 0 .. 2
           /\ MayBeClaimed(j) => Openings(j) >= 1
BY DEF Openings

LEMMA OpeningsTypeNext ==
    ASSUME NEW j
    PROVE  Openings(j)' \in 0 .. 2
BY DEF Openings

\* While no operator reads or writes, an opening is at most added by a worker
\* that lets the job go, and one is taken by a claim.
LEMMA OpeningsMove ==
    ASSUME NEW j, UNCHANGED <<adm, crossed>>
    PROVE  /\ Openings(j)' <= Openings(j) + 1
           /\ job'[j].status = job[j].status => Openings(j)' = Openings(j)
           /\ ~MayBeClaimed(j)' => Openings(j)' <= Openings(j)
           /\ MayBeClaimed(j) /\ job[j].status # "FAILED" =>
                 /\ Openings(j)' <= Openings(j)
                 /\ ~MayBeClaimed(j)' => Openings(j)' + 1 <= Openings(j)
<1>1. MayBeRevived(j)' => MayBeRevived(j) \/ job[j].status = "FAILED"
  BY DEF MayBeRevived
<1>2. job[j].status = "FAILED" => MayBeClaimed(j) /\ ~MayBeRevived(j)
  BY DEF MayBeClaimed, MayBeRevived
<1>3. job'[j].status = job[j].status =>
         (MayBeClaimed(j)' <=> MayBeClaimed(j)) /\ (MayBeRevived(j)' <=> MayBeRevived(j))
  BY DEF MayBeClaimed, MayBeRevived
<1> QED BY <1>1, <1>2, <1>3 DEF Openings

\* What a step does to the holders and the openings of one job.
TokensKept(j) ==
    /\ Holders(j)' = Holders(j)
    /\ Openings(j)' + overtaken <= Openings(j) + overtaken'
    /\ reports'[j] + lostAcks <= reports[j] + lostAcks'
    /\ overtaken <= overtaken' /\ lostAcks <= lostAcks' /\ reports[j] <= reports'[j]

TokenTaken(j) ==
    /\ \E w \in Workers : /\ wk[w].pc = "idle" /\ wk'[w] # wk[w]
                          /\ Holders(j)' = Holders(j) \cup {w}
    /\ Openings(j)' + 1 <= Openings(j)
    /\ overtaken' = overtaken /\ lostAcks' = lostAcks /\ reports'[j] = reports[j]

TokenReturned(j) ==
    /\ \E w \in Holders(j) : wk'[w] # wk[w] /\ Holders(j)' = Holders(j) \ {w}
    /\ Openings(j)' <= Openings(j) + 1
    /\ Openings(j)' + reports'[j] <= Openings(j) + reports[j] + 1
    /\ overtaken' = overtaken /\ lostAcks' = lostAcks

TokensMove(j) == TokensKept(j) \/ TokenTaken(j) \/ TokenReturned(j)

\* Rows and holders of a job that a step does not touch.
LEMMA TokensUntouched ==
    ASSUME TypeOK, NEW j \in Jobs, UNCHANGED <<adm, crossed, overtaken>>,
           job'[j].status = job[j].status, Holders(j)' = Holders(j),
           reports'[j] = reports[j], lostAcks' \in Nat, lostAcks <= lostAcks'
    PROVE  TokensKept(j)
<1>1. Openings(j)' = Openings(j) /\ Openings(j) \in 0 .. 2
  BY OpeningsMove, OpeningsType
<1>2. reports[j] \in Nat /\ lostAcks \in Nat /\ overtaken \in Nat
  BY DEF TypeOK
<1> QED BY <1>1, <1>2 DEF TokensKept

LEMMA StepMovesTokens ==
    ASSUME TypeOK, [Next]_vars, NEW j \in Jobs
    PROVE  TokensMove(j)
<1> USE DEF TokensMove
<1>0. /\ reports[j] \in Nat /\ lostAcks \in Nat /\ overtaken \in Nat
      /\ Openings(j) \in 0 .. 2 /\ Openings(j)' \in 0 .. 2
  BY OpeningsType, OpeningsTypeNext DEF TypeOK
<1>1. ASSUME NEW i \in Jobs, Enqueue(i) PROVE TokensMove(j)
  <2>1. UNCHANGED <<wk, adm, crossed, overtaken, reports, lostAcks>> /\ Holders(j)' = Holders(j)
    BY <1>1 DEF Enqueue, Holders, Holds
  <2>2. CASE i = j
    <3>1. MayBeClaimed(j) /\ job[j].status # "FAILED"
      BY <1>1, <2>2, RowCreated DEF MayBeClaimed
    <3>2. Openings(j)' <= Openings(j)
      BY <2>1, <3>1, OpeningsMove
    <3> QED BY <1>0, <2>1, <3>2 DEF TokensKept
  <2>3. CASE i # j
    BY <1>0, <1>1, <2>1, <2>3, RowCreated, TokensUntouched
  <2> QED BY <2>2, <2>3
<1>2. ASSUME NEW i \in Jobs, BecomeDue(i) PROVE TokensMove(j)
  <2>1. UNCHANGED <<wk, adm, crossed, overtaken, reports, lostAcks>> /\ Holders(j)' = Holders(j)
    BY <1>2 DEF BecomeDue, Holders, Holds
  <2> QED BY <1>0, <1>2, <2>1, RowDue, TokensUntouched
<1>3. ASSUME NEW w \in Workers, NEW i \in Jobs, Claim(w, i) PROVE TokensMove(j)
  <2>1. UNCHANGED <<adm, crossed, overtaken, reports, lostAcks>>
    BY <1>3 DEF Claim
  <2>2. /\ wk[w].pc = "idle" /\ wk'[w].pc = "processing" /\ wk'[w].job = i
        /\ \A v \in Workers : v # w => wk'[v] = wk[v]
    BY <1>3, ClaimTakes
  <2>3. CASE i = j
    <3>1. Holders(j)' = Holders(j) \cup {w}
      BY <2>2, <2>3 DEF Holders, Holds, Busy
    <3>2. MayBeClaimed(j) /\ job[j].status # "FAILED" /\ ~MayBeClaimed(j)'
      BY <1>3, <2>3, ClaimTakes DEF MayBeClaimed, Waiting
    <3>3. Openings(j)' + 1 <= Openings(j)
      BY <2>1, <3>2, OpeningsMove
    <3> QED BY <2>1, <2>2, <3>1, <3>3 DEF TokenTaken
  <2>4. CASE i # j
    <3>1. Holders(j)' = Holders(j)
      BY <2>2, <2>4 DEF Holders, Holds, Busy
    <3>2. job'[j] = job[j]
      BY <1>3, <2>4, ClaimTakes
    <3> QED BY <1>0, <2>1, <3>1, <3>2, TokensUntouched
  <2> QED BY <2>3, <2>4
<1>4. ASSUME NEW w \in Workers, Process(w) \/ CompleteRolledBack(w) PROVE TokensMove(j)
  <2>1. UNCHANGED <<job, adm, crossed, overtaken, reports, lostAcks>>
    BY <1>4 DEF Process, CompleteRolledBack
  <2>2. Holders(j)' = Holders(j)
    BY <1>4, StaysBusy DEF Holders, Holds
  <2> QED BY <1>0, <2>1, <2>2, TokensUntouched
<1>5. ASSUME NEW w \in Workers, CompleteAckLost(w) PROVE TokensMove(j)
  <2>1. UNCHANGED <<adm, crossed, overtaken>> /\ lostAcks' = lostAcks + 1
    BY <1>5 DEF CompleteAckLost
  <2>2. Holders(j)' = Holders(j)
    BY <1>5, StaysBusy DEF Holders, Holds
  <2>3. CASE wk[w].job = j
    <3>1. ~MayBeClaimed(j)' /\ reports'[j] = reports[j] + 1
      BY <1>5, <2>3, SuccessStored DEF MayBeClaimed, Waiting
    <3>2. Openings(j)' <= Openings(j)
      BY <2>1, <3>1, OpeningsMove
    <3> QED BY <1>0, <2>1, <2>2, <3>1, <3>2 DEF TokensKept
  <2>4. CASE wk[w].job # j
    <3>1. job'[j] = job[j] /\ reports'[j] = reports[j]
      BY <1>5, <2>4, SuccessStored
    <3> QED BY <1>0, <2>1, <2>2, <3>1, TokensUntouched
  <2> QED BY <2>3, <2>4
<1>6. ASSUME NEW w \in Workers, Complete(w) \/ FailOrRetry(w) PROVE TokensMove(j)
  <2>1. UNCHANGED <<adm, crossed, overtaken, lostAcks>>
    BY <1>6 DEF Complete, FailOrRetry
  <2>2. wk'[w].pc \notin Busy /\ \A v \in Workers : v # w => wk'[v] = wk[v]
    BY <1>6, LetsGo
  <2>3. wk[w].pc \in Busy
    BY <1>6 DEF Complete, FailOrRetry, Busy
  <2>4. CASE wk[w].job = j
    <3>1. w \in Holders(j) /\ Holders(j)' = Holders(j) \ {w} /\ wk'[w] # wk[w]
      BY <2>2, <2>3, <2>4 DEF Holders, Holds
    <3>2. CASE Complete(w)
      <4>1. ~MayBeClaimed(j)' /\ reports'[j] = reports[j] + 1
        BY <2>4, <3>2, SuccessStored DEF MayBeClaimed, Waiting
      <4>2. Openings(j)' <= Openings(j)
        BY <2>1, <4>1, OpeningsMove
      <4> QED BY <1>0, <2>1, <3>1, <4>1, <4>2 DEF TokenReturned
    <3>3. CASE FailOrRetry(w)
      <4>1. reports' = reports
        BY <3>3 DEF FailOrRetry
      <4>2. Openings(j)' <= Openings(j) + 1
        BY <2>1, OpeningsMove
      <4> QED BY <1>0, <2>1, <3>1, <4>1, <4>2 DEF TokenReturned
    <3> QED BY <1>6, <3>2, <3>3
  <2>5. CASE wk[w].job # j
    <3>1. Holders(j)' = Holders(j)
      BY <2>2, <2>5 DEF Holders, Holds
    <3>2. job'[j] = job[j] /\ reports'[j] = reports[j]
      BY <1>6, <2>5, SuccessStored, FailureStored DEF FailOrRetry
    <3> QED BY <1>0, <2>1, <3>1, <3>2, TokensUntouched
  <2> QED BY <2>4, <2>5
<1>7. ASSUME NEW w \in Workers, Crash(w) \/ Restart(w) PROVE TokensMove(j)
  <2>1. UNCHANGED <<job, adm, crossed, overtaken, reports, lostAcks>>
    BY <1>7 DEF Crash, Restart
  <2>2. wk'[w].pc \notin Busy /\ \A v \in Workers : v # w => wk'[v] = wk[v]
    BY <1>7, LetsGo
  <2>3. Openings(j)' = Openings(j)
    BY <2>1, OpeningsMove
  <2>4. CASE w \in Holders(j)
    <3>1. Holders(j)' = Holders(j) \ {w} /\ wk'[w] # wk[w]
      BY <2>2, <2>4 DEF Holders, Holds
    <3> QED BY <1>0, <2>1, <2>3, <2>4, <3>1 DEF TokenReturned
  <2>5. CASE w \notin Holders(j)
    <3>1. Holders(j)' = Holders(j)
      BY <2>2, <2>5 DEF Holders, Holds
    <3> QED BY <1>0, <2>1, <3>1, TokensUntouched
  <2> QED BY <2>4, <2>5
<1>8. ASSUME NEW a \in Admins, NEW i \in Jobs, ReadDeadLetter(a, i) PROVE TokensMove(j)
  <2>1. UNCHANGED <<job, wk, crossed, overtaken, reports, lostAcks>>
        /\ job[i].status = "FAILED" /\ adm[a].job = NoJob
    BY <1>8 DEF ReadDeadLetter
  <2>2. Holders(j)' = Holders(j)
    BY <2>1 DEF Holders, Holds
  <2>3. adm'[a].job = i /\ \A b \in Admins : b # a => adm'[b] = adm[b]
    BY <1>8 DEF ReadDeadLetter, TypeOK
  <2>4. MayBeRevived(j)' => MayBeRevived(j)
    BY <2>1, <2>3 DEF MayBeRevived
  <2>5. Openings(j)' <= Openings(j)
    BY <2>1, <2>4 DEF Openings, MayBeClaimed
  <2> QED BY <1>0, <2>1, <2>2, <2>5 DEF TokensKept
<1>9. ASSUME NEW a \in Admins, RequeueDeadLetter(a) PROVE TokensMove(j)
  <2>1. UNCHANGED <<wk, reports, lostAcks>> /\ Holders(j)' = Holders(j)
        /\ overtaken' = (IF crossed[a] THEN overtaken + 1 ELSE overtaken)
    BY <1>9 DEF RequeueDeadLetter, Holders, Holds
  <2>2. adm'[a].job = NoJob /\ \A b \in Admins : b # a => adm'[b] = adm[b]
    BY <1>9 DEF RequeueDeadLetter, TypeOK, NoSnapshot
  <2>3. \A b \in Admins : crossed'[b] <=> b # a /\ (crossed[b] \/ adm[b].job = adm[a].job)
    BY <1>9 DEF RequeueDeadLetter
  <2>4. CASE adm[a].job = j
    <3>1. \A b \in Admins : adm'[b].job = j => crossed'[b]
      BY <2>2, <2>3, <2>4, JobQueueAssumption
    <3>2. ~MayBeRevived(j)'
      BY <3>1 DEF MayBeRevived
    <3>3. Openings(j)' <= 1
      BY <3>2 DEF Openings
    <3>4. ~crossed[a] => Openings(j) >= 1
      BY <2>4 DEF Openings, MayBeClaimed, MayBeRevived
    <3> QED BY <1>0, <2>1, <3>3, <3>4 DEF TokensKept
  <2>5. CASE adm[a].job # j
    <3>1. job'[j] = job[j]
      BY <1>9, <2>5, RowRequeued
    <3>2. MayBeRevived(j)' => MayBeRevived(j)
      BY <2>2, <2>3, <3>1, JobQueueAssumption DEF MayBeRevived
    <3>3. Openings(j)' <= Openings(j)
      BY <3>1, <3>2 DEF Openings, MayBeClaimed
    <3> QED BY <1>0, <2>1, <3>3 DEF TokensKept
  <2> QED BY <2>4, <2>5
<1>10. ASSUME UNCHANGED vars PROVE TokensMove(j)
  <2>1. UNCHANGED <<job, adm, crossed, overtaken, reports, lostAcks>> /\ Holders(j)' = Holders(j)
    BY <1>10 DEF vars, Holders, Holds
  <2> QED BY <1>0, <2>1, TokensUntouched
<1> QED BY <1>1, <1>2, <1>3, <1>4, <1>5, <1>6, <1>7, <1>8, <1>9, <1>10
        DEF Next, WorkerStep
\* Seen as numbers.
LEMMA TokensCounted ==
    ASSUME TypeOK, TypeOK', NEW j \in Jobs, IsFiniteSet(Holders(j)), TokensMove(j)
    PROVE  /\ IsFiniteSet(Holders(j)')
           /\ Tokens(j) \in Nat /\ Tokens(j)' \in Nat
           /\ Tokens(j)' + overtaken <= Tokens(j) + overtaken'
           /\ reports'[j] + Tokens(j)' + lostAcks + overtaken
                 <= reports[j] + Tokens(j) + lostAcks' + overtaken'
<1> DEFINE n == Cardinality(Holders(j))
           m == Cardinality(Holders(j)')
<1>1. /\ Openings(j) \in 0 .. 2 /\ Openings(j)' \in 0 .. 2
      /\ reports[j] \in Nat /\ reports'[j] \in Nat
      /\ lostAcks \in Nat /\ lostAcks' \in Nat /\ overtaken \in Nat /\ overtaken' \in Nat
  BY OpeningsType, OpeningsTypeNext DEF TypeOK
<1>2. n \in Nat
  BY FS_CardinalityType
<1>3. Tokens(j) = n + Openings(j) /\ Tokens(j)' = m + Openings(j)'
  BY DEF Tokens
<1>4. CASE TokensKept(j)
  <2>1. m = n /\ IsFiniteSet(Holders(j)')
    BY <1>4 DEF TokensKept
  <2> HIDE DEF n, m
  <2> QED BY <1>1, <1>2, <1>3, <1>4, <2>1 DEF TokensKept
<1>5. CASE TokenTaken(j)
  <2>1. PICK w : Holders(j)' \subseteq Holders(j) \cup {w}
    BY <1>5 DEF TokenTaken
  <2>2. IsFiniteSet(Holders(j)') /\ m \in Nat /\ m <= n + 1
    BY <2>1, CountMore
  <2> HIDE DEF n, m
  <2> QED BY <1>1, <1>2, <1>3, <1>5, <2>2 DEF TokenTaken
<1>6. CASE TokenReturned(j)
  <2>1. PICK w \in Holders(j) : Holders(j)' \subseteq Holders(j) \ {w}
    BY <1>6 DEF TokenReturned
  <2>2. IsFiniteSet(Holders(j)') /\ m \in Nat /\ m + 1 <= n
    BY <2>1, CountLess
  <2> HIDE DEF n, m
  <2> QED BY <1>1, <1>2, <1>3, <1>6, <2>2 DEF TokenReturned
<1> QED BY <1>4, <1>5, <1>6 DEF TokensMove

TokenInv ==
    \A j \in Jobs :
        /\ IsFiniteSet(Holders(j))
        /\ Tokens(j) <= 1 + overtaken
        /\ reports[j] + Tokens(j) <= 1 + lostAcks + overtaken

\* At the start nobody holds anything, and every row may be created once.
LEMMA TokensBegin == Init => TokenInv /\ Unseen
<1> SUFFICES ASSUME Init, NEW j \in Jobs
             PROVE  /\ Holders(j) = {} /\ (\A a \in Admins : adm[a].job # j)
                    /\ IsFiniteSet(Holders(j))
                    /\ Tokens(j) <= 1 + overtaken
                    /\ reports[j] + Tokens(j) <= 1 + lostAcks + overtaken
  BY DEF TokenInv, Unseen
<1>1. Holders(j) = {}
  BY DEF Init, Holders, Holds, Idle, Busy
<1>2. \A a \in Admins : adm[a].job # j
  BY JobQueueAssumption DEF Init, NoSnapshot
<1>3. IsFiniteSet(Holders(j)) /\ Cardinality(Holders(j)) = 0
  BY <1>1, FS_EmptySet
<1>4. Openings(j) = 1
  BY <1>2 DEF Init, Openings, MayBeClaimed, MayBeRevived, NoRow
<1>5. Tokens(j) = 1
  BY <1>3, <1>4 DEF Tokens
<1>6. reports[j] = 0 /\ lostAcks = 0 /\ overtaken = 0
  BY DEF Init
<1> QED BY <1>1, <1>2, <1>3, <1>5, <1>6

LEMMA NextTokens ==
    ASSUME TypeOK, TypeOK', TokenInv, [Next]_vars
    PROVE  TokenInv'
<1> SUFFICES ASSUME NEW j \in Jobs
             PROVE  /\ IsFiniteSet(Holders(j)')
                    /\ Tokens(j)' <= 1 + overtaken'
                    /\ reports'[j] + Tokens(j)' <= 1 + lostAcks' + overtaken'
  BY DEF TokenInv
<1>1. TokensMove(j)
  BY StepMovesTokens
<1>2. /\ IsFiniteSet(Holders(j)')
      /\ Tokens(j) \in Nat /\ Tokens(j)' \in Nat
      /\ Tokens(j)' + overtaken <= Tokens(j) + overtaken'
      /\ reports'[j] + Tokens(j)' + lostAcks + overtaken
            <= reports[j] + Tokens(j) + lostAcks' + overtaken'
  BY <1>1, TokensCounted DEF TokenInv
<1>3. /\ reports[j] \in Nat /\ reports'[j] \in Nat /\ lostAcks \in Nat /\ lostAcks' \in Nat
      /\ overtaken \in Nat /\ overtaken' \in Nat
  BY DEF TypeOK
<1> QED BY <1>2, <1>3 DEF TokenInv

\* A row that is there stays, and only a dead letter is read.
LEMMA NextUnseen ==
    ASSUME TypeOK, Unseen, [Next]_vars
    PROVE  Unseen'
<1> SUFFICES ASSUME NEW j \in Jobs, job'[j].status = "ABSENT"
             PROVE  Holders(j)' = {} /\ \A a \in Admins : adm'[a].job # j
  BY DEF Unseen
<1>1. ASSUME job[j].status = "ABSENT", UNCHANGED adm,
             \A w \in Workers : Holds(w, j)' => Holds(w, j)
      PROVE  Holders(j)' = {} /\ \A a \in Admins : adm'[a].job # j
  BY <1>1 DEF Unseen, Holders
<1>2. ASSUME NEW i \in Jobs, Enqueue(i) PROVE Holders(j)' = {} /\ \A a \in Admins : adm'[a].job # j
  <2>1. job[j].status = "ABSENT"
    BY <1>2, RowCreated
  <2> QED BY <1>1, <1>2, <2>1 DEF Enqueue, Holds
<1>3. ASSUME NEW i \in Jobs, BecomeDue(i) PROVE Holders(j)' = {} /\ \A a \in Admins : adm'[a].job # j
  BY <1>1, <1>3, RowDue DEF BecomeDue, Holds
<1>4. ASSUME NEW w \in Workers, NEW i \in Jobs, Claim(w, i)
      PROVE  Holders(j)' = {} /\ \A a \in Admins : adm'[a].job # j
  <2>1. i # j /\ job[j].status = "ABSENT"
    BY <1>4, ClaimTakes
  <2>2. \A v \in Workers : Holds(v, j)' => Holds(v, j)
    BY <1>4, <2>1, ClaimTakes DEF Holds
  <2> QED BY <1>1, <1>4, <2>1, <2>2 DEF Claim
<1>5. ASSUME NEW w \in Workers, Process(w) \/ CompleteRolledBack(w) \/ CompleteAckLost(w)
      PROVE  Holders(j)' = {} /\ \A a \in Admins : adm'[a].job # j
  <2>1. \A v \in Workers : Holds(v, j)' => Holds(v, j)
    BY <1>5, StaysBusy DEF Holds
  <2>2. job[j].status = "ABSENT"
    BY <1>5, SuccessStored DEF Process, CompleteRolledBack
  <2> QED BY <1>1, <1>5, <2>1, <2>2 DEF Process, CompleteRolledBack, CompleteAckLost
<1>6. ASSUME NEW w \in Workers, Complete(w) \/ FailOrRetry(w) \/ Crash(w) \/ Restart(w)
      PROVE  Holders(j)' = {} /\ \A a \in Admins : adm'[a].job # j
  <2>1. \A v \in Workers : Holds(v, j)' => Holds(v, j)
    BY <1>6, LetsGo DEF Holds
  <2>2. job[j].status = "ABSENT"
    BY <1>6, SuccessStored, FailureStored DEF Crash, Restart
  <2> QED BY <1>1, <1>6, <2>1, <2>2 DEF Complete, FailOrRetry, Crash, Restart
<1>7. ASSUME NEW a \in Admins, NEW i \in Jobs, ReadDeadLetter(a, i)
      PROVE  Holders(j)' = {} /\ \A b \in Admins : adm'[b].job # j
  <2>1. i # j /\ job[j].status = "ABSENT" /\ wk' = wk
    BY <1>7 DEF ReadDeadLetter
  <2>2. adm'[a].job = i /\ \A b \in Admins : b # a => adm'[b] = adm[b]
    BY <1>7 DEF ReadDeadLetter, TypeOK
  <2> QED BY <2>1, <2>2 DEF Unseen, Holders, Holds
<1>8. ASSUME NEW a \in Admins, RequeueDeadLetter(a)
      PROVE  Holders(j)' = {} /\ \A b \in Admins : adm'[b].job # j
  <2>1. job[j].status = "ABSENT" /\ wk' = wk
    BY <1>8, RowRequeued DEF RequeueDeadLetter
  <2>2. adm'[a].job = NoJob /\ \A b \in Admins : b # a => adm'[b] = adm[b]
    BY <1>8 DEF RequeueDeadLetter, TypeOK, NoSnapshot
  <2> QED BY <2>1, <2>2, JobQueueAssumption DEF Unseen, Holders, Holds
<1>9. ASSUME UNCHANGED vars
      PROVE  Holders(j)' = {} /\ \A a \in Admins : adm'[a].job # j
  BY <1>1, <1>9 DEF vars, Holds
<1> QED BY <1>2, <1>3, <1>4, <1>5, <1>6, <1>7, <1>8, <1>9 DEF Next, WorkerStep

QueueInv == TypeOK /\ TokenInv /\ Unseen

LEMMA QueueHolds == Spec => []QueueInv
<1>1. QueueInv /\ [Next]_vars => QueueInv'
  BY NextTypeOK, NextTokens, NextUnseen DEF QueueInv
<1>2. Init => QueueInv
  BY InitTypeOK, TokensBegin DEF QueueInv
<1> QED BY <1>1, <1>2, PTL DEF Spec

\* However often a job is retried or requeued or loses its worker, and whoever
\* overlooks whom: the outbox of domain events carries its success once, and once
\* more for each acknowledgement lost at the commit of completeJob and each
\* requeue that another one overtook.
THEOREM SuccessReportedOnce == Spec => []SucceedsOnce
<1>1. QueueInv => SucceedsOnce
  <2>1. SUFFICES ASSUME QueueInv, NEW j \in Jobs PROVE reports[j] <= 1 + lostAcks + overtaken
    BY DEF SucceedsOnce
  <2>2. reports[j] \in Nat /\ lostAcks \in Nat /\ overtaken \in Nat
    BY <2>1 DEF QueueInv, TypeOK
  <2>3. IsFiniteSet(Holders(j)) /\ reports[j] + Tokens(j) <= 1 + lostAcks + overtaken
    BY <2>1 DEF QueueInv, TokenInv
  <2>4. Tokens(j) \in Nat
    BY <2>3, OpeningsType, FS_CardinalityType DEF Tokens
  <2> QED BY <2>2, <2>3, <2>4
<1> QED BY <1>1, QueueHolds, PTL
-----------------------------------------------------------------------------
(* Attempts and maxima, whatever copy was written back. *)

\* The maximum of a row is never below its policy's and, above it, leaves one
\* attempt; nor does a copy of it know of more.
RowFits(j) ==
    job[j].status # "ABSENT" =>
        /\ PolicyMax[j] <= job[j].maxAttempts
        /\ job[j].maxAttempts <= PolicyMax[j] \/ job[j].maxAttempts <= job[j].attempts + 1

WorkerFits(w) ==
    wk[w].pc \in Busy =>
        /\ wk[w].attempts <= job[wk[w].job].attempts
        /\ PolicyMax[wk[w].job] <= wk[w].maxAttempts
        /\ \/ wk[w].maxAttempts <= PolicyMax[wk[w].job]
           \/ wk[w].maxAttempts <= wk[w].attempts

OperatorFits(a) ==
    adm[a].job # NoJob =>
        /\ adm[a].attempts <= job[adm[a].job].attempts
        /\ \/ adm[a].maxAttempts <= PolicyMax[adm[a].job]
           \/ adm[a].maxAttempts <= adm[a].attempts + 1

CopiesFit ==
    /\ \A j \in Jobs : RowFits(j)
    /\ \A w \in Workers : WorkerFits(w)
    /\ \A a \in Admins : OperatorFits(a)

LEMMA RowNumbers ==
    ASSUME TypeOK, NEW j \in Jobs
    PROVE  /\ job[j].attempts \in Nat /\ job[j].maxAttempts \in Nat
           /\ PolicyMax[j] \in Nat /\ PolicyMax[j] >= 1
BY JobQueueAssumption DEF TypeOK, Row

\* An update of the row keeps its counts, or takes an attempt, or gives the row a
\* new maximum.
LEMMA NextCounts ==
    ASSUME TypeOK, [Next]_vars, NEW j \in Jobs, job[j].status # "ABSENT"
    PROVE  /\ job'[j].status # "ABSENT"
           /\ \/ /\ job'[j].attempts = job[j].attempts
                 /\ job'[j].maxAttempts = job[j].maxAttempts
              \/ \E w \in Workers : /\ Claim(w, j)
                                    /\ job'[j].attempts = job[j].attempts + 1
                                    /\ job'[j].maxAttempts = job[j].maxAttempts
              \/ \E a \in Admins : /\ RequeueDeadLetter(a) /\ adm[a].job = j
                                   /\ job'[j].attempts = job[j].attempts
<1> DEFINE Goal == /\ job'[j].status # "ABSENT"
                   /\ \/ /\ job'[j].attempts = job[j].attempts
                         /\ job'[j].maxAttempts = job[j].maxAttempts
                      \/ \E w \in Workers : /\ Claim(w, j)
                                            /\ job'[j].attempts = job[j].attempts + 1
                                            /\ job'[j].maxAttempts = job[j].maxAttempts
                      \/ \E a \in Admins : /\ RequeueDeadLetter(a) /\ adm[a].job = j
                                           /\ job'[j].attempts = job[j].attempts
<1>1. ASSUME NEW i \in Jobs, Enqueue(i) PROVE Goal
  BY <1>1, RowCreated
<1>2. ASSUME NEW i \in Jobs, BecomeDue(i) PROVE Goal
  BY <1>2, RowDue
<1>3. ASSUME NEW w \in Workers, NEW i \in Jobs, Claim(w, i) PROVE Goal
  BY <1>3, ClaimTakes
<1>4. ASSUME NEW w \in Workers, Complete(w) \/ CompleteAckLost(w) PROVE Goal
  BY <1>4, SuccessStored
<1>5. ASSUME NEW w \in Workers, FailOrRetry(w) PROVE Goal
  BY <1>5, FailureStored
<1>6. ASSUME NEW a \in Admins, RequeueDeadLetter(a) PROVE Goal
  BY <1>6, RowRequeued
<1>7. ASSUME job' = job PROVE Goal
  BY <1>7
<1> QED BY <1>1, <1>2, <1>3, <1>4, <1>5, <1>6, <1>7
        DEF Next, WorkerStep, Process, CompleteRolledBack, Crash, Restart, ReadDeadLetter, vars

\* Nor does a row lose an attempt.
LEMMA AttemptsGrow ==
    ASSUME TypeOK, [Next]_vars, NEW j \in Jobs, job[j].status # "ABSENT"
    PROVE  job[j].attempts <= job'[j].attempts
BY NextCounts, RowNumbers

LEMMA NextFits ==
    ASSUME TypeOK, TypeOK', Unseen, CopiesFit, [Next]_vars
    PROVE  CopiesFit'
<1>1. ASSUME NEW j \in Jobs PROVE RowFits(j)'
  <2>1. /\ job[j].attempts \in Nat /\ job[j].maxAttempts \in Nat
        /\ PolicyMax[j] \in Nat /\ PolicyMax[j] >= 1
        /\ job'[j].attempts \in Nat /\ job'[j].maxAttempts \in Nat
    BY RowNumbers, JobQueueAssumption DEF TypeOK, Row
  <2>2. CASE job[j].status = "ABSENT"
    <3>1. job'[j] = job[j] \/ (job'[j].attempts = 0 /\ job'[j].maxAttempts = PolicyMax[j])
      <4>1. ASSUME NEW i \in Jobs, Enqueue(i)
            PROVE  job'[j] = job[j] \/ (job'[j].attempts = 0 /\ job'[j].maxAttempts = PolicyMax[j])
        BY <4>1, RowCreated
      <4>2. ASSUME NEW i \in Jobs, BecomeDue(i) PROVE job'[j] = job[j]
        <5>1. i # j /\ job' = [job EXCEPT ![i].runAfter = "due"]
          BY <2>2, <4>2 DEF BecomeDue, Waiting
        <5> QED BY <5>1 DEF TypeOK
      <4>3. ASSUME NEW w \in Workers, NEW i \in Jobs, Claim(w, i) PROVE job'[j] = job[j]
        BY <2>2, <4>3, ClaimTakes DEF Waiting
      <4>4. ASSUME NEW w \in Workers, Complete(w) \/ CompleteAckLost(w) \/ FailOrRetry(w)
            PROVE  job'[j] = job[j]
        <5>1. w \notin Holders(j)
          BY <2>2 DEF Unseen
        <5>2. wk[w].job # j
          BY <4>4, <5>1 DEF Holders, Holds, Complete, CompleteAckLost, FailOrRetry, Busy
        <5> QED BY <4>4, <5>2, SuccessStored, FailureStored
      <4>5. ASSUME NEW a \in Admins, RequeueDeadLetter(a) PROVE job'[j] = job[j]
        <5>1. adm[a].job # j
          BY <2>2 DEF Unseen
        <5> QED BY <4>5, <5>1, RowRequeued
      <4>6. job' = job => job'[j] = job[j]
        OBVIOUS
      <4> QED BY <4>1, <4>2, <4>3, <4>4, <4>5, <4>6
              DEF Next, WorkerStep, Process, CompleteRolledBack, Crash, Restart,
                  ReadDeadLetter, vars
    <3> QED BY <2>1, <2>2, <3>1 DEF RowFits
  <2>3. CASE job[j].status # "ABSENT"
    <3>1. /\ PolicyMax[j] <= job[j].maxAttempts
          /\ job[j].maxAttempts <= PolicyMax[j] \/ job[j].maxAttempts <= job[j].attempts + 1
      BY <2>3 DEF CopiesFit, RowFits
    <3>2. CASE /\ job'[j].maxAttempts = job[j].maxAttempts
               /\ job[j].attempts <= job'[j].attempts
      BY <2>1, <3>1, <3>2 DEF RowFits
    <3>3. ASSUME NEW a \in Admins, RequeueDeadLetter(a), adm[a].job = j,
                 job'[j].attempts = job[j].attempts
          PROVE  RowFits(j)'
      <4>1. /\ job'[j].maxAttempts \in {adm[a].maxAttempts, adm[a].attempts + 1, PolicyMax[j]}
            /\ PolicyMax[j] <= job'[j].maxAttempts
        BY <3>3, RowRequeued
      <4>2. adm[a].attempts \in Nat /\ adm[a].maxAttempts \in Nat
        BY DEF TypeOK, Snapshot
      <4>3. /\ adm[a].attempts <= job[j].attempts
            /\ adm[a].maxAttempts <= PolicyMax[j] \/ adm[a].maxAttempts <= adm[a].attempts + 1
        BY <3>3, JobQueueAssumption DEF CopiesFit, OperatorFits
      <4> QED BY <2>1, <3>3, <4>1, <4>2, <4>3 DEF RowFits
    <3>4. CASE \E w \in Workers : Claim(w, j) /\ job'[j].attempts = job[j].attempts + 1
                                  /\ job'[j].maxAttempts = job[j].maxAttempts
      BY <2>1, <3>2, <3>4
    <3> QED BY <2>1, <2>3, <3>2, <3>3, <3>4, NextCounts
  <2> QED BY <2>2, <2>3
<1>2. ASSUME NEW w \in Workers PROVE WorkerFits(w)'
  <2>1. CASE \E j \in Jobs : Claim(w, j)
    <3>1. PICK j \in Jobs : Claim(w, j)
      BY <2>1
    <3>2. /\ wk'[w].job = j /\ wk'[w].attempts = job[j].attempts + 1
          /\ wk'[w].maxAttempts = job[j].maxAttempts
          /\ job'[j].attempts = job[j].attempts + 1
          /\ job[j].status # "ABSENT"
      BY <3>1, ClaimTakes DEF Waiting
    <3>3. /\ job[j].attempts \in Nat /\ job[j].maxAttempts \in Nat /\ PolicyMax[j] \in Nat
      BY RowNumbers
    <3>4. RowFits(j)
      BY DEF CopiesFit
    <3> QED BY <3>2, <3>3, <3>4 DEF WorkerFits, RowFits
  <2>2. CASE ~\E j \in Jobs : Claim(w, j)
    <3> SUFFICES ASSUME wk'[w].pc \in Busy PROVE WorkerFits(w)'
      BY DEF WorkerFits
    <3>1. /\ wk[w].pc \in Busy /\ wk'[w].job = wk[w].job
          /\ wk'[w].attempts = wk[w].attempts /\ wk'[w].maxAttempts = wk[w].maxAttempts
      <4>1. ASSUME NEW v \in Workers, NEW j \in Jobs, Claim(v, j) PROVE wk'[w] = wk[w]
        BY <2>2, <4>1, ClaimTakes
      <4>2. ASSUME NEW v \in Workers,
                   Process(v) \/ CompleteRolledBack(v) \/ CompleteAckLost(v)
            PROVE  /\ wk[w].pc \in Busy /\ wk'[w].job = wk[w].job
                   /\ wk'[w].attempts = wk[w].attempts
                   /\ wk'[w].maxAttempts = wk[w].maxAttempts
        BY <4>2, StaysBusy
      <4>3. ASSUME NEW v \in Workers, Complete(v) \/ FailOrRetry(v) \/ Crash(v) \/ Restart(v)
            PROVE  wk'[w] = wk[w]
        BY <4>3, LetsGo
      <4>4. wk' = wk => wk'[w] = wk[w]
        OBVIOUS
      <4> QED BY <4>1, <4>2, <4>3, <4>4
              DEF Next, WorkerStep, Enqueue, BecomeDue, ReadDeadLetter, RequeueDeadLetter, vars
    <3>2. wk[w].job \in Jobs /\ wk[w].attempts \in Nat
      BY <3>1 DEF TypeOK, Worker
    <3>3. job[wk[w].job].status # "ABSENT"
      BY <3>1, <3>2 DEF Unseen, Holders, Holds
    <3>4. job[wk[w].job].attempts <= job'[wk[w].job].attempts
          /\ job[wk[w].job].attempts \in Nat /\ job'[wk[w].job].attempts \in Nat
      BY <3>2, <3>3, AttemptsGrow DEF TypeOK, Row
    <3>5. WorkerFits(w)
      BY DEF CopiesFit
    <3> QED BY <3>1, <3>2, <3>4, <3>5 DEF WorkerFits
  <2> QED BY <2>1, <2>2
<1>3. ASSUME NEW a \in Admins PROVE OperatorFits(a)'
  <2> SUFFICES ASSUME adm'[a].job # NoJob PROVE OperatorFits(a)'
    BY DEF OperatorFits
  <2>1. CASE \E j \in Jobs : ReadDeadLetter(a, j)
    <3>1. PICK j \in Jobs : ReadDeadLetter(a, j)
      BY <2>1
    <3>2. /\ adm'[a].job = j /\ adm'[a].attempts = job[j].attempts
          /\ adm'[a].maxAttempts = job[j].maxAttempts
          /\ job' = job /\ job[j].status # "ABSENT"
      BY <3>1 DEF ReadDeadLetter, TypeOK
    <3>3. job[j].attempts \in Nat /\ job[j].maxAttempts \in Nat /\ PolicyMax[j] \in Nat
      BY RowNumbers
    <3>4. RowFits(j)
      BY DEF CopiesFit
    <3> QED BY <3>2, <3>3, <3>4 DEF OperatorFits, RowFits
  <2>2. CASE ~\E j \in Jobs : ReadDeadLetter(a, j)
    <3>1. adm'[a] = adm[a]
      <4>1. ASSUME NEW b \in Admins, NEW j \in Jobs, ReadDeadLetter(b, j) PROVE adm'[a] = adm[a]
        <5>1. b # a
          BY <2>2, <4>1
        <5> QED BY <4>1, <5>1 DEF ReadDeadLetter, TypeOK
      <4>2. ASSUME NEW b \in Admins, RequeueDeadLetter(b) PROVE adm'[a] = adm[a]
        <5>1. adm' = [adm EXCEPT ![b] = NoSnapshot] /\ NoSnapshot.job = NoJob
          BY <4>2 DEF RequeueDeadLetter, NoSnapshot
        <5> QED BY <5>1 DEF TypeOK
      <4>3. adm' = adm => adm'[a] = adm[a]
        OBVIOUS
      <4> QED BY <4>1, <4>2, <4>3
              DEF Next, WorkerStep, Enqueue, BecomeDue, Claim, Process, Complete,
                  CompleteRolledBack, CompleteAckLost, FailOrRetry, Crash, Restart, vars
    <3>2. adm[a].job \in Jobs /\ adm[a].attempts \in Nat
      BY <3>1 DEF TypeOK, Snapshot
    <3>3. job[adm[a].job].status # "ABSENT"
      BY <3>2 DEF Unseen
    <3>4. job[adm[a].job].attempts <= job'[adm[a].job].attempts
          /\ job[adm[a].job].attempts \in Nat /\ job'[adm[a].job].attempts \in Nat
      BY <3>2, <3>3, AttemptsGrow DEF TypeOK, Row
    <3>5. OperatorFits(a)
      BY DEF CopiesFit
    <3> QED BY <3>1, <3>2, <3>4, <3>5 DEF OperatorFits
  <2> QED BY <2>1, <2>2
<1> QED BY <1>1, <1>2, <1>3 DEF CopiesFit

\* The workers whose failure puts j in line again, and j if it is in line.
Retriers(j) == {w \in Workers : Holds(w, j) /\ wk[w].attempts < wk[w].maxAttempts}

Tries(j) == Cardinality(Retriers(j)) + (IF job[j].status \in Waiting THEN 1 ELSE 0)

\* Once a row has had the attempts of its policy, each try left is owed to a
\* requeue.
BudgetInv ==
    \A j \in Jobs :
        job[j].attempts >= PolicyMax[j] =>
            job[j].attempts + Tries(j) <= PolicyMax[j] + revivals

LEMMA RetriersCount ==
    ASSUME TokenInv, NEW j \in Jobs
    PROVE  /\ IsFiniteSet(Retriers(j)) /\ Cardinality(Retriers(j)) \in Nat
           /\ Cardinality(Retriers(j)) <= Cardinality(Holders(j))
           /\ Cardinality(Holders(j)) \in Nat
<1>1. Retriers(j) \subseteq Holders(j) /\ IsFiniteSet(Holders(j))
  BY DEF Retriers, Holders, TokenInv
<1> QED BY <1>1, CountSubset

LEMMA NextTries ==
    ASSUME QueueInv, QueueInv', CopiesFit, CopiesFit', BudgetInv, [Next]_vars
    PROVE  BudgetInv'
<1> SUFFICES ASSUME NEW j \in Jobs, job'[j].attempts >= PolicyMax[j]
             PROVE  job'[j].attempts + Tries(j)' <= PolicyMax[j] + revivals'
  BY DEF BudgetInv
<1> DEFINE n == Cardinality(Retriers(j))
           m == Cardinality(Retriers(j)')
           wait == IF job[j].status \in Waiting THEN 1 ELSE 0
           await == IF job'[j].status \in Waiting THEN 1 ELSE 0
           Goal == job'[j].attempts + Tries(j)' <= PolicyMax[j] + revivals'
<1>0. /\ IsFiniteSet(Retriers(j)) /\ n \in Nat /\ m \in Nat
      /\ Tries(j) = n + wait /\ Tries(j)' = m + await
      /\ job[j].attempts \in Nat /\ job'[j].attempts \in Nat
      /\ PolicyMax[j] \in Nat /\ PolicyMax[j] >= 1
      /\ revivals \in Nat /\ overtaken \in Nat /\ overtaken <= revivals
      /\ revivals' \in Nat
      /\ wait \in {0, 1} /\ await \in {0, 1}
  <2>1. TypeOK /\ TypeOK' /\ TokenInv /\ TokenInv'
    BY DEF QueueInv
  <2>2. IsFiniteSet(Retriers(j)) /\ n \in Nat
    BY <2>1, RetriersCount
  <2>3. Retriers(j)' \subseteq Holders(j)' /\ IsFiniteSet(Holders(j)')
    BY <2>1 DEF Retriers, Holders, TokenInv
  <2>4. m \in Nat
    BY <2>3, CountSubset
  <2>5. Tries(j) = n + wait /\ Tries(j)' = m + await
    BY DEF Tries
  <2>6. job[j].attempts \in Nat /\ job'[j].attempts \in Nat
        /\ PolicyMax[j] \in Nat /\ PolicyMax[j] >= 1
    BY <2>1, RowNumbers DEF TypeOK, Row
  <2>7. revivals \in Nat /\ overtaken \in Nat /\ overtaken <= revivals /\ revivals' \in Nat
    BY <2>1 DEF TypeOK
  <2> QED BY <2>2, <2>4, <2>5, <2>6, <2>7
<1>00. job[j].attempts >= PolicyMax[j] => job[j].attempts + Tries(j) <= PolicyMax[j] + revivals
  BY DEF BudgetInv
<1> HIDE DEF n, m, wait, await
<1>1. ASSUME Retriers(j)' \subseteq Retriers(j), job'[j].attempts = job[j].attempts,
             await <= wait, revivals' = revivals
      PROVE  Goal
  <2>1. m <= n
    BY <1>0, <1>1, CountSubset DEF n, m
  <2> QED BY <1>0, <1>00, <1>1, <2>1
<1>2. ASSUME NEW i \in Jobs, Enqueue(i) PROVE Goal
  <2>1. j # i /\ job'[j] = job[j]
    BY <1>0, <1>2, RowCreated DEF QueueInv
  <2>2. Retriers(j)' \subseteq Retriers(j) /\ revivals' = revivals
    BY <1>2 DEF Enqueue, Retriers, Holds
  <2> QED BY <1>0, <1>1, <2>1, <2>2 DEF wait, await
<1>3. ASSUME NEW i \in Jobs, BecomeDue(i) PROVE Goal
  <2>1. Retriers(j)' \subseteq Retriers(j) /\ revivals' = revivals
    BY <1>3 DEF BecomeDue, Retriers, Holds
  <2>2. job'[j].attempts = job[j].attempts /\ await = wait
    BY <1>3, RowDue DEF QueueInv, wait, await
  <2> QED BY <1>0, <1>1, <2>1, <2>2
<1>4. ASSUME NEW w \in Workers, NEW i \in Jobs, Claim(w, i) PROVE Goal
  <2>1. TypeOK /\ TokenInv /\ revivals' = revivals
    BY <1>4 DEF QueueInv, Claim
  <2>2. CASE i # j
    <3>1. Retriers(j)' \subseteq Retriers(j)
      BY <1>4, <2>1, <2>2, ClaimTakes DEF Retriers, Holds
    <3>2. job'[j] = job[j]
      BY <1>4, <2>1, <2>2, ClaimTakes
    <3> QED BY <1>0, <1>1, <2>1, <3>1, <3>2 DEF wait, await
  <2>3. CASE i = j
    <3>1. /\ job[j].status \in Waiting /\ job'[j].status = "RUNNING"
          /\ job'[j].attempts = job[j].attempts + 1
          /\ wk'[w].job = j /\ wk'[w].attempts = job'[j].attempts
          /\ \A v \in Workers : v # w => wk'[v] = wk[v]
          /\ wk'[w].pc = "processing"
      BY <1>4, <2>1, <2>3, ClaimTakes
    <3>2. wait = 1 /\ await = 0
      BY <3>1 DEF wait, await, Waiting
    <3>3. ~(wk'[w].attempts < wk'[w].maxAttempts)
      <4>1. WorkerFits(w)' /\ wk'[w].pc \in Busy
        BY <3>1 DEF CopiesFit, Busy
      <4>2. wk'[w].maxAttempts \in Nat
        BY DEF QueueInv, TypeOK, Worker
      <4> QED BY <1>0, <3>1, <4>1, <4>2 DEF WorkerFits
    <3>4. Retriers(j)' \subseteq Retriers(j)
      BY <3>1, <3>3 DEF Retriers, Holds
    <3>5. m <= n
      BY <1>0, <3>4, CountSubset DEF n, m
    <3>6. CASE job[j].attempts >= PolicyMax[j]
      BY <1>0, <1>00, <2>1, <3>1, <3>2, <3>5, <3>6
    <3>7. CASE ~(job[j].attempts >= PolicyMax[j])
      <4>1. n <= Cardinality(Holders(j)) /\ Cardinality(Holders(j)) \in Nat
        BY <2>1, RetriersCount DEF n
      <4>2. Openings(j) >= 1 /\ Openings(j) \in 0 .. 2
        BY <3>1, OpeningsType DEF MayBeClaimed
      <4>3. Cardinality(Holders(j)) + Openings(j) <= 1 + overtaken
        BY <2>1 DEF TokenInv, Tokens
      <4> HIDE DEF Goal
      <4>4. n <= overtaken
        BY <1>0, <4>1, <4>2, <4>3
      <4> QED BY <1>0, <2>1, <3>1, <3>2, <3>5, <3>7, <4>4 DEF Goal
    <3> QED BY <3>6, <3>7
  <2> QED BY <2>2, <2>3
<1>5. ASSUME NEW w \in Workers, Process(w) \/ CompleteRolledBack(w) \/ CompleteAckLost(w)
      PROVE  Goal
  <2>1. TypeOK /\ revivals' = revivals
    BY <1>5 DEF QueueInv, Process, CompleteRolledBack, CompleteAckLost
  <2>2. Retriers(j)' \subseteq Retriers(j)
    BY <1>5, <2>1, StaysBusy DEF Retriers, Holds
  <2>3. job'[j].attempts = job[j].attempts /\ await <= wait
    <3>1. CASE Process(w) \/ CompleteRolledBack(w)
      BY <1>0, <3>1 DEF Process, CompleteRolledBack, wait, await
    <3>2. CASE CompleteAckLost(w)
      <4>1. job'[j] = job[j] \/ (job'[j].status = "SUCCEEDED" /\ job'[j].attempts = job[j].attempts)
        BY <2>1, <3>2, SuccessStored
      <4> QED BY <1>0, <4>1 DEF wait, await, Waiting
    <3> QED BY <1>5, <3>1, <3>2
  <2> QED BY <1>1, <2>1, <2>2, <2>3
<1>6. ASSUME NEW w \in Workers, Complete(w) \/ Crash(w) \/ Restart(w) PROVE Goal
  <2>1. TypeOK /\ revivals' = revivals
    BY <1>6 DEF QueueInv, Complete, Crash, Restart
  <2>2. Retriers(j)' \subseteq Retriers(j)
    BY <1>6, <2>1, LetsGo DEF Retriers, Holds
  <2>3. job'[j].attempts = job[j].attempts /\ await <= wait
    <3>1. CASE Crash(w) \/ Restart(w)
      BY <1>0, <3>1 DEF Crash, Restart, wait, await
    <3>2. CASE Complete(w)
      <4>1. job'[j] = job[j] \/ (job'[j].status = "SUCCEEDED" /\ job'[j].attempts = job[j].attempts)
        BY <2>1, <3>2, SuccessStored
      <4> QED BY <1>0, <4>1 DEF wait, await, Waiting
    <3> QED BY <1>6, <3>1, <3>2
  <2> QED BY <1>1, <2>1, <2>2, <2>3
<1>7. ASSUME NEW w \in Workers, FailOrRetry(w) PROVE Goal
  <2>1. TypeOK /\ revivals' = revivals
    BY <1>7 DEF QueueInv, FailOrRetry
  <2>2. /\ wk[w].pc = "failing"
        /\ job'[j].attempts = job[j].attempts
        /\ j # wk[w].job => job'[j] = job[j]
        /\ j = wk[w].job => job'[j].status = IF ShouldRetry(w) THEN "RETRYING" ELSE "FAILED"
    BY <1>7, <2>1, FailureStored
  <2>3. Retriers(j)' \subseteq Retriers(j) \ {w}
    BY <1>7, <2>1, LetsGo DEF Retriers, Holds
  <2>4. CASE w \in Retriers(j)
    <3>1. m + 1 <= n
      BY <1>0, <2>3, <2>4, CountLess DEF n, m
    <3> QED BY <1>0, <1>00, <2>1, <2>2, <3>1
  <2>5. CASE w \notin Retriers(j)
    <3>1. await <= wait
      <4>1. j = wk[w].job => ~ShouldRetry(w)
        BY <2>2, <2>5 DEF Retriers, Holds, ShouldRetry, Busy
      <4> QED BY <1>0, <2>2, <4>1 DEF wait, await, Waiting
    <3> QED BY <1>1, <2>1, <2>2, <2>3, <3>1
  <2> QED BY <2>4, <2>5
<1>8. ASSUME NEW a \in Admins, NEW i \in Jobs, ReadDeadLetter(a, i) PROVE Goal
  <2>1. Retriers(j)' \subseteq Retriers(j) /\ revivals' = revivals /\ job' = job
    BY <1>8 DEF ReadDeadLetter, Retriers, Holds
  <2> QED BY <1>0, <1>1, <2>1 DEF wait, await
<1>9. ASSUME NEW a \in Admins, RequeueDeadLetter(a) PROVE Goal
  <2>1. Retriers(j)' \subseteq Retriers(j) /\ revivals' = revivals + 1
    BY <1>9 DEF RequeueDeadLetter, Retriers, Holds
  <2>2. job'[j].attempts = job[j].attempts
    BY <1>9, RowRequeued DEF QueueInv
  <2>3. m <= n
    BY <1>0, <2>1, CountSubset DEF n, m
  <2> QED BY <1>0, <1>00, <2>1, <2>2, <2>3
<1>10. ASSUME UNCHANGED vars PROVE Goal
  <2>1. Retriers(j)' \subseteq Retriers(j) /\ revivals' = revivals /\ job' = job
    BY <1>10 DEF vars, Retriers, Holds
  <2> QED BY <1>0, <1>1, <2>1 DEF wait, await
<1> QED BY <1>2, <1>3, <1>4, <1>5, <1>6, <1>7, <1>8, <1>9, <1>10 DEF Next, WorkerStep

CountsInv == CopiesFit /\ BudgetInv

LEMMA CountsHold == Spec => []CountsInv
<1>1. Init => CountsInv
  <2> SUFFICES ASSUME Init PROVE CountsInv
    OBVIOUS
  <2>1. CopiesFit
    BY DEF Init, CopiesFit, RowFits, WorkerFits, OperatorFits, NoRow, Idle, Busy, NoSnapshot
  <2>2. ASSUME NEW j \in Jobs PROVE ~(job[j].attempts >= PolicyMax[j])
    <3>1. job[j].attempts = 0 /\ PolicyMax[j] \in Nat \ {0}
      BY JobQueueAssumption DEF Init, NoRow
    <3> QED BY <3>1
  <2> QED BY <2>1, <2>2 DEF CountsInv, BudgetInv
<1>2. QueueInv /\ QueueInv' /\ CountsInv /\ [Next]_vars => CountsInv'
  <2>1. QueueInv /\ QueueInv' /\ CopiesFit /\ [Next]_vars => CopiesFit'
    BY NextFits DEF QueueInv
  <2>2. QueueInv /\ QueueInv' /\ CopiesFit /\ CopiesFit' /\ BudgetInv /\ [Next]_vars => BudgetInv'
    BY NextTries
  <2> QED BY <2>1, <2>2 DEF CountsInv
<1> QED BY <1>1, <1>2, QueueHolds, PTL DEF Spec

-----------------------------------------------------------------------------
(***************************************************************************)
(* Before the first overtaken requeue: the copies are the rows, so that    *)
(* whoever writes a row is its only holder.                                *)
(***************************************************************************)
ExclusiveExecution ==
    \A v, w \in Workers : \A j \in Jobs : Holds(v, j) /\ Holds(w, j) => v = w

Exact == ExclusiveExecution /\ CopiesCurrent

WithinMaximum ==
    \A j \in Jobs :
        /\ job[j].status \in Waiting => job[j].attempts < job[j].maxAttempts
        /\ job[j].status = "RUNNING" => job[j].attempts <= job[j].maxAttempts

Inv == TypeOK /\ Exact /\ WithinMaximum

\* No row, no copy of a row: lease and budget hold at the start.
LEMMA InitInv == Init => Inv
<1>1. Init => Exact /\ WithinMaximum
  BY DEF Init, Exact, CopiesCurrent, ExclusiveExecution, Holds, WithinMaximum, Idle, NoRow, NoSnapshot,
         Busy, Waiting
<1>2. QED
  BY <1>1, InitTypeOK DEF Inv

\* A row nobody has a copy of may be replaced by any row.
LEMMA FreeRow ==
    ASSUME TypeOK, Exact, NEW j \in Jobs, NEW r,
           job' = [job EXCEPT ![j] = r],
           wk' = wk, adm' = adm, crossed' = crossed, lostAcks' = lostAcks,
           job[j].status \notin {"RUNNING", "SUCCEEDED", "FAILED"}
    PROVE  Exact'
<1>1. ASSUME NEW w \in Workers, wk[w].pc \in Busy
      PROVE  wk[w].job \in Jobs /\ wk[w].job # j
  BY <1>1 DEF TypeOK, Exact, CopiesCurrent, SnapshotCurrent
<1>2. ASSUME NEW a \in Admins, adm[a].job # NoJob, ~crossed[a]
      PROVE  adm[a].job \in Jobs /\ adm[a].job # j
  BY <1>2 DEF TypeOK, Snapshot, Exact, CopiesCurrent, DeadLetterCurrent
<1>3. \A k \in Jobs : k # j => job'[k] = job[k]
  BY DEF TypeOK
<1>4. ExclusiveExecution'
  BY DEF Exact, CopiesCurrent, ExclusiveExecution, Holds
<1>5. \A w \in Workers : wk[w].pc \in Busy => SnapshotCurrent(w)'
  BY <1>1, <1>3 DEF Exact, CopiesCurrent, SnapshotCurrent
<1>6. \A a \in Admins : adm[a].job # NoJob /\ ~crossed[a] => DeadLetterCurrent(a)'
  BY <1>2, <1>3 DEF Exact, CopiesCurrent, DeadLetterCurrent
<1>7. QED
  BY <1>4, <1>5, <1>6 DEF Exact, CopiesCurrent

\* A worker that lets its job go leaves the copies of all others current,
\* whatever it writes to the row.
LEMMA WorkerLetsGo ==
    ASSUME TypeOK, Exact, NEW w \in Workers, NEW r, NEW idle,
           wk[w].pc \in Busy,
           job' = [job EXCEPT ![wk[w].job] = r],
           wk' = [wk EXCEPT ![w] = idle], idle.pc \notin Busy,
           adm' = adm, crossed' = crossed, lostAcks' = lostAcks
    PROVE  Exact'
<1> DEFINE j == wk[w].job
<1>1. j \in Jobs /\ job[j].status \in {"RUNNING", "SUCCEEDED"}
  BY DEF TypeOK, Exact, CopiesCurrent, SnapshotCurrent
<1>2. ASSUME NEW v \in Workers, wk'[v].pc \in Busy
      PROVE  v # w /\ wk'[v] = wk[v] /\ wk[v].job \in Jobs /\ wk[v].job # j
  <2>1. v # w /\ wk'[v] = wk[v] /\ wk[v].pc \in Busy
    BY <1>2 DEF TypeOK
  <2>2. QED
    BY <1>1, <2>1 DEF TypeOK, Exact, CopiesCurrent, ExclusiveExecution, Holds
<1>3. ASSUME NEW a \in Admins, adm[a].job # NoJob, ~crossed[a]
      PROVE  adm[a].job \in Jobs /\ adm[a].job # j
  BY <1>1, <1>3 DEF TypeOK, Snapshot, Exact, CopiesCurrent, DeadLetterCurrent
<1>4. \A k \in Jobs : k # j => job'[k] = job[k]
  BY <1>1 DEF TypeOK
<1>5. ExclusiveExecution'
  BY <1>2 DEF Exact, CopiesCurrent, ExclusiveExecution, Holds
<1>6. \A v \in Workers : wk'[v].pc \in Busy => SnapshotCurrent(v)'
  BY <1>2, <1>4 DEF Exact, CopiesCurrent, SnapshotCurrent
<1>7. \A a \in Admins : adm[a].job # NoJob /\ ~crossed[a] => DeadLetterCurrent(a)'
  BY <1>3, <1>4 DEF Exact, CopiesCurrent, DeadLetterCurrent
<1>8. QED
  BY <1>5, <1>6, <1>7 DEF Exact, CopiesCurrent

\* A step of a worker that writes neither a row nor who holds what.
LEMMA SameHolders ==
    ASSUME TypeOK, Exact, NEW w \in Workers, NEW pc, NEW e,
           wk[w].pc = "processing" \/ (wk[w].pc = "completing" /\ pc = "failing"),
           pc \in Busy,
           wk' = [wk EXCEPT ![w] = [@ EXCEPT !.pc = pc, !.error = e]],
           job' = job, adm' = adm, crossed' = crossed, lostAcks' = lostAcks
    PROVE  Exact'
<1>1. ASSUME NEW v \in Workers
      PROVE  /\ wk'[v].job = wk[v].job
             /\ wk'[v].attempts = wk[v].attempts
             /\ wk'[v].maxAttempts = wk[v].maxAttempts
             /\ wk'[v].pc \in Busy => wk[v].pc \in Busy
             /\ v # w => wk'[v].pc = wk[v].pc
  BY DEF TypeOK, Worker, Busy
<1>2. ExclusiveExecution'
  BY <1>1 DEF Exact, CopiesCurrent, ExclusiveExecution, Holds
<1>3. ASSUME NEW v \in Workers, wk'[v].pc \in Busy PROVE SnapshotCurrent(v)'
  <2>1. SnapshotCurrent(v)
    BY <1>1, <1>3 DEF Exact, CopiesCurrent
  <2>2. CASE v # w
    BY <1>1, <2>1, <2>2 DEF SnapshotCurrent
  <2>3. CASE v = w
    <3>1. job[wk[w].job].status = "RUNNING" /\ job[wk[w].job].lockedBy = w
      BY <2>1, <2>3 DEF SnapshotCurrent
    <3>2. QED
      BY <1>1, <2>1, <2>3, <3>1 DEF SnapshotCurrent
  <2>4. QED
    BY <2>2, <2>3
<1>4. \A a \in Admins : adm[a].job # NoJob /\ ~crossed[a] => DeadLetterCurrent(a)'
  BY DEF Exact, CopiesCurrent, DeadLetterCurrent
<1>5. QED
  BY <1>2, <1>3, <1>4 DEF Exact, CopiesCurrent

\* Every step keeps the lease: whoever writes a row is its only holder.
LEMMA NextExact ==
    ASSUME Inv, overtaken' = 0, [Next]_vars
    PROVE  Exact'
<1> USE DEF Inv
<1>1. ASSUME NEW j \in Jobs, Enqueue(j) PROVE Exact'
  BY <1>1, FreeRow DEF Enqueue
<1>2. ASSUME NEW j \in Jobs, BecomeDue(j) PROVE Exact'
  <2>1. job' = [job EXCEPT ![j] = [job[j] EXCEPT !.runAfter = "due"]]
    BY <1>2 DEF BecomeDue
  <2>2. QED
    BY <1>2, <2>1, FreeRow DEF BecomeDue, Waiting
<1>3. ASSUME NEW w \in Workers, NEW j \in Jobs, Claim(w, j) PROVE Exact'
  <2>1. job[j].status \in Waiting /\ job[j] \in Row
    BY <1>3 DEF Claim, FirstInLine, Eligible, TypeOK
  <2>2. ASSUME NEW v \in Workers, wk[v].pc \in Busy
        PROVE  v # w /\ wk[v].job \in Jobs /\ wk[v].job # j
    BY <1>3, <2>1, <2>2 DEF Claim, TypeOK, Exact, CopiesCurrent, SnapshotCurrent, Waiting, Busy
  <2>3. ASSUME NEW a \in Admins, adm[a].job # NoJob, ~crossed[a]
        PROVE  adm[a].job \in Jobs /\ adm[a].job # j
    BY <2>1, <2>3 DEF TypeOK, Snapshot, Exact, CopiesCurrent, DeadLetterCurrent, Waiting
  <2>4. \A k \in Jobs : k # j => job'[k] = job[k]
    BY <1>3 DEF Claim, TypeOK
  <2>5. \A v \in Workers : v # w => wk'[v] = wk[v]
    BY <1>3 DEF Claim, TypeOK
  <2>6. wk'[w] = [pc |-> "processing", job |-> j, attempts |-> job[j].attempts + 1,
                  maxAttempts |-> job[j].maxAttempts, error |-> "none"]
    BY <1>3 DEF Claim, TypeOK
  <2>7. job'[j] = Claimed(job[j], w)
    BY <1>3 DEF Claim, TypeOK
  <2>8. ExclusiveExecution'
    BY <2>2, <2>5, <2>6 DEF Exact, CopiesCurrent, ExclusiveExecution, Holds
  <2>9. \A v \in Workers : wk'[v].pc \in Busy => SnapshotCurrent(v)'
    <3>1. SnapshotCurrent(w)'
      BY <2>1, <2>6, <2>7, ClaimedRow DEF SnapshotCurrent
    <3>2. ASSUME NEW v \in Workers, v # w, wk'[v].pc \in Busy PROVE SnapshotCurrent(v)'
      BY <1>3, <2>2, <2>4, <2>5, <3>2 DEF Exact, CopiesCurrent, SnapshotCurrent, Claim
    <3>3. QED
      BY <3>1, <3>2
  <2>10. \A a \in Admins : adm'[a].job # NoJob /\ ~crossed'[a] => DeadLetterCurrent(a)'
    BY <1>3, <2>3, <2>4 DEF Exact, CopiesCurrent, DeadLetterCurrent, Claim
  <2>11. QED
    BY <2>8, <2>9, <2>10 DEF Exact, CopiesCurrent
<1>4. ASSUME NEW w \in Workers, Process(w) PROVE Exact'
  <2>1. CASE wk' = [wk EXCEPT ![w] = [@ EXCEPT !.pc = "completing", !.error = "none"]]
    BY <1>4, <2>1, SameHolders DEF Process, Busy
  <2>2. ASSUME NEW e \in {"transient", "fatal"},
               wk' = [wk EXCEPT ![w] = [@ EXCEPT !.pc = "failing", !.error = e]]
        PROVE  Exact'
    BY <1>4, <2>2, SameHolders DEF Process, Busy
  <2>3. QED
    BY <1>4, <2>1, <2>2 DEF Process
<1>5. ASSUME NEW w \in Workers, Complete(w) PROVE Exact'
  <2>1. job' = [job EXCEPT ![wk[w].job] = Released(job[wk[w].job], "SUCCEEDED")]
    BY <1>5 DEF Complete, StoreSuccess
  <2>2. Idle.pc \notin Busy /\ wk[w].pc \in Busy
    BY <1>5 DEF Complete, Busy, Idle
  <2>3. QED
    BY <1>5, <2>1, <2>2, WorkerLetsGo DEF Complete
<1>6. ASSUME NEW w \in Workers, CompleteRolledBack(w) PROVE Exact'
  BY <1>6, SameHolders DEF CompleteRolledBack, Busy
<1>7. ASSUME NEW w \in Workers, CompleteAckLost(w) PROVE Exact'
  <2> DEFINE j == wk[w].job
  <2>1. j \in Jobs /\ wk[w].pc \in Busy /\ job[j] \in Row /\ job[j].status = "RUNNING"
    BY <1>7 DEF CompleteAckLost, TypeOK, Busy, Exact, CopiesCurrent, SnapshotCurrent
  <2>2. \A k \in Jobs : k # j => job'[k] = job[k]
    BY <1>7, <2>1 DEF CompleteAckLost, StoreSuccess, TypeOK
  <2>3. job'[j] = Released(job[j], "SUCCEEDED")
    BY <1>7, <2>1 DEF CompleteAckLost, StoreSuccess, TypeOK
  <2>4. ASSUME NEW v \in Workers
        PROVE  /\ wk'[v].job = wk[v].job
               /\ wk'[v].attempts = wk[v].attempts
               /\ wk'[v].maxAttempts = wk[v].maxAttempts
               /\ v # w => wk'[v].pc = wk[v].pc
               /\ v = w => wk'[v].pc = "failing"
    BY <1>7 DEF CompleteAckLost, TypeOK, Worker
  <2>5. ExclusiveExecution'
    BY <2>1, <2>4 DEF Exact, CopiesCurrent, ExclusiveExecution, Holds
  <2>6. ASSUME NEW v \in Workers, wk'[v].pc \in Busy PROVE SnapshotCurrent(v)'
    <3>0. wk[v].pc \in Busy
      BY <2>1, <2>4, <2>6
    <3>1. lostAcks' > 0 /\ lostAcks' >= lostAcks
      BY <1>7 DEF CompleteAckLost, TypeOK
    <3>2. CASE v = w
      BY <2>1, <2>3, <2>4, <3>0, <3>1, <3>2, ReleasedRow DEF Exact, CopiesCurrent, SnapshotCurrent, Status
    <3>3. CASE v # w
      <4>1. wk[v].job \in Jobs /\ wk[v].job # j
        BY <2>1, <3>0, <3>3 DEF Exact, CopiesCurrent, ExclusiveExecution, Holds, TypeOK
      <4>2. SnapshotCurrent(v)
        BY <3>0 DEF Exact, CopiesCurrent
      <4>3. lostAcks > 0 => lostAcks' > 0
        BY <3>1
      <4>4. QED
        BY <2>2, <2>4, <3>3, <4>1, <4>2, <4>3 DEF SnapshotCurrent
    <3>4. QED
      BY <3>2, <3>3
  <2>7. ASSUME NEW a \in Admins, adm'[a].job # NoJob, ~crossed'[a] PROVE DeadLetterCurrent(a)'
    <3>1. adm' = adm /\ crossed' = crossed /\ adm[a].job \in Jobs /\ DeadLetterCurrent(a)
      BY <1>7, <2>7 DEF CompleteAckLost, TypeOK, Snapshot, Exact, CopiesCurrent
    <3>2. adm[a].job # j
      BY <2>1, <3>1 DEF DeadLetterCurrent
    <3>3. QED
      BY <2>2, <3>1, <3>2 DEF DeadLetterCurrent
  <2>8. QED
    BY <2>5, <2>6, <2>7 DEF Exact, CopiesCurrent
<1>8. ASSUME NEW w \in Workers, FailOrRetry(w) PROVE Exact'
  <2>1. \/ job' = [job EXCEPT ![wk[w].job] =
                      Rescheduled(job[wk[w].job], "later", job[wk[w].job].maxAttempts)]
        \/ job' = [job EXCEPT ![wk[w].job] = Released(job[wk[w].job], "FAILED")]
    BY <1>8 DEF FailOrRetry
  <2>2. Idle.pc \notin Busy /\ wk[w].pc \in Busy
    BY <1>8 DEF FailOrRetry, Busy, Idle
  <2>3. QED
    BY <1>8, <2>1, <2>2, WorkerLetsGo DEF FailOrRetry
<1>9. ASSUME NEW w \in Workers, Crash(w) \/ Restart(w) PROVE Exact'
  <2>1. /\ wk'[w].pc \notin Busy
        /\ \A v \in Workers : v # w => wk'[v] = wk[v]
        /\ job' = job /\ adm' = adm /\ crossed' = crossed /\ lostAcks' = lostAcks
    BY <1>9 DEF Crash, Restart, Idle, Busy, TypeOK
  <2>2. ExclusiveExecution'
    BY <2>1 DEF Exact, CopiesCurrent, ExclusiveExecution, Holds
  <2>3. \A v \in Workers : wk'[v].pc \in Busy => SnapshotCurrent(v)'
    BY <2>1 DEF Exact, CopiesCurrent, SnapshotCurrent
  <2>4. \A a \in Admins : adm'[a].job # NoJob /\ ~crossed'[a] => DeadLetterCurrent(a)'
    BY <2>1 DEF Exact, CopiesCurrent, DeadLetterCurrent
  <2>5. QED
    BY <2>2, <2>3, <2>4 DEF Exact, CopiesCurrent
<1>10. ASSUME NEW a \in Admins, NEW j \in Jobs, ReadDeadLetter(a, j) PROVE Exact'
  <2>1. /\ adm'[a] = [job |-> j, attempts |-> job[j].attempts,
                      maxAttempts |-> job[j].maxAttempts]
        /\ \A b \in Admins : b # a => adm'[b] = adm[b]
        /\ job' = job /\ wk' = wk /\ lostAcks' = lostAcks /\ crossed' = crossed
        /\ job[j].status = "FAILED"
    BY <1>10 DEF ReadDeadLetter, TypeOK
  <2>2. ExclusiveExecution' /\ \A w \in Workers : wk'[w].pc \in Busy => SnapshotCurrent(w)'
    BY <2>1 DEF Exact, CopiesCurrent, ExclusiveExecution, Holds, SnapshotCurrent
  <2>3. \A b \in Admins : adm'[b].job # NoJob /\ ~crossed'[b] => DeadLetterCurrent(b)'
    BY <2>1 DEF Exact, CopiesCurrent, DeadLetterCurrent
  <2>4. QED
    BY <2>2, <2>3 DEF Exact, CopiesCurrent
<1>11. ASSUME NEW a \in Admins, RequeueDeadLetter(a) PROVE Exact'
  <2> DEFINE j == adm[a].job
  <2>0. ~crossed[a]
    <3>1. overtaken + 1 # 0
      BY DEF TypeOK
    <3> QED BY <1>11, <3>1 DEF RequeueDeadLetter
  <2>1. j \in Jobs /\ job[j].status = "FAILED"
    BY <1>11, <2>0 DEF RequeueDeadLetter, TypeOK, Snapshot, Exact, CopiesCurrent, DeadLetterCurrent
  <2>2. /\ \A k \in Jobs : k # j => job'[k] = job[k]
        /\ wk' = wk /\ lostAcks' = lostAcks
        /\ \A b \in Admins : b # a => adm'[b] = adm[b]
        /\ adm'[a].job = NoJob
    BY <1>11, <2>1 DEF RequeueDeadLetter, TypeOK, NoSnapshot
  <2>3. ASSUME NEW w \in Workers, wk[w].pc \in Busy
        PROVE  wk[w].job \in Jobs /\ wk[w].job # j
    BY <2>1, <2>3 DEF TypeOK, Exact, CopiesCurrent, SnapshotCurrent
  <2>4. ExclusiveExecution' /\ \A w \in Workers : wk'[w].pc \in Busy => SnapshotCurrent(w)'
    BY <2>2, <2>3 DEF Exact, CopiesCurrent, ExclusiveExecution, Holds, SnapshotCurrent
  <2>5. \A b \in Admins : adm'[b].job # NoJob /\ ~crossed'[b] => DeadLetterCurrent(b)'
    <3> SUFFICES ASSUME NEW b \in Admins, adm'[b].job # NoJob, ~crossed'[b]
                 PROVE  DeadLetterCurrent(b)'
      OBVIOUS
    <3>1. b # a /\ ~crossed[b] /\ adm[b].job # j
      BY <1>11, <2>2 DEF RequeueDeadLetter
    <3>2. adm'[b] = adm[b] /\ adm[b].job \in Jobs
      BY <2>2, <3>1 DEF TypeOK, Snapshot
    <3> QED BY <2>2, <3>1, <3>2 DEF Exact, CopiesCurrent, DeadLetterCurrent
  <2>6. QED
    BY <2>4, <2>5 DEF Exact, CopiesCurrent
<1>12. ASSUME UNCHANGED vars PROVE Exact'
  BY <1>12 DEF vars, Exact, CopiesCurrent, ExclusiveExecution, Holds, SnapshotCurrent, DeadLetterCurrent
<1>13. QED
  BY <1>1, <1>2, <1>3, <1>4, <1>5, <1>6, <1>7, <1>8, <1>9, <1>10, <1>11, <1>12
     DEF Next, WorkerStep

\* Only the claim takes an attempt, and only from a row that has one left.
LEMMA NextWithin ==
    ASSUME Inv, overtaken' = 0, [Next]_vars
    PROVE  WithinMaximum'
<1> USE DEF Inv
<1> DEFINE Within(r) == /\ r.status \in Waiting => r.attempts < r.maxAttempts
                        /\ r.status = "RUNNING" => r.attempts <= r.maxAttempts
<1>0. ASSUME NEW j \in Jobs, NEW r, job' = [job EXCEPT ![j] = r], Within(r)
      PROVE  WithinMaximum'
  BY <1>0 DEF WithinMaximum, TypeOK
<1>1. ASSUME NEW j \in Jobs, Enqueue(j) PROVE WithinMaximum'
  <2>1. PICK t \in {"due", "later"} :
          job' = [job EXCEPT ![j] = [NoRow EXCEPT !.status = "QUEUED",
                                                  !.maxAttempts = PolicyMax[j],
                                                  !.runAfter = t]]
    BY <1>1 DEF Enqueue
  <2>2. Within([NoRow EXCEPT !.status = "QUEUED", !.maxAttempts = PolicyMax[j],
                             !.runAfter = t])
    <3> DEFINE r == [NoRow EXCEPT !.status = "QUEUED", !.maxAttempts = PolicyMax[j],
                                  !.runAfter = t]
    <3>1. r.status = "QUEUED" /\ r.attempts = 0 /\ r.maxAttempts = PolicyMax[j]
      BY NewRow
    <3>2. PolicyMax[j] \in Nat \ {0}
      BY JobQueueAssumption
    <3> HIDE DEF r
    <3>3. Within(r)
      BY <3>1, <3>2
    <3>4. QED
      BY <3>3 DEF r
  <2> HIDE DEF Within
  <2>3. QED
    BY <1>0, <2>1, <2>2
<1>2. ASSUME NEW j \in Jobs, BecomeDue(j) PROVE WithinMaximum'
  <2>1. job' = [job EXCEPT ![j] = [job[j] EXCEPT !.runAfter = "due"]]
    BY <1>2 DEF BecomeDue
  <2>2. Within([job[j] EXCEPT !.runAfter = "due"])
    BY DueRow DEF WithinMaximum, TypeOK
  <2> HIDE DEF Within
  <2>3. QED
    BY <1>0, <2>1, <2>2
<1>3. ASSUME NEW w \in Workers, NEW j \in Jobs, Claim(w, j) PROVE WithinMaximum'
  <2>1. job[j].status \in Waiting /\ job[j] \in Row
        /\ job[j].attempts \in Nat /\ job[j].maxAttempts \in Nat
    BY <1>3 DEF Claim, FirstInLine, Eligible, TypeOK, Row
  <2>2. Within(Claimed(job[j], w))
    BY <2>1, ClaimedRow DEF WithinMaximum, Waiting
  <2>3. job' = [job EXCEPT ![j] = Claimed(job[j], w)]
    BY <1>3 DEF Claim
  <2> HIDE DEF Within
  <2>4. QED
    BY <1>0, <2>2, <2>3
<1>4. ASSUME NEW w \in Workers, StoreSuccess(wk[w].job), wk[w].pc \in Busy
      PROVE  WithinMaximum'
  <2>1. wk[w].job \in Jobs /\ job[wk[w].job] \in Row
    BY <1>4 DEF TypeOK
  <2>2. Within(Released(job[wk[w].job], "SUCCEEDED"))
    BY <2>1, ReleasedRow DEF Waiting, Status
  <2>3. job' = [job EXCEPT ![wk[w].job] = Released(job[wk[w].job], "SUCCEEDED")]
    BY <1>4 DEF StoreSuccess
  <2> HIDE DEF Within
  <2>4. QED
    BY <1>0, <2>1, <2>2, <2>3
<1>5. ASSUME NEW w \in Workers, FailOrRetry(w) PROVE WithinMaximum'
  <2> DEFINE j == wk[w].job
  <2>1. j \in Jobs /\ job[j] \in Row /\ wk[w].pc \in Busy
        /\ job[j].attempts \in Nat /\ job[j].maxAttempts \in Nat
    BY <1>5 DEF FailOrRetry, TypeOK, Busy, Row
  <2>2. job[j].attempts = wk[w].attempts /\ job[j].maxAttempts = wk[w].maxAttempts
    BY <2>1 DEF Exact, CopiesCurrent, SnapshotCurrent
  <2>3. CASE ShouldRetry(w) /\ job' = [job EXCEPT ![j] = Rescheduled(job[j], "later", job[j].maxAttempts)]
    <3>1. Within(Rescheduled(job[j], "later", job[j].maxAttempts))
      BY <2>1, <2>2, <2>3, RescheduledRow DEF ShouldRetry
    <3> HIDE DEF Within
    <3>2. QED
      BY <1>0, <2>1, <2>3, <3>1
  <2>4. CASE job' = [job EXCEPT ![j] = Released(job[j], "FAILED")]
    <3>1. Within(Released(job[j], "FAILED"))
      BY <2>1, ReleasedRow DEF Waiting, Status
    <3> HIDE DEF Within
    <3>2. QED
      BY <1>0, <2>1, <2>4, <3>1
  <2>5. QED
    BY <1>5, <2>3, <2>4 DEF FailOrRetry
<1>6. ASSUME NEW a \in Admins, RequeueDeadLetter(a) PROVE WithinMaximum'
  <2> DEFINE j == adm[a].job
  <2>0. ~crossed[a]
    <3>1. overtaken + 1 # 0
      BY DEF TypeOK
    <3> QED BY <1>6, <3>1 DEF RequeueDeadLetter
  <2>1. j \in Jobs /\ job[j] \in Row /\ job[j].attempts = adm[a].attempts
        /\ adm[a].attempts \in Nat /\ adm[a].maxAttempts \in Nat /\ PolicyMax[j] \in Nat
    BY <1>6, <2>0, JobQueueAssumption DEF RequeueDeadLetter, TypeOK, Snapshot, Exact, CopiesCurrent, DeadLetterCurrent
  <2>2. PICK m \in {adm[a].maxAttempts, adm[a].attempts + 1, PolicyMax[j]} :
          /\ NextMaxAttempts(a, m)
          /\ job' = [job EXCEPT ![j] = Rescheduled(job[j], "due", m)]
    BY <1>6 DEF RequeueDeadLetter
  <2>3. m \in Nat /\ adm[a].attempts + 1 <= m
    BY <2>1, <2>2 DEF NextMaxAttempts
  <2>4. Within(Rescheduled(job[j], "due", m))
    <3>1. /\ Rescheduled(job[j], "due", m).status = "RETRYING"
          /\ Rescheduled(job[j], "due", m).attempts = adm[a].attempts
          /\ Rescheduled(job[j], "due", m).maxAttempts = m
      <4>1. ASSUME NEW r \in Row, NEW n \in Nat
            PROVE  /\ Rescheduled(r, "due", n).status = "RETRYING"
                   /\ Rescheduled(r, "due", n).attempts = r.attempts
                   /\ Rescheduled(r, "due", n).maxAttempts = n
        BY RescheduledRow
      <4>2. QED
        BY <2>1, <2>3, <4>1
    <3>2. adm[a].attempts < m
      BY <2>1, <2>3
    <3>3. QED
      BY <3>1, <3>2
  <2> HIDE DEF Within
  <2>5. QED
    BY <1>0, <2>1, <2>2, <2>4
<1>7. ASSUME job' = job PROVE WithinMaximum'
  BY <1>7 DEF WithinMaximum
<1>8. QED
  BY <1>1, <1>2, <1>3, <1>4, <1>5, <1>6, <1>7
     DEF Next, WorkerStep, Process, Complete, CompleteRolledBack, CompleteAckLost, Crash,
         Restart, ReadDeadLetter, vars, Busy

\* Requeues that were overtaken are never taken back.
LEMMA NextOvertaken ==
    ASSUME TypeOK, [Next]_vars
    PROVE  /\ overtaken' \in Nat /\ overtaken \in Nat /\ overtaken <= overtaken'
           /\ overtaken' = 0 => overtaken = 0
<1>1. overtaken' = overtaken \/ overtaken' = overtaken + 1
  BY DEF Next, WorkerStep, Enqueue, BecomeDue, Claim, Process, Complete,
         CompleteRolledBack, CompleteAckLost, FailOrRetry, Crash, Restart,
         ReadDeadLetter, RequeueDeadLetter, vars
<1>2. overtaken \in Nat
  BY DEF TypeOK
<1> QED BY <1>1, <1>2

ExactInv == overtaken = 0 => Exact /\ WithinMaximum

LEMMA ExactHolds == Spec => []ExactInv
<1>1. Init => ExactInv
  BY InitInv DEF ExactInv, Inv
<1>2. QueueInv /\ ExactInv /\ [Next]_vars => ExactInv'
  <2> SUFFICES ASSUME QueueInv, ExactInv, [Next]_vars, overtaken' = 0
               PROVE  (Exact /\ WithinMaximum)'
    BY DEF ExactInv
  <2>1. overtaken = 0
    BY NextOvertaken DEF QueueInv
  <2>2. Inv
    BY <2>1 DEF Inv, ExactInv, QueueInv
  <2> QED BY <2>2, NextExact, NextWithin
<1> QED BY <1>1, <1>2, QueueHolds, PTL DEF Spec

\* The lease of claimNextJob: a job is in the hands of one worker, and of one
\* more for each requeue that another requeue of the same dead letter overtook.
\* No number of workers, lost acknowledgements, crashes or requeues adds
\* another; and while no requeue was overtaken, the copy that a worker or an
\* operator acts on is the row.
THEOREM LeaseHolds == Spec => []Lease
<1>1. QueueInv /\ ExactInv => Lease
  <2> SUFFICES ASSUME QueueInv, ExactInv PROVE Lease
    OBVIOUS
  <2>1. ASSUME NEW j \in Jobs PROVE Cardinality({w \in Workers : Holds(w, j)}) <= 1 + overtaken
    <3>1. IsFiniteSet(Holders(j)) /\ Tokens(j) <= 1 + overtaken /\ overtaken \in Nat
      BY DEF QueueInv, TokenInv, TypeOK
    <3>2. Cardinality(Holders(j)) \in Nat /\ Openings(j) \in 0 .. 2
      BY <3>1, OpeningsType, FS_CardinalityType
    <3>3. Cardinality(Holders(j)) <= 1 + overtaken
      BY <3>1, <3>2 DEF Tokens
    <3> QED BY <3>3 DEF Holders
  <2> QED BY <2>1 DEF Lease, ExactInv, Exact
<1> QED BY <1>1, QueueHolds, ExactHolds, PTL

\* The attempts of claimNextJob: a row is tried as often as its policy allows
\* and once more for each requeue, whatever stale copies are written back; while
\* no requeue was overtaken, a row that waits has an attempt left by its own
\* maximum.
THEOREM RetryBudgetHolds == Spec => []RetryBudget
<1>1. QueueInv /\ CountsInv /\ ExactInv => RetryBudget
  <2> SUFFICES ASSUME QueueInv, CountsInv, ExactInv PROVE RetryBudget
    OBVIOUS
  <2>1. ASSUME NEW j \in Jobs PROVE job[j].attempts <= PolicyMax[j] + revivals
    <3>1. job[j].attempts \in Nat /\ PolicyMax[j] \in Nat /\ revivals \in Nat
      BY RowNumbers DEF QueueInv, TypeOK
    <3>2. CASE ~(job[j].attempts >= PolicyMax[j])
      BY <3>1, <3>2
    <3>3. CASE job[j].attempts >= PolicyMax[j]
      <4>1. job[j].attempts + Tries(j) <= PolicyMax[j] + revivals
        BY <3>3 DEF CountsInv, BudgetInv
      <4>2. Cardinality(Retriers(j)) \in Nat
        BY RetriersCount DEF QueueInv
      <4>3. Tries(j) \in Nat
        BY <4>2 DEF Tries
      <4> QED BY <3>1, <4>1, <4>3
    <3> QED BY <3>2, <3>3
  <2> QED BY <2>1 DEF RetryBudget, ExactInv, WithinMaximum
<1> QED BY <1>1, QueueHolds, CountsHold, ExactHolds, PTL

\* "Only failed dead-letter jobs can be retried." holds of the row at the
\* commit of retryDeadLetterJob too, which asks no more: any number of workers
\* and of operators in between, until one requeue overtakes another of its row.
THEOREM RequeuesAreSafe == Spec => OnlyDeadLettersRequeued
<1>1. QueueInv /\ ExactInv /\ [Next]_vars
        => [\A a \in Admins :
               RequeueDeadLetter(a) /\ overtaken' = 0 => DeadLetterCurrent(a)]_vars
  <2> SUFFICES ASSUME QueueInv, ExactInv, [Next]_vars, NEW a \in Admins,
                      RequeueDeadLetter(a), overtaken' = 0
               PROVE  DeadLetterCurrent(a)
    OBVIOUS
  <2>1. overtaken = 0
    BY NextOvertaken DEF QueueInv
  <2>2. ~crossed[a]
    BY <2>1 DEF RequeueDeadLetter
  <2> QED BY <2>1, <2>2 DEF ExactInv, Exact, CopiesCurrent, RequeueDeadLetter
<1> QED BY <1>1, QueueHolds, ExactHolds, PTL DEF Spec, OnlyDeadLettersRequeued

-----------------------------------------------------------------------------
(* Dead letters. *)

\* What a worker takes to failOrRetryJob is an error.
FailingHasError ==
    \A w \in Workers : wk[w].pc = "failing" => wk[w].error \in {"transient", "fatal"}

\* runOnce enters its catch with the error that was thrown.
LEMMA NextError == TypeOK /\ FailingHasError /\ [Next]_vars => FailingHasError'
<1> SUFFICES ASSUME TypeOK, FailingHasError, [Next]_vars PROVE FailingHasError'
  OBVIOUS
<1>1. ASSUME NEW w \in Workers, NEW x, wk' = [wk EXCEPT ![w] = x],
             x.pc = "failing" => x.error \in {"transient", "fatal"}
      PROVE  FailingHasError'
  BY <1>1 DEF TypeOK, FailingHasError
<1>2. ASSUME NEW w \in Workers, NEW pc, NEW e \in {"none", "transient", "fatal"},
             wk' = [wk EXCEPT ![w] = [wk[w] EXCEPT !.pc = pc, !.error = e]],
             pc = "failing" => e # "none"
      PROVE  FailingHasError'
  <2> DEFINE x == [wk[w] EXCEPT !.pc = pc, !.error = e]
  <2>1. x.pc = pc /\ x.error = e
    BY DEF TypeOK, Worker
  <2>2. wk' = [wk EXCEPT ![w] = x]
    BY <1>2
  <2> HIDE DEF x
  <2>3. QED
    BY <1>1, <1>2, <2>1, <2>2
<1>3. ASSUME NEW w \in Workers, NEW j \in Jobs, Claim(w, j) PROVE FailingHasError'
  BY <1>1, <1>3 DEF Claim
<1>4. ASSUME NEW w \in Workers, Process(w) PROVE FailingHasError'
  <2>1. \/ wk' = [wk EXCEPT ![w] = [wk[w] EXCEPT !.pc = "completing", !.error = "none"]]
        \/ \E e \in {"transient", "fatal"} :
              wk' = [wk EXCEPT ![w] = [wk[w] EXCEPT !.pc = "failing", !.error = e]]
    BY <1>4 DEF Process
  <2>2. ASSUME wk' = [wk EXCEPT ![w] = [wk[w] EXCEPT !.pc = "completing", !.error = "none"]]
        PROVE  FailingHasError'
    <3>1. [wk[w] EXCEPT !.pc = "completing", !.error = "none"].pc = "completing"
      BY DEF TypeOK, Worker
    <3> DEFINE x == [wk[w] EXCEPT !.pc = "completing", !.error = "none"]
    <3>2. wk' = [wk EXCEPT ![w] = x] /\ x.pc = "completing"
      BY <2>2, <3>1
    <3> HIDE DEF x
    <3>3. QED
      BY <1>1, <3>2
  <2>3. ASSUME NEW e \in {"transient", "fatal"},
               wk' = [wk EXCEPT ![w] = [wk[w] EXCEPT !.pc = "failing", !.error = e]]
        PROVE  FailingHasError'
    BY <1>2, <2>3
  <2>4. QED
    BY <2>1, <2>2, <2>3
<1>5. ASSUME NEW w \in Workers, CompleteRolledBack(w) \/ CompleteAckLost(w)
      PROVE  FailingHasError'
  BY <1>2, <1>5 DEF CompleteRolledBack, CompleteAckLost
<1>6. ASSUME NEW w \in Workers, Complete(w) \/ FailOrRetry(w) \/ Crash(w) \/ Restart(w)
      PROVE  FailingHasError'
  <2>1. Idle.pc # "failing" /\ [Idle EXCEPT !.pc = "down"].pc # "failing"
    BY DEF Idle
  <2>2. QED
    BY <1>1, <1>6, <2>1 DEF Complete, FailOrRetry, Crash, Restart
<1>7. ASSUME wk' = wk PROVE FailingHasError'
  BY <1>7 DEF FailingHasError
<1>8. QED
  BY <1>3, <1>4, <1>5, <1>6, <1>7
     DEF Next, WorkerStep, Enqueue, BecomeDue, ReadDeadLetter, RequeueDeadLetter, vars

\* Only failOrRetryJob makes a dead letter: with the counts of the row while the
\* copies are current, and never with more attempts than the row has had.
LEMMA NextJustified ==
    ASSUME TypeOK, CopiesFit, ExactInv, FailingHasError, DeadLetterJustified, [Next]_vars
    PROVE  DeadLetterJustified'
<1>0. overtaken' = 0 => overtaken = 0
  BY NextOvertaken
<1>1. ASSUME NEW j \in Jobs, NEW r, job' = [job EXCEPT ![j] = r], r.status # "FAILED",
             \A k \in Jobs : k # j => failure'[k] = failure[k]
      PROVE  DeadLetterJustified'
  BY <1>0, <1>1 DEF TypeOK, DeadLetterJustified
<1>2. ASSUME NEW j \in Jobs, Enqueue(j) PROVE DeadLetterJustified'
  <2>1. PICK t \in {"due", "later"} :
          job' = [job EXCEPT ![j] = [NoRow EXCEPT !.status = "QUEUED",
                                                  !.maxAttempts = PolicyMax[j],
                                                  !.runAfter = t]]
    BY <1>2 DEF Enqueue
  <2>2. [NoRow EXCEPT !.status = "QUEUED", !.maxAttempts = PolicyMax[j],
                      !.runAfter = t].status = "QUEUED"
    BY DEF NoRow
  <2>3. QED
    BY <1>1, <1>2, <2>1, <2>2 DEF Enqueue
<1>3. ASSUME NEW j \in Jobs, BecomeDue(j) PROVE DeadLetterJustified'
  <2>1. job' = [job EXCEPT ![j] = [job[j] EXCEPT !.runAfter = "due"]]
    BY <1>3 DEF BecomeDue
  <2>2. [job[j] EXCEPT !.runAfter = "due"].status # "FAILED"
    BY <1>3, DueRow DEF BecomeDue, Waiting, TypeOK
  <2>3. QED
    BY <1>1, <1>3, <2>1, <2>2 DEF BecomeDue
<1>4. ASSUME NEW w \in Workers, NEW j \in Jobs, Claim(w, j) PROVE DeadLetterJustified'
  <2>1. job' = [job EXCEPT ![j] = Claimed(job[j], w)]
    BY <1>4 DEF Claim
  <2>2. Claimed(job[j], w).status # "FAILED"
    BY ClaimedRow DEF TypeOK
  <2>3. QED
    BY <1>1, <1>4, <2>1, <2>2 DEF Claim
<1>5. ASSUME NEW w \in Workers, StoreSuccess(wk[w].job), wk[w].pc \in Busy, failure' = failure
      PROVE  DeadLetterJustified'
  <2>1. wk[w].job \in Jobs /\ job[wk[w].job] \in Row
    BY <1>5 DEF TypeOK
  <2>2. Released(job[wk[w].job], "SUCCEEDED").status # "FAILED"
    BY <2>1, ReleasedRow DEF Status
  <2>3. QED
    BY <1>1, <1>5, <2>1, <2>2 DEF StoreSuccess
<1>6. ASSUME NEW w \in Workers, FailOrRetry(w) PROVE DeadLetterJustified'
  <2> DEFINE j == wk[w].job
  <2>1. /\ j \in Jobs /\ job[j] \in Row /\ wk[w].pc = "failing"
        /\ job[j].attempts \in Nat /\ job[j].maxAttempts \in Nat
        /\ wk[w].error \in {"transient", "fatal"}
    BY <1>6 DEF FailOrRetry, TypeOK, Busy, Row, FailingHasError
  <2>2. overtaken = 0 =>
           job[j].attempts = wk[w].attempts /\ job[j].maxAttempts = wk[w].maxAttempts
    BY <2>1 DEF ExactInv, Exact, CopiesCurrent, SnapshotCurrent, Busy
  <2>0. /\ wk[w].attempts <= job[j].attempts /\ PolicyMax[j] <= wk[w].maxAttempts
        /\ wk[w].attempts \in Nat /\ wk[w].maxAttempts \in Nat /\ PolicyMax[j] \in Nat
    BY <2>1, RowNumbers DEF CopiesFit, WorkerFits, Busy, TypeOK, Worker
  <2>3. failure' = [failure EXCEPT ![j] = wk[w].error]
    BY <1>6 DEF FailOrRetry
  <2>4. failure'[j] = wk[w].error /\ \A k \in Jobs : k # j => failure'[k] = failure[k]
    BY <2>1, <2>3 DEF TypeOK
  <2>5. ASSUME job' = [job EXCEPT ![j] = Rescheduled(job[j], "later", job[j].maxAttempts)]
        PROVE  DeadLetterJustified'
    <3>1. Rescheduled(job[j], "later", job[j].maxAttempts).status # "FAILED"
      BY <2>1, RescheduledRow
    <3>2. QED
      BY <1>1, <2>1, <2>4, <2>5, <3>1
  <2>6. ASSUME ~ShouldRetry(w), job' = [job EXCEPT ![j] = Released(job[j], "FAILED")]
        PROVE  DeadLetterJustified'
    <3>1. /\ job'[j].attempts = job[j].attempts
          /\ job'[j].maxAttempts = job[j].maxAttempts
      BY <2>1, <2>6, ReleasedRow DEF TypeOK, Status
    <3>2. \/ wk[w].error = "fatal"
          \/ /\ wk[w].error = "transient"
             /\ job[j].attempts >= PolicyMax[j]
             /\ overtaken = 0 => job[j].attempts >= job[j].maxAttempts
      BY <2>0, <2>1, <2>2, <2>6 DEF ShouldRetry
    <3>3. \A k \in Jobs : k # j => job'[k] = job[k]
      BY <2>1, <2>6 DEF TypeOK
    <3> HIDE DEF j
    <3>4. QED
      BY <1>0, <2>4, <3>1, <3>2, <3>3 DEF DeadLetterJustified
  <2>7. QED
    BY <1>6, <2>5, <2>6 DEF FailOrRetry
<1>7. ASSUME NEW a \in Admins, RequeueDeadLetter(a) PROVE DeadLetterJustified'
  <2> DEFINE j == adm[a].job
  <2>1. j \in Jobs /\ job[j] \in Row /\ adm[a].attempts \in Nat
        /\ adm[a].maxAttempts \in Nat /\ PolicyMax[j] \in Nat
    BY <1>7, JobQueueAssumption DEF RequeueDeadLetter, TypeOK, Snapshot
  <2>2. PICK m \in {adm[a].maxAttempts, adm[a].attempts + 1, PolicyMax[j]} :
          job' = [job EXCEPT ![j] = Rescheduled(job[j], "due", m)]
    BY <1>7 DEF RequeueDeadLetter
  <2>3. m \in Nat
    BY <2>1
  <2>4. Rescheduled(job[j], "due", m).status # "FAILED"
    BY <2>1, <2>3, RescheduledRow
  <2>5. QED
    BY <1>1, <1>7, <2>1, <2>2, <2>4 DEF RequeueDeadLetter
<1>8. ASSUME job' = job, failure' = failure PROVE DeadLetterJustified'
  BY <1>0, <1>8 DEF DeadLetterJustified
<1>9. QED
  BY <1>2, <1>3, <1>4, <1>5, <1>6, <1>7, <1>8
     DEF Next, WorkerStep, Process, Complete, CompleteRolledBack, CompleteAckLost, Crash,
         Restart, ReadDeadLetter, vars, Busy

\* A job is FAILED for a reason, whatever was retried, requeued or acknowledged
\* too late: its last error is final, or every attempt of its policy was made;
\* and of its own maximum too, while no requeue was overtaken.
THEOREM DeadLettersJustified == Spec => []DeadLetterJustified
<1>1. Init => FailingHasError /\ DeadLetterJustified
  BY DEF Init, FailingHasError, DeadLetterJustified, Idle, NoRow
<1>2. QueueInv /\ CountsInv /\ ExactInv /\ FailingHasError /\ DeadLetterJustified /\ [Next]_vars
        => FailingHasError' /\ DeadLetterJustified'
  BY NextError, NextJustified DEF QueueInv, CountsInv
<1>3. QED
  BY <1>1, <1>2, QueueHolds, CountsHold, ExactHolds, PTL DEF Spec


-----------------------------------------------------------------------------
(* Refinement of JobLifecycle. *)

\* The phase of a row, status by status.
LEMMA PhaseCases ==
    ASSUME NEW r
    PROVE  /\ r.status = "ABSENT" => PhaseOf(r) = "absent"
           /\ r.status \in Waiting => PhaseOf(r) = "waiting"
           /\ r.status = "RUNNING" => PhaseOf(r) = "running"
           /\ r.status = "SUCCEEDED" => PhaseOf(r) = "done"
           /\ r.status = "FAILED" => PhaseOf(r) = "dead"
BY DEF PhaseOf, Waiting

\* An update of one row, and of what one worker holds, seen through the mapping.
LEMMA MappedRow ==
    ASSUME TypeOK, NEW j \in Jobs, NEW r, job' = [job EXCEPT ![j] = r]
    PROVE  phaseOf' = [phaseOf EXCEPT ![j] = PhaseOf(r)]
BY DEF TypeOK, phaseOf

\* A step that keeps the rows' phases keeps phaseOf.
LEMMA MappedRowSame ==
    ASSUME TypeOK, NEW j \in Jobs, NEW r, job' = [job EXCEPT ![j] = r],
           PhaseOf(r) = PhaseOf(job[j])
    PROVE  phaseOf' = phaseOf
<1>1. \A k \in Jobs : PhaseOf(job'[k]) = PhaseOf(job[k])
  <2>1. \A k \in Jobs : job'[k] = IF k = j THEN r ELSE job[k]
    BY DEF TypeOK
  <2>2. QED
    BY <2>1
<1>2. QED
  BY <1>1 DEF phaseOf

\* What a worker holds is its job while it is busy.
LEMMA MappedWorker ==
    ASSUME TypeOK, NEW w \in Workers, NEW x, wk' = [wk EXCEPT ![w] = x]
    PROVE  holdingOf' = [holdingOf EXCEPT ![w] = HeldBy(x)]
BY DEF TypeOK, holdingOf

\* A step that keeps what the workers hold keeps holdingOf.
LEMMA MappedWorkerSame ==
    ASSUME TypeOK, NEW w \in Workers, NEW x, wk' = [wk EXCEPT ![w] = x],
           HeldBy(x) = HeldBy(wk[w])
    PROVE  holdingOf' = holdingOf
<1>1. \A v \in Workers : HeldBy(wk'[v]) = HeldBy(wk[v])
  <2>1. \A v \in Workers : wk'[v] = IF v = w THEN x ELSE wk[v]
    BY DEF TypeOK
  <2>2. QED
    BY <2>1
<1>2. QED
  BY <1>1 DEF holdingOf

\* While no requeue is overtaken, every step is a step of JobLifecycle or a
\* stutter.
LEMMA StepRefines ==
    ASSUME Inv, overtaken' = 0, [Next]_vars
    PROVE  Lifecycle!Bound \/ UNCHANGED <<phaseOf, holdingOf>>
<1> USE DEF Inv
<1>0. /\ \A w \in Workers : holdingOf[w] = HeldBy(wk[w])
      /\ \A j \in Jobs : phaseOf[j] = PhaseOf(job[j])
  BY DEF phaseOf, holdingOf
<1>1. ASSUME NEW j \in Jobs, Enqueue(j) PROVE Lifecycle!Submit(j)
  <2>1. PICK t \in {"due", "later"} :
          job' = [job EXCEPT ![j] = [NoRow EXCEPT !.status = "QUEUED",
                                                  !.maxAttempts = PolicyMax[j],
                                                  !.runAfter = t]]
    BY <1>1 DEF Enqueue
  <2> DEFINE r == [NoRow EXCEPT !.status = "QUEUED", !.maxAttempts = PolicyMax[j],
                                !.runAfter = t]
  <2>2. r.status = "QUEUED"
    BY DEF NoRow
  <2>3. job' = [job EXCEPT ![j] = r]
    BY <2>1
  <2> HIDE DEF r
  <2>4. PhaseOf(r) = "waiting"
    BY <2>2, PhaseCases DEF Waiting
  <2>5. phaseOf' = [phaseOf EXCEPT ![j] = "waiting"]
    BY <2>3, <2>4, MappedRow
  <2>6. phaseOf[j] = "absent" /\ holdingOf' = holdingOf
    BY <1>0, <1>1, PhaseCases DEF Enqueue, holdingOf
  <2>7. QED
    BY <2>5, <2>6 DEF Lifecycle!Submit
<1>2. ASSUME NEW j \in Jobs, BecomeDue(j) PROVE UNCHANGED <<phaseOf, holdingOf>>
  <2> DEFINE r == [job[j] EXCEPT !.runAfter = "due"]
  <2>1. job' = [job EXCEPT ![j] = r] /\ job[j].status \in Waiting
    BY <1>2 DEF BecomeDue
  <2>2. r.status \in Waiting
    BY <2>1, DueRow DEF TypeOK
  <2> HIDE DEF r
  <2>3. PhaseOf(r) = PhaseOf(job[j])
    BY <2>1, <2>2, PhaseCases
  <2>4. phaseOf' = phaseOf
    BY <2>1, <2>3, MappedRowSame
  <2>5. holdingOf' = holdingOf
    BY <1>2 DEF BecomeDue, holdingOf
  <2>6. QED
    BY <2>4, <2>5
<1>3. ASSUME NEW w \in Workers, NEW j \in Jobs, Claim(w, j) PROVE Lifecycle!Start(w, j)
  <2>1. job' = [job EXCEPT ![j] = Claimed(job[j], w)] /\ job[j] \in Row
        /\ job[j].status \in Waiting /\ wk[w].pc = "idle"
    BY <1>3 DEF Claim, FirstInLine, Eligible, TypeOK
  <2>2. PhaseOf(Claimed(job[j], w)) = "running"
    BY <2>1, ClaimedRow, PhaseCases
  <2>3. phaseOf' = [phaseOf EXCEPT ![j] = "running"] /\ phaseOf[j] = "waiting"
    <3>1. phaseOf' = [phaseOf EXCEPT ![j] = PhaseOf(Claimed(job[j], w))]
      BY <2>1, MappedRow
    <3>2. PhaseOf(job[j]) = "waiting"
      BY <2>1, PhaseCases
    <3>3. QED
      BY <1>0, <2>2, <3>1, <3>2
  <2>4. holdingOf' = [holdingOf EXCEPT ![w] = j]
    <3> DEFINE x == [pc |-> "processing", job |-> j, attempts |-> job[j].attempts + 1,
                     maxAttempts |-> job[j].maxAttempts, error |-> "none"]
    <3>1. wk' = [wk EXCEPT ![w] = x] /\ HeldBy(x) = j
      BY <1>3 DEF Claim, HeldBy, Busy
    <3> HIDE DEF x
    <3>2. QED
      BY <3>1, MappedWorker
  <2>5. holdingOf[w] = NoJob
    BY <1>0, <2>1 DEF HeldBy, Busy
  <2>6. \A v \in Workers : holdingOf[v] # j
    <3>1. SUFFICES ASSUME NEW v \in Workers, holdingOf[v] = j PROVE FALSE
      OBVIOUS
    <3>2. wk[v].pc \in Busy /\ wk[v].job = j
      BY <1>0, <3>1, JobQueueAssumption DEF HeldBy
    <3>3. QED
      BY <2>1, <3>2 DEF Exact, CopiesCurrent, SnapshotCurrent, Waiting
  <2>7. QED
    BY <2>3, <2>4, <2>5, <2>6 DEF Lifecycle!Start
<1>4. ASSUME NEW w \in Workers, Process(w) \/ CompleteRolledBack(w)
      PROVE  UNCHANGED <<phaseOf, holdingOf>>
  <2>1. wk[w] \in Worker /\ wk[w].pc \in Busy
    BY <1>4 DEF Process, CompleteRolledBack, TypeOK, Busy
  <2>2. PICK pc \in Busy, e \in Errors :
          wk' = [wk EXCEPT ![w] = [wk[w] EXCEPT !.pc = pc, !.error = e]]
    BY <1>4 DEF Process, CompleteRolledBack, Busy, Errors
  <2>3. HeldBy([wk[w] EXCEPT !.pc = pc, !.error = e]) = HeldBy(wk[w])
    BY <2>1 DEF HeldBy, Worker, Busy
  <2>4. holdingOf' = holdingOf
    BY <2>2, <2>3, MappedWorkerSame
  <2>5. phaseOf' = phaseOf
    BY <1>4 DEF Process, CompleteRolledBack, phaseOf
  <2>6. QED
    BY <2>4, <2>5
<1>5. ASSUME NEW w \in Workers, wk[w].pc \in Busy
      PROVE  /\ holdingOf[w] = wk[w].job
             /\ wk[w].job \in Jobs
             /\ job[wk[w].job] \in Row
             /\ phaseOf[wk[w].job] \in {"running", "done"}
             /\ wk[w].pc = "completing" => phaseOf[wk[w].job] = "running"
  BY <1>0, <1>5, PhaseCases DEF HeldBy, TypeOK, Exact, CopiesCurrent, SnapshotCurrent
<1>6. ASSUME NEW w \in Workers, wk' = [wk EXCEPT ![w] = Idle] \/ wk' = [wk EXCEPT ![w] = [Idle EXCEPT !.pc = "down"]]
      PROVE  holdingOf' = [holdingOf EXCEPT ![w] = NoJob]
  <2>1. HeldBy(Idle) = NoJob /\ HeldBy([Idle EXCEPT !.pc = "down"]) = NoJob
    BY DEF HeldBy, Idle, Busy
  <2>2. QED
    BY <1>6, <2>1, MappedWorker
<1>7. ASSUME NEW w \in Workers, Complete(w) PROVE Lifecycle!Settle(w, wk[w].job)
  <2>1. wk[w].pc \in Busy /\ wk' = [wk EXCEPT ![w] = Idle]
        /\ job' = [job EXCEPT ![wk[w].job] = Released(job[wk[w].job], "SUCCEEDED")]
    BY <1>7 DEF Complete, StoreSuccess, Busy
  <2>2. PhaseOf(Released(job[wk[w].job], "SUCCEEDED")) = "done"
    BY <1>5, <2>1, ReleasedRow, PhaseCases DEF Status
  <2>3. phaseOf' = [phaseOf EXCEPT ![wk[w].job] = "done"]
    BY <1>5, <2>1, <2>2, MappedRow
  <2>4. QED
    BY <1>5, <1>6, <2>1, <2>3 DEF Lifecycle!Settle
<1>8. ASSUME NEW w \in Workers, CompleteAckLost(w) PROVE Lifecycle!Report(w, wk[w].job)
  <2>1. wk[w].pc \in Busy /\ wk[w].pc = "completing" /\ wk[w] \in Worker
        /\ wk' = [wk EXCEPT ![w] = [wk[w] EXCEPT !.pc = "failing", !.error = "transient"]]
        /\ job' = [job EXCEPT ![wk[w].job] = Released(job[wk[w].job], "SUCCEEDED")]
    BY <1>8 DEF CompleteAckLost, StoreSuccess, Busy, TypeOK
  <2>2. PhaseOf(Released(job[wk[w].job], "SUCCEEDED")) = "done"
    BY <1>5, <2>1, ReleasedRow, PhaseCases DEF Status
  <2>3. phaseOf' = [phaseOf EXCEPT ![wk[w].job] = "done"]
    BY <1>5, <2>1, <2>2, MappedRow
  <2>4. HeldBy([wk[w] EXCEPT !.pc = "failing", !.error = "transient"]) = HeldBy(wk[w])
    BY <2>1 DEF HeldBy, Worker, Busy
  <2>5. holdingOf' = holdingOf
    BY <2>1, <2>4, MappedWorkerSame
  <2>6. QED
    BY <1>5, <2>1, <2>3, <2>5 DEF Lifecycle!Report
<1>9. ASSUME NEW w \in Workers, FailOrRetry(w) PROVE Lifecycle!Settle(w, wk[w].job)
  <2>1. wk[w].pc \in Busy /\ wk' = [wk EXCEPT ![w] = Idle]
    BY <1>9 DEF FailOrRetry, Busy
  <2>2. job[wk[w].job] \in Row /\ job[wk[w].job].maxAttempts \in Nat
    BY <1>5, <2>1 DEF Row
  <2>3. /\ PhaseOf(Rescheduled(job[wk[w].job], "later", job[wk[w].job].maxAttempts)) = "waiting"
        /\ PhaseOf(Released(job[wk[w].job], "FAILED")) = "dead"
    <3>1. Rescheduled(job[wk[w].job], "later", job[wk[w].job].maxAttempts).status = "RETRYING"
      BY <2>2, RescheduledRow
    <3>2. Released(job[wk[w].job], "FAILED").status = "FAILED"
      BY <2>2, ReleasedRow DEF Status
    <3>3. QED
      BY <3>1, <3>2, PhaseCases DEF Waiting
  <2>4. \/ job' = [job EXCEPT ![wk[w].job] =
                      Rescheduled(job[wk[w].job], "later", job[wk[w].job].maxAttempts)]
        \/ job' = [job EXCEPT ![wk[w].job] = Released(job[wk[w].job], "FAILED")]
    BY <1>9 DEF FailOrRetry
  <2>5. \E p \in {"waiting", "done", "dead"} : phaseOf' = [phaseOf EXCEPT ![wk[w].job] = p]
    BY <1>5, <2>1, <2>3, <2>4, MappedRow
  <2>6. QED
    BY <1>5, <1>6, <2>1, <2>5 DEF Lifecycle!Settle
<1>10. ASSUME NEW w \in Workers, Crash(w) \/ Restart(w)
       PROVE  Lifecycle!Lose(w) \/ UNCHANGED <<phaseOf, holdingOf>>
  <2>1. holdingOf' = [holdingOf EXCEPT ![w] = NoJob] /\ phaseOf' = phaseOf
    BY <1>6, <1>10 DEF Crash, Restart, phaseOf
  <2>2. CASE holdingOf[w] = NoJob
    <3>1. holdingOf' = holdingOf
      BY <2>1, <2>2 DEF holdingOf
    <3>2. QED
      BY <2>1, <3>1
  <2>3. CASE holdingOf[w] # NoJob
    BY <2>1, <2>3 DEF Lifecycle!Lose
  <2>4. QED
    BY <2>2, <2>3
<1>11. ASSUME NEW a \in Admins, NEW j \in Jobs, ReadDeadLetter(a, j)
       PROVE  UNCHANGED <<phaseOf, holdingOf>>
  BY <1>11 DEF ReadDeadLetter, phaseOf, holdingOf
<1>12. ASSUME NEW a \in Admins, RequeueDeadLetter(a) PROVE Lifecycle!Revive(adm[a].job)
  <2> DEFINE j == adm[a].job
  <2>0. ~crossed[a]
    <3>1. overtaken + 1 # 0
      BY DEF TypeOK
    <3> QED BY <1>12, <3>1 DEF RequeueDeadLetter
  <2>1. j \in Jobs /\ job[j] \in Row /\ job[j].status = "FAILED"
        /\ adm[a].attempts \in Nat /\ adm[a].maxAttempts \in Nat /\ PolicyMax[j] \in Nat
    BY <1>12, <2>0, JobQueueAssumption
       DEF RequeueDeadLetter, TypeOK, Snapshot, Exact, CopiesCurrent, DeadLetterCurrent
  <2>2. PICK m \in {adm[a].maxAttempts, adm[a].attempts + 1, PolicyMax[j]} :
          job' = [job EXCEPT ![j] = Rescheduled(job[j], "due", m)]
    BY <1>12 DEF RequeueDeadLetter
  <2>3. m \in Nat
    BY <2>1
  <2>4. PhaseOf(Rescheduled(job[j], "due", m)) = "waiting" /\ phaseOf[j] = "dead"
    <3>1. Rescheduled(job[j], "due", m).status = "RETRYING"
      BY <2>1, <2>3, RescheduledRow
    <3>2. PhaseOf(Rescheduled(job[j], "due", m)) = "waiting"
      BY <3>1, PhaseCases DEF Waiting
    <3>3. PhaseOf(job[j]) = "dead"
      BY <2>1, PhaseCases
    <3>4. QED
      BY <1>0, <2>1, <3>2, <3>3
  <2>5. phaseOf' = [phaseOf EXCEPT ![j] = "waiting"] /\ holdingOf' = holdingOf
    <3>1. phaseOf' = [phaseOf EXCEPT ![j] = PhaseOf(Rescheduled(job[j], "due", m))]
      BY <2>1, <2>2, MappedRow
    <3>2. holdingOf' = holdingOf
      BY <1>12 DEF RequeueDeadLetter, holdingOf
    <3>3. QED
      BY <2>4, <3>1, <3>2
  <2>6. QED
    BY <2>4, <2>5 DEF Lifecycle!Revive
<1>13. ASSUME UNCHANGED vars PROVE UNCHANGED <<phaseOf, holdingOf>>
  BY <1>13 DEF vars, phaseOf, holdingOf
<1>14. ASSUME NEW w \in Workers, WorkerStep(w)
       PROVE  Lifecycle!Bound \/ UNCHANGED <<phaseOf, holdingOf>>
  BY <1>3, <1>4, <1>5, <1>7, <1>8, <1>9, <1>14
     DEF WorkerStep, Lifecycle!Bound, Complete, CompleteAckLost, FailOrRetry, Busy
<1>15. ASSUME NEW a \in Admins, RequeueDeadLetter(a) PROVE adm[a].job \in Jobs
  BY <1>15 DEF RequeueDeadLetter, TypeOK, Snapshot
<1>16. QED
  BY <1>1, <1>2, <1>10, <1>11, <1>12, <1>13, <1>14, <1>15 DEF Next, Lifecycle!Bound

\* What the mapping yields has the types of JobLifecycle.
LEMMA MappedTypes ==
    ASSUME TypeOK'
    PROVE  /\ phaseOf' \in [Jobs -> Lifecycle!Phases]
           /\ holdingOf' \in [Workers -> Jobs \cup {NoJob}]
<1>1. ASSUME NEW j \in Jobs PROVE PhaseOf(job'[j]) \in Lifecycle!Phases
  <2>1. job'[j].status \in Status
    BY DEF TypeOK, Row
  <2> QED BY <2>1, PhaseCases DEF Status, Waiting, Lifecycle!Phases
<1>2. ASSUME NEW w \in Workers PROVE HeldBy(wk'[w]) \in Jobs \cup {NoJob}
  BY DEF HeldBy, TypeOK
<1> QED BY <1>1, <1>2 DEF phaseOf, holdingOf

\* The first overtaken requeue takes a row from whatever phase it is in.
LEMMA FirstOverlooks ==
    ASSUME TypeOK, Unseen, [Next]_vars, overtaken = 0, overtaken' # 0
    PROVE  \E j \in Jobs : Lifecycle!Overlook(j)
<1>1. PICK a \in Admins : RequeueDeadLetter(a)
  BY DEF Next, WorkerStep, Enqueue, BecomeDue, Claim, Process, Complete,
         CompleteRolledBack, CompleteAckLost, FailOrRetry, Crash, Restart,
         ReadDeadLetter, vars
<1> DEFINE j == adm[a].job
<1>2. j \in Jobs /\ job'[j].status = "RETRYING" /\ \A k \in Jobs : k # j => job'[k] = job[k]
  BY <1>1, RowRequeued
<1>3. job[j].status # "ABSENT" /\ job[j].status \in Status
  BY <1>2 DEF Unseen, TypeOK, Row
<1>4. PhaseOf(job[j]) # "absent" /\ PhaseOf(job'[j]) = "waiting"
  BY <1>2, <1>3, PhaseCases DEF Status, Waiting
<1>5. phaseOf' = [phaseOf EXCEPT ![j] = "waiting"] /\ phaseOf[j] # "absent"
  BY <1>2, <1>4 DEF phaseOf
<1>6. holdingOf' = holdingOf
  BY <1>1 DEF RequeueDeadLetter, holdingOf
<1>7. (overtaken > 0)' = TRUE
  BY NextOvertaken
<1> QED BY <1>2, <1>5, <1>6, <1>7 DEF Lifecycle!Overlook

\* The queue keeps the promise of JobLifecycle: only the worker that claimed a
\* job moves it on, and only a dead job is revived, however the writes by uuid
\* interleave with claims, crashes and requeues; the promise ends with a requeue
\* that another requeue of its dead letter overtook, and with nothing else.
THEOREM LifecycleRefined == Spec => RefinesLifecycle
<1>1. Init => Lifecycle!Init
  <2>1. PhaseOf(NoRow) = "absent"
    BY PhaseCases DEF NoRow
  <2>2. HeldBy(Idle) = NoJob
    BY DEF HeldBy, Idle, Busy
  <2>3. QED
    BY <2>1, <2>2 DEF Init, Lifecycle!Init, phaseOf, holdingOf
<1>2. QueueInv /\ QueueInv' /\ ExactInv /\ [Next]_vars => [Lifecycle!Next]_(Lifecycle!vars)
  <2> SUFFICES ASSUME QueueInv, QueueInv', ExactInv, [Next]_vars
               PROVE  [Lifecycle!Next]_(Lifecycle!vars)
    OBVIOUS
  <2>0. overtaken \in Nat /\ overtaken' \in Nat /\ overtaken <= overtaken'
    BY NextOvertaken DEF QueueInv
  <2>1. CASE overtaken' = 0
    <3>1. overtaken = 0 /\ Inv
      BY <2>0, <2>1 DEF QueueInv, ExactInv, Inv
    <3>2. Lifecycle!Bound \/ UNCHANGED <<phaseOf, holdingOf>>
      BY <2>1, <3>1, StepRefines
    <3>3. UNCHANGED (overtaken > 0)
      BY <2>1, <3>1
    <3> QED BY <3>2, <3>3 DEF Lifecycle!Next, Lifecycle!vars
  <2>2. CASE overtaken = 0 /\ overtaken' # 0
    <3>1. \E j \in Jobs : Lifecycle!Overlook(j)
      BY <2>2, FirstOverlooks DEF QueueInv
    <3> QED BY <3>1 DEF Lifecycle!Next
  <2>3. CASE overtaken # 0
    <3>1. overtaken > 0 /\ UNCHANGED (overtaken > 0)
      BY <2>0, <2>3
    <3>2. /\ phaseOf' \in [Jobs -> Lifecycle!Phases]
          /\ holdingOf' \in [Workers -> Jobs \cup {NoJob}]
      <4>1. QueueInv' => TypeOK'
        BY DEF QueueInv
      <4>3. TypeOK' => /\ phaseOf' \in [Jobs -> Lifecycle!Phases]
                       /\ holdingOf' \in [Workers -> Jobs \cup {NoJob}]
        BY MappedTypes
      <4> QED BY <4>1, <4>3
    <3> QED BY <3>1, <3>2 DEF Lifecycle!Next, Lifecycle!Unbound
  <2> QED BY <2>0, <2>1, <2>2, <2>3
<1>3. QED
  BY <1>1, <1>2, QueueHolds, ExactHolds, PTL DEF Spec, RefinesLifecycle, Lifecycle!Spec


-----------------------------------------------------------------------------
(* The notification. *)

\* Who may yet have the provider accept a message: a worker that is about to call
\* it, and, as long as the row waits for its job, every worker that holds the job
\* and has not just been answered; and those the job may yet come to.
Awaited == notice.status = "PENDING" /\ notice.jobId \in Jobs

MaySend ==
    {w \in Workers :
        \/ step[w] = "send"
        \/ Awaited /\ Holds(w, notice.jobId) /\ step[w] # "sent"}

MayFind == IF Awaited THEN Openings(notice.jobId) ELSE 0

Excused == unrecordedSends + resends + overtaken

MessageLedger ==
    /\ IsFiniteSet(MaySend)
    /\ sent + Cardinality(MaySend) + MayFind <= 1 + Excused

InHandler(w) == wk[w].pc = "processing" /\ type[wk[w].job] = "notification"

\* Nobody is at a row that is yet to be created.
Unannounced ==
    notice.status = "ABSENT" =>
        /\ sent = 0
        /\ \A w \in Workers : step[w] = "find"
        /\ \A a \in Admins : ~resending[a]

NoticeTypes ==
    /\ notice \in Notice
    /\ type \in [Jobs -> {"other", "notification"}]
    /\ step \in [Workers -> Step]
    /\ \A w \in Workers : step[w] # "find" => InHandler(w)
    /\ resending \in [Admins -> BOOLEAN]
    /\ sent \in Nat /\ unrecordedSends \in Nat /\ resends \in Nat

NoticeInv == NoticeTypes /\ Unannounced /\ MessageLedger

LEMMA NoticeBegins == NoticeInit => NoticeInv
<1> SUFFICES ASSUME NoticeInit PROVE NoticeInv
  OBVIOUS
<1>1. notice.status = "ABSENT" /\ notice.jobId = NoJob /\ notice \in Notice
  BY DEF NoticeInit, Notice
<1>2. NoticeTypes /\ Unannounced
  BY <1>1 DEF NoticeInit, NoticeTypes, Step, Unannounced
<1>3. MaySend = {} /\ MayFind = 0
  BY <1>1 DEF NoticeInit, MaySend, MayFind, Awaited
<1>4. sent = 0 /\ Excused = 0
  BY DEF NoticeInit, Init, Excused
<1>5. MessageLedger
  BY <1>3, <1>4, FS_EmptySet DEF MessageLedger
<1> QED BY <1>2, <1>5 DEF NoticeInv

\* Every step of the notification's module is one of the queue, or none.
LEMMA NoticeStepsQueue == [NoticeNext]_allNoticeVars => [Next]_vars
<1> SUFFICES ASSUME [NoticeNext]_allNoticeVars PROVE [Next]_vars
  OBVIOUS
<1>1. CASE UNCHANGED allNoticeVars
  BY <1>1 DEF allNoticeVars
<1>2. ASSUME NEW j \in Jobs,
             Enqueue(j) \/ CreateNoticeJob(j) \/ NoticeBecomesDue(j)
      PROVE  Next
  BY <1>2 DEF CreateNoticeJob, EnqueueNoticeJob, NoticeBecomesDue, Next
<1>3. ASSUME NEW w \in Workers, NoticeWorkerStep(w)
      PROVE  [Next]_vars
  <2>1. Process(w) => Next
    BY DEF Next, WorkerStep
  <2>2. CASE NoticeQueueStep(w)
    BY <2>1, <2>2 DEF NoticeQueueStep, ProcessOther, Next, WorkerStep
  <2>3. CASE FindNotice(w) \/ RecordSent(w) \/ RecordRefused(w) \/ NoticeError(w)
    BY <2>1, <2>3 DEF FindNotice, RecordSent, RecordRefused, NoticeError, Returns, Throws
  <2>4. CASE Send(w)
    BY <2>4 DEF Send
  <2> QED BY <1>3, <2>2, <2>3, <2>4 DEF NoticeWorkerStep
<1>4. ASSUME NEW w \in Workers, CrashNotice(w) \/ Restart(w)
      PROVE  Next
  BY <1>4 DEF CrashNotice, Next
<1>5. ASSUME NEW a \in Admins,
             RequeueDeadLetter(a) \/ \E j \in Jobs : ReadDeadLetter(a, j)
      PROVE  Next
  BY <1>5 DEF Next
<1>6. ASSUME EnqueueNotice \/ \E a \in Admins : ReadNotice(a)
      PROVE  UNCHANGED vars
  BY <1>6 DEF EnqueueNotice, ReadNotice
<1>7. ASSUME NEW a \in Admins, NEW j \in Jobs, Resend(a, j)
      PROVE  Next
  BY <1>7 DEF Resend, EnqueueNoticeJob, Next
<1> QED BY <1>1, <1>2, <1>3, <1>4, <1>5, <1>6, <1>7 DEF NoticeNext

\* The composition implements the queue, so what is proved of the queue holds.
THEOREM NoticeImplementsQueue == NoticeSpec => Spec
<1>1. NoticeInit => Init
  BY DEF NoticeInit
<1> QED BY <1>1, NoticeStepsQueue, PTL DEF NoticeSpec, Spec

\* The numbers of the ledger.
LEMMA LedgerNumbers ==
    ASSUME TypeOK, NoticeTypes
    PROVE  sent \in Nat /\ Excused \in Nat /\ MayFind \in 0 .. 2
<1>1. overtaken \in Nat /\ unrecordedSends \in Nat /\ resends \in Nat
  BY DEF TypeOK, NoticeTypes
<1>2. Excused \in Nat
  BY <1>1 DEF Excused
<1> QED BY <1>2, OpeningsType DEF NoticeTypes, MayFind

LEMMA LedgerNumbersNext ==
    ASSUME TypeOK', NoticeTypes'
    PROVE  sent' \in Nat /\ Excused' \in Nat /\ MayFind' \in 0 .. 2
<1>1. overtaken' \in Nat /\ unrecordedSends' \in Nat /\ resends' \in Nat
  BY DEF TypeOK, NoticeTypes
<1>2. Excused' \in Nat
  <2>1. \A x, y, z \in Nat : x + y + z \in Nat
    OBVIOUS
  <2>2. Excused' = unrecordedSends' + resends' + overtaken'
    BY DEF Excused
  <2> QED BY <1>1, <2>1, <2>2
<1>3. MayFind' \in 0 .. 2
  <2>1. CASE Awaited'
    <3>1. PICK j : j = notice'.jobId
      OBVIOUS
    <3>2. MayFind' = Openings(j)'
      BY <2>1, <3>1 DEF MayFind
    <3> QED BY <3>2, OpeningsTypeNext
  <2>2. CASE ~Awaited'
    BY <2>2 DEF MayFind
  <2> QED BY <2>1, <2>2
<1> QED BY <1>2, <1>3 DEF NoticeTypes

\* The balance of a step by which nobody comes to the provider, ...
LEMMA LedgerKept ==
    ASSUME TypeOK, TypeOK', NoticeTypes, NoticeTypes', MessageLedger,
           MaySend' \subseteq MaySend,
           sent' + MayFind' + Excused <= sent + MayFind + Excused'
    PROVE  MessageLedger'
<1> DEFINE n == Cardinality(MaySend)
           m == Cardinality(MaySend')
           told == sent'
           find == MayFind'
           due == Excused'
<1>1. IsFiniteSet(MaySend') /\ n \in Nat /\ m \in Nat /\ m <= n
  BY CountSubset DEF MessageLedger
<1>2. /\ sent \in Nat /\ Excused \in Nat /\ MayFind \in 0 .. 2
      /\ told \in Nat /\ due \in Nat /\ find \in 0 .. 2
  BY LedgerNumbers, LedgerNumbersNext
<1>3. sent + n + MayFind <= 1 + Excused
  BY DEF MessageLedger
<1>0. told + find + Excused <= sent + MayFind + due
  OBVIOUS
<1> HIDE DEF n, m, told, find, due
<1>4. told + m + find <= 1 + due
  BY <1>0, <1>1, <1>2, <1>3
<1> QED BY <1>1, <1>4 DEF m, told, find, due, MessageLedger

\* ... one worker does, ...
LEMMA LedgerMore ==
    ASSUME TypeOK, TypeOK', NoticeTypes, NoticeTypes', MessageLedger,
           NEW w, MaySend' \subseteq MaySend \cup {w},
           sent' + MayFind' + Excused + 1 <= sent + MayFind + Excused'
    PROVE  MessageLedger'
<1> DEFINE n == Cardinality(MaySend)
           m == Cardinality(MaySend')
           told == sent'
           find == MayFind'
           due == Excused'
<1>1. IsFiniteSet(MaySend') /\ n \in Nat /\ m \in Nat /\ m <= n + 1
  BY CountMore DEF MessageLedger
<1>2. /\ sent \in Nat /\ Excused \in Nat /\ MayFind \in 0 .. 2
      /\ told \in Nat /\ due \in Nat /\ find \in 0 .. 2
  BY LedgerNumbers, LedgerNumbersNext
<1>3. sent + n + MayFind <= 1 + Excused
  BY DEF MessageLedger
<1>0. told + find + Excused + 1 <= sent + MayFind + due
  OBVIOUS
<1> HIDE DEF n, m, told, find, due
<1>4. told + m + find <= 1 + due
  BY <1>0, <1>1, <1>2, <1>3
<1> QED BY <1>1, <1>4 DEF m, told, find, due, MessageLedger

\* ... and one worker is done with it.
LEMMA LedgerLess ==
    ASSUME TypeOK, TypeOK', NoticeTypes, NoticeTypes', MessageLedger,
           NEW w \in MaySend, MaySend' \subseteq MaySend \ {w},
           sent' + MayFind' + Excused <= sent + MayFind + Excused' + 1
    PROVE  MessageLedger'
<1> DEFINE n == Cardinality(MaySend)
           m == Cardinality(MaySend')
           told == sent'
           find == MayFind'
           due == Excused'
<1>1. IsFiniteSet(MaySend') /\ n \in Nat /\ m \in Nat /\ m + 1 <= n
  BY CountLess DEF MessageLedger
<1>2. /\ sent \in Nat /\ Excused \in Nat /\ MayFind \in 0 .. 2
      /\ told \in Nat /\ due \in Nat /\ find \in 0 .. 2
  BY LedgerNumbers, LedgerNumbersNext
<1>3. sent + n + MayFind <= 1 + Excused
  BY DEF MessageLedger
<1>0. told + find + Excused <= sent + MayFind + due + 1
  OBVIOUS
<1> HIDE DEF n, m, told, find, due
<1>4. told + m + find <= 1 + due
  BY <1>0, <1>1, <1>2, <1>3
<1> QED BY <1>1, <1>4 DEF m, told, find, due, MessageLedger

\* The steps of the queue that leave the notification, and the workers in its
\* handler, alone.
LEMMA NoticeLeftAlone ==
    ASSUME QueueInv, QueueInv', [Next]_vars, NoticeInv, UNCHANGED noticeVars,
           \A v \in Workers : step[v] # "find" => wk'[v] = wk[v]
    PROVE  NoticeInv'
<1>1. NoticeTypes' /\ Unannounced'
  BY DEF NoticeInv, NoticeTypes, InHandler, Unannounced, noticeVars
<1>2. TypeOK /\ TypeOK' /\ NoticeTypes /\ MessageLedger
  BY DEF QueueInv, NoticeInv
<1>3. /\ sent' = sent /\ unrecordedSends' = unrecordedSends /\ resends' = resends
      /\ notice' = notice /\ step' = step
  BY DEF noticeVars
<1>4. overtaken \in Nat /\ overtaken' \in Nat /\ overtaken <= overtaken'
  BY <1>2, NextOvertaken
<1>5. /\ sent \in Nat /\ unrecordedSends \in Nat /\ resends \in Nat
      /\ MayFind \in 0 .. 2 /\ MayFind' \in 0 .. 2
  BY <1>1, <1>2, LedgerNumbers, LedgerNumbersNext DEF NoticeTypes
<1>6. ASSUME ~Awaited PROVE MessageLedger'
  <2>1. MayFind = 0 /\ MayFind' = 0 /\ MaySend' \subseteq MaySend
    BY <1>3, <1>6 DEF MayFind, MaySend, Awaited
  <2>2. sent' + MayFind' + Excused <= sent + MayFind + Excused'
    BY <1>3, <1>4, <1>5, <2>1 DEF Excused
  <2> QED BY <1>1, <1>2, <2>1, <2>2, LedgerKept
<1>7. ASSUME Awaited PROVE MessageLedger'
  <2> DEFINE j == notice.jobId
  <2>0. j \in Jobs /\ Awaited' /\ notice'.jobId = j
    BY <1>3, <1>7 DEF Awaited
  <2>1. MayFind = Openings(j) /\ MayFind' = Openings(j)'
    BY <1>7, <2>0 DEF MayFind
  <2>2. /\ MaySend = {v \in Workers : step[v] = "send" \/ (v \in Holders(j) /\ step[v] # "sent")}
        /\ MaySend' = {v \in Workers : step[v] = "send" \/ (v \in Holders(j)' /\ step[v] # "sent")}
    BY <1>3, <1>7, <2>0 DEF MaySend, Holders
  <2>3. TokensMove(j)
    BY <1>2, <2>0, StepMovesTokens
  <2> HIDE DEF j
  <2>4. CASE TokensKept(j)
    <3>1. Openings(j)' + overtaken <= Openings(j) + overtaken' /\ MaySend' \subseteq MaySend
      BY <2>2, <2>4 DEF TokensKept
    <3>2. sent' + MayFind' + Excused <= sent + MayFind + Excused'
      BY <1>3, <1>4, <1>5, <2>1, <3>1 DEF Excused
    <3> QED BY <1>1, <1>2, <3>1, <3>2, LedgerKept
  <2>5. CASE TokenTaken(j)
    <3>1. PICK w \in Workers : Holders(j)' = Holders(j) \cup {w}
      BY <2>5 DEF TokenTaken
    <3>2. MaySend' \subseteq MaySend \cup {w}
      BY <2>2, <3>1
    <3>3. Openings(j)' + 1 <= Openings(j) /\ overtaken' = overtaken
      BY <2>5 DEF TokenTaken
    <3>4. sent' + MayFind' + Excused + 1 <= sent + MayFind + Excused'
      BY <1>3, <1>4, <1>5, <2>1, <3>3 DEF Excused
    <3> QED BY <1>1, <1>2, <3>2, <3>4, LedgerMore
  <2>6. CASE TokenReturned(j)
    <3>1. PICK w \in Holders(j) : wk'[w] # wk[w] /\ Holders(j)' = Holders(j) \ {w}
      BY <2>6 DEF TokenReturned
    <3>2. w \in Workers /\ step[w] = "find"
      BY <3>1 DEF Holders
    <3>3. w \in MaySend /\ MaySend' \subseteq MaySend \ {w}
      BY <2>2, <3>1, <3>2
    <3>4. Openings(j)' <= Openings(j) + 1 /\ overtaken' = overtaken
      BY <2>6 DEF TokenReturned
    <3>5. sent' + MayFind' + Excused <= sent + MayFind + Excused' + 1
      BY <1>3, <1>4, <1>5, <2>1, <3>4 DEF Excused
    <3> QED BY <1>1, <1>2, <3>3, <3>5, LedgerLess
  <2> QED BY <2>3, <2>4, <2>5, <2>6 DEF TokensMove
<1> QED BY <1>1, <1>6, <1>7 DEF NoticeInv

\* Where the workers are after a step of one of them.
LEMMA StepOf ==
    ASSUME NoticeTypes, NEW w \in Workers, NEW s \in Step, step' = [step EXCEPT ![w] = s]
    PROVE  /\ step' \in [Workers -> Step]
           /\ step'[w] = s
           /\ \A v \in Workers : v # w => step'[v] = step[v]
BY DEF NoticeTypes

\* The openings of a job whose row a step leaves alone.
LEMMA OpeningsSame ==
    ASSUME UNCHANGED <<job, adm, crossed>>
    PROVE  /\ \A j : Openings(j)' = Openings(j)
           /\ UNCHANGED notice => MayFind' = MayFind
BY DEF Openings, MayBeClaimed, MayBeRevived, MayFind, Awaited

\* A worker in its handler goes to step s; the row may be written to.
LEMMA HandlerTypes ==
    ASSUME QueueInv, QueueInv', NoticeInv, NEW w \in Workers, NEW s \in Step,
           InHandler(w), wk'[w].pc = "processing" \/ s = "find",
           wk' = wk \/ Process(w),
           step' = [step EXCEPT ![w] = s],
           notice' \in Notice, notice'.status = "ABSENT" => notice.status = "ABSENT",
           notice.status = "ABSENT" => s = "find" /\ sent' = sent,
           sent' \in Nat, unrecordedSends' \in Nat,
           UNCHANGED <<type, resending, resends>>
    PROVE  /\ NoticeTypes' /\ Unannounced'
           /\ step'[w] = s /\ \A v \in Workers : v # w => step'[v] = step[v]
           /\ \A v \in Workers, j \in Jobs : Holds(v, j)' <=> Holds(v, j)
<1>1. /\ step' \in [Workers -> Step] /\ step'[w] = s
      /\ \A v \in Workers : v # w => step'[v] = step[v]
  BY StepOf DEF NoticeInv
<1>2. TypeOK
  BY DEF QueueInv
<1>3. \A v \in Workers : v # w => wk'[v] = wk[v]
  BY <1>2, StaysBusy
<1>4. wk'[w].job = wk[w].job /\ (wk'[w].pc \in Busy <=> wk[w].pc \in Busy)
  BY <1>2, StaysBusy
<1>5. \A v \in Workers, j \in Jobs : Holds(v, j)' <=> Holds(v, j)
  BY <1>3, <1>4 DEF Holds
<1>6. NoticeTypes'
  <2>1. \A v \in Workers : step'[v] # "find" => InHandler(v)'
    BY <1>1, <1>3, <1>4 DEF NoticeInv, NoticeTypes, InHandler
  <2> QED BY <1>1, <2>1 DEF NoticeInv, NoticeTypes
<1>7. Unannounced'
  BY <1>1 DEF NoticeInv, Unannounced
<1> QED BY <1>1, <1>5, <1>6, <1>7

LEMMA FindKeepsNotice ==
    ASSUME QueueInv, QueueInv', [Next]_vars, NoticeInv, NEW w \in Workers, FindNotice(w)
    PROVE  NoticeInv'
<1>1. /\ UNCHANGED <<notice, type, resending, unsought, sent, unrecordedSends, resends>>
      /\ InHandler(w) /\ step[w] = "find"
  BY DEF FindNotice, NoticeAt, InHandler
<1>2. CASE NoticePendingFor(wk[w].job) /\ step' = [step EXCEPT ![w] = "send"] /\ UNCHANGED vars
  <2>1. wk' = wk /\ overtaken' = overtaken /\ UNCHANGED <<job, adm, crossed>>
        /\ notice.status = "PENDING" /\ notice.jobId = wk[w].job
    BY <1>2 DEF vars, NoticePendingFor
  <2>2. notice' \in Notice /\ sent' \in Nat /\ unrecordedSends' \in Nat /\ "send" \in Step
    BY <1>1 DEF NoticeInv, NoticeTypes, Step
  <2>3. /\ NoticeTypes' /\ Unannounced'
        /\ step'[w] = "send" /\ \A v \in Workers : v # w => step'[v] = step[v]
        /\ \A v \in Workers, j \in Jobs : Holds(v, j)' <=> Holds(v, j)
    BY <1>1, <1>2, <2>1, <2>2, HandlerTypes DEF InHandler
  <2>4. Awaited /\ Holds(w, notice.jobId)
    BY <1>1, <2>1 DEF Awaited, InHandler, Holds, Busy, QueueInv, TypeOK
  <2>5. MaySend' \subseteq MaySend
    BY <1>1, <2>3, <2>4 DEF MaySend, Awaited
  <2>6. MayFind' = MayFind /\ Excused' = Excused
    BY <1>1, <2>1, OpeningsSame DEF Excused
  <2>7. sent \in Nat /\ MayFind \in 0 .. 2 /\ Excused \in Nat
    BY LedgerNumbers DEF QueueInv, NoticeInv
  <2>8. sent' + MayFind' + Excused <= sent + MayFind + Excused'
    BY <1>1, <2>6, <2>7
  <2>9. MessageLedger'
    BY <2>3, <2>5, <2>8, LedgerKept DEF QueueInv, NoticeInv
  <2> QED BY <2>3, <2>9 DEF NoticeInv
<1>3. CASE Returns(w) /\ UNCHANGED step
  <2>1. \A v \in Workers : step[v] # "find" => wk'[v] = wk[v]
    BY <1>1, <1>3, StaysBusy DEF Returns, QueueInv
  <2> QED BY <1>1, <1>3, <2>1, NoticeLeftAlone DEF noticeVars
<1> QED BY <1>2, <1>3 DEF FindNotice

\* The provider is called: once for the worker, which is then past the call.
LEMMA SendKeepsNotice ==
    ASSUME QueueInv, QueueInv', NoticeInv, NEW w \in Workers, Send(w)
    PROVE  NoticeInv'
<1>1. /\ UNCHANGED <<vars, notice, type, resending, unsought, resends>>
      /\ InHandler(w) /\ step[w] = "send"
  BY DEF Send, NoticeAt, InHandler
<1>2. PICK s \in {"sent", "refused"} :
         /\ step' = [step EXCEPT ![w] = s]
         /\ \/ s = "sent" /\ sent' = sent + 1 /\ unrecordedSends' = unrecordedSends
            \/ s = "refused" /\ sent' = sent /\ unrecordedSends' = unrecordedSends
            \/ s = "refused" /\ sent' = sent + 1 /\ unrecordedSends' = unrecordedSends + 1
  BY DEF Send
<1>3. /\ notice' \in Notice /\ s \in Step /\ notice.status # "ABSENT"
      /\ sent \in Nat /\ unrecordedSends \in Nat /\ resends \in Nat
  BY <1>1 DEF NoticeInv, NoticeTypes, Step, Unannounced
<1>4. sent' \in Nat /\ unrecordedSends' \in Nat /\ wk' = wk /\ overtaken' = overtaken
      /\ UNCHANGED <<job, adm, crossed>>
  BY <1>1, <1>2, <1>3 DEF vars
<1>5. /\ NoticeTypes' /\ Unannounced'
      /\ step'[w] = s /\ \A v \in Workers : v # w => step'[v] = step[v]
      /\ \A v \in Workers, j \in Jobs : Holds(v, j)' <=> Holds(v, j)
  BY <1>1, <1>2, <1>3, <1>4, HandlerTypes DEF InHandler
<1>6. w \in MaySend
  BY <1>1 DEF MaySend
<1>7. MayFind' = MayFind /\ overtaken \in Nat /\ MayFind \in 0 .. 2
  BY <1>1, <1>4, OpeningsSame, LedgerNumbers DEF QueueInv, TypeOK, NoticeInv
<1>8. CASE s = "sent" /\ sent' = sent + 1 /\ unrecordedSends' = unrecordedSends
  <2>1. MaySend' \subseteq MaySend \ {w}
    BY <1>1, <1>5, <1>8 DEF MaySend, Awaited
  <2>2. sent' + MayFind' + Excused <= sent + MayFind + Excused' + 1
    BY <1>1, <1>3, <1>4, <1>7, <1>8 DEF Excused
  <2>3. MessageLedger'
    BY <1>5, <1>6, <2>1, <2>2, LedgerLess DEF QueueInv, NoticeInv
  <2> QED BY <1>5, <2>3 DEF NoticeInv
<1>9. CASE s = "refused"
  <2>1. MaySend' \subseteq MaySend
    BY <1>1, <1>5, <1>9 DEF MaySend, Awaited
  <2>2. sent' + MayFind' + Excused <= sent + MayFind + Excused'
    <3>1. CASE sent' = sent /\ unrecordedSends' = unrecordedSends
      BY <1>1, <1>3, <1>4, <1>7, <3>1 DEF Excused
    <3>2. CASE sent' = sent + 1 /\ unrecordedSends' = unrecordedSends + 1
      BY <1>1, <1>3, <1>4, <1>7, <3>2 DEF Excused
    <3> QED BY <1>2, <1>9, <3>1, <3>2
  <2>3. MessageLedger'
    BY <1>5, <2>1, <2>2, LedgerKept DEF QueueInv, NoticeInv
  <2> QED BY <1>5, <2>3 DEF NoticeInv
<1> QED BY <1>2, <1>8, <1>9

\* What follows the call, and ends the handler: the row waits no more.
LEMMA HandlerEnds ==
    ASSUME QueueInv, QueueInv', NoticeInv, NEW w \in Workers, InHandler(w), Process(w),
           step[w] # "find", step' = [step EXCEPT ![w] = "find"],
           \/ notice' = [notice EXCEPT !.status = "SENT"]
           \/ notice' = [notice EXCEPT !.status = "FAILED"],
           UNCHANGED <<type, resending, sent, unrecordedSends, resends>>
    PROVE  NoticeInv'
<1>1. /\ notice' \in Notice /\ notice'.status \in {"SENT", "FAILED"} /\ "find" \in Step
      /\ notice.status # "ABSENT"
      /\ sent' = sent /\ sent \in Nat /\ unrecordedSends' \in Nat
  BY DEF NoticeInv, NoticeTypes, Notice, Step, Unannounced
<1>2. /\ NoticeTypes' /\ Unannounced'
      /\ step'[w] = "find" /\ \A v \in Workers : v # w => step'[v] = step[v]
  BY <1>1, HandlerTypes
<1>3. ~Awaited'
  BY <1>1 DEF Awaited
<1>4. MaySend' \subseteq MaySend /\ MayFind' = 0
  BY <1>2, <1>3 DEF MaySend, MayFind
<1>5. Excused' = Excused
  BY DEF Excused, Process
<1>6. sent \in Nat /\ Excused \in Nat /\ MayFind \in 0 .. 2
  BY LedgerNumbers DEF QueueInv, NoticeInv
<1>7. sent' + MayFind' + Excused <= sent + MayFind + Excused'
  BY <1>1, <1>4, <1>5, <1>6
<1>8. MessageLedger'
  BY <1>2, <1>4, <1>7, LedgerKept DEF QueueInv, NoticeInv
<1> QED BY <1>2, <1>8 DEF NoticeInv

LEMMA RecordSentKeepsNotice ==
    ASSUME QueueInv, QueueInv', NoticeInv, NEW w \in Workers, RecordSent(w)
    PROVE  NoticeInv'
<1>1. /\ UNCHANGED <<type, resending, unsought, sent, resends>>
      /\ InHandler(w) /\ step[w] = "sent"
  BY DEF RecordSent, NoticeAt, InHandler
<1>2. CASE /\ notice' = [notice EXCEPT !.status = "SENT"]
           /\ step' = [step EXCEPT ![w] = "find"]
           /\ Returns(w)
           /\ UNCHANGED unrecordedSends
  BY <1>1, <1>2, HandlerEnds DEF Returns
<1>3. CASE /\ unrecordedSends' = unrecordedSends + 1
           /\ step' = [step EXCEPT ![w] = "refused"]
           /\ UNCHANGED <<vars, notice>>
  <2>1. /\ notice' \in Notice /\ "refused" \in Step /\ notice.status # "ABSENT"
        /\ sent \in Nat /\ unrecordedSends \in Nat /\ resends \in Nat
    BY <1>1, <1>3 DEF NoticeInv, NoticeTypes, Step, Unannounced
  <2>2. sent' \in Nat /\ unrecordedSends' \in Nat /\ wk' = wk /\ overtaken' = overtaken
        /\ UNCHANGED <<job, adm, crossed>>
    BY <1>1, <1>3, <2>1 DEF vars
  <2>3. /\ NoticeTypes' /\ Unannounced'
        /\ step'[w] = "refused" /\ \A v \in Workers : v # w => step'[v] = step[v]
        /\ \A v \in Workers, j \in Jobs : Holds(v, j)' <=> Holds(v, j)
    BY <1>1, <1>3, <2>1, <2>2, HandlerTypes DEF InHandler
  <2>4. MaySend' \subseteq MaySend \cup {w}
    BY <1>3, <2>3 DEF MaySend, Awaited
  <2>5. MayFind' = MayFind /\ overtaken \in Nat /\ MayFind \in 0 .. 2
    BY <1>3, <2>2, OpeningsSame, LedgerNumbers DEF QueueInv, TypeOK, NoticeInv
  <2>6. sent' + MayFind' + Excused + 1 <= sent + MayFind + Excused'
    BY <1>1, <1>3, <2>1, <2>2, <2>5 DEF Excused
  <2>7. MessageLedger'
    BY <2>3, <2>4, <2>6, LedgerMore DEF QueueInv, NoticeInv
  <2> QED BY <2>3, <2>7 DEF NoticeInv
<1> QED BY <1>2, <1>3 DEF RecordSent

\* The findMany throws, or the update does: the job will be run again.
LEMMA NoticeErrorKeepsNotice ==
    ASSUME QueueInv, QueueInv', NoticeInv, NEW w \in Workers, NoticeError(w)
    PROVE  NoticeInv'
<1>1. /\ UNCHANGED <<notice, type, resending, unsought, sent, unrecordedSends, resends>>
      /\ InHandler(w) /\ step[w] \in {"find", "refused"}
      /\ step' = [step EXCEPT ![w] = "find"]
      /\ Process(w)
  BY DEF NoticeError, NoticeAt, Throws, InHandler
<1>2. notice' \in Notice /\ sent' \in Nat /\ unrecordedSends' \in Nat /\ "find" \in Step
  BY <1>1 DEF NoticeInv, NoticeTypes, Step
<1>3. /\ NoticeTypes' /\ Unannounced'
      /\ step'[w] = "find" /\ \A v \in Workers : v # w => step'[v] = step[v]
      /\ \A v \in Workers, j \in Jobs : Holds(v, j)' <=> Holds(v, j)
  BY <1>1, <1>2, HandlerTypes
<1>4. MaySend' \subseteq MaySend
  BY <1>1, <1>3 DEF MaySend, Awaited
<1>5. MayFind' = MayFind /\ Excused' = Excused
  BY <1>1, OpeningsSame DEF Excused, Process
<1>6. sent \in Nat /\ Excused \in Nat /\ MayFind \in 0 .. 2
  BY LedgerNumbers DEF QueueInv, NoticeInv
<1>7. sent' + MayFind' + Excused <= sent + MayFind + Excused'
  BY <1>1, <1>5, <1>6
<1>8. MessageLedger'
  BY <1>3, <1>4, <1>7, LedgerKept DEF QueueInv, NoticeInv
<1> QED BY <1>3, <1>8 DEF NoticeInv

\* A message that was accepted and not recorded is lost with the process.
LEMMA CrashKeepsNotice ==
    ASSUME QueueInv, QueueInv', NoticeInv, NEW w \in Workers, CrashNotice(w)
    PROVE  NoticeInv'
<1>1. /\ UNCHANGED <<notice, type, resending, unsought, sent, resends>>
      /\ unrecordedSends' = (IF step[w] = "sent" THEN unrecordedSends + 1 ELSE unrecordedSends)
      /\ step' = [step EXCEPT ![w] = "find"]
      /\ Crash(w)
  BY DEF CrashNotice
<1>2. wk'[w].pc \notin Busy /\ \A v \in Workers : v # w => wk'[v] = wk[v]
  BY <1>1, LetsGo DEF QueueInv
<1>3. "find" \in Step /\ NoticeTypes
  BY DEF NoticeInv, Step
<1>4. /\ step' \in [Workers -> Step] /\ step'[w] = "find"
      /\ \A v \in Workers : v # w => step'[v] = step[v]
  BY <1>1, <1>3, StepOf
<1>5. sent \in Nat /\ unrecordedSends \in Nat /\ resends \in Nat /\ unrecordedSends' \in Nat
  BY <1>1, <1>3 DEF NoticeTypes
<1>6. NoticeTypes' /\ Unannounced'
  BY <1>1, <1>2, <1>3, <1>4, <1>5 DEF NoticeInv, NoticeTypes, InHandler, Unannounced
<1>7. MaySend' \subseteq MaySend
  BY <1>1, <1>2, <1>4 DEF MaySend, Awaited, Holds
<1>8. /\ UNCHANGED <<job, adm, crossed, overtaken>> /\ overtaken \in Nat /\ MayFind \in 0 .. 2
  BY <1>1, LedgerNumbers DEF Crash, QueueInv, NoticeInv, TypeOK
<1>9. MayFind' = MayFind
  BY <1>1, <1>8, OpeningsSame
<1>10. sent' + MayFind' + Excused <= sent + MayFind + Excused'
  <2>1. CASE step[w] = "sent"
    BY <1>1, <1>5, <1>8, <1>9, <2>1 DEF Excused
  <2>2. CASE step[w] # "sent"
    BY <1>1, <1>5, <1>8, <1>9, <2>2 DEF Excused
  <2> QED BY <2>1, <2>2
<1>11. MessageLedger'
  BY <1>6, <1>7, <1>10, LedgerKept DEF QueueInv, NoticeInv
<1> QED BY <1>6, <1>11 DEF NoticeInv

\* A job just created has nobody at it, and comes into one pair of hands.
LEMMA CreatedOpening ==
    ASSUME QueueInv, NEW j \in Jobs, Enqueue(j)
    PROVE  (\A w \in Workers : ~Holds(w, j)') /\ Openings(j)' = 1
<1>1. job[j].status = "ABSENT" /\ job'[j].status = "QUEUED"
  BY RowCreated DEF QueueInv
<1>2. (\A w \in Workers : ~Holds(w, j)) /\ (\A a \in Admins : adm[a].job # j)
  BY <1>1 DEF QueueInv, Unseen, Holders
<1>3. UNCHANGED <<wk, adm>>
  BY DEF Enqueue
<1>4. MayBeClaimed(j)' /\ ~MayBeRevived(j)'
  BY <1>1, <1>2, <1>3 DEF MayBeClaimed, MayBeRevived, Waiting
<1> QED BY <1>2, <1>3, <1>4 DEF Holds, Openings

\* The type of the job created is noted.
LEMMA TypeNoted ==
    ASSUME NoticeTypes, NEW j \in Jobs, type' = [type EXCEPT ![j] = "notification"]
    PROVE  /\ type' \in [Jobs -> {"other", "notification"}]
           /\ \A k \in Jobs : type[k] = "notification" => type'[k] = "notification"
BY DEF NoticeTypes

\* An operator's retry: the row goes to a new job; who was about to send for the
\* old one still does.
LEMMA ResendKeepsNotice ==
    ASSUME QueueInv, QueueInv', NoticeInv, NEW a \in Admins, NEW j \in Jobs, Resend(a, j)
    PROVE  NoticeInv'
<1>1. /\ resending[a] /\ resends' = resends + 1
      /\ Enqueue(j) /\ type' = [type EXCEPT ![j] = "notification"]
      /\ notice' = [status |-> "PENDING", jobId |-> j]
      /\ resending' = [resending EXCEPT ![a] = FALSE]
      /\ UNCHANGED <<step, unsought, sent, unrecordedSends>>
  BY DEF Resend, EnqueueNoticeJob
<1>2. /\ type' \in [Jobs -> {"other", "notification"}]
      /\ \A k \in Jobs : type[k] = "notification" => type'[k] = "notification"
  BY <1>1, TypeNoted DEF NoticeInv
<1>3. notice' \in Notice /\ resending' \in [Admins -> BOOLEAN] /\ notice.status # "ABSENT"
  BY <1>1 DEF NoticeInv, NoticeTypes, Notice, Unannounced
<1>4. wk' = wk /\ overtaken' = overtaken /\ overtaken \in Nat
      /\ sent \in Nat /\ unrecordedSends \in Nat /\ resends \in Nat
  BY <1>1 DEF Enqueue, QueueInv, TypeOK, NoticeInv, NoticeTypes
<1>5. NoticeTypes' /\ Unannounced'
  <2>1. \A w \in Workers : step'[w] # "find" => InHandler(w)'
    BY <1>1, <1>2, <1>4 DEF NoticeInv, NoticeTypes, InHandler, QueueInv, TypeOK, Busy
  <2> QED BY <1>1, <1>2, <1>3, <1>4, <2>1 DEF NoticeInv, NoticeTypes, Unannounced
<1>6. (\A w \in Workers : ~Holds(w, j)') /\ Openings(j)' = 1
  BY <1>1, CreatedOpening
<1>7. notice'.jobId = j /\ notice'.status = "PENDING" /\ Awaited'
  BY <1>1 DEF Awaited
<1>8. MaySend' \subseteq MaySend
  BY <1>1, <1>6, <1>7 DEF MaySend
<1>9. MayFind' = 1 /\ MayFind \in 0 .. 2
  BY <1>6, <1>7, LedgerNumbers DEF MayFind, QueueInv, NoticeInv
<1>10. sent' + MayFind' + Excused <= sent + MayFind + Excused'
  BY <1>1, <1>4, <1>9 DEF Excused
<1>11. MessageLedger'
  BY <1>5, <1>8, <1>10, LedgerKept DEF QueueInv, NoticeInv
<1> QED BY <1>5, <1>11 DEF NoticeInv

\* The job that is to send it, while there is no row for it to find or of it.
LEMMA CreateKeepsNotice ==
    ASSUME QueueInv, QueueInv', [Next]_vars, NoticeInv, NEW j \in Jobs, CreateNoticeJob(j)
    PROVE  NoticeInv'
<1>1. /\ Enqueue(j) /\ type' = [type EXCEPT ![j] = "notification"]
      /\ UNCHANGED <<notice, step, resending, sent, unrecordedSends, resends>>
  BY DEF CreateNoticeJob, EnqueueNoticeJob
<1>2. /\ type' \in [Jobs -> {"other", "notification"}]
      /\ \A k \in Jobs : type[k] = "notification" => type'[k] = "notification"
  BY <1>1, TypeNoted DEF NoticeInv
<1>3. wk' = wk /\ overtaken' = overtaken /\ overtaken \in Nat
  BY <1>1 DEF Enqueue, QueueInv, TypeOK
<1>4. NoticeTypes' /\ Unannounced'
  <2>1. \A w \in Workers : step'[w] # "find" => InHandler(w)'
    BY <1>1, <1>2, <1>3 DEF NoticeInv, NoticeTypes, InHandler, QueueInv, TypeOK, Busy
  <2> QED BY <1>1, <1>2, <2>1 DEF NoticeInv, NoticeTypes, Unannounced
<1>5. MaySend' \subseteq MaySend /\ Excused' = Excused
  BY <1>1, <1>3 DEF MaySend, Awaited, Holds, Excused
<1>6. sent \in Nat /\ Excused \in Nat /\ MayFind \in 0 .. 2
      /\ MayFind' \in 0 .. 2
  BY <1>4, LedgerNumbers, LedgerNumbersNext DEF QueueInv, NoticeInv
<1>7. MayFind' <= MayFind
  <2>1. CASE ~Awaited
    BY <1>1, <2>1 DEF MayFind, Awaited
  <2>2. CASE Awaited
    <3>0. PICK i \in Jobs : i = notice.jobId
      BY <2>2 DEF Awaited
    <3>1. notice' = notice /\ Awaited' /\ i = notice'.jobId
      BY <1>1, <2>2, <3>0 DEF Awaited
    <3>2. MayFind = Openings(i) /\ MayFind' = Openings(i)'
      BY <2>2, <3>0, <3>1 DEF MayFind
    <3>3. UNCHANGED <<adm, crossed>>
      BY <1>1 DEF Enqueue
    <3>4. i # j => job'[i] = job[i]
      BY <1>1, <3>1, RowCreated DEF QueueInv
    <3>5. i = j => Openings(i)' <= Openings(i)
      <4> SUFFICES ASSUME i = j PROVE Openings(i)' <= Openings(i)
        OBVIOUS
      <4>1. MayBeClaimed(i) /\ job[i].status # "FAILED"
        BY <1>1 DEF Enqueue, MayBeClaimed
      <4> QED BY <3>3, <4>1, OpeningsMove
    <3>6. Openings(i)' <= Openings(i)
      <4>1. i # j => Openings(i)' = Openings(i)
        BY <3>3, <3>4, OpeningsMove
      <4>2. Openings(i) \in 0 .. 2
        BY OpeningsType
      <4> QED BY <3>5, <4>1, <4>2
    <3> QED BY <3>2, <3>6
  <2> QED BY <2>1, <2>2
<1>8. sent' + MayFind' + Excused <= sent + MayFind + Excused'
  <2> DEFINE find == MayFind'
  <2>1. find \in 0 .. 2 /\ find <= MayFind
    BY <1>6, <1>7
  <2> HIDE DEF find
  <2>2. sent + find + Excused <= sent + MayFind + Excused
    BY <1>6, <2>1
  <2>3. sent' = sent /\ Excused' = Excused
    BY <1>1, <1>5
  <2> QED BY <2>2, <2>3 DEF find
<1>9. MessageLedger'
  BY <1>4, <1>5, <1>8, LedgerKept DEF QueueInv, NoticeInv
<1> QED BY <1>4, <1>9 DEF NoticeInv

\* The row, once: nobody has told anything, and the job is in no more hands, now
\* and later, than the queue allows.
LEMMA EnqueueKeepsNotice ==
    ASSUME QueueInv, QueueInv', NoticeInv, EnqueueNotice
    PROVE  NoticeInv'
<1>1. /\ notice.status = "ABSENT"
      /\ UNCHANGED <<vars, type, step, resending, sent, unrecordedSends, resends>>
      /\ \E j \in Jobs \cup {NoJob} : notice' = [status |-> "PENDING", jobId |-> j]
  BY DEF EnqueueNotice
<1>2. sent = 0 /\ (\A v \in Workers : step[v] = "find")
  BY <1>1 DEF NoticeInv, Unannounced
<1>3. notice' \in Notice /\ notice'.status = "PENDING"
  BY <1>1 DEF Notice
<1>4. NoticeTypes' /\ Unannounced'
  BY <1>1, <1>2, <1>3 DEF NoticeInv, NoticeTypes, InHandler, vars, Unannounced
<1>5. /\ overtaken \in Nat /\ overtaken' = overtaken /\ unrecordedSends \in Nat /\ resends \in Nat
      /\ wk' = wk /\ UNCHANGED <<job, adm, crossed>>
  BY <1>1 DEF QueueInv, TypeOK, NoticeInv, NoticeTypes, vars
<1>6. Excused' \in Nat /\ overtaken <= Excused'
  BY <1>1, <1>5 DEF Excused
<1>7. CASE notice'.jobId \in Jobs
  <2> DEFINE j == notice'.jobId
  <2>1. IsFiniteSet(Holders(j)) /\ Tokens(j) <= 1 + overtaken
    BY <1>7 DEF QueueInv, TokenInv
  <2>2. MaySend' = Holders(j)
    BY <1>1, <1>2, <1>3, <1>5, <1>7 DEF MaySend, Awaited, Holders, Holds
  <2>3. MayFind' = Openings(j)
    <3>1. PICK i \in Jobs : i = notice'.jobId
      BY <1>7
    <3>2. MayFind' = Openings(i)'
      BY <1>3, <3>1 DEF MayFind, Awaited
    <3> QED BY <1>5, <3>1, <3>2, OpeningsSame
  <2>4. Cardinality(Holders(j)) \in Nat /\ Openings(j) \in 0 .. 2
    BY <2>1, FS_CardinalityType, OpeningsType
  <2> DEFINE due == Excused'
  <2>5. due \in Nat /\ overtaken <= due
    BY <1>6
  <2> HIDE DEF due
  <2>6. 0 + Cardinality(Holders(j)) + Openings(j) <= 1 + due
    BY <1>5, <2>1, <2>4, <2>5 DEF Tokens
  <2>7. MessageLedger'
    BY <1>1, <1>2, <2>1, <2>2, <2>3, <2>6 DEF MessageLedger, due
  <2> QED BY <1>4, <2>7 DEF NoticeInv
<1>8. CASE notice'.jobId \notin Jobs
  <2>1. MaySend' = {} /\ MayFind' = 0
    BY <1>1, <1>2, <1>8 DEF MaySend, MayFind, Awaited
  <2>2. MessageLedger'
    <3> DEFINE due == Excused'
    <3>1. due \in Nat
      BY <1>6
    <3> HIDE DEF due
    <3>2. 0 + 0 + 0 <= 1 + due
      BY <3>1
    <3> QED BY <1>1, <1>2, <2>1, <3>2, FS_EmptySet DEF MessageLedger, due
  <2> QED BY <1>4, <2>2 DEF NoticeInv
<1> QED BY <1>7, <1>8

LEMMA NoticeStep ==
    ASSUME QueueInv, QueueInv', NoticeInv, [NoticeNext]_allNoticeVars
    PROVE  NoticeInv'
<1>0. [Next]_vars
  BY NoticeStepsQueue
<1>1. ASSUME UNCHANGED <<wk, noticeVars>>
      PROVE  NoticeInv'
  BY <1>0, <1>1, NoticeLeftAlone
<1>2. CASE UNCHANGED allNoticeVars
  BY <1>1, <1>2 DEF allNoticeVars, vars
<1>3. ASSUME NEW j \in Jobs,
             (Enqueue(j) /\ UNCHANGED noticeVars) \/ CreateNoticeJob(j) \/ NoticeBecomesDue(j)
      PROVE  NoticeInv'
  BY <1>0, <1>1, <1>3, CreateKeepsNotice DEF Enqueue, NoticeBecomesDue, BecomeDue
<1>4. ASSUME NEW w \in Workers, NoticeWorkerStep(w)
      PROVE  NoticeInv'
  <2>1. CASE NoticeQueueStep(w)
    <3>1. step[w] # "find" => wk[w].pc = "processing" /\ type[wk[w].job] = "notification"
      BY DEF NoticeInv, NoticeTypes, InHandler
    <3>2. step[w] = "find"
      BY <2>1, <3>1 DEF NoticeQueueStep, Claim, ProcessOther, Complete, CompleteRolledBack,
                        CompleteAckLost, FailOrRetry
    <3>3. \A v \in Workers : v # w => wk'[v] = wk[v]
      BY <2>1, ClaimTakes, StaysBusy, LetsGo DEF NoticeQueueStep, ProcessOther, QueueInv
    <3> QED BY <1>0, <2>1, <3>2, <3>3, NoticeLeftAlone DEF NoticeQueueStep
  <2>2. RecordRefused(w) => NoticeInv'
    BY HandlerEnds DEF RecordRefused, NoticeAt, InHandler, Returns
  <2> QED BY <1>0, <1>4, <2>1, <2>2, FindKeepsNotice, SendKeepsNotice, RecordSentKeepsNotice,
             NoticeErrorKeepsNotice DEF NoticeWorkerStep
<1>5. ASSUME NEW w \in Workers, CrashNotice(w) \/ (Restart(w) /\ UNCHANGED noticeVars)
      PROVE  NoticeInv'
  <2>1. CASE Restart(w) /\ UNCHANGED noticeVars
    <3>1. step[w] = "find"
      BY <2>1 DEF Restart, NoticeInv, NoticeTypes, InHandler
    <3>2. \A v \in Workers : v # w => wk'[v] = wk[v]
      BY <2>1, LetsGo DEF QueueInv
    <3> QED BY <1>0, <2>1, <3>1, <3>2, NoticeLeftAlone
  <2> QED BY <1>5, <2>1, CrashKeepsNotice
<1>6. ASSUME NEW a \in Admins,
             \/ RequeueDeadLetter(a) /\ UNCHANGED noticeVars
             \/ \E j \in Jobs : ReadDeadLetter(a, j) /\ UNCHANGED noticeVars
      PROVE  NoticeInv'
  BY <1>1, <1>6 DEF RequeueDeadLetter, ReadDeadLetter
<1>7. ASSUME NEW a \in Admins, ReadNotice(a)
      PROVE  NoticeInv'
  <2>1. /\ notice.status = "FAILED" /\ resending' = [resending EXCEPT ![a] = TRUE]
        /\ UNCHANGED <<notice, type, step, sent, unrecordedSends, resends>>
        /\ wk' = wk /\ UNCHANGED <<job, adm, crossed>> /\ overtaken' = overtaken
    BY <1>7 DEF ReadNotice, vars
  <2>2. NoticeTypes' /\ Unannounced'
    BY <2>1 DEF NoticeInv, NoticeTypes, InHandler, Unannounced
  <2>3. MaySend' \subseteq MaySend /\ MayFind' = MayFind /\ Excused' = Excused
    BY <2>1, OpeningsSame DEF MaySend, Awaited, Holds, Excused
  <2>4. sent \in Nat /\ Excused \in Nat /\ MayFind \in 0 .. 2
    BY LedgerNumbers DEF QueueInv, NoticeInv
  <2>5. sent' + MayFind' + Excused <= sent + MayFind + Excused'
    BY <2>1, <2>3, <2>4
  <2>6. MessageLedger'
    BY <2>2, <2>3, <2>5, LedgerKept DEF QueueInv, NoticeInv
  <2> QED BY <2>2, <2>6 DEF NoticeInv
<1> QED BY <1>2, <1>3, <1>4, <1>5, <1>6, <1>7, ResendKeepsNotice, EnqueueKeepsNotice
        DEF NoticeNext

\* A message accepted again is owed to one that was not recorded, to an operator's
\* retry, or to a requeue that another one overtook; the retries of the queue, its
\* crashes and every other requeue of a dead letter send nothing twice, and a row
\* created after its job was committed is found by no more workers than one
\* created before.
THEOREM MessagesAccounted == NoticeSpec => []NoticeSentOnce
<1>1. QueueInv /\ NoticeInv => NoticeSentOnce
  <2> SUFFICES ASSUME QueueInv, NoticeInv PROVE NoticeSentOnce
    OBVIOUS
  <2>1. sent \in Nat /\ Excused \in Nat /\ MayFind \in 0 .. 2
    BY LedgerNumbers DEF QueueInv, NoticeInv
  <2>2. Cardinality(MaySend) \in Nat
    BY FS_CardinalityType DEF NoticeInv, MessageLedger
  <2>3. sent <= 1 + Excused
    BY <2>1, <2>2 DEF NoticeInv, MessageLedger
  <2>4. unrecordedSends \in Nat /\ resends \in Nat /\ overtaken \in Nat
    BY DEF QueueInv, TypeOK, NoticeInv, NoticeTypes
  <2> QED BY <2>3, <2>4 DEF Excused, NoticeSentOnce
<1>2. QueueInv /\ QueueInv' /\ NoticeInv /\ [NoticeNext]_allNoticeVars => NoticeInv'
  BY NoticeStep
<1> QED BY <1>1, <1>2, NoticeBegins, NoticeImplementsQueue, QueueHolds, PTL
        DEF NoticeSpec

-----------------------------------------------------------------------------
(* The webhook delivery. *)

DeliveryTypes ==
    /\ delivery \in Delivery
    /\ delivery.status # "ABSENT" => delivery.jobId \in Jobs
    /\ stage \in [Workers -> Stage]
    /\ retrying \in [Admins -> BOOLEAN]
    /\ accepted \in Nat /\ unrecorded \in Nat /\ retries \in Nat
    /\ retriedInFlight \in BOOLEAN

\* A worker past its findFirst is in its handler and, unless the delivery was
\* retried under its hands, has the job the delivery waits for.
Attended ==
    \A w \in Workers : Delivering(w) =>
        /\ wk[w].pc = "processing"
        /\ delivery.status # "ABSENT"
        /\ ~retriedInFlight => PendingFor(wk[w].job)

\* A handler that returned has left nothing to deliver.
ReturnsSettled ==
    ~retriedInFlight =>
        \A w \in Workers : wk[w].pc = "completing" => ~PendingFor(wk[w].job)

\* The event was accepted and that is recorded, or about to be.
Received == delivery.status = "DELIVERED" \/ \E w \in Workers : stage[w] = "responded"

EventLedger ==
    ~retriedInFlight =>
        /\ accepted <= 1 + unrecorded + retries
        /\ ~Received => accepted <= unrecorded + retries

\* What FollowsJob says while no requeue was overtaken.
LiveHasJob == ~retriedInFlight => HasJob

FailedHasDeadLetter == delivery.status = "FAILED" => job[delivery.jobId].status = "FAILED"

GoTogether == LiveHasJob /\ FailedHasDeadLetter

DeliveryInv ==
    /\ DeliveryTypes
    /\ Attended
    /\ ReturnsSettled
    /\ GoTogether
    /\ EventLedger

LEMMA DeliveryBegins == DeliveryInit => DeliveryInv
<1> SUFFICES ASSUME DeliveryInit PROVE DeliveryInv
  OBVIOUS
<1>1. /\ delivery.status = "ABSENT" /\ delivery \in Delivery
      /\ \A w \in Workers : stage[w] = "find" /\ wk[w].pc = "idle"
      /\ accepted = 0 /\ unrecorded = 0 /\ retries = 0 /\ retriedInFlight = FALSE
  BY DEF DeliveryInit, Delivery, Live, Init, Idle
<1>2. DeliveryTypes
  <2>1. stage \in [Workers -> Stage] /\ retrying \in [Admins -> BOOLEAN]
    BY DEF DeliveryInit, Stage
  <2>2. retriedInFlight \in BOOLEAN
    BY <1>1, Zenon
  <2>3. accepted \in Nat /\ unrecorded \in Nat /\ retries \in Nat
    BY <1>1
  <2> QED BY <1>1, <2>1, <2>2, <2>3, Zenon DEF DeliveryTypes
<1>3. Attended /\ ReturnsSettled
  BY <1>1 DEF Attended, ReturnsSettled, Delivering
<1>4. GoTogether
  BY <1>1 DEF GoTogether, LiveHasJob, HasJob, FailedHasDeadLetter, Live
<1>5. EventLedger
  BY <1>1 DEF EventLedger
<1> QED BY <1>2, <1>3, <1>4, <1>5 DEF DeliveryInv

\* Every step of the delivery's module is one of the queue, or none.
LEMMA DeliveryStepsQueue == [DeliveryNext]_allDeliveryVars => [Next]_vars
<1> SUFFICES ASSUME [DeliveryNext]_allDeliveryVars PROVE [Next]_vars
  OBVIOUS
<1>1. CASE UNCHANGED allDeliveryVars
  BY <1>1 DEF allDeliveryVars
<1>2. ASSUME NEW j \in Jobs, EnqueueDelivery(j) \/ DeliveryBecomesDue(j)
      PROVE  Next
  BY <1>2 DEF EnqueueDelivery, EnqueueNow, DeliveryBecomesDue, Next
<1>3. ASSUME NEW w \in Workers, DeliveryWorkerStep(w)
      PROVE  [Next]_vars
  <2>1. Process(w) => Next
    BY DEF Next, WorkerStep
  <2>2. CASE DeliveryQueueStep(w)
    BY <2>2 DEF DeliveryQueueStep, Next, WorkerStep
  <2>3. CASE FailOrRetryDelivery(w)
    BY <2>3 DEF FailOrRetryDelivery, Next, WorkerStep
  <2>4. CASE Find(w) \/ Record(w) \/ HandlerError(w)
    BY <2>1, <2>4 DEF Find, Record, HandlerError, Returns, Throws
  <2>5. CASE Mark(w) \/ Post(w)
    BY <2>5 DEF Mark, Post
  <2> QED BY <1>3, <2>2, <2>3, <2>4, <2>5 DEF DeliveryWorkerStep, HandlerStep
<1>4. ASSUME NEW w \in Workers, CrashDelivery(w) \/ Restart(w)
      PROVE  Next
  BY <1>4 DEF CrashDelivery, Next
<1>5. ASSUME NEW a \in Admins,
             RequeueDelivery(a) \/ \E j \in Jobs : ReadDeadLetter(a, j)
      PROVE  Next
  BY <1>5 DEF RequeueDelivery, Next
<1>6. ASSUME NEW a \in Admins, ReadDelivery(a)
      PROVE  UNCHANGED vars
  BY <1>6 DEF ReadDelivery
<1>7. ASSUME NEW a \in Admins, NEW j \in Jobs, RetryDelivery(a, j)
      PROVE  Next
  BY <1>7 DEF RetryDelivery, EnqueueNow, Next
<1> QED BY <1>1, <1>2, <1>3, <1>4, <1>5, <1>6, <1>7 DEF DeliveryNext

\* The delivery's composition implements the queue too.
THEOREM DeliveryImplementsQueue == DeliverySpec => Spec
<1>1. DeliveryInit => Init
  BY DEF DeliveryInit
<1> QED BY <1>1, DeliveryStepsQueue, PTL DEF DeliverySpec, Spec

\* Unless it was retried under a worker's hands, nobody else is at a delivery
\* whose job is being run.
LEMMA AloneAtDelivery ==
    ASSUME Inv, DeliveryInv, ~retriedInFlight, NEW v \in Workers, NEW w \in Workers,
           Delivering(v), wk[w].pc \in Busy, wk[w].job = delivery.jobId
    PROVE  v = w
<1>1. wk[v].pc = "processing" /\ wk[v].job = delivery.jobId
  BY DEF DeliveryInv, Attended, PendingFor
<1>2. wk[w].job \in Jobs
  BY DEF Inv, TypeOK
<1>3. Holds(v, wk[w].job) /\ Holds(w, wk[w].job)
  BY <1>1 DEF Holds, Busy
<1> QED BY <1>2, <1>3 DEF Inv, Exact, ExclusiveExecution

\* A job in a worker's hands is no dead letter, and RUNNING for its handler.
LEMMA HeldRuns ==
    ASSUME Inv, NEW w \in Workers, wk[w].pc \in Busy
    PROVE  /\ wk[w].job \in Jobs
           /\ job[wk[w].job].status # "FAILED"
           /\ wk[w].pc # "failing" => job[wk[w].job].status = "RUNNING"
BY DEF Inv, TypeOK, Exact, CopiesCurrent, SnapshotCurrent

\* The steps of the queue that leave the delivery alone, and the workers that
\* are in its handler.
LEMMA DeliveryLeftAlone ==
    ASSUME DeliveryInv, UNCHANGED deliveryVars, GoTogether',
           \A v \in Workers : Delivering(v) => wk'[v] = wk[v],
           \A v \in Workers : wk'[v].pc = "completing" => wk'[v] = wk[v]
    PROVE  DeliveryInv'
<1>1. DeliveryTypes'
  BY DEF DeliveryInv, DeliveryTypes, deliveryVars
<1>2. Attended'
  BY DEF DeliveryInv, Attended, Delivering, PendingFor, deliveryVars
<1>3. ReturnsSettled'
  BY DEF DeliveryInv, ReturnsSettled, PendingFor, deliveryVars
<1>4. EventLedger'
  BY DEF DeliveryInv, EventLedger, Received, deliveryVars
<1> QED BY <1>1, <1>2, <1>3, <1>4 DEF DeliveryInv

\* The jobs keep what the delivery needs of them.
LEMMA JobsFollowed ==
    ASSUME DeliveryInv, UNCHANGED <<delivery, retriedInFlight>>,
           \A j \in Jobs :
              /\ job[j].status = "FAILED" => job'[j].status = "FAILED"
              /\ job[j].status \in Waiting \cup {"RUNNING"} =>
                    \/ job'[j].status \in Waiting \cup {"RUNNING"}
                    \/ ~retriedInFlight => ~PendingFor(j)
    PROVE  GoTogether'
<1>1. delivery.status # "ABSENT" => delivery.jobId \in Jobs
  BY DEF DeliveryInv, DeliveryTypes
<1>2. delivery.status \in Live \cup {"FAILED"} => delivery.jobId \in Jobs
  BY <1>1 DEF Live
<1>3. FailedHasDeadLetter'
  BY <1>2 DEF DeliveryInv, GoTogether, FailedHasDeadLetter
<1>4. LiveHasJob'
  BY <1>2 DEF DeliveryInv, GoTogether, LiveHasJob, HasJob, PendingFor
<1> QED BY <1>3, <1>4 DEF GoTogether

\* A step of worker w in its handler.
LEMMA StageTypes ==
    ASSUME DeliveryInv, NEW w \in Workers, NEW s \in Stage, stage' = [stage EXCEPT ![w] = s]
    PROVE  /\ stage' \in [Workers -> Stage]
           /\ stage'[w] = s
           /\ \A v \in Workers : v # w => stage'[v] = stage[v]
BY DEF DeliveryInv, DeliveryTypes

\* processJob moves its worker on, with its job, and stores nothing.
LEMMA HandlerMoves ==
    ASSUME Inv, NEW w \in Workers, Process(w)
    PROVE  /\ \A v \in Workers : v # w => wk'[v] = wk[v]
           /\ job' = job
           /\ wk'[w].job = wk[w].job
           /\ wk'[w].error = "transient" => wk'[w].pc # "completing"
<1>1. wk[w] \in Worker
  BY DEF Inv, TypeOK
<1>2. CASE wk' = [wk EXCEPT ![w] = [@ EXCEPT !.pc = "completing", !.error = "none"]]
  <2>1. wk'[w] = [wk[w] EXCEPT !.pc = "completing", !.error = "none"]
    BY <1>2 DEF Inv, TypeOK
  <2>2. wk'[w].error = "none" /\ wk'[w].job = wk[w].job
    BY <1>1, <2>1 DEF Worker
  <2> QED BY <1>2, <2>2 DEF Process, Inv, TypeOK
<1>3. ASSUME NEW e \in {"transient", "fatal"},
             wk' = [wk EXCEPT ![w] = [@ EXCEPT !.pc = "failing", !.error = e]]
      PROVE  /\ \A v \in Workers : v # w => wk'[v] = wk[v]
             /\ wk'[w].job = wk[w].job
             /\ wk'[w].pc = "failing"
  <2>1. wk'[w] = [wk[w] EXCEPT !.pc = "failing", !.error = e]
    BY <1>3 DEF Inv, TypeOK
  <2>2. \A v \in Workers : v # w => wk'[v] = wk[v]
    BY <1>3 DEF Inv, TypeOK
  <2>3. wk'[w].job = wk[w].job /\ wk'[w].pc = "failing"
    BY <1>1, <2>1 DEF Worker
  <2> QED BY <2>2, <2>3
<1> QED BY <1>2, <1>3 DEF Process

\* The handler's writes, by uuid: the delivery is still to be made, or made.
LEMMA WrittenByUuid ==
    ASSUME Inv, DeliveryInv, NEW w \in Workers, Delivering(w),
           NEW s \in {"RETRYING", "DELIVERED"}, delivery' = [delivery EXCEPT !.status = s],
           UNCHANGED <<job, retriedInFlight>>
    PROVE  /\ delivery' \in Delivery
           /\ delivery'.status = s
           /\ delivery'.jobId = delivery.jobId
           /\ delivery.jobId \in Jobs
           /\ GoTogether'
<1>1. delivery' \in Delivery /\ delivery'.status = s /\ delivery'.jobId = delivery.jobId
  BY DEF DeliveryInv, DeliveryTypes, Delivery, Live
<1>2. wk[w].pc = "processing" /\ delivery.jobId \in Jobs
  BY DEF DeliveryInv, Attended, DeliveryTypes
<1>3. FailedHasDeadLetter'
  BY <1>1 DEF FailedHasDeadLetter
<1>4. ~retriedInFlight => wk[w].job = delivery.jobId
  BY DEF DeliveryInv, Attended, PendingFor
<1>5. job[wk[w].job].status = "RUNNING"
  BY <1>2, HeldRuns DEF Busy
<1>6. LiveHasJob'
  BY <1>1, <1>4, <1>5 DEF LiveHasJob, HasJob
<1> QED BY <1>1, <1>2, <1>3, <1>6 DEF GoTogether

LEMMA FindKeepsDelivery ==
    ASSUME Inv, DeliveryInv, NEW w \in Workers, Find(w)
    PROVE  DeliveryInv'
<1>1. /\ UNCHANGED <<delivery, retrying, accepted, unrecorded, retries, retriedInFlight>>
      /\ wk[w].pc = "processing" /\ stage[w] = "find"
  BY DEF Find, At
<1>2. CASE PendingFor(wk[w].job) /\ stage' = [stage EXCEPT ![w] = "mark"] /\ UNCHANGED vars
  <2>1. /\ stage' \in [Workers -> Stage] /\ stage'[w] = "mark"
        /\ \A v \in Workers : v # w => stage'[v] = stage[v]
    BY <1>2, StageTypes DEF Stage
  <2>2. wk' = wk /\ job' = job
    BY <1>2 DEF vars
  <2>3. DeliveryTypes'
    BY <1>1, <2>1 DEF DeliveryInv, DeliveryTypes
  <2>4. delivery.status # "ABSENT"
    BY <1>2 DEF PendingFor, Live
  <2>5. Attended'
    BY <1>1, <1>2, <2>1, <2>2, <2>4 DEF DeliveryInv, Attended, Delivering, PendingFor
  <2>6. ReturnsSettled'
    BY <1>1, <2>2 DEF DeliveryInv, ReturnsSettled, PendingFor
  <2>7. GoTogether'
    BY <1>1, <2>2 DEF DeliveryInv, GoTogether, LiveHasJob, HasJob, FailedHasDeadLetter
  <2>8. ~Received' => ~Received
    BY <1>1, <2>1 DEF Received
  <2>9. EventLedger'
    BY <1>1, <2>8 DEF DeliveryInv, EventLedger
  <2> QED BY <2>3, <2>5, <2>6, <2>7, <2>9 DEF DeliveryInv
<1>3. CASE ~PendingFor(wk[w].job) /\ Returns(w) /\ UNCHANGED stage
  <2>1. /\ \A v \in Workers : v # w => wk'[v] = wk[v]
        /\ job' = job /\ wk'[w].job = wk[w].job
    BY <1>3, HandlerMoves DEF Returns
  <2>2. DeliveryTypes'
    BY <1>1, <1>3 DEF DeliveryInv, DeliveryTypes
  <2>3. Attended'
    BY <1>1, <1>3, <2>1 DEF DeliveryInv, Attended, Delivering, PendingFor
  <2>4. ReturnsSettled'
    BY <1>1, <1>3, <2>1 DEF DeliveryInv, ReturnsSettled, PendingFor
  <2>5. GoTogether'
    BY <1>1, <2>1 DEF DeliveryInv, GoTogether, LiveHasJob, HasJob, FailedHasDeadLetter
  <2>6. EventLedger'
    BY <1>1, <1>3 DEF DeliveryInv, EventLedger, Received
  <2> QED BY <2>2, <2>3, <2>4, <2>5, <2>6 DEF DeliveryInv
<1> QED BY <1>2, <1>3 DEF Find

LEMMA MarkKeepsDelivery ==
    ASSUME Inv, DeliveryInv, NEW w \in Workers, Mark(w)
    PROVE  DeliveryInv'
<1>1. /\ UNCHANGED <<retrying, accepted, unrecorded, retries, retriedInFlight>>
      /\ wk[w].pc = "processing" /\ stage[w] = "mark" /\ Delivering(w)
      /\ delivery' = [delivery EXCEPT !.status = "RETRYING"]
      /\ stage' = [stage EXCEPT ![w] = "post"]
      /\ wk' = wk /\ job' = job
  BY DEF Mark, At, Delivering, vars
<1>2. /\ stage' \in [Workers -> Stage] /\ stage'[w] = "post"
      /\ \A v \in Workers : v # w => stage'[v] = stage[v]
  BY <1>1, StageTypes DEF Stage
<1>3. /\ delivery' \in Delivery /\ delivery'.status = "RETRYING"
      /\ delivery'.jobId = delivery.jobId /\ delivery.jobId \in Jobs /\ GoTogether'
  BY <1>1, WrittenByUuid
<1>4. DeliveryTypes'
  BY <1>1, <1>2, <1>3 DEF DeliveryInv, DeliveryTypes
<1>5. Attended'
  BY <1>1, <1>2, <1>3 DEF DeliveryInv, Attended, Delivering, PendingFor, Live
<1>6. ASSUME ~retriedInFlight, NEW v \in Workers, wk[v].pc = "completing"
      PROVE  wk[v].job # delivery.jobId
  BY <1>1, <1>6, AloneAtDelivery DEF Busy
<1>7. ReturnsSettled'
  BY <1>1, <1>3, <1>6 DEF ReturnsSettled, PendingFor
<1>8. ~retriedInFlight => ~Received
  BY <1>1, AloneAtDelivery DEF DeliveryInv, Attended, Delivering, PendingFor, Live, Received, Busy
<1>9. EventLedger'
  BY <1>1, <1>8 DEF DeliveryInv, EventLedger
<1> QED BY <1>3, <1>4, <1>5, <1>7, <1>9 DEF DeliveryInv

LEMMA PostKeepsDelivery ==
    ASSUME Inv, DeliveryInv, NEW w \in Workers, Post(w)
    PROVE  DeliveryInv'
<1>1. /\ UNCHANGED <<delivery, retrying, retries, retriedInFlight>>
      /\ wk[w].pc = "processing" /\ stage[w] = "post" /\ Delivering(w)
      /\ wk' = wk /\ job' = job
  BY DEF Post, At, Delivering, vars
<1>2. PICK s \in {"responded", "failed"} :
         /\ stage' = [stage EXCEPT ![w] = s]
         /\ \/ s = "responded" /\ accepted' = accepted + 1 /\ unrecorded' = unrecorded
            \/ s = "failed" /\ accepted' = accepted /\ unrecorded' = unrecorded
            \/ s = "failed" /\ accepted' = accepted + 1 /\ unrecorded' = unrecorded + 1
  BY DEF Post
<1>3. /\ stage' \in [Workers -> Stage] /\ stage'[w] = s
      /\ \A v \in Workers : v # w => stage'[v] = stage[v]
  BY <1>2, StageTypes DEF Stage
<1>4. DeliveryTypes'
  BY <1>1, <1>2, <1>3 DEF DeliveryInv, DeliveryTypes
<1>5. Attended'
  BY <1>1, <1>2, <1>3 DEF DeliveryInv, Attended, Delivering, PendingFor
<1>6. ReturnsSettled' /\ GoTogether'
  BY <1>1 DEF DeliveryInv, ReturnsSettled, PendingFor, GoTogether, LiveHasJob, HasJob,
              FailedHasDeadLetter
<1>7. ~retriedInFlight => ~Received
  BY <1>1, AloneAtDelivery DEF DeliveryInv, Attended, Delivering, PendingFor, Live, Received, Busy
<1>8. s = "responded" => Received'
  BY <1>3 DEF Received
<1>9. EventLedger'
  BY <1>1, <1>2, <1>7, <1>8 DEF DeliveryInv, DeliveryTypes, EventLedger
<1> QED BY <1>4, <1>5, <1>6, <1>9 DEF DeliveryInv

LEMMA RecordKeepsDelivery ==
    ASSUME Inv, DeliveryInv, NEW w \in Workers, Record(w)
    PROVE  DeliveryInv'
<1>1. /\ UNCHANGED <<retrying, accepted, unrecorded, retries, retriedInFlight>>
      /\ wk[w].pc = "processing" /\ Delivering(w)
      /\ stage' = [stage EXCEPT ![w] = "find"]
      /\ Process(w)
  BY DEF Record, At, Delivering, Returns, Throws
<1>2. PICK s \in {"RETRYING", "DELIVERED"} :
         /\ delivery' = [delivery EXCEPT !.status = s]
         /\ s = "RETRYING" => stage[w] = "failed" /\ wk'[w].error = "transient"
  BY DEF Record, At, Throws
<1>3. /\ stage' \in [Workers -> Stage] /\ stage'[w] = "find"
      /\ \A v \in Workers : v # w => stage'[v] = stage[v]
  BY <1>1, StageTypes DEF Stage
<1>4. /\ \A v \in Workers : v # w => wk'[v] = wk[v]
      /\ job' = job /\ wk'[w].job = wk[w].job
  BY <1>1, HandlerMoves
<1>5. /\ delivery' \in Delivery /\ delivery'.status = s
      /\ delivery'.jobId = delivery.jobId /\ delivery.jobId \in Jobs /\ GoTogether'
  BY <1>1, <1>2, <1>4, WrittenByUuid
<1>6. DeliveryTypes'
  BY <1>1, <1>3, <1>5 DEF DeliveryInv, DeliveryTypes
<1>7. ~retriedInFlight => \A v \in Workers : v # w => ~Delivering(v)
  BY <1>1, AloneAtDelivery DEF DeliveryInv, Attended, PendingFor, Busy
<1>8. Attended'
  BY <1>1, <1>3, <1>4, <1>5, <1>7 DEF DeliveryInv, Attended, Delivering
<1>9. ReturnsSettled'
  <2>1. ASSUME ~retriedInFlight, NEW v \in Workers, wk[v].pc = "completing"
        PROVE  wk[v].job # delivery.jobId
    BY <1>1, <2>1, AloneAtDelivery DEF Busy
  <2>2. s = "RETRYING" => wk'[w].pc # "completing"
    BY <1>1, <1>2, HandlerMoves
  <2>3. s = "DELIVERED" => delivery'.status \notin Live
    BY <1>5 DEF Live
  <2> QED BY <1>1, <1>4, <1>5, <2>1, <2>2, <2>3 DEF ReturnsSettled, PendingFor
<1>10. EventLedger'
  <2>1. CASE s = "DELIVERED"
    BY <1>1, <1>5, <2>1 DEF DeliveryInv, EventLedger, Received
  <2>2. CASE s = "RETRYING"
    <3>1. ~retriedInFlight => ~Received
      BY <1>1, <1>2, <1>7, <2>2 DEF DeliveryInv, Attended, Delivering, PendingFor, Live, Received
    <3> QED BY <1>1, <3>1 DEF DeliveryInv, EventLedger
  <2> QED BY <2>1, <2>2
<1> QED BY <1>5, <1>6, <1>8, <1>9, <1>10 DEF DeliveryInv

\* A worker leaves its handler, or is no more: what was accepted and not recorded
\* is written off.
LEMMA HandlerLeft ==
    ASSUME Inv, DeliveryInv, NEW w \in Workers, stage[w] \in Stage,
           stage' = [stage EXCEPT ![w] = "find"],
           unrecorded' = IF stage[w] = "responded" THEN unrecorded + 1 ELSE unrecorded,
           UNCHANGED <<delivery, retrying, accepted, retries, retriedInFlight, job>>,
           \A v \in Workers : v # w => wk'[v] = wk[v], wk'[w].pc # "completing"
    PROVE  DeliveryInv'
<1>1. /\ stage' \in [Workers -> Stage] /\ stage'[w] = "find"
      /\ \A v \in Workers : v # w => stage'[v] = stage[v]
  BY StageTypes DEF Stage
<1>2. DeliveryTypes'
  BY <1>1 DEF DeliveryInv, DeliveryTypes
<1>3. Attended'
  BY <1>1 DEF DeliveryInv, Attended, Delivering, PendingFor
<1>4. ReturnsSettled'
  BY DEF DeliveryInv, ReturnsSettled, PendingFor
<1>5. GoTogether'
  BY DEF DeliveryInv, GoTogether, LiveHasJob, HasJob, FailedHasDeadLetter
<1>6. EventLedger'
  <2>1. CASE stage[w] = "responded"
    BY <2>1, <1>2 DEF DeliveryInv, DeliveryTypes, EventLedger
  <2>2. CASE stage[w] # "responded"
    <3>1. ~Received' => ~Received
      BY <1>1, <2>2 DEF Received
    <3> QED BY <2>2, <3>1 DEF DeliveryInv, EventLedger
  <2> QED BY <2>1, <2>2
<1> QED BY <1>2, <1>3, <1>4, <1>5, <1>6 DEF DeliveryInv

LEMMA ErrorKeepsDelivery ==
    ASSUME Inv, DeliveryInv, NEW w \in Workers, HandlerError(w)
    PROVE  DeliveryInv'
<1>1. Process(w) /\ wk'[w].error = "transient"
  BY DEF HandlerError, Throws
<1>2. /\ \A v \in Workers : v # w => wk'[v] = wk[v]
      /\ job' = job
  BY <1>1, HandlerMoves
<1>3. wk'[w].pc # "completing"
  BY <1>1, HandlerMoves
<1>4. stage[w] \in Stage
  BY DEF DeliveryInv, DeliveryTypes
<1> QED BY <1>2, <1>3, <1>4, HandlerLeft DEF HandlerError

LEMMA CrashKeepsDelivery ==
    ASSUME Inv, DeliveryInv, NEW w \in Workers, CrashDelivery(w)
    PROVE  DeliveryInv'
<1>1. Crash(w)
  BY DEF CrashDelivery
<1>2. /\ \A v \in Workers : v # w => wk'[v] = wk[v]
      /\ job' = job /\ wk'[w].pc = "down"
  BY <1>1 DEF Crash, Inv, TypeOK, Idle
<1>3. stage[w] \in Stage
  BY DEF DeliveryInv, DeliveryTypes
<1> QED BY <1>2, <1>3, HandlerLeft DEF CrashDelivery

-----------------------------------------------------------------------------
(* The delivery and its job. *)

\* What each update of a row leaves of the rows' statuses.
LEMMA StatusesAfter ==
    ASSUME Inv, NEW j \in Jobs, NEW r \in Row, job' = [job EXCEPT ![j] = r]
    PROVE  /\ job'[j].status = r.status
           /\ \A k \in Jobs : k # j => job'[k] = job[k]
BY DEF Inv, TypeOK

\* failOrRetryJob settles the job, and the delivery in the same transaction.
LEMMA FailOrRetryKeepsDelivery ==
    ASSUME Inv, DeliveryInv, NEW w \in Workers, FailOrRetryDelivery(w)
    PROVE  DeliveryInv'
<1> DEFINE j == wk[w].job
<1>1. /\ UNCHANGED <<stage, retrying, accepted, unrecorded, retries, retriedInFlight>>
      /\ FailOrRetry(w) /\ wk[w].pc = "failing" /\ wk' = [wk EXCEPT ![w] = Idle]
      /\ delivery' = IF PendingFor(j)
                     THEN [delivery EXCEPT !.status =
                              IF ShouldRetry(w) THEN "RETRYING" ELSE "FAILED"]
                     ELSE delivery
  BY DEF FailOrRetryDelivery, FailOrRetry
<1>2. j \in Jobs /\ job[j].status # "FAILED" /\ job[j] \in Row
  BY <1>1, HeldRuns DEF Busy, Inv, TypeOK
<1>3. /\ job'[j].status = IF ShouldRetry(w) THEN "RETRYING" ELSE "FAILED"
      /\ \A k \in Jobs : k # j => job'[k] = job[k]
  <2>1. ASSUME NEW m \in Nat
        PROVE  /\ Rescheduled(job[j], "later", m) \in Row
               /\ Rescheduled(job[j], "later", m).status = "RETRYING"
    BY <1>2, RescheduledRow
  <2>2. job[j].maxAttempts \in Nat
    BY <1>2 DEF Row
  <2>3. Released(job[j], "FAILED") \in Row /\ Released(job[j], "FAILED").status = "FAILED"
    BY <1>2, ReleasedRow DEF Status
  <2>4. CASE ShouldRetry(w)
    <3>1. job' = [job EXCEPT ![j] = Rescheduled(job[j], "later", job[j].maxAttempts)]
      BY <1>1, <2>4 DEF FailOrRetry
    <3> HIDE DEF j
    <3> QED BY <1>2, <2>1, <2>2, <2>4, <3>1, StatusesAfter
  <2>5. CASE ~ShouldRetry(w)
    <3>1. job' = [job EXCEPT ![j] = Released(job[j], "FAILED")]
      BY <1>1, <2>5 DEF FailOrRetry
    <3> HIDE DEF j
    <3> QED BY <1>2, <2>3, <2>5, <3>1, StatusesAfter
  <2> QED BY <2>4, <2>5
<1>4. /\ wk'[w].pc = "idle" /\ \A v \in Workers : v # w => wk'[v] = wk[v]
  BY <1>1 DEF Inv, TypeOK, Idle
<1>5. /\ delivery' \in Delivery /\ delivery'.jobId = delivery.jobId
      /\ delivery'.status \in IF ShouldRetry(w) THEN {"RETRYING", delivery.status}
                                                ELSE {"FAILED", delivery.status}
      /\ PendingFor(j) => delivery'.status = IF ShouldRetry(w) THEN "RETRYING" ELSE "FAILED"
      /\ ~PendingFor(j) => delivery' = delivery
  BY <1>1 DEF DeliveryInv, DeliveryTypes, Delivery, Live
<1>6. ~Delivering(w)
  BY <1>1 DEF DeliveryInv, Attended
<1>7. PendingFor(j) => delivery.status \in Live
  BY DEF PendingFor
<1>8. DeliveryTypes'
  BY <1>1, <1>2, <1>5, <1>7 DEF DeliveryInv, DeliveryTypes, Live
<1>9. ASSUME NEW v \in Workers, Delivering(v), ~retriedInFlight
      PROVE  ~PendingFor(j)
  BY <1>1, <1>6, <1>9, AloneAtDelivery DEF Busy, PendingFor
<1>10. Attended'
  BY <1>1, <1>4, <1>5, <1>6, <1>7, <1>9 DEF DeliveryInv, Attended, Delivering, PendingFor, Live
<1>11. ReturnsSettled'
  <2>1. ASSUME ~retriedInFlight, NEW v \in Workers, wk[v].pc = "completing"
        PROVE  ~PendingFor(wk[v].job)
    BY <2>1 DEF DeliveryInv, ReturnsSettled
  <2>2. ASSUME ~retriedInFlight, NEW v \in Workers, wk[v].pc = "completing", PendingFor(j)
        PROVE  wk[v].job # delivery.jobId
    BY <2>1, <2>2 DEF PendingFor
  <2> QED BY <1>1, <1>4, <1>5, <2>1, <2>2 DEF ReturnsSettled, PendingFor
<1>12. GoTogether'
  <2>1. CASE PendingFor(j)
    <3>1. delivery'.jobId = j
      BY <1>5, <2>1 DEF PendingFor
    <3> QED BY <1>3, <1>5, <2>1, <3>1
            DEF GoTogether, LiveHasJob, HasJob, FailedHasDeadLetter, Live, Waiting
  <2>2. CASE ~PendingFor(j)
    <3>1. UNCHANGED <<delivery, retriedInFlight>>
      BY <1>1, <1>5, <2>2
    <3> QED BY <1>2, <1>3, <2>2, <3>1, JobsFollowed
  <2> QED BY <2>1, <2>2
<1>13. ~Received' => ~Received
  BY <1>1, <1>5, <1>7 DEF Received, Live
<1>14. EventLedger'
  BY <1>1, <1>13 DEF DeliveryInv, EventLedger
<1> QED BY <1>8, <1>10, <1>11, <1>12, <1>14 DEF DeliveryInv

\* retryDeadLetterJob revives the two together: the job is still the dead letter
\* the operator read, so nobody is at the delivery.
LEMMA RequeueKeepsDelivery ==
    ASSUME Inv, DeliveryInv, NEW a \in Admins, RequeueDelivery(a), ~crossed[a]
    PROVE  DeliveryInv'
<1> DEFINE j == adm[a].job
<1>1. /\ UNCHANGED <<stage, retrying, accepted, unrecorded, retries, retriedInFlight, wk>>
      /\ RequeueDeadLetter(a) /\ j # NoJob
      /\ delivery' = IF delivery.jobId = j /\ delivery.status = "FAILED"
                     THEN [delivery EXCEPT !.status = "RETRYING"] ELSE delivery
  BY DEF RequeueDelivery, RequeueDeadLetter
<1>2. adm[a] \in Snapshot
  BY DEF Inv, TypeOK
<1>3. /\ j \in Jobs /\ adm[a].attempts \in Nat /\ adm[a].maxAttempts \in Nat
      /\ job[j].status = "FAILED" /\ job[j] \in Row
  BY <1>1, <1>2 DEF Snapshot, Inv, TypeOK, Exact, CopiesCurrent, DeadLetterCurrent
<1>4. PICK m \in Nat : job' = [job EXCEPT ![j] = Rescheduled(job[j], "due", m)]
  <2>1. PolicyMax[j] \in Nat
    BY <1>3, JobQueueAssumption
  <2>2. PICK m \in {adm[a].maxAttempts, adm[a].attempts + 1, PolicyMax[j]} :
           job' = [job EXCEPT ![j] = Rescheduled(job[j], "due", m)]
    BY <1>1 DEF RequeueDeadLetter
  <2>3. adm[a].attempts + 1 \in Nat
    BY <1>3
  <2>4. m \in Nat
    BY <1>3, <2>1, <2>2, <2>3
  <2> QED BY <2>2, <2>4
<1>5. job'[j].status = "RETRYING" /\ \A k \in Jobs : k # j => job'[k] = job[k]
  <2>1. Rescheduled(job[j], "due", m) \in Row /\ Rescheduled(job[j], "due", m).status = "RETRYING"
    BY <1>3, RescheduledRow
  <2> HIDE DEF j
  <2> QED BY <1>3, <1>4, <2>1, StatusesAfter
<1>6. /\ delivery' \in Delivery /\ delivery'.jobId = delivery.jobId
      /\ \/ delivery' = delivery
         \/ delivery.jobId = j /\ delivery.status = "FAILED" /\ delivery'.status = "RETRYING"
  <2>1. delivery \in Delivery
    BY DEF DeliveryInv, DeliveryTypes
  <2>2. CASE delivery.jobId = j /\ delivery.status = "FAILED"
    <3>1. delivery' = [delivery EXCEPT !.status = "RETRYING"]
      BY <1>1, <2>2
    <3> QED BY <2>1, <2>2, <3>1 DEF Delivery, Live
  <2>3. CASE ~(delivery.jobId = j /\ delivery.status = "FAILED")
    <3>1. delivery' = delivery
      BY <1>1, <2>3
    <3> QED BY <2>1, <3>1
  <2> QED BY <2>2, <2>3
<1>7. DeliveryTypes'
  BY <1>1, <1>3, <1>6 DEF DeliveryInv, DeliveryTypes
<1>8. Attended'
  BY <1>1, <1>6 DEF DeliveryInv, Attended, Delivering, PendingFor, Live
<1>9. \A v \in Workers : wk[v].pc = "completing" => wk[v].job # j
  BY <1>3, HeldRuns DEF Busy
<1>10. ReturnsSettled'
  BY <1>1, <1>6, <1>9 DEF DeliveryInv, ReturnsSettled, PendingFor
<1>11. GoTogether'
  <2>1. CASE delivery' = delivery
    <3>1. delivery.status \in Live \cup {"FAILED"} => delivery.jobId \in Jobs
      BY DEF DeliveryInv, DeliveryTypes, Live
    <3>2. delivery.status = "FAILED" => delivery.jobId # j
      BY <1>1, <2>1 DEF DeliveryInv, DeliveryTypes, Delivery
    <3>3. FailedHasDeadLetter'
      BY <1>5, <2>1, <3>1, <3>2 DEF DeliveryInv, GoTogether, FailedHasDeadLetter
    <3>4. LiveHasJob'
      BY <1>1, <1>5, <2>1, <3>1 DEF DeliveryInv, GoTogether, LiveHasJob, HasJob, Waiting
    <3> QED BY <3>3, <3>4 DEF GoTogether
  <2>2. CASE delivery' # delivery
    BY <1>5, <1>6, <2>2 DEF GoTogether, LiveHasJob, HasJob, FailedHasDeadLetter, Waiting
  <2> QED BY <2>1, <2>2
<1>12. ~Received' => ~Received
  BY <1>1, <1>6 DEF Received
<1>13. EventLedger'
  BY <1>1, <1>12 DEF DeliveryInv, EventLedger
<1> QED BY <1>7, <1>8, <1>10, <1>11, <1>13 DEF DeliveryInv

\* The delivery is given a job that nobody has seen.
LEMMA NewJob ==
    ASSUME Inv, NEW j \in Jobs, EnqueueNow(j)
    PROVE  /\ job'[j].status = "QUEUED"
           /\ \A k \in Jobs : k # j => job'[k] = job[k]
           /\ \A v \in Workers : wk[v].pc \in Busy => wk[v].job # j
           /\ wk' = wk
<1>1. PICK t \in {"due", "later"} :
         job' = [job EXCEPT ![j] = [NoRow EXCEPT !.status = "QUEUED", !.maxAttempts = PolicyMax[j],
                                                 !.runAfter = t]]
  BY DEF EnqueueNow, Enqueue
<1>2. /\ [NoRow EXCEPT !.status = "QUEUED", !.maxAttempts = PolicyMax[j], !.runAfter = t] \in Row
      /\ [NoRow EXCEPT !.status = "QUEUED", !.maxAttempts = PolicyMax[j],
                       !.runAfter = t].status = "QUEUED"
  BY NewRow
<1>3. job[j].status = "ABSENT" /\ wk' = wk
  BY DEF EnqueueNow, Enqueue
<1>4. \A v \in Workers : wk[v].pc \in Busy => wk[v].job # j
  BY <1>3 DEF Inv, Exact, CopiesCurrent, SnapshotCurrent
<1>5. job'[j].status = "QUEUED" /\ \A k \in Jobs : k # j => job'[k] = job[k]
  BY <1>1, <1>2, StatusesAfter
<1> QED BY <1>3, <1>4, <1>5

LEMMA EnqueueKeepsDelivery ==
    ASSUME Inv, DeliveryInv, NEW j \in Jobs, EnqueueDelivery(j)
    PROVE  DeliveryInv'
<1>1. /\ delivery.status = "ABSENT" /\ EnqueueNow(j)
      /\ delivery' = [status |-> "PENDING", jobId |-> j]
      /\ UNCHANGED <<stage, retrying, accepted, unrecorded, retries, retriedInFlight>>
  BY DEF EnqueueDelivery
<1>2. /\ job'[j].status = "QUEUED" /\ wk' = wk
      /\ \A v \in Workers : wk[v].pc \in Busy => wk[v].job # j
  BY <1>1, NewJob
<1>3. delivery' \in Delivery /\ delivery'.status = "PENDING" /\ delivery'.jobId = j
  BY <1>1 DEF Delivery, Live
<1>4. DeliveryTypes'
  BY <1>1, <1>3 DEF DeliveryInv, DeliveryTypes
<1>5. \A v \in Workers : ~Delivering(v)
  BY <1>1 DEF DeliveryInv, Attended
<1>6. Attended' /\ ReturnsSettled'
  BY <1>1, <1>2, <1>3, <1>5 DEF Attended, Delivering, ReturnsSettled, PendingFor, Busy
<1>7. GoTogether'
  BY <1>2, <1>3 DEF GoTogether, LiveHasJob, HasJob, FailedHasDeadLetter, Waiting
<1>8. ~Received
  BY <1>1, <1>5 DEF Received, Delivering
<1>9. EventLedger'
  BY <1>1, <1>8 DEF DeliveryInv, EventLedger
<1> QED BY <1>4, <1>6, <1>7, <1>9 DEF DeliveryInv

\* An operator's retry: with nobody at the delivery it adds one to the account.
LEMMA RetryKeepsDelivery ==
    ASSUME Inv, DeliveryInv, NEW a \in Admins, NEW j \in Jobs, RetryDelivery(a, j)
    PROVE  DeliveryInv'
<1>1. /\ EnqueueNow(j) /\ retries' = retries + 1
      /\ delivery' = [status |-> "RETRYING", jobId |-> j]
      /\ retriedInFlight' = (retriedInFlight \/ \E v \in Workers : Delivering(v))
      /\ retrying' = [retrying EXCEPT ![a] = FALSE]
      /\ UNCHANGED <<stage, accepted, unrecorded>>
  BY DEF RetryDelivery
<1>2. /\ job'[j].status = "QUEUED" /\ wk' = wk
      /\ \A v \in Workers : wk[v].pc \in Busy => wk[v].job # j
  BY <1>1, NewJob
<1>3. delivery' \in Delivery /\ delivery'.status = "RETRYING" /\ delivery'.jobId = j
  BY <1>1 DEF Delivery, Live
<1>4. DeliveryTypes'
  <2>1. retriedInFlight' \in BOOLEAN
    BY <1>1, Zenon
  <2>2. retrying' \in [Admins -> BOOLEAN]
    BY <1>1 DEF DeliveryInv, DeliveryTypes
  <2>3. retries' \in Nat
    BY <1>1 DEF DeliveryInv, DeliveryTypes
  <2>4. stage' \in [Workers -> Stage] /\ accepted' \in Nat /\ unrecorded' \in Nat
    BY <1>1 DEF DeliveryInv, DeliveryTypes
  <2> QED BY <1>3, <2>1, <2>2, <2>3, <2>4, Zenon DEF DeliveryTypes
<1>5. ~retriedInFlight' => ~retriedInFlight /\ \A v \in Workers : ~Delivering(v)
  BY <1>1
<1>6. Attended' /\ ReturnsSettled'
  <2>1. Attended'
    BY <1>1, <1>2, <1>3, <1>5 DEF DeliveryInv, Attended, Delivering
  <2>2. ReturnsSettled'
    BY <1>2, <1>3 DEF ReturnsSettled, PendingFor, Busy
  <2> QED BY <2>1, <2>2
<1>7. GoTogether'
  BY <1>2, <1>3 DEF GoTogether, LiveHasJob, HasJob, FailedHasDeadLetter, Waiting
<1>8. EventLedger'
  <2>1. accepted \in Nat /\ unrecorded \in Nat /\ retries \in Nat
    BY DEF DeliveryInv, DeliveryTypes
  <2>2. ~retriedInFlight => accepted <= 1 + unrecorded + retries
    BY DEF DeliveryInv, EventLedger
  <2>3. ~retriedInFlight => accepted' <= unrecorded' + retries'
    BY <1>1, <2>1, <2>2
  <2>4. ~retriedInFlight => accepted' <= 1 + unrecorded' + retries'
    BY <1>1, <2>1, <2>2
  <2> QED BY <1>5, <2>3, <2>4 DEF EventLedger
<1> QED BY <1>4, <1>6, <1>7, <1>8 DEF DeliveryInv

LEMMA DeliveryStep ==
    ASSUME Inv, DeliveryInv, overtaken = 0, overtaken' = 0, [DeliveryNext]_allDeliveryVars
    PROVE  DeliveryInv'
<1>1. ASSUME UNCHANGED <<job, wk, deliveryVars>>
      PROVE  DeliveryInv'
  <2>1. GoTogether'
    BY <1>1, JobsFollowed DEF deliveryVars
  <2> QED BY <1>1, <2>1, DeliveryLeftAlone
<1>2. CASE UNCHANGED allDeliveryVars
  BY <1>1, <1>2 DEF allDeliveryVars, vars
<1>3. ASSUME NEW j \in Jobs, DeliveryBecomesDue(j)
      PROVE  DeliveryInv'
  <2>1. /\ job' = [job EXCEPT ![j].runAfter = "due"] /\ wk' = wk /\ UNCHANGED deliveryVars
    BY <1>3 DEF DeliveryBecomesDue, BecomeDue
  <2>2. \A k \in Jobs : job'[k].status = job[k].status
    BY <2>1 DEF Inv, TypeOK, Row
  <2>3. GoTogether'
    BY <2>1, <2>2, JobsFollowed DEF deliveryVars
  <2> QED BY <2>1, <2>3, DeliveryLeftAlone
<1>4. ASSUME NEW w \in Workers, DeliveryQueueStep(w)
      PROVE  DeliveryInv'
  <2>1. UNCHANGED deliveryVars /\ wk[w].pc # "processing"
    BY <1>4 DEF DeliveryQueueStep, Claim, Complete, CompleteRolledBack, CompleteAckLost
  <2>2. /\ \A v \in Workers : v # w => wk'[v] = wk[v]
        /\ wk'[w].pc # "completing"
    <3>1. wk[w] \in Worker
      BY DEF Inv, TypeOK
    <3>2. CASE \E j \in Jobs : Claim(w, j)
      BY <3>2 DEF Claim, Inv, TypeOK
    <3>3. CASE Complete(w)
      BY <3>3 DEF Complete, Idle, Inv, TypeOK
    <3>4. CASE CompleteRolledBack(w) \/ CompleteAckLost(w)
      <4>1. wk' = [wk EXCEPT ![w] = [@ EXCEPT !.pc = "failing", !.error = "transient"]]
        BY <3>4 DEF CompleteRolledBack, CompleteAckLost
      <4>2. wk'[w] = [wk[w] EXCEPT !.pc = "failing", !.error = "transient"]
        BY <4>1 DEF Inv, TypeOK
      <4>3. wk'[w].pc = "failing"
        BY <3>1, <4>2 DEF Worker
      <4> QED BY <4>1, <4>3 DEF Inv, TypeOK
    <3> QED BY <1>4, <3>2, <3>3, <3>4 DEF DeliveryQueueStep
  <2>3. GoTogether'
    <3>1. CASE \E j \in Jobs : Claim(w, j)
      <4>1. PICK j \in Jobs : Claim(w, j)
        BY <3>1
      <4>2. job' = [job EXCEPT ![j] = Claimed(job[j], w)] /\ job[j].status \in Waiting
        BY <4>1 DEF Claim, FirstInLine, Eligible
      <4>3. Claimed(job[j], w) \in Row /\ Claimed(job[j], w).status = "RUNNING"
        BY ClaimedRow DEF Inv, TypeOK
      <4>4. job'[j].status = "RUNNING" /\ \A k \in Jobs : k # j => job'[k] = job[k]
        BY <4>2, <4>3, StatusesAfter
      <4> QED BY <2>1, <4>2, <4>4, JobsFollowed DEF deliveryVars, Waiting
    <3>2. CASE Complete(w) \/ CompleteAckLost(w)
      <4>1. /\ wk[w].pc = "completing"
            /\ job' = [job EXCEPT ![wk[w].job] = Released(job[wk[w].job], "SUCCEEDED")]
        BY <3>2 DEF Complete, CompleteAckLost, StoreSuccess
      <4>2. wk[w].job \in Jobs /\ job[wk[w].job].status = "RUNNING"
        BY <4>1, HeldRuns DEF Busy
      <4>3. Released(job[wk[w].job], "SUCCEEDED") \in Row
        BY <4>2, ReleasedRow DEF Inv, TypeOK, Status
      <4>4. \A k \in Jobs : k # wk[w].job => job'[k] = job[k]
        BY <4>1, <4>2, <4>3, StatusesAfter
      <4>5. ~retriedInFlight => ~PendingFor(wk[w].job)
        BY <4>1 DEF DeliveryInv, ReturnsSettled
      <4> QED BY <2>1, <4>2, <4>4, <4>5, JobsFollowed DEF deliveryVars
    <3>3. CASE CompleteRolledBack(w)
      BY <2>1, <3>3, JobsFollowed DEF CompleteRolledBack, deliveryVars
    <3> QED BY <1>4, <3>1, <3>2, <3>3 DEF DeliveryQueueStep
  <2>4. \A v \in Workers : Delivering(v) => wk'[v] = wk[v]
    BY <2>1, <2>2 DEF DeliveryInv, Attended
  <2> QED BY <2>1, <2>2, <2>3, <2>4, DeliveryLeftAlone
<1>5. ASSUME NEW w \in Workers, DeliveryWorkerStep(w)
      PROVE  DeliveryInv'
  BY <1>4, <1>5, FindKeepsDelivery, MarkKeepsDelivery, PostKeepsDelivery, RecordKeepsDelivery,
     ErrorKeepsDelivery, FailOrRetryKeepsDelivery DEF DeliveryWorkerStep, HandlerStep
<1>6. ASSUME NEW w \in Workers, Restart(w) /\ UNCHANGED deliveryVars
      PROVE  DeliveryInv'
  <2>1. /\ wk[w].pc = "down" /\ job' = job
        /\ \A v \in Workers : v # w => wk'[v] = wk[v]
        /\ wk'[w].pc = "idle"
    BY <1>6 DEF Restart, Idle, Inv, TypeOK
  <2>2. \A v \in Workers : Delivering(v) => wk'[v] = wk[v]
    BY <2>1 DEF DeliveryInv, Attended
  <2>3. GoTogether'
    BY <1>6, <2>1, JobsFollowed DEF deliveryVars
  <2> QED BY <1>6, <2>1, <2>2, <2>3, DeliveryLeftAlone
<1>7. ASSUME NEW a \in Admins, ReadDelivery(a)
      PROVE  DeliveryInv'
  <2>1. /\ retrying' = [retrying EXCEPT ![a] = TRUE]
        /\ UNCHANGED <<job, wk, delivery, stage, accepted, unrecorded, retries, retriedInFlight>>
    BY <1>7 DEF ReadDelivery, vars
  <2>2. DeliveryTypes'
    BY <2>1 DEF DeliveryInv, DeliveryTypes
  <2>3. Attended' /\ ReturnsSettled'
    BY <2>1 DEF DeliveryInv, Attended, ReturnsSettled, Delivering, PendingFor
  <2>4. GoTogether'
    BY <2>1, JobsFollowed
  <2>5. EventLedger'
    BY <2>1 DEF DeliveryInv, EventLedger, Received
  <2> QED BY <2>2, <2>3, <2>4, <2>5 DEF DeliveryInv
<1>8. ASSUME NEW a \in Admins, NEW j \in Jobs, ReadDeadLetter(a, j) /\ UNCHANGED deliveryVars
      PROVE  DeliveryInv'
  BY <1>1, <1>8 DEF ReadDeadLetter
<1>9. ASSUME NEW a \in Admins, RequeueDelivery(a)
      PROVE  DeliveryInv'
  <2>1. overtaken' = IF crossed[a] THEN overtaken + 1 ELSE overtaken
    BY <1>9 DEF RequeueDelivery, RequeueDeadLetter
  <2>2. ~crossed[a]
    BY <2>1
  <2> QED BY <1>9, <2>2, RequeueKeepsDelivery
<1> QED BY <1>2, <1>3, <1>5, <1>6, <1>7, <1>8, <1>9, EnqueueKeepsDelivery, CrashKeepsDelivery,
           RetryKeepsDelivery DEF DeliveryNext

\* A requeue that overtook another one may leave a job in two hands, which no end
\* of a handler can undo: what is kept is kept up to the first.
DeliveryExact == overtaken = 0 => DeliveryInv

LEMMA DeliveryHolds == DeliverySpec => []DeliveryExact
<1>1. DeliveryInit => DeliveryExact
  BY DeliveryBegins DEF DeliveryExact
<1>2. QueueInv /\ ExactInv /\ DeliveryExact /\ [DeliveryNext]_allDeliveryVars => DeliveryExact'
  <2> SUFFICES ASSUME QueueInv, ExactInv, DeliveryExact, [DeliveryNext]_allDeliveryVars,
                      overtaken' = 0
               PROVE  DeliveryInv'
    BY DEF DeliveryExact
  <2>1. [Next]_vars
    BY DeliveryStepsQueue
  <2>2. overtaken = 0
    BY <2>1, NextOvertaken DEF QueueInv
  <2>3. Inv /\ DeliveryInv
    BY <2>2 DEF QueueInv, ExactInv, DeliveryExact, Inv
  <2> QED BY <2>2, <2>3, DeliveryStep
<1> QED BY <1>1, <1>2, DeliveryImplementsQueue, QueueHolds, ExactHolds, PTL DEF DeliverySpec

\* What failOrRetryJob, retryDeadLetterJob and retryWebhookDelivery do to a job
\* they do to its delivery: while no requeue was overtaken, a FAILED delivery is
\* one whose job is a dead letter, and, unless an operator retried it while a
\* worker was at it, one still to be made has a job that will make it.
THEOREM DeliveryFollowsJob == DeliverySpec => []FollowsJob
<1>1. DeliveryExact => FollowsJob
  BY DEF DeliveryExact, DeliveryInv, GoTogether, LiveHasJob, FailedHasDeadLetter, FollowsJob,
         NotStranded, FailedIsDeadLetter, Undisturbed
<1> QED BY <1>1, DeliveryHolds, PTL

\* However often the queue runs the job again, and whichever worker ends: an
\* event accepted again is owed to an answer not recorded or to an operator,
\* where no operator retried the delivery while a worker was at it and no requeue
\* was overtaken.
THEOREM DuplicatesAreExplained == DeliverySpec => []DuplicatesExplained
<1>1. DeliveryExact => DuplicatesExplained
  BY DEF DeliveryExact, DeliveryInv, EventLedger, DuplicatesExplained, Undisturbed
<1> QED BY <1>1, DeliveryHolds, PTL
=============================================================================

------------------------- MODULE ResultBatchProofs -------------------------
(***************************************************************************)
(* Proofs about ResultBatch, for any number of batches, students, calls    *)
(* and approvals, and any roster.                                          *)
(***************************************************************************)
EXTENDS ResultBatch, FiniteSetTheorems, TLAPS

-----------------------------------------------------------------------------
(* The session and its reopening. *)

\* The requests are created one after the other.
LEMMA LastRequestType == LastRequest \in 0 .. MaxRequests
<1> DEFINE S == {r \in Requests : reopen[r] # "ABSENT"}
<1>1. MaxRequests \in Nat
  BY AcademicSessionAssumption
<1>2. IsFiniteSet(1 .. MaxRequests) /\ Cardinality(1 .. MaxRequests) = MaxRequests
  BY <1>1, FS_Interval
<1>3. S \subseteq 1 .. MaxRequests
  BY DEF Requests
<1>4. IsFiniteSet(S) /\ Cardinality(S) <= MaxRequests
  BY <1>2, <1>3, FS_Subset
<1>5. Cardinality(S) \in Nat
  BY <1>4, FS_CardinalityType
<1>6. QED
  BY <1>1, <1>4, <1>5 DEF LastRequest

\* updateAcademicSession keeps the types.
LEMMA UpdateSessionTypes ==
    ASSUME SessionTypeOK, NEW s \in SessionStatus, UpdateSession(s)
    PROVE  SessionTypeOK'
BY AcademicSessionAssumption DEF SessionTypeOK, UpdateSession, SessionStatus

\* So do the request and the review of a reopening.
LEMMA SessionStepTypes ==
    ASSUME SessionTypeOK, NEW c \in Calls, SessionStep(c)
    PROVE  SessionTypeOK'
<1> USE DEF SessionTypeOK
<1>1. LastRequest \in 0 .. MaxRequests /\ MaxRequests \in Nat
  BY LastRequestType, AcademicSessionAssumption
<1>2. CASE ReadForRequest(c)
  BY <1>1, <1>2 DEF ReadForRequest, Requests, NoRequest
<1>3. CASE CreateRequest(c)
  <2>1. LastRequest < MaxRequests => LastRequest + 1 \in Requests
    BY <1>1 DEF Requests
  <2>2. AtRest \in [does : {"nothing", "request", "review"}, request : Requests \cup {NoRequest}]
        /\ AtRest.does = "nothing"
    BY DEF AtRest
  <2>3. reopen' \in [Requests -> {"ABSENT", "REQUESTED", "APPROVED", "REJECTED"}]
    BY <1>3, <2>1 DEF CreateRequest
  <2>4. QED
    BY <1>3, <2>2, <2>3 DEF CreateRequest
<1>4. ASSUME NEW r \in Requests, ReadForReview(c, r) PROVE SessionTypeOK'
  BY <1>4 DEF ReadForReview
<1>5. CASE Approve(c)
  BY <1>5 DEF Approve, SessionStatus, AtRest
<1>6. CASE Reject(c)
  BY <1>6 DEF Reject, AtRest
<1>7. CASE AbandonDesk(c)
  BY <1>7 DEF AbandonDesk, AtRest
<1>8. QED
  BY <1>2, <1>3, <1>4, <1>5, <1>6, <1>7 DEF SessionStep

-----------------------------------------------------------------------------
(* Types. *)

\* A call at rest, and one that is past the check of ingestResults or of
\* publishBatch.
LEMMA NewCallTypes ==
    /\ NoCall \in Call /\ NoCall.at = "idle" /\ NoCall.tally = [e \in Students |-> {}]
    /\ \A b \in Batches, n \in Nat :
          LET x == [NoCall EXCEPT !.at = "upload", !.batch = b, !.seals = n]
          IN  x \in Call /\ x.at = "upload" /\ x.batch = b /\ x.tally = NoCall.tally
    /\ \A b \in Batches, s \in BatchStatus :
          LET x == [NoCall EXCEPT !.at = "signing", !.batch = b, !.seen = s]
          IN  /\ x \in Call /\ x.at = "signing" /\ x.batch = b /\ x.seen = s
              /\ x.tally = NoCall.tally
BY DEF NoCall, Call, BatchStatus

\* A call whose transaction begins, or whose student is done.
LEMMA OpenCallTypes ==
    ASSUME NEW x \in Call, NEW todo \in SUBSET Students
    PROVE  /\ [x EXCEPT !.at = "open", !.todo = todo] \in Call
           /\ [x EXCEPT !.at = "open", !.student = NoStudent, !.todo = todo] \in Call
BY DEF Call

\* Every action keeps the types.
LEMMA TypesKept ==
    ASSUME TypeOK, [Next]_vars
    PROVE  TypeOK'
<1> USE DEF TypeOK
<1>1. CASE UNCHANGED vars
  BY <1>1 DEF vars, sessionVars, batchVars, SessionTypeOK
<1>2. ASSUME NEW s \in SessionStatus, UpdateSession(s), UNCHANGED batchVars
      PROVE  TypeOK'
  BY <1>2, UpdateSessionTypes DEF batchVars
<1>3. ASSUME NEW c \in Calls, SessionStep(c), UNCHANGED batchVars
      PROVE  TypeOK'
  BY <1>3, SessionStepTypes DEF batchVars
<1>4. ASSUME UNCHANGED sessionVars PROVE SessionTypeOK'
  BY <1>4 DEF sessionVars, SessionTypeOK
<1>5. ASSUME NEW c \in Calls, NEW b \in Batches, CheckUpload(c, b) PROVE TypeOK'
  <2>1. seals \in Nat
    BY AcademicSessionAssumption DEF SessionTypeOK
  <2>2. call' = [call EXCEPT ![c] = [NoCall EXCEPT !.at = "upload", !.batch = b, !.seals = seals]]
        /\ [NoCall EXCEPT !.at = "upload", !.batch = b, !.seals = seals] \in Call
    BY <1>5, <2>1, NewCallTypes DEF CheckUpload
  <2>3. [NoCall EXCEPT !.at = "upload", !.batch = b, !.seals = seals].batch = b
    BY DEF NoCall
  <2>4. QED
    BY <1>4, <1>5, <2>2, <2>3 DEF CheckUpload
<1>6. ASSUME NEW c \in Calls, CreateBatch(c) PROVE TypeOK'
  <2>1. call' = [call EXCEPT ![c] = NoCall] /\ NoCall \in Call /\ NoCall.at = "idle"
    BY <1>6, NewCallTypes DEF CreateBatch
  <2>2. batch' \in [Batches -> BatchStatus]
    BY <1>6 DEF CreateBatch, BatchStatus
  <2>3. QED
    BY <1>4, <1>6, <2>1, <2>2 DEF CreateBatch
<1>7. ASSUME NEW c \in Calls, NEW b \in Batches, CheckPublish(c, b) PROVE TypeOK'
  <2> DEFINE x == [NoCall EXCEPT !.at = "signing", !.batch = b, !.seen = batch[b]]
  <2>1. call' = [call EXCEPT ![c] = x]
    BY <1>7 DEF CheckPublish
  <2>2. x \in Call /\ x.batch = b
    <3>1. batch[b] \in BatchStatus
      OBVIOUS
    <3>2. QED
      BY <3>1, NewCallTypes
  <2>3. QED
    BY <1>4, <1>7, <2>1, <2>2 DEF CheckPublish
<1>8. ASSUME NEW c \in Calls, Begin(c) PROVE TypeOK'
  <2> DEFINE mine == Roster[call[c].batch]
             Common(d) == IF InTransaction(d) THEN mine \cap Roster[call[d].batch] ELSE {}
             began == [call[c] EXCEPT !.at = "open", !.todo = mine]
  <2>1. mine \subseteq Students
    BY <1>8, ResultBatchAssumption DEF Begin
  <2>2. call' = [call EXCEPT ![c] = began]
        /\ shared' = [d \in Calls |-> IF d = c THEN UNION {Common(x) : x \in Calls}
                                      ELSE shared[d] \cup Common(d)]
    BY <1>8 DEF Begin
  <2>3. began \in Call /\ began.batch = call[c].batch
    BY <2>1 DEF Call
  <2>4. \A d \in Calls : Common(d) \subseteq Students
    BY <2>1
  <2>5. shared' \in [Calls -> SUBSET Students]
    <3> HIDE DEF Common
    <3>1. UNION {Common(x) : x \in Calls} \subseteq Students
      BY <2>4
    <3>2. QED
      BY <2>2, <2>4, <3>1
  <2>6. QED
    BY <1>4, <1>8, <2>2, <2>3, <2>5 DEF Begin
<1>9. ASSUME NEW c \in Calls, NEW e \in Students, Tally(c, e) PROVE TypeOK'
  <2> DEFINE told == [call[c].tally EXCEPT ![e] = Visible(c, e)]
             y == [call[c] EXCEPT !.at = "writing", !.student = e, !.tally = told]
  <2>1. call' = [call EXCEPT ![c] = y]
    BY <1>9 DEF Tally
  <2>2. Visible(c, e) \in SUBSET Batches
    BY DEF Visible
  <2>3. y \in Call /\ y.batch = call[c].batch
    <3>1. call[c] \in Call
      OBVIOUS
    <3>2. told \in [Students -> SUBSET Batches]
      BY <2>2, <3>1 DEF Call
    <3> HIDE DEF told
    <3>3. QED
      BY <3>1, <3>2 DEF Call
  <2>4. QED
    BY <1>4, <1>9, <2>1, <2>3 DEF Tally
<1>10. ASSUME NEW c \in Calls, Upsert(c) PROVE TypeOK'
  <2> DEFINE left == call[c].todo \ {call[c].student}
             done == [call[c] EXCEPT !.at = "open", !.student = NoStudent,
                                     !.todo = left]
  <2>1. call' = [call EXCEPT ![c] = done]
    BY <1>10 DEF Upsert
  <2>2. done \in Call /\ done.batch = call[c].batch
    BY DEF Call
  <2>3. QED
    BY <1>4, <1>10, <2>1, <2>2 DEF Upsert
<1>11. ASSUME NEW c \in Calls, Commit(c) PROVE TypeOK'
  <2>1. call[c].batch \in Batches /\ call[c].tally \in [Students -> SUBSET Batches]
    BY <1>11 DEF Commit, Call
  <2>2. standing' \in [Students -> SUBSET Batches]
    BY <1>11, <2>1 DEF Commit
  <2>3. disturbed' \subseteq Students /\ shared' \in [Calls -> SUBSET Students]
    BY <1>11 DEF Commit
  <2>4. batch' \in [Batches -> BatchStatus] /\ released' \subseteq Batches
        /\ credentials' \in [Batches -> Nat] /\ unapproved' \in [Batches -> Nat]
    BY <1>11, <2>1 DEF Commit, BatchStatus
  <2>5. call' = [call EXCEPT ![c] = NoCall]
    BY <1>11 DEF Commit
  <2>6. QED
    <3>1. NoCall \in Call /\ NoCall.at = "idle"
      BY NewCallTypes
    <3>2. UNCHANGED <<sessionVars, approvals>>
      BY <1>11 DEF Commit
    <3>3. QED
      BY <1>4, <2>2, <2>3, <2>4, <2>5, <3>1, <3>2
<1>12. ASSUME NEW c \in Calls, Abandon(c) PROVE TypeOK'
  <2>1. NoCall \in Call /\ NoCall.at = "idle"
    BY NewCallTypes
  <2>2. QED
    BY <1>4, <1>12, <2>1 DEF Abandon
<1>13. ASSUME NEW b \in Batches, NEW s \in {"IN_REVIEW", "APPROVED"}, Transition(b, s)
       PROVE  TypeOK'
  <2>1. batch' \in [Batches -> BatchStatus]
    BY <1>13 DEF Transition, BatchStatus
  <2>2. \A a \in Batches : approvals[a] \in Nat /\ MaxApprovals[a] \in Nat
    BY ResultBatchAssumption
  <2>3. approvals' \in [Batches -> Nat]
        /\ \A a \in Batches : approvals'[a] <= MaxApprovals[a]
    BY <1>13, <2>2 DEF Transition
  <2>4. QED
    BY <1>4, <1>13, <2>1, <2>3 DEF Transition
<1>14. ASSUME NEW b \in Batches, RejectBatch(b) PROVE TypeOK'
  BY <1>4, <1>14 DEF RejectBatch, BatchStatus
<1>15. QED
  BY <1>1, <1>2, <1>3, <1>5, <1>6, <1>7, <1>8, <1>9, <1>10, <1>11, <1>12, <1>13, <1>14
     DEF Next, PublishStep

\* The types of ResultBatch and of the session it belongs to, after every
\* interleaving of the API's calls.
THEOREM TypeCorrect == Spec => []TypeOK
<1>1. Init => TypeOK
  <2> SUFFICES ASSUME Init PROVE TypeOK
    OBVIOUS
  <2>1. SessionTypeOK
    BY AcademicSessionAssumption
       DEF Init, SessionInit, SessionTypeOK, SessionStatus, AtRest, NoRequest
  <2>2. NoCall \in Call /\ NoCall.at = "idle"
    BY NewCallTypes
  <2>3. \A b \in Batches : 0 <= MaxApprovals[b]
    BY ResultBatchAssumption
  <2>4. QED
    BY <2>1, <2>2, <2>3 DEF Init, TypeOK, BatchStatus
<1>2. TypeOK /\ [Next]_vars => TypeOK'
  BY TypesKept
<1>3. QED
  BY <1>1, <1>2, PTL DEF Spec

-----------------------------------------------------------------------------
(* Credentials. *)

\* A publication past the check of publishBatch has seen APPROVED.
SeenApproved ==
    \A c \in Calls : call[c].at \in {"signing", "open", "writing"}
                        => call[c].seen = "APPROVED"

\* A batch that is APPROVED has an approval that no issue has used.
ApprovalLeft ==
    \A b \in Batches : batch[b] = "APPROVED"
                          => credentials[b] < approvals[b] + unapproved[b]

IssueInv == SeenApproved /\ IssuesApproved /\ ApprovalLeft

LEMMA IssueKept ==
    ASSUME TypeOK, IssueInv, [Next]_vars
    PROVE  IssueInv'
<1> DEFINE counters == <<batch, credentials, approvals, unapproved>>
<1>1. ASSUME UNCHANGED counters PROVE IssuesApproved' /\ ApprovalLeft'
  BY <1>1 DEF IssueInv, IssuesApproved, ApprovalLeft
<1>2. ASSUME UNCHANGED call PROVE SeenApproved'
  BY <1>2 DEF IssueInv, SeenApproved
<1>3. ASSUME NEW c \in Calls, NEW x \in Call, call' = [call EXCEPT ![c] = x],
             x.at \in {"idle", "upload"} \/ x.seen = "APPROVED"
      PROVE  SeenApproved'
  <2>1. \A d \in Calls : call'[d] = IF d = c THEN x ELSE call[d]
    BY <1>3 DEF TypeOK
  <2>2. QED
    BY <1>3, <2>1 DEF IssueInv, SeenApproved
<1>4. NoCall \in Call /\ NoCall.at = "idle"
  BY NewCallTypes
<1>5. ASSUME UNCHANGED vars PROVE IssueInv'
  BY <1>1, <1>2, <1>5 DEF vars, batchVars, IssueInv
<1>6. ASSUME UNCHANGED batchVars PROVE IssueInv'
  BY <1>1, <1>2, <1>6 DEF batchVars, IssueInv
<1>7. ASSUME NEW c \in Calls, NEW b \in Batches, CheckUpload(c, b) PROVE IssueInv'
  <2> DEFINE x == [NoCall EXCEPT !.at = "upload", !.batch = b, !.seals = seals]
  <2>1. call' = [call EXCEPT ![c] = x] /\ UNCHANGED counters
    BY <1>7 DEF CheckUpload
  <2>2. seals \in Nat
    BY AcademicSessionAssumption DEF TypeOK, SessionTypeOK
  <2>3. x \in Call /\ x.at = "upload"
    <3>1. x \in Call
      BY <2>2, NewCallTypes
    <3>2. x.at = "upload"
      BY DEF NoCall
    <3>3. QED
      BY <3>1, <3>2
  <2>4. QED
    BY <1>1, <1>3, <2>1, <2>3 DEF IssueInv
<1>8. ASSUME NEW c \in Calls, CreateBatch(c) PROVE IssueInv'
  <2>1. call[c].batch \in Batches
    BY <1>8 DEF CreateBatch, TypeOK
  <2>2. \A b \in Batches : batch'[b] = batch[b] \/ batch'[b] = "DRAFT"
    BY <1>8, <2>1 DEF CreateBatch, TypeOK
  <2>3. IssuesApproved' /\ ApprovalLeft'
    BY <1>8, <2>2 DEF CreateBatch, IssueInv, IssuesApproved, ApprovalLeft
  <2>4. QED
    BY <1>3, <1>4, <1>8, <2>3 DEF CreateBatch, IssueInv
<1>9. ASSUME NEW c \in Calls, NEW b \in Batches, CheckPublish(c, b) PROVE IssueInv'
  <2> DEFINE x == [NoCall EXCEPT !.at = "signing", !.batch = b, !.seen = batch[b]]
  <2>1. call' = [call EXCEPT ![c] = x] /\ batch[b] = "APPROVED" /\ UNCHANGED counters
    BY <1>9 DEF CheckPublish
  <2>2. batch[b] \in BatchStatus
    BY DEF TypeOK
  <2>3. x \in Call /\ x.seen = "APPROVED"
    <3>1. x \in Call
      BY <2>2, NewCallTypes
    <3>2. x.seen = batch[b]
      BY DEF NoCall
    <3>3. QED
      BY <2>1, <3>1, <3>2
  <2>4. QED
    BY <1>1, <1>3, <2>1, <2>3 DEF IssueInv
<1>10. ASSUME NEW c \in Calls, Begin(c) \/ Upsert(c) \/ \E e \in Students : Tally(c, e)
       PROVE  IssueInv'
  <2> DEFINE began == [call[c] EXCEPT !.at = "open", !.todo = Roster[call[c].batch]]
             left == call[c].todo \ {call[c].student}
             done == [call[c] EXCEPT !.at = "open", !.student = NoStudent, !.todo = left]
             told(e) == [call[c].tally EXCEPT ![e] = Visible(c, e)]
             noted(e) == [call[c] EXCEPT !.at = "writing", !.student = e, !.tally = told(e)]
  <2>1. call[c] \in Call /\ call \in [Calls -> Call]
    BY DEF TypeOK
  <2>2. PICK x : call' = [call EXCEPT ![c] = x] /\ x.seen = call[c].seen
    <3>1. CASE Begin(c)
      <4>1. call' = [call EXCEPT ![c] = began]
        BY <3>1 DEF Begin
      <4>2. began.seen = call[c].seen
        BY <2>1 DEF Call
      <4>3. QED
        BY <4>1, <4>2
    <3>2. CASE Upsert(c)
      <4>1. call' = [call EXCEPT ![c] = done]
        BY <3>2 DEF Upsert
      <4>2. done.seen = call[c].seen
        BY <2>1 DEF Call
      <4>3. QED
        BY <4>1, <4>2
    <3>3. ASSUME NEW e \in Students, Tally(c, e)
          PROVE  \E x : call' = [call EXCEPT ![c] = x] /\ x.seen = call[c].seen
      <4>1. call' = [call EXCEPT ![c] = noted(e)]
        BY <3>3 DEF Tally
      <4>2. noted(e).seen = call[c].seen
        BY <2>1 DEF Call
      <4>3. QED
        BY <4>1, <4>2
    <3>4. QED
      BY <1>10, <3>1, <3>2, <3>3
  <2>3. call[c].at \in {"signing", "open", "writing"}
    BY <1>10 DEF Begin, Upsert, Tally
  <2>4. SeenApproved'
    <3>1. \A d \in Calls : call'[d] = IF d = c THEN x ELSE call[d]
      BY <2>1, <2>2
    <3>2. QED
      BY <2>2, <2>3, <3>1 DEF IssueInv, SeenApproved
  <2>5. UNCHANGED counters
    BY <1>10 DEF Begin, Upsert, Tally
  <2>6. QED
    BY <1>1, <2>4, <2>5 DEF IssueInv
<1>11. ASSUME NEW c \in Calls, Commit(c) PROVE IssueInv'
  <2> DEFINE b == call[c].batch
  <2>1. b \in Batches /\ call[c].seen = "APPROVED"
    BY <1>11 DEF Commit, TypeOK, IssueInv, SeenApproved
  <2>2. /\ credentials' = [credentials EXCEPT ![b] = @ + 1]
        /\ batch' = [batch EXCEPT ![b] = "PUBLISHED"]
        /\ unapproved' = [unapproved EXCEPT ![b] = IF batch[b] = "APPROVED" THEN @
                                                   ELSE @ + 1]
        /\ approvals' = approvals
    BY <1>11, <2>1 DEF Commit
  <2>3. credentials \in [Batches -> Nat] /\ approvals \in [Batches -> Nat]
        /\ unapproved \in [Batches -> Nat] /\ batch \in [Batches -> BatchStatus]
    BY DEF TypeOK
  <2> HIDE DEF b
  <2>4. credentials'[b] <= approvals'[b] + unapproved'[b] /\ batch'[b] = "PUBLISHED"
    BY <2>1, <2>2, <2>3 DEF IssueInv, IssuesApproved, ApprovalLeft
  <2>5. \A a \in Batches : a # b =>
           /\ credentials'[a] = credentials[a] /\ approvals'[a] = approvals[a]
           /\ unapproved'[a] = unapproved[a] /\ batch'[a] = batch[a]
    BY <2>1, <2>2, <2>3
  <2>6. IssuesApproved' /\ ApprovalLeft'
    BY <2>4, <2>5 DEF IssueInv, IssuesApproved, ApprovalLeft
  <2>7. QED
    BY <1>3, <1>4, <1>11, <2>6 DEF Commit, IssueInv
<1>12. ASSUME NEW c \in Calls, Abandon(c) PROVE IssueInv'
  BY <1>1, <1>3, <1>4, <1>12 DEF Abandon, IssueInv
<1>13. ASSUME NEW b \in Batches, NEW s \in {"IN_REVIEW", "APPROVED"}, Transition(b, s)
       PROVE  IssueInv'
  <2>1. credentials \in [Batches -> Nat] /\ approvals \in [Batches -> Nat]
        /\ unapproved \in [Batches -> Nat] /\ batch \in [Batches -> BatchStatus]
    BY DEF TypeOK
  <2>2. \A a \in Batches : a # b => approvals'[a] = approvals[a] /\ batch'[a] = batch[a]
    BY <1>13, <2>1 DEF Transition
  <2>3. approvals'[b] = (IF s = "APPROVED" THEN approvals[b] + 1 ELSE approvals[b])
        /\ batch'[b] = s
    BY <1>13, <2>1 DEF Transition
  <2>4. UNCHANGED <<credentials, unapproved, call>>
    BY <1>13 DEF Transition
  <2>5. IssuesApproved' /\ ApprovalLeft'
    BY <2>1, <2>2, <2>3, <2>4 DEF IssueInv, IssuesApproved, ApprovalLeft
  <2>6. QED
    BY <1>2, <2>4, <2>5 DEF IssueInv
<1>14. ASSUME NEW b \in Batches, RejectBatch(b) PROVE IssueInv'
  <2>1. \A a \in Batches : batch'[a] = batch[a] \/ batch'[a] = "DRAFT"
    BY <1>14 DEF RejectBatch, TypeOK
  <2>2. QED
    BY <1>2, <1>14, <2>1 DEF RejectBatch, IssueInv, IssuesApproved, ApprovalLeft
<1>15. QED
  BY <1>5, <1>6, <1>7, <1>8, <1>9, <1>10, <1>11, <1>12, <1>13, <1>14
     DEF Next, PublishStep

\* No set of credentials is issued on an approval already used by another issue,
\* unless the approval was withdrawn while publishBatch was signing.
THEOREM IssuesOnApproval == Spec => []IssuesApproved
<1>1. Init => IssueInv
  <2>1. Init => SeenApproved
    BY DEF Init, SeenApproved, NoCall
  <2>2. Init => \A b \in Batches : credentials[b] = 0 /\ approvals[b] = 0
                                /\ unapproved[b] = 0 /\ batch[b] = "ABSENT"
    BY DEF Init
  <2>3. QED
    BY <2>1, <2>2 DEF IssueInv, IssuesApproved, ApprovalLeft
<1>2. TypeOK /\ IssueInv /\ [Next]_vars => IssueInv'
  BY IssueKept
<1>3. IssueInv => IssuesApproved
  BY DEF IssueInv
<1>4. QED
  BY <1>1, <1>2, <1>3, TypeCorrect, PTL DEF Spec

-----------------------------------------------------------------------------
(* Academic standings. *)

\* A transaction has its batch for itself, and the students it has still to
\* tally are of its roster.
BatchesApart ==
    \A c \in Calls : InTransaction(c) =>
        /\ call[c].todo \subseteq Roster[call[c].batch]
        /\ call[c].at = "writing" => call[c].student \in Roster[call[c].batch]
        /\ \A d \in Calls : d # c /\ InTransaction(d) => call[d].batch # call[c].batch

\* The students that two transactions have in common are noted with both.
OverlapNoted ==
    \A c, d \in Calls : c # d /\ InTransaction(c) /\ InTransaction(d) =>
        Roster[call[c].batch] \cap Roster[call[d].batch] \subseteq shared[c]

\* The transaction of c has tallied the records of e.
Tallied(c, e) ==
    /\ InTransaction(c) /\ e \in Roster[call[c].batch]
    /\ e \notin call[c].todo \/ (call[c].at = "writing" /\ e = call[c].student)

\* A tally counts what is published and the batch itself; it lacks nothing of
\* that unless another transaction with records of the student is about.
TallyExact ==
    \A c \in Calls, e \in Students : Tallied(c, e) =>
        /\ call[c].tally[e] \subseteq Results(e) \cup {call[c].batch}
        /\ e \notin shared[c] => call[c].tally[e] = Results(e) \cup {call[c].batch}

StandingInv ==
    BatchesApart /\ OverlapNoted /\ TallyExact /\ StandingNeverAhead /\ StandingExact

\* What is published and the standings do not change, and no call is in a
\* transaction that was not.
LEMMA StandingQuiet ==
    ASSUME TypeOK, StandingInv, UNCHANGED <<released, standing, disturbed>>,
           \A c \in Calls : InTransaction(c)' => call'[c] = call[c] /\ shared'[c] = shared[c]
    PROVE  StandingInv'
<1>1. \A e \in Students : Results(e)' = Results(e)
  BY DEF Results
<1>2. \A c \in Calls : InTransaction(c)' => InTransaction(c)
  BY DEF InTransaction
<1>3. BatchesApart'
  BY <1>2 DEF StandingInv, BatchesApart
<1>4. OverlapNoted'
  BY <1>2 DEF StandingInv, OverlapNoted
<1>5. TallyExact'
  <2>1. \A c \in Calls, e \in Students : Tallied(c, e)' => Tallied(c, e) /\ InTransaction(c)'
    BY <1>2 DEF Tallied
  <2>2. QED
    BY <1>1, <2>1 DEF StandingInv, TallyExact
<1>6. StandingNeverAhead' /\ StandingExact'
  BY <1>1 DEF StandingInv, StandingNeverAhead, StandingExact
<1>7. QED
  BY <1>3, <1>4, <1>5, <1>6 DEF StandingInv

\* A call that is not in a transaction afterwards disturbs nothing, where it
\* does not commit.
LEMMA StandingOutside ==
    ASSUME TypeOK, StandingInv, NEW c \in Calls, NEW x,
           UNCHANGED <<released, standing, disturbed>>,
           call' = [call EXCEPT ![c] = x], x.at \notin {"open", "writing"},
           \A d \in Calls \ {c} : shared'[d] = shared[d]
    PROVE  StandingInv'
<1>1. \A d \in Calls : call'[d] = IF d = c THEN x ELSE call[d]
  BY DEF TypeOK
<1>2. \A d \in Calls : InTransaction(d)' => d # c
  BY <1>1 DEF InTransaction
<1>3. QED
  BY <1>1, <1>2, StandingQuiet

\* The transaction of publishBatch begins.
LEMMA StandingBegin ==
    ASSUME TypeOK, StandingInv, NEW c \in Calls, Begin(c)
    PROVE  StandingInv'
<1> DEFINE mine == Roster[call[c].batch]
           Common(d) == IF InTransaction(d) THEN mine \cap Roster[call[d].batch] ELSE {}
           began == [call[c] EXCEPT !.at = "open", !.todo = mine]
<1>1. call' = [call EXCEPT ![c] = began] /\ call[c] \in Call /\ call \in [Calls -> Call]
  BY DEF Begin, TypeOK
<1>2. began.at = "open" /\ began.todo = mine /\ began.batch = call[c].batch
  BY <1>1 DEF Call
<1> HIDE DEF began
<1>3. call'[c] = began /\ \A d \in Calls : d # c => call'[d] = call[d]
  BY <1>1
<1>4. \A d \in Calls : d # c => (InTransaction(d)' <=> InTransaction(d))
  BY <1>3 DEF InTransaction
<1>5. InTransaction(c)' /\ ~InTransaction(c)
  BY <1>2, <1>3 DEF InTransaction, Begin
<1>6. \A d \in Calls : InTransaction(d) => call[d].batch # call[c].batch
  BY DEF Begin, Locked
<1>7. \A e \in Students : Results(e)' = Results(e)
  BY DEF Begin, Results
<1>8. shared' = [d \in Calls |-> IF d = c THEN UNION {Common(x) : x \in Calls}
                                ELSE shared[d] \cup Common(d)]
  BY DEF Begin
<1>9. BatchesApart'
  BY <1>2, <1>3, <1>4, <1>5, <1>6 DEF StandingInv, BatchesApart
<1>10. OverlapNoted'
  <2> SUFFICES ASSUME NEW d \in Calls, NEW f \in Calls, d # f,
                      InTransaction(d)', InTransaction(f)'
               PROVE  Roster[call'[d].batch] \cap Roster[call'[f].batch] \subseteq shared'[d]
    BY DEF OverlapNoted
  <2>1. CASE d = c
    <3>1. InTransaction(f) /\ call'[f] = call[f]
      BY <1>3, <1>4, <2>1
    <3>2. shared'[d] = UNION {Common(x) : x \in Calls} /\ Common(f) \subseteq shared'[d]
      BY <1>8, <2>1
    <3>3. QED
      BY <1>2, <1>3, <2>1, <3>1, <3>2
  <2>2. CASE f = c
    <3>1. InTransaction(d) /\ call'[d] = call[d]
      BY <1>3, <1>4, <2>2
    <3>2. Common(d) \subseteq shared'[d]
      BY <1>8, <2>2
    <3>3. QED
      BY <1>2, <1>3, <2>2, <3>1, <3>2
  <2>3. CASE d # c /\ f # c
    <3>1. InTransaction(d) /\ InTransaction(f) /\ call'[d] = call[d] /\ call'[f] = call[f]
      BY <1>3, <1>4, <2>3
    <3>2. shared[d] \subseteq shared'[d]
      BY <1>8, <2>3
    <3>3. QED
      BY <3>1, <3>2 DEF StandingInv, OverlapNoted
  <2>4. QED
    BY <2>1, <2>2, <2>3
<1>11. TallyExact'
  <2>1. \A e \in Students : ~Tallied(c, e)'
    BY <1>2, <1>3 DEF Tallied
  <2>2. \A d \in Calls, e \in Students : d # c /\ Tallied(d, e)' => Tallied(d, e)
    BY <1>3, <1>4 DEF Tallied
  <2>3. \A d \in Calls : d # c => shared[d] \subseteq shared'[d]
    BY <1>8
  <2>4. QED
    BY <1>3, <1>7, <2>1, <2>2, <2>3 DEF StandingInv, TallyExact
<1>12. StandingNeverAhead' /\ StandingExact'
  BY <1>7 DEF Begin, StandingInv, StandingNeverAhead, StandingExact
<1>13. QED
  BY <1>9, <1>10, <1>11, <1>12 DEF StandingInv

\* It reads a student's published records ...
LEMMA StandingTally ==
    ASSUME TypeOK, StandingInv, NEW c \in Calls, NEW e \in Students, Tally(c, e)
    PROVE  StandingInv'
<1> DEFINE told == [call[c].tally EXCEPT ![e] = Visible(c, e)]
           y == [call[c] EXCEPT !.at = "writing", !.student = e, !.tally = told]
<1>1. call' = [call EXCEPT ![c] = y] /\ call[c] \in Call /\ call \in [Calls -> Call]
  BY DEF Tally, TypeOK
<1>2. told[e] = Visible(c, e) /\ \A f \in Students : f # e => told[f] = call[c].tally[f]
  BY <1>1 DEF Call
<1>3. /\ y.at = "writing" /\ y.student = e /\ y.tally = told
      /\ y.batch = call[c].batch /\ y.todo = call[c].todo
  <2> HIDE DEF told
  <2>1. QED
    BY <1>1 DEF Call
<1> HIDE DEF told, y
<1>4. call'[c] = y /\ \A d \in Calls : d # c => call'[d] = call[d]
  BY <1>1
<1>5. \A d \in Calls : InTransaction(d)' <=> InTransaction(d)
  BY <1>3, <1>4 DEF InTransaction, Tally
<1>6. \A d \in Calls : call'[d].batch = call[d].batch
  BY <1>3, <1>4
<1>7. InTransaction(c) /\ e \in call[c].todo /\ e \in Roster[call[c].batch]
  BY DEF Tally, InTransaction, StandingInv, BatchesApart
<1>8. \A f \in Students : Results(f)' = Results(f)
  BY DEF Tally, Results
<1>9. shared' = shared
  BY DEF Tally
<1>10. BatchesApart'
  BY <1>3, <1>4, <1>5, <1>6, <1>7 DEF StandingInv, BatchesApart
<1>11. OverlapNoted'
  BY <1>5, <1>6, <1>9 DEF StandingInv, OverlapNoted
<1>12. TallyExact'
  <2>1. Visible(c, e) = Results(e) \cup {call[c].batch}
    <3>1. call[c].batch \in Batches /\ released \subseteq Batches
      BY DEF TypeOK, Tally
    <3>2. QED
      BY <1>7, <3>1 DEF Visible, Results
  <2>2. \A d \in Calls, f \in Students :
           Tallied(d, f)' => (d = c /\ f = e)
                             \/ (Tallied(d, f) /\ call'[d].tally[f] = call[d].tally[f])
    BY <1>2, <1>3, <1>4, <1>5 DEF Tallied, Tally
  <2>3. call'[c].tally[e] = Results(e) \cup {call[c].batch}
    BY <1>2, <1>3, <1>4, <2>1
  <2>4. QED
    BY <1>6, <1>8, <1>9, <2>2, <2>3 DEF StandingInv, TallyExact
<1>13. StandingNeverAhead' /\ StandingExact'
  BY <1>8 DEF Tally, StandingInv, StandingNeverAhead, StandingExact
<1>14. QED
  BY <1>10, <1>11, <1>12, <1>13 DEF StandingInv

\* ... and writes the standing.
LEMMA StandingUpsert ==
    ASSUME TypeOK, StandingInv, NEW c \in Calls, Upsert(c)
    PROVE  StandingInv'
<1> DEFINE left == call[c].todo \ {call[c].student}
           done == [call[c] EXCEPT !.at = "open", !.student = NoStudent, !.todo = left]
<1>1. call' = [call EXCEPT ![c] = done] /\ call[c] \in Call /\ call \in [Calls -> Call]
  BY DEF Upsert, TypeOK
<1>2. /\ done.at = "open" /\ done.todo = left /\ done.tally = call[c].tally
      /\ done.batch = call[c].batch
  BY <1>1 DEF Call
<1> HIDE DEF done
<1>3. call'[c] = done /\ \A d \in Calls : d # c => call'[d] = call[d]
  BY <1>1
<1>4. \A d \in Calls : InTransaction(d)' <=> InTransaction(d)
  BY <1>2, <1>3 DEF InTransaction, Upsert
<1>5. \A d \in Calls : call'[d].batch = call[d].batch /\ call'[d].tally = call[d].tally
  BY <1>2, <1>3
<1>6. \A f \in Students : Results(f)' = Results(f)
  BY DEF Upsert, Results
<1>7. shared' = shared
  BY DEF Upsert
<1>8. BatchesApart'
  BY <1>2, <1>3, <1>4, <1>5 DEF StandingInv, BatchesApart
<1>9. OverlapNoted'
  BY <1>4, <1>5, <1>7 DEF StandingInv, OverlapNoted
<1>10. TallyExact'
  <2>1. \A d \in Calls, f \in Students : Tallied(d, f)' => Tallied(d, f)
    BY <1>2, <1>3, <1>4 DEF Tallied, Upsert
  <2>2. QED
    BY <1>5, <1>6, <1>7, <2>1 DEF StandingInv, TallyExact
<1>11. StandingNeverAhead' /\ StandingExact'
  BY <1>6 DEF Upsert, StandingInv, StandingNeverAhead, StandingExact
<1>12. QED
  BY <1>8, <1>9, <1>10, <1>11 DEF StandingInv

\* The commit: the tallies become the standings.  Another transaction with
\* records of such a student has it noted.
LEMMA StandingCommit ==
    ASSUME TypeOK, StandingInv, NEW c \in Calls, Commit(c)
    PROVE  StandingInv'
<1> DEFINE b == call[c].batch
<1>1. b \in Batches /\ InTransaction(c) /\ call[c].todo = {}
  BY DEF Commit, TypeOK, InTransaction
<1>2. /\ released' = released \cup {b}
      /\ standing' = [e \in Students |-> IF e \in Roster[b] THEN call[c].tally[e]
                                         ELSE standing[e]]
      /\ disturbed' = (disturbed \ Roster[b]) \cup shared[c]
  BY DEF Commit
<1>3. \A d \in Calls : call'[d] = IF d = c THEN NoCall ELSE call[d]
  BY DEF Commit, TypeOK
<1>4. \A d \in Calls : d # c => shared'[d] = shared[d]
  BY DEF Commit, TypeOK
<1>5. \A d \in Calls : InTransaction(d)' => d # c /\ InTransaction(d)
  BY <1>3 DEF InTransaction, NoCall
<1> HIDE DEF b
<1>6. \A e \in Students : Results(e)' = IF e \in Roster[b] THEN Results(e) \cup {b}
                                        ELSE Results(e)
  BY <1>2 DEF Results
<1>7. \A e \in Students : e \in Roster[b] => Tallied(c, e)
  BY <1>1 DEF Tallied, b
<1>8. BatchesApart'
  BY <1>3, <1>5 DEF StandingInv, BatchesApart
<1>9. OverlapNoted'
  BY <1>3, <1>4, <1>5 DEF StandingInv, OverlapNoted
<1>10. TallyExact'
  <2> SUFFICES ASSUME NEW d \in Calls, NEW e \in Students, Tallied(d, e)'
               PROVE  /\ call'[d].tally[e] \subseteq Results(e)' \cup {call'[d].batch}
                      /\ e \notin shared'[d] =>
                            call'[d].tally[e] = Results(e)' \cup {call'[d].batch}
    BY DEF TallyExact
  <2>1. d # c /\ InTransaction(d) /\ call'[d] = call[d] /\ shared'[d] = shared[d]
    BY <1>3, <1>4, <1>5 DEF Tallied
  <2>2. Tallied(d, e) /\ e \in Roster[call[d].batch]
    BY <2>1 DEF Tallied
  <2>3. e \notin shared[d] => e \notin Roster[b]
    BY <1>1, <2>1, <2>2 DEF StandingInv, OverlapNoted, b
  <2>4. QED
    BY <1>6, <2>1, <2>2, <2>3 DEF StandingInv, TallyExact
<1>11. ASSUME NEW e \in Students
       PROVE  /\ standing'[e] \subseteq Results(e)'
              /\ e \notin disturbed' => standing'[e] = Results(e)'
  <2>1. CASE e \in Roster[b]
    <3>1. /\ call[c].tally[e] \subseteq Results(e) \cup {b}
          /\ e \notin shared[c] => call[c].tally[e] = Results(e) \cup {b}
      BY <1>7, <2>1 DEF StandingInv, TallyExact, b
    <3>2. QED
      BY <1>2, <1>6, <2>1, <3>1
  <2>2. CASE e \notin Roster[b]
    BY <1>2, <1>6, <2>2 DEF StandingInv, StandingNeverAhead, StandingExact
  <2>3. QED
    BY <2>1, <2>2
<1>12. StandingNeverAhead' /\ StandingExact'
  BY <1>11 DEF StandingNeverAhead, StandingExact
<1>13. QED
  BY <1>8, <1>9, <1>10, <1>12 DEF StandingInv

LEMMA StandingKept ==
    ASSUME TypeOK, StandingInv, [Next]_vars
    PROVE  StandingInv'
<1> DEFINE told == <<released, standing, disturbed, call, shared>>
<1>1. ASSUME UNCHANGED told PROVE StandingInv'
  BY <1>1, StandingQuiet
<1>2. ASSUME UNCHANGED vars \/ UNCHANGED batchVars PROVE StandingInv'
  BY <1>1, <1>2 DEF vars, batchVars
<1>3. NoCall.at = "idle"
  BY DEF NoCall
<1>4. ASSUME NEW c \in Calls, NEW b \in Batches, CheckUpload(c, b) PROVE StandingInv'
  <2> DEFINE x == [NoCall EXCEPT !.at = "upload", !.batch = b, !.seals = seals]
  <2>1. call' = [call EXCEPT ![c] = x]
        /\ UNCHANGED <<released, standing, disturbed, shared>>
    BY <1>4 DEF CheckUpload
  <2>2. x.at = "upload"
    BY DEF NoCall
  <2> HIDE DEF x
  <2>3. QED
    BY <2>1, <2>2, StandingOutside
<1>5. ASSUME NEW c \in Calls, NEW b \in Batches, CheckPublish(c, b) PROVE StandingInv'
  <2> DEFINE x == [NoCall EXCEPT !.at = "signing", !.batch = b, !.seen = batch[b]]
  <2>1. call' = [call EXCEPT ![c] = x]
        /\ UNCHANGED <<released, standing, disturbed, shared>>
    BY <1>5 DEF CheckPublish
  <2>2. x.at = "signing"
    BY DEF NoCall
  <2> HIDE DEF x
  <2>3. QED
    BY <2>1, <2>2, StandingOutside
<1>6. ASSUME NEW c \in Calls, CreateBatch(c) \/ Abandon(c) PROVE StandingInv'
  <2>1. call' = [call EXCEPT ![c] = NoCall] /\ UNCHANGED <<released, standing, disturbed>>
    BY <1>6 DEF CreateBatch, Abandon
  <2>2. \A d \in Calls \ {c} : shared'[d] = shared[d]
    BY <1>6 DEF CreateBatch, Abandon, TypeOK
  <2>3. QED
    BY <1>3, <2>1, <2>2, StandingOutside
<1>7. ASSUME NEW c \in Calls, PublishStep(c) PROVE StandingInv'
  BY <1>5, <1>7, StandingBegin, StandingTally, StandingUpsert, StandingCommit
     DEF PublishStep
<1>8. ASSUME NEW b \in Batches, RejectBatch(b) \/ \E s \in BatchStatus : Transition(b, s)
      PROVE  StandingInv'
  BY <1>1, <1>8 DEF RejectBatch, Transition
<1>9. QED
  BY <1>2, <1>4, <1>6, <1>7, <1>8 DEF Next, BatchStatus

LEMMA StandingAlways == Spec => []StandingInv
<1>1. Init => StandingInv
  <2> SUFFICES ASSUME Init PROVE StandingInv
    OBVIOUS
  <2>1. \A c \in Calls : ~InTransaction(c)
    BY DEF Init, InTransaction, NoCall
  <2>2. \A e \in Students : standing[e] = {} /\ Results(e) = {}
    BY DEF Init, Results
  <2>3. QED
    BY <2>1, <2>2 DEF StandingInv, BatchesApart, OverlapNoted, TallyExact, Tallied,
                      StandingNeverAhead, StandingExact
<1>2. TypeOK /\ StandingInv /\ [Next]_vars => StandingInv'
  BY StandingKept
<1>3. QED
  BY <1>1, <1>2, TypeCorrect, PTL DEF Spec

\* recomputeAcademicStanding leaves a standing that counts just what is published,
\* for a student whose last publication overlapped with no other of hers.
THEOREM StandingIsExact == Spec => []StandingExact
<1>1. StandingInv => StandingExact
  BY DEF StandingInv
<1>2. QED
  BY <1>1, StandingAlways, PTL

\* No standing counts a record of a batch that is not published, whatever
\* publications of publishBatch overlap.
THEOREM StandingIsNeverAhead == Spec => []StandingNeverAhead
<1>1. StandingInv => StandingNeverAhead
  BY DEF StandingInv
<1>2. QED
  BY <1>1, StandingAlways, PTL

-----------------------------------------------------------------------------
(* Sealed sessions. *)

\* A call past the check of ingestResults made it before the last sealing, if the
\* session is sealed now.
UploadBeforeSeal ==
    \A c \in Calls : call[c].at = "upload" =>
        /\ call[c].seals <= seals
        /\ session = "SEALED" => call[c].seals < seals

LEMMA UploadKept ==
    ASSUME TypeOK, UploadBeforeSeal, [Next]_vars
    PROVE  UploadBeforeSeal'
<1> USE DEF UploadBeforeSeal
<1>1. seals \in Nat /\ call \in [Calls -> Call] /\ \A c \in Calls : call[c].seals \in Nat
  BY AcademicSessionAssumption DEF TypeOK, SessionTypeOK, Call
<1>2. ASSUME UNCHANGED sessionVars,
             \A c \in Calls : call'[c] = call[c] \/ call'[c].at # "upload"
      PROVE  UploadBeforeSeal'
  BY <1>2 DEF sessionVars
<1>3. ASSUME UNCHANGED vars \/ (UNCHANGED sessionVars /\ UNCHANGED call)
      PROVE  UploadBeforeSeal'
  BY <1>3 DEF vars, sessionVars, batchVars
<1>4. ASSUME NEW s \in SessionStatus, UpdateSession(s), UNCHANGED batchVars
      PROVE  UploadBeforeSeal'
  BY <1>1, <1>4 DEF UpdateSession, batchVars, SessionStatus
<1>5. ASSUME NEW c \in Calls, SessionStep(c), UNCHANGED batchVars
      PROVE  UploadBeforeSeal'
  <2>1. seals' = seals /\ (session' = session \/ session' = "OPEN") /\ call' = call
    BY <1>5 DEF SessionStep, ReadForRequest, CreateRequest, ReadForReview, Approve, Reject,
                AbandonDesk, batchVars
  <2>2. QED
    BY <2>1
<1>6. ASSUME NEW c \in Calls, NEW b \in Batches, CheckUpload(c, b)
      PROVE  UploadBeforeSeal'
  <2> DEFINE x == [NoCall EXCEPT !.at = "upload", !.batch = b, !.seals = seals]
  <2>1. call' = [call EXCEPT ![c] = x] /\ session # "SEALED" /\ UNCHANGED sessionVars
    BY <1>6 DEF CheckUpload
  <2>2. x.seals = seals
    BY DEF NoCall
  <2> HIDE DEF x
  <2>3. \A d \in Calls : call'[d] = IF d = c THEN x ELSE call[d]
    BY <1>1, <2>1
  <2>4. QED
    BY <1>1, <2>1, <2>2, <2>3 DEF sessionVars
<1>7. ASSUME NEW c \in Calls, CreateBatch(c) \/ Abandon(c) \/ Commit(c)
      PROVE  UploadBeforeSeal'
  <2>1. call' = [call EXCEPT ![c] = NoCall] /\ UNCHANGED sessionVars
    BY <1>7 DEF CreateBatch, Abandon, Commit
  <2>2. NoCall.at = "idle"
    BY DEF NoCall
  <2>3. \A d \in Calls : call'[d] = IF d = c THEN NoCall ELSE call[d]
    BY <1>1, <2>1
  <2>4. QED
    BY <1>2, <2>1, <2>2, <2>3
<1>8. ASSUME NEW c \in Calls, NEW b \in Batches, CheckPublish(c, b)
      PROVE  UploadBeforeSeal'
  <2> DEFINE x == [NoCall EXCEPT !.at = "signing", !.batch = b, !.seen = batch[b]]
  <2>1. call' = [call EXCEPT ![c] = x] /\ UNCHANGED sessionVars
    BY <1>8 DEF CheckPublish
  <2>2. x.at = "signing"
    BY DEF NoCall
  <2> HIDE DEF x
  <2>3. \A d \in Calls : call'[d] = IF d = c THEN x ELSE call[d]
    BY <1>1, <2>1
  <2>4. QED
    BY <1>2, <2>1, <2>2, <2>3
<1>9. ASSUME NEW c \in Calls, Begin(c) PROVE UploadBeforeSeal'
  <2> DEFINE began == [call[c] EXCEPT !.at = "open", !.todo = Roster[call[c].batch]]
  <2>1. call' = [call EXCEPT ![c] = began] /\ UNCHANGED sessionVars
    BY <1>9 DEF Begin
  <2>2. began.at = "open"
    BY <1>1 DEF Call
  <2> HIDE DEF began
  <2>3. \A d \in Calls : call'[d] = IF d = c THEN began ELSE call[d]
    BY <1>1, <2>1
  <2>4. QED
    BY <1>2, <2>1, <2>2, <2>3
<1>10. ASSUME NEW c \in Calls, NEW e \in Students, Tally(c, e) PROVE UploadBeforeSeal'
  <2> DEFINE told == [call[c].tally EXCEPT ![e] = Visible(c, e)]
             y == [call[c] EXCEPT !.at = "writing", !.student = e, !.tally = told]
  <2>1. call' = [call EXCEPT ![c] = y] /\ UNCHANGED sessionVars
    BY <1>10 DEF Tally
  <2> HIDE DEF told
  <2>2. y.at = "writing"
    BY <1>1 DEF Call
  <2> HIDE DEF y
  <2>3. \A d \in Calls : call'[d] = IF d = c THEN y ELSE call[d]
    BY <1>1, <2>1
  <2>4. QED
    BY <1>2, <2>1, <2>2, <2>3
<1>11. ASSUME NEW c \in Calls, Upsert(c) PROVE UploadBeforeSeal'
  <2> DEFINE left == call[c].todo \ {call[c].student}
             done == [call[c] EXCEPT !.at = "open", !.student = NoStudent, !.todo = left]
  <2>1. call' = [call EXCEPT ![c] = done] /\ UNCHANGED sessionVars
    BY <1>11 DEF Upsert
  <2>2. done.at = "open"
    BY <1>1 DEF Call
  <2> HIDE DEF done
  <2>3. \A d \in Calls : call'[d] = IF d = c THEN done ELSE call[d]
    BY <1>1, <2>1
  <2>4. QED
    BY <1>2, <2>1, <2>2, <2>3
<1>12. ASSUME NEW b \in Batches, RejectBatch(b) \/ \E s \in BatchStatus : Transition(b, s)
       PROVE  UploadBeforeSeal'
  BY <1>3, <1>12 DEF RejectBatch, Transition
<1>13. QED
  BY <1>3, <1>4, <1>5, <1>6, <1>7, <1>8, <1>9, <1>10, <1>11, <1>12
     DEF Next, PublishStep, BatchStatus

\* ingestResults creates no batch in a sealed session, but for a call that had
\* passed its check when the session was sealed.
THEOREM SealIsHeld == Spec => SealHolds
<1>1. Init => UploadBeforeSeal
  BY DEF Init, UploadBeforeSeal, NoCall
<1>2. TypeOK /\ UploadBeforeSeal /\ [Next]_vars => UploadBeforeSeal'
  BY UploadKept
<1>3. UploadBeforeSeal =>
        \A c \in Calls : session = "SEALED" /\ CreateBatch(c) => call[c].seals < seals
  BY DEF UploadBeforeSeal, CreateBatch
<1>4. QED
  BY <1>1, <1>2, <1>3, TypeCorrect, PTL DEF Spec, SealHolds
=============================================================================

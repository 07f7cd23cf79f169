---------------------------- MODULE ResultBatch ----------------------------
(***************************************************************************)
(* The result batches of one academic session, from ingestResults through  *)
(* the steps of transitionBatch and rejectBatch to publishBatch, with the  *)
(* credentials issued and the academic standings recomputed on the way.    *)
(*                                                                         *)
(* ingestResults and publishBatch check first (the session is not sealed;  *)
(* the batch is APPROVED) and write in a transaction later.  That of       *)
(* publishBatch tallies and writes one standing after the other, at READ   *)
(* COMMITTED: it sees what is committed and what it wrote itself, and      *)
(* waits for rows that another transaction has written.                    *)
(***************************************************************************)
EXTENDS AcademicSession

CONSTANTS
    Students,       \* enrolments
    Batches,        \* result batches that may be uploaded
    Roster,         \* Roster[b]: the students with a graded record in b
    NoStudent,      \* the student of a publication that tallies none
    NoBatch,        \* the batch of a call that works on none
    MaxApprovals    \* bound: MaxApprovals[b], approvals of b

ASSUME ResultBatchAssumption ==
    /\ Roster \in [Batches -> SUBSET Students]
    /\ NoStudent \notin Students
    /\ NoBatch \notin Batches
    /\ MaxApprovals \in [Batches -> Nat]

VARIABLES
    batch,          \* batch[b]: the status of the ResultBatch
    released,       \* the batches whose records are PUBLISHED
    standing,       \* standing[e]: the batches whose records it counts
    credentials,    \* credentials[b]: how often the credentials of b were issued
    call,           \* call[c]: where c is in ingestResults or publishBatch
    approvals,      \* approvals[b]: how often b was approved so far
    unapproved,     \* history: unapproved[b], publications over a status not read
    shared,         \* history: shared[c], students of c's transaction that an
                    \* overlapping one publishes results of as well
    disturbed       \* history: students whose last publication was such a one

batchVars == <<batch, released, standing, credentials, call, approvals, unapproved,
               shared, disturbed>>

vars == <<sessionVars, batchVars>>

-----------------------------------------------------------------------------
\* "IN_REVIEW" stands for SUBMITTED and REVIEWED: transitionBatch sets them and
\* nothing asks for them.  The other statuses of the schema no code sets here.
BatchStatus == {"ABSENT", "DRAFT", "IN_REVIEW", "APPROVED", "PUBLISHED"}

\* "upload": between the checks of ingestResults and its transaction; "signing":
\* between the check of publishBatch and its transaction; in the latter, "open":
\* before the next student, "writing": before the upsert of student's standing.
Call == [at : {"idle", "upload", "signing", "open", "writing"},
         batch : Batches \cup {NoBatch}, seen : BatchStatus, seals : Nat,
         student : Students \cup {NoStudent}, todo : SUBSET Students,
         tally : [Students -> SUBSET Batches]]

NoCall == [at |-> "idle", batch |-> NoBatch, seen |-> "ABSENT", seals |-> 0,
           student |-> NoStudent, todo |-> {}, tally |-> [e \in Students |-> {}]]

TypeOK ==
    /\ SessionTypeOK
    /\ batch \in [Batches -> BatchStatus]
    /\ released \subseteq Batches
    /\ standing \in [Students -> SUBSET Batches]
    /\ credentials \in [Batches -> Nat]
    /\ call \in [Calls -> Call]
    /\ \A c \in Calls : call[c].at # "idle" => call[c].batch \in Batches
    /\ approvals \in [Batches -> Nat]
    /\ \A b \in Batches : approvals[b] <= MaxApprovals[b]
    /\ unapproved \in [Batches -> Nat]
    /\ shared \in [Calls -> SUBSET Students]
    /\ disturbed \subseteq Students

Init ==
    /\ SessionInit
    /\ batch = [b \in Batches |-> "ABSENT"]
    /\ released = {}
    /\ standing = [e \in Students |-> {}]
    /\ credentials = [b \in Batches |-> 0]
    /\ call = [c \in Calls |-> NoCall]
    /\ approvals = [b \in Batches |-> 0]
    /\ unapproved = [b \in Batches |-> 0]
    /\ shared = [c \in Calls |-> {}]
    /\ disturbed = {}

-----------------------------------------------------------------------------
Idle(c) == call[c].at = "idle" /\ desk[c].does = "nothing"

InTransaction(c) == call[c].at \in {"open", "writing"}

\* An open publication has updated its batch and holds the row.
Locked(b) == \E c \in Calls : InTransaction(c) /\ call[c].batch = b

Written(c) == Roster[call[c].batch] \ call[c].todo

\* Mutant of CheckUpload: the status of the session is not looked at.
CheckUploadScopeOnly(c, b) ==
    /\ Idle(c) /\ batch[b] = "ABSENT"
    /\ call' = [call EXCEPT ![c] = [NoCall EXCEPT !.at = "upload", !.batch = b,
                                                  !.seals = seals]]
    /\ UNCHANGED <<sessionVars, batch, released, standing, credentials, approvals,
                   unapproved, shared, disturbed>>

\* ingestResults, by a request or by a worker's job: assertBatchScopeBelongs-
\* ToInstitution refuses a sealed session, before the enrolments are read and
\* the rows are graded.
CheckUpload(c, b) ==
    /\ Idle(c) /\ batch[b] = "ABSENT"
    /\ session # "SEALED"
    /\ call' = [call EXCEPT ![c] = [NoCall EXCEPT !.at = "upload", !.batch = b,
                                                  !.seals = seals]]
    /\ UNCHANGED <<sessionVars, batch, released, standing, credentials, approvals,
                   unapproved, shared, disturbed>>

\* The transaction of ingestResults: the batch and its records, all DRAFT.
CreateBatch(c) ==
    /\ call[c].at = "upload"
    /\ batch[call[c].batch] = "ABSENT"
    /\ batch' = [batch EXCEPT ![call[c].batch] = "DRAFT"]
    /\ call' = [call EXCEPT ![c] = NoCall]
    /\ UNCHANGED <<sessionVars, released, standing, credentials, approvals, unapproved,
                   shared, disturbed>>

\* transitionBatch: review or approval, from any status whatever.
Transition(b, s) ==
    /\ batch[b] # "ABSENT" /\ ~Locked(b)
    /\ s = "APPROVED" => approvals[b] < MaxApprovals[b]
    /\ batch' = [batch EXCEPT ![b] = s]
    /\ approvals' = [approvals EXCEPT ![b] = IF s = "APPROVED" THEN @ + 1 ELSE @]
    /\ UNCHANGED <<sessionVars, released, standing, credentials, call, unapproved,
                   shared, disturbed>>

\* rejectBatch: DRAFT, from any status as well.
RejectBatch(b) ==
    /\ batch[b] # "ABSENT" /\ ~Locked(b)
    /\ batch' = [batch EXCEPT ![b] = "DRAFT"]
    /\ UNCHANGED <<sessionVars, released, standing, credentials, call, approvals,
                   unapproved, shared, disturbed>>

-----------------------------------------------------------------------------
\* Mutant of CheckPublish: a batch may be published once it is reviewed.
CheckPublishReviewed(c, b) ==
    /\ Idle(c)
    /\ batch[b] \in {"IN_REVIEW", "APPROVED"}
    /\ call' = [call EXCEPT ![c] = [NoCall EXCEPT !.at = "signing", !.batch = b,
                                                  !.seen = batch[b]]]
    /\ UNCHANGED <<sessionVars, batch, released, standing, credentials, approvals,
                   unapproved, shared, disturbed>>

\* publishBatch, up to its check; the signing of the credentials follows.
CheckPublish(c, b) ==
    /\ Idle(c)
    /\ batch[b] = "APPROVED"
    /\ call' = [call EXCEPT ![c] = [NoCall EXCEPT !.at = "signing", !.batch = b,
                                                  !.seen = batch[b]]]
    /\ UNCHANGED <<sessionVars, batch, released, standing, credentials, approvals,
                   unapproved, shared, disturbed>>

\* Its transaction updates the batch, unless another transaction has: then it
\* waits for that one's end.  The new statuses are its own until the commit.
Begin(c) ==
    /\ call[c].at = "signing"
    /\ ~Locked(call[c].batch)
    /\ LET mine == Roster[call[c].batch]
           Common(d) == IF InTransaction(d) THEN mine \cap Roster[call[d].batch] ELSE {}
       IN  /\ call' = [call EXCEPT ![c] = [@ EXCEPT !.at = "open", !.todo = mine]]
           /\ shared' = [d \in Calls |-> IF d = c THEN UNION {Common(x) : x \in Calls}
                                         ELSE shared[d] \cup Common(d)]
    /\ UNCHANGED <<sessionVars, batch, released, standing, credentials, approvals,
                   unapproved, disturbed>>

\* Mutants of Visible: the records of open transactions are seen too; its own
\* records are not PUBLISHED yet.
VisibleDirty(c, e) ==
    {b \in Batches : e \in Roster[b] /\ (b \in released \/ Locked(b))}

VisibleCommitted(c, e) == {b \in Batches : e \in Roster[b] /\ b \in released}

\* The PUBLISHED records of a student, as the transaction of c sees them; those
\* of one grading engine, as the roll-up of a standing keeps to one.
Visible(c, e) ==
    {b \in Batches : e \in Roster[b] /\ (b \in released \/ b = call[c].batch)}

\* recomputeAcademicStanding: the findMany of the student's records ...
Tally(c, e) ==
    /\ call[c].at = "open" /\ e \in call[c].todo
    /\ LET told == [call[c].tally EXCEPT ![e] = Visible(c, e)] IN
       call' = [call EXCEPT ![c] = [@ EXCEPT !.at = "writing", !.student = e,
                                             !.tally = told]]
    /\ UNCHANGED <<sessionVars, batch, released, standing, credentials, approvals,
                   unapproved, shared, disturbed>>

\* ... and the upsert of the standing, which waits for a row written by another
\* open transaction.
Upsert(c) ==
    /\ call[c].at = "writing"
    /\ \A d \in Calls \ {c} : InTransaction(d) => call[c].student \notin Written(d)
    /\ LET left == call[c].todo \ {call[c].student} IN
       call' = [call EXCEPT ![c] = [@ EXCEPT !.at = "open", !.student = NoStudent,
                                             !.todo = left]]
    /\ UNCHANGED <<sessionVars, batch, released, standing, credentials, approvals,
                   unapproved, shared, disturbed>>

\* The commit: the batch, its records, their credentials and the standings.
Commit(c) ==
    /\ call[c].at = "open" /\ call[c].todo = {}
    /\ LET b == call[c].batch IN
       /\ batch' = [batch EXCEPT ![b] = "PUBLISHED"]
       /\ released' = released \cup {b}
       /\ credentials' = [credentials EXCEPT ![b] = @ + 1]
       /\ standing' = [e \in Students |-> IF e \in Roster[b] THEN call[c].tally[e]
                                          ELSE standing[e]]
       /\ unapproved' = [unapproved EXCEPT ![b] = IF batch[b] = call[c].seen THEN @ ELSE @ + 1]
       /\ disturbed' = (disturbed \ Roster[b]) \cup shared[c]
    /\ call' = [call EXCEPT ![c] = NoCall]
    /\ shared' = [shared EXCEPT ![c] = {}]
    /\ UNCHANGED <<sessionVars, approvals>>

\* The process ends, the transaction runs into its timeout, or the database ends
\* it as one of a deadlock: nothing of it stays.
Abandon(c) ==
    /\ call[c].at # "idle"
    /\ call' = [call EXCEPT ![c] = NoCall]
    /\ shared' = [shared EXCEPT ![c] = {}]
    /\ UNCHANGED <<sessionVars, batch, released, standing, credentials, approvals,
                   unapproved, disturbed>>

-----------------------------------------------------------------------------
PublishStep(c) ==
    \/ \E b \in Batches : CheckPublish(c, b)
    \/ Begin(c)
    \/ \E e \in Students : Tally(c, e)
    \/ Upsert(c)
    \/ Commit(c)

Next ==
    \/ \E s \in SessionStatus : UpdateSession(s) /\ UNCHANGED batchVars
    \/ \E c \in Calls :
          \/ call[c].at = "idle" /\ SessionStep(c) /\ UNCHANGED batchVars
          \/ \E b \in Batches : CheckUpload(c, b)
          \/ CreateBatch(c)
          \/ PublishStep(c)
          \/ Abandon(c)
    \/ \E b \in Batches :
          \/ \E s \in {"IN_REVIEW", "APPROVED"} : Transition(b, s)
          \/ RejectBatch(b)

Spec == Init /\ [][Next]_vars

-----------------------------------------------------------------------------
\* The PUBLISHED records of a student.
Results(e) == {b \in released : e \in Roster[b]}

\* The academic standing of a student counts exactly the published records, but
\* where two publications with records of the student overlapped: each tallies
\* without the other's and the later upsert wins.  The next publication of the
\* student that overlaps with none repairs it.
StandingExact == \A e \in Students : e \notin disturbed => standing[e] = Results(e)

\* It never counts a record that is not published, overlap or not.
StandingNeverAhead == \A e \in Students : standing[e] \subseteq Results(e)

\* Every issue of a batch's credentials rests on an approval of its own, or the
\* batch lost its approval between the check and the transaction of publishBatch.
IssuesApproved ==
    \A b \in Batches : credentials[b] <= approvals[b] + unapproved[b]

\* A batch enters a sealed session only with a call of ingestResults that was
\* past its check when the session was sealed.
SealHolds ==
    [][\A c \in Calls :
          session = "SEALED" /\ CreateBatch(c) => call[c].seals < seals]_vars
=============================================================================

------------------------------ MODULE Enrolment ------------------------------
(***************************************************************************)
(* The enrolments of one student number at one institution: registered by  *)
(* IngestionService.ingestStudents, rolled over into the next session or   *)
(* transferred out by GovernanceService, and the disputes over these       *)
(* decisions.                                                              *)
(*                                                                         *)
(* Every handler checks what it read before its transaction and updates    *)
(* rows by uuid inside it; the completion of a transfer reads the enrolment*)
(* again inside, without a lock.  The variable overlaps counts the commits *)
(* over rows that had changed since.  One constraint of the schema stands  *)
(* in their way: (institutionId, studentNumber, status) is unique.         *)
(***************************************************************************)
EXTENDS Naturals, Sequences, FiniteSets

CONSTANTS
    Calls,          \* API calls in flight at once
    MaxEnrolments,  \* bounds: rows of each table
    MaxRollovers,
    MaxTransfers,
    MaxDisputes,
    MaxOverlaps     \* bound: commits over changed rows

ASSUME EnrolmentAssumption ==
    /\ {MaxEnrolments, MaxRollovers, MaxTransfers, MaxDisputes, MaxOverlaps} \subseteq Nat
    /\ MaxEnrolments > 0

VARIABLES
    enrolments,  \* the tables, a row's index for its uuid and 0 for null
    rollovers,
    transfers,
    disputes,
    call,        \* call[c]: what c is about and what it read
    overlaps     \* history: commits over rows changed since they were read

tables == <<enrolments, rollovers, transfers, disputes>>

vars == <<enrolments, rollovers, transfers, disputes, call, overlaps>>

-----------------------------------------------------------------------------
\* "WITHDRAWN" stands for the decisions that end an enrolment and start no
\* other: GRADUATED, SUSPENDED and SEALED too.
Decision == {"PROMOTED", "REPEATED", "TRANSFERRED_OUT", "WITHDRAWN"}

Renewing == {"PROMOTED", "REPEATED"}

\* placed: academicSessionId is set.
Enrolled == [status : Decision \cup {"ACTIVE"}, placed : BOOLEAN]

RolledOver == [enrolment : 1 .. MaxEnrolments, decision : Decision,
               dispute : 0 .. MaxDisputes]

\* "REJECTED" stands for CANCELLED too: one branch writes both.
TransferStatus == {"REQUESTED", "REJECTED", "COMPLETED", "DISPUTED"}

ClosedTransfer == {"REJECTED", "COMPLETED"}

Transferred == [enrolment : 1 .. MaxEnrolments, status : TransferStatus,
                rollover : 0 .. MaxRollovers, dispute : 0 .. MaxDisputes]

DisputeStatus == {"OPEN", "RESOLVED", "ESCALATED"}

Kinds == {"confirm", "request", "review", "complete", "dispute", "resolve"}

\* row: the enrolment, transfer or rollover the call is about; transfer and
\* dispute: the rows linked to it; status: the one the enrolment or the transfer
\* had.
Call == [kind : Kinds \cup {"none"}, row : Nat, decision : Decision,
         transfer : Nat, status : TransferStatus \cup Decision \cup {"ACTIVE"},
         dispute : Nat]

NoCall == [kind |-> "none", row |-> 0, decision |-> "WITHDRAWN", transfer |-> 0,
           status |-> "REQUESTED", dispute |-> 0]

TypeOK ==
    /\ enrolments \in Seq(Enrolled)
    /\ rollovers \in Seq(RolledOver)
    /\ transfers \in Seq(Transferred)
    /\ disputes \in Seq(DisputeStatus)
    /\ call \in [Calls -> Call]
    /\ overlaps \in 0 .. MaxOverlaps

\* A student not yet registered, or one registered into a session.
Init ==
    /\ enrolments \in {<<>>, <<[status |-> "ACTIVE", placed |-> TRUE]>>}
    /\ rollovers = <<>>
    /\ transfers = <<>>
    /\ disputes = <<>>
    /\ call = [c \in Calls |-> NoCall]
    /\ overlaps = 0

-----------------------------------------------------------------------------
\* @@unique([institutionId, studentNumber, status])
KeyHolds(rows) ==
    \A i, j \in DOMAIN rows : rows[i].status = rows[j].status => i = j

RolloversOf(e) == {r \in DOMAIN rollovers : rollovers[r].enrolment = e}

\* The transfer a rollover belongs to, 0 if it has none: rolloverRecordId is
\* unique.
TransferOf(r) ==
    IF \E t \in DOMAIN transfers : transfers[t].rollover = r
    THEN CHOOSE t \in DOMAIN transfers : transfers[t].rollover = r
    ELSE 0

TransferStatusOf(t) == IF t = 0 THEN "REQUESTED" ELSE transfers[t].status

Begin(c, what) ==
    /\ call[c].kind = "none"
    /\ call' = [call EXCEPT ![c] = what]
    /\ UNCHANGED <<tables, overlaps>>

\* The call ends; current says that what it read still holds.
End(c, current) ==
    /\ call' = [call EXCEPT ![c] = NoCall]
    /\ current \/ overlaps < MaxOverlaps
    /\ overlaps' = IF current THEN overlaps ELSE overlaps + 1

\* A transaction is rolled back (the unique key, a crash), or a call ends in an
\* error before it.
Abandon(c) ==
    /\ call[c].kind # "none"
    /\ call' = [call EXCEPT ![c] = NoCall]
    /\ UNCHANGED <<tables, overlaps>>

-----------------------------------------------------------------------------
\* ingestStudents, in one transaction: a student without an ACTIVE enrolment
\* gets one, in no session.
IngestStudent ==
    /\ Len(enrolments) < MaxEnrolments
    /\ \A e \in DOMAIN enrolments : enrolments[e].status # "ACTIVE"
    /\ enrolments' = Append(enrolments, [status |-> "ACTIVE", placed |-> FALSE])
    /\ UNCHANGED <<rollovers, transfers, disputes, call, overlaps>>

\* Mutant of ConfirmAccepts: an earlier rollover is not looked for, nor the
\* status of the enrolment.
ConfirmAcceptsAny(e) == enrolments[e].placed

\* confirmRollover asks for an ACTIVE enrolment of the session without a
\* rollover from it ...
ConfirmAccepts(e) ==
    /\ enrolments[e].status = "ACTIVE"
    /\ enrolments[e].placed
    /\ RolloversOf(e) = {}

ReadConfirm(c) ==
    \E e \in DOMAIN enrolments, d \in Decision :
        /\ ConfirmAccepts(e)
        /\ Begin(c, [NoCall EXCEPT !.kind = "confirm", !.row = e, !.decision = d,
                                   !.status = enrolments[e].status])

\* ... and, in its transaction, gives the enrolment the decision as its status;
\* a promoted or repeated student is enrolled again, in the target session.
Confirmed(e, d) ==
    [enrolments EXCEPT ![e].status = d]
       \o (IF d \in Renewing THEN <<[status |-> "ACTIVE", placed |-> TRUE]>> ELSE <<>>)

CommitConfirm(c) ==
    /\ call[c].kind = "confirm"
    /\ LET e == call[c].row
           d == call[c].decision
           after == Confirmed(e, d) IN
       /\ Len(after) <= MaxEnrolments /\ Len(rollovers) < MaxRollovers
       /\ KeyHolds(after)
       /\ enrolments' = after
       /\ rollovers' = Append(rollovers, [enrolment |-> e, decision |-> d, dispute |-> 0])
       /\ End(c, enrolments[e].status = call[c].status)
    /\ UNCHANGED <<transfers, disputes>>

-----------------------------------------------------------------------------
ReadRequest(c) ==
    \E e \in DOMAIN enrolments :
        /\ enrolments[e].status = "ACTIVE"
        /\ Begin(c, [NoCall EXCEPT !.kind = "request", !.row = e])

\* createTransferRequest: there may be several for one enrolment.
CommitRequest(c) ==
    /\ call[c].kind = "request"
    /\ Len(transfers) < MaxTransfers
    /\ transfers' = Append(transfers, [enrolment |-> call[c].row, status |-> "REQUESTED",
                                       rollover |-> 0, dispute |-> 0])
    /\ End(c, TRUE)
    /\ UNCHANGED <<enrolments, rollovers, disputes>>

\* reviewTransferRequest refuses a closed transfer; a DISPUTED one is open.
Reviewable(status) == status \notin ClosedTransfer

ReadReview(c) ==
    \E t \in DOMAIN transfers :
        /\ Reviewable(transfers[t].status)
        /\ Begin(c, [NoCall EXCEPT !.kind = "review", !.row = t,
                                   !.status = transfers[t].status])

\* Decision REJECT or CANCEL.
CommitRefusal(c) ==
    /\ call[c].kind = "review"
    /\ LET t == call[c].row IN
       /\ transfers' = [transfers EXCEPT ![t].status = "REJECTED"]
       /\ End(c, transfers[t].status = call[c].status)
    /\ UNCHANGED <<enrolments, rollovers, disputes>>

\* Decision COMPLETE: the transaction begins and reads the enrolment.  One in no
\* session fails, as fromSessionId of the rollover may not be null.
StartCompletion(c) ==
    /\ call[c].kind = "review"
    /\ LET e == transfers[call[c].row].enrolment IN
       enrolments[e].status = "ACTIVE" /\ enrolments[e].placed
    /\ call' = [call EXCEPT ![c].kind = "complete"]
    /\ UNCHANGED <<tables, overlaps>>

\* Mutant of Completed: the transfer is not linked to its rollover.
CompletedUnlinked(row, r) == [row EXCEPT !.status = "COMPLETED"]

Completed(row, r) == [row EXCEPT !.status = "COMPLETED", !.rollover = r]

CommitCompletion(c) ==
    /\ call[c].kind = "complete"
    /\ Len(rollovers) < MaxRollovers
    /\ LET t == call[c].row
           e == transfers[t].enrolment
           after == [enrolments EXCEPT ![e].status = "TRANSFERRED_OUT"] IN
       /\ KeyHolds(after)
       /\ enrolments' = after
       /\ rollovers' = Append(rollovers, [enrolment |-> e, decision |-> "TRANSFERRED_OUT",
                                          dispute |-> 0])
       /\ transfers' = [transfers EXCEPT ![t] = Completed(@, Len(rollovers) + 1)]
       /\ End(c, enrolments[e].status = "ACTIVE" /\ transfers[t].status = call[c].status)
    /\ UNCHANGED disputes

-----------------------------------------------------------------------------
\* createRolloverDispute: a rollover is disputed once.
Disputable(row) == row.dispute = 0

ReadDispute(c) ==
    \E r \in DOMAIN rollovers :
        /\ Disputable(rollovers[r])
        /\ Begin(c, [NoCall EXCEPT !.kind = "dispute", !.row = r, !.transfer = TransferOf(r),
                                   !.status = TransferStatusOf(TransferOf(r))])

\* The dispute, the rollover and, if the call saw one, its transfer.
CommitDispute(c) ==
    /\ call[c].kind = "dispute"
    /\ Len(disputes) < MaxDisputes
    /\ LET r == call[c].row
           t == call[c].transfer
           d == Len(disputes) + 1 IN
       /\ disputes' = Append(disputes, "OPEN")
       /\ rollovers' = [rollovers EXCEPT ![r].dispute = d]
       /\ transfers' = IF t = 0 THEN transfers
                       ELSE [transfers EXCEPT ![t].status = "DISPUTED", ![t].dispute = d]
       /\ End(c, /\ rollovers[r].dispute = 0
                 /\ TransferOf(r) = t
                 /\ TransferStatusOf(t) = call[c].status)
    /\ UNCHANGED enrolments

ReadResolve(c) ==
    \E r \in DOMAIN rollovers :
        /\ rollovers[r].dispute # 0
        /\ Begin(c, [NoCall EXCEPT !.kind = "resolve", !.row = r,
                                   !.dispute = rollovers[r].dispute,
                                   !.transfer = TransferOf(r),
                                   !.status = TransferStatusOf(TransferOf(r))])

\* Mutant of ResolvedStatus: resolving always completes the transfer.
ResolvedComplete(seen) == "COMPLETED"

\* A DISPUTED transfer is COMPLETED again, any other status is written back.
ResolvedStatus(seen) == IF seen = "DISPUTED" THEN "COMPLETED" ELSE seen

\* resolveRolloverDispute, as often as it is called.
CommitResolve(c) ==
    /\ call[c].kind = "resolve"
    /\ LET t == call[c].transfer IN
       /\ disputes' = [disputes EXCEPT ![call[c].dispute] = "RESOLVED"]
       /\ transfers' = IF t = 0 THEN transfers
                       ELSE [transfers EXCEPT ![t].status = ResolvedStatus(call[c].status)]
       /\ End(c, /\ rollovers[call[c].row].dispute = call[c].dispute
                 /\ TransferStatusOf(t) = call[c].status)
    /\ UNCHANGED <<enrolments, rollovers>>

\* AdminService.escalateDispute and closeDispute, in any status, leaving the
\* rollover and the transfer alone.
EscalateDispute ==
    /\ \E d \in DOMAIN disputes : disputes' = [disputes EXCEPT ![d] = "ESCALATED"]
    /\ UNCHANGED <<enrolments, rollovers, transfers, call, overlaps>>

CloseDispute ==
    /\ \E d \in DOMAIN disputes : disputes' = [disputes EXCEPT ![d] = "RESOLVED"]
    /\ UNCHANGED <<enrolments, rollovers, transfers, call, overlaps>>

-----------------------------------------------------------------------------
Next ==
    \/ IngestStudent
    \/ EscalateDispute
    \/ CloseDispute
    \/ \E c \in Calls :
        \/ ReadConfirm(c)  \/ CommitConfirm(c)
        \/ ReadRequest(c)  \/ CommitRequest(c)
        \/ ReadReview(c)   \/ CommitRefusal(c) \/ StartCompletion(c) \/ CommitCompletion(c)
        \/ ReadDispute(c)  \/ CommitDispute(c)
        \/ ReadResolve(c)  \/ CommitResolve(c)
        \/ Abandon(c)

Spec == Init /\ [][Next]_vars

-----------------------------------------------------------------------------
\* An enrolment is decided once, by a rollover or by a transfer, however many
\* transfers were requested for it: a further rollover of it is owed to a call
\* that committed over one it had not read.
RolledOverOnce ==
    \A e \in DOMAIN enrolments : Cardinality(RolloversOf(e)) <= 1 + overlaps

\* As long as no call commits over another, a completed transfer is linked to
\* the rollover that made its enrolment TRANSFERRED_OUT, and one linked to a
\* rollover is REJECTED only after a dispute over it.
TransfersAgree ==
    overlaps = 0 =>
        \A t \in DOMAIN transfers :
            LET row == transfers[t] IN
            /\ row.status \in {"COMPLETED", "DISPUTED"} => row.rollover # 0
            /\ row.rollover # 0 =>
                 /\ rollovers[row.rollover].enrolment = row.enrolment
                 /\ enrolments[row.enrolment].status = "TRANSFERRED_OUT"
                 /\ rollovers[row.rollover].dispute = row.dispute
            /\ row.rollover # 0 /\ row.status = "REJECTED" => row.dispute # 0

\* A rejected transfer stays rejected, and a completed one is only ever
\* disputed: no review, resolution or dispute of another rollover reopens it,
\* as long as no call has committed over a row it had not read.
ClosedStaysClosed ==
    [][overlaps' = 0 =>
          \A t \in DOMAIN transfers :
              /\ transfers[t].status = "REJECTED" => transfers'[t].status = "REJECTED"
              /\ transfers[t].status = "COMPLETED" =>
                    transfers'[t].status \in {"COMPLETED", "DISPUTED"}]_vars
=============================================================================

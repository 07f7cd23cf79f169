---------------------------- MODULE RecordRequest ----------------------------
(***************************************************************************)
(* One RecordRequest: its review, its payment held in escrow, its refund   *)
(* and its fulfilment, by the handlers of GovernanceService and by the     *)
(* Paystack confirmation job of the worker.                                *)
(*                                                                         *)
(* Every handler reads the row, decides on what it read, and updates the   *)
(* row by uuid later on, after awaiting authority checks, the signing of a *)
(* credential or the start of its transaction.  Fields it does not mean to *)
(* change it writes back as it read them (status, paymentStatus,           *)
(* escrowStatus).  No update carries a condition, so a handler may commit  *)
(* over the work of another; the variable stale counts these commits.      *)
(***************************************************************************)
EXTENDS Integers

CONSTANTS
    Handlers,   \* calls in flight at once: API requests and worker jobs
    MaxWrites   \* bound: committed updates of the row

ASSUME RecordRequestAssumption == MaxWrites \in Nat

VARIABLES
    request,    \* the row
    op,         \* op[h]: the operation h performs and the row it read
    confirmed,  \* history: confirmations of a payment
    released,   \* history: positive ledger entries (sourceType RecordRequest)
    refunded,   \* history: negative ledger entries (RecordRequestRefund)
    published,  \* history: credentials created for the request
    stale,      \* history: commits over a row the handler had not read
    writes      \* commits so far

vars == <<request, op, confirmed, released, refunded, published, stale, writes>>

-----------------------------------------------------------------------------
\* "IN_REVIEW" stands for the statuses no code here tells apart: ASSIGNED,
\* INSTITUTION_REVIEW, NEEDS_MORE_INFORMATION, APPROVED, DISPUTED, ESCALATED.
Status == {"SUBMITTED", "AWAITING_PAYMENT", "IN_REVIEW", "REJECTED", "FULFILLED",
           "CANCELLED"}

Closed == {"REJECTED", "CANCELLED", "FULFILLED"}

Payment == {"NOT_REQUIRED", "PENDING", "PAID", "WAIVED", "REFUNDED"}

Escrow == {"NONE", "HELD", "RELEASED", "REFUND_PENDING", "REFUNDED"}

\* payable: amountMinor is set (it is then positive); credential:
\* fulfilledCredentialId is.
Row == [status : Status, payment : Payment, escrow : Escrow,
        payable : BOOLEAN, credential : BOOLEAN]

Kinds == {"review", "confirm", "webhook", "refundRequest", "refundConfirm", "fulfil"}

\* createRecordRequestRecord, with and without a configured fee.
Created(fee) ==
    [status |-> IF fee THEN "AWAITING_PAYMENT" ELSE "SUBMITTED",
     payment |-> IF fee THEN "PENDING" ELSE "NOT_REQUIRED",
     escrow |-> "NONE", payable |-> fee, credential |-> FALSE]

NoOp == [kind |-> "none", seen |-> Created(FALSE)]

TypeOK ==
    /\ request \in Row
    /\ op \in [Handlers -> [kind : Kinds \cup {"none"}, seen : Row]]
    /\ {confirmed, released, refunded, published, stale} \subseteq Nat
    /\ writes \in 0 .. MaxWrites

Init ==
    /\ \E fee \in BOOLEAN : request = Created(fee)
    /\ op = [h \in Handlers |-> NoOp]
    /\ confirmed = 0
    /\ released = 0
    /\ refunded = 0
    /\ published = 0
    /\ stale = 0
    /\ writes = 0

-----------------------------------------------------------------------------
(* What each handler asks of the row it reads. *)

\* reviewRecordRequest asks nothing of the row.
ReviewAccepts(row) == row \in Row

\* confirmRecordRequestPayment refuses a closed request only.
ConfirmAccepts(row) == row.status \notin Closed

\* processPaystackPaymentConfirmation also leaves a PAID request alone: it
\* succeeds (same reference) or fails for good (another) without an update.
WebhookAccepts(row) == row.status \notin Closed /\ row.payment # "PAID"

\* refundRecordRequestPayment, for either action ...
Refundable(row) ==
    /\ ~row.credential
    /\ row.status # "FULFILLED"
    /\ row.escrow # "RELEASED"
    /\ row.payment = "PAID"

\* ... with action REQUEST, and with action CONFIRM.
RefundRequestAccepts(row) == Refundable(row) /\ row.escrow = "HELD"

RefundConfirmAccepts(row) == Refundable(row) /\ row.escrow \in {"HELD", "REFUND_PENDING"}

\* Mutant of FulfilAccepts: a request is fulfilled again.
FulfilAcceptsAgain(row) ==
    /\ row.payable => row.payment \in {"PAID", "WAIVED", "NOT_REQUIRED"}
    /\ row.payment = "PAID" => row.escrow \in {"HELD", "RELEASED"}

\* fulfillRecordRequest does not look at the status.
FulfilAccepts(row) ==
    /\ ~row.credential
    /\ row.payable => row.payment \in {"PAID", "WAIVED", "NOT_REQUIRED"}
    /\ row.payment = "PAID" => row.escrow = "HELD"

Accepts(kind, row) ==
    CASE kind = "review"        -> ReviewAccepts(row)
      [] kind = "confirm"       -> ConfirmAccepts(row)
      [] kind = "webhook"       -> WebhookAccepts(row)
      [] kind = "refundRequest" -> RefundRequestAccepts(row)
      [] kind = "refundConfirm" -> RefundConfirmAccepts(row)
      [] kind = "fulfil"        -> FulfilAccepts(row)

\* A handler reads the row; one that refuses it ends here and changes nothing.
Read(h, kind) ==
    /\ op[h].kind = "none"
    /\ Accepts(kind, request)
    /\ op' = [op EXCEPT ![h] = [kind |-> kind, seen |-> request]]
    /\ UNCHANGED <<request, confirmed, released, refunded, published, stale, writes>>

\* The process stops, or the transaction is rolled back.
Abandon(h) ==
    /\ op[h].kind # "none"
    /\ op' = [op EXCEPT ![h] = NoOp]
    /\ UNCHANGED <<request, confirmed, released, refunded, published, stale, writes>>

-----------------------------------------------------------------------------
(* The updates.  seen is the row the handler read; they start from the row *)
(* as it is by then.                                                       *)

Reviewed(row, s) == [row EXCEPT !.status = s]

Held(row, seen) ==
    [row EXCEPT !.status = IF seen.status = "AWAITING_PAYMENT" THEN "SUBMITTED"
                           ELSE seen.status,
                !.payment = "PAID", !.escrow = "HELD", !.payable = TRUE]

\* Mutant of RefundPending: the request goes back to a reviewer.
RefundPendingInReview(row, seen) ==
    [row EXCEPT !.status = "IN_REVIEW", !.payment = seen.payment,
                !.escrow = "REFUND_PENDING"]

RefundPending(row, seen) ==
    [row EXCEPT !.status = seen.status, !.payment = seen.payment,
                !.escrow = "REFUND_PENDING"]

\* Mutant of Refunded: the escrow is left as it was.
RefundedPaymentOnly(row, seen) ==
    [row EXCEPT !.status = IF seen.status \in {"REJECTED", "CANCELLED"}
                           THEN seen.status ELSE "CANCELLED",
                !.payment = "REFUNDED"]

Refunded(row, seen) ==
    [row EXCEPT !.status = IF seen.status \in {"REJECTED", "CANCELLED"}
                           THEN seen.status ELSE "CANCELLED",
                !.payment = "REFUNDED", !.escrow = "REFUNDED"]

Fulfilled(row, e) ==
    [row EXCEPT !.status = "FULFILLED", !.credential = TRUE, !.escrow = e]

\* Handler h ends, having updated the row: by uuid, so nothing checks that the
\* row is still the one it read.
Commit(h, kinds) ==
    /\ op[h].kind \in kinds
    /\ writes < MaxWrites
    /\ writes' = writes + 1
    /\ stale' = IF request = op[h].seen THEN stale ELSE stale + 1
    /\ op' = [op EXCEPT ![h] = NoOp]

\* reviewRecordRequest: any status of the schema but FULFILLED.
CommitReview(h) ==
    /\ Commit(h, {"review"})
    /\ \E s \in Status \ {"FULFILLED"} : request' = Reviewed(request, s)
    /\ UNCHANGED <<confirmed, released, refunded, published>>

\* confirmRecordRequestPayment, and the transaction of the Paystack job.
CommitConfirm(h) ==
    /\ Commit(h, {"confirm", "webhook"})
    /\ request' = Held(request, op[h].seen)
    /\ confirmed' = confirmed + 1
    /\ UNCHANGED <<released, refunded, published>>

CommitRefundRequest(h) ==
    /\ Commit(h, {"refundRequest"})
    /\ request' = RefundPending(request, op[h].seen)
    /\ UNCHANGED <<confirmed, released, refunded, published>>

\* Mutant of CommitRefundConfirm: the ledger entry without the request.
CommitRefundLedgerOnly(h) ==
    /\ Commit(h, {"refundConfirm"})
    /\ refunded' = refunded + 1
    /\ UNCHANGED <<request, confirmed, released, published>>

\* The request and the negative ledger entry, in one transaction.
CommitRefundConfirm(h) ==
    /\ Commit(h, {"refundConfirm"})
    /\ request' = Refunded(request, op[h].seen)
    /\ refunded' = refunded + 1
    /\ UNCHANGED <<confirmed, released, published>>

\* The credential, the request and the ledger entry, in one transaction.  A
\* payment is released unless the caller says not to (releasePayment: false);
\* otherwise the escrow status is written back.
CommitFulfil(h) ==
    /\ Commit(h, {"fulfil"})
    /\ LET seen == op[h].seen IN
       \/ /\ seen.payment = "PAID"
          /\ request' = Fulfilled(request, "RELEASED")
          /\ released' = IF seen.payable THEN released + 1 ELSE released
       \/ /\ request' = Fulfilled(request, seen.escrow)
          /\ UNCHANGED released
    /\ published' = published + 1
    /\ UNCHANGED <<confirmed, refunded>>

-----------------------------------------------------------------------------
Step(h) ==
    \/ \E kind \in Kinds : Read(h, kind)
    \/ Abandon(h)
    \/ CommitReview(h)
    \/ CommitConfirm(h)
    \/ CommitRefundRequest(h)
    \/ CommitRefundConfirm(h)
    \/ CommitFulfil(h)

Next == \E h \in Handlers : Step(h)

Spec == Init /\ [][Next]_vars

-----------------------------------------------------------------------------
\* Every payment confirmed into escrow leaves it at most once, released to the
\* institution or refunded to the learner, whatever reviews reopen the request
\* in between; each further exit is owed to a handler that committed over a row
\* it had not read.  The ledger entries of refundRecordRequestPayment and
\* fulfillRecordRequest.
EscrowConserved == released + refunded <= confirmed + stale

\* One credential is published for a request, or two fulfilments overlapped:
\* fulfillRecordRequest asks for no fulfilledCredential, and Credential carries
\* no unique recordRequestId.
PublishedOnce == published <= 1 + stale

\* As long as no handler commits over another, what the row says of the payment
\* and what it says of the escrow agree: three handlers and a job write the two
\* fields, some one of them, some both, some back what they read.
EscrowMatchesPayment ==
    stale = 0 =>
        /\ request.escrow \in {"HELD", "REFUND_PENDING"} => request.payment = "PAID"
        /\ request.escrow = "RELEASED" => request.payment = "PAID" /\ request.credential
        /\ request.escrow = "REFUNDED" <=> request.payment = "REFUNDED"
        /\ request.payment = "PAID" => request.payable

\* FULFILLED means published, under every interleaving: the review route refuses
\* the status and no handler writes it back from an old copy.
FulfilledPublished == request.status = "FULFILLED" => request.credential

\* A closed request is reopened by a reviewer, never by a payment: neither the
\* confirmation of a payment nor a refund brings a REJECTED, CANCELLED or
\* FULFILLED request back, unless it commits over a row it had not read.
OnlyReviewReopens ==
    [][request.status \in Closed /\ request'.status \notin Closed =>
          (\E h \in Handlers : CommitReview(h)) \/ stale' > stale]_vars
=============================================================================

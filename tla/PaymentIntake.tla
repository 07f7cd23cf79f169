---------------------------- MODULE PaymentIntake ----------------------------
(***************************************************************************)
(* How payments reach a record request: the handlers of RecordRequest,     *)
(* whose Paystack confirmations are here the jobs that                     *)
(* PaystackWebhookService queues for the charges Paystack reports, and the *)
(* reference by which the row names its payment.                           *)
(*                                                                         *)
(* Paystack reports a charge again until it is answered.  A repeated       *)
(* report never queues a second job: it is answered with a conflict, as    *)
(* the request that is hashed for its idempotency key holds the time it    *)
(* was received (Idempotency).  Attempts are counted in JobQueue; here a   *)
(* failed attempt is the last one or not.                                  *)
(***************************************************************************)
EXTENDS RecordRequest, FiniteSets

CONSTANTS
    Charges,   \* Paystack transactions that succeeded, each with its reference
    Named,     \* those whose metadata name the record request
    Short      \* those below the amount of the request, once it has one

\* A reference that is no charge's, or none at all.
Other == "other"

ASSUME IntakeAssumption ==
    /\ Named \subseteq Charges
    /\ Short \subseteq Charges
    /\ Other \notin Charges

VARIABLES
    intake,     \* intake[c]: the job of charge c
    linked,     \* linked[c]: does its payload name the record request?
    charge,     \* charge[h]: the charge whose job h performs, or Other
    reference,  \* paymentReference of the row
    held,       \* history: held[c], confirmations by the job of c
    reopened    \* history: reviews that reopened a refunded request

intakeVars == <<intake, linked, charge, reference, held, reopened>>

-----------------------------------------------------------------------------
\* "QUEUED" stands for RETRYING too.
JobStatus == {"NONE", "QUEUED", "RUNNING", "SUCCEEDED", "FAILED"}

IntakeTypeOK ==
    /\ TypeOK
    /\ intake \in [Charges -> JobStatus]
    /\ linked \in [Charges -> BOOLEAN]
    /\ charge \in [Handlers -> Charges \cup {Other}]
    /\ reference \in Charges \cup {Other}
    /\ held \in [Charges -> Nat]
    /\ reopened \in Nat

IntakeInit ==
    /\ Init
    /\ intake = [c \in Charges |-> "NONE"]
    /\ linked = [c \in Charges |-> FALSE]
    /\ charge = [h \in Handlers |-> Other]
    /\ reference = Other
    /\ held = [c \in Charges |-> 0]
    /\ reopened = 0

-----------------------------------------------------------------------------
\* findRecordRequest and findRecordRequestForPayment: by the metadata, or else
\* by the reference.
Finds(c) == c \in Named \/ reference = c

\* receiveWebhook: a signed charge.success with a reference and an amount.
Receive(c) ==
    /\ intake[c] = "NONE"
    /\ intake' = [intake EXCEPT ![c] = "QUEUED"]
    /\ linked' = [linked EXCEPT ![c] = Finds(c)]
    /\ UNCHANGED <<vars, charge, reference, held, reopened>>

\* The request is not found: an error like any other, retried or not.
NotFound(h, c) ==
    /\ intake[c] = "QUEUED" /\ op[h].kind = "none"
    /\ ~linked[c] /\ ~Finds(c)
    /\ intake' = [intake EXCEPT ![c] = "FAILED"]
    /\ UNCHANGED <<vars, linked, charge, reference, held, reopened>>

\* A worker claims the job and reads the row.
Claims(h, c) ==
    /\ intake[c] = "QUEUED" /\ op[h].kind = "none"
    /\ linked[c] \/ Finds(c)

\* Mutant of AlreadyConfirmed: the reference is not compared.
AlreadyPaid(c) == request.status \notin Closed /\ request.payment = "PAID" /\ Finds(c)

\* The row has this payment, by whichever route it came.
AlreadyConfirmed(c) ==
    /\ request.status \notin Closed
    /\ request.payment = "PAID"
    /\ reference = c

\* Below the amount of the row, or of another currency; a row without an amount
\* takes any.
TooLittle(c) == c \in Short /\ request.payable

Already(h, c) ==
    /\ Claims(h, c)
    /\ AlreadyConfirmed(c)
    /\ intake' = [intake EXCEPT ![c] = "SUCCEEDED"]
    /\ UNCHANGED <<vars, linked, charge, reference, held, reopened>>

\* A closed request, another payment or too little money: no retry can help.
Refuse(h, c) ==
    /\ Claims(h, c)
    /\ ~AlreadyConfirmed(c)
    /\ ~WebhookAccepts(request) \/ TooLittle(c)
    /\ intake' = [intake EXCEPT ![c] = "FAILED"]
    /\ UNCHANGED <<vars, linked, charge, reference, held, reopened>>

Process(h, c) ==
    /\ Claims(h, c)
    /\ ~TooLittle(c)
    /\ Read(h, "webhook")
    /\ charge' = [charge EXCEPT ![h] = c]
    /\ intake' = [intake EXCEPT ![c] = "RUNNING"]
    /\ UNCHANGED <<linked, reference, held, reopened>>

\* The transaction, and then completeJob.  If that fails the job is run again, or
\* FAILED; if the worker stops in between, the job stays RUNNING.
CommitCharge(h) ==
    /\ op[h].kind = "webhook"
    /\ CommitConfirm(h)
    /\ LET c == charge[h] IN
       /\ reference' = c
       /\ held' = [held EXCEPT ![c] = @ + 1]
       /\ \E s \in JobStatus \ {"NONE"} : intake' = [intake EXCEPT ![c] = s]
    /\ charge' = [charge EXCEPT ![h] = Other]
    /\ UNCHANGED <<linked, reopened>>

\* The worker stops, or the transaction fails: the job is left RUNNING, retried,
\* or FAILED.
AbandonCharge(h) ==
    /\ op[h].kind = "webhook"
    /\ Abandon(h)
    /\ \E s \in {"RUNNING", "QUEUED", "FAILED"} : intake' = [intake EXCEPT ![charge[h]] = s]
    /\ charge' = [charge EXCEPT ![h] = Other]
    /\ UNCHANGED <<linked, reference, held, reopened>>

\* An operator queues a FAILED job again (retryDeadLetterJob).
Requeue(c) ==
    /\ intake[c] = "FAILED"
    /\ intake' = [intake EXCEPT ![c] = "QUEUED"]
    /\ UNCHANGED <<vars, linked, charge, reference, held, reopened>>

-----------------------------------------------------------------------------
\* confirmRecordRequestPayment writes the reference it is given.
ConfirmManually(h) ==
    /\ op[h].kind = "confirm"
    /\ CommitConfirm(h)
    /\ reference' \in Charges \cup {Other}
    /\ UNCHANGED <<intake, linked, charge, held, reopened>>

Review(h) ==
    /\ CommitReview(h)
    /\ reopened' = IF request.payment = "REFUNDED" /\ request.status \in Closed
                      /\ request'.status \notin Closed
                   THEN reopened + 1 ELSE reopened
    /\ UNCHANGED <<intake, linked, charge, reference, held>>

\* The other routes know nothing of charges.
Govern(h) ==
    /\ \/ \E kind \in Kinds \ {"webhook"} : Read(h, kind)
       \/ op[h].kind # "webhook" /\ Abandon(h)
       \/ CommitRefundRequest(h)
       \/ CommitRefundConfirm(h)
       \/ CommitFulfil(h)
    /\ UNCHANGED intakeVars

IntakeNext ==
    \/ \E c \in Charges : Receive(c) \/ Requeue(c)
    \/ \E h \in Handlers :
        \/ Govern(h) \/ Review(h) \/ ConfirmManually(h)
        \/ CommitCharge(h) \/ AbandonCharge(h)
        \/ \E c \in Charges :
            NotFound(h, c) \/ Already(h, c) \/ Refuse(h, c) \/ Process(h, c)

IntakeSpec == IntakeInit /\ [][IntakeNext]_<<vars, intakeVars>>

-----------------------------------------------------------------------------
\* A charge goes into escrow once, whatever is retried, acknowledged too late or
\* queued again by an operator.  A second time is owed to a job that committed
\* over a row it had not read, or to a reviewer who reopened a refunded request
\* under a job that was not over.
HeldOnce == \A c \in Charges : held[c] <= 1 + stale + reopened

\* processPaystackPaymentConfirmation succeeds for a charge only if a payment
\* was confirmed for it: as many jobs succeed as payments are confirmed, and one
\* that is refused is FAILED, where an operator sees it.
SuccessIsConfirmed ==
    Cardinality({c \in Charges : intake[c] = "SUCCEEDED"}) <= confirmed

ChargesAccounted == HeldOnce /\ SuccessIsConfirmed
=============================================================================

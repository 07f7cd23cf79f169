--------------------------- MODULE PaymentProofs ---------------------------
(***************************************************************************)
(* Proofs about RecordRequest, for any number of calls in flight and of    *)
(* commits, and about PaymentIntake, for any number of charges as well.    *)
(*                                                                         *)
(* The invariants of RecordRequest are not inductive as they stand: a      *)
(* handler commits on the strength of the row it read, so the proof        *)
(* carries that this row satisfies what the handler asked of it            *)
(* (SeenAccepted), and it counts, beside the exits from escrow and the     *)
(* credentials, whether one more is possible (EscrowBooks, Publications).  *)
(*                                                                         *)
(* A record request paid through Paystack is a record request of           *)
(* RecordRequest (IntakeImplements), so everything proved there holds of   *)
(* it.  ChargesAccounted is not inductive: the proof carries that a charge *)
(* which used up what the history allows it finds the row in a state the   *)
(* job refuses (HeldBooks), and that the charge the row names is already   *)
(* counted among those that may succeed (SuccessBooks).                    *)
(***************************************************************************)
EXTENDS PaymentIntake, FiniteSetTheorems, TLAPS

\* What a handler acts on satisfies the handler's checks.
SeenAccepted == \A h \in Handlers : op[h].kind # "none" => Accepts(op[h].kind, op[h].seen)

InEscrow(row) == row.payment = "PAID" /\ row.escrow \in {"HELD", "REFUND_PENDING"}

\* While a payment is in escrow its exit is still to come.
EscrowBooks ==
    /\ EscrowConserved
    /\ InEscrow(request) => released + refunded < confirmed + stale

\* While no credential is linked the first publication is still to come.
Publications ==
    /\ PublishedOnce
    /\ ~request.credential => published <= stale

Inv == TypeOK /\ SeenAccepted /\ EscrowBooks /\ Publications /\ EscrowMatchesPayment
              /\ FulfilledPublished

-----------------------------------------------------------------------------
(* The updates of the row. *)

\* What reviewRecordRequest writes.
LEMMA ReviewedRow ==
    ASSUME NEW row \in Row, NEW s \in Status
    PROVE  /\ Reviewed(row, s) \in Row
           /\ Reviewed(row, s).status = s
           /\ Reviewed(row, s).payment = row.payment
           /\ Reviewed(row, s).escrow = row.escrow
           /\ Reviewed(row, s).payable = row.payable
           /\ Reviewed(row, s).credential = row.credential
BY DEF Row, Reviewed

\* What a payment confirmation writes.
LEMMA HeldRow ==
    ASSUME NEW row \in Row, NEW seen \in Row
    PROVE  /\ Held(row, seen) \in Row
           /\ Held(row, seen).status \in {"SUBMITTED", seen.status}
           /\ Held(row, seen).payment = "PAID"
           /\ Held(row, seen).escrow = "HELD"
           /\ Held(row, seen).payable
           /\ Held(row, seen).credential = row.credential
BY DEF Row, Held, Status, Payment, Escrow

\* What a refund request writes.
LEMMA RefundPendingRow ==
    ASSUME NEW row \in Row, NEW seen \in Row
    PROVE  /\ RefundPending(row, seen) \in Row
           /\ RefundPending(row, seen).status = seen.status
           /\ RefundPending(row, seen).payment = seen.payment
           /\ RefundPending(row, seen).escrow = "REFUND_PENDING"
           /\ RefundPending(row, seen).payable = row.payable
           /\ RefundPending(row, seen).credential = row.credential
BY DEF Row, RefundPending, Escrow

\* What a confirmed refund writes.
LEMMA RefundedRow ==
    ASSUME NEW row \in Row, NEW seen \in Row
    PROVE  /\ Refunded(row, seen) \in Row
           /\ Refunded(row, seen).status \in {"REJECTED", "CANCELLED"}
           /\ Refunded(row, seen).payment = "REFUNDED"
           /\ Refunded(row, seen).escrow = "REFUNDED"
           /\ Refunded(row, seen).payable = row.payable
           /\ Refunded(row, seen).credential = row.credential
BY DEF Row, Refunded, Status, Payment, Escrow

\* What a fulfilment writes.
LEMMA FulfilledRow ==
    ASSUME NEW row \in Row, NEW e \in Escrow
    PROVE  /\ Fulfilled(row, e) \in Row
           /\ Fulfilled(row, e).status = "FULFILLED"
           /\ Fulfilled(row, e).payment = row.payment
           /\ Fulfilled(row, e).escrow = e
           /\ Fulfilled(row, e).payable = row.payable
           /\ Fulfilled(row, e).credential
BY DEF Row, Fulfilled, Status, Escrow

\* What createRecordRequestRecord writes.
LEMMA NewRequest ==
    ASSUME NEW fee \in BOOLEAN
    PROVE  /\ Created(fee) \in Row
           /\ Created(fee).status # "FULFILLED"
           /\ Created(fee).payment \in {"PENDING", "NOT_REQUIRED"}
           /\ Created(fee).escrow = "NONE"
           /\ ~Created(fee).credential
BY DEF Row, Created, Status, Payment, Escrow

-----------------------------------------------------------------------------
(* What a commit brings with it, whatever it writes. *)

\* Who commits has asked its checks of a row, and it is the row unless stale counts.
LEMMA CommitFacts ==
    ASSUME Inv, NEW h \in Handlers, NEW kinds \in SUBSET Kinds, Commit(h, kinds)
    PROVE  /\ op[h].kind \in kinds
           /\ op[h].seen \in Row
           /\ Accepts(op[h].kind, op[h].seen)
           /\ writes' \in 0 .. MaxWrites
           /\ stale' \in Nat
           /\ \/ request = op[h].seen /\ stale' = stale
              \/ stale' = stale + 1
           /\ op' \in [Handlers -> [kind : Kinds \cup {"none"}, seen : Row]]
           /\ SeenAccepted'
<1>1. op[h].kind \in kinds /\ op[h].kind # "none" /\ op[h].seen \in Row
  BY DEF Commit, Inv, TypeOK, Kinds
<1>2. Accepts(op[h].kind, op[h].seen)
  BY <1>1 DEF Inv, SeenAccepted
<1>3. writes < MaxWrites /\ writes' = writes + 1 /\ writes \in 0 .. MaxWrites
  BY DEF Commit, Inv, TypeOK
<1>4. writes' \in 0 .. MaxWrites
  BY <1>3, RecordRequestAssumption
<1>5. stale \in Nat /\ (\/ request = op[h].seen /\ stale' = stale
                        \/ stale' = stale + 1)
  BY DEF Commit, Inv, TypeOK
<1>6. NoOp \in [kind : Kinds \cup {"none"}, seen : Row] /\ NoOp.kind = "none"
  BY NewRequest DEF NoOp
<1>7. op' = [op EXCEPT ![h] = NoOp]
      /\ op \in [Handlers -> [kind : Kinds \cup {"none"}, seen : Row]]
  BY DEF Commit, Inv, TypeOK
<1>8. op' \in [Handlers -> [kind : Kinds \cup {"none"}, seen : Row]]
  BY <1>6, <1>7
<1>9. SeenAccepted'
  <2>1. SUFFICES ASSUME NEW g \in Handlers, op'[g].kind # "none"
                 PROVE  Accepts(op'[g].kind, op'[g].seen)
    BY DEF SeenAccepted
  <2>2. op'[g] = op[g]
    BY <1>6, <1>7, <2>1
  <2>3. QED
    BY <2>1, <2>2 DEF Inv, SeenAccepted
<1>10. QED
  BY <1>1, <1>2, <1>4, <1>5, <1>8, <1>9

-----------------------------------------------------------------------------
(* Inv is inductive. *)

\* A new request: nothing confirmed, released, refunded or published.
LEMMA InitInv == Init => Inv
<1>1. SUFFICES ASSUME Init PROVE Inv
  OBVIOUS
<1>2. PICK fee \in BOOLEAN : request = Created(fee)
  BY <1>1 DEF Init
<1>3. /\ request \in Row
      /\ request.status # "FULFILLED"
      /\ request.payment \in {"PENDING", "NOT_REQUIRED"}
      /\ request.escrow = "NONE"
  BY <1>2, NewRequest
<1>4. confirmed = 0 /\ released = 0 /\ refunded = 0 /\ published = 0 /\ stale = 0
      /\ writes = 0
  BY <1>1 DEF Init
<1>5. NoOp \in [kind : Kinds \cup {"none"}, seen : Row] /\ NoOp.kind = "none"
  BY NewRequest DEF NoOp
<1>6. op \in [Handlers -> [kind : Kinds \cup {"none"}, seen : Row]] /\ SeenAccepted
  BY <1>1, <1>5 DEF Init, SeenAccepted
<1>7. TypeOK
  BY <1>3, <1>4, <1>6, RecordRequestAssumption DEF TypeOK
<1>8. EscrowBooks /\ Publications
  BY <1>3, <1>4 DEF EscrowBooks, EscrowConserved, InEscrow, Publications, PublishedOnce
<1>9. EscrowMatchesPayment /\ FulfilledPublished
  BY <1>3 DEF EscrowMatchesPayment, FulfilledPublished
<1>10. QED
  BY <1>6, <1>7, <1>8, <1>9 DEF Inv

\* What a commit must still establish, once CommitFacts has dealt with the rest.
Kept == EscrowBooks /\ Publications /\ EscrowMatchesPayment /\ FulfilledPublished

Counts == {confirmed, released, refunded, published} \subseteq Nat

\* A commit keeps the invariant if what it writes keeps row and books.
LEMMA CommitKeeps ==
    ASSUME Inv, NEW h \in Handlers, NEW kinds \in SUBSET Kinds, Commit(h, kinds),
           request' \in Row, Counts', Kept'
    PROVE  Inv'
<1>1. stale' \in Nat /\ writes' \in 0 .. MaxWrites /\ SeenAccepted'
      /\ op' \in [Handlers -> [kind : Kinds \cup {"none"}, seen : Row]]
  BY CommitFacts
<1>2. TypeOK'
  BY <1>1 DEF TypeOK, Counts
<1>3. QED
  BY <1>1, <1>2 DEF Inv, Kept

\* Facts about the numbers and the row that every commit starts from.
LEMMA Before ==
    ASSUME Inv
    PROVE  /\ request \in Row
           /\ confirmed \in Nat /\ released \in Nat /\ refunded \in Nat
           /\ published \in Nat /\ stale \in Nat
           /\ released + refunded <= confirmed + stale
           /\ InEscrow(request) => released + refunded < confirmed + stale
           /\ published <= 1 + stale
           /\ ~request.credential => published <= stale
BY DEF Inv, TypeOK, EscrowBooks, EscrowConserved, Publications, PublishedOnce

\* A review changes the status alone.
LEMMA ReviewKeeps ==
    ASSUME Inv, NEW h \in Handlers, CommitReview(h)
    PROVE  Inv'
<1>1. Commit(h, {"review"}) /\ UNCHANGED <<confirmed, released, refunded, published>>
  BY DEF CommitReview
<1>2. PICK s \in Status \ {"FULFILLED"} : request' = Reviewed(request, s)
  BY DEF CommitReview
<1>3. /\ request' \in Row
      /\ request'.status # "FULFILLED"
      /\ request'.payment = request.payment
      /\ request'.escrow = request.escrow
      /\ request'.payable = request.payable
      /\ request'.credential = request.credential
  BY <1>2, Before, ReviewedRow
<1>4. stale' = stale \/ stale' = stale + 1
  BY <1>1, CommitFacts DEF Kinds
<1>5. EscrowBooks'
  BY <1>1, <1>3, <1>4, Before DEF EscrowBooks, EscrowConserved, InEscrow
<1>6. Publications'
  BY <1>1, <1>3, <1>4, Before DEF Publications, PublishedOnce
<1>7. EscrowMatchesPayment'
  BY <1>3, <1>4, Before DEF Inv, EscrowMatchesPayment
<1>8. FulfilledPublished'
  BY <1>3 DEF FulfilledPublished
<1>9. Counts'
  BY <1>1, Before DEF Counts
<1>10. QED
  BY <1>1, <1>3, <1>5, <1>6, <1>7, <1>8, <1>9, CommitKeeps DEF Kept, Kinds

\* A confirmation adds to the books before it holds the money.
LEMMA ConfirmKeeps ==
    ASSUME Inv, NEW h \in Handlers, CommitConfirm(h)
    PROVE  Inv'
<1>1. Commit(h, {"confirm", "webhook"}) /\ request' = Held(request, op[h].seen)
      /\ confirmed' = confirmed + 1 /\ UNCHANGED <<released, refunded, published>>
  BY DEF CommitConfirm
<1>2. op[h].seen \in Row /\ op[h].kind \in {"confirm", "webhook"}
      /\ Accepts(op[h].kind, op[h].seen)
  BY <1>1, CommitFacts DEF Kinds
<1>3. stale' = stale \/ stale' = stale + 1
  BY <1>1, CommitFacts DEF Kinds
<1>4. op[h].seen.status \notin Closed
  BY <1>2 DEF Accepts, ConfirmAccepts, WebhookAccepts
<1>5. /\ request' \in Row
      /\ request'.status # "FULFILLED"
      /\ request'.payment = "PAID"
      /\ request'.escrow = "HELD"
      /\ request'.payable
      /\ request'.credential = request.credential
  BY <1>1, <1>2, <1>4, Before, HeldRow DEF Closed
<1>6. EscrowBooks'
  BY <1>1, <1>3, Before DEF EscrowBooks, EscrowConserved
<1>7. Publications'
  BY <1>1, <1>3, <1>5, Before DEF Publications, PublishedOnce
<1>8. EscrowMatchesPayment' /\ FulfilledPublished'
  BY <1>5 DEF EscrowMatchesPayment, FulfilledPublished
<1>9. Counts'
  BY <1>1, Before DEF Counts
<1>10. QED
  BY <1>1, <1>5, <1>6, <1>7, <1>8, <1>9, CommitKeeps DEF Kept, Kinds

\* A refund request moves no money.
LEMMA RefundRequestKeeps ==
    ASSUME Inv, NEW h \in Handlers, CommitRefundRequest(h)
    PROVE  Inv'
<1>1. Commit(h, {"refundRequest"}) /\ request' = RefundPending(request, op[h].seen)
      /\ UNCHANGED <<confirmed, released, refunded, published>>
  BY DEF CommitRefundRequest
<1>2. op[h].seen \in Row /\ op[h].kind = "refundRequest" /\ Accepts(op[h].kind, op[h].seen)
  BY <1>1, CommitFacts DEF Kinds
<1>3. \/ request = op[h].seen /\ stale' = stale
      \/ stale' = stale + 1
  BY <1>1, CommitFacts DEF Kinds
<1>4. op[h].seen.status # "FULFILLED" /\ op[h].seen.payment = "PAID"
      /\ op[h].seen.escrow = "HELD"
  BY <1>2 DEF Accepts, RefundRequestAccepts, Refundable
<1>5. /\ request' \in Row
      /\ request'.status # "FULFILLED"
      /\ request'.payment = "PAID"
      /\ request'.escrow = "REFUND_PENDING"
      /\ request'.payable = request.payable
      /\ request'.credential = request.credential
  BY <1>1, <1>2, <1>4, Before, RefundPendingRow
<1>6. EscrowBooks'
  BY <1>1, <1>3, <1>4, Before DEF EscrowBooks, EscrowConserved, InEscrow
<1>7. Publications'
  BY <1>1, <1>3, <1>5, Before DEF Publications, PublishedOnce
<1>8. EscrowMatchesPayment'
  BY <1>3, <1>4, <1>5, Before DEF Inv, EscrowMatchesPayment
<1>9. FulfilledPublished'
  BY <1>5 DEF FulfilledPublished
<1>10. Counts'
  BY <1>1, Before DEF Counts
<1>11. QED
  BY <1>1, <1>5, <1>6, <1>7, <1>8, <1>9, <1>10, CommitKeeps DEF Kept, Kinds

\* A refund takes out what was held, or is stale.
LEMMA RefundConfirmKeeps ==
    ASSUME Inv, NEW h \in Handlers, CommitRefundConfirm(h)
    PROVE  Inv'
<1>1. Commit(h, {"refundConfirm"}) /\ request' = Refunded(request, op[h].seen)
      /\ refunded' = refunded + 1 /\ UNCHANGED <<confirmed, released, published>>
  BY DEF CommitRefundConfirm
<1>2. op[h].seen \in Row /\ op[h].kind = "refundConfirm" /\ Accepts(op[h].kind, op[h].seen)
  BY <1>1, CommitFacts DEF Kinds
<1>3. \/ request = op[h].seen /\ stale' = stale
      \/ stale' = stale + 1
  BY <1>1, CommitFacts DEF Kinds
<1>4. InEscrow(op[h].seen)
  BY <1>2 DEF Accepts, RefundConfirmAccepts, Refundable, InEscrow
<1>5. /\ request' \in Row
      /\ request'.status # "FULFILLED"
      /\ request'.payment = "REFUNDED"
      /\ request'.escrow = "REFUNDED"
      /\ request'.credential = request.credential
  BY <1>1, <1>2, Before, RefundedRow
<1>6. EscrowBooks'
  BY <1>1, <1>3, <1>4, <1>5, Before DEF EscrowBooks, EscrowConserved, InEscrow
<1>7. Publications'
  BY <1>1, <1>3, <1>5, Before DEF Publications, PublishedOnce
<1>8. EscrowMatchesPayment' /\ FulfilledPublished'
  BY <1>5 DEF EscrowMatchesPayment, FulfilledPublished
<1>9. Counts'
  BY <1>1, Before DEF Counts
<1>10. QED
  BY <1>1, <1>5, <1>6, <1>7, <1>8, <1>9, CommitKeeps DEF Kept, Kinds

\* A fulfilment releases what was held and publishes, or is stale.
LEMMA FulfilKeeps ==
    ASSUME Inv, NEW h \in Handlers, CommitFulfil(h)
    PROVE  Inv'
<1> DEFINE seen == op[h].seen
<1>1. Commit(h, {"fulfil"}) /\ published' = published + 1
      /\ UNCHANGED <<confirmed, refunded>>
  BY DEF CommitFulfil
<1>2. PICK e \in Escrow :
         /\ request' = Fulfilled(request, e)
         /\ \/ /\ e = "RELEASED" /\ seen.payment = "PAID"
               /\ released' \in {released, released + 1}
            \/ e = seen.escrow /\ released' = released
  <2>1. op[h].seen \in Row
    BY <1>1, CommitFacts DEF Kinds
  <2>2. QED
    BY <2>1 DEF CommitFulfil, Row, Escrow
<1>3. seen \in Row /\ op[h].kind = "fulfil" /\ Accepts(op[h].kind, seen)
  BY <1>1, CommitFacts DEF Kinds
<1>4. \/ request = seen /\ stale' = stale
      \/ stale' = stale + 1
  BY <1>1, CommitFacts DEF Kinds
<1>5. /\ ~seen.credential
      /\ seen.payable => seen.payment \in {"PAID", "WAIVED", "NOT_REQUIRED"}
      /\ seen.payment = "PAID" => seen.escrow = "HELD"
  BY <1>3 DEF Accepts, FulfilAccepts
<1>6. /\ request' \in Row
      /\ request'.payment = request.payment
      /\ request'.escrow = e
      /\ request'.payable = request.payable
      /\ request'.credential
  BY <1>2, Before, FulfilledRow
<1> HIDE DEF seen
<1>7. released' \in Nat
  BY <1>2, Before
<1>8. EscrowBooks'
  <2>1. CASE e = "RELEASED" /\ seen.payment = "PAID"
    <3>1. request = seen => InEscrow(request)
      BY <1>5, <2>1 DEF InEscrow
    <3>2. released' \in {released, released + 1}
      BY <1>2
    <3>3. released' + refunded' <= confirmed' + stale'
      BY <1>1, <1>4, <3>1, <3>2, Before
    <3>4. QED
      BY <1>6, <2>1, <3>3 DEF EscrowBooks, EscrowConserved, InEscrow
  <2>2. CASE e = seen.escrow /\ released' = released
    <3>1. request = seen => (InEscrow(request') => InEscrow(request))
      BY <1>6, <2>2 DEF InEscrow
    <3>2. QED
      BY <1>1, <1>4, <2>2, <3>1, Before DEF EscrowBooks, EscrowConserved
  <2>3. QED
    BY <1>2, <2>1, <2>2
<1>9. Publications'
  <2>1. request = seen => published <= stale
    BY <1>5, Before
  <2>2. QED
    BY <1>1, <1>4, <1>6, <2>1, Before DEF Publications, PublishedOnce
<1>10. EscrowMatchesPayment'
  <2>1. SUFFICES ASSUME stale' = 0 PROVE EscrowMatchesPayment'
    BY DEF EscrowMatchesPayment
  <2>2. request = seen /\ stale = 0
    BY <1>4, <2>1, Before
  <2>3. QED
    BY <1>2, <1>5, <1>6, <2>2 DEF Inv, EscrowMatchesPayment
<1>11. FulfilledPublished'
  BY <1>6 DEF FulfilledPublished
<1>12. Counts'
  BY <1>1, <1>7, Before DEF Counts
<1>13. QED
  BY <1>1, <1>6, <1>8, <1>9, <1>10, <1>11, <1>12, CommitKeeps DEF Kept, Kinds

\* Reading and giving up change nothing but op.
LEMMA OpKeeps ==
    ASSUME Inv, NEW h \in Handlers, Abandon(h) \/ \E kind \in Kinds : Read(h, kind)
    PROVE  Inv'
<1>1. UNCHANGED <<request, confirmed, released, refunded, published, stale, writes>>
  BY DEF Abandon, Read
<1>2. op \in [Handlers -> [kind : Kinds \cup {"none"}, seen : Row]]
  BY DEF Inv, TypeOK
<1>3. NoOp \in [kind : Kinds \cup {"none"}, seen : Row] /\ NoOp.kind = "none"
  BY NewRequest DEF NoOp
<1>4. PICK o \in [kind : Kinds \cup {"none"}, seen : Row] :
         /\ op' = [op EXCEPT ![h] = o]
         /\ o.kind # "none" => Accepts(o.kind, o.seen)
  <2>1. CASE Abandon(h)
    BY <1>3, <2>1 DEF Abandon
  <2>2. CASE \E kind \in Kinds : Read(h, kind)
    <3>1. PICK kind \in Kinds : Read(h, kind)
      BY <2>2
    <3> DEFINE o == [kind |-> kind, seen |-> request]
    <3>2. op' = [op EXCEPT ![h] = o] /\ Accepts(kind, request)
      BY <3>1 DEF Read
    <3>3. o \in [kind : Kinds \cup {"none"}, seen : Row]
      BY Before
    <3>4. QED
      BY <3>2, <3>3
  <2>3. QED
    BY <2>1, <2>2
<1>5. op' \in [Handlers -> [kind : Kinds \cup {"none"}, seen : Row]]
  BY <1>2, <1>4
<1>6. SeenAccepted'
  <2>1. SUFFICES ASSUME NEW g \in Handlers, op'[g].kind # "none"
                 PROVE  Accepts(op'[g].kind, op'[g].seen)
    BY DEF SeenAccepted
  <2>2. CASE g = h
    BY <1>2, <1>4, <2>1, <2>2
  <2>3. CASE g # h
    BY <1>2, <1>4, <2>1, <2>3 DEF Inv, SeenAccepted
  <2>4. QED
    BY <2>2, <2>3
<1>7. TypeOK'
  BY <1>1, <1>5 DEF Inv, TypeOK
<1>8. EscrowBooks' /\ Publications'
  BY <1>1 DEF Inv, EscrowBooks, EscrowConserved, Publications, PublishedOnce
<1>9. EscrowMatchesPayment' /\ FulfilledPublished'
  BY <1>1 DEF Inv, EscrowMatchesPayment, FulfilledPublished
<1>10. QED
  BY <1>6, <1>7, <1>8, <1>9 DEF Inv

\* Every step keeps the invariant.
LEMMA NextInv == Inv /\ [Next]_vars => Inv'
<1>1. SUFFICES ASSUME Inv, [Next]_vars PROVE Inv'
  OBVIOUS
<1>2. CASE UNCHANGED vars
  <2>1. TypeOK' /\ SeenAccepted'
    BY <1>1, <1>2 DEF Inv, TypeOK, SeenAccepted, vars
  <2>2. EscrowBooks' /\ Publications'
    BY <1>1, <1>2 DEF Inv, EscrowBooks, EscrowConserved, Publications, PublishedOnce, vars
  <2>3. EscrowMatchesPayment' /\ FulfilledPublished'
    BY <1>1, <1>2 DEF Inv, EscrowMatchesPayment, FulfilledPublished, vars
  <2>4. QED
    BY <2>1, <2>2, <2>3 DEF Inv
<1>3. CASE Next
  <2>1. PICK h \in Handlers : Step(h)
    BY <1>3 DEF Next
  <2>2. QED
    BY <1>1, <2>1, OpKeeps, ReviewKeeps, ConfirmKeeps, RefundRequestKeeps,
       RefundConfirmKeeps, FulfilKeeps DEF Step
<1>4. QED
  BY <1>1, <1>2, <1>3

-----------------------------------------------------------------------------
\* The invariant holds of every reachable state.
LEMMA Invariance == Spec => []Inv
BY InitInv, NextInv, PTL DEF Spec

\* Every reachable state is well typed.
THEOREM TypeCorrect == Spec => []TypeOK
<1>1. Inv => TypeOK
  BY DEF Inv
<1>2. QED
  BY <1>1, Invariance, PTL

\* However the handlers and the Paystack job of a request interleave, its money
\* leaves escrow no more often than payments were confirmed into it, but for one
\* exit per commit over a row that had changed since it was read.
THEOREM EscrowIsConserved == Spec => []EscrowConserved
<1>1. Inv => EscrowConserved
  BY DEF Inv, EscrowBooks
<1>2. QED
  BY <1>1, Invariance, PTL

\* Handlers that do not overlap publish one credential per request, and no more
\* than one per stale commit besides.
THEOREM PublishedAtMostOnce == Spec => []PublishedOnce
<1>1. Inv => PublishedOnce
  BY DEF Inv, Publications
<1>2. QED
  BY <1>1, Invariance, PTL

\* paymentStatus and escrowStatus agree until a handler commits over another,
\* and FULFILLED always means that a credential is linked.
THEOREM RowConsistent == Spec => [](EscrowMatchesPayment /\ FulfilledPublished)
<1>1. Inv => EscrowMatchesPayment /\ FulfilledPublished
  BY DEF Inv
<1>2. QED
  BY <1>1, Invariance, PTL

\* No payment reopens a closed request unless its confirmation, or its refund,
\* was decided on an older row.
THEOREM PaymentsReopenNothing == Spec => OnlyReviewReopens
<1>1. ASSUME Inv, [Next]_vars, request.status \in Closed, request'.status \notin Closed
      PROVE  (\E h \in Handlers : CommitReview(h)) \/ stale' > stale
  <2>1. PICK h \in Handlers : Step(h)
    BY <1>1 DEF Next, vars
  <2>2. CASE (\E kind \in Kinds : Read(h, kind)) \/ Abandon(h)
    BY <1>1, <2>2 DEF Read, Abandon
  <2>3. CASE CommitReview(h)
    BY <2>3
  <2>4. CASE CommitConfirm(h)
    <3>1. Commit(h, {"confirm", "webhook"})
      BY <2>4 DEF CommitConfirm
    <3>2. op[h].seen.status \notin Closed
      <4>1. op[h].kind \in {"confirm", "webhook"} /\ Accepts(op[h].kind, op[h].seen)
        BY <1>1, <3>1, CommitFacts DEF Kinds
      <4>2. QED
        BY <4>1 DEF Accepts, ConfirmAccepts, WebhookAccepts
    <3>3. stale' = stale + 1
      BY <1>1, <3>1, <3>2, CommitFacts DEF Kinds
    <3>4. QED
      BY <1>1, <3>3, Before
  <2>5. CASE CommitRefundRequest(h)
    <3>1. Commit(h, {"refundRequest"})
          /\ request' = RefundPending(request, op[h].seen)
      BY <2>5 DEF CommitRefundRequest
    <3>2. request'.status = op[h].seen.status
      BY <1>1, <3>1, Before, CommitFacts, RefundPendingRow DEF Kinds
    <3>3. stale' = stale + 1
      BY <1>1, <3>1, <3>2, CommitFacts DEF Kinds
    <3>4. QED
      BY <1>1, <3>3, Before
  <2>6. CASE CommitRefundConfirm(h)
    <3>1. Commit(h, {"refundConfirm"}) /\ request' = Refunded(request, op[h].seen)
      BY <2>6 DEF CommitRefundConfirm
    <3>2. request'.status \in {"REJECTED", "CANCELLED"}
      BY <1>1, <3>1, Before, CommitFacts, RefundedRow DEF Kinds
    <3>3. QED
      BY <1>1, <3>2 DEF Closed
  <2>7. CASE CommitFulfil(h)
    <3>1. \E e : request' = Fulfilled(request, e)
      BY <2>7 DEF CommitFulfil
    <3>2. Commit(h, {"fulfil"})
      BY <2>7 DEF CommitFulfil
    <3>3. request'.status = "FULFILLED"
      BY <1>1, <3>1, Before DEF Fulfilled, Row
    <3>4. QED
      BY <1>1, <3>3 DEF Closed
  <2>8. QED
    BY <2>1, <2>2, <2>3, <2>4, <2>5, <2>6, <2>7 DEF Step
<1>2. QED
  BY <1>1, Invariance, PTL DEF Spec, OnlyReviewReopens

-----------------------------------------------------------------------------
(* Of PaymentIntake. *)

\* The job of a charge is the only one that has a charge.
OpCharge == \A h \in Handlers : op[h].kind = "webhook" => charge[h] \in Charges

\* What processPaystackPaymentConfirmation does not commit over.
Done(row) == row.payment = "PAID" \/ (row.payment = "REFUNDED" /\ row.status \in Closed)

HeldBooks ==
    \A c \in Charges :
        \/ held[c] <= stale + reopened
        \/ held[c] <= 1 + stale + reopened /\ Done(request)

Books == Inv /\ IntakeTypeOK /\ OpCharge /\ HeldBooks

\* The charges whose job succeeded, and the one by which the row is paid.
Settled == {c \in Charges : intake[c] = "SUCCEEDED" \/ c = reference}

SuccessBooks == Cardinality(Settled) <= confirmed

-----------------------------------------------------------------------------
(* The composition is a record request. *)

\* Every step is one of the record request, or leaves it alone.
LEMMA StepImplements == [IntakeNext]_<<vars, intakeVars>> => [Next]_vars
<1>1. SUFFICES ASSUME IntakeNext PROVE Next \/ UNCHANGED vars
  OBVIOUS
<1>2. CASE \E c \in Charges : Receive(c) \/ Requeue(c)
  BY <1>2 DEF Receive, Requeue
<1>3. ASSUME NEW h \in Handlers,
             \/ Govern(h) \/ Review(h) \/ ConfirmManually(h)
             \/ CommitCharge(h) \/ AbandonCharge(h)
      PROVE  Next
  BY <1>3 DEF Govern, Review, ConfirmManually, CommitCharge, AbandonCharge, Next, Step
<1>4. ASSUME NEW h \in Handlers, NEW c \in Charges,
             NotFound(h, c) \/ Already(h, c) \/ Refuse(h, c)
      PROVE  UNCHANGED vars
  BY <1>4 DEF NotFound, Already, Refuse
<1>5. ASSUME NEW h \in Handlers, NEW c \in Charges, Process(h, c)
      PROVE  Next
  <2>1. Read(h, "webhook") /\ "webhook" \in Kinds
    BY <1>5 DEF Process, Kinds
  <2>2. QED
    BY <2>1 DEF Next, Step
<1>6. QED
  BY <1>1, <1>2, <1>3, <1>4, <1>5 DEF IntakeNext

\* A record request whose confirmations come from Paystack's charges, by jobs
\* that are retried, requeued and acknowledged too late, is a record request of
\* GovernanceService: all that is proved of the handlers holds of it.
THEOREM IntakeImplements == IntakeSpec => Spec
<1>1. IntakeInit => Init
  BY DEF IntakeInit
<1>2. QED
  BY <1>1, StepImplements, PTL DEF IntakeSpec, Spec

-----------------------------------------------------------------------------
(* Types, and whose charge a job has. *)

\* The initial state.
LEMMA IntakeInitBooks == IntakeInit => Books
<1>1. SUFFICES ASSUME IntakeInit PROVE Books
  OBVIOUS
<1>2. Inv
  BY <1>1, InitInv DEF IntakeInit
<1>3. IntakeTypeOK
  BY <1>1, <1>2 DEF IntakeInit, IntakeTypeOK, Inv, JobStatus
<1>4. OpCharge
  BY <1>1 DEF IntakeInit, Init, OpCharge, NoOp
<1>5. HeldBooks
  BY <1>1 DEF IntakeInit, Init, HeldBooks
<1>6. QED
  BY <1>2, <1>3, <1>4, <1>5 DEF Books

\* What the variables of the module are before a step.
LEMMA BooksFacts ==
    ASSUME Books
    PROVE  /\ Inv /\ OpCharge /\ HeldBooks
           /\ stale \in Nat /\ reopened \in Nat /\ confirmed \in Nat
           /\ request \in Row
           /\ op \in [Handlers -> [kind : Kinds \cup {"none"}, seen : Row]]
           /\ intake \in [Charges -> JobStatus]
           /\ linked \in [Charges -> BOOLEAN]
           /\ charge \in [Handlers -> Charges \cup {Other}]
           /\ reference \in Charges \cup {Other}
           /\ held \in [Charges -> Nat]
BY DEF Books, Inv, IntakeTypeOK, TypeOK

\* A call that ends, or one that begins other than for a charge, has none.
LEMMA OthersKeepCharge ==
    ASSUME Books, NEW h \in Handlers, NEW o,
           op' = [op EXCEPT ![h] = o], o.kind # "webhook",
           charge' = charge \/ charge' = [charge EXCEPT ![h] = Other]
    PROVE  OpCharge'
<1>1. SUFFICES ASSUME NEW g \in Handlers, op'[g].kind = "webhook"
               PROVE  charge'[g] \in Charges
  BY DEF OpCharge
<1>2. g # h
  BY <1>1, BooksFacts
<1>3. op'[g] = op[g] /\ charge'[g] = charge[g]
  BY <1>2, BooksFacts
<1>4. QED
  BY <1>1, <1>3, BooksFacts DEF OpCharge

\* The types and the charges, after any step.
LEMMA IntakeKeepsTypes ==
    ASSUME Books, Inv', IntakeNext
    PROVE  IntakeTypeOK' /\ OpCharge'
<1>1. TypeOK' /\ NoOp.kind # "webhook"
  BY DEF Inv, NoOp
<1>2. ASSUME NEW c \in Charges, Receive(c) \/ Requeue(c)
      PROVE  IntakeTypeOK' /\ OpCharge'
  <2>1. UNCHANGED <<vars, charge, reference, held, reopened>>
        /\ (\E s \in JobStatus : intake' = [intake EXCEPT ![c] = s])
        /\ linked' \in [Charges -> BOOLEAN]
    BY <1>2, BooksFacts DEF Receive, Requeue, JobStatus, Finds
  <2>2. OpCharge'
    BY <2>1, BooksFacts DEF OpCharge, vars
  <2>3. QED
    BY <1>1, <2>1, <2>2, BooksFacts DEF IntakeTypeOK
<1>3. ASSUME NEW h \in Handlers, NEW c \in Charges,
             NotFound(h, c) \/ Already(h, c) \/ Refuse(h, c)
      PROVE  IntakeTypeOK' /\ OpCharge'
  <2>1. UNCHANGED <<vars, linked, charge, reference, held, reopened>>
        /\ \E s \in JobStatus : intake' = [intake EXCEPT ![c] = s]
    BY <1>3 DEF NotFound, Already, Refuse, JobStatus
  <2>2. OpCharge'
    BY <2>1, BooksFacts DEF OpCharge, vars
  <2>3. QED
    BY <1>1, <2>1, <2>2, BooksFacts DEF IntakeTypeOK
<1>4. ASSUME NEW h \in Handlers, NEW c \in Charges, Process(h, c)
      PROVE  IntakeTypeOK' /\ OpCharge'
  <2>1. /\ op' = [op EXCEPT ![h] = [kind |-> "webhook", seen |-> request]]
        /\ charge' = [charge EXCEPT ![h] = c]
        /\ intake' = [intake EXCEPT ![c] = "RUNNING"]
        /\ UNCHANGED <<linked, reference, held, reopened>>
    BY <1>4 DEF Process, Read
  <2>2. OpCharge'
    <3>1. SUFFICES ASSUME NEW g \in Handlers, op'[g].kind = "webhook"
                   PROVE  charge'[g] \in Charges
      BY DEF OpCharge
    <3>2. CASE g = h
      BY <2>1, <3>2, BooksFacts
    <3>3. CASE g # h
      BY <2>1, <3>1, <3>3, BooksFacts DEF OpCharge
    <3>4. QED
      BY <3>2, <3>3
  <2>3. QED
    BY <1>1, <2>1, <2>2, BooksFacts DEF IntakeTypeOK, JobStatus
<1>5. ASSUME NEW h \in Handlers, Govern(h)
      PROVE  IntakeTypeOK' /\ OpCharge'
  <2>1. UNCHANGED <<intake, linked, charge, reference, held, reopened>>
    BY <1>5 DEF Govern, intakeVars
  <2>2. IntakeTypeOK'
    BY <1>1, <2>1, BooksFacts DEF IntakeTypeOK
  <2>3. CASE \E kind \in Kinds \ {"webhook"} : Read(h, kind)
    <3>1. PICK kind \in Kinds \ {"webhook"} :
             op' = [op EXCEPT ![h] = [kind |-> kind, seen |-> request]]
      BY <2>3 DEF Read
    <3> DEFINE o == [kind |-> kind, seen |-> request]
    <3>2. o.kind # "webhook" /\ op' = [op EXCEPT ![h] = o]
      BY <3>1
    <3> HIDE DEF o
    <3>3. QED
      BY <2>1, <2>2, <3>2, OthersKeepCharge
  <2>4. CASE ~ \E kind \in Kinds \ {"webhook"} : Read(h, kind)
    <3>1. op' = [op EXCEPT ![h] = NoOp]
      BY <1>5, <2>4 DEF Govern, Abandon, CommitRefundRequest, CommitRefundConfirm,
                        CommitFulfil, Commit
    <3>2. QED
      BY <1>1, <2>1, <2>2, <3>1, OthersKeepCharge
  <2>5. QED
    BY <2>3, <2>4
<1>6. ASSUME NEW h \in Handlers, Review(h)
      PROVE  IntakeTypeOK' /\ OpCharge'
  <2>1. /\ op' = [op EXCEPT ![h] = NoOp]
        /\ UNCHANGED <<intake, linked, charge, reference, held>>
        /\ reopened' \in {reopened, reopened + 1}
    BY <1>6 DEF Review, CommitReview, Commit
  <2>2. reopened' \in Nat
    BY <2>1, BooksFacts
  <2>3. QED
    BY <1>1, <2>1, <2>2, BooksFacts, OthersKeepCharge DEF IntakeTypeOK
<1>7. ASSUME NEW h \in Handlers, ConfirmManually(h)
      PROVE  IntakeTypeOK' /\ OpCharge'
  <2>1. /\ op' = [op EXCEPT ![h] = NoOp]
        /\ reference' \in Charges \cup {Other}
        /\ UNCHANGED <<intake, linked, charge, held, reopened>>
    BY <1>7 DEF ConfirmManually, CommitConfirm, Commit
  <2>2. QED
    BY <1>1, <2>1, BooksFacts, OthersKeepCharge DEF IntakeTypeOK
<1>8. ASSUME NEW h \in Handlers, CommitCharge(h)
      PROVE  IntakeTypeOK' /\ OpCharge'
  <2>1. /\ op' = [op EXCEPT ![h] = NoOp]
        /\ charge[h] \in Charges
        /\ charge' = [charge EXCEPT ![h] = Other]
        /\ reference' = charge[h]
        /\ held' = [held EXCEPT ![charge[h]] = @ + 1]
        /\ UNCHANGED <<linked, reopened>>
    BY <1>8, BooksFacts DEF CommitCharge, CommitConfirm, Commit, OpCharge
  <2>2. intake' \in [Charges -> JobStatus]
    BY <1>8, <2>1, BooksFacts DEF CommitCharge
  <2>3. held' \in [Charges -> Nat]
    BY <2>1, BooksFacts
  <2>4. charge' \in [Handlers -> Charges \cup {Other}]
    BY <2>1, BooksFacts
  <2>5. QED
    BY <1>1, <2>1, <2>2, <2>3, <2>4, BooksFacts, OthersKeepCharge DEF IntakeTypeOK
<1>9. ASSUME NEW h \in Handlers, AbandonCharge(h)
      PROVE  IntakeTypeOK' /\ OpCharge'
  <2>1. /\ op' = [op EXCEPT ![h] = NoOp]
        /\ charge[h] \in Charges
        /\ charge' = [charge EXCEPT ![h] = Other]
        /\ UNCHANGED <<linked, reference, held, reopened>>
    BY <1>9, BooksFacts DEF AbandonCharge, Abandon, OpCharge
  <2>2. intake' \in [Charges -> JobStatus]
    BY <1>9, <2>1, BooksFacts DEF AbandonCharge, JobStatus
  <2>3. charge' \in [Handlers -> Charges \cup {Other}]
    BY <2>1, BooksFacts
  <2>4. QED
    BY <1>1, <2>1, <2>2, <2>3, BooksFacts, OthersKeepCharge DEF IntakeTypeOK
<1>10. QED
  BY <1>2, <1>3, <1>4, <1>5, <1>6, <1>7, <1>8, <1>9 DEF IntakeNext

-----------------------------------------------------------------------------
(* Charges held once. *)

\* Nothing is held, and the row stays as good as done or the history allows more.
LEMMA HeldStays ==
    ASSUME Books, held' = held,
           stale' \in {stale, stale + 1}, reopened' \in {reopened, reopened + 1},
           \/ Done(request) => Done(request')
           \/ stale' = stale + 1
           \/ reopened' = reopened + 1
    PROVE  HeldBooks'
<1>1. SUFFICES ASSUME NEW c \in Charges
               PROVE  \/ held[c] <= stale' + reopened'
                      \/ held[c] <= 1 + stale' + reopened' /\ Done(request')
  BY DEF HeldBooks, Done
<1>2. held[c] \in Nat
      /\ \/ held[c] <= stale + reopened
         \/ held[c] <= 1 + stale + reopened /\ Done(request)
  BY BooksFacts DEF HeldBooks
<1>3. stale \in Nat /\ reopened \in Nat
  BY BooksFacts
<1>4. QED
  BY <1>2, <1>3

\* What a handler that commits does to a row that is done with.
LEMMA DoneOrCounted ==
    ASSUME Books, NEW h \in Handlers,
           \/ Review(h)
           \/ CommitConfirm(h)
           \/ CommitRefundRequest(h)
           \/ CommitRefundConfirm(h)
           \/ CommitFulfil(h)
    PROVE  /\ stale' \in {stale, stale + 1}
           /\ \/ Done(request) => Done(request')
              \/ stale' = stale + 1
              \/ Review(h) /\ reopened' = reopened + 1
<1>1. PICK kinds \in SUBSET Kinds : Commit(h, kinds)
  BY DEF Review, CommitReview, CommitConfirm, CommitRefundRequest, CommitRefundConfirm,
         CommitFulfil, Kinds
<1>2. /\ op[h].seen \in Row
      /\ \/ request = op[h].seen /\ stale' = stale
         \/ stale' = stale + 1
  BY <1>1, BooksFacts, CommitFacts
<1>3. request \in Row
  BY BooksFacts
<1>4. SUFFICES ASSUME request = op[h].seen, Done(request)
               PROVE  Done(request') \/ (Review(h) /\ reopened' = reopened + 1)
  BY <1>2
<1>5. CASE Review(h)
  <2>1. PICK s \in Status : request' = Reviewed(request, s)
    BY <1>5 DEF Review, CommitReview
  <2>2. request'.payment = request.payment
    BY <2>1, <1>3, ReviewedRow
  <2>3. QED
    BY <1>4, <1>5, <2>2 DEF Review, Done
<1>6. CASE CommitConfirm(h)
  <2>1. request'.payment = "PAID"
    BY <1>2, <1>3, <1>6, HeldRow DEF CommitConfirm
  <2>2. QED
    BY <2>1 DEF Done
<1>7. CASE CommitRefundRequest(h)
  <2>1. request'.payment = request.payment /\ request'.status = request.status
    BY <1>2, <1>3, <1>4, <1>7, RefundPendingRow DEF CommitRefundRequest
  <2>2. QED
    BY <1>4, <2>1 DEF Done
<1>8. CASE CommitRefundConfirm(h)
  <2>1. request'.payment = "REFUNDED" /\ request'.status \in Closed
    BY <1>2, <1>3, <1>8, RefundedRow DEF CommitRefundConfirm, Closed
  <2>2. QED
    BY <2>1 DEF Done
<1>9. CASE CommitFulfil(h)
  <2>1. PICK e \in Escrow : request' = Fulfilled(request, e)
    BY <1>2, <1>9 DEF CommitFulfil, Row, Escrow
  <2>2. request'.payment = request.payment /\ request'.status = "FULFILLED"
    BY <1>3, <2>1, FulfilledRow
  <2>3. QED
    BY <1>4, <2>2 DEF Done, Closed
<1>10. QED
  BY <1>4, <1>5, <1>6, <1>7, <1>8, <1>9

\* The job holds a charge over a row that was not done with, or over another one.
LEMMA HoldKeeps ==
    ASSUME Books, NEW h \in Handlers, CommitCharge(h)
    PROVE  HeldBooks'
<1>1. /\ op[h].kind = "webhook"
      /\ Commit(h, {"confirm", "webhook"})
      /\ request' = Held(request, op[h].seen)
      /\ held' = [held EXCEPT ![charge[h]] = @ + 1]
      /\ reopened' = reopened
  BY DEF CommitCharge, CommitConfirm
<1>2. /\ op[h].seen \in Row
      /\ Accepts(op[h].kind, op[h].seen)
      /\ \/ request = op[h].seen /\ stale' = stale
         \/ stale' = stale + 1
  BY <1>1, BooksFacts, CommitFacts DEF Kinds
<1>3. WebhookAccepts(op[h].seen)
  BY <1>1, <1>2 DEF Accepts
<1>4. Done(request')
  BY <1>1, <1>2, BooksFacts, HeldRow DEF Done
<1>5. SUFFICES ASSUME NEW c \in Charges
               PROVE  held'[c] <= 1 + stale' + reopened
  BY <1>1, <1>4 DEF HeldBooks, Done
<1>6. /\ held[c] \in Nat /\ stale \in Nat /\ reopened \in Nat
      /\ held'[c] \in {held[c], held[c] + 1}
      /\ \/ held[c] <= stale + reopened
         \/ held[c] <= 1 + stale + reopened /\ Done(request)
  BY <1>1, BooksFacts DEF HeldBooks
<1>7. CASE request = op[h].seen /\ stale' = stale
  <2>1. ~ Done(request)
    BY <1>3, <1>7 DEF WebhookAccepts, Done
  <2>2. QED
    BY <1>6, <1>7, <2>1
<1>8. CASE stale' = stale + 1
  BY <1>6, <1>8
<1>9. QED
  BY <1>2, <1>7, <1>8

\* Every step keeps the books.
LEMMA NextBooks == Books /\ [IntakeNext]_<<vars, intakeVars>> => Books'
<1>1. SUFFICES ASSUME Books, [IntakeNext]_<<vars, intakeVars>> PROVE Books'
  OBVIOUS
<1>2. Inv'
  BY <1>1, BooksFacts, StepImplements, NextInv
<1>3. CASE UNCHANGED <<vars, intakeVars>>
  <2>1. IntakeTypeOK' /\ OpCharge' /\ HeldBooks'
    BY <1>1, <1>3 DEF Books, IntakeTypeOK, TypeOK, OpCharge, HeldBooks, Done, vars, intakeVars
  <2>2. QED
    BY <1>2, <2>1 DEF Books
<1>4. CASE IntakeNext
  <2>1. IntakeTypeOK' /\ OpCharge'
    BY <1>1, <1>2, <1>4, IntakeKeepsTypes
  <2>2. ASSUME NEW h \in Handlers,
               Review(h) \/ ConfirmManually(h) \/ Govern(h) \/ AbandonCharge(h)
        PROVE  HeldBooks'
    <3>1. held' = held /\ reopened' \in {reopened, reopened + 1}
          /\ (~ Review(h) => reopened' = reopened)
      BY <2>2 DEF Review, ConfirmManually, Govern, AbandonCharge, intakeVars
    <3>2. CASE Abandon(h) \/ \E kind \in Kinds : Read(h, kind)
      <4>1. request' = request /\ stale' = stale
        BY <3>2 DEF Abandon, Read
      <4>2. Done(request) => Done(request')
        BY <4>1
      <4>3. QED
        BY <1>1, <3>1, <4>1, <4>2, HeldStays
    <3>3. CASE ~ (Abandon(h) \/ \E kind \in Kinds : Read(h, kind))
      <4>1. \/ Review(h)
            \/ CommitConfirm(h)
            \/ CommitRefundRequest(h)
            \/ CommitRefundConfirm(h)
            \/ CommitFulfil(h)
        BY <2>2, <3>3 DEF ConfirmManually, Govern, AbandonCharge
      <4>2. QED
        BY <1>1, <3>1, <4>1, DoneOrCounted, HeldStays
    <3>4. QED
      BY <3>2, <3>3
  <2>3. ASSUME NEW c \in Charges,
               \/ Receive(c) \/ Requeue(c)
               \/ \E h \in Handlers :
                     NotFound(h, c) \/ Already(h, c) \/ Refuse(h, c) \/ Process(h, c)
        PROVE  HeldBooks'
    <3>1. UNCHANGED <<request, stale, held, reopened>>
      BY <2>3 DEF Receive, Requeue, NotFound, Already, Refuse, Process, Read, vars
    <3>2. QED
      BY <1>1, <3>1, HeldStays
  <2>4. HeldBooks'
    BY <1>1, <1>4, <2>2, <2>3, HoldKeeps DEF IntakeNext
  <2>5. QED
    BY <1>2, <2>1, <2>4 DEF Books
<1>5. QED
  BY <1>1, <1>3, <1>4

\* The books of every reachable state.
LEMMA BooksInvariance == IntakeSpec => []Books
BY IntakeInitBooks, NextBooks, PTL DEF IntakeSpec

\* A charge that Paystack reports is held in escrow once, however often its job
\* is retried, requeued or acknowledged too late: each further time is owed to a
\* commit over an unread row, or to a reviewer who reopened a refunded request.
THEOREM ChargesHeldOnce == IntakeSpec => []HeldOnce
<1>1. Books => HeldOnce
  <2>1. SUFFICES ASSUME Books, NEW c \in Charges
                 PROVE  held[c] <= 1 + stale + reopened
    BY DEF HeldOnce
  <2>2. /\ held[c] \in Nat /\ stale \in Nat /\ reopened \in Nat
        /\ held[c] <= stale + reopened \/ held[c] <= 1 + stale + reopened
    BY <2>1, BooksFacts DEF HeldBooks
  <2>3. QED
    BY <2>2
<1>2. QED
  BY <1>1, BooksInvariance, PTL

-----------------------------------------------------------------------------
(* Payments confirmed for the charges that succeed. *)

\* A set of charges that gains one charge grows by one at most.
LEMMA OneMore ==
    ASSUME IsFiniteSet(Charges), NEW S \in SUBSET Charges, NEW T \in SUBSET Charges, NEW c,
           T \subseteq S \cup {c}
    PROVE  Cardinality(T) \in Nat /\ Cardinality(S) \in Nat
           /\ Cardinality(T) <= Cardinality(S) + 1
<1>1. IsFiniteSet(S) /\ IsFiniteSet(T)
  BY FS_Subset
<1>2. IsFiniteSet(S \cup {c})
      /\ (Cardinality(S \cup {c}) = Cardinality(S)
          \/ Cardinality(S \cup {c}) = Cardinality(S) + 1)
  BY <1>1, FS_AddElement
<1>3. Cardinality(T) <= Cardinality(S \cup {c})
  BY <1>2, FS_Subset
<1>4. Cardinality(T) \in Nat /\ Cardinality(S) \in Nat
      /\ Cardinality(S \cup {c}) \in Nat
  BY <1>1, <1>2, FS_CardinalityType
<1>5. QED
  BY <1>2, <1>3, <1>4

\* A set of charges that gains none does not grow.
LEMMA NoMore ==
    ASSUME IsFiniteSet(Charges), NEW S \in SUBSET Charges, NEW T \in SUBSET S
    PROVE  Cardinality(T) \in Nat /\ Cardinality(S) \in Nat
           /\ Cardinality(T) <= Cardinality(S)
<1>1. IsFiniteSet(S) /\ IsFiniteSet(T)
  BY FS_Subset
<1>2. QED
  BY <1>1, FS_Subset, FS_CardinalityType

\* A job succeeds for the charge the row names; the row names another charge only
\* when one more payment is confirmed.
LEMMA SettledGrows ==
    ASSUME Books, IntakeNext
    PROVE  /\ Settled \in SUBSET Charges /\ Settled' \in SUBSET Charges
           /\ \/ Settled' \subseteq Settled /\ confirmed' = confirmed
              \/ /\ confirmed' = confirmed + 1
                 /\ \E c : Settled' \subseteq Settled \cup {c}
<1>1. Settled \in SUBSET Charges /\ Settled' \in SUBSET Charges
  BY DEF Settled
<1>2. ASSUME NEW c \in Charges, Receive(c) \/ Requeue(c)
      PROVE  Settled' \subseteq Settled /\ confirmed' = confirmed
  <2>1. reference' = reference /\ confirmed' = confirmed
        /\ intake' = [intake EXCEPT ![c] = "QUEUED"]
    BY <1>2 DEF Receive, Requeue, vars
  <2>2. QED
    BY <2>1, BooksFacts DEF Settled
<1>3. ASSUME NEW h \in Handlers, NEW c \in Charges,
             NotFound(h, c) \/ Refuse(h, c) \/ Process(h, c)
      PROVE  Settled' \subseteq Settled /\ confirmed' = confirmed
  <2>1. PICK s \in JobStatus \ {"SUCCEEDED"} :
             /\ intake' = [intake EXCEPT ![c] = s]
             /\ reference' = reference /\ confirmed' = confirmed
    BY <1>3 DEF NotFound, Refuse, Process, Read, JobStatus, vars
  <2>2. QED
    BY <2>1, BooksFacts DEF Settled
<1>4. ASSUME NEW h \in Handlers, NEW c \in Charges, Already(h, c)
      PROVE  Settled' \subseteq Settled /\ confirmed' = confirmed
  <2>1. /\ intake' = [intake EXCEPT ![c] = "SUCCEEDED"]
        /\ reference = c /\ reference' = reference /\ confirmed' = confirmed
    BY <1>4 DEF Already, AlreadyConfirmed, vars
  <2>2. QED
    BY <2>1, BooksFacts DEF Settled
<1>5. ASSUME NEW h \in Handlers, Govern(h) \/ Review(h)
      PROVE  Settled' \subseteq Settled /\ confirmed' = confirmed
  <2>1. reference' = reference /\ intake' = intake
    BY <1>5 DEF Govern, Review, intakeVars
  <2>2. confirmed' = confirmed
    BY <1>5 DEF Govern, Review, Read, Abandon, CommitReview, CommitRefundRequest,
                CommitRefundConfirm, CommitFulfil
  <2>3. QED
    BY <2>1, <2>2 DEF Settled
<1>6. ASSUME NEW h \in Handlers, ConfirmManually(h)
      PROVE  confirmed' = confirmed + 1 /\ \E c : Settled' \subseteq Settled \cup {c}
  <2>1. intake' = intake /\ confirmed' = confirmed + 1
    BY <1>6 DEF ConfirmManually, CommitConfirm
  <2>2. Settled' \subseteq Settled \cup {reference'}
    BY <2>1 DEF Settled
  <2>3. QED
    BY <2>1, <2>2
<1>7. ASSUME NEW h \in Handlers, CommitCharge(h)
      PROVE  confirmed' = confirmed + 1 /\ \E c : Settled' \subseteq Settled \cup {c}
  <2>1. confirmed' = confirmed + 1 /\ reference' = charge[h]
        /\ \E s \in JobStatus : intake' = [intake EXCEPT ![charge[h]] = s]
    BY <1>7 DEF CommitCharge, CommitConfirm
  <2>2. Settled' \subseteq Settled \cup {charge[h]}
    BY <2>1, BooksFacts DEF Settled
  <2>3. QED
    BY <2>1, <2>2
<1>8. ASSUME NEW h \in Handlers, AbandonCharge(h)
      PROVE  Settled' \subseteq Settled /\ confirmed' = confirmed
  <2>1. PICK s \in JobStatus \ {"SUCCEEDED"} :
             /\ intake' = [intake EXCEPT ![charge[h]] = s]
             /\ reference' = reference /\ confirmed' = confirmed
    BY <1>8 DEF AbandonCharge, Abandon, JobStatus
  <2>2. QED
    BY <2>1, BooksFacts DEF Settled
<1>9. QED
  BY <1>1, <1>2, <1>3, <1>4, <1>5, <1>6, <1>7, <1>8 DEF IntakeNext

\* As many payments are confirmed as charges settled.
LEMMA SuccessKept ==
    ASSUME IsFiniteSet(Charges)
    PROVE  Books /\ SuccessBooks /\ [IntakeNext]_<<vars, intakeVars>> => SuccessBooks'
<1>1. SUFFICES ASSUME Books, SuccessBooks, [IntakeNext]_<<vars, intakeVars>>
               PROVE  SuccessBooks'
  OBVIOUS
<1>2. confirmed \in Nat
  BY <1>1, BooksFacts
<1>3. CASE UNCHANGED <<vars, intakeVars>>
  <2>1. Settled' = Settled /\ confirmed' = confirmed
    BY <1>3 DEF Settled, vars, intakeVars
  <2>2. QED
    BY <1>1, <2>1 DEF SuccessBooks
<1>4. CASE IntakeNext
  <2>1. /\ Settled \in SUBSET Charges /\ Settled' \in SUBSET Charges
        /\ \/ Settled' \subseteq Settled /\ confirmed' = confirmed
           \/ /\ confirmed' = confirmed + 1
              /\ \E c : Settled' \subseteq Settled \cup {c}
    BY <1>1, <1>4, SettledGrows
  <2>2. Cardinality(Settled) <= confirmed
    BY <1>1 DEF SuccessBooks
  <2> DEFINE n == Cardinality(Settled)
             m == Cardinality(Settled')
  <2>3. n \in Nat /\ m \in Nat
    BY <2>1, NoMore
  <2>4. CASE Settled' \subseteq Settled /\ confirmed' = confirmed
    <3>1. m <= n
      BY <2>1, <2>4, NoMore
    <3> HIDE DEF n, m
    <3>2. m <= confirmed'
      BY <1>2, <2>2, <2>3, <2>4, <3>1 DEF n
    <3>3. QED
      BY <3>2 DEF m, SuccessBooks
  <2>5. CASE confirmed' = confirmed + 1 /\ \E c : Settled' \subseteq Settled \cup {c}
    <3>1. m <= n + 1
      BY <2>1, <2>5, OneMore
    <3>2. n <= confirmed
      BY <2>2
    <3> HIDE DEF n, m
    <3>3. m <= confirmed'
      BY <1>2, <2>3, <2>5, <3>1, <3>2
    <3>4. QED
      BY <3>3 DEF m, SuccessBooks
  <2>6. QED
    BY <2>1, <2>4, <2>5
<1>5. QED
  BY <1>1, <1>3, <1>4

\* Nothing has succeeded at first.
LEMMA NoneSettled == IntakeInit => SuccessBooks
<1>1. SUFFICES ASSUME IntakeInit PROVE SuccessBooks
  OBVIOUS
<1>2. Settled = {} /\ confirmed = 0
  BY <1>1, IntakeAssumption DEF IntakeInit, Init, Settled
<1>3. QED
  BY <1>2, FS_EmptySet DEF SuccessBooks

\* With finitely many charges: each is held once but for the commits and the
\* reviews that history names, and no more of their jobs succeed than payments
\* were confirmed, so that one that confirmed nothing is left FAILED.
THEOREM EveryChargeAccounted ==
    ASSUME IsFiniteSet(Charges)
    PROVE  IntakeSpec => []ChargesAccounted
<1>1. Books /\ SuccessBooks => SuccessIsConfirmed
  <2>1. SUFFICES ASSUME Books, SuccessBooks PROVE SuccessIsConfirmed
    OBVIOUS
  <2> DEFINE S == {c \in Charges : intake[c] = "SUCCEEDED"}
  <2>2. S \in SUBSET Settled /\ Settled \in SUBSET Charges
    BY DEF Settled
  <2>3. Cardinality(S) \in Nat /\ Cardinality(Settled) \in Nat
        /\ Cardinality(S) <= Cardinality(Settled)
    BY <2>2, NoMore
  <2>4. Cardinality(Settled) <= confirmed /\ confirmed \in Nat
    BY <2>1, BooksFacts DEF SuccessBooks
  <2>5. Cardinality(S) <= confirmed
    BY <2>3, <2>4
  <2>6. QED
    BY <2>5 DEF SuccessIsConfirmed
<1>2. IntakeSpec => []SuccessBooks
  BY NoneSettled, SuccessKept, BooksInvariance, PTL DEF IntakeSpec
<1>3. HeldOnce /\ SuccessIsConfirmed => ChargesAccounted
  BY DEF ChargesAccounted
<1>4. QED
  BY <1>1, <1>2, <1>3, BooksInvariance, ChargesHeldOnce, PTL
=============================================================================

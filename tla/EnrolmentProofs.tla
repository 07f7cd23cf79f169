---------------------------- MODULE EnrolmentProofs ----------------------------
(***************************************************************************)
(* That an enrolment is decided once, for any number of calls and rows.    *)
(* The count of an enrolment's rollovers says nothing of the calls that    *)
(* will add to it; Decided does: an ACTIVE enrolment has no rollover, so a *)
(* commit that finds the status it read adds the first one, and any other  *)
(* commit is counted in overlaps.                                          *)
(*                                                                         *)
(* Then that the transfers, their rollovers, enrolments and disputes agree *)
(* as long as no commit is counted there, and that closed ones stay closed.*)
(***************************************************************************)
EXTENDS Enrolment, FiniteSetTheorems, SequenceTheorems, TLAPS

\* The tables refer to rows of one another that are there.
Indices ==
    /\ Len(enrolments) <= MaxEnrolments
    /\ Len(rollovers) <= MaxRollovers
    /\ Len(disputes) <= MaxDisputes
    /\ \A r \in 1 .. Len(rollovers) :
           rollovers[r].enrolment <= Len(enrolments) /\ rollovers[r].dispute <= Len(disputes)
    /\ \A t \in 1 .. Len(transfers) : transfers[t].enrolment <= Len(enrolments)

\* So do the calls, and a confirmation has read an ACTIVE enrolment.
Reads(x) ==
    /\ x.kind = "confirm" => x.status = "ACTIVE"
    /\ x.kind \in {"confirm", "request"} => x.row \in 1 .. Len(enrolments)
    /\ x.kind \in {"review", "complete"} => x.row \in 1 .. Len(transfers)
    /\ x.kind \in {"dispute", "resolve"} =>
          x.row \in 1 .. Len(rollovers) /\ x.transfer \in 0 .. Len(transfers)
    /\ x.kind = "resolve" => x.dispute \in 1 .. Len(disputes) /\ x.status \in TransferStatus

CallsRead == \A c \in Calls : Reads(call[c])

TypeInv == TypeOK /\ Indices /\ CallsRead

Decided ==
    \A e \in 1 .. Len(enrolments) : enrolments[e].status = "ACTIVE" => RolloversOf(e) = {}

-----------------------------------------------------------------------------
\* The tables only grow, so a call that goes on, or ends, still refers to rows
\* that are there.
LEMMA CallsStay ==
    ASSUME TypeInv, NEW c \in Calls,
           Len(enrolments') \in Nat, Len(enrolments) <= Len(enrolments'),
           Len(rollovers') \in Nat, Len(rollovers) <= Len(rollovers'),
           Len(transfers') \in Nat, Len(transfers) <= Len(transfers'),
           Len(disputes') \in Nat, Len(disputes) <= Len(disputes'),
           call' = call \/ call' = [call EXCEPT ![c] = NoCall]
    PROVE  call' \in [Calls -> Call] /\ CallsRead'
<1>1. NoCall \in Call
  BY DEF NoCall, Call, Kinds, Decision, TransferStatus
<1>2. /\ Len(enrolments) \in Nat /\ Len(rollovers) \in Nat
      /\ Len(transfers) \in Nat /\ Len(disputes) \in Nat
  BY LenProperties DEF TypeInv, TypeOK
<1>3. call \in [Calls -> Call]
  BY DEF TypeInv, TypeOK
<1>4. call' \in [Calls -> Call]
  BY <1>1, <1>3
<1>5. ASSUME NEW d \in Calls PROVE Reads(call[d])'
  <2>1. call'[d] = call[d] \/ call'[d] = NoCall
    BY <1>3
  <2>2. CASE call'[d] = call[d]
    <3>1. Reads(call[d])
      BY DEF TypeInv, CallsRead
    <3>2. Reads(call[d]) => Reads(call[d])'
      BY <1>2, <1>3, <2>2 DEF Reads, Call
    <3> QED BY <3>1, <3>2
  <2>3. CASE call'[d] = NoCall
    BY <2>3 DEF Reads, NoCall
  <2> QED BY <2>1, <2>2, <2>3
<1> QED BY <1>4, <1>5 DEF CallsRead

LEMMA RestingCall == NoCall \in Call /\ NoCall.kind = "none"
BY DEF NoCall, Call, Decision, TransferStatus

\* What the calls with one row have read.
LEMMA ConfirmingCall ==
    ASSUME NEW e \in Nat, NEW d \in Decision
    PROVE  LET x == [NoCall EXCEPT !.kind = "confirm", !.row = e, !.decision = d,
                                   !.status = "ACTIVE"]
           IN  x \in Call /\ x.kind = "confirm" /\ x.row = e /\ x.status = "ACTIVE"
BY RestingCall DEF Call, Kinds

LEMMA RequestingCall ==
    ASSUME NEW e \in Nat
    PROVE  LET x == [NoCall EXCEPT !.kind = "request", !.row = e]
           IN  x \in Call /\ x.kind = "request" /\ x.row = e
BY RestingCall DEF Call, Kinds

LEMMA ReviewingCall ==
    ASSUME NEW t \in Nat, NEW s \in TransferStatus
    PROVE  LET x == [NoCall EXCEPT !.kind = "review", !.row = t, !.status = s]
           IN  x \in Call /\ x.kind = "review" /\ x.row = t
BY RestingCall DEF Call, Kinds

\* A call begins with what it read.
LEMMA CallBegins ==
    ASSUME TypeInv, NEW c \in Calls, NEW what \in Call, Reads(what),
           Begin(c, what)
    PROVE  TypeInv'
<1>1. call \in [Calls -> Call] /\ CallsRead
  BY DEF TypeInv, TypeOK
<1>2. call' = [call EXCEPT ![c] = what] /\ UNCHANGED <<tables, overlaps>>
  BY DEF Begin
<1>3. call' \in [Calls -> Call]
  BY <1>1, <1>2
<1>4. CallsRead'
  BY <1>1, <1>2 DEF CallsRead, Reads, tables
<1>5. TypeOK'
  BY <1>2, <1>3 DEF TypeInv, TypeOK, tables
<1>6. Indices'
  BY <1>2 DEF TypeInv, Indices, tables
<1> QED BY <1>4, <1>5, <1>6 DEF TypeInv

\* The count of overlaps after a call has ended.
LEMMA EndCounts ==
    ASSUME TypeOK, NEW c \in Calls, NEW current \in BOOLEAN, End(c, current)
    PROVE  /\ call' = [call EXCEPT ![c] = NoCall]
           /\ overlaps' \in 0 .. MaxOverlaps
           /\ overlaps' = IF current THEN overlaps ELSE overlaps + 1
<1>1. MaxOverlaps \in Nat /\ overlaps \in 0 .. MaxOverlaps
  BY EnrolmentAssumption DEF TypeOK
<1> QED BY <1>1 DEF End

\* A row appended to a table.
LEMMA Added ==
    ASSUME NEW S, NEW s \in Seq(S), NEW x \in S
    PROVE  /\ Append(s, x) \in Seq(S)
           /\ Len(Append(s, x)) = Len(s) + 1
           /\ Len(s) \in Nat
           /\ \A i \in 1 .. Len(s) : Append(s, x)[i] = s[i]
           /\ Append(s, x)[Len(s) + 1] = x
BY AppendProperties, LenProperties

-----------------------------------------------------------------------------
\* The actions that begin or change a call.
LEMMA ReadingKeepsTypes ==
    ASSUME TypeInv, NEW c \in Calls,
           \/ ReadConfirm(c) \/ ReadRequest(c) \/ ReadReview(c) \/ StartCompletion(c)
           \/ ReadDispute(c) \/ ReadResolve(c) \/ Abandon(c)
    PROVE  TypeInv'
<1>1. /\ DOMAIN enrolments = 1 .. Len(enrolments) /\ Len(enrolments) \in Nat
      /\ DOMAIN rollovers = 1 .. Len(rollovers) /\ Len(rollovers) \in Nat
      /\ DOMAIN transfers = 1 .. Len(transfers) /\ Len(transfers) \in Nat
      /\ Len(disputes) \in Nat
  BY LenProperties DEF TypeInv, TypeOK
<1>2. /\ \A e \in 1 .. Len(enrolments) : enrolments[e] \in Enrolled
      /\ \A r \in 1 .. Len(rollovers) : rollovers[r] \in RolledOver
      /\ \A t \in 1 .. Len(transfers) : transfers[t] \in Transferred
  BY ElementOfSeq DEF TypeInv, TypeOK
<1>4. ASSUME NEW r \in 1 .. Len(rollovers)
      PROVE  TransferOf(r) \in 0 .. Len(transfers)
                /\ TransferStatusOf(TransferOf(r)) \in TransferStatus
  <2>1. TransferOf(r) \in 0 .. Len(transfers)
    BY <1>1 DEF TransferOf
  <2>2. TransferStatusOf(TransferOf(r)) \in TransferStatus
    <3>1. CASE TransferOf(r) = 0
      BY <3>1 DEF TransferStatusOf, TransferStatus
    <3>2. CASE TransferOf(r) # 0
      BY <1>1, <1>2, <2>1, <3>2 DEF TransferStatusOf, Transferred
    <3> QED BY <3>1, <3>2
  <2> QED BY <2>1, <2>2
<1>5. CASE ReadConfirm(c)
  <2>1. PICK e \in DOMAIN enrolments, d \in Decision :
            /\ ConfirmAccepts(e)
            /\ Begin(c, [NoCall EXCEPT !.kind = "confirm", !.row = e, !.decision = d,
                                       !.status = enrolments[e].status])
    BY <1>5 DEF ReadConfirm
  <2> DEFINE what == [NoCall EXCEPT !.kind = "confirm", !.row = e, !.decision = d,
                                    !.status = "ACTIVE"]
  <2>2. Begin(c, what)
    BY <2>1 DEF ConfirmAccepts
  <2>3. e \in Nat
    BY <1>1
  <2>4. what \in Call /\ what.kind = "confirm" /\ what.row = e /\ what.status = "ACTIVE"
    BY <2>3, ConfirmingCall
  <2> HIDE DEF what
  <2>5. Reads(what)
    BY <1>1, <2>4 DEF Reads
  <2> QED BY <2>2, <2>4, <2>5, CallBegins
<1>6. CASE ReadRequest(c)
  <2>1. PICK e \in DOMAIN enrolments : Begin(c, [NoCall EXCEPT !.kind = "request", !.row = e])
    BY <1>6 DEF ReadRequest
  <2> DEFINE what == [NoCall EXCEPT !.kind = "request", !.row = e]
  <2>2. Begin(c, what)
    BY <2>1
  <2>3. e \in Nat
    BY <1>1
  <2>4. what \in Call /\ what.kind = "request" /\ what.row = e
    BY <2>3, RequestingCall
  <2> HIDE DEF what
  <2>5. Reads(what)
    BY <1>1, <2>4 DEF Reads
  <2> QED BY <2>2, <2>4, <2>5, CallBegins
<1>7. CASE ReadReview(c)
  <2>1. PICK t \in DOMAIN transfers :
            Begin(c, [NoCall EXCEPT !.kind = "review", !.row = t,
                                    !.status = transfers[t].status])
    BY <1>7 DEF ReadReview
  <2> DEFINE what == [NoCall EXCEPT !.kind = "review", !.row = t,
                                    !.status = transfers[t].status]
  <2>2. Begin(c, what)
    BY <2>1
  <2>3. t \in Nat /\ transfers[t].status \in TransferStatus
    BY <1>1, <1>2 DEF Transferred
  <2>4. what \in Call /\ what.kind = "review" /\ what.row = t
    BY <2>3, ReviewingCall
  <2> HIDE DEF what
  <2>5. Reads(what)
    BY <1>1, <2>4 DEF Reads
  <2> QED BY <2>2, <2>4, <2>5, CallBegins
<1>8. CASE StartCompletion(c)
  <2>1. /\ call[c].kind = "review"
        /\ call' = [call EXCEPT ![c].kind = "complete"]
        /\ UNCHANGED <<tables, overlaps>>
    BY <1>8 DEF StartCompletion
  <2>2. call \in [Calls -> Call] /\ Reads(call[c]) /\ CallsRead
    BY DEF TypeInv, TypeOK, CallsRead
  <2>3. call' \in [Calls -> Call]
    BY <2>1, <2>2 DEF Call, Kinds
  <2>4. Indices'
    BY <2>1 DEF TypeInv, Indices, tables
  <2>5. TypeOK'
    BY <2>1, <2>3 DEF TypeInv, TypeOK, tables
  <2>6. ASSUME NEW d \in Calls PROVE Reads(call[d])'
    <3>1. CASE d = c
      <4>1. call'[d] = [call[c] EXCEPT !.kind = "complete"]
        BY <2>1, <2>2, <3>1
      <4> QED BY <4>1, <2>1, <2>2 DEF Reads, tables, Call
    <3>2. CASE d # c
      <4>1. call'[d] = call[d] /\ Reads(call[d])
        BY <2>1, <2>2, <3>2 DEF CallsRead
      <4> QED BY <4>1, <2>1 DEF Reads, tables
    <3> QED BY <3>1, <3>2
  <2> QED BY <2>4, <2>5, <2>6 DEF TypeInv, CallsRead
<1>9. CASE ReadDispute(c)
  <2>1. PICK r \in DOMAIN rollovers :
            Begin(c, [NoCall EXCEPT !.kind = "dispute", !.row = r, !.transfer = TransferOf(r),
                                    !.status = TransferStatusOf(TransferOf(r))])
    BY <1>9 DEF ReadDispute
  <2>2. r \in 1 .. Len(rollovers) /\ r \in Nat
    BY <1>1
  <2>3. PICK t \in 0 .. Len(transfers), s \in TransferStatus :
            t = TransferOf(r) /\ s = TransferStatusOf(TransferOf(r))
    BY <1>4, <2>2
  <2> DEFINE what == [NoCall EXCEPT !.kind = "dispute", !.row = r, !.transfer = t, !.status = s]
  <2>4. Begin(c, what)
    BY <2>1, <2>3
  <2>5. t \in Nat /\ s \in TransferStatus
    BY <1>1
  <2>6. what \in Call /\ what.kind = "dispute" /\ what.row = r /\ what.transfer = t
    BY <2>2, <2>5, RestingCall DEF Call, Kinds
  <2> HIDE DEF what
  <2>7. Reads(what)
    BY <2>2, <2>6 DEF Reads
  <2> QED BY <2>4, <2>6, <2>7, CallBegins
<1>10. CASE ReadResolve(c)
  <2>1. PICK r \in DOMAIN rollovers :
            /\ rollovers[r].dispute # 0
            /\ Begin(c, [NoCall EXCEPT !.kind = "resolve", !.row = r,
                                       !.dispute = rollovers[r].dispute,
                                       !.transfer = TransferOf(r),
                                       !.status = TransferStatusOf(TransferOf(r))])
    BY <1>10 DEF ReadResolve
  <2>2. r \in 1 .. Len(rollovers) /\ r \in Nat
    BY <1>1
  <2>3. PICK t \in 0 .. Len(transfers), s \in TransferStatus :
            t = TransferOf(r) /\ s = TransferStatusOf(TransferOf(r))
    BY <1>4, <2>2
  <2>4. PICK q \in 1 .. Len(disputes) : q = rollovers[r].dispute
    BY <1>1, <1>2, <2>1, <2>2, EnrolmentAssumption DEF RolledOver, TypeInv, Indices
  <2> DEFINE what == [NoCall EXCEPT !.kind = "resolve", !.row = r, !.dispute = q,
                                    !.transfer = t, !.status = s]
  <2>5. Begin(c, what)
    BY <2>1, <2>3, <2>4
  <2>6. t \in Nat /\ q \in Nat /\ s \in TransferStatus
    BY <1>1
  <2>7. /\ what \in Call
        /\ what.kind = "resolve" /\ what.row = r /\ what.dispute = q
        /\ what.transfer = t /\ what.status = s
    BY <2>2, <2>6, RestingCall DEF Call, Kinds
  <2> HIDE DEF what
  <2>8. Reads(what)
    BY <2>2, <2>7 DEF Reads
  <2> QED BY <2>5, <2>7, <2>8, CallBegins
<1>11. CASE Abandon(c)
  <2>1. call' = [call EXCEPT ![c] = NoCall] /\ UNCHANGED <<tables, overlaps>>
    BY <1>11 DEF Abandon
  <2>2. call' \in [Calls -> Call] /\ CallsRead'
    <3>1. /\ Len(enrolments') = Len(enrolments) /\ Len(rollovers') = Len(rollovers)
          /\ Len(transfers') = Len(transfers) /\ Len(disputes') = Len(disputes)
      BY <2>1 DEF tables
    <3>2. /\ Len(enrolments) <= Len(enrolments') /\ Len(rollovers) <= Len(rollovers')
          /\ Len(transfers) <= Len(transfers') /\ Len(disputes) <= Len(disputes')
      BY <1>1, <3>1
    <3> QED BY <1>1, <2>1, <3>1, <3>2, CallsStay
  <2>3. Indices'
    BY <2>1 DEF TypeInv, Indices, tables
  <2>4. TypeOK'
    BY <2>1, <2>2 DEF TypeInv, TypeOK, tables
  <2> QED BY <2>2, <2>3, <2>4 DEF TypeInv
<1> QED BY <1>5, <1>6, <1>7, <1>8, <1>9, <1>10, <1>11

\* The actions that write the tables without a call.
LEMMA OthersKeepTypes ==
    ASSUME TypeInv, IngestStudent \/ EscalateDispute \/ CloseDispute
    PROVE  TypeInv'
<1>1. /\ DOMAIN enrolments = 1 .. Len(enrolments) /\ Len(enrolments) \in Nat
      /\ DOMAIN disputes = 1 .. Len(disputes) /\ Len(disputes) \in Nat
      /\ Len(rollovers) \in Nat /\ Len(transfers) \in Nat
  BY LenProperties DEF TypeInv, TypeOK
<1>2. /\ \A r \in 1 .. Len(rollovers) : rollovers[r] \in RolledOver
      /\ \A t \in 1 .. Len(transfers) : transfers[t] \in Transferred
  BY ElementOfSeq DEF TypeInv, TypeOK
<1>3. CASE IngestStudent
  <2>1. /\ Len(enrolments) < MaxEnrolments
        /\ enrolments' = Append(enrolments, [status |-> "ACTIVE", placed |-> FALSE])
        /\ UNCHANGED <<rollovers, transfers, disputes, call, overlaps>>
    BY <1>3 DEF IngestStudent
  <2>2. [status |-> "ACTIVE", placed |-> FALSE] \in Enrolled
    BY DEF Enrolled
  <2>3. enrolments' \in Seq(Enrolled) /\ Len(enrolments') = Len(enrolments) + 1
    BY <2>1, <2>2, Added DEF TypeInv, TypeOK
  <2>4. TypeOK'
    BY <2>1, <2>3 DEF TypeInv, TypeOK
  <2>5. Indices'
    BY <1>1, <1>2, <2>1, <2>3, EnrolmentAssumption
       DEF TypeInv, Indices, RolledOver, Transferred
  <2>6. ASSUME NEW d \in Calls PROVE Reads(call[d])'
    BY <1>1, <2>1, <2>3 DEF TypeInv, CallsRead, Reads
  <2> QED BY <2>4, <2>5, <2>6 DEF TypeInv, CallsRead
<1>4. CASE EscalateDispute \/ CloseDispute
  <2>1. PICK d \in DOMAIN disputes, s \in DisputeStatus : disputes' = [disputes EXCEPT ![d] = s]
    BY <1>4 DEF EscalateDispute, CloseDispute, DisputeStatus
  <2>2. UNCHANGED <<enrolments, rollovers, transfers, call, overlaps>>
    BY <1>4 DEF EscalateDispute, CloseDispute
  <2>3. disputes' \in Seq(DisputeStatus) /\ Len(disputes') = Len(disputes)
    BY <1>1, <2>1, ExceptSeq DEF TypeInv, TypeOK
  <2>4. TypeOK'
    BY <2>2, <2>3 DEF TypeInv, TypeOK
  <2>5. Indices'
    BY <2>2, <2>3 DEF TypeInv, Indices
  <2>6. ASSUME NEW c \in Calls PROVE Reads(call[c])'
    BY <2>2, <2>3 DEF TypeInv, CallsRead, Reads
  <2> QED BY <2>4, <2>5, <2>6 DEF TypeInv, CallsRead
<1> QED BY <1>3, <1>4

\* What a commit leaves: the tables with their types, grown, and the call ended.
LEMMA CommitKeepsTypes ==
    ASSUME TypeInv, NEW c \in Calls, NEW current \in BOOLEAN, End(c, current),
           enrolments' \in Seq(Enrolled), rollovers' \in Seq(RolledOver),
           transfers' \in Seq(Transferred), disputes' \in Seq(DisputeStatus),
           Len(enrolments) <= Len(enrolments'), Len(rollovers) <= Len(rollovers'),
           Len(transfers) <= Len(transfers'), Len(disputes) <= Len(disputes'),
           Indices'
    PROVE  TypeInv'
<1>1. /\ Len(enrolments') \in Nat /\ Len(rollovers') \in Nat
      /\ Len(transfers') \in Nat /\ Len(disputes') \in Nat
  BY LenProperties
<1>2. call' = [call EXCEPT ![c] = NoCall] /\ overlaps' \in 0 .. MaxOverlaps
  BY EndCounts DEF TypeInv
<1>3. call' \in [Calls -> Call] /\ CallsRead'
  BY <1>1, <1>2, CallsStay
<1> QED BY <1>2, <1>3 DEF TypeInv, TypeOK

\* A transfer written over, of the same enrolment.
LEMMA TransferWritten ==
    ASSUME transfers \in Seq(Transferred), NEW t \in 1 .. Len(transfers), NEW x \in Transferred,
           x.enrolment = transfers[t].enrolment,
           transfers' = [transfers EXCEPT ![t] = x]
    PROVE  /\ transfers' \in Seq(Transferred) /\ Len(transfers') = Len(transfers)
           /\ \A u \in 1 .. Len(transfers) : transfers'[u].enrolment = transfers[u].enrolment
BY ExceptSeq

\* The rows a decision writes.
LEMMA RowsWritten ==
    /\ \A row \in Transferred, k \in 0 .. MaxRollovers :
           Completed(row, k) \in Transferred /\ Completed(row, k).enrolment = row.enrolment
    /\ \A row \in Transferred, d \in 0 .. MaxDisputes :
           LET x == [row EXCEPT !.status = "DISPUTED", !.dispute = d]
           IN  x \in Transferred /\ x.enrolment = row.enrolment
    /\ \A row \in RolledOver, d \in 0 .. MaxDisputes :
           LET y == [row EXCEPT !.dispute = d]
           IN  y \in RolledOver /\ y.enrolment = row.enrolment /\ y.dispute = d
<1>1. ASSUME NEW row \in Transferred, NEW k \in 0 .. MaxRollovers
      PROVE  Completed(row, k) \in Transferred /\ Completed(row, k).enrolment = row.enrolment
  BY DEF Completed, Transferred, TransferStatus
<1>2. ASSUME NEW row \in Transferred, NEW d \in 0 .. MaxDisputes
      PROVE  LET x == [row EXCEPT !.status = "DISPUTED", !.dispute = d]
             IN  x \in Transferred /\ x.enrolment = row.enrolment
  BY DEF Transferred, TransferStatus
<1>3. ASSUME NEW row \in RolledOver, NEW d \in 0 .. MaxDisputes
      PROVE  LET y == [row EXCEPT !.dispute = d]
             IN  y \in RolledOver /\ y.enrolment = row.enrolment /\ y.dispute = d
  BY DEF RolledOver
<1> QED BY <1>1, <1>2, <1>3

-----------------------------------------------------------------------------
\* The commits.
LEMMA CommitsKeepTypes ==
    ASSUME TypeInv, NEW c \in Calls,
           \/ CommitConfirm(c) \/ CommitRequest(c) \/ CommitRefusal(c) \/ CommitCompletion(c)
           \/ CommitDispute(c) \/ CommitResolve(c)
    PROVE  TypeInv'
<1>1. /\ DOMAIN enrolments = 1 .. Len(enrolments) /\ Len(enrolments) \in Nat
      /\ DOMAIN rollovers = 1 .. Len(rollovers) /\ Len(rollovers) \in Nat
      /\ DOMAIN transfers = 1 .. Len(transfers) /\ Len(transfers) \in Nat
      /\ DOMAIN disputes = 1 .. Len(disputes) /\ Len(disputes) \in Nat
  BY LenProperties DEF TypeInv, TypeOK
<1>2. /\ \A e \in 1 .. Len(enrolments) : enrolments[e] \in Enrolled
      /\ \A r \in 1 .. Len(rollovers) : rollovers[r] \in RolledOver
      /\ \A t \in 1 .. Len(transfers) : transfers[t] \in Transferred
  BY ElementOfSeq DEF TypeInv, TypeOK
<1>3. /\ enrolments \in Seq(Enrolled) /\ rollovers \in Seq(RolledOver)
      /\ transfers \in Seq(Transferred) /\ disputes \in Seq(DisputeStatus)
      /\ Indices /\ call[c] \in Call /\ Reads(call[c])
  BY DEF TypeInv, TypeOK, CallsRead
<1>4. /\ MaxEnrolments \in Nat /\ MaxRollovers \in Nat /\ MaxDisputes \in Nat
      /\ MaxTransfers \in Nat
  BY EnrolmentAssumption
<1>5. CASE CommitConfirm(c)
  <2> DEFINE e == call[c].row
             d == call[c].decision
             x == [enrolment |-> e, decision |-> d, dispute |-> 0]
             decided == [enrolments EXCEPT ![e].status = d]
             next == IF d \in Renewing THEN <<[status |-> "ACTIVE", placed |-> TRUE]>>
                     ELSE <<>>
  <2>1. /\ Len(enrolments') <= MaxEnrolments /\ Len(rollovers) < MaxRollovers
        /\ enrolments' = decided \o next
        /\ rollovers' = Append(rollovers, x)
        /\ End(c, enrolments[e].status = call[c].status)
        /\ UNCHANGED <<transfers, disputes>>
    BY <1>5 DEF CommitConfirm, Confirmed
  <2>2. e \in 1 .. Len(enrolments) /\ d \in Decision
    BY <1>3, <1>5 DEF CommitConfirm, Reads, Call
  <2>3. decided \in Seq(Enrolled) /\ Len(decided) = Len(enrolments)
    <3>1. [enrolments[e] EXCEPT !.status = d] \in Enrolled
      BY <1>2, <2>2 DEF Enrolled
    <3>2. decided = [enrolments EXCEPT ![e] = [enrolments[e] EXCEPT !.status = d]]
      OBVIOUS
    <3> HIDE DEF decided
    <3> QED BY <1>3, <2>2, <3>1, <3>2, ExceptSeq
  <2>4. next \in Seq(Enrolled) /\ Len(next) \in Nat
    <3>1. [status |-> "ACTIVE", placed |-> TRUE] \in Enrolled
      BY DEF Enrolled
    <3> QED BY <3>1
  <2>5. enrolments' \in Seq(Enrolled) /\ Len(enrolments) <= Len(enrolments')
          /\ Len(enrolments') \in Nat
    <3> HIDE DEF decided, next
    <3>1. decided \o next \in Seq(Enrolled) /\ Len(decided \o next) = Len(decided) + Len(next)
      BY <2>3, <2>4, ConcatProperties
    <3> QED BY <1>1, <2>1, <2>3, <2>4, <3>1
  <2>6. x \in RolledOver
    BY <1>1, <1>3, <1>4, <2>2 DEF RolledOver, Indices
  <2> HIDE DEF decided, next
  <2>7. /\ rollovers' \in Seq(RolledOver) /\ Len(rollovers') = Len(rollovers) + 1
        /\ \A r \in 1 .. Len(rollovers) : rollovers'[r] = rollovers[r]
        /\ rollovers'[Len(rollovers) + 1] = x
    BY <1>3, <2>1, <2>6, Added
  <2>8. Indices'
    <3>1. ASSUME NEW r \in 1 .. Len(rollovers')
          PROVE  rollovers'[r].enrolment <= Len(enrolments') /\ rollovers'[r].dispute <= Len(disputes')
      <4>1. CASE r \in 1 .. Len(rollovers)
        BY <1>1, <1>2, <1>3, <2>1, <2>5, <2>7, <4>1 DEF Indices, RolledOver
      <4>2. CASE r = Len(rollovers) + 1
        BY <1>1, <2>1, <2>2, <2>5, <2>7, <4>2
      <4> QED BY <1>1, <2>7, <4>1, <4>2
    <3>2. ASSUME NEW t \in 1 .. Len(transfers') PROVE transfers'[t].enrolment <= Len(enrolments')
      BY <1>1, <1>2, <1>3, <2>1, <2>5 DEF Indices, Transferred
    <3> QED BY <1>1, <1>3, <1>4, <2>1, <2>7, <3>1, <3>2 DEF Indices
  <2> DEFINE current == enrolments[e].status = call[c].status
  <2>9. End(c, current) /\ current \in BOOLEAN
    BY <2>1
  <2>10. /\ Len(rollovers) <= Len(rollovers')
         /\ transfers' \in Seq(Transferred) /\ Len(transfers) <= Len(transfers')
         /\ disputes' \in Seq(DisputeStatus) /\ Len(disputes) <= Len(disputes')
    BY <1>1, <1>3, <2>1, <2>7
  <2> HIDE DEF current
  <2> QED BY <2>5, <2>7, <2>8, <2>9, <2>10, CommitKeepsTypes
<1>6. CASE CommitRequest(c)
  <2> DEFINE x == [enrolment |-> call[c].row, status |-> "REQUESTED", rollover |-> 0,
                   dispute |-> 0]
  <2>1. /\ transfers' = Append(transfers, x)
        /\ End(c, TRUE)
        /\ UNCHANGED <<enrolments, rollovers, disputes>>
    BY <1>6 DEF CommitRequest
  <2>2. call[c].row \in 1 .. Len(enrolments)
    BY <1>3, <1>6 DEF CommitRequest, Reads
  <2>3. x \in Transferred
    BY <1>1, <1>3, <1>4, <2>2 DEF Transferred, TransferStatus, Indices
  <2>4. /\ transfers' \in Seq(Transferred) /\ Len(transfers') = Len(transfers) + 1
        /\ \A t \in 1 .. Len(transfers) : transfers'[t] = transfers[t]
        /\ transfers'[Len(transfers) + 1] = x
    BY <1>3, <2>1, <2>3, Added
  <2>5. Indices'
    <3>1. ASSUME NEW t \in 1 .. Len(transfers') PROVE transfers'[t].enrolment <= Len(enrolments')
      <4>1. CASE t \in 1 .. Len(transfers)
        BY <1>3, <2>1, <2>4, <4>1 DEF Indices
      <4>2. CASE t = Len(transfers) + 1
        BY <1>1, <2>1, <2>2, <2>4, <4>2
      <4> QED BY <1>1, <2>4, <4>1, <4>2
    <3> QED BY <1>3, <2>1, <3>1 DEF Indices
  <2>6. /\ enrolments' \in Seq(Enrolled) /\ Len(enrolments) <= Len(enrolments')
        /\ rollovers' \in Seq(RolledOver) /\ Len(rollovers) <= Len(rollovers')
        /\ Len(transfers) <= Len(transfers')
        /\ disputes' \in Seq(DisputeStatus) /\ Len(disputes) <= Len(disputes')
    BY <1>1, <1>3, <2>1, <2>4
  <2> QED BY <2>1, <2>4, <2>5, <2>6, CommitKeepsTypes
<1>7. CASE CommitRefusal(c)
  <2> DEFINE t == call[c].row
             x == [transfers[t] EXCEPT !.status = "REJECTED"]
             current == transfers[t].status = call[c].status
  <2>1. /\ transfers' = [transfers EXCEPT ![t] = x]
        /\ End(c, current)
        /\ UNCHANGED <<enrolments, rollovers, disputes>>
    BY <1>7 DEF CommitRefusal
  <2>2. t \in 1 .. Len(transfers) /\ current \in BOOLEAN
    BY <1>3, <1>7 DEF CommitRefusal, Reads
  <2>3. x \in Transferred /\ x.enrolment = transfers[t].enrolment
    BY <1>2, <2>2 DEF Transferred, TransferStatus
  <2> HIDE DEF x, current, t
  <2>4. /\ transfers' \in Seq(Transferred) /\ Len(transfers') = Len(transfers)
        /\ \A u \in 1 .. Len(transfers) : transfers'[u].enrolment = transfers[u].enrolment
    BY <1>3, <2>1, <2>2, <2>3, TransferWritten
  <2>5. Indices'
    BY <1>3, <2>1, <2>4 DEF Indices
  <2>6. /\ enrolments' \in Seq(Enrolled) /\ Len(enrolments) <= Len(enrolments')
        /\ rollovers' \in Seq(RolledOver) /\ Len(rollovers) <= Len(rollovers')
        /\ Len(transfers) <= Len(transfers')
        /\ disputes' \in Seq(DisputeStatus) /\ Len(disputes) <= Len(disputes')
    BY <1>1, <1>3, <2>1, <2>4
  <2> QED BY <2>1, <2>2, <2>4, <2>5, <2>6, CommitKeepsTypes
<1>8. CASE CommitCompletion(c)
  <2> DEFINE t == call[c].row
             e == transfers[t].enrolment
             k == Len(rollovers) + 1
             x == Completed(transfers[t], k)
             y == [enrolment |-> e, decision |-> "TRANSFERRED_OUT", dispute |-> 0]
             z == [enrolments[e] EXCEPT !.status = "TRANSFERRED_OUT"]
             current == enrolments[e].status = "ACTIVE" /\ transfers[t].status = call[c].status
  <2>1. /\ Len(rollovers) < MaxRollovers
        /\ enrolments' = [enrolments EXCEPT ![e] = z]
        /\ rollovers' = Append(rollovers, y)
        /\ transfers' = [transfers EXCEPT ![t] = x]
        /\ End(c, current)
        /\ UNCHANGED disputes
    BY <1>8 DEF CommitCompletion
  <2>2. t \in 1 .. Len(transfers) /\ current \in BOOLEAN
    BY <1>3, <1>8 DEF CommitCompletion, Reads
  <2>3. /\ transfers[t] \in Transferred
        /\ e \in 1 .. Len(enrolments) /\ e \in 1 .. MaxEnrolments
    BY <1>1, <1>2, <1>3, <1>4, <2>2 DEF Indices, Transferred
  <2>4. x \in Transferred /\ x.enrolment = transfers[t].enrolment
    <3>1. k \in 0 .. MaxRollovers
      <4>1. Len(rollovers) < MaxRollovers
        BY <1>8 DEF CommitCompletion
      <4> QED BY <1>1, <1>4, <4>1
    <3>2. transfers[t] \in Transferred
      BY <2>3
    <3> HIDE DEF k, t
    <3> QED BY <3>1, <3>2, RowsWritten
  <2>5. y \in RolledOver /\ y.enrolment = e /\ y.dispute = 0
    BY <1>4, <2>3 DEF RolledOver, Decision
  <2>6. z \in Enrolled
    BY <1>2, <2>3 DEF Enrolled, Decision
  <2> HIDE DEF x, y, z, current, t
  <2>7. /\ transfers' \in Seq(Transferred) /\ Len(transfers') = Len(transfers)
        /\ \A u \in 1 .. Len(transfers) : transfers'[u].enrolment = transfers[u].enrolment
    BY <1>3, <2>1, <2>2, <2>4, TransferWritten
  <2>8. enrolments' \in Seq(Enrolled) /\ Len(enrolments') = Len(enrolments)
    BY <1>3, <2>1, <2>3, <2>6, ExceptSeq
  <2>9. /\ rollovers' \in Seq(RolledOver) /\ Len(rollovers') = Len(rollovers) + 1
        /\ \A r \in 1 .. Len(rollovers) : rollovers'[r] = rollovers[r]
        /\ rollovers'[Len(rollovers) + 1] = y
    BY <1>3, <2>1, <2>5, Added
  <2>10. Indices'
    <3>1. ASSUME NEW r \in 1 .. Len(rollovers')
          PROVE  rollovers'[r].enrolment <= Len(enrolments') /\ rollovers'[r].dispute <= Len(disputes')
      <4>1. CASE r \in 1 .. Len(rollovers)
        BY <1>3, <2>1, <2>8, <2>9, <4>1 DEF Indices
      <4>2. CASE r = Len(rollovers) + 1
        BY <1>1, <2>1, <2>3, <2>5, <2>8, <2>9, <4>2
      <4> QED BY <1>1, <2>9, <4>1, <4>2
    <3>2. ASSUME NEW u \in 1 .. Len(transfers') PROVE transfers'[u].enrolment <= Len(enrolments')
      BY <1>3, <2>7, <2>8 DEF Indices
    <3> QED BY <1>1, <1>3, <1>4, <2>1, <2>8, <2>9, <3>1, <3>2 DEF Indices
  <2>11. /\ Len(enrolments) <= Len(enrolments') /\ Len(rollovers) <= Len(rollovers')
         /\ Len(transfers) <= Len(transfers')
         /\ disputes' \in Seq(DisputeStatus) /\ Len(disputes) <= Len(disputes')
    BY <1>1, <1>3, <2>1, <2>7, <2>8, <2>9
  <2> QED BY <2>1, <2>2, <2>7, <2>8, <2>9, <2>10, <2>11, CommitKeepsTypes
<1>9. CASE CommitDispute(c)
  <2> DEFINE r == call[c].row
             t == call[c].transfer
             d == Len(disputes) + 1
             y == [rollovers[r] EXCEPT !.dispute = d]
             x == [transfers[t] EXCEPT !.status = "DISPUTED", !.dispute = d]
             current == /\ rollovers[r].dispute = 0
                        /\ TransferOf(r) = t
                        /\ TransferStatusOf(t) = call[c].status
  <2>1. /\ Len(disputes) < MaxDisputes
        /\ disputes' = Append(disputes, "OPEN")
        /\ rollovers' = [rollovers EXCEPT ![r] = y]
        /\ t = 0 => transfers' = transfers
        /\ t # 0 => transfers' = [transfers EXCEPT ![t] = x]
        /\ End(c, current)
        /\ UNCHANGED enrolments
    BY <1>9 DEF CommitDispute
  <2>2. r \in 1 .. Len(rollovers) /\ t \in 0 .. Len(transfers) /\ current \in BOOLEAN
    BY <1>3, <1>9 DEF CommitDispute, Reads
  <2>3. y \in RolledOver /\ y.enrolment = rollovers[r].enrolment /\ y.dispute = d
    <3>1. d \in 0 .. MaxDisputes
      <4>1. Len(disputes) < MaxDisputes
        BY <1>9 DEF CommitDispute
      <4> QED BY <1>1, <1>4, <4>1
    <3>2. rollovers[r] \in RolledOver
      BY <1>2, <2>2
    <3> HIDE DEF d, r
    <3> QED BY <3>1, <3>2, RowsWritten
  <2>4. t # 0 => x \in Transferred /\ x.enrolment = transfers[t].enrolment
    <3>1. d \in 0 .. MaxDisputes
      <4>1. Len(disputes) < MaxDisputes
        BY <1>9 DEF CommitDispute
      <4> QED BY <1>1, <1>4, <4>1
    <3>2. t # 0 => transfers[t] \in Transferred
      BY <1>1, <1>2, <2>2
    <3> HIDE DEF d, t
    <3> QED BY <3>1, <3>2, RowsWritten
  <2> HIDE DEF x, y, current, t, r
  <2>5. /\ transfers' \in Seq(Transferred) /\ Len(transfers') = Len(transfers)
        /\ \A u \in 1 .. Len(transfers) : transfers'[u].enrolment = transfers[u].enrolment
    <3>1. CASE t = 0
      BY <1>3, <2>1, <3>1
    <3>2. CASE t # 0
      <4>1. t \in 1 .. Len(transfers)
        BY <1>1, <2>2, <3>2
      <4> QED BY <1>3, <2>1, <2>4, <3>2, <4>1, TransferWritten
    <3> QED BY <3>1, <3>2
  <2>6. /\ rollovers' \in Seq(RolledOver) /\ Len(rollovers') = Len(rollovers)
        /\ \A q \in 1 .. Len(rollovers) : rollovers'[q] = IF q = r THEN y ELSE rollovers[q]
    BY <1>1, <1>3, <2>1, <2>2, <2>3, ExceptSeq
  <2>7. disputes' \in Seq(DisputeStatus) /\ Len(disputes') = Len(disputes) + 1
    BY <1>3, <2>1, Added DEF DisputeStatus
  <2>8. Indices'
    <3>1. ASSUME NEW q \in 1 .. Len(rollovers')
          PROVE  rollovers'[q].enrolment <= Len(enrolments') /\ rollovers'[q].dispute <= Len(disputes')
      <4>1. CASE q = r
        BY <1>1, <1>3, <2>1, <2>2, <2>3, <2>6, <2>7, <4>1 DEF Indices
      <4>2. CASE q # r
        BY <1>1, <1>2, <1>3, <1>4, <2>1, <2>6, <2>7, <4>2 DEF Indices, RolledOver
      <4> QED BY <4>1, <4>2
    <3>2. ASSUME NEW u \in 1 .. Len(transfers') PROVE transfers'[u].enrolment <= Len(enrolments')
      BY <1>3, <2>1, <2>5 DEF Indices
    <3> QED BY <1>1, <1>3, <1>4, <2>1, <2>6, <2>7, <3>1, <3>2 DEF Indices
  <2>9. /\ enrolments' \in Seq(Enrolled) /\ Len(enrolments) <= Len(enrolments')
        /\ Len(rollovers) <= Len(rollovers') /\ Len(transfers) <= Len(transfers')
        /\ Len(disputes) <= Len(disputes')
    BY <1>1, <1>3, <2>1, <2>5, <2>6, <2>7
  <2> QED BY <2>1, <2>2, <2>5, <2>6, <2>7, <2>8, <2>9, CommitKeepsTypes
<1>10. CASE CommitResolve(c)
  <2> DEFINE t == call[c].transfer
             s == ResolvedStatus(call[c].status)
             x == [transfers[t] EXCEPT !.status = s]
             current == /\ rollovers[call[c].row].dispute = call[c].dispute
                        /\ TransferStatusOf(t) = call[c].status
  <2>1. /\ disputes' = [disputes EXCEPT ![call[c].dispute] = "RESOLVED"]
        /\ t = 0 => transfers' = transfers
        /\ t # 0 => transfers' = [transfers EXCEPT ![t] = x]
        /\ End(c, current)
        /\ UNCHANGED <<enrolments, rollovers>>
    BY <1>10 DEF CommitResolve
  <2>2. /\ call[c].dispute \in 1 .. Len(disputes) /\ call[c].status \in TransferStatus
        /\ t \in 0 .. Len(transfers) /\ current \in BOOLEAN
    BY <1>3, <1>10 DEF CommitResolve, Reads
  <2>3. s \in TransferStatus
    BY <2>2 DEF ResolvedStatus, TransferStatus
  <2> HIDE DEF s
  <2>4. t # 0 => x \in Transferred /\ x.enrolment = transfers[t].enrolment
    BY <1>1, <1>2, <2>2, <2>3 DEF Transferred
  <2> HIDE DEF x, current, t
  <2>5. /\ transfers' \in Seq(Transferred) /\ Len(transfers') = Len(transfers)
        /\ \A u \in 1 .. Len(transfers) : transfers'[u].enrolment = transfers[u].enrolment
    <3>1. CASE t = 0
      BY <1>3, <2>1, <3>1
    <3>2. CASE t # 0
      <4>1. t \in 1 .. Len(transfers)
        BY <1>1, <2>2, <3>2
      <4> QED BY <1>3, <2>1, <2>4, <3>2, <4>1, TransferWritten
    <3> QED BY <3>1, <3>2
  <2>6. disputes' \in Seq(DisputeStatus) /\ Len(disputes') = Len(disputes)
    BY <1>3, <2>1, <2>2, ExceptSeq DEF DisputeStatus
  <2>7. Indices'
    BY <1>3, <2>1, <2>5, <2>6 DEF Indices
  <2>8. /\ enrolments' \in Seq(Enrolled) /\ Len(enrolments) <= Len(enrolments')
        /\ rollovers' \in Seq(RolledOver) /\ Len(rollovers) <= Len(rollovers')
        /\ Len(transfers) <= Len(transfers') /\ Len(disputes) <= Len(disputes')
    BY <1>1, <1>3, <2>1, <2>5, <2>6
  <2> QED BY <2>1, <2>2, <2>5, <2>6, <2>7, <2>8, CommitKeepsTypes
<1> QED BY <1>5, <1>6, <1>7, <1>8, <1>9, <1>10

-----------------------------------------------------------------------------
\* Initially the tables hold at most one registered student.
LEMMA InitTypes == ASSUME Init PROVE TypeInv /\ Decided /\ RolledOverOnce
<1>1. /\ rollovers = <<>> /\ transfers = <<>> /\ disputes = <<>>
      /\ call = [c \in Calls |-> NoCall] /\ overlaps = 0
      /\ enrolments \in {<<>>, <<[status |-> "ACTIVE", placed |-> TRUE]>>}
  BY DEF Init
<1>2. /\ MaxEnrolments \in Nat /\ MaxEnrolments > 0 /\ MaxRollovers \in Nat
      /\ MaxDisputes \in Nat /\ MaxOverlaps \in Nat
  BY EnrolmentAssumption
<1>3. enrolments \in Seq(Enrolled) /\ Len(enrolments) \in 0 .. 1
  <2>1. [status |-> "ACTIVE", placed |-> TRUE] \in Enrolled
    BY DEF Enrolled
  <2>2. CASE enrolments = <<>>
    BY <2>2
  <2>3. CASE enrolments = <<[status |-> "ACTIVE", placed |-> TRUE]>>
    BY <2>1, <2>3
  <2> QED BY <1>1, <2>2, <2>3
<1>4. TypeOK
  BY <1>1, <1>2, <1>3, RestingCall DEF TypeOK
<1>5. Indices
  <2>1. Len(rollovers) = 0 /\ Len(transfers) = 0 /\ Len(disputes) = 0
    BY <1>1
  <2> QED BY <1>2, <1>3, <2>1 DEF Indices
<1>6. CallsRead
  BY <1>1, RestingCall DEF CallsRead, Reads
<1>7. \A e : RolloversOf(e) = {}
  BY <1>1 DEF RolloversOf
<1>8. Decided
  BY <1>7 DEF Decided
<1>9. RolledOverOnce
  <2>1. Cardinality({}) = 0
    BY FS_EmptySet
  <2>2. \A e : Cardinality(RolloversOf(e)) = 0
    BY <1>7, <2>1, Zenon
  <2>3. \A e : Cardinality(RolloversOf(e)) <= 1 + overlaps
    BY <1>1, <2>2
  <2> QED BY <2>3 DEF RolledOverOnce
<1> QED BY <1>4, <1>5, <1>6, <1>8, <1>9 DEF TypeInv

\* Every step keeps the types.
LEMMA NextTypes == ASSUME TypeInv, [Next]_vars PROVE TypeInv'
<1>1. CASE IngestStudent \/ EscalateDispute \/ CloseDispute
  BY <1>1, OthersKeepTypes
<1>2. ASSUME NEW c \in Calls,
             \/ ReadConfirm(c) \/ ReadRequest(c) \/ ReadReview(c) \/ StartCompletion(c)
             \/ ReadDispute(c) \/ ReadResolve(c) \/ Abandon(c)
      PROVE  TypeInv'
  BY <1>2, ReadingKeepsTypes
<1>3. ASSUME NEW c \in Calls,
             \/ CommitConfirm(c) \/ CommitRequest(c) \/ CommitRefusal(c)
             \/ CommitCompletion(c) \/ CommitDispute(c) \/ CommitResolve(c)
      PROVE  TypeInv'
  BY <1>3, CommitsKeepTypes
<1>4. CASE UNCHANGED vars
  BY <1>4 DEF vars, TypeInv, TypeOK, Indices, CallsRead, Reads
<1> QED BY <1>1, <1>2, <1>3, <1>4 DEF Next

\* The tables keep their types, refer to rows of one another that are there, and
\* the calls in flight to rows that are there.
THEOREM TypeCorrect == Spec => []TypeInv
<1>1. Init => TypeInv
  BY InitTypes
<1>2. TypeInv /\ [Next]_vars => TypeInv'
  BY NextTypes
<1> QED BY <1>1, <1>2, PTL DEF Spec

-----------------------------------------------------------------------------
\* The rollovers of an enrolment are finitely many, and there are none of one
\* that is not in the table.
LEMMA RolloversCounted ==
    ASSUME TypeInv, NEW e
    PROVE  /\ IsFiniteSet(RolloversOf(e))
           /\ Cardinality(RolloversOf(e)) \in Nat
           /\ e \in Nat /\ e > Len(enrolments) => RolloversOf(e) = {}
<1>1. DOMAIN rollovers = 1 .. Len(rollovers) /\ Len(rollovers) \in Nat
  BY LenProperties DEF TypeInv, TypeOK
<1>2. RolloversOf(e) \subseteq 1 .. Len(rollovers)
  BY <1>1 DEF RolloversOf
<1>3. IsFiniteSet(1 .. Len(rollovers))
  BY <1>1, FS_Interval
<1>4. IsFiniteSet(RolloversOf(e))
  BY <1>2, <1>3, FS_Subset
<1>5. Cardinality(RolloversOf(e)) \in Nat
  BY <1>4, FS_CardinalityType
<1>6. ASSUME e \in Nat, e > Len(enrolments) PROVE RolloversOf(e) = {}
  <2>1. Len(enrolments) \in Nat
    BY LenProperties DEF TypeInv, TypeOK
  <2>2. \A r \in 1 .. Len(rollovers) : rollovers[r].enrolment <= Len(enrolments)
    BY DEF TypeInv, Indices
  <2> QED BY <1>1, <1>6, <2>1, <2>2 DEF RolloversOf
<1> QED BY <1>4, <1>5, <1>6

\* A rollover appended to the table is one more of its enrolment alone.
LEMMA RolloverAdded ==
    ASSUME TypeInv, NEW x \in RolledOver, rollovers' = Append(rollovers, x), NEW e
    PROVE  /\ x.enrolment # e => RolloversOf(e)' = RolloversOf(e)
           /\ x.enrolment = e =>
                Cardinality(RolloversOf(e)') = Cardinality(RolloversOf(e)) + 1
<1>1. /\ rollovers \in Seq(RolledOver)
      /\ DOMAIN rollovers = 1 .. Len(rollovers) /\ Len(rollovers) \in Nat
  BY LenProperties DEF TypeInv, TypeOK
<1>2. /\ rollovers' \in Seq(RolledOver) /\ Len(rollovers') = Len(rollovers) + 1
      /\ \A r \in 1 .. Len(rollovers) : rollovers'[r] = rollovers[r]
      /\ rollovers'[Len(rollovers) + 1] = x
  BY <1>1, Added
<1>3. DOMAIN rollovers' = 1 .. Len(rollovers) + 1
  BY <1>2, LenProperties
<1>4. RolloversOf(e)' = {r \in 1 .. Len(rollovers) + 1 : rollovers'[r].enrolment = e}
  BY <1>3 DEF RolloversOf
<1>5. RolloversOf(e) = {r \in 1 .. Len(rollovers) : rollovers[r].enrolment = e}
  BY <1>1 DEF RolloversOf
<1>6. CASE x.enrolment # e
  BY <1>1, <1>2, <1>4, <1>5, <1>6
<1>7. CASE x.enrolment = e
  <2>1. RolloversOf(e)' = RolloversOf(e) \cup {Len(rollovers) + 1}
    BY <1>1, <1>2, <1>4, <1>5, <1>7
  <2>2. Len(rollovers) + 1 \notin RolloversOf(e)
    BY <1>1, <1>5
  <2>3. IsFiniteSet(RolloversOf(e))
    BY RolloversCounted
  <2> QED BY <1>7, <2>1, <2>2, <2>3, FS_AddElement
<1> QED BY <1>6, <1>7

-----------------------------------------------------------------------------
\* No enrolment that was there becomes ACTIVE.
Undecided ==
    \A e \in 1 .. Len(enrolments') :
        e \in 1 .. Len(enrolments) /\ enrolments'[e].status = "ACTIVE"
            => enrolments[e].status = "ACTIVE"

\* What is to be shown of a step.
OnceInv == Decided /\ RolledOverOnce

\* A step that adds no rollover.
LEMMA NothingDecided ==
    ASSUME TypeInv, TypeInv', OnceInv, Undecided, overlaps <= overlaps',
           \A e : RolloversOf(e)' = RolloversOf(e)
    PROVE  OnceInv'
<1>1. /\ DOMAIN enrolments = 1 .. Len(enrolments) /\ Len(enrolments) \in Nat
      /\ DOMAIN enrolments' = 1 .. Len(enrolments') /\ Len(enrolments') \in Nat
      /\ overlaps \in Nat /\ overlaps' \in Nat
  BY LenProperties, EnrolmentAssumption DEF TypeInv, TypeOK
<1>2. ASSUME NEW e \in 1 .. Len(enrolments')
      PROVE  /\ enrolments'[e].status = "ACTIVE" => RolloversOf(e)' = {}
             /\ Cardinality(RolloversOf(e)') <= 1 + overlaps'
  <2>1. RolloversOf(e)' = RolloversOf(e) /\ Cardinality(RolloversOf(e)) \in Nat
    BY RolloversCounted
  <2>2. CASE e \in 1 .. Len(enrolments)
    <3>1. enrolments'[e].status = "ACTIVE" => RolloversOf(e) = {}
      BY <2>2 DEF OnceInv, Decided, Undecided
    <3>2. Cardinality(RolloversOf(e)) <= 1 + overlaps
      BY <1>1, <2>2 DEF OnceInv, RolledOverOnce
    <3>3. Cardinality(RolloversOf(e)) <= 1 + overlaps'
      BY <1>1, <2>1, <3>2
    <3> QED BY <2>1, <3>1, <3>3
  <2>3. CASE e \notin 1 .. Len(enrolments)
    <3>1. RolloversOf(e) = {}
      BY <1>1, <2>3, RolloversCounted
    <3>2. Cardinality(RolloversOf(e)') = 0
      BY <2>1, <3>1, FS_EmptySet
    <3> QED BY <1>1, <2>1, <3>1, <3>2
  <2> QED BY <2>2, <2>3
<1>3. Decided'
  BY <1>2 DEF Decided
<1>4. RolledOverOnce'
  BY <1>1, <1>2 DEF RolledOverOnce
<1> QED BY <1>3, <1>4 DEF OnceInv

\* A step that decides the enrolment d: the first rollover of an ACTIVE one, or
\* one more and one more overlap.
LEMMA OneDecided ==
    ASSUME TypeInv, TypeInv', OnceInv, Undecided,
           NEW d \in 1 .. Len(enrolments), NEW x \in RolledOver, x.enrolment = d,
           rollovers' = Append(rollovers, x), enrolments'[d].status # "ACTIVE",
           \/ enrolments[d].status = "ACTIVE" /\ overlaps' = overlaps
           \/ overlaps' = overlaps + 1
    PROVE  OnceInv'
<1>1. /\ DOMAIN enrolments = 1 .. Len(enrolments) /\ Len(enrolments) \in Nat
      /\ DOMAIN enrolments' = 1 .. Len(enrolments') /\ Len(enrolments') \in Nat
      /\ overlaps \in Nat /\ overlaps' \in Nat
  BY LenProperties, EnrolmentAssumption DEF TypeInv, TypeOK
<1>2. overlaps <= overlaps'
  BY <1>1
<1>3. ASSUME NEW e \in 1 .. Len(enrolments')
      PROVE  /\ enrolments'[e].status = "ACTIVE" => RolloversOf(e)' = {}
             /\ Cardinality(RolloversOf(e)') <= 1 + overlaps'
  <2>1. Cardinality(RolloversOf(e)) \in Nat
    BY RolloversCounted
  <2>2. CASE e = d
    <3>1. Cardinality(RolloversOf(e)') = Cardinality(RolloversOf(e)) + 1
      BY <2>2, RolloverAdded
    <3>2. Cardinality(RolloversOf(e)) <= 1 + overlaps
      BY <1>1, <2>2 DEF OnceInv, RolledOverOnce
    <3>3. enrolments[d].status = "ACTIVE" => Cardinality(RolloversOf(e)) = 0
      BY <2>2, FS_EmptySet DEF OnceInv, Decided
    <3>4. Cardinality(RolloversOf(e)') <= 1 + overlaps'
      BY <1>1, <2>1, <3>1, <3>2, <3>3
    <3> QED BY <2>2, <3>4
  <2>3. CASE e # d
    <3>1. RolloversOf(e)' = RolloversOf(e)
      BY <2>3, RolloverAdded
    <3>2. CASE e \in 1 .. Len(enrolments)
      <4>1. enrolments'[e].status = "ACTIVE" => RolloversOf(e) = {}
        BY <3>2 DEF OnceInv, Decided, Undecided
      <4>2. Cardinality(RolloversOf(e)) <= 1 + overlaps
        BY <1>1, <3>2 DEF OnceInv, RolledOverOnce
      <4>3. Cardinality(RolloversOf(e)) <= 1 + overlaps'
        BY <1>1, <1>2, <2>1, <4>2
      <4> QED BY <3>1, <4>1, <4>3
    <3>3. CASE e \notin 1 .. Len(enrolments)
      <4>1. RolloversOf(e) = {}
        BY <1>1, <3>3, RolloversCounted
      <4>2. Cardinality(RolloversOf(e)') = 0
        BY <3>1, <4>1, FS_EmptySet
      <4> QED BY <1>1, <3>1, <4>1, <4>2
    <3> QED BY <3>2, <3>3
  <2> QED BY <2>2, <2>3
<1>4. Decided'
  BY <1>3 DEF Decided
<1>5. RolledOverOnce'
  BY <1>1, <1>3 DEF RolledOverOnce
<1> QED BY <1>4, <1>5 DEF OnceInv

\* The row of a decided enrolment.
LEMMA RowDecided ==
    ASSUME NEW row \in Enrolled, NEW d \in Decision
    PROVE  [row EXCEPT !.status = d] \in Enrolled /\ [row EXCEPT !.status = d].status = d
BY DEF Enrolled

\* The actions that write neither the enrolments nor the rollovers.
LEMMA OthersDecideNothing ==
    ASSUME TypeInv, TypeInv', OnceInv, UNCHANGED <<enrolments, rollovers>>,
           overlaps <= overlaps'
    PROVE  OnceInv'
<1>1. Undecided
  BY DEF Undecided
<1>2. \A e : RolloversOf(e)' = RolloversOf(e)
  BY DEF RolloversOf
<1> QED BY <1>1, <1>2, NothingDecided

\* A student is registered: no enrolment that was there changes.
LEMMA IngestDecidesNothing ==
    ASSUME TypeInv, TypeInv', OnceInv, IngestStudent
    PROVE  OnceInv'
<1>1. /\ enrolments' = Append(enrolments, [status |-> "ACTIVE", placed |-> FALSE])
      /\ UNCHANGED <<rollovers, overlaps>>
  BY DEF IngestStudent
<1>2. [status |-> "ACTIVE", placed |-> FALSE] \in Enrolled /\ enrolments \in Seq(Enrolled)
  BY DEF Enrolled, TypeInv, TypeOK
<1>3. \A e \in 1 .. Len(enrolments) : enrolments'[e] = enrolments[e]
  BY <1>1, <1>2, Added
<1>4. Undecided
  BY <1>3 DEF Undecided
<1>5. \A e : RolloversOf(e)' = RolloversOf(e)
  BY <1>1 DEF RolloversOf
<1>6. overlaps <= overlaps'
  BY <1>1, EnrolmentAssumption DEF TypeInv, TypeOK
<1> QED BY <1>4, <1>5, <1>6, NothingDecided

\* A dispute marks a rollover, of the same enrolment as before.
LEMMA DisputeDecidesNothing ==
    ASSUME TypeInv, TypeInv', OnceInv, NEW c \in Calls, CommitDispute(c),
           overlaps <= overlaps'
    PROVE  OnceInv'
<1> DEFINE r == call[c].row
           d == Len(disputes) + 1
           y == [rollovers[r] EXCEPT !.dispute = d]
<1>1. rollovers' = [rollovers EXCEPT ![r] = y] /\ UNCHANGED enrolments
  BY DEF CommitDispute
<1>2. /\ rollovers \in Seq(RolledOver)
      /\ DOMAIN rollovers = 1 .. Len(rollovers) /\ Len(rollovers) \in Nat
  BY LenProperties DEF TypeInv, TypeOK
<1>3. r \in 1 .. Len(rollovers)
  <2>1. Reads(call[c]) /\ call[c].kind = "dispute"
    BY DEF TypeInv, CallsRead, CommitDispute
  <2> QED BY <2>1 DEF Reads
<1>4. y.enrolment = rollovers[r].enrolment
  BY <1>2, <1>3, ElementOfSeq DEF RolledOver
<1> HIDE DEF y, r
<1>5. /\ DOMAIN rollovers' = 1 .. Len(rollovers)
      /\ \A q \in 1 .. Len(rollovers) : rollovers'[q] = IF q = r THEN y ELSE rollovers[q]
  BY <1>1, <1>2, <1>3
<1>6. \A e : RolloversOf(e)' = RolloversOf(e)
  <2>1. \A q \in 1 .. Len(rollovers) : rollovers'[q].enrolment = rollovers[q].enrolment
    BY <1>4, <1>5
  <2> QED BY <1>2, <1>5, <2>1 DEF RolloversOf
<1>7. Undecided
  BY <1>1 DEF Undecided
<1> QED BY <1>6, <1>7, NothingDecided

\* What a decision writes: the row of the enrolment d, and one overlap more when
\* it was no longer ACTIVE.
Decides(d) ==
    /\ d \in 1 .. Len(enrolments)
    /\ enrolments'[d].status # "ACTIVE"
    /\ \A e \in 1 .. Len(enrolments) : e # d => enrolments'[e].status = enrolments[e].status
    /\ \/ enrolments[d].status = "ACTIVE" /\ overlaps' = overlaps
       \/ overlaps' = overlaps + 1

\* A confirmation decides the enrolment whose ACTIVE status it has read.
LEMMA ConfirmDecides ==
    ASSUME TypeInv, NEW c \in Calls, CommitConfirm(c)
    PROVE  \E x \in RolledOver : rollovers' = Append(rollovers, x) /\ Decides(x.enrolment)
<1> DEFINE e == call[c].row
           d == call[c].decision
           x == [enrolment |-> e, decision |-> d, dispute |-> 0]
           decided == [enrolments EXCEPT ![e].status = d]
           next == IF d \in Renewing THEN <<[status |-> "ACTIVE", placed |-> TRUE]>> ELSE <<>>
           current == enrolments[e].status = call[c].status
<1>1. /\ call[c].kind = "confirm"
      /\ enrolments' = decided \o next
      /\ rollovers' = Append(rollovers, x)
      /\ End(c, current)
  BY DEF CommitConfirm, Confirmed
<1>2. /\ enrolments \in Seq(Enrolled) /\ Len(enrolments) \in Nat
      /\ Len(enrolments) <= MaxEnrolments /\ MaxEnrolments \in Nat /\ MaxDisputes \in Nat
      /\ call[c] \in Call /\ Reads(call[c])
  BY LenProperties, EnrolmentAssumption DEF TypeInv, TypeOK, CallsRead, Indices
<1>3. /\ e \in 1 .. Len(enrolments) /\ d \in Decision /\ d # "ACTIVE"
      /\ call[c].status = "ACTIVE"
  BY <1>1, <1>2 DEF Reads, Call, Decision
<1>4. x \in RolledOver /\ x.enrolment = e
  BY <1>2, <1>3 DEF RolledOver
<1>5. /\ decided \in Seq(Enrolled) /\ Len(decided) = Len(enrolments)
      /\ \A i \in 1 .. Len(enrolments) :
             decided[i].status = IF i = e THEN d ELSE enrolments[i].status
  <2>1. /\ [enrolments[e] EXCEPT !.status = d] \in Enrolled
        /\ [enrolments[e] EXCEPT !.status = d].status = d
    <3>1. enrolments[e] \in Enrolled
      BY <1>2, <1>3, ElementOfSeq
    <3> HIDE DEF e, d
    <3> QED BY <1>3, <3>1, RowDecided
  <2>2. decided = [enrolments EXCEPT ![e] = [enrolments[e] EXCEPT !.status = d]]
    OBVIOUS
  <2> HIDE DEF decided
  <2> QED BY <1>2, <1>3, <2>1, <2>2, ExceptSeq
<1>6. next \in Seq(Enrolled)
  <2>1. [status |-> "ACTIVE", placed |-> TRUE] \in Enrolled
    BY DEF Enrolled
  <2> QED BY <2>1
<1> HIDE DEF decided, next, x, e, d
<1>7. \A i \in 1 .. Len(enrolments) : enrolments'[i] = decided[i]
  BY <1>1, <1>2, <1>5, <1>6, ConcatProperties
<1>8. \A i \in 1 .. Len(enrolments) : i # e => enrolments'[i].status = enrolments[i].status
  BY <1>5, <1>7
<1>9. enrolments'[e].status # "ACTIVE"
  BY <1>3, <1>5, <1>7
<1>10. current \in BOOLEAN
  OBVIOUS
<1>11. overlaps' = IF current THEN overlaps ELSE overlaps + 1
  BY <1>1, <1>10, EndCounts DEF TypeInv
<1>12. \/ enrolments[e].status = "ACTIVE" /\ overlaps' = overlaps
       \/ overlaps' = overlaps + 1
  BY <1>3, <1>11
<1>13. Decides(x.enrolment)
  BY <1>3, <1>4, <1>8, <1>9, <1>12 DEF Decides
<1> QED BY <1>1, <1>4, <1>13

\* A completed transfer decides the enrolment it finds ACTIVE at the commit.
LEMMA CompletionDecides ==
    ASSUME TypeInv, NEW c \in Calls, CommitCompletion(c)
    PROVE  LET t == call[c].row
               e == transfers[t].enrolment
               x == [enrolment |-> e, decision |-> "TRANSFERRED_OUT", dispute |-> 0]
           IN  /\ t \in 1 .. Len(transfers)
               /\ x \in RolledOver /\ x.enrolment = e /\ x.dispute = 0
               /\ rollovers' = Append(rollovers, x)
               /\ Decides(e) /\ enrolments'[e].status = "TRANSFERRED_OUT"
               /\ overlaps' = overlaps \/ overlaps' = overlaps + 1
               /\ overlaps' = overlaps => transfers[t].status = call[c].status
<1> DEFINE t == call[c].row
           e == transfers[t].enrolment
           x == [enrolment |-> e, decision |-> "TRANSFERRED_OUT", dispute |-> 0]
           z == [enrolments[e] EXCEPT !.status = "TRANSFERRED_OUT"]
           current == enrolments[e].status = "ACTIVE" /\ transfers[t].status = call[c].status
<1>1. /\ call[c].kind = "complete"
      /\ enrolments' = [enrolments EXCEPT ![e] = z]
      /\ rollovers' = Append(rollovers, x)
      /\ End(c, current)
  BY DEF CommitCompletion
<1>2. /\ enrolments \in Seq(Enrolled) /\ transfers \in Seq(Transferred)
      /\ Len(enrolments) \in Nat /\ Len(transfers) \in Nat
      /\ Len(enrolments) <= MaxEnrolments /\ MaxEnrolments \in Nat /\ MaxDisputes \in Nat
      /\ Reads(call[c]) /\ Indices
  BY LenProperties, EnrolmentAssumption DEF TypeInv, TypeOK, CallsRead, Indices
<1>3. t \in 1 .. Len(transfers)
  BY <1>1, <1>2 DEF Reads
<1>4. e \in 1 .. Len(enrolments)
  <2>1. transfers[t] \in Transferred
    BY <1>2, <1>3, ElementOfSeq
  <2>2. e \in 1 .. MaxEnrolments
    BY <2>1 DEF Transferred
  <2>3. e <= Len(enrolments)
    BY <1>2, <1>3 DEF Indices
  <2> QED BY <1>2, <2>2, <2>3
<1>5. x \in RolledOver /\ x.enrolment = e
  BY <1>2, <1>4 DEF RolledOver, Decision
<1>6. z.status = "TRANSFERRED_OUT" /\ z \in Enrolled
  <2>1. enrolments[e] \in Enrolled
    BY <1>2, <1>4, ElementOfSeq
  <2>2. "TRANSFERRED_OUT" \in Decision
    BY DEF Decision
  <2> HIDE DEF e
  <2> QED BY <2>1, <2>2, RowDecided
<1> HIDE DEF x, z, e, t
<1>7. /\ Len(enrolments') = Len(enrolments)
      /\ \A i \in 1 .. Len(enrolments) : enrolments'[i] = IF i = e THEN z ELSE enrolments[i]
  BY <1>1, <1>2, <1>4, <1>6, ExceptSeq
<1>8. \A i \in 1 .. Len(enrolments) : i # e => enrolments'[i].status = enrolments[i].status
  BY <1>7
<1>9. enrolments'[e].status = "TRANSFERRED_OUT"
  BY <1>4, <1>6, <1>7
<1>10. current \in BOOLEAN
  OBVIOUS
<1>11. overlaps' = IF current THEN overlaps ELSE overlaps + 1
  BY <1>1, <1>10, EndCounts DEF TypeInv
<1>12. overlaps \in Nat
  BY EnrolmentAssumption DEF TypeInv, TypeOK
<1>13. /\ \/ enrolments[e].status = "ACTIVE" /\ overlaps' = overlaps
          \/ overlaps' = overlaps + 1
       /\ overlaps' = overlaps => transfers[t].status = call[c].status
  BY <1>11, <1>12
<1>14. Decides(e)
  BY <1>4, <1>8, <1>9, <1>13 DEF Decides
<1>15. x.dispute = 0
  BY DEF x
<1> QED BY <1>1, <1>3, <1>5, <1>9, <1>13, <1>14, <1>15 DEF x, e, t

LEMMA DecidesOne ==
    ASSUME TypeInv, TypeInv', OnceInv, NEW c \in Calls, CommitConfirm(c) \/ CommitCompletion(c)
    PROVE  OnceInv'
<1>1. PICK x \in RolledOver : rollovers' = Append(rollovers, x) /\ Decides(x.enrolment)
  BY ConfirmDecides, CompletionDecides
<1>2. Undecided
  BY <1>1 DEF Decides, Undecided
<1> QED BY <1>1, <1>2, OneDecided DEF Decides

\* Every step keeps the bound.
LEMMA NextDecides == ASSUME TypeInv, OnceInv, [Next]_vars PROVE OnceInv'
<1>1. TypeInv'
  BY NextTypes
<1>2. overlaps \in Nat
  BY EnrolmentAssumption DEF TypeInv, TypeOK
<1>3. CASE IngestStudent
  BY <1>1, <1>3, IngestDecidesNothing
<1>4. CASE EscalateDispute \/ CloseDispute \/ UNCHANGED vars
  <2>1. UNCHANGED <<enrolments, rollovers>> /\ overlaps' = overlaps
    BY <1>4 DEF EscalateDispute, CloseDispute, vars
  <2> QED BY <1>1, <1>2, <2>1, OthersDecideNothing
<1>5. ASSUME NEW c \in Calls,
             \/ ReadConfirm(c) \/ ReadRequest(c) \/ ReadReview(c) \/ StartCompletion(c)
             \/ ReadDispute(c) \/ ReadResolve(c) \/ Abandon(c)
      PROVE  OnceInv'
  <2>1. UNCHANGED <<enrolments, rollovers>> /\ overlaps' = overlaps
    BY <1>5 DEF ReadConfirm, ReadRequest, ReadReview, StartCompletion, ReadDispute,
                ReadResolve, Abandon, Begin, tables
  <2> QED BY <1>1, <1>2, <2>1, OthersDecideNothing
<1>6. ASSUME NEW c \in Calls, NEW current \in BOOLEAN, End(c, current)
      PROVE  overlaps <= overlaps'
  BY <1>2, <1>6, EndCounts DEF TypeInv
<1>7. ASSUME NEW c \in Calls, CommitRequest(c) \/ CommitRefusal(c) \/ CommitResolve(c)
      PROVE  OnceInv'
  <2>1. UNCHANGED <<enrolments, rollovers>>
    BY <1>7 DEF CommitRequest, CommitRefusal, CommitResolve
  <2>2. \E current \in BOOLEAN : End(c, current)
    BY <1>7 DEF CommitRequest, CommitRefusal, CommitResolve
  <2>3. overlaps <= overlaps'
    BY <1>6, <2>2
  <2> QED BY <1>1, <2>1, <2>3, OthersDecideNothing
<1>8. ASSUME NEW c \in Calls, CommitDispute(c) PROVE OnceInv'
  <2>1. \E current \in BOOLEAN : End(c, current)
    BY <1>8 DEF CommitDispute
  <2>2. overlaps <= overlaps'
    BY <1>6, <2>1
  <2> QED BY <1>1, <1>8, <2>2, DisputeDecidesNothing
<1>9. ASSUME NEW c \in Calls, CommitConfirm(c) \/ CommitCompletion(c) PROVE OnceInv'
  BY <1>1, <1>9, DecidesOne
<1> QED BY <1>3, <1>4, <1>5, <1>7, <1>8, <1>9 DEF Next

\* An enrolment has one rollover, whether a rollover or a transfer decided it, and
\* one more for each call that committed over a status it had not read.
THEOREM DecidedOnce == Spec => []RolledOverOnce
<1>1. Init => TypeInv /\ OnceInv
  BY InitTypes DEF OnceInv
<1>2. (TypeInv /\ OnceInv) /\ [Next]_vars => (TypeInv /\ OnceInv)'
  BY NextTypes, NextDecides
<1>3. OnceInv => RolledOverOnce
  BY DEF OnceInv
<1> QED BY <1>1, <1>2, <1>3, PTL DEF Spec

-----------------------------------------------------------------------------
(* Transfers.  As long as no call has committed over a row it had not read, *)
(* a transfer, its rollover, its enrolment and its dispute tell one story.  *)
(* TransfersAgree is a part of it: that a REQUESTED transfer has no         *)
(* rollover yet, that a DISPUTED one has its dispute, and that no two       *)
(* transfers have one rollover is what the decisions and the disputes rely  *)
(* on when they look for the other row.                                     *)

Agrees(t) ==
    LET row == transfers[t] IN
    /\ row.rollover = 0 => row.status \in {"REQUESTED", "REJECTED"} /\ row.dispute = 0
    /\ row.rollover # 0 =>
          /\ row.rollover \in 1 .. Len(rollovers)
          /\ row.status # "REQUESTED"
          /\ rollovers[row.rollover].enrolment = row.enrolment
          /\ rollovers[row.rollover].dispute = row.dispute
          /\ enrolments[row.enrolment].status = "TRANSFERRED_OUT"
          /\ row.status # "COMPLETED" => row.dispute # 0

Linked ==
    \A t, u \in 1 .. Len(transfers) :
        transfers[t].rollover = transfers[u].rollover /\ transfers[t].rollover # 0 => t = u

\* The call of a review has read a transfer that was open.
ReviewsOpen ==
    \A c \in Calls : call[c].kind \in {"review", "complete"} => Reviewable(call[c].status)

AgreeInv == overlaps = 0 => Linked /\ \A t \in 1 .. Len(transfers) : Agrees(t)

\* What ClosedStaysClosed says of one step.
KeepsClosed ==
    overlaps' = 0 =>
        \A t \in DOMAIN transfers :
            /\ transfers[t].status = "REJECTED" => transfers'[t].status = "REJECTED"
            /\ transfers[t].status = "COMPLETED" =>
                  transfers'[t].status \in {"COMPLETED", "DISPUTED"}

\* The tables and their rows.
LEMMA Tables ==
    ASSUME TypeInv
    PROVE  /\ DOMAIN enrolments = 1 .. Len(enrolments) /\ Len(enrolments) \in Nat
           /\ DOMAIN rollovers = 1 .. Len(rollovers) /\ Len(rollovers) \in Nat
           /\ DOMAIN transfers = 1 .. Len(transfers) /\ Len(transfers) \in Nat
           /\ \A e \in 1 .. Len(enrolments) : enrolments[e] \in Enrolled
           /\ \A r \in 1 .. Len(rollovers) : rollovers[r] \in RolledOver
           /\ \A t \in 1 .. Len(transfers) :
                  /\ transfers[t] \in Transferred
                  /\ transfers[t].enrolment \in 1 .. Len(enrolments)
           /\ overlaps \in Nat /\ MaxRollovers \in Nat /\ MaxDisputes \in Nat
<1>1. /\ enrolments \in Seq(Enrolled) /\ rollovers \in Seq(RolledOver)
      /\ transfers \in Seq(Transferred)
  BY DEF TypeInv, TypeOK
<1>2. \A t \in 1 .. Len(transfers) : transfers[t] \in Transferred
  BY <1>1, ElementOfSeq
<1>3. ASSUME NEW t \in 1 .. Len(transfers) PROVE transfers[t].enrolment \in 1 .. Len(enrolments)
  <2>1. transfers[t].enrolment <= Len(enrolments)
    BY DEF TypeInv, Indices
  <2>2. transfers[t].enrolment \in 1 .. MaxEnrolments
    BY <1>2 DEF Transferred
  <2>3. MaxEnrolments \in Nat /\ Len(enrolments) \in Nat
    BY <1>1, LenProperties, EnrolmentAssumption
  <2> QED BY <2>1, <2>2, <2>3
<1>4. overlaps \in Nat /\ MaxRollovers \in Nat /\ MaxDisputes \in Nat
  BY EnrolmentAssumption DEF TypeInv, TypeOK
<1> QED BY <1>1, <1>2, <1>3, <1>4, LenProperties, ElementOfSeq

\* A transfer that a step leaves alone, with what it refers to.
LEMMA RowAgrees ==
    ASSUME NEW t, Agrees(t), transfers'[t] = transfers[t],
           Len(rollovers) \in Nat, Len(rollovers') \in Nat, Len(rollovers) <= Len(rollovers'),
           transfers[t].rollover \in 1 .. Len(rollovers) =>
              LET row == transfers[t] IN
              /\ rollovers'[row.rollover].enrolment = rollovers[row.rollover].enrolment
              /\ rollovers'[row.rollover].dispute = rollovers[row.rollover].dispute
              /\ enrolments[row.enrolment].status = "TRANSFERRED_OUT" =>
                    enrolments'[row.enrolment].status = "TRANSFERRED_OUT"
    PROVE  Agrees(t)'
<1>1. CASE transfers[t].rollover = 0
  BY <1>1 DEF Agrees
<1>2. CASE transfers[t].rollover # 0
  <2>1. transfers[t].rollover \in 1 .. Len(rollovers)
    BY <1>2 DEF Agrees
  <2>2. transfers[t].rollover \in 1 .. Len(rollovers')
    BY <2>1
  <2> QED BY <1>2, <2>1, <2>2 DEF Agrees
<1> QED BY <1>1, <1>2

\* A step that leaves the transfers alone, the rollovers' enrolments and disputes,
\* and the enrolments that were TRANSFERRED_OUT.
LEMMA TransfersRest ==
    ASSUME TypeInv, TypeInv', AgreeInv, transfers' = transfers,
           overlaps' = 0 => overlaps = 0,
           Len(rollovers) <= Len(rollovers'),
           \A r \in 1 .. Len(rollovers) : rollovers'[r] = rollovers[r],
           overlaps' = 0 =>
              \A e \in 1 .. Len(enrolments) :
                  enrolments[e].status = "TRANSFERRED_OUT" =>
                      enrolments'[e].status = "TRANSFERRED_OUT"
    PROVE  AgreeInv' /\ KeepsClosed
<1>1. Len(rollovers) \in Nat /\ Len(rollovers') \in Nat
  BY LenProperties DEF TypeInv, TypeOK
<1>2. \A t \in 1 .. Len(transfers) : transfers[t].enrolment \in 1 .. Len(enrolments)
  BY Tables
<1>3. ASSUME overlaps' = 0 PROVE Linked' /\ \A t \in 1 .. Len(transfers') : Agrees(t)'
  <2>1. Linked /\ \A t \in 1 .. Len(transfers) : Agrees(t)
    BY <1>3 DEF AgreeInv
  <2>2. ASSUME NEW t \in 1 .. Len(transfers) PROVE Agrees(t)'
    BY <1>1, <1>2, <1>3, <2>1, RowAgrees
  <2> QED BY <2>1, <2>2 DEF Linked
<1>4. AgreeInv'
  BY <1>3 DEF AgreeInv
<1>5. KeepsClosed
  BY DEF KeepsClosed
<1> QED BY <1>4, <1>5

\* One transfer is written over.
LEMMA TransferReplaced ==
    ASSUME transfers \in Seq(Transferred), NEW t \in 1 .. Len(transfers), NEW x \in Transferred,
           transfers' = [transfers EXCEPT ![t] = x]
    PROVE  /\ DOMAIN transfers' = 1 .. Len(transfers)
           /\ 1 .. Len(transfers') = 1 .. Len(transfers)
           /\ \A u \in 1 .. Len(transfers) :
                  transfers'[u] = IF u = t THEN x ELSE transfers[u]
BY ExceptSeq, LenProperties

\* A refused transfer was open when the call read it, and is so still.
LEMMA RefusalAgrees ==
    ASSUME TypeInv, TypeInv', AgreeInv, ReviewsOpen, NEW c \in Calls, CommitRefusal(c)
    PROVE  AgreeInv' /\ KeepsClosed
<1> DEFINE t == call[c].row
           x == [transfers[t] EXCEPT !.status = "REJECTED"]
           current == transfers[t].status = call[c].status
<1>1. /\ call[c].kind = "review"
      /\ transfers' = [transfers EXCEPT ![t] = x]
      /\ End(c, current)
      /\ UNCHANGED <<enrolments, rollovers>>
  BY DEF CommitRefusal
<1>2. t \in 1 .. Len(transfers) /\ Reviewable(call[c].status) /\ transfers[t] \in Transferred
  BY <1>1, Tables DEF TypeInv, CallsRead, Reads, ReviewsOpen
<1>3. /\ x \in Transferred /\ x.status = "REJECTED" /\ x.enrolment = transfers[t].enrolment
      /\ x.rollover = transfers[t].rollover /\ x.dispute = transfers[t].dispute
  BY <1>2 DEF Transferred, TransferStatus
<1>4. overlaps' = IF current THEN overlaps ELSE overlaps + 1
  BY <1>1, EndCounts DEF TypeInv
<1> HIDE DEF x, t
<1>5. /\ DOMAIN transfers = 1 .. Len(transfers)
      /\ 1 .. Len(transfers') = 1 .. Len(transfers)
      /\ \A u \in 1 .. Len(transfers) : transfers'[u] = IF u = t THEN x ELSE transfers[u]
  BY <1>1, <1>2, <1>3, TransferReplaced, Tables DEF TypeInv, TypeOK
<1>6. ASSUME overlaps' = 0
      PROVE  /\ transfers[t].status \in {"REQUESTED", "DISPUTED"}
             /\ Linked /\ \A u \in 1 .. Len(transfers) : Agrees(u)
  <2>1. overlaps = 0 /\ current
    BY <1>4, <1>6, Tables
  <2>2. transfers[t].status \in {"REQUESTED", "DISPUTED"}
    BY <1>2, <2>1 DEF Reviewable, ClosedTransfer, Transferred, TransferStatus
  <2> QED BY <2>1, <2>2 DEF AgreeInv
<1> HIDE DEF current
<1>7. ASSUME overlaps' = 0, NEW u \in 1 .. Len(transfers) PROVE Agrees(u)'
  <2>1. CASE u = t
    <3>1. transfers[t].rollover # 0 => transfers[t].dispute # 0
      BY <1>2, <1>6, <1>7 DEF Agrees
    <3> QED BY <1>1, <1>2, <1>3, <1>5, <1>6, <1>7, <2>1, <3>1 DEF Agrees
  <2>2. CASE u # t
    BY <1>1, <1>5, <1>6, <1>7, <2>2 DEF Agrees
  <2> QED BY <2>1, <2>2
<1>8. overlaps' = 0 => Linked'
  BY <1>2, <1>3, <1>5, <1>6 DEF Linked
<1>9. AgreeInv'
  BY <1>5, <1>7, <1>8 DEF AgreeInv
<1>10. KeepsClosed
  BY <1>3, <1>5, <1>6 DEF KeepsClosed
<1> QED BY <1>9, <1>10

\* A new transfer is linked to nothing.
LEMMA RequestAgrees ==
    ASSUME TypeInv, TypeInv', AgreeInv, NEW c \in Calls, CommitRequest(c)
    PROVE  AgreeInv' /\ KeepsClosed
<1> DEFINE x == [enrolment |-> call[c].row, status |-> "REQUESTED", rollover |-> 0,
                 dispute |-> 0]
           n == Len(transfers)
<1>1. transfers' = Append(transfers, x) /\ UNCHANGED <<enrolments, rollovers>>
  BY DEF CommitRequest
<1>2. x \in Transferred
  <2>1. call[c].row \in 1 .. Len(enrolments) /\ Len(enrolments) <= MaxEnrolments
    BY DEF CommitRequest, TypeInv, CallsRead, Reads, Indices
  <2>2. call[c].row \in 1 .. MaxEnrolments
    BY <2>1, Tables, EnrolmentAssumption
  <2> QED BY <2>2, EnrolmentAssumption DEF Transferred, TransferStatus
<1>3. x.rollover = 0 /\ x.status = "REQUESTED" /\ x.dispute = 0
  OBVIOUS
<1> HIDE DEF x
<1>4. /\ Len(transfers') = n + 1 /\ n \in Nat /\ DOMAIN transfers = 1 .. n
      /\ \A u \in 1 .. n : transfers'[u] = transfers[u]
      /\ transfers'[n + 1] = x
  BY <1>1, <1>2, Added, Tables DEF TypeInv, TypeOK
<1> HIDE DEF n
<1>5. overlaps' = overlaps
  BY EndCounts DEF CommitRequest, TypeInv
<1>6. ASSUME overlaps' = 0 PROVE Linked /\ \A u \in 1 .. n : Agrees(u)
  BY <1>5, <1>6 DEF AgreeInv, n
<1>7. ASSUME overlaps' = 0, NEW u \in 1 .. n + 1 PROVE Agrees(u)'
  <2>1. CASE u = n + 1
    BY <1>3, <1>4, <2>1 DEF Agrees
  <2>2. CASE u \in 1 .. n
    BY <1>1, <1>4, <1>6, <1>7, <2>2 DEF Agrees
  <2> QED BY <1>4, <2>1, <2>2
<1>8. overlaps' = 0 => Linked'
  <2> SUFFICES ASSUME overlaps' = 0, NEW t \in 1 .. n + 1, NEW u \in 1 .. n + 1,
                      transfers'[t].rollover = transfers'[u].rollover,
                      transfers'[t].rollover # 0
               PROVE  t = u
    BY <1>4 DEF Linked
  <2>1. t \in 1 .. n /\ u \in 1 .. n
    BY <1>3, <1>4
  <2> QED BY <1>4, <1>6, <2>1 DEF Linked, n
<1>9. AgreeInv'
  BY <1>4, <1>7, <1>8 DEF AgreeInv
<1>10. KeepsClosed
  BY <1>4 DEF KeepsClosed
<1> QED BY <1>9, <1>10

\* A confirmation finds its enrolment ACTIVE, so it is not one that a transfer has
\* decided.
LEMMA ConfirmAgrees ==
    ASSUME TypeInv, TypeInv', AgreeInv, NEW c \in Calls, CommitConfirm(c)
    PROVE  AgreeInv' /\ KeepsClosed
<1>1. PICK x \in RolledOver : rollovers' = Append(rollovers, x) /\ Decides(x.enrolment)
  BY ConfirmDecides
<1>2. /\ Len(rollovers) <= Len(rollovers')
      /\ \A r \in 1 .. Len(rollovers) : rollovers'[r] = rollovers[r]
  BY <1>1, Added DEF TypeInv, TypeOK
<1>3. overlaps' = 0 => overlaps = 0 /\ enrolments[x.enrolment].status = "ACTIVE"
  BY <1>1, Tables DEF Decides
<1>4. overlaps' = 0 =>
         \A e \in 1 .. Len(enrolments) :
             enrolments[e].status = "TRANSFERRED_OUT" => enrolments'[e].status = "TRANSFERRED_OUT"
  BY <1>1, <1>3 DEF Decides
<1>5. transfers' = transfers
  BY DEF CommitConfirm
<1> QED BY <1>2, <1>3, <1>4, <1>5, TransfersRest

LEMMA IngestAgrees ==
    ASSUME TypeInv, TypeInv', AgreeInv, IngestStudent
    PROVE  AgreeInv' /\ KeepsClosed
<1>1. /\ enrolments' = Append(enrolments, [status |-> "ACTIVE", placed |-> FALSE])
      /\ UNCHANGED <<rollovers, transfers, overlaps>>
  BY DEF IngestStudent
<1>2. [status |-> "ACTIVE", placed |-> FALSE] \in Enrolled /\ enrolments \in Seq(Enrolled)
  BY DEF Enrolled, TypeInv, TypeOK
<1>3. \A e \in 1 .. Len(enrolments) : enrolments'[e] = enrolments[e]
  BY <1>1, <1>2, Added
<1>4. Len(rollovers) <= Len(rollovers')
  BY <1>1, Tables
<1> QED BY <1>1, <1>3, <1>4, TransfersRest

\* A completion finds its enrolment ACTIVE: the transfer has no rollover, and the
\* transfers that have one are of other enrolments.
LEMMA CompletionAgrees ==
    ASSUME TypeInv, TypeInv', AgreeInv, ReviewsOpen, NEW c \in Calls, CommitCompletion(c)
    PROVE  AgreeInv' /\ KeepsClosed
<1> DEFINE t == call[c].row
           e == transfers[t].enrolment
           r == [enrolment |-> e, decision |-> "TRANSFERRED_OUT", dispute |-> 0]
           n == Len(rollovers)
           x == Completed(transfers[t], n + 1)
<1>1. /\ t \in 1 .. Len(transfers)
      /\ r \in RolledOver /\ r.enrolment = e /\ r.dispute = 0
      /\ rollovers' = Append(rollovers, r)
      /\ Decides(e) /\ enrolments'[e].status = "TRANSFERRED_OUT"
      /\ overlaps' = overlaps \/ overlaps' = overlaps + 1
      /\ overlaps' = overlaps => transfers[t].status = call[c].status
  BY CompletionDecides
<1>2. transfers' = [transfers EXCEPT ![t] = x] /\ call[c].kind = "complete"
  BY DEF CommitCompletion
<1>3. transfers[t] \in Transferred /\ n \in Nat /\ n + 1 \in 0 .. MaxRollovers
  <2>1. n < MaxRollovers
    BY DEF CommitCompletion
  <2>2. n \in Nat /\ MaxRollovers \in Nat
    BY Tables
  <2>3. transfers[t] \in Transferred
    BY <1>1, Tables
  <2> HIDE DEF n, t
  <2> QED BY <2>1, <2>2, <2>3
<1>4. /\ x \in Transferred /\ x.status = "COMPLETED" /\ x.rollover = n + 1
      /\ x.enrolment = e /\ x.dispute = transfers[t].dispute
  BY <1>3 DEF Completed, Transferred, TransferStatus
<1> HIDE DEF x
<1>5. /\ DOMAIN transfers = 1 .. Len(transfers)
      /\ 1 .. Len(transfers') = 1 .. Len(transfers)
      /\ \A u \in 1 .. Len(transfers) : transfers'[u] = IF u = t THEN x ELSE transfers[u]
  BY <1>1, <1>2, <1>4, TransferReplaced, Tables DEF TypeInv, TypeOK
<1> HIDE DEF r
<1>6. /\ Len(rollovers') = n + 1 /\ rollovers'[n + 1] = r
      /\ \A q \in 1 .. n : rollovers'[q] = rollovers[q]
  BY <1>1, Added DEF TypeInv, TypeOK
<1>7. ASSUME overlaps' = 0
      PROVE  /\ Linked /\ \A u \in 1 .. Len(transfers) : Agrees(u)
             /\ enrolments[e].status = "ACTIVE"
             /\ Reviewable(transfers[t].status)
  <2>1. overlaps = 0 /\ enrolments[e].status = "ACTIVE" /\ transfers[t].status = call[c].status
    BY <1>1, <1>7, Tables DEF Decides
  <2> QED BY <1>2, <2>1 DEF AgreeInv, ReviewsOpen
<1> HIDE DEF e, t, n
<1>8. ASSUME overlaps' = 0
      PROVE  transfers[t].rollover = 0 /\ transfers[t].dispute = 0
  <2>1. Agrees(t) /\ enrolments[e].status = "ACTIVE"
    BY <1>1, <1>7, <1>8
  <2>2. transfers[t].rollover = 0
    BY <2>1 DEF Agrees, e
  <2> QED BY <2>1, <2>2 DEF Agrees
<1>9. ASSUME overlaps' = 0, NEW u \in 1 .. Len(transfers) PROVE Agrees(u)'
  <2>1. CASE u = t
    BY <1>1, <1>3, <1>4, <1>5, <1>6, <1>8, <1>9, <2>1 DEF Agrees
  <2>2. CASE u # t
    <3>1. Agrees(u) /\ transfers'[u] = transfers[u] /\ transfers[u].enrolment \in 1 .. Len(enrolments)
      BY <1>5, <1>7, <1>9, <2>2, Tables
    <3>2. enrolments[transfers[u].enrolment].status = "TRANSFERRED_OUT" =>
             enrolments'[transfers[u].enrolment].status = "TRANSFERRED_OUT"
      BY <1>1, <3>1 DEF Decides
    <3>3. /\ Len(rollovers) \in Nat /\ Len(rollovers') \in Nat
          /\ Len(rollovers) <= Len(rollovers')
      BY <1>3, <1>6 DEF n
    <3> QED BY <1>6, <3>1, <3>2, <3>3, RowAgrees DEF n
  <2> QED BY <2>1, <2>2
<1>10. ASSUME overlaps' = 0 PROVE Linked'
  <2>1. \A u \in 1 .. Len(transfers) : transfers[u].rollover \in 0 .. n
    BY <1>3, <1>7, <1>10 DEF Agrees, n
  <2> QED BY <1>3, <1>4, <1>5, <1>7, <1>10, <2>1 DEF Linked
<1>11. AgreeInv'
  BY <1>5, <1>9, <1>10 DEF AgreeInv
<1>12. KeepsClosed
  BY <1>4, <1>5, <1>7 DEF KeepsClosed, Reviewable, ClosedTransfer
<1> QED BY <1>11, <1>12

\* The transfer a rollover is looked up for.
LEMMA TransferFound ==
    ASSUME TypeInv, NEW r
    PROVE  /\ TransferOf(r) # 0 =>
                 /\ TransferOf(r) \in 1 .. Len(transfers)
                 /\ transfers[TransferOf(r)].rollover = r
           /\ TransferOf(r) = 0 => \A u \in 1 .. Len(transfers) : transfers[u].rollover # r
<1>1. DOMAIN transfers = 1 .. Len(transfers)
  BY Tables
<1>2. CASE \E u \in DOMAIN transfers : transfers[u].rollover = r
  <2>1. TransferOf(r) = CHOOSE u \in DOMAIN transfers : transfers[u].rollover = r
    BY <1>2 DEF TransferOf
  <2>2. TransferOf(r) \in DOMAIN transfers /\ transfers[TransferOf(r)].rollover = r
    BY <1>2, <2>1
  <2> QED BY <1>1, <2>2
<1>3. CASE ~ \E u \in DOMAIN transfers : transfers[u].rollover = r
  BY <1>1, <1>3 DEF TransferOf
<1> QED BY <1>2, <1>3

\* A dispute marks the rollover and its transfer with one dispute; the transfer
\* was not REJECTED, as that too takes a dispute.
LEMMA DisputeAgrees ==
    ASSUME TypeInv, TypeInv', AgreeInv, NEW c \in Calls, CommitDispute(c)
    PROVE  AgreeInv' /\ KeepsClosed
<1> DEFINE r == call[c].row
           t == call[c].transfer
           d == Len(disputes) + 1
           y == [rollovers[r] EXCEPT !.dispute = d]
           x == [transfers[t] EXCEPT !.status = "DISPUTED", !.dispute = d]
           current == /\ rollovers[r].dispute = 0
                      /\ TransferOf(r) = t
                      /\ TransferStatusOf(t) = call[c].status
<1>1. /\ rollovers' = [rollovers EXCEPT ![r] = y] /\ enrolments' = enrolments
      /\ transfers' = IF t = 0 THEN transfers ELSE [transfers EXCEPT ![t] = x]
      /\ End(c, current)
      /\ Len(disputes) < MaxDisputes
  BY DEF CommitDispute
<1>2. r \in 1 .. Len(rollovers) /\ t \in 0 .. Len(transfers)
  BY DEF TypeInv, CallsRead, CommitDispute, Reads
<1>3. d \in 0 .. MaxDisputes /\ d # 0
  <2>1. Len(disputes) \in Nat /\ MaxDisputes \in Nat
    BY LenProperties, EnrolmentAssumption DEF TypeInv, TypeOK
  <2> QED BY <1>1, <2>1
<1>4. overlaps' = 0 => overlaps = 0 /\ rollovers[r].dispute = 0 /\ TransferOf(r) = t
  <2>1. current \in BOOLEAN
    OBVIOUS
  <2>2. overlaps' = IF current THEN overlaps ELSE overlaps + 1
    BY <1>1, <2>1, EndCounts DEF TypeInv
  <2>3. overlaps' = 0 => overlaps = 0 /\ current
    BY <2>2, Tables
  <2> QED BY <2>3
<1> HIDE DEF current, d
<1>5. y \in RolledOver /\ y.enrolment = rollovers[r].enrolment /\ y.dispute = d
  <2>1. rollovers[r] \in RolledOver
    BY <1>2, Tables
  <2> QED BY <1>3, <2>1, RowsWritten
<1>6. ASSUME t # 0
      PROVE  /\ x \in Transferred /\ x.enrolment = transfers[t].enrolment
             /\ x.status = "DISPUTED" /\ x.dispute = d /\ x.rollover = transfers[t].rollover
  <2>1. transfers[t] \in Transferred
    BY <1>2, <1>6, Tables
  <2> HIDE DEF t
  <2> QED BY <1>3, <2>1 DEF Transferred, TransferStatus
<1> HIDE DEF x, y, r, t
<1>7. /\ Len(rollovers') = Len(rollovers)
      /\ \A q \in 1 .. Len(rollovers) : rollovers'[q] = IF q = r THEN y ELSE rollovers[q]
  BY <1>1, <1>2, <1>5, ExceptSeq DEF TypeInv, TypeOK
<1>8. /\ DOMAIN transfers = 1 .. Len(transfers)
      /\ 1 .. Len(transfers') = 1 .. Len(transfers)
      /\ \A u \in 1 .. Len(transfers) : transfers'[u] = IF u = t THEN x ELSE transfers[u]
  <2>1. CASE t = 0
    BY <1>1, <2>1, Tables
  <2>2. CASE t # 0
    BY <1>1, <1>2, <1>6, <2>2, TransferReplaced, Tables DEF TypeInv, TypeOK
  <2> QED BY <2>1, <2>2
<1>9. ASSUME overlaps' = 0
      PROVE  /\ Linked /\ \A u \in 1 .. Len(transfers) : Agrees(u)
             /\ rollovers[r].dispute = 0
             /\ t # 0 => t \in 1 .. Len(transfers) /\ transfers[t].rollover = r
             /\ t = 0 => \A u \in 1 .. Len(transfers) : transfers[u].rollover # r
  BY <1>4, <1>9, TransferFound DEF AgreeInv
<1>10. Len(rollovers) \in Nat /\ r # 0 /\ t \in 0 .. Len(transfers)
  BY <1>2, Tables
<1>11. ASSUME overlaps' = 0, NEW u \in 1 .. Len(transfers) PROVE Agrees(u)'
  <2>1. CASE u = t
    BY <1>1, <1>2, <1>3, <1>5, <1>6, <1>7, <1>8, <1>9, <1>10, <1>11, <2>1 DEF Agrees
  <2>2. CASE u # t
    <3>1. transfers[u].rollover # r
      BY <1>9, <1>10, <1>11, <2>2 DEF Linked
    <3>2. Agrees(u) /\ transfers'[u] = transfers[u]
      BY <1>8, <1>9, <1>11, <2>2
    <3> QED BY <1>1, <1>7, <1>10, <3>1, <3>2, RowAgrees
  <2> QED BY <2>1, <2>2
<1>12. overlaps' = 0 => Linked'
  BY <1>6, <1>8, <1>9 DEF Linked
<1>13. AgreeInv'
  BY <1>8, <1>11, <1>12 DEF AgreeInv
<1>14. ASSUME overlaps' = 0, t # 0 PROVE transfers[t].status # "REJECTED"
  BY <1>9, <1>10, <1>14 DEF Agrees
<1>15. KeepsClosed
  BY <1>6, <1>8, <1>14 DEF KeepsClosed
<1> QED BY <1>13, <1>15

\* A resolution writes back the status it read, but for a DISPUTED one, which has
\* a rollover.
LEMMA ResolutionAgrees ==
    ASSUME TypeInv, TypeInv', AgreeInv, NEW c \in Calls, CommitResolve(c)
    PROVE  AgreeInv' /\ KeepsClosed
<1> DEFINE t == call[c].transfer
           s == ResolvedStatus(call[c].status)
           x == [transfers[t] EXCEPT !.status = s]
           current == /\ rollovers[call[c].row].dispute = call[c].dispute
                      /\ TransferStatusOf(t) = call[c].status
<1>1. /\ transfers' = IF t = 0 THEN transfers ELSE [transfers EXCEPT ![t] = x]
      /\ End(c, current)
      /\ UNCHANGED <<enrolments, rollovers>>
  BY DEF CommitResolve
<1>2. t \in 0 .. Len(transfers) /\ call[c].status \in TransferStatus
  BY DEF TypeInv, CallsRead, CommitResolve, Reads
<1>3. overlaps' = 0 => overlaps = 0 /\ TransferStatusOf(t) = call[c].status
  <2>1. current \in BOOLEAN
    OBVIOUS
  <2>2. overlaps' = IF current THEN overlaps ELSE overlaps + 1
    BY <1>1, <2>1, EndCounts DEF TypeInv
  <2>3. overlaps' = 0 => overlaps = 0 /\ current
    BY <2>2, Tables
  <2> QED BY <2>3
<1>4. Len(rollovers) \in Nat
  BY Tables
<1>5. CASE t = 0
  <2>1. transfers' = transfers
    BY <1>1, <1>5
  <2> QED BY <1>1, <1>3, <1>4, <2>1, TransfersRest
<1>6. CASE t # 0
  <2>1. t \in 1 .. Len(transfers)
    BY <1>2, <1>6
  <2>2. s \in TransferStatus
    BY <1>2 DEF ResolvedStatus, TransferStatus
  <2>3. transfers[t] \in Transferred
    BY <2>1, Tables
  <2> HIDE DEF s, t, current
  <2>4. /\ x \in Transferred /\ x.enrolment = transfers[t].enrolment /\ x.status = s
        /\ x.dispute = transfers[t].dispute /\ x.rollover = transfers[t].rollover
    BY <2>2, <2>3 DEF Transferred
  <2> HIDE DEF x
  <2>5. /\ DOMAIN transfers = 1 .. Len(transfers)
        /\ 1 .. Len(transfers') = 1 .. Len(transfers)
        /\ \A u \in 1 .. Len(transfers) : transfers'[u] = IF u = t THEN x ELSE transfers[u]
    BY <1>1, <1>6, <2>1, <2>4, TransferReplaced, Tables DEF TypeInv, TypeOK
  <2>6. ASSUME overlaps' = 0
        PROVE  /\ Linked /\ \A u \in 1 .. Len(transfers) : Agrees(u)
               /\ s = ResolvedStatus(transfers[t].status)
    BY <1>3, <1>6, <2>6 DEF AgreeInv, TransferStatusOf, s
  <2>7. ASSUME overlaps' = 0, NEW u \in 1 .. Len(transfers) PROVE Agrees(u)'
    <3>1. CASE u = t
      BY <1>1, <2>1, <2>4, <2>5, <2>6, <2>7, <3>1 DEF Agrees, ResolvedStatus
    <3>2. CASE u # t
      BY <1>1, <2>5, <2>6, <2>7, <3>2 DEF Agrees
    <3> QED BY <3>1, <3>2
  <2>8. overlaps' = 0 => Linked'
    BY <2>4, <2>5, <2>6 DEF Linked
  <2>9. AgreeInv'
    BY <2>5, <2>7, <2>8 DEF AgreeInv
  <2>10. KeepsClosed
    BY <2>4, <2>5, <2>6 DEF KeepsClosed, ResolvedStatus
  <2> QED BY <2>9, <2>10
<1> QED BY <1>5, <1>6

\* A review goes on with a status that was open.
LEMMA ReviewsStayOpen == ASSUME TypeInv, ReviewsOpen, [Next]_vars PROVE ReviewsOpen'
<1> USE DEF ReviewsOpen
<1>1. call \in [Calls -> Call]
  BY DEF TypeInv, TypeOK
<1>2. CASE IngestStudent \/ EscalateDispute \/ CloseDispute \/ UNCHANGED vars
  BY <1>2 DEF IngestStudent, EscalateDispute, CloseDispute, vars
<1>3. ASSUME NEW c \in Calls, NEW what, Begin(c, what),
             what.kind \in {"review", "complete"} => Reviewable(what.status)
      PROVE  ReviewsOpen'
  BY <1>1, <1>3 DEF Begin
<1>4. ASSUME NEW c \in Calls, call' = [call EXCEPT ![c] = NoCall] PROVE ReviewsOpen'
  BY <1>1, <1>4, RestingCall
<1>5. ASSUME NEW c \in Calls, ReadReview(c) PROVE ReviewsOpen'
  <2>1. PICK t \in DOMAIN transfers :
            /\ Reviewable(transfers[t].status)
            /\ Begin(c, [NoCall EXCEPT !.kind = "review", !.row = t,
                                       !.status = transfers[t].status])
    BY <1>5 DEF ReadReview
  <2> DEFINE what == [NoCall EXCEPT !.kind = "review", !.row = t,
                                    !.status = transfers[t].status]
  <2>2. what.status = transfers[t].status
    BY DEF NoCall
  <2>3. Begin(c, what) /\ Reviewable(what.status)
    BY <2>1, <2>2
  <2> HIDE DEF what
  <2> QED BY <1>3, <2>3
<1>6. ASSUME NEW c \in Calls, ReadConfirm(c) \/ ReadRequest(c) \/ ReadDispute(c) \/ ReadResolve(c)
      PROVE  ReviewsOpen'
  <2>1. /\ call'[c].kind \in {"confirm", "request", "dispute", "resolve"}
        /\ \A d \in Calls : d # c => call'[d] = call[d]
    <3>1. CASE ReadConfirm(c)
      BY <1>1, <3>1 DEF ReadConfirm, Begin, NoCall
    <3>2. CASE ReadRequest(c)
      BY <1>1, <3>2 DEF ReadRequest, Begin, NoCall
    <3>3. CASE ReadDispute(c)
      BY <1>1, <3>3 DEF ReadDispute, Begin, NoCall
    <3>4. CASE ReadResolve(c)
      BY <1>1, <3>4 DEF ReadResolve, Begin, NoCall
    <3> QED BY <1>6, <3>1, <3>2, <3>3, <3>4
  <2> QED BY <2>1
<1>7. ASSUME NEW c \in Calls, StartCompletion(c) PROVE ReviewsOpen'
  <2>1. call[c].kind = "review" /\ call' = [call EXCEPT ![c].kind = "complete"]
    BY <1>7 DEF StartCompletion
  <2>2. \A d \in Calls : call'[d].status = call[d].status
    BY <1>1, <2>1 DEF Call
  <2>3. \A d \in Calls : d # c => call'[d] = call[d]
    BY <1>1, <2>1
  <2> QED BY <2>1, <2>2, <2>3
<1>8. ASSUME NEW c \in Calls,
             \/ CommitConfirm(c) \/ CommitRequest(c) \/ CommitRefusal(c) \/ CommitCompletion(c)
             \/ CommitDispute(c) \/ CommitResolve(c) \/ Abandon(c)
      PROVE  ReviewsOpen'
  <2>1. call' = [call EXCEPT ![c] = NoCall]
    BY <1>8 DEF CommitConfirm, CommitRequest, CommitRefusal, CommitCompletion, CommitDispute,
                CommitResolve, Abandon, End
  <2> QED BY <1>4, <2>1
<1> QED BY <1>2, <1>5, <1>6, <1>7, <1>8 DEF Next

\* What every step does to the transfers.
LEMMA NextAgrees ==
    ASSUME TypeInv, AgreeInv, ReviewsOpen, [Next]_vars
    PROVE  AgreeInv' /\ KeepsClosed
<1>1. TypeInv'
  BY NextTypes
<1>2. CASE IngestStudent
  BY <1>1, <1>2, IngestAgrees
<1>3. ASSUME UNCHANGED <<enrolments, rollovers, transfers, overlaps>>
      PROVE  AgreeInv' /\ KeepsClosed
  BY <1>1, <1>3, Tables, TransfersRest
<1>4. CASE EscalateDispute \/ CloseDispute \/ UNCHANGED vars
  BY <1>3, <1>4 DEF EscalateDispute, CloseDispute, vars
<1>5. ASSUME NEW c \in Calls,
             \/ ReadConfirm(c) \/ ReadRequest(c) \/ ReadReview(c) \/ StartCompletion(c)
             \/ ReadDispute(c) \/ ReadResolve(c) \/ Abandon(c)
      PROVE  AgreeInv' /\ KeepsClosed
  BY <1>3, <1>5 DEF ReadConfirm, ReadRequest, ReadReview, StartCompletion, ReadDispute,
                    ReadResolve, Abandon, Begin, tables
<1>6. ASSUME NEW c \in Calls,
             \/ CommitConfirm(c) \/ CommitRequest(c) \/ CommitRefusal(c) \/ CommitCompletion(c)
             \/ CommitDispute(c) \/ CommitResolve(c)
      PROVE  AgreeInv' /\ KeepsClosed
  BY <1>1, <1>6, ConfirmAgrees, RequestAgrees, RefusalAgrees, CompletionAgrees,
     DisputeAgrees, ResolutionAgrees
<1> QED BY <1>2, <1>4, <1>5, <1>6 DEF Next

LEMMA TransfersInv == Spec => [](TypeInv /\ AgreeInv /\ ReviewsOpen)
<1>1. Init => TypeInv /\ AgreeInv /\ ReviewsOpen
  <2> SUFFICES ASSUME Init PROVE TypeInv /\ AgreeInv /\ ReviewsOpen
    OBVIOUS
  <2>1. TypeInv
    BY InitTypes
  <2>2. Len(transfers) = 0
    BY EmptySeq DEF Init
  <2>3. AgreeInv
    BY <2>2 DEF AgreeInv, Linked
  <2>4. ReviewsOpen
    BY RestingCall DEF Init, ReviewsOpen
  <2> QED BY <2>1, <2>3, <2>4
<1>2. TypeInv /\ AgreeInv /\ ReviewsOpen /\ [Next]_vars => (TypeInv /\ AgreeInv /\ ReviewsOpen)'
  BY NextTypes, NextAgrees, ReviewsStayOpen
<1> QED BY <1>1, <1>2, PTL DEF Spec

\* A completed transfer, its rollover, its enrolment and its dispute agree, for
\* any number of calls, as long as none commits over a row it had not read.
THEOREM TransfersStayAgreed == Spec => []TransfersAgree
<1>1. TypeInv /\ AgreeInv => TransfersAgree
  <2> SUFFICES ASSUME TypeInv, AgreeInv, overlaps = 0, NEW t \in DOMAIN transfers
               PROVE  LET row == transfers[t] IN
                      /\ row.status \in {"COMPLETED", "DISPUTED"} => row.rollover # 0
                      /\ row.rollover # 0 =>
                           /\ rollovers[row.rollover].enrolment = row.enrolment
                           /\ enrolments[row.enrolment].status = "TRANSFERRED_OUT"
                           /\ rollovers[row.rollover].dispute = row.dispute
                      /\ row.rollover # 0 /\ row.status = "REJECTED" => row.dispute # 0
    BY DEF TransfersAgree
  <2>1. Agrees(t)
    BY Tables DEF AgreeInv
  <2> QED BY <2>1 DEF Agrees
<1> QED BY <1>1, TransfersInv, PTL

\* No review, resolution or dispute of another rollover reopens a closed transfer.
THEOREM ClosedTransfersStay == Spec => ClosedStaysClosed
<1>1. TypeInv /\ AgreeInv /\ ReviewsOpen /\ [Next]_vars =>
         (overlaps' = 0 =>
             \A t \in DOMAIN transfers :
                 /\ transfers[t].status = "REJECTED" => transfers'[t].status = "REJECTED"
                 /\ transfers[t].status = "COMPLETED" =>
                       transfers'[t].status \in {"COMPLETED", "DISPUTED"})
  BY NextAgrees DEF KeepsClosed
<1> QED BY <1>1, TransfersInv, PTL DEF Spec, ClosedStaysClosed
=============================================================================

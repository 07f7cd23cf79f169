----------------------------- MODULE PortalProofs -----------------------------
(***************************************************************************)
(* Proofs about Membership and about Access, for any number of calls in    *)
(* flight, members, applications, invites and record requests.             *)
(*                                                                         *)
(* Of Membership first.  InviteRedeemedOnce rests on the tokens: no two    *)
(* rows carry the same one, and one that a row still carries has been      *)
(* redeemed at most once for each overlap (Tokens).                        *)
(***************************************************************************)
EXTENDS Membership, Access, FiniteSetTheorems, SequenceTheorems, TLAPS

Tokens ==
    /\ \A m, n \in Members : member[m].invite # 0 /\ member[m].invite = member[n].invite => m = n
    /\ \A m \in Members :
           member[m].invite # 0 =>
               member[m].invite \in 1 .. Invites /\ redeemed[member[m].invite] <= overlaps
    /\ InviteRedeemedOnce

\* What a call has read satisfies what it asked of it.
Reads(x) ==
    /\ x.kind = "accept" => x.row.status = "INVITED" /\ x.row.invite \in 1 .. Invites
    /\ x.kind = "approve" => x.application \in 1 .. Len(applications) /\ x.status = "PENDING"

CallsRead == \A c \in Calls : Reads(call[c])

MemberTypes == TypeOK /\ Len(applications) <= MaxApplications

MemberInv == MemberTypes /\ CallsRead /\ Tokens /\ ApplicationsSettle

-----------------------------------------------------------------------------
(* What the steps have in common. *)

LEMMA MemberBounds ==
    Contact \in Members /\ MaxApplications \in Nat /\ MaxInvites \in Nat /\ MaxOverlaps \in Nat
BY MembershipAssumption

LEMMA RestingCall == NoCall \in Call /\ NoCall.kind = "none" /\ NoRow \in Row
BY MemberBounds DEF NoCall, Call, NoRow, Row, Role, StaffStatus, ApplicationStatus

\* The tables as sequences.
LEMMA Tables ==
    ASSUME TypeOK
    PROVE  /\ Len(applications) \in Nat /\ DOMAIN applications = 1 .. Len(applications)
           /\ Invites \in Nat /\ DOMAIN redeemed = 1 .. Invites
           /\ DOMAIN founded = DOMAIN applications
           /\ \A a \in 1 .. Len(applications) :
                  applications[a] \in ApplicationStatus /\ founded[a] \in Nat
           /\ \A t \in 1 .. Invites : redeemed[t] \in Nat
           /\ overlaps \in Nat
<1>1. /\ applications \in Seq(ApplicationStatus)
      /\ founded \in Seq(Nat) /\ Len(founded) = Len(applications)
      /\ redeemed \in Seq(Nat) /\ overlaps \in 0 .. MaxOverlaps
  BY DEF TypeOK
<1>2. /\ Len(applications) \in Nat /\ DOMAIN applications = 1 .. Len(applications)
      /\ DOMAIN founded = 1 .. Len(applications)
      /\ Len(redeemed) \in Nat /\ DOMAIN redeemed = 1 .. Len(redeemed)
  BY <1>1, LenProperties
<1>3. /\ \A a \in 1 .. Len(applications) : applications[a] \in ApplicationStatus
      /\ \A a \in 1 .. Len(applications) : founded[a] \in Nat
      /\ \A t \in 1 .. Len(redeemed) : redeemed[t] \in Nat
  BY <1>1, ElementOfSeq
<1> QED BY <1>1, <1>2, <1>3, MemberBounds DEF Invites

\* A row appended to a table.
LEMMA Added ==
    ASSUME NEW S, NEW s \in Seq(S), NEW x \in S
    PROVE  /\ Append(s, x) \in Seq(S)
           /\ Len(Append(s, x)) = Len(s) + 1
           /\ Len(s) \in Nat
           /\ \A i \in 1 .. Len(s) : Append(s, x)[i] = s[i]
           /\ Append(s, x)[Len(s) + 1] = x
BY AppendProperties, LenProperties

LEMMA Row0 ==
    ASSUME NEW row \in Row
    PROVE  row.status \in StaffStatus \cup {"NONE"} /\ row.role \in Role
           /\ row.invite \in 0 .. MaxInvites
BY DEF Row

\* A row that is invited.
LEMMA InvitedRow ==
    ASSUME Invites \in Nat, Invites < MaxInvites, NEW row \in Row, NEW role \in Role
    PROVE  LET x == Invited(row, role)
           IN  x \in Row /\ x.invite = Invites + 1 /\ x.status = "INVITED"
<1>1. Invites + 1 \in 0 .. MaxInvites
  BY MemberBounds
<1> QED BY <1>1 DEF Row, Role, Invited, StaffStatus

\* A row whose invite is accepted.
LEMMA AcceptedRow ==
    ASSUME NEW row \in Row
    PROVE  Accepted(row) \in Row /\ Accepted(row).invite = 0
<1>1. 0 \in 0 .. MaxInvites
  BY MemberBounds
<1> QED BY <1>1 DEF Row, Role, Accepted, StaffStatus

\* A row whose status and role are set.
LEMMA UpdatedRow ==
    ASSUME NEW row \in Row, NEW status \in StaffStatus, NEW role \in Role
    PROVE  LET x == [row EXCEPT !.status = status]
               y == [row EXCEPT !.status = status, !.role = role]
           IN  x \in Row /\ y \in Row /\ x.invite = row.invite /\ y.invite = row.invite
BY DEF Row

\* The count of overlaps after a call has ended.
LEMMA EndCounts ==
    ASSUME TypeOK, NEW c \in Calls, NEW current \in BOOLEAN, End(c, current)
    PROVE  /\ call' = [call EXCEPT ![c] = NoCall] /\ call' \in [Calls -> Call]
           /\ overlaps' \in 0 .. MaxOverlaps /\ overlaps' \in Nat
           /\ overlaps' = IF current THEN overlaps ELSE overlaps + 1
<1>1. overlaps \in 0 .. MaxOverlaps /\ call \in [Calls -> Call]
  BY DEF TypeOK
<1>2. call' = [call EXCEPT ![c] = NoCall] /\ call' \in [Calls -> Call]
  BY <1>1, RestingCall DEF End
<1> QED BY <1>1, <1>2, MemberBounds DEF End

LEMMA ReadsRest ==
    ASSUME TypeOK, CallsRead, \A c \in Calls : call'[c] \in {call[c], NoCall},
           Len(applications)' \in Nat, Len(applications) <= Len(applications)',
           Invites' \in Nat, Invites <= Invites'
    PROVE  CallsRead'
BY Tables, RestingCall DEF CallsRead, Reads

LEMMA TokensRest ==
    ASSUME TypeOK, Tokens, \A m \in Members : member'[m].invite \in {member[m].invite, 0},
           redeemed' = redeemed, overlaps' \in Nat, overlaps <= overlaps'
    PROVE  Tokens'
<1>1. Invites' = Invites
  BY DEF Invites
<1>2. InviteRedeemedOnce'
  BY <1>1, Tables DEF Tokens, InviteRedeemedOnce
<1>3. \A m \in Members :
          member'[m].invite # 0 =>
              member'[m].invite \in 1 .. Invites /\ redeemed[member'[m].invite] <= overlaps
  BY DEF Tokens
<1>4. \A m \in Members :
          member'[m].invite # 0 => redeemed'[member'[m].invite] <= overlaps'
  BY <1>3, Tables
<1>5. \A m, n \in Members :
          member'[m].invite # 0 /\ member'[m].invite = member'[n].invite => m = n
  BY DEF Tokens
<1> QED BY <1>1, <1>2, <1>3, <1>4, <1>5 DEF Tokens

LEMMA PendingFinite == ASSUME TypeOK PROVE IsFiniteSet(Pending)
<1>1. Pending \subseteq 1 .. Len(applications) /\ Len(applications) \in Int
  BY Tables DEF Pending
<1>2. IsFiniteSet(1 .. Len(applications))
  BY <1>1, FS_Interval
<1> QED BY <1>1, <1>2, FS_Subset

LEMMA SettleRest ==
    ASSUME TypeOK, ApplicationsSettle, UNCHANGED <<applications, founded>>,
           overlaps' \in Nat, overlaps <= overlaps'
    PROVE  ApplicationsSettle'
<1>1. Pending' = Pending
  BY DEF Pending
<1>2. Cardinality(Pending) \in Nat
  BY PendingFinite, FS_CardinalityType
<1> QED BY <1>1, <1>2, Tables DEF ApplicationsSettle

\* A new token is in no row but the one it is made for.
LEMMA TokenFresh ==
    ASSUME Tokens, NEW m \in Members, Invites \in Nat, overlaps \in Nat, overlaps' \in Nat,
           overlaps <= overlaps', Invites' = Invites + 1,
           DOMAIN redeemed = 1 .. Invites, DOMAIN redeemed' = 1 .. Invites',
           \A t \in 1 .. Invites : redeemed[t] \in Nat /\ redeemed'[t] = redeemed[t],
           redeemed'[Invites + 1] = 0,
           \A n \in Members : member'[n].invite = IF n = m THEN Invites + 1 ELSE member[n].invite
    PROVE  Tokens'
<1>1. /\ \A t \in 1 .. Invites : redeemed[t] <= 1 + overlaps
      /\ \A n \in Members :
             member[n].invite # 0 =>
                 member[n].invite \in 1 .. Invites /\ redeemed[member[n].invite] <= overlaps
      /\ \A k, n \in Members :
             member[k].invite # 0 /\ member[k].invite = member[n].invite => k = n
  BY DEF Tokens, InviteRedeemedOnce
<1>2. InviteRedeemedOnce'
  BY <1>1 DEF InviteRedeemedOnce
<1>3. ASSUME NEW n \in Members, member'[n].invite # 0
      PROVE  member'[n].invite \in 1 .. Invites' /\ redeemed'[member'[n].invite] <= overlaps'
  <2>1. CASE n = m
    BY <2>1
  <2>2. CASE n # m
    <3>1. member'[n].invite = member[n].invite /\ member[n].invite \in 1 .. Invites
          /\ redeemed[member[n].invite] <= overlaps
      BY <1>1, <1>3, <2>2
    <3> QED BY <3>1
  <2> QED BY <2>1, <2>2
<1>4. \A k, n \in Members :
          member'[k].invite # 0 /\ member'[k].invite = member'[n].invite => k = n
  BY <1>1
<1> QED BY <1>2, <1>3, <1>4 DEF Tokens

LEMMA TokenIssued ==
    ASSUME MemberTypes, Tokens, NEW m \in Members, NEW role \in Role, Invites < MaxInvites,
           member' = [member EXCEPT ![m] = Invited(@, role)],
           redeemed' = Append(redeemed, 0), overlaps' \in Nat, overlaps <= overlaps'
    PROVE  /\ member' \in [Members -> Row] /\ Tokens'
           /\ redeemed' \in Seq(Nat) /\ Invites' = Invites + 1 /\ Invites' <= MaxInvites
<1>1. /\ Invites \in Nat /\ overlaps \in Nat /\ member \in [Members -> Row]
      /\ redeemed \in Seq(Nat) /\ \A t \in 1 .. Invites : redeemed[t] \in Nat
  BY Tables DEF MemberTypes, TypeOK
<1>2. /\ redeemed' \in Seq(Nat) /\ Invites' = Invites + 1
      /\ \A t \in 1 .. Invites : redeemed'[t] = redeemed[t]
      /\ redeemed'[Invites + 1] = 0
  BY <1>1, Added, 0 \in Nat DEF Invites
<1>3. Invited(member[m], role) \in Row /\ Invited(member[m], role).invite = Invites + 1
  BY <1>1, InvitedRow
<1>4. /\ member' \in [Members -> Row]
      /\ \A n \in Members : member'[n].invite = IF n = m THEN Invites + 1 ELSE member[n].invite
  BY <1>1, <1>3
<1>5. DOMAIN redeemed = 1 .. Invites /\ DOMAIN redeemed' = 1 .. Invites'
  BY <1>1, <1>2, LenProperties DEF Invites
<1>6. Invites' <= MaxInvites
  BY <1>1, <1>2, MemberBounds
<1>7. Tokens'
  BY <1>1, <1>2, <1>4, <1>5, TokenFresh
<1> QED BY <1>2, <1>4, <1>6, <1>7

-----------------------------------------------------------------------------
(* The steps that neither found an institution nor make or take a token. *)

LEMMA MemberBegins == Init => MemberInv
<1> SUFFICES ASSUME Init PROVE MemberInv
  OBVIOUS
<1>1. applications = <<>> /\ founded = <<>> /\ redeemed = <<>> /\ overlaps = 0
  BY DEF Init
<1>2. /\ applications \in Seq(ApplicationStatus) /\ founded \in Seq(Nat) /\ redeemed \in Seq(Nat)
      /\ Len(applications) = 0 /\ Len(founded) = 0 /\ Len(redeemed) = 0
  BY <1>1, EmptySeq
<1>3. MemberTypes
  <2>1. /\ institution \in {"NONE", "ACTIVE", "SUSPENDED"} /\ session \in BOOLEAN
        /\ member \in [Members -> Row] /\ call \in [Calls -> Call]
    BY RestingCall DEF Init
  <2>2. overlaps \in 0 .. MaxOverlaps /\ Invites <= MaxInvites
        /\ Len(founded) = Len(applications) /\ Len(applications) <= MaxApplications
    BY <1>1, <1>2, MemberBounds DEF Invites
  <2> QED BY <1>2, <2>1, <2>2 DEF MemberTypes, TypeOK
<1>4. CallsRead
  BY RestingCall DEF Init, CallsRead, Reads
<1>5. /\ DOMAIN applications = 1 .. Len(applications) /\ DOMAIN redeemed = 1 .. Len(redeemed)
      /\ \A m \in Members : member[m].invite = 0
  BY <1>3, Tables DEF Init, MemberTypes, NoRow, Invites
<1>6. Tokens
  BY <1>2, <1>5 DEF Tokens, InviteRedeemedOnce
<1>7. Pending = {}
  BY <1>2, <1>5 DEF Pending
<1>8. Cardinality(Pending) <= 1 + overlaps
  BY <1>1, <1>7, FS_EmptySet
<1>9. ApplicationsSettle
  BY <1>2, <1>5, <1>8 DEF ApplicationsSettle
<1> QED BY <1>3, <1>4, <1>6, <1>9 DEF MemberInv

\* A call begins with what it read.
LEMMA CallBegins ==
    ASSUME MemberInv, NEW c \in Calls, NEW what \in Call, Reads(what), Begin(c, what)
    PROVE  MemberInv'
<1>1. /\ call' = [call EXCEPT ![c] = what]
      /\ UNCHANGED <<applications, institution, member, session, founded, redeemed, overlaps>>
  BY DEF Begin, history
<1>2. call \in [Calls -> Call] /\ TypeOK
  BY DEF MemberInv, MemberTypes, TypeOK
<1>3. MemberTypes'
  BY <1>1, <1>2 DEF MemberInv, MemberTypes, TypeOK, Invites
<1>4. Len(applications)' = Len(applications) /\ Invites' = Invites
  BY <1>1 DEF Invites
<1>5. CallsRead'
  BY <1>1, <1>2, <1>4 DEF MemberInv, CallsRead, Reads
<1>6. Tokens' /\ ApplicationsSettle'
  BY <1>1 DEF MemberInv, Tokens, InviteRedeemedOnce, Invites, ApplicationsSettle, Pending
<1> QED BY <1>3, <1>5, <1>6 DEF MemberInv

LEMMA CallKept ==
    ASSUME MemberInv, NEW c \in Calls,
           ReadSubmit(c) \/ ReadApprove(c) \/ ReadAccept(c) \/ ReadUpdate(c)
    PROVE  MemberInv'
<1>1. TypeOK /\ Len(applications) <= MaxApplications
  BY DEF MemberInv, MemberTypes
<1>2. CASE ReadSubmit(c)
  <2>1. LET x == [NoCall EXCEPT !.kind = "submit"] IN x \in Call /\ Reads(x)
    BY RestingCall DEF Call, Reads
  <2> QED BY <1>2, <2>1, CallBegins DEF ReadSubmit
<1>3. CASE ReadApprove(c)
  <2>1. PICK a \in DOMAIN applications :
            Begin(c, [NoCall EXCEPT !.kind = "approve", !.application = a,
                                    !.status = "PENDING"])
    BY <1>3 DEF ReadApprove, ApprovalAccepts
  <2>2. a \in 1 .. Len(applications) /\ a \in 0 .. MaxApplications
    BY <1>1, <2>1, Tables, MemberBounds
  <2>3. LET x == [NoCall EXCEPT !.kind = "approve", !.application = a,
                                !.status = "PENDING"]
        IN  x \in Call /\ Reads(x)
    BY <2>2, RestingCall DEF Call, Reads, ApplicationStatus
  <2> QED BY <2>1, <2>3, CallBegins
<1>4. CASE ReadAccept(c)
  <2>1. PICK m \in Members :
            /\ member[m].invite # 0 /\ member[m].status = "INVITED"
            /\ Begin(c, [NoCall EXCEPT !.kind = "accept", !.member = m, !.row = member[m]])
    BY <1>4 DEF ReadAccept, Acceptable
  <2>2. member[m] \in Row /\ member[m].invite \in 1 .. Invites
    BY <1>1, <2>1 DEF MemberInv, Tokens, TypeOK
  <2>3. LET x == [NoCall EXCEPT !.kind = "accept", !.member = m, !.row = member[m]]
        IN  x \in Call /\ Reads(x)
    BY <2>1, <2>2, RestingCall DEF Call, Reads
  <2> QED BY <2>1, <2>3, CallBegins
<1>5. CASE ReadUpdate(c)
  <2>1. PICK m \in Members :
            Begin(c, [NoCall EXCEPT !.kind = "update", !.member = m,
                                    !.row = [NoRow EXCEPT !.role = member[m].role]])
    BY <1>5 DEF ReadUpdate
  <2>2. member[m].role \in Role
    BY <1>1, Row0 DEF TypeOK
  <2>3. [NoRow EXCEPT !.role = member[m].role] \in Row
    BY <2>2, RestingCall DEF Row
  <2>4. LET x == [NoCall EXCEPT !.kind = "update", !.member = m,
                                !.row = [NoRow EXCEPT !.role = member[m].role]]
        IN  x \in Call /\ Reads(x)
    BY <2>3, RestingCall DEF Call, Reads
  <2> QED BY <2>1, <2>4, CallBegins
<1> QED BY <1>2, <1>3, <1>4, <1>5

\* A step that leaves the applications and the acceptances alone, and takes no
\* token but to drop it.
LEMMA RestKept ==
    ASSUME MemberInv, TypeOK', UNCHANGED <<applications, founded, redeemed>>,
           \A m \in Members : member'[m].invite \in {member[m].invite, 0},
           \A c \in Calls : call'[c] \in {call[c], NoCall}, overlaps <= overlaps'
    PROVE  MemberInv'
<1>1. TypeOK /\ Invites' = Invites /\ Len(applications)' = Len(applications)
  BY DEF MemberInv, MemberTypes, Invites
<1>2. overlaps' \in Nat
  BY MemberBounds DEF TypeOK
<1>3. Invites \in Nat /\ Len(applications) \in Nat
  BY <1>1, Tables
<1>4. CallsRead'
  BY <1>1, <1>3, ReadsRest DEF MemberInv
<1>5. Tokens'
  BY <1>1, <1>2, TokensRest DEF MemberInv
<1>6. ApplicationsSettle'
  BY <1>1, <1>2, SettleRest DEF MemberInv
<1> QED BY <1>1, <1>4, <1>5, <1>6 DEF MemberInv, MemberTypes

LEMMA MembersKept ==
    ASSUME MemberInv, NEW m \in Members,
           FounderUpdates(m) \/ SignIn(m) \/ SessionExpires \/ SetInstitutionStatus
    PROVE  MemberInv'
<1>1. TypeOK
  BY DEF MemberInv, MemberTypes
<1>2. UNCHANGED <<applications, call, founded, redeemed, overlaps>>
  BY DEF FounderUpdates, SignIn, SessionExpires, SetInstitutionStatus, history
<1>3. member \in [Members -> Row] /\ overlaps \in Nat
  BY <1>1, Tables DEF TypeOK
<1>4. /\ member' \in [Members -> Row]
      /\ \A n \in Members : member'[n].invite = member[n].invite
      /\ session' \in BOOLEAN /\ institution' \in {"NONE", "ACTIVE", "SUSPENDED"}
  <2>1. CASE FounderUpdates(m)
    <3>1. PICK status \in StaffStatus, role \in Role :
              member' = [member EXCEPT ![m].status = status, ![m].role = role]
      BY <2>1 DEF FounderUpdates
    <3>2. LET y == [member[m] EXCEPT !.status = status, !.role = role]
          IN  y \in Row /\ y.invite = member[m].invite
      BY <1>3, UpdatedRow
    <3>3. member' = [member EXCEPT ![m] = [member[m] EXCEPT !.status = status, !.role = role]]
      BY <1>3, <3>1
    <3>4. UNCHANGED <<session, institution>>
      BY <2>1 DEF FounderUpdates
    <3> HIDE <3>1
    <3> QED BY <1>1, <1>3, <3>2, <3>3, <3>4 DEF TypeOK
  <2>2. CASE SignIn(m) \/ SessionExpires \/ SetInstitutionStatus
    BY <1>1, <1>3, <2>2 DEF SignIn, SessionExpires, SetInstitutionStatus, TypeOK
  <2> QED BY <2>1, <2>2
<1>5. TypeOK'
  BY <1>1, <1>2, <1>4 DEF TypeOK, Invites
<1> QED BY <1>2, <1>3, <1>4, <1>5, RestKept

\* A call that fails, and one that sets the status of a member.
LEMMA UpdateKept ==
    ASSUME MemberInv, NEW c \in Calls, Abandon(c) \/ CommitUpdate(c) PROVE MemberInv'
<1>1. TypeOK /\ member \in [Members -> Row] /\ call \in [Calls -> Call]
  BY DEF MemberInv, MemberTypes, TypeOK
<1>2. UNCHANGED <<applications, institution, session, founded, redeemed>>
  BY DEF Abandon, CommitUpdate, history
<1>3. /\ call' = [call EXCEPT ![c] = NoCall] /\ overlaps <= overlaps'
      /\ overlaps' \in 0 .. MaxOverlaps
  <2>1. CASE Abandon(c)
    <3>1. call' = [call EXCEPT ![c] = NoCall] /\ overlaps' = overlaps
      BY <2>1 DEF Abandon
    <3>2. overlaps \in 0 .. MaxOverlaps
      BY <1>1 DEF TypeOK
    <3> QED BY <3>1, <3>2, MemberBounds
  <2>2. CASE CommitUpdate(c)
    <3>1. PICK current \in BOOLEAN : End(c, current)
      BY <2>2, Zenon DEF CommitUpdate
    <3>2. overlaps \in Nat
      BY <1>1, Tables
    <3> HIDE <2>2
    <3> QED BY <1>1, <3>1, <3>2, EndCounts
  <2> QED BY <2>1, <2>2
<1>4. member' \in [Members -> Row] /\ \A m \in Members : member'[m].invite = member[m].invite
  <2>1. CASE Abandon(c)
    BY <1>1, <2>1 DEF Abandon
  <2>2. CASE CommitUpdate(c)
    <3>1. PICK status \in StaffStatus :
              member' = [member EXCEPT ![call[c].member].status = status]
      BY <2>2 DEF CommitUpdate
    <3>2. call[c].member \in Members
      BY <1>1 DEF Call
    <3>3. member[call[c].member].role \in Role
      BY <1>1, <3>2, Row0
    <3>4. LET x == [member[call[c].member] EXCEPT !.status = status]
          IN  x \in Row /\ x.invite = member[call[c].member].invite
      BY <1>1, <3>2, <3>3, UpdatedRow
    <3> QED BY <1>1, <3>1, <3>2, <3>4
  <2> QED BY <2>1, <2>2
<1>5. TypeOK'
  BY <1>1, <1>2, <1>3, <1>4, RestingCall DEF TypeOK, Invites
<1> QED BY <1>1, <1>2, <1>3, <1>4, <1>5, RestKept

-----------------------------------------------------------------------------
(* The steps that make or take a token, and those of the applications. *)

\* A member is invited, by the founder or through the portal.
LEMMA InviteKept ==
    ASSUME MemberInv, NEW m \in Members, FounderInvites(m) \/ RegistrarInvites(m)
    PROVE  MemberInv'
<1>1. PICK role \in Role : Invite(m, role)
  BY DEF FounderInvites, RegistrarInvites, Role
<1>2. /\ Invites < MaxInvites
      /\ member' = [member EXCEPT ![m] = Invited(@, role)]
      /\ redeemed' = Append(redeemed, 0)
      /\ UNCHANGED <<applications, institution, session, call, founded, overlaps>>
  BY <1>1 DEF Invite
<1>3. MemberTypes /\ TypeOK /\ overlaps \in Nat /\ Invites \in Nat /\ Len(applications) \in Nat
  BY Tables DEF MemberInv, MemberTypes
<1>4. /\ member' \in [Members -> Row] /\ Tokens'
      /\ redeemed' \in Seq(Nat) /\ Invites' = Invites + 1 /\ Invites' <= MaxInvites
  <2>1. overlaps' \in Nat /\ overlaps <= overlaps' /\ Tokens
    BY <1>2, <1>3 DEF MemberInv
  <2> QED BY <1>2, <1>3, <2>1, TokenIssued, Zenon
<1>5. TypeOK' /\ MemberTypes'
  BY <1>2, <1>3, <1>4 DEF TypeOK, MemberTypes
<1>6. CallsRead'
  <2>1. /\ \A c \in Calls : call'[c] \in {call[c], NoCall}
        /\ Len(applications)' \in Nat /\ Len(applications) <= Len(applications)'
        /\ Invites' \in Nat /\ Invites <= Invites'
    BY <1>2, <1>3, <1>4
  <2> QED BY <1>3, <2>1, ReadsRest DEF MemberInv
<1>7. ApplicationsSettle'
  BY <1>2, <1>3, SettleRest DEF MemberInv
<1> QED BY <1>4, <1>5, <1>6, <1>7 DEF MemberInv

\* An acceptance that finds what it read spends the token its row carries.
LEMMA TokenSpent ==
    ASSUME Tokens, NEW m \in Members, NEW t \in 1 .. Invites,
           Invites \in Nat, Invites' = Invites, overlaps \in Nat,
           \/ overlaps' = overlaps /\ member[m].invite = t
           \/ overlaps' = overlaps + 1,
           DOMAIN redeemed = 1 .. Invites, DOMAIN redeemed' = 1 .. Invites,
           \A u \in 1 .. Invites :
               redeemed[u] \in Nat /\ redeemed'[u] = IF u = t THEN redeemed[t] + 1 ELSE redeemed[u],
           \A n \in Members : member'[n].invite = IF n = m THEN 0 ELSE member[n].invite
    PROVE  Tokens'
<1>1. /\ \A u \in 1 .. Invites : redeemed[u] <= 1 + overlaps
      /\ \A n \in Members :
             member[n].invite # 0 =>
                 member[n].invite \in 1 .. Invites /\ redeemed[member[n].invite] <= overlaps
      /\ \A k, n \in Members :
             member[k].invite # 0 /\ member[k].invite = member[n].invite => k = n
  BY DEF Tokens, InviteRedeemedOnce
<1>2. \A u \in 1 .. Invites : redeemed'[u] <= 1 + overlaps'
  BY <1>1
<1>3. InviteRedeemedOnce'
  BY <1>2 DEF InviteRedeemedOnce
<1>4. ASSUME NEW n \in Members, member'[n].invite # 0
      PROVE  member'[n].invite \in 1 .. Invites /\ redeemed'[member'[n].invite] <= overlaps'
  <2>1. n # m /\ member'[n].invite = member[n].invite /\ member[n].invite # 0
    BY <1>4
  <2>2. member[n].invite \in 1 .. Invites /\ redeemed[member[n].invite] <= overlaps
    BY <1>1, <2>1
  <2>3. CASE overlaps' = overlaps /\ member[m].invite = t
    <3>1. member[n].invite # t
      BY <1>1, <2>1, <2>3
    <3> QED BY <2>1, <2>2, <2>3, <3>1
  <2>4. CASE overlaps' = overlaps + 1
    BY <2>1, <2>2, <2>4
  <2> QED BY <2>3, <2>4
<1>5. \A k, n \in Members :
          member'[k].invite # 0 /\ member'[k].invite = member'[n].invite => k = n
  BY <1>1
<1> QED BY <1>3, <1>4, <1>5 DEF Tokens

LEMMA AcceptKept == ASSUME MemberInv, NEW c \in Calls, CommitAccept(c) PROVE MemberInv'
<1> DEFINE m == call[c].member
           t == call[c].row.invite
<1>1. TypeOK /\ member \in [Members -> Row] /\ call \in [Calls -> Call]
      /\ redeemed \in Seq(Nat)
  BY DEF MemberInv, MemberTypes, TypeOK
<1>2. m \in Members /\ t \in 1 .. Invites
  BY <1>1 DEF CommitAccept, MemberInv, CallsRead, Reads, Call
<1>3. /\ member' = [member EXCEPT ![m] = Accepted(member[m])]
      /\ redeemed' = [redeemed EXCEPT ![t] = redeemed[t] + 1]
      /\ UNCHANGED <<applications, institution, session, founded>>
  BY DEF CommitAccept
<1>4. PICK current \in BOOLEAN : End(c, current) /\ (current => member[m].invite = t)
  <2>1. End(c, member[m].status = call[c].row.status /\ member[m].invite = t)
    BY DEF CommitAccept
  <2> QED BY <2>1
<1> HIDE DEF m, t
<1>5. Invites \in Nat /\ overlaps \in Nat /\ Len(applications) \in Nat
      /\ DOMAIN redeemed = 1 .. Invites /\ \A u \in 1 .. Invites : redeemed[u] \in Nat
  BY <1>1, Tables
<1>6. /\ redeemed' \in Seq(Nat) /\ Invites' = Invites /\ DOMAIN redeemed' = 1 .. Invites
      /\ \A u \in 1 .. Invites : redeemed'[u] = IF u = t THEN redeemed[t] + 1 ELSE redeemed[u]
  <2>1. redeemed[t] + 1 \in Nat /\ t \in 1 .. Len(redeemed)
    BY <1>2, <1>5 DEF Invites
  <2> QED BY <1>1, <1>3, <2>1, ExceptSeq, LenProperties DEF Invites
<1>7. /\ call' = [call EXCEPT ![c] = NoCall] /\ call' \in [Calls -> Call]
      /\ overlaps' \in 0 .. MaxOverlaps /\ overlaps' \in Nat
      /\ overlaps' = IF current THEN overlaps ELSE overlaps + 1
  BY <1>1, <1>4, EndCounts
<1>8. /\ member' \in [Members -> Row]
      /\ \A n \in Members : member'[n].invite = IF n = m THEN 0 ELSE member[n].invite
  BY <1>1, <1>2, <1>3, AcceptedRow
<1>9. Tokens'
  <2>1. (overlaps' = overlaps /\ member[m].invite = t) \/ overlaps' = overlaps + 1
    BY <1>4, <1>7
  <2> QED BY <1>2, <1>5, <1>6, <1>8, <2>1, TokenSpent DEF MemberInv
<1>10. TypeOK' /\ MemberTypes'
  BY <1>1, <1>3, <1>6, <1>7, <1>8 DEF TypeOK, MemberInv, MemberTypes, Invites
<1>11. CallsRead'
  BY <1>1, <1>3, <1>5, <1>6, <1>7, ReadsRest DEF MemberInv
<1>12. overlaps <= overlaps'
  BY <1>5, <1>7
<1>13. ApplicationsSettle'
  BY <1>1, <1>3, <1>7, <1>12, SettleRest DEF MemberInv
<1> QED BY <1>9, <1>10, <1>11, <1>13 DEF MemberInv

\* Fewer pending applications than before.
LEMMA PendingFewer ==
    ASSUME TypeOK, TypeOK', ApplicationsSettle, overlaps <= overlaps',
           Len(applications)' = Len(applications),
           \A a \in 1 .. Len(applications) :
               applications'[a] = "PENDING" => applications[a] = "PENDING"
    PROVE  Cardinality(Pending)' <= 1 + overlaps'
<1>1. Pending' \subseteq Pending
  <2>1. applications \in Seq(ApplicationStatus) /\ applications' \in Seq(ApplicationStatus)
    BY DEF TypeOK
  <2>2. DOMAIN applications = 1 .. Len(applications)
        /\ DOMAIN applications' = 1 .. Len(applications)
    BY <2>1, LenProperties
  <2> HIDE <2>1
  <2> QED BY <2>2 DEF Pending
<1>2. Cardinality(Pending') <= Cardinality(Pending) /\ Cardinality(Pending) \in Nat
      /\ Cardinality(Pending') \in Nat
  BY <1>1, PendingFinite, FS_Subset, FS_CardinalityType
<1>3. Cardinality(Pending) <= 1 + overlaps /\ overlaps \in Nat /\ overlaps' \in Nat
  BY Tables, MemberBounds DEF ApplicationsSettle, TypeOK
<1> QED BY <1>2, <1>3

LEMMA RejectKept == ASSUME MemberInv, RejectApplication PROVE MemberInv'
<1>1. PICK a \in DOMAIN applications :
          applications' = [applications EXCEPT ![a] = "REJECTED"]
  BY DEF RejectApplication
<1>2. UNCHANGED <<institution, member, session, call, founded, redeemed, overlaps>>
  BY DEF RejectApplication, history
<1>3. TypeOK /\ applications \in Seq(ApplicationStatus) /\ Len(applications) \in Nat
      /\ DOMAIN applications = 1 .. Len(applications) /\ overlaps \in Nat
      /\ DOMAIN founded = DOMAIN applications /\ Invites \in Nat
      /\ \A b \in 1 .. Len(applications) : founded[b] \in Nat
  BY Tables DEF MemberInv, MemberTypes, TypeOK
<1>4. /\ applications' \in Seq(ApplicationStatus) /\ Len(applications)' = Len(applications)
      /\ \A b \in 1 .. Len(applications) :
             applications'[b] = IF b = a THEN "REJECTED" ELSE applications[b]
      /\ DOMAIN applications' = DOMAIN applications
  <2>1. "REJECTED" \in ApplicationStatus
    BY DEF ApplicationStatus
  <2> QED BY <1>1, <1>3, <2>1, ExceptSeq
<1>5. TypeOK' /\ MemberTypes'
  BY <1>2, <1>3, <1>4 DEF TypeOK, MemberInv, MemberTypes, Invites
<1>6. CallsRead'
  BY <1>2, <1>4 DEF MemberInv, CallsRead, Reads, Invites
<1>7. Tokens'
  BY <1>2 DEF MemberInv, Tokens, InviteRedeemedOnce, Invites
<1>8. Cardinality(Pending)' <= 1 + overlaps'
  <2>1. /\ \A b \in 1 .. Len(applications) :
               applications'[b] = "PENDING" => applications[b] = "PENDING"
        /\ overlaps <= overlaps'
    BY <1>2, <1>3, <1>4
  <2> QED BY <1>3, <1>4, <1>5, <2>1, PendingFewer DEF MemberInv
<1>9. \A b \in DOMAIN applications' :
          /\ founded'[b] <= 1 + overlaps'
          /\ applications'[b] = "APPROVED" => founded'[b] > 0
          /\ applications'[b] = "PENDING" => founded'[b] = 0
  BY <1>2, <1>3, <1>4 DEF MemberInv, ApplicationsSettle
<1>10. ApplicationsSettle'
  BY <1>8, <1>9 DEF ApplicationsSettle
<1> QED BY <1>5, <1>6, <1>7, <1>10 DEF MemberInv

LEMMA SubmitKept == ASSUME MemberInv, NEW c \in Calls, CommitSubmit(c) PROVE MemberInv'
<1> DEFINE n == Len(applications)
<1>1. /\ n < MaxApplications
      /\ applications' = Append(applications, "PENDING") /\ founded' = Append(founded, 0)
      /\ UNCHANGED <<institution, member, session, redeemed>>
  BY DEF CommitSubmit
<1>2. PICK current \in BOOLEAN : End(c, current) /\ (current => Pending = {})
  BY Zenon DEF CommitSubmit
<1>3. /\ TypeOK /\ applications \in Seq(ApplicationStatus) /\ n \in Nat
      /\ founded \in Seq(Nat) /\ Len(founded) = n
      /\ DOMAIN applications = 1 .. n /\ overlaps \in Nat /\ Invites \in Nat
      /\ \A b \in 1 .. n : founded[b] \in Nat
  BY Tables DEF MemberInv, MemberTypes, TypeOK
<1>4. /\ call' = [call EXCEPT ![c] = NoCall] /\ call' \in [Calls -> Call]
      /\ overlaps' \in 0 .. MaxOverlaps /\ overlaps' \in Nat
      /\ overlaps' = IF current THEN overlaps ELSE overlaps + 1
  BY <1>2, <1>3, EndCounts
<1>5. /\ applications' \in Seq(ApplicationStatus) /\ Len(applications') = n + 1
      /\ \A b \in 1 .. n : applications'[b] = applications[b]
      /\ applications'[n + 1] = "PENDING"
  <2>1. "PENDING" \in ApplicationStatus
    BY DEF ApplicationStatus
  <2> QED BY <1>1, <1>3, <2>1, Added
<1>6. /\ founded' \in Seq(Nat) /\ Len(founded') = n + 1
      /\ \A b \in 1 .. n : founded'[b] = founded[b]
      /\ founded'[n + 1] = 0
  BY <1>1, <1>3, Added, 0 \in Nat
<1>7. DOMAIN applications' = 1 .. n + 1
  BY <1>5, LenProperties
<1> HIDE DEF n
<1>8. TypeOK' /\ MemberTypes'
  <2>1. Len(applications)' <= MaxApplications /\ Invites' = Invites
    BY <1>1, <1>3, <1>5, MemberBounds DEF Invites
  <2> QED BY <1>1, <1>3, <1>4, <1>5, <1>6, <2>1 DEF TypeOK, MemberTypes
<1>9. CallsRead'
  <2>1. /\ \A d \in Calls : call'[d] \in {call[d], NoCall}
        /\ Len(applications)' \in Nat /\ n <= Len(applications)'
        /\ Invites' \in Nat /\ Invites <= Invites'
    BY <1>1, <1>3, <1>4, <1>5 DEF TypeOK, Invites
  <2> QED BY <1>3, <2>1, ReadsRest DEF MemberInv, n
<1>10. Tokens'
  <2>1. /\ \A m \in Members : member'[m].invite \in {member[m].invite, 0}
        /\ overlaps <= overlaps'
    BY <1>1, <1>3, <1>4
  <2> QED BY <1>1, <1>3, <1>4, <2>1, TokensRest DEF MemberInv
<1>11. Cardinality(Pending') <= 1 + overlaps'
  <2>1. Pending' = Pending \cup {n + 1} /\ n + 1 \notin Pending
    BY <1>3, <1>5, <1>7 DEF Pending
  <2>2. IsFiniteSet(Pending) /\ Cardinality(Pending) \in Nat
    BY <1>3, PendingFinite, FS_CardinalityType
  <2>3. Cardinality(Pending') = Cardinality(Pending) + 1
    BY <2>1, <2>2, FS_AddElement
  <2>4. Cardinality(Pending) <= 1 + overlaps
    BY DEF MemberInv, ApplicationsSettle
  <2>5. CASE current
    <3>1. Cardinality(Pending) = 0
      BY <1>2, <2>5, FS_EmptySet
    <3> QED BY <1>4, <2>3, <3>1
  <2>6. CASE ~current
    BY <1>3, <1>4, <2>2, <2>3, <2>4, <2>6
  <2> QED BY <2>5, <2>6
<1>12. \A b \in 1 .. n + 1 :
          /\ founded'[b] <= 1 + overlaps'
          /\ applications'[b] = "APPROVED" => founded'[b] > 0
          /\ applications'[b] = "PENDING" => founded'[b] = 0
  <2>1. TAKE b \in 1 .. n + 1
  <2>2. CASE b = n + 1
    BY <1>4, <1>5, <1>6, <2>2
  <2>3. CASE b \in 1 .. n
    <3>1. /\ founded[b] <= 1 + overlaps
          /\ applications[b] = "APPROVED" => founded[b] > 0
          /\ applications[b] = "PENDING" => founded[b] = 0
      BY <1>3, <2>3 DEF MemberInv, ApplicationsSettle
    <3>2. applications'[b] = applications[b] /\ founded'[b] = founded[b]
      BY <1>5, <1>6, <2>3
    <3> HIDE <1>5, <1>6
    <3> QED BY <1>3, <1>4, <2>3, <3>1, <3>2
  <2> QED BY <1>3, <2>2, <2>3
<1>13. ApplicationsSettle'
  BY <1>7, <1>11, <1>12 DEF ApplicationsSettle
<1> QED BY <1>8, <1>9, <1>10, <1>13 DEF MemberInv

\* An approval that finds the application pending founds its first institution.
LEMMA FoundedOnce ==
    ASSUME NEW n \in Nat, overlaps \in Nat, NEW a \in 1 .. n,
           \/ overlaps' = overlaps /\ applications[a] = "PENDING"
           \/ overlaps' = overlaps + 1,
           \A b \in 1 .. n :
               /\ founded[b] \in Nat /\ founded[b] <= 1 + overlaps
               /\ applications[b] = "APPROVED" => founded[b] > 0
               /\ applications[b] = "PENDING" => founded[b] = 0,
           \A b \in 1 .. n :
               /\ applications'[b] = IF b = a THEN "APPROVED" ELSE applications[b]
               /\ founded'[b] = IF b = a THEN founded[b] + 1 ELSE founded[b]
    PROVE  \A b \in 1 .. n :
               /\ founded'[b] <= 1 + overlaps'
               /\ applications'[b] = "APPROVED" => founded'[b] > 0
               /\ applications'[b] = "PENDING" => founded'[b] = 0
<1> TAKE b \in 1 .. n
<1>1. CASE b = a
  BY <1>1
<1>2. CASE b # a
  BY <1>2
<1> QED BY <1>1, <1>2

LEMMA ApproveKept == ASSUME MemberInv, NEW c \in Calls, CommitApprove(c) PROVE MemberInv'
<1> DEFINE n == Len(applications)
           a == call[c].application
<1>1. /\ applications' = [applications EXCEPT ![a] = "APPROVED"]
      /\ founded' = [founded EXCEPT ![a] = founded[a] + 1]
      /\ UNCHANGED session
  BY DEF CommitApprove
<1>2. /\ TypeOK /\ applications \in Seq(ApplicationStatus) /\ n \in Nat
      /\ founded \in Seq(Nat) /\ Len(founded) = n
      /\ DOMAIN applications = 1 .. n /\ overlaps \in Nat /\ Invites \in Nat
      /\ \A b \in 1 .. n : founded[b] \in Nat
  BY Tables DEF MemberInv, MemberTypes, TypeOK
<1>3. a \in 1 .. n /\ call[c].status = "PENDING"
  BY DEF CommitApprove, MemberInv, CallsRead, Reads
<1>4. PICK current \in BOOLEAN : End(c, current) /\ (current => applications[a] = "PENDING")
  <2>1. End(c, applications[a] = "PENDING")
    BY <1>3 DEF CommitApprove
  <2> QED BY <2>1, Zenon
<1>5. /\ call' = [call EXCEPT ![c] = NoCall] /\ call' \in [Calls -> Call]
      /\ overlaps' \in 0 .. MaxOverlaps /\ overlaps' \in Nat
      /\ overlaps' = IF current THEN overlaps ELSE overlaps + 1
  BY <1>2, <1>4, EndCounts
<1> HIDE DEF n, a
<1>6. /\ applications' \in Seq(ApplicationStatus) /\ Len(applications') = n
      /\ DOMAIN applications' = 1 .. n
      /\ \A b \in 1 .. n :
             applications'[b] = IF b = a THEN "APPROVED" ELSE applications[b]
  <2>1. "APPROVED" \in ApplicationStatus
    BY DEF ApplicationStatus
  <2> QED BY <1>1, <1>2, <1>3, <2>1, ExceptSeq, LenProperties DEF n
<1>7. /\ founded' \in Seq(Nat) /\ Len(founded') = n
      /\ \A b \in 1 .. n : founded'[b] = IF b = a THEN founded[b] + 1 ELSE founded[b]
  <2>1. founded[a] + 1 \in Nat /\ a \in 1 .. Len(founded)
    BY <1>2, <1>3
  <2> QED BY <1>1, <1>2, <2>1, ExceptSeq
<1>8. \/ overlaps' = overlaps /\ applications[a] = "PENDING"
      \/ overlaps' = overlaps + 1
  BY <1>4, <1>5
<1>9. overlaps <= overlaps'
  BY <1>2, <1>8
<1>10. /\ member' \in [Members -> Row] /\ Tokens' /\ redeemed' \in Seq(Nat)
       /\ Invites' \in Nat /\ Invites <= Invites' /\ Invites' <= MaxInvites
       /\ institution' \in {"NONE", "ACTIVE", "SUSPENDED"}
  <2>1. CASE institution = "NONE"
    <3>1. /\ Invites < MaxInvites /\ institution' = "ACTIVE"
          /\ member' = [member EXCEPT ![Contact] = Invited(@, "REGISTRAR")]
          /\ redeemed' = Append(redeemed, 0)
      BY <2>1 DEF CommitApprove
    <3>2. "REGISTRAR" \in Role /\ Contact \in Members /\ MemberTypes /\ Tokens
      BY MemberBounds DEF Role, MemberInv
    <3>3. /\ member' \in [Members -> Row] /\ Tokens'
          /\ redeemed' \in Seq(Nat) /\ Invites' = Invites + 1 /\ Invites' <= MaxInvites
      BY <1>5, <1>9, <3>1, <3>2, TokenIssued, Zenon
    <3> QED BY <1>2, <3>1, <3>3
  <2>2. CASE institution # "NONE"
    <3>1. UNCHANGED <<institution, member, redeemed>>
      BY <2>2 DEF CommitApprove
    <3>2. Invites' = Invites /\ \A m \in Members : member'[m].invite \in {member[m].invite, 0}
      BY <3>1 DEF Invites
    <3>3. Tokens'
      BY <1>2, <1>5, <1>9, <3>1, <3>2, TokensRest DEF MemberInv
    <3> QED BY <1>2, <3>1, <3>2, <3>3 DEF TypeOK
  <2> QED BY <2>1, <2>2
<1>11. TypeOK' /\ MemberTypes'
  <2>1. Len(applications)' <= MaxApplications
    BY <1>6 DEF MemberInv, MemberTypes, n
  <2> QED BY <1>1, <1>2, <1>5, <1>6, <1>7, <1>10, <2>1 DEF TypeOK, MemberTypes
<1>12. CallsRead'
  <2>1. /\ \A d \in Calls : call'[d] \in {call[d], NoCall}
        /\ Len(applications)' \in Nat /\ n <= Len(applications)'
    BY <1>2, <1>5, <1>6 DEF TypeOK
  <2> QED BY <1>2, <1>10, <2>1, ReadsRest DEF MemberInv, n
<1>13. Cardinality(Pending)' <= 1 + overlaps'
  <2>1. /\ Len(applications)' = Len(applications)
        /\ \A b \in 1 .. Len(applications) :
               applications'[b] = "PENDING" => applications[b] = "PENDING"
    BY <1>6 DEF n
  <2> QED BY <1>2, <1>9, <1>11, <2>1, PendingFewer DEF MemberInv
<1>14. \A b \in 1 .. n :
          /\ founded[b] \in Nat /\ founded[b] <= 1 + overlaps
          /\ applications[b] = "APPROVED" => founded[b] > 0
          /\ applications[b] = "PENDING" => founded[b] = 0
  BY <1>2 DEF MemberInv, ApplicationsSettle
<1>15. \A b \in 1 .. n :
          /\ applications'[b] = IF b = a THEN "APPROVED" ELSE applications[b]
          /\ founded'[b] = IF b = a THEN founded[b] + 1 ELSE founded[b]
  BY <1>6, <1>7
<1>16. \A b \in 1 .. n :
          /\ founded'[b] <= 1 + overlaps'
          /\ applications'[b] = "APPROVED" => founded'[b] > 0
          /\ applications'[b] = "PENDING" => founded'[b] = 0
  BY <1>2, <1>3, <1>8, <1>14, <1>15, FoundedOnce, Zenon
<1>17. ApplicationsSettle'
  BY <1>6, <1>13, <1>16 DEF ApplicationsSettle
<1> QED BY <1>10, <1>11, <1>12, <1>17 DEF MemberInv

-----------------------------------------------------------------------------
LEMMA MemberStep == ASSUME MemberInv, [Next]_vars PROVE MemberInv'
<1>1. CASE UNCHANGED vars
  BY <1>1 DEF vars, MemberInv, MemberTypes, TypeOK, CallsRead, Reads, Tokens, InviteRedeemedOnce,
              Invites, ApplicationsSettle, Pending
<1>2. CASE SetInstitutionStatus \/ SessionExpires
  BY <1>2, MembersKept, MemberBounds
<1> QED BY <1>1, <1>2, RejectKept, MembersKept, InviteKept, SubmitKept, ApproveKept, AcceptKept,
           CallKept, UpdateKept DEF Next

LEMMA MemberHolds == Spec => []MemberInv
BY MemberBegins, MemberStep, PTL DEF Spec

\* Type correctness: the rows, the tokens and what calls read of them stay what
\* the code may store.
THEOREM TypeCorrect == Spec => []TypeOK
<1>1. MemberInv => TypeOK
  BY DEF MemberInv, MemberTypes
<1> QED BY <1>1, MemberHolds, PTL

\* An invite token makes one acceptance, however often the founder puts its
\* member back to INVITED; another is owed to an acceptance that committed over
\* a row it had not read.
THEOREM InvitesRedeemedOnce == Spec => []InviteRedeemedOnce
<1>1. MemberInv => InviteRedeemedOnce
  BY DEF MemberInv, Tokens
<1> QED BY <1>1, MemberHolds, PTL

\* One application founds one institution and is approved by founding it, and a
\* contact has one pending application, but for the calls that overlapped.
THEOREM ApplicationsAreSettled == Spec => []ApplicationsSettle
<1>1. MemberInv => ApplicationsSettle
  BY DEF MemberInv
<1> QED BY <1>1, MemberHolds, PTL

\* No invite token reactivates a suspended member, unless the acceptance had
\* begun before the suspension.
THEOREM SuspensionsHold == Spec => SuspensionHolds
<1> DEFINE Reactivated(m) == member[m].status = "SUSPENDED" /\ member'[m].status = "ACTIVE"
           Excused(m) == \/ FounderUpdates(m)
                         \/ \E c \in Calls : CommitUpdate(c)
                         \/ overlaps' > overlaps
<1>1. ASSUME MemberInv, [Next]_vars
      PROVE  [\A m \in Members : Reactivated(m) => Excused(m)]_vars
  <2>1. SUFFICES ASSUME Next, NEW m \in Members, Reactivated(m) PROVE Excused(m)
    BY <1>1
  <2>2. TypeOK /\ member \in [Members -> Row] /\ overlaps \in Nat
    BY <1>1, Tables DEF MemberInv, MemberTypes, TypeOK
  <2>3. ASSUME NEW k \in Members, NEW role \in Role,
               member' = [member EXCEPT ![k] = Invited(@, role)]
        PROVE  FALSE
    <3>1. Invited(member[k], role).status = "INVITED"
      BY <2>2, <2>3 DEF Invited, Row
    <3> QED BY <2>1, <2>2, <2>3, <3>1
  <2>4. ~UNCHANGED member
    BY <2>1
  <2>5. ASSUME NEW k \in Members, FounderInvites(k) \/ RegistrarInvites(k) PROVE Excused(m)
    BY <2>3, <2>5 DEF FounderInvites, RegistrarInvites, Invite, Role
  <2>6. ASSUME NEW k \in Members, FounderUpdates(k) PROVE Excused(m)
    <3>1. member'[m] = member[m] \/ k = m
      BY <2>2, <2>6 DEF FounderUpdates
    <3> QED BY <2>1, <2>6, <3>1
  <2>7. ASSUME NEW c \in Calls, CommitApprove(c) PROVE Excused(m)
    BY <2>3, <2>4, <2>7, MemberBounds DEF CommitApprove, Role
  <2>8. ASSUME NEW c \in Calls, CommitAccept(c) PROVE Excused(m)
    <3>1. /\ call[c].row.status = "INVITED" /\ call[c].member \in Members
          /\ member'[m] = member[m] \/ call[c].member = m
      BY <1>1, <2>2, <2>8 DEF CommitAccept, MemberInv, CallsRead, Reads, TypeOK, Call
    <3>2. call[c].member = m /\ member[m].status # call[c].row.status
      BY <2>1, <3>1
    <3>3. End(c, FALSE)
      BY <2>8, <3>2 DEF CommitAccept, End
    <3>4. overlaps' = overlaps + 1
      BY <2>2, <3>3, EndCounts
    <3> QED BY <2>2, <3>4
  <2>9. CASE \/ RejectApplication \/ SetInstitutionStatus \/ SessionExpires
             \/ \E k \in Members : SignIn(k)
             \/ \E c \in Calls :
                    \/ ReadSubmit(c) \/ CommitSubmit(c) \/ ReadApprove(c) \/ ReadAccept(c)
                    \/ ReadUpdate(c) \/ Abandon(c)
    BY <2>4, <2>9 DEF RejectApplication, SetInstitutionStatus, SessionExpires, SignIn, ReadSubmit,
                      CommitSubmit, ReadApprove, ReadAccept, ReadUpdate, Abandon, Begin
  <2> QED BY <2>1, <2>5, <2>6, <2>7, <2>8, <2>9 DEF Next
<1> QED BY <1>1, MemberHolds, PTL DEF Spec, SuspensionHolds

-----------------------------------------------------------------------------
(* Of Access.  A view is let in by a grant that was not denied, so a commit   *)
(* that finds it unchanged counts one more view than the limit has room for   *)
(* at most; a request that is to reach the lead has not reached it, and no    *)
(* two calls have the same one; and a call with a fee to come is counted.     *)

Asks(c) == inquiry[c].kind = "ask"

Seen ==
    /\ \A c \in Inquiries :
           /\ inquiry[c].kind = "view" => grant.made /\ ~Denied(inquiry[c].grant)
           /\ Asks(c) => inquiry[c].request \in Requests \ asked
           /\ inquiry[c].lead.requests \subseteq asked
    /\ \A c, d \in Inquiries :
          Asks(c) /\ Asks(d) /\ inquiry[c].request = inquiry[d].request => c = d

Views ==
    /\ grant.views = events["SHARE_LINK"]
    /\ ~grant.made => grant.views = 0
    /\ ViewsAllowed

Bills == IsFiniteSet(Billing) /\ BilledOnce

AccessInv == AccessTypeOK /\ Seen /\ Views /\ Bills /\ DemandCounted

LEMMA AccessBounds ==
    /\ MaxViewCounts \subseteq Nat /\ MaxViewCounts # {}
    /\ MaxRequests \in Nat /\ MaxEvents \in Nat /\ MaxCrashes \in Nat /\ MaxReviews \in Nat
    /\ MaxOutdated \in Nat
BY AccessAssumption

LEMMA RestingInquiry ==
    /\ NoGrant \in Grant /\ NoLead \in Lead /\ NoInquiry \in Inquiry
    /\ NoInquiry.kind = "none" /\ NoInquiry.lead = NoLead /\ NoLead.requests = {}
    /\ ~NoGrant.made /\ NoGrant.views = 0 /\ NoLead.demand = 0
<1>1. 0 \in 0 .. MaxEvents /\ 0 \in 0 .. MaxRequests
  BY AccessBounds
<1>2. (CHOOSE n \in MaxViewCounts : TRUE) \in MaxViewCounts
  BY AccessBounds
<1>3. NoGrant \in Grant /\ ~NoGrant.made /\ NoGrant.views = 0
  BY <1>1, <1>2 DEF NoGrant, Grant
<1>4. NoLead \in Lead /\ NoLead.requests = {} /\ NoLead.demand = 0
  BY <1>1 DEF NoLead, Lead, LeadStatus
<1> HIDE DEF NoGrant, NoLead
<1>5. NoInquiry \in Inquiry /\ NoInquiry.kind = "none" /\ NoInquiry.lead = NoLead
  BY <1>1, <1>3, <1>4 DEF NoInquiry, Inquiry
<1> QED BY <1>3, <1>4, <1>5

\* What a call begins with.
LEMMA BegunView ==
    ASSUME NEW g \in Grant
    PROVE  LET x == [NoInquiry EXCEPT !.kind = "view", !.grant = g]
           IN  x \in Inquiry /\ x.kind = "view" /\ x.grant = g /\ x.lead = NoLead
BY RestingInquiry DEF Inquiry

LEMMA BegunFee ==
    LET x == [NoInquiry EXCEPT !.kind = "fee"]
    IN  x \in Inquiry /\ x.kind = "fee" /\ x.lead = NoLead
BY RestingInquiry DEF Inquiry

LEMMA BegunAsk ==
    ASSUME NEW l \in Lead, NEW r \in 0 .. MaxRequests
    PROVE  LET x == [NoInquiry EXCEPT !.kind = "ask", !.lead = l, !.request = r]
           IN  x \in Inquiry /\ x.kind = "ask" /\ x.lead = l /\ x.request = r
BY RestingInquiry DEF Inquiry

LEMMA BegunReview ==
    ASSUME NEW l \in Lead
    PROVE  LET x == [NoInquiry EXCEPT !.kind = "review", !.lead = l]
           IN  x \in Inquiry /\ x.kind = "review" /\ x.lead = l
BY RestingInquiry DEF Inquiry

\* The numbers of a typed state.
LEMMA Numbers ==
    ASSUME AccessTypeOK
    PROVE  /\ outdated \in Nat /\ fees \in Nat /\ late \in Nat /\ lost \in Nat
           /\ grant.views \in Nat /\ grant.max \in Nat /\ grant.made \in BOOLEAN
           /\ events["SHARE_LINK"] \in Nat /\ events["CREDENTIAL_REFERENCE"] \in Nat
           /\ lead.demand \in Nat /\ asked \subseteq Requests /\ IsFiniteSet(asked)
           /\ inquiry \in [Inquiries -> Inquiry] /\ fee \in BOOLEAN
<1>1. /\ outdated \in 0 .. MaxOutdated /\ {fees, late, lost} \subseteq Nat
      /\ grant \in Grant /\ lead \in Lead
      /\ events \in [VerifierTypes -> 0 .. MaxEvents] /\ asked \subseteq Requests
      /\ inquiry \in [Inquiries -> Inquiry] /\ fee \in BOOLEAN
  BY DEF AccessTypeOK
<1>2. grant.views \in 0 .. MaxEvents /\ grant.max \in MaxViewCounts /\ grant.made \in BOOLEAN
  BY <1>1 DEF Grant
<1>3. lead.demand \in 0 .. MaxRequests
  BY <1>1 DEF Lead
<1>4. IsFiniteSet(asked)
  <2>1. IsFiniteSet(1 .. MaxRequests)
    BY AccessBounds, FS_Interval
  <2> QED BY <1>1, <2>1, FS_Subset DEF Requests
<1>5. events["SHARE_LINK"] \in 0 .. MaxEvents /\ events["CREDENTIAL_REFERENCE"] \in 0 .. MaxEvents
  BY <1>1 DEF VerifierTypes
<1>6. fees \in Nat /\ late \in Nat /\ lost \in Nat
  BY <1>1
<1>7. outdated \in Nat /\ grant.views \in Nat /\ grant.max \in Nat /\ lead.demand \in Nat
      /\ events["SHARE_LINK"] \in Nat /\ events["CREDENTIAL_REFERENCE"] \in Nat
  <2>1. /\ outdated \in 0 .. MaxOutdated /\ grant.views \in 0 .. MaxEvents
        /\ grant.max \in MaxViewCounts /\ lead.demand \in 0 .. MaxRequests
    BY <1>1, <1>2, <1>3
  <2>2. \A n \in Nat : \A k \in 0 .. n : k \in Nat
    OBVIOUS
  <2>3. /\ MaxOutdated \in Nat /\ MaxEvents \in Nat /\ MaxRequests \in Nat
        /\ MaxViewCounts \subseteq Nat
    BY AccessBounds
  <2>4. grant.max \in Nat
    BY <2>1, <2>3
  <2> QED BY <1>5, <2>1, <2>2, <2>3, <2>4, Zenon
<1> QED BY <1>1, <1>2, <1>4, <1>6, <1>7

\* The count of stale commits after a call has ended.
LEMMA InquiryEnds ==
    ASSUME AccessTypeOK, NEW c \in Inquiries, NEW current \in BOOLEAN, EndInquiry(c, current)
    PROVE  /\ inquiry' = [inquiry EXCEPT ![c] = NoInquiry]
           /\ inquiry' \in [Inquiries -> Inquiry]
           /\ outdated' \in 0 .. MaxOutdated /\ outdated' \in Nat
           /\ outdated' = IF current THEN outdated ELSE outdated + 1
<1>1. outdated \in 0 .. MaxOutdated /\ inquiry \in [Inquiries -> Inquiry]
  BY DEF AccessTypeOK
<1>2. inquiry' = [inquiry EXCEPT ![c] = NoInquiry] /\ inquiry' \in [Inquiries -> Inquiry]
  BY <1>1, RestingInquiry DEF EndInquiry
<1> QED BY <1>1, <1>2, AccessBounds DEF EndInquiry

\* The fees to come after the call of c has changed.
LEMMA BillingMoves ==
    ASSUME IsFiniteSet(Billing), inquiry \in [Inquiries -> Inquiry], NEW c \in Inquiries,
           NEW x, inquiry' = [inquiry EXCEPT ![c] = x]
    PROVE  /\ IsFiniteSet(Billing') /\ Cardinality(Billing) \in Nat
           /\ (x.kind = "fee" <=> inquiry[c].kind = "fee") => Billing' = Billing
           /\ x.kind = "fee" /\ inquiry[c].kind # "fee" =>
                  Cardinality(Billing') = Cardinality(Billing) + 1
           /\ x.kind # "fee" /\ inquiry[c].kind = "fee" =>
                  Cardinality(Billing') = Cardinality(Billing) - 1
<1>1. \A d \in Inquiries : inquiry'[d] = IF d = c THEN x ELSE inquiry[d]
  OBVIOUS
<1>2. Cardinality(Billing) \in Nat
  BY FS_CardinalityType
<1>3. CASE x.kind = "fee" <=> inquiry[c].kind = "fee"
  <2>1. Billing' = Billing
    BY <1>1, <1>3 DEF Billing
  <2> QED BY <1>2, <1>3, <2>1
<1>4. CASE x.kind = "fee" /\ inquiry[c].kind # "fee"
  <2>1. Billing' = Billing \cup {c} /\ c \notin Billing
    BY <1>1, <1>4 DEF Billing
  <2> QED BY <1>2, <1>4, <2>1, FS_AddElement
<1>5. CASE x.kind # "fee" /\ inquiry[c].kind = "fee"
  <2>1. Billing' = Billing \ {c} /\ c \in Billing
    BY <1>1, <1>5 DEF Billing
  <2> QED BY <1>2, <1>5, <2>1, FS_RemoveElement
<1> QED BY <1>3, <1>4, <1>5

\* Steps in which no fee comes or goes.
LEMMA BillsRest ==
    ASSUME Bills, Billing' = Billing, UNCHANGED <<fees, lost, fee, events>> PROVE Bills'
BY DEF Bills, BilledOnce

LEMMA ViewsRest ==
    ASSUME AccessTypeOK, Views, UNCHANGED <<grant, events, late>>,
           outdated' \in Nat, outdated <= outdated'
    PROVE  Views'
BY Numbers DEF Views, ViewsAllowed

\* Steps that only end calls.
LEMMA SeenRest ==
    ASSUME Seen, \A c \in Inquiries : inquiry'[c] \in {inquiry[c], NoInquiry},
           grant.made => grant'.made, asked \subseteq asked',
           \A c \in Inquiries : inquiry'[c].kind = "ask" => inquiry'[c].request \notin asked'
    PROVE  Seen'
BY RestingInquiry DEF Seen, Asks

-----------------------------------------------------------------------------
LEMMA AccessBegins == AccessInit => AccessInv
<1> SUFFICES ASSUME AccessInit PROVE AccessInv
  OBVIOUS
<1>1. /\ grant = NoGrant /\ lead = NoLead /\ asked = {} /\ fees = 0 /\ late = 0 /\ lost = 0
      /\ outdated = 0 /\ inquiry = [c \in Inquiries |-> NoInquiry]
      /\ events = [t \in VerifierTypes |-> 0]
  BY DEF AccessInit
<1>2. AccessTypeOK
  <2>1. /\ credential \in Credential /\ fee \in BOOLEAN /\ crashes = 0 /\ reviews = 0
    BY DEF AccessInit
  <2>2. 0 \in 0 .. MaxEvents /\ 0 \in 0 .. MaxCrashes /\ 0 \in 0 .. MaxReviews
        /\ 0 \in 0 .. MaxOutdated
    BY AccessBounds
  <2>3. grant \in Grant /\ lead \in Lead /\ inquiry \in [Inquiries -> Inquiry]
        /\ events \in [VerifierTypes -> 0 .. MaxEvents] /\ {fees, late, lost} \subseteq Nat
    BY <1>1, <2>2, RestingInquiry
  <2>4. /\ crashes \in 0 .. MaxCrashes /\ reviews \in 0 .. MaxReviews
        /\ outdated \in 0 .. MaxOutdated /\ asked \subseteq Requests
    BY <1>1, <2>1, <2>2
  <2> QED BY <2>1, <2>3, <2>4 DEF AccessTypeOK
<1>3. Seen
  BY <1>1, RestingInquiry DEF Seen, Asks
<1>4. Views
  BY <1>1, <1>2, RestingInquiry, Numbers DEF Views, ViewsAllowed, VerifierTypes
<1>5. Bills
  <2>1. Billing = {}
    BY <1>1, RestingInquiry DEF Billing
  <2> QED BY <1>1, <2>1, FS_EmptySet DEF Bills, BilledOnce, VerifierTypes
<1>6. DemandCounted
  BY <1>1, RestingInquiry, FS_EmptySet DEF DemandCounted
<1> QED BY <1>2, <1>3, <1>4, <1>5, <1>6 DEF AccessInv

\* A link is made, is revoked or expires.
LEMMA LinkKept ==
    ASSUME AccessInv, CreateShareLink \/ RevokeGrant \/ ExpireGrant PROVE AccessInv'
<1>1. AccessTypeOK /\ grant \in Grant
  BY DEF AccessInv, AccessTypeOK
<1>2. UNCHANGED <<credential, fee, events, fees, late, lost, lead, asked, reviews, inquiry, crashes,
                  outdated>>
  BY DEF CreateShareLink, RevokeGrant, ExpireGrant, leads
<1>3. grant' \in Grant /\ grant'.made /\ grant'.views = grant.views
      /\ (grant.made => grant'.max = grant.max)
  BY <1>1 DEF CreateShareLink, RevokeGrant, ExpireGrant, Grant
<1>4. AccessTypeOK'
  BY <1>1, <1>2, <1>3 DEF AccessTypeOK
<1>5. Seen'
  BY <1>2, <1>3 DEF AccessInv, Seen, Asks
<1>6. Views'
  <2>1. grant'.max \in Nat /\ grant.views \in Nat /\ outdated \in Nat
    BY <1>1, <1>3, Numbers, AccessBounds DEF Grant
  <2> QED BY <1>2, <1>3, <2>1 DEF AccessInv, Views, ViewsAllowed
<1>7. Bills' /\ DemandCounted'
  BY <1>2 DEF AccessInv, Bills, BilledOnce, Billing, DemandCounted
<1> QED BY <1>4, <1>5, <1>6, <1>7 DEF AccessInv

\* A call begins with what it read.
LEMMA InquiryBegins ==
    ASSUME AccessInv, NEW c \in Inquiries, NEW x \in Inquiry, BeginInquiry(c, x),
           UNCHANGED <<sharing, leads, crashes, outdated>>,
           x.kind \in {"view", "ask", "review"},
           x.kind = "view" => grant.made /\ ~Denied(x.grant),
           x.kind = "ask" => /\ x.request \in Requests \ asked
                             /\ \A d \in Inquiries : inquiry[d].request # x.request,
           x.lead.requests \subseteq asked
    PROVE  AccessInv'
<1>1. /\ AccessTypeOK /\ inquiry \in [Inquiries -> Inquiry] /\ inquiry[c].kind = "none"
      /\ inquiry' = [inquiry EXCEPT ![c] = x]
      /\ \A d \in Inquiries : inquiry'[d] = IF d = c THEN x ELSE inquiry[d]
  BY DEF AccessInv, AccessTypeOK, BeginInquiry
<1>2. UNCHANGED <<credential, fee, grant, events, fees, late, lost, lead, asked, reviews, crashes,
                  outdated>>
  BY DEF sharing, leads
<1>3. AccessTypeOK'
  BY <1>1, <1>2 DEF AccessTypeOK
<1>4. Seen'
  BY <1>1, <1>2 DEF AccessInv, Seen, Asks
<1>5. Views' /\ DemandCounted'
  BY <1>2 DEF AccessInv, Views, ViewsAllowed, DemandCounted
<1>6. Billing' = Billing
  BY <1>1 DEF Billing
<1>7. Bills'
  BY <1>2, <1>6, BillsRest DEF AccessInv
<1> QED BY <1>3, <1>4, <1>5, <1>7 DEF AccessInv

LEMMA InquiryKept ==
    ASSUME AccessInv, NEW c \in Inquiries, ReadToken(c) \/ ReadLead(c) \/ ReadReview(c)
    PROVE  AccessInv'
<1>1. AccessTypeOK /\ grant \in Grant /\ lead \in Lead /\ lead.requests \subseteq asked
  BY DEF AccessInv, AccessTypeOK, DemandCounted
<1>2. CASE ReadToken(c)
  <2> DEFINE x == [NoInquiry EXCEPT !.kind = "view", !.grant = grant]
  <2>1. /\ grant.made /\ ~Denied(grant) /\ BeginInquiry(c, x)
        /\ UNCHANGED <<sharing, leads, crashes, outdated>>
    BY <1>2 DEF ReadToken
  <2>2. x \in Inquiry /\ x.kind = "view" /\ x.grant = grant /\ x.lead = NoLead
    BY <1>1, BegunView
  <2> HIDE DEF x
  <2>3. /\ x.kind \in {"view", "ask", "review"}
        /\ x.kind = "view" => grant.made /\ ~Denied(x.grant)
        /\ x.kind = "ask" => /\ x.request \in Requests \ asked
                             /\ \A d \in Inquiries : inquiry[d].request # x.request
        /\ x.lead.requests \subseteq asked
    BY <2>1, <2>2, RestingInquiry
  <2> QED BY <2>1, <2>2, <2>3, InquiryBegins, Zenon
<1>3. CASE ReadLead(c)
  <2>1. PICK r \in Requests \ Taken :
            BeginInquiry(c, [NoInquiry EXCEPT !.kind = "ask", !.lead = lead, !.request = r])
    BY <1>3 DEF ReadLead
  <2> DEFINE x == [NoInquiry EXCEPT !.kind = "ask", !.lead = lead, !.request = r]
  <2>2. BeginInquiry(c, x)
    BY <2>1
  <2>3. UNCHANGED <<sharing, leads, crashes, outdated>>
    BY <1>3 DEF ReadLead
  <2>4. r \in Requests \ asked /\ \A d \in Inquiries : inquiry[d].request # r
    BY <2>1 DEF Taken
  <2>5. x \in Inquiry /\ x.kind = "ask" /\ x.lead = lead /\ x.request = r
    <3>1. r \in 0 .. MaxRequests
      BY <2>4, AccessBounds DEF Requests
    <3> QED BY <1>1, <3>1, BegunAsk
  <2> HIDE DEF x
  <2>6. /\ x.kind \in {"view", "ask", "review"}
        /\ x.kind = "view" => grant.made /\ ~Denied(x.grant)
        /\ x.kind = "ask" => /\ x.request \in Requests \ asked
                             /\ \A d \in Inquiries : inquiry[d].request # x.request
        /\ x.lead.requests \subseteq asked
    BY <1>1, <2>4, <2>5
  <2> QED BY <2>2, <2>3, <2>5, <2>6, InquiryBegins, Zenon
<1>4. CASE ReadReview(c)
  <2> DEFINE x == [NoInquiry EXCEPT !.kind = "review", !.lead = lead]
  <2>1. BeginInquiry(c, x) /\ UNCHANGED <<sharing, leads, crashes, outdated>>
    BY <1>4 DEF ReadReview
  <2>2. x \in Inquiry /\ x.kind = "review" /\ x.lead = lead
    BY <1>1, BegunReview
  <2> HIDE DEF x
  <2>3. /\ x.kind \in {"view", "ask", "review"}
        /\ x.kind = "view" => grant.made /\ ~Denied(x.grant)
        /\ x.kind = "ask" => /\ x.request \in Requests \ asked
                             /\ \A d \in Inquiries : inquiry[d].request # x.request
        /\ x.lead.requests \subseteq asked
    BY <1>1, <2>1, <2>2
  <2> QED BY <2>1, <2>2, <2>3, InquiryBegins, Zenon
<1> QED BY <1>2, <1>3, <1>4

-----------------------------------------------------------------------------
(* Views and fees. *)

\* A view that finds the grant as it was let in has room under the limit.
LEMMA ViewCounted ==
    ASSUME AccessTypeOK, Views, outdated' \in Nat, NEW current \in BOOLEAN,
           current => ~Denied(grant), grant.made,
           outdated' = IF current THEN outdated ELSE outdated + 1,
           grant'.made, grant'.max = grant.max, grant'.views = grant.views + 1,
           events'["SHARE_LINK"] = events["SHARE_LINK"] + 1,
           late' = IF grant.revoked \/ grant.expired THEN late + 1 ELSE late
    PROVE  Views'
<1>1. /\ outdated \in Nat /\ late \in Nat /\ grant.views \in Nat /\ grant.max \in Nat
      /\ events["SHARE_LINK"] \in Nat
  BY Numbers
<1>2. /\ grant.views = events["SHARE_LINK"] /\ late <= outdated
      /\ grant.max # 0 => grant.views <= grant.max + outdated
  BY DEF Views, ViewsAllowed
<1>3. CASE current
  <2>1. ~grant.revoked /\ ~grant.expired /\ (grant.max # 0 => grant.views < grant.max)
    BY <1>1, <1>3 DEF Denied, Spent
  <2> QED BY <1>1, <1>2, <1>3, <2>1 DEF Views, ViewsAllowed
<1>4. CASE ~current
  <2>1. late' <= late + 1 /\ late' \in Nat
    BY <1>1
  <2> QED BY <1>1, <1>2, <1>4, <2>1 DEF Views, ViewsAllowed
<1> QED BY <1>3, <1>4

\* One more confirmed event.
LEMMA Confirmed ==
    ASSUME AccessTypeOK, NEW type \in VerifierTypes, Confirm(type)
    PROVE  /\ events' \in [VerifierTypes -> 0 .. MaxEvents] /\ events[type] < MaxEvents
           /\ \A t \in VerifierTypes : events'[t] = IF t = type THEN events[t] + 1 ELSE events[t]
<1>1. events \in [VerifierTypes -> 0 .. MaxEvents]
  BY DEF AccessTypeOK
<1>2. events[type] \in 0 .. MaxEvents /\ events[type] < MaxEvents
      /\ events' = [events EXCEPT ![type] = events[type] + 1]
  BY <1>1 DEF Confirm
<1>3. events[type] + 1 \in 0 .. MaxEvents
  BY <1>2, AccessBounds
<1> QED BY <1>1, <1>2, <1>3

LEMMA ViewKept == ASSUME AccessInv, NEW c \in Inquiries, CommitView(c) PROVE AccessInv'
<1>1. /\ AccessTypeOK /\ grant \in Grant /\ inquiry \in [Inquiries -> Inquiry]
      /\ inquiry[c].kind = "view" /\ grant.made /\ ~Denied(inquiry[c].grant)
      /\ "SHARE_LINK" \in VerifierTypes
  BY DEF CommitView, AccessInv, AccessTypeOK, Seen, VerifierTypes
<1>2. /\ Confirm("SHARE_LINK") /\ grant' = [grant EXCEPT !.views = grant.views + 1]
      /\ fees' = Charge
      /\ late' = IF grant.revoked \/ grant.expired THEN late + 1 ELSE late
      /\ UNCHANGED <<credential, fee, lost, lead, asked, reviews, crashes>>
  BY DEF CommitView, leads
<1>3. PICK current \in BOOLEAN :
          EndInquiry(c, current) /\ (current => grant = inquiry[c].grant)
  <2>1. EndInquiry(c, grant = inquiry[c].grant)
    BY DEF CommitView
  <2> QED BY <2>1, Zenon
<1>4. /\ inquiry' = [inquiry EXCEPT ![c] = NoInquiry] /\ inquiry' \in [Inquiries -> Inquiry]
      /\ outdated' \in 0 .. MaxOutdated /\ outdated' \in Nat
      /\ outdated' = IF current THEN outdated ELSE outdated + 1
  BY <1>1, <1>3, InquiryEnds
<1>5. /\ events' \in [VerifierTypes -> 0 .. MaxEvents] /\ events["SHARE_LINK"] < MaxEvents
      /\ \A t \in VerifierTypes :
             events'[t] = IF t = "SHARE_LINK" THEN events[t] + 1 ELSE events[t]
  BY <1>1, <1>2, Confirmed
<1>6. grant.views + 1 \in 0 .. MaxEvents
  BY <1>1, <1>5, Numbers, AccessBounds DEF AccessInv, Views
<1>7. grant' \in Grant /\ grant'.made /\ grant'.max = grant.max /\ grant'.views = grant.views + 1
  BY <1>1, <1>2, <1>6 DEF Grant
<1>8. fees' \in Nat /\ late' \in Nat /\ lost' \in Nat
  BY <1>1, <1>2, Numbers DEF Charge
<1>9. AccessTypeOK'
  BY <1>1, <1>2, <1>4, <1>5, <1>7, <1>8 DEF AccessTypeOK
<1>10. Views'
  <2>1. current => ~Denied(grant)
    BY <1>1, <1>3
  <2>2. events'["SHARE_LINK"] = events["SHARE_LINK"] + 1
    BY <1>1, <1>5
  <2>3. Views
    BY DEF AccessInv
  <2> QED BY <1>1, <1>2, <1>4, <1>7, <2>1, <2>2, <2>3, ViewCounted, Zenon
<1>11. Seen'
  <2>1. Seen /\ \A d \in Inquiries : inquiry'[d] \in {inquiry[d], NoInquiry}
    BY <1>1, <1>4 DEF AccessInv
  <2>2. \A d \in Inquiries : inquiry'[d].kind = "ask" => inquiry'[d].request \notin asked'
    BY <1>2, <2>1, RestingInquiry DEF Seen, Asks
  <2> QED BY <1>2, <1>7, <2>1, <2>2, SeenRest
<1>12. Billing' = Billing
  BY <1>1, <1>4, RestingInquiry DEF Billing
<1>13. Bills'
  <2>1. /\ IsFiniteSet(Billing) /\ Cardinality(Billing) \in Nat
        /\ fees \in Nat /\ lost \in Nat /\ events["SHARE_LINK"] \in Nat
        /\ events["CREDENTIAL_REFERENCE"] \in Nat
    BY <1>1, Numbers, FS_CardinalityType DEF AccessInv, Bills
  <2>2. /\ events'["SHARE_LINK"] = events["SHARE_LINK"] + 1
        /\ events'["CREDENTIAL_REFERENCE"] = events["CREDENTIAL_REFERENCE"]
    BY <1>5 DEF VerifierTypes
  <2> QED BY <1>2, <1>12, <2>1, <2>2 DEF AccessInv, Bills, BilledOnce, Charge
<1>14. DemandCounted'
  <2>1. outdated' = 0 => outdated = 0
    BY <1>1, <1>4, Numbers
  <2> QED BY <1>2, <2>1 DEF AccessInv, DemandCounted
<1> QED BY <1>9, <1>10, <1>11, <1>13, <1>14 DEF AccessInv

\* A reference is verified: what is confirmed has its fee to come.
LEMMA ReferenceKept == ASSUME AccessInv, NEW c \in Inquiries, VerifyReference(c) PROVE AccessInv'
<1> DEFINE x == [NoInquiry EXCEPT !.kind = "fee"]
<1>1. AccessTypeOK /\ inquiry \in [Inquiries -> Inquiry] /\ inquiry[c].kind = "none"
  BY DEF VerifyReference, BeginInquiry, AccessInv, AccessTypeOK
<1>2. UNCHANGED <<credential, fee, grant, fees, late, lost, lead, asked, reviews, crashes,
                  outdated>>
  BY DEF VerifyReference, leads
<1>3. x \in Inquiry /\ x.kind = "fee" /\ x.lead = NoLead
  BY BegunFee
<1>4. CASE ~credential.valid
  <2>1. UNCHANGED <<events, inquiry>>
    BY <1>4 DEF VerifyReference, Billed
  <2> QED BY <1>2, <2>1 DEF AccessInv, AccessTypeOK, Seen, Asks, Views, ViewsAllowed, Bills,
                            BilledOnce, Billing, DemandCounted
<1>5. CASE credential.valid
  <2>1. Confirm("CREDENTIAL_REFERENCE") /\ inquiry' = [inquiry EXCEPT ![c] = x]
    BY <1>5 DEF VerifyReference, Billed, BeginInquiry
  <2> HIDE DEF x
  <2>2. /\ events' \in [VerifierTypes -> 0 .. MaxEvents]
        /\ \A t \in VerifierTypes :
               events'[t] = IF t = "CREDENTIAL_REFERENCE" THEN events[t] + 1 ELSE events[t]
    BY <1>1, <2>1, Confirmed DEF VerifierTypes
  <2>3. /\ events'["SHARE_LINK"] = events["SHARE_LINK"]
        /\ events'["CREDENTIAL_REFERENCE"] = events["CREDENTIAL_REFERENCE"] + 1
    BY <2>2 DEF VerifierTypes
  <2>4. inquiry' \in [Inquiries -> Inquiry]
        /\ \A d \in Inquiries : inquiry'[d] = IF d = c THEN x ELSE inquiry[d]
    BY <1>1, <1>3, <2>1
  <2>5. AccessTypeOK'
    BY <1>1, <1>2, <2>2, <2>4 DEF AccessTypeOK
  <2>6. Seen'
    BY <1>2, <1>3, <2>4, RestingInquiry DEF AccessInv, Seen, Asks
  <2>7. Views' /\ DemandCounted'
    BY <1>2, <2>3 DEF AccessInv, Views, ViewsAllowed, DemandCounted
  <2>8. /\ IsFiniteSet(Billing') /\ Cardinality(Billing) \in Nat
        /\ Cardinality(Billing') = Cardinality(Billing) + 1
    BY <1>1, <1>3, <2>1, BillingMoves DEF AccessInv, Bills
  <2>9. /\ fees \in Nat /\ lost \in Nat /\ events["SHARE_LINK"] \in Nat
        /\ events["CREDENTIAL_REFERENCE"] \in Nat
    BY <1>1, Numbers
  <2>10. Bills'
    BY <1>2, <2>3, <2>8, <2>9 DEF AccessInv, Bills, BilledOnce
  <2> QED BY <2>5, <2>6, <2>7, <2>10 DEF AccessInv
<1> QED BY <1>4, <1>5

\* The fee of a reference is charged, or is lost with the process.
LEMMA FeeKept ==
    ASSUME AccessInv, NEW c \in Inquiries, BillReference(c) \/ Crash(c) PROVE AccessInv'
<1>1. AccessTypeOK /\ inquiry \in [Inquiries -> Inquiry]
  BY DEF AccessInv, AccessTypeOK
<1>2. /\ inquiry' = [inquiry EXCEPT ![c] = NoInquiry]
      /\ UNCHANGED <<credential, fee, grant, events, late, lead, asked, reviews, outdated>>
  BY DEF BillReference, Crash, leads
<1>3. /\ inquiry' \in [Inquiries -> Inquiry]
      /\ \A d \in Inquiries : inquiry'[d] \in {inquiry[d], NoInquiry}
  BY <1>1, <1>2, RestingInquiry
<1>4. /\ fees \in Nat /\ lost \in Nat /\ events["SHARE_LINK"] \in Nat
      /\ events["CREDENTIAL_REFERENCE"] \in Nat
  BY <1>1, Numbers
<1>5. /\ fees' \in Nat /\ lost' \in Nat
      /\ fees' + lost' = IF inquiry[c].kind = "fee" /\ fee THEN fees + lost + 1 ELSE fees + lost
  BY <1>4 DEF BillReference, Charge, Crash
<1>6. crashes' \in 0 .. MaxCrashes
  <2>1. crashes \in 0 .. MaxCrashes
    BY <1>1 DEF AccessTypeOK
  <2> QED BY <2>1, AccessBounds DEF BillReference, Crash
<1>7. AccessTypeOK'
  BY <1>1, <1>2, <1>3, <1>5, <1>6 DEF AccessTypeOK
<1>8. Seen'
  <2>1. \A d \in Inquiries : inquiry'[d].kind = "ask" => inquiry'[d].request \notin asked'
    BY <1>2, <1>3, RestingInquiry DEF AccessInv, Seen, Asks
  <2> QED BY <1>2, <1>3, <2>1, SeenRest DEF AccessInv
<1>9. Views' /\ DemandCounted'
  BY <1>2 DEF AccessInv, Views, ViewsAllowed, DemandCounted
<1>10. /\ IsFiniteSet(Billing') /\ Cardinality(Billing) \in Nat
       /\ inquiry[c].kind # "fee" => Billing' = Billing
       /\ inquiry[c].kind = "fee" => Cardinality(Billing') = Cardinality(Billing) - 1
  BY <1>1, <1>2, RestingInquiry, BillingMoves DEF AccessInv, Bills
<1>11. BilledOnce'
  <2>1. /\ fees + lost + (IF fee THEN Cardinality(Billing) ELSE 0)
               = (IF fee THEN events["SHARE_LINK"] + events["CREDENTIAL_REFERENCE"] ELSE 0)
        /\ UNCHANGED <<fee, events>>
    BY <1>2 DEF AccessInv, Bills, BilledOnce
  <2>2. CASE inquiry[c].kind = "fee"
    <3>1. Cardinality(Billing') = Cardinality(Billing) - 1
          /\ fees' + lost' = IF fee THEN fees + lost + 1 ELSE fees + lost
      BY <1>5, <1>10, <2>2
    <3>2. CASE fee
      <4>1. fees' + lost' + Cardinality(Billing')
                = events["SHARE_LINK"] + events["CREDENTIAL_REFERENCE"]
        <5>1. fees' + lost' = fees + lost + 1 /\ Cardinality(Billing') = Cardinality(Billing) - 1
          BY <3>1, <3>2
        <5>2. fees' + lost' + Cardinality(Billing') = fees + lost + 1 + (Cardinality(Billing) - 1)
          BY <5>1, Zenon
        <5>3. fees + lost \in Nat /\ Cardinality(Billing) \in Nat
          BY <1>4, <1>10
        <5>4. \A v, n \in Nat : v + 1 + (n - 1) = v + n
          OBVIOUS
        <5>5. fees + lost + 1 + (Cardinality(Billing) - 1) = fees + lost + Cardinality(Billing)
          BY <5>3, <5>4, Zenon
        <5>6. fees + lost + Cardinality(Billing)
                  = events["SHARE_LINK"] + events["CREDENTIAL_REFERENCE"]
          BY <2>1, <3>2
        <5> QED BY <5>2, <5>5, <5>6, Zenon
      <4>2. fee' /\ events' = events
        BY <2>1, <3>2
      <4> QED BY <4>1, <4>2, Zenon DEF BilledOnce
    <3>3. CASE ~fee
      <4>1. fees' + lost' + 0 = 0
        BY <1>4, <1>5, <2>1, <3>1, <3>3
      <4>2. ~fee'
        BY <2>1, <3>3
      <4> QED BY <4>1, <4>2, Zenon DEF BilledOnce
    <3> QED BY <3>2, <3>3
  <2>3. CASE inquiry[c].kind # "fee"
    <3>1. Billing' = Billing /\ fees' + lost' = fees + lost
      BY <1>5, <1>10, <2>3
    <3> QED BY <1>4, <1>5, <1>10, <2>1, <3>1 DEF BilledOnce
  <2> QED BY <2>2, <2>3
<1>12. Bills'
  BY <1>10, <1>11 DEF Bills
<1> QED BY <1>7, <1>8, <1>9, <1>12 DEF AccessInv

LEMMA LookupKept == ASSUME AccessInv, LookupAin PROVE AccessInv'
<1>1. AccessTypeOK /\ "AIN_LOOKUP" \in VerifierTypes
  BY DEF AccessInv, VerifierTypes
<1>2. UNCHANGED <<credential, fee, grant, fees, late, lost, lead, asked, reviews, inquiry, crashes,
                  outdated>>
  BY DEF LookupAin, leads
<1>3. /\ events' \in [VerifierTypes -> 0 .. MaxEvents]
      /\ events'["SHARE_LINK"] = events["SHARE_LINK"]
      /\ events'["CREDENTIAL_REFERENCE"] = events["CREDENTIAL_REFERENCE"]
  BY <1>1, Confirmed DEF LookupAin, VerifierTypes
<1>4. AccessTypeOK'
  BY <1>1, <1>2, <1>3 DEF AccessTypeOK
<1>5. Seen' /\ Views' /\ Bills' /\ DemandCounted'
  BY <1>2, <1>3 DEF AccessInv, Seen, Asks, Views, ViewsAllowed, Bills, BilledOnce, Billing,
                    DemandCounted
<1> QED BY <1>4, <1>5 DEF AccessInv

-----------------------------------------------------------------------------
(* The lead. *)

\* There are as many requests as their bound says.
LEMMA RequestsCounted ==
    IsFiniteSet(1 .. MaxRequests) /\ Cardinality(1 .. MaxRequests) = MaxRequests
<1>1. MaxRequests \in Int /\ MaxRequests >= 0
  BY AccessBounds
<1>2. /\ IsFiniteSet(1 .. MaxRequests)
      /\ Cardinality(1 .. MaxRequests) = IF 1 > MaxRequests THEN 0 ELSE MaxRequests - 1 + 1
  BY <1>1, FS_Interval
<1>3. CASE MaxRequests = 0
  BY <1>2, <1>3
<1>4. CASE MaxRequests # 0
  BY <1>1, <1>2, <1>4
<1> QED BY <1>3, <1>4

\* One more request has reached the lead, which counts it.
LEMMA DemandGrows ==
    ASSUME AccessTypeOK, DemandCounted, NEW r \in Requests \ asked, asked' = asked \cup {r},
           lead'.demand = lead.demand + 1, lead'.requests \subseteq asked',
           outdated' = 0 => outdated = 0 /\ lead'.requests = lead.requests \cup {r}
    PROVE  DemandCounted' /\ lead'.demand \in 0 .. MaxRequests
<1>1. IsFiniteSet(asked) /\ asked \subseteq Requests /\ lead.demand \in Nat
  BY Numbers
<1>2. Cardinality(asked') = Cardinality(asked) + 1
  BY <1>1, FS_AddElement
<1>3. lead.demand = Cardinality(asked) /\ (outdated = 0 => lead.requests = asked)
  BY DEF DemandCounted
<1>4. DemandCounted'
  BY <1>2, <1>3 DEF DemandCounted
<1>5. Cardinality(asked') <= MaxRequests
  <2>1. IsFiniteSet(1 .. MaxRequests) /\ Cardinality(1 .. MaxRequests) = MaxRequests
    BY RequestsCounted
  <2>2. asked' \subseteq 1 .. MaxRequests
    BY <1>1 DEF Requests
  <2> QED BY <2>1, <2>2, FS_Subset
<1> QED BY <1>1, <1>2, <1>3, <1>4, <1>5, AccessBounds

\* A step of the lead, that ends a call.
LEMMA LeadMoves ==
    ASSUME AccessInv, NEW c \in Inquiries, NEW current \in BOOLEAN, EndInquiry(c, current),
           UNCHANGED <<sharing, crashes>>, reviews' \in 0 .. MaxReviews, inquiry[c].kind # "fee",
           lead' \in Lead, asked' \subseteq Requests, asked \subseteq asked', DemandCounted',
           asked' \subseteq asked \cup (IF Asks(c) THEN {inquiry[c].request} ELSE {})
    PROVE  AccessInv'
<1>1. AccessTypeOK /\ inquiry \in [Inquiries -> Inquiry] /\ Seen
  BY DEF AccessInv, AccessTypeOK
<1>2. /\ inquiry' = [inquiry EXCEPT ![c] = NoInquiry] /\ inquiry' \in [Inquiries -> Inquiry]
      /\ outdated' \in 0 .. MaxOutdated /\ outdated' \in Nat
      /\ outdated' = IF current THEN outdated ELSE outdated + 1
  BY <1>1, InquiryEnds
<1>3. UNCHANGED <<credential, fee, grant, events, fees, late, lost, crashes>>
  BY DEF sharing
<1>4. AccessTypeOK'
  BY <1>1, <1>2, <1>3 DEF AccessTypeOK
<1>5. /\ \A d \in Inquiries : inquiry'[d] \in {inquiry[d], NoInquiry}
      /\ inquiry'[c] = NoInquiry /\ \A d \in Inquiries \ {c} : inquiry'[d] = inquiry[d]
  BY <1>1, <1>2
<1>6. ASSUME NEW d \in Inquiries, inquiry'[d].kind = "ask" PROVE inquiry'[d].request \notin asked'
  <2>1. d # c /\ inquiry'[d] = inquiry[d] /\ Asks(d)
    BY <1>5, <1>6, RestingInquiry DEF Asks
  <2>2. inquiry[d].request \notin asked /\ (Asks(c) => inquiry[c].request # inquiry[d].request)
    BY <1>1, <2>1 DEF Seen
  <2> QED BY <2>1, <2>2
<1>7. Seen'
  BY <1>1, <1>3, <1>5, <1>6, SeenRest
<1>8. Views'
  <2>1. outdated <= outdated'
    BY <1>1, <1>2, Numbers
  <2> QED BY <1>1, <1>2, <1>3, <2>1, ViewsRest DEF AccessInv
<1>9. Billing' = Billing
  BY <1>5, RestingInquiry DEF Billing
<1>10. Bills'
  BY <1>3, <1>9, BillsRest DEF AccessInv
<1> QED BY <1>4, <1>7, <1>8, <1>10 DEF AccessInv

LEMMA UpdateLeadKept == ASSUME AccessInv, NEW c \in Inquiries, UpdateLead(c) PROVE AccessInv'
<1> DEFINE seen == inquiry[c].lead
           r == inquiry[c].request
<1>1. /\ AccessTypeOK /\ inquiry \in [Inquiries -> Inquiry] /\ DemandCounted /\ lead \in Lead
      /\ outdated \in Nat /\ Asks(c) /\ r \in Requests \ asked /\ seen.requests \subseteq asked
      /\ seen \in Lead
  <2>1. Asks(c) /\ AccessTypeOK /\ Seen /\ DemandCounted
    BY DEF UpdateLead, AccessInv, Asks
  <2>2. inquiry \in [Inquiries -> Inquiry] /\ lead \in Lead /\ outdated \in Nat
    BY <2>1, Numbers DEF AccessTypeOK
  <2> QED BY <2>1, <2>2 DEF Seen, Inquiry
<1>2. /\ lead' = [status |-> Reopened(seen.status), demand |-> lead.demand + 1,
                  requests |-> seen.requests \cup {r}]
      /\ asked' = asked \cup {r}
      /\ UNCHANGED <<sharing, reviews, crashes>>
  BY DEF UpdateLead, Demand
<1>3. PICK current \in BOOLEAN : EndInquiry(c, current) /\ (current => lead = seen)
  <2>1. EndInquiry(c, lead = seen)
    BY DEF UpdateLead
  <2> QED BY <2>1, Zenon
<1> HIDE DEF seen, r
<1>4. outdated' = IF current THEN outdated ELSE outdated + 1
  BY <1>1, <1>3, InquiryEnds
<1>5. DemandCounted' /\ lead'.demand \in 0 .. MaxRequests
  <2>1. lead'.demand = lead.demand + 1 /\ lead'.requests = seen.requests \cup {r}
    BY <1>2
  <2>2. lead'.requests \subseteq asked'
    BY <1>1, <1>2, <2>1
  <2>3. outdated' = 0 => outdated = 0 /\ lead'.requests = lead.requests \cup {r}
    BY <1>1, <1>3, <1>4, <2>1
  <2> QED BY <1>1, <1>2, <2>1, <2>2, <2>3, DemandGrows
<1>6. lead' \in Lead
  <2>1. Reopened(seen.status) \in LeadStatus /\ seen.requests \cup {r} \in SUBSET Requests
    BY <1>1 DEF Reopened, Lead, LeadStatus
  <2>2. lead.demand + 1 \in 0 .. MaxRequests
    BY <1>2, <1>5
  <2> QED BY <1>2, <2>1, <2>2 DEF Lead
<1>7. /\ reviews' \in 0 .. MaxReviews /\ inquiry[c].kind # "fee"
      /\ asked \subseteq asked' /\ asked' \subseteq Requests
      /\ asked' \subseteq asked \cup (IF Asks(c) THEN {inquiry[c].request} ELSE {})
  BY <1>1, <1>2, Numbers DEF AccessTypeOK, Asks, r
<1> QED BY <1>2, <1>3, <1>5, <1>6, <1>7, LeadMoves

LEMMA CreateLeadKept == ASSUME AccessInv, NEW c \in Inquiries, CreateLead(c) PROVE AccessInv'
<1> DEFINE r == inquiry[c].request
<1>1. /\ AccessTypeOK /\ DemandCounted /\ lead \in Lead /\ Asks(c) /\ r \in Requests \ asked
      /\ IsFiniteSet(asked) /\ asked \subseteq Requests /\ reviews \in 0 .. MaxReviews
  BY Numbers DEF CreateLead, AccessInv, Seen, Asks, AccessTypeOK
<1>2. EndInquiry(c, TRUE) /\ UNCHANGED <<sharing, reviews, crashes>>
  BY DEF CreateLead
<1>3. outdated' = outdated
  BY <1>1, <1>2, InquiryEnds
<1>4. CASE lead.demand = 0
  <2>1. /\ lead' = [status |-> "NEW", demand |-> 1, requests |-> {r}]
        /\ asked' = asked \cup {r}
    BY <1>4 DEF CreateLead
  <2>2. Cardinality(asked) = 0
    BY <1>1, <1>4 DEF DemandCounted
  <2>3. asked = {}
    BY <1>1, <2>2, FS_EmptySet
  <2>4. lead.requests = {}
    BY <1>1, <2>3 DEF DemandCounted
  <2> HIDE DEF r
  <2>5. DemandCounted' /\ lead'.demand \in 0 .. MaxRequests
    <3>1. /\ lead'.demand = lead.demand + 1 /\ lead'.requests \subseteq asked'
          /\ outdated' = 0 => outdated = 0 /\ lead'.requests = lead.requests \cup {r}
      BY <1>3, <1>4, <2>1, <2>3, <2>4
    <3> HIDE <2>2
    <3> QED BY <1>1, <2>1, <3>1, DemandGrows
  <2>6. lead' \in Lead
    BY <1>1, <2>1, <2>5 DEF Lead, LeadStatus
  <2>7. /\ reviews' \in 0 .. MaxReviews /\ inquiry[c].kind # "fee"
        /\ asked \subseteq asked' /\ asked' \subseteq Requests
        /\ asked' \subseteq asked \cup (IF Asks(c) THEN {inquiry[c].request} ELSE {})
    BY <1>1, <1>2, <2>1 DEF Asks, r
  <2> QED BY <1>2, <2>5, <2>6, <2>7, LeadMoves
<1>5. CASE lead.demand # 0
  <2>1. UNCHANGED <<lead, asked>>
    BY <1>5 DEF CreateLead
  <2>2. DemandCounted'
    BY <1>1, <1>3, <2>1 DEF DemandCounted
  <2>3. /\ reviews' \in 0 .. MaxReviews /\ inquiry[c].kind # "fee" /\ lead' \in Lead
        /\ asked \subseteq asked' /\ asked' \subseteq Requests
        /\ asked' \subseteq asked \cup (IF Asks(c) THEN {inquiry[c].request} ELSE {})
    BY <1>1, <1>2, <2>1 DEF Asks
  <2> QED BY <1>2, <2>2, <2>3, LeadMoves
<1> QED BY <1>4, <1>5

LEMMA ReviewKept == ASSUME AccessInv, NEW c \in Inquiries, CommitReview(c) PROVE AccessInv'
<1>1. /\ AccessTypeOK /\ DemandCounted /\ lead \in Lead /\ asked \subseteq Requests
      /\ inquiry[c].kind = "review" /\ outdated \in Nat
  BY Numbers DEF CommitReview, AccessInv, AccessTypeOK
<1>2. PICK current \in BOOLEAN : EndInquiry(c, current)
  BY Zenon DEF CommitReview
<1>3. UNCHANGED <<sharing, asked, crashes>>
  BY DEF CommitReview
<1>4. reviews' \in 0 .. MaxReviews
  <2>1. reviews \in 0 .. MaxReviews /\ reviews < MaxReviews /\ reviews' = reviews + 1
    BY <1>1 DEF CommitReview, AccessTypeOK
  <2> QED BY <2>1, AccessBounds
<1>5. lead' \in Lead /\ lead'.demand = lead.demand /\ lead'.requests = lead.requests
  BY <1>1 DEF CommitReview, Lead
<1>6. outdated' = 0 => outdated = 0
  BY <1>1, <1>2, InquiryEnds
<1>7. DemandCounted'
  BY <1>1, <1>3, <1>5, <1>6 DEF DemandCounted
<1>8. /\ inquiry[c].kind # "fee" /\ asked \subseteq asked' /\ asked' \subseteq Requests
      /\ asked' \subseteq asked \cup (IF Asks(c) THEN {inquiry[c].request} ELSE {})
  BY <1>1, <1>3
<1> QED BY <1>2, <1>3, <1>4, <1>5, <1>7, <1>8, LeadMoves

-----------------------------------------------------------------------------
LEMMA AccessStep == ASSUME AccessInv, [AccessNext]_accessVars PROVE AccessInv'
<1>1. CASE UNCHANGED accessVars
  BY <1>1 DEF accessVars, AccessInv, AccessTypeOK, Seen, Asks, Views, ViewsAllowed, Bills,
              BilledOnce, Billing, DemandCounted
<1> QED BY <1>1, LinkKept, LookupKept, InquiryKept, ViewKept, ReferenceKept, FeeKept,
           UpdateLeadKept, CreateLeadKept, ReviewKept DEF AccessNext

LEMMA AccessHolds == AccessSpec => []AccessInv
BY AccessBegins, AccessStep, PTL DEF AccessSpec

\* Type correctness of the grant, the lead, the fees and the calls.
THEOREM AccessTypeCorrect == AccessSpec => []AccessTypeOK
<1>1. AccessInv => AccessTypeOK
  BY DEF AccessInv
<1> QED BY <1>1, AccessHolds, PTL

\* A link is seen no more often than its limit and never once it is shut, but
\* for the views let in before another call counted its own or shut it.
THEOREM ViewsAreAllowed == AccessSpec => []ViewsAllowed
<1>1. AccessInv => ViewsAllowed
  BY DEF AccessInv, Views
<1> QED BY <1>1, AccessHolds, PTL

\* A confirmed verification is billed once, unless the process stopped between
\* an event and its fee.
THEOREM VerificationsBilledOnce == AccessSpec => []BilledOnce
<1>1. AccessInv => BilledOnce
  BY DEF AccessInv, Bills
<1> QED BY <1>1, AccessHolds, PTL

\* The lead counts the requests that reached it, however they overlapped.
THEOREM DemandIsCounted == AccessSpec => []DemandCounted
<1>1. AccessInv => DemandCounted
  BY DEF AccessInv
<1> QED BY <1>1, AccessHolds, PTL
=============================================================================

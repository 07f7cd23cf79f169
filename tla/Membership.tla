------------------------------ MODULE Membership ------------------------------
(***************************************************************************)
(* How an institution and its staff come to be: an application through the *)
(* portal (PortalService), its approval by the founder (AdminService), the *)
(* invitations, their acceptance and the sign-in (AuthService), and the    *)
(* changes of a member's status and role by the founder and, from the      *)
(* portal, by a registrar.                                                 *)
(*                                                                         *)
(* Acceptance, approval, submission and the registrar's change check a row *)
(* first and write it later, by uuid; overlaps counts the writes of rows   *)
(* that had changed.  A registrar's token outlives later changes of his    *)
(* membership, and the portal asks for the token alone.                    *)
(***************************************************************************)
EXTENDS Naturals, Sequences, FiniteSets

CONSTANTS
    Calls,            \* API calls in flight at once
    Members,          \* rows of institutionUser, each of one person
    Contact,          \* the member an approved application invites
    MaxApplications,  \* bounds
    MaxInvites,
    MaxOverlaps

ASSUME MembershipAssumption ==
    /\ Contact \in Members
    /\ {MaxApplications, MaxInvites, MaxOverlaps} \subseteq Nat

VARIABLES
    applications,  \* the status of each application of one contact email
    institution,   \* the status of the institution founded first
    member,        \* its members
    session,       \* a registrar's access token is about
    call,
    founded,       \* history: institutions created for each application
    redeemed,      \* history: acceptances of each invite token
    overlaps       \* history: writes of rows changed since they were read

history == <<founded, redeemed>>

vars == <<applications, institution, member, session, call, founded, redeemed, overlaps>>

-----------------------------------------------------------------------------
ApplicationStatus == {"PENDING", "APPROVED", "REJECTED"}

\* "STAFF" stands for the roles a registrar may give.
Role == {"REGISTRAR", "STAFF"}

\* "SUSPENDED" stands for DISABLED too.
StaffStatus == {"INVITED", "ACTIVE", "SUSPENDED"}

\* invite: the token whose hash the row carries, 0 for null.  An invite that has
\* expired is one that nobody redeems.
Row == [status : StaffStatus \cup {"NONE"}, role : Role, invite : 0 .. MaxInvites]

NoRow == [status |-> "NONE", role |-> "STAFF", invite |-> 0]

\* row: what was read of the member; application: the one to
\* decide, status: the one it had.
Call == [kind : {"none", "submit", "approve", "accept", "update"}, member : Members,
         row : Row, application : 0 .. MaxApplications, status : ApplicationStatus]

NoCall == [kind |-> "none", member |-> Contact, row |-> NoRow, application |-> 0,
           status |-> "PENDING"]

Invites == Len(redeemed)

TypeOK ==
    /\ applications \in Seq(ApplicationStatus)
    /\ institution \in {"NONE", "ACTIVE", "SUSPENDED"}
    /\ member \in [Members -> Row]
    /\ session \in BOOLEAN
    /\ call \in [Calls -> Call]
    /\ founded \in Seq(Nat) /\ Len(founded) = Len(applications)
    /\ redeemed \in Seq(Nat) /\ Invites <= MaxInvites
    /\ overlaps \in 0 .. MaxOverlaps

Init ==
    /\ applications = <<>>
    /\ institution = "NONE"
    /\ member = [m \in Members |-> NoRow]
    /\ session = FALSE
    /\ call = [c \in Calls |-> NoCall]
    /\ founded = <<>>
    /\ redeemed = <<>>
    /\ overlaps = 0

-----------------------------------------------------------------------------
Begin(c, what) ==
    /\ call[c].kind = "none"
    /\ call' = [call EXCEPT ![c] = what]
    /\ UNCHANGED <<applications, institution, member, session, history, overlaps>>

\* The call ends; current says that what it read still holds.
End(c, current) ==
    /\ call' = [call EXCEPT ![c] = NoCall]
    /\ current \/ overlaps < MaxOverlaps
    /\ overlaps' = IF current THEN overlaps ELSE overlaps + 1

\* The call fails, or its transaction is rolled back (two approvals that count
\* the same institutions collide on the unique institutionId).
Abandon(c) ==
    /\ call[c].kind # "none"
    /\ call' = [call EXCEPT ![c] = NoCall]
    /\ UNCHANGED <<applications, institution, member, session, history, overlaps>>

Pending == {a \in DOMAIN applications : applications[a] = "PENDING"}

\* createInstitutionApplicationRecord: one pending application per contact.
ReadSubmit(c) ==
    /\ Pending = {}
    /\ Begin(c, [NoCall EXCEPT !.kind = "submit"])

CommitSubmit(c) ==
    /\ call[c].kind = "submit"
    /\ Len(applications) < MaxApplications
    /\ applications' = Append(applications, "PENDING")
    /\ founded' = Append(founded, 0)
    /\ End(c, Pending = {})
    /\ UNCHANGED <<institution, member, session, redeemed>>

\* Mutant of ApprovalAccepts: a rejected application may still be approved.
ApprovalAcceptsRejected(a) == applications[a] # "APPROVED"

\* approveInstitutionApplication asks for a pending application ...
ApprovalAccepts(a) == applications[a] = "PENDING"

ReadApprove(c) ==
    \E a \in DOMAIN applications :
        /\ ApprovalAccepts(a)
        /\ Begin(c, [NoCall EXCEPT !.kind = "approve", !.application = a,
                                   !.status = applications[a]])

\* An invite: a new token for the row, whatever the row was.
Invited(row, role) ==
    [row EXCEPT !.status = "INVITED", !.role = role, !.invite = Invites + 1]

\* ... and creates the institution, approves the application and invites the
\* contact as its registrar, in one transaction.  The members of an institution
\* founded later are not followed.
CommitApprove(c) ==
    /\ call[c].kind = "approve"
    /\ LET a == call[c].application IN
       /\ applications' = [applications EXCEPT ![a] = "APPROVED"]
       /\ founded' = [founded EXCEPT ![a] = @ + 1]
       /\ End(c, applications[a] = call[c].status)
    /\ IF institution = "NONE"
       THEN /\ Invites < MaxInvites
            /\ institution' = "ACTIVE"
            /\ member' = [member EXCEPT ![Contact] = Invited(@, "REGISTRAR")]
            /\ redeemed' = Append(redeemed, 0)
       ELSE UNCHANGED <<institution, member, redeemed>>
    /\ UNCHANGED session

\* rejectInstitutionApplication looks at no status.
RejectApplication ==
    /\ \E a \in DOMAIN applications :
           applications' = [applications EXCEPT ![a] = "REJECTED"]
    /\ UNCHANGED <<institution, member, session, call, history, overlaps>>

\* updateInstitutionStatus.
SetInstitutionStatus ==
    /\ institution # "NONE"
    /\ institution' \in {"ACTIVE", "SUSPENDED"}
    /\ UNCHANGED <<applications, member, session, call, history, overlaps>>

-----------------------------------------------------------------------------
\* inviteInstitutionUser by the founder, or by the bearer of a registrar's
\* token for another role.  It invites again whom it finds, in any status.
Invite(m, role) ==
    /\ institution = "ACTIVE" /\ Invites < MaxInvites
    /\ member[m].status # "NONE" => role = member[m].role
    /\ member' = [member EXCEPT ![m] = Invited(@, role)]
    /\ redeemed' = Append(redeemed, 0)
    /\ UNCHANGED <<applications, institution, session, call, founded, overlaps>>

\* requireInstitutionStaffManager and resolveInviteInstitution look at the token
\* of the caller, a registrar's or one with the permission staff:manage or *, never
\* at the membership it was issued for.
StaffManager == session

FounderInvites(m) == \E role \in Role : Invite(m, role)

RegistrarInvites(m) ==
    /\ StaffManager
    /\ Invite(m, "STAFF")

\* Mutant of Acceptable: the token alone counts, not the status.
AcceptableToken(row) == row.invite # 0

\* acceptInstitutionInvite finds the row by its token.
Acceptable(row) == row.invite # 0 /\ row.status = "INVITED"

ReadAccept(c) ==
    \E m \in Members :
        /\ Acceptable(member[m])
        /\ institution = "ACTIVE"
        /\ Begin(c, [NoCall EXCEPT !.kind = "accept", !.member = m, !.row = member[m]])

\* Mutant of Accepted: the token stays in the row.
AcceptedKeepingToken(row) == [row EXCEPT !.status = "ACTIVE"]

Accepted(row) == [row EXCEPT !.status = "ACTIVE", !.invite = 0]

\* The password and the membership, in one transaction.
CommitAccept(c) ==
    /\ call[c].kind = "accept"
    /\ LET m == call[c].member
           read == call[c].row IN
       /\ member' = [member EXCEPT ![m] = Accepted(@)]
       /\ redeemed' = [redeemed EXCEPT ![read.invite] = @ + 1]
       /\ End(c, member[m].status = read.status /\ member[m].invite = read.invite)
    /\ UNCHANGED <<applications, institution, session, founded>>

-----------------------------------------------------------------------------
\* AdminService.updateInstitutionStaff: any role and status.
FounderUpdates(m) ==
    /\ member[m].status # "NONE"
    /\ \E status \in StaffStatus, role \in Role :
           member' = [member EXCEPT ![m].status = status, ![m].role = role]
    /\ UNCHANGED <<applications, institution, session, call, history, overlaps>>

\* PortalService.updateStaff leaves registrars to the founder.
PortalMayUpdate(row) == row.status # "NONE" /\ row.role # "REGISTRAR"

ReadUpdate(c) ==
    \E m \in Members :
        /\ StaffManager
        /\ PortalMayUpdate(member[m])
        /\ Begin(c, [NoCall EXCEPT !.kind = "update", !.member = m,
                                   !.row = [NoRow EXCEPT !.role = member[m].role]])

CommitUpdate(c) ==
    /\ call[c].kind = "update"
    /\ LET m == call[c].member IN
       /\ \E status \in StaffStatus : member' = [member EXCEPT ![m].status = status]
       /\ End(c, member[m].role = call[c].row.role)
    /\ UNCHANGED <<applications, institution, session, history>>

\* login: a token for an ACTIVE membership of an ACTIVE institution.
SignIn(m) ==
    /\ ~session
    /\ member[m].status = "ACTIVE" /\ member[m].role = "REGISTRAR"
    /\ institution = "ACTIVE"
    /\ session' = TRUE
    /\ UNCHANGED <<applications, institution, member, call, history, overlaps>>

\* verify refuses a token eight hours later.
SessionExpires ==
    /\ session
    /\ session' = FALSE
    /\ UNCHANGED <<applications, institution, member, call, history, overlaps>>

-----------------------------------------------------------------------------
Next ==
    \/ RejectApplication
    \/ SetInstitutionStatus
    \/ SessionExpires
    \/ \E m \in Members :
        \/ FounderInvites(m) \/ RegistrarInvites(m)
        \/ FounderUpdates(m)
        \/ SignIn(m)
    \/ \E c \in Calls :
        \/ ReadSubmit(c)  \/ CommitSubmit(c)
        \/ ReadApprove(c) \/ CommitApprove(c)
        \/ ReadAccept(c)  \/ CommitAccept(c)
        \/ ReadUpdate(c)  \/ CommitUpdate(c)
        \/ Abandon(c)

Spec == Init /\ [][Next]_vars

-----------------------------------------------------------------------------
\* An invite token makes one acceptance, also when the founder puts a member who
\* had accepted back to INVITED; another is owed to an acceptance that committed
\* over a row it had not read.
InviteRedeemedOnce == \A t \in DOMAIN redeemed : redeemed[t] <= 1 + overlaps

\* One application founds one institution and is approved only by founding it,
\* and a contact has one pending application: the rest is owed to calls that
\* committed over a row they had not read.  A rejection after the approval
\* leaves the institution behind, so no status forbids the second conjunct.
ApplicationsSettle ==
    /\ \A a \in DOMAIN applications :
           /\ founded[a] <= 1 + overlaps
           /\ applications[a] = "APPROVED" => founded[a] > 0
           /\ applications[a] = "PENDING" => founded[a] = 0
    /\ Cardinality(Pending) <= 1 + overlaps

\* A suspended or disabled member is made ACTIVE by the founder or by one who manages
\* staff, never by an invite token, unless the acceptance had begun before.
SuspensionHolds ==
    [][\A m \in Members :
          member[m].status = "SUSPENDED" /\ member'[m].status = "ACTIVE" =>
              \/ FounderUpdates(m)
              \/ \E c \in Calls : CommitUpdate(c)
              \/ overlaps' > overlaps]_vars
=============================================================================

-------------------------------- MODULE Access --------------------------------
(***************************************************************************)
(* What a learner gives access to, and what she asks for: the share link   *)
(* of AccessService to one of her credentials, the answers and the fees of *)
(* VerificationService, and the invitation lead that her record requests   *)
(* make of an institution that is not registered.                          *)
(*                                                                         *)
(* A verifier's call reads the grant or the credential and commits later;  *)
(* a request reads the lead and writes back what it read of it.  outdated  *)
(* counts the commits on what no longer held.  The status of a credential  *)
(* and its signature are as they were issued: no code here changes them.   *)
(***************************************************************************)
EXTENDS Naturals, FiniteSets

CONSTANTS
    Inquiries,    \* API calls in flight at once
    MaxViewCounts, \* view limits a learner may set, 0 for none
    MaxRequests,  \* bounds: record requests that name the institution, confirmed
    MaxEvents,    \* verifications of a type, crashes, reviews, stale commits
    MaxCrashes,
    MaxReviews,
    MaxOutdated

ASSUME AccessAssumption ==
    /\ MaxViewCounts \subseteq Nat /\ MaxViewCounts # {}
    /\ {MaxRequests, MaxEvents, MaxCrashes, MaxReviews, MaxOutdated} \subseteq Nat

VARIABLES
    credential, \* its status and whether its signature verifies
    fee,        \* ACADID_VERIFICATION_FEE_MINOR is set
    grant,      \* the row of accessGrant
    lead,       \* the row of invitationLead
    inquiry,    \* the calls
    events,     \* events[t]: CONFIRMED verificationEvents of verifiers of type t
    fees,       \* VERIFICATION_FEE entries of the revenue ledger
    late,       \* history: confirmed views of a link that was shut
    asked,      \* history: requests that made or found the lead
    lost,       \* history: fees a crash or a failure took
    crashes,
    reviews,
    outdated    \* history: commits on what no longer held

sharing == <<credential, fee, grant, events, fees, late, lost>>

leads == <<lead, asked, reviews>>

accessVars == <<credential, fee, grant, lead, inquiry, events, fees, late, asked, lost, crashes,
                reviews, outdated>>

-----------------------------------------------------------------------------
CredentialStatus == {"ACTIVE", "SUSPENDED", "REVOKED", "SUPERSEDED", "EXPIRED"}

Credential == [status : CredentialStatus, valid : BOOLEAN]

\* max: maxViews, 0 when the link has none.
Grant == [made : BOOLEAN, revoked : BOOLEAN, expired : BOOLEAN, max : MaxViewCounts,
          views : 0 .. MaxEvents]

LeadStatus == {"NEW", "CONTACTED", "INVITED", "CONVERTED", "DISMISSED"}

Requests == 1 .. MaxRequests

\* requests: recordRequestIds; demand: demandCount, 0 when there is no row.
Lead == [status : LeadStatus, demand : 0 .. MaxRequests, requests : SUBSET Requests]

NoLead == [status |-> "NEW", demand |-> 0, requests |-> {}]

VerifierTypes == {"SHARE_LINK", "CREDENTIAL_REFERENCE", "AIN_LOOKUP"}

\* grant and lead: as the call read them; request: the one that asks.
Inquiry == [kind : {"none", "view", "fee", "ask", "review"}, grant : Grant, lead : Lead,
         request : 0 .. MaxRequests]

NoGrant == [made |-> FALSE, revoked |-> FALSE, expired |-> FALSE,
            max |-> CHOOSE n \in MaxViewCounts : TRUE, views |-> 0]

NoInquiry == [kind |-> "none", grant |-> NoGrant, lead |-> NoLead, request |-> 0]

AccessTypeOK ==
    /\ credential \in Credential
    /\ fee \in BOOLEAN
    /\ grant \in Grant
    /\ lead \in Lead
    /\ inquiry \in [Inquiries -> Inquiry]
    /\ events \in [VerifierTypes -> 0 .. MaxEvents]
    /\ {fees, late, lost} \subseteq Nat
    /\ asked \subseteq Requests
    /\ crashes \in 0 .. MaxCrashes /\ reviews \in 0 .. MaxReviews
    /\ outdated \in 0 .. MaxOutdated

AccessInit ==
    /\ credential \in Credential
    /\ fee \in BOOLEAN
    /\ grant = NoGrant
    /\ lead = NoLead
    /\ inquiry = [c \in Inquiries |-> NoInquiry]
    /\ events = [t \in VerifierTypes |-> 0]
    /\ fees = 0 /\ late = 0 /\ lost = 0
    /\ asked = {}
    /\ crashes = 0 /\ reviews = 0 /\ outdated = 0

-----------------------------------------------------------------------------
BeginInquiry(c, what) ==
    /\ inquiry[c].kind = "none"
    /\ inquiry' = [inquiry EXCEPT ![c] = what]

\* The call ends; current says that what it read still holds.
EndInquiry(c, current) ==
    /\ inquiry' = [inquiry EXCEPT ![c] = NoInquiry]
    /\ current \/ outdated < MaxOutdated
    /\ outdated' = IF current THEN outdated ELSE outdated + 1

\* The process stops; the event of a reference stays without its fee.
Crash(c) ==
    /\ inquiry[c].kind # "none"
    /\ crashes < MaxCrashes
    /\ inquiry' = [inquiry EXCEPT ![c] = NoInquiry]
    /\ lost' = IF inquiry[c].kind = "fee" /\ fee THEN lost + 1 ELSE lost
    /\ crashes' = crashes + 1
    /\ UNCHANGED <<credential, fee, grant, events, fees, late, leads, outdated>>

-----------------------------------------------------------------------------
\* createShareLink, of an active credential.
CreateShareLink ==
    /\ ~grant.made
    /\ credential.status = "ACTIVE"
    /\ \E max \in MaxViewCounts : grant' = [grant EXCEPT !.made = TRUE, !.max = max]
    /\ UNCHANGED <<credential, fee, events, fees, late, lost, leads, inquiry, crashes, outdated>>

\* revokeGrant updates the row before it looks whose it is: a call that it
\* refuses has revoked the link, too.
RevokeGrant ==
    /\ grant.made /\ ~grant.revoked
    /\ grant' = [grant EXCEPT !.revoked = TRUE]
    /\ UNCHANGED <<credential, fee, events, fees, late, lost, leads, inquiry, crashes, outdated>>

\* Time reaches expiresAt.
ExpireGrant ==
    /\ grant.made /\ ~grant.expired
    /\ grant' = [grant EXCEPT !.expired = TRUE]
    /\ UNCHANGED <<credential, fee, events, fees, late, lost, leads, inquiry, crashes, outdated>>

\* Mutant of Spent: one view too many.
SpentAfter(g) == g.max # 0 /\ g.views > g.max

Spent(g) == g.max # 0 /\ g.views >= g.max

\* deniedReason.
Denied(g) == g.revoked \/ g.expired \/ Spent(g)

\* verifyToken reads the grant and its credential; what it refuses it records as
\* an event that is neither CONFIRMED nor billed.
ReadToken(c) ==
    /\ grant.made /\ ~Denied(grant)
    /\ credential.status = "ACTIVE"
    /\ BeginInquiry(c, [NoInquiry EXCEPT !.kind = "view", !.grant = grant])
    /\ UNCHANGED <<sharing, leads, crashes, outdated>>

Confirm(type) ==
    /\ events[type] < MaxEvents
    /\ events' = [events EXCEPT ![type] = @ + 1]

\* recordVerificationRevenue.
Charge == IF fee THEN fees + 1 ELSE fees

\* The view, its event and its fee are one transaction.
CommitView(c) ==
    /\ inquiry[c].kind = "view"
    /\ Confirm("SHARE_LINK")
    /\ grant' = [grant EXCEPT !.views = @ + 1]
    /\ fees' = Charge
    /\ late' = IF grant.revoked \/ grant.expired THEN late + 1 ELSE late
    /\ EndInquiry(c, grant = inquiry[c].grant)
    /\ UNCHANGED <<credential, fee, lost, leads, crashes>>

\* Mutant of Billed: a signature that does not verify is billed.
BilledAlways(cred) == cred \in Credential

Billed(cred) == cred.valid

\* verifyReference refuses a REVOKED credential only, and records the event:
\* CONFIRMED, or DISCREPANCY when the signature does not verify ...
VerifyReference(c) ==
    /\ credential.status # "REVOKED"
    /\ IF credential.valid THEN Confirm("CREDENTIAL_REFERENCE") ELSE UNCHANGED events
    /\ IF Billed(credential) THEN BeginInquiry(c, [NoInquiry EXCEPT !.kind = "fee"])
       ELSE inquiry[c].kind = "none" /\ UNCHANGED inquiry
    /\ UNCHANGED <<credential, fee, grant, fees, late, lost, leads, crashes, outdated>>

\* ... and bills it by a statement of its own.
BillReference(c) ==
    /\ inquiry[c].kind = "fee"
    /\ fees' = Charge
    /\ inquiry' = [inquiry EXCEPT ![c] = NoInquiry]
    /\ UNCHANGED <<credential, fee, grant, events, late, lost, leads, crashes, outdated>>

\* lookupAin, which is not billed.
LookupAin ==
    /\ credential.status = "ACTIVE"
    /\ Confirm("AIN_LOOKUP")
    /\ UNCHANGED <<credential, fee, grant, fees, late, lost, leads, inquiry, crashes, outdated>>

-----------------------------------------------------------------------------
\* Requests that have reached the lead or are about to.
Taken == asked \cup {inquiry[c].request : c \in Inquiries}

\* createInvitationLeadForUnregisteredInstitution, at the end of a record
\* request: the lead is looked up by its name key ...
ReadLead(c) ==
    /\ \E r \in Requests \ Taken :
           /\ \A q \in Requests \ Taken : r <= q
           /\ BeginInquiry(c, [NoInquiry EXCEPT !.kind = "ask", !.lead = lead, !.request = r])
    /\ UNCHANGED <<sharing, leads, crashes, outdated>>

\* Mutant of Demand: the count is written from the row that was read.
DemandRead(row, seen) == seen.demand + 1

\* An increment of the database.
Demand(row, seen) == row.demand + 1

Reopened(status) == IF status = "DISMISSED" THEN "NEW" ELSE status

\* ... and updated: recordRequestIds and the status come from the row that was
\* read.
UpdateLead(c) ==
    /\ inquiry[c].kind = "ask" /\ inquiry[c].lead.demand > 0
    /\ lead' = [status |-> Reopened(inquiry[c].lead.status),
                demand |-> Demand(lead, inquiry[c].lead),
                requests |-> inquiry[c].lead.requests \cup {inquiry[c].request}]
    /\ asked' = asked \cup {inquiry[c].request}
    /\ EndInquiry(c, lead = inquiry[c].lead)
    /\ UNCHANGED <<sharing, reviews, crashes>>

\* A first request creates it; the name key is unique, so that of two at once one
\* fails, its record request made and its caller told of an error.
CreateLead(c) ==
    /\ inquiry[c].kind = "ask" /\ inquiry[c].lead.demand = 0
    /\ IF lead.demand = 0
       THEN /\ lead' = [status |-> "NEW", demand |-> 1, requests |-> {inquiry[c].request}]
            /\ asked' = asked \cup {inquiry[c].request}
       ELSE UNCHANGED <<lead, asked>>
    /\ EndInquiry(c, TRUE)
    /\ UNCHANGED <<sharing, reviews, crashes>>

\* updateInvitationLead reads the lead ...
ReadReview(c) ==
    /\ lead.demand > 0 /\ reviews < MaxReviews
    /\ BeginInquiry(c, [NoInquiry EXCEPT !.kind = "review", !.lead = lead])
    /\ UNCHANGED <<sharing, leads, crashes, outdated>>

\* ... and writes the status asked for, or without one the status it read.
CommitReview(c) ==
    /\ inquiry[c].kind = "review" /\ reviews < MaxReviews
    /\ \E status \in LeadStatus :
           lead' = [lead EXCEPT !.status = status]
    /\ reviews' = reviews + 1
    /\ EndInquiry(c, lead.status = inquiry[c].lead.status)
    /\ UNCHANGED <<sharing, asked, crashes>>

-----------------------------------------------------------------------------
AccessNext ==
    \/ CreateShareLink \/ RevokeGrant \/ ExpireGrant \/ LookupAin
    \/ \E c \in Inquiries :
        \/ ReadToken(c) \/ CommitView(c)
        \/ VerifyReference(c) \/ BillReference(c)
        \/ ReadLead(c) \/ UpdateLead(c) \/ CreateLead(c)
        \/ ReadReview(c) \/ CommitReview(c)
        \/ Crash(c)

AccessSpec == AccessInit /\ [][AccessNext]_accessVars

-----------------------------------------------------------------------------
Billing == {c \in Inquiries : inquiry[c].kind = "fee"}

\* A link with a limit is seen no more often than that, and none is seen once it
\* was revoked or has expired, but for the views that verifyToken had let in
\* while another call counted its own or shut the link.
ViewsAllowed ==
    /\ grant.max # 0 => grant.views <= grant.max + outdated
    /\ late <= outdated

\* Every confirmed verification is billed once, by link or by reference, at once
\* or still to come, unless the process stopped between an event and its fee; a
\* signature that does not verify, and a lookup, are never billed.
BilledOnce ==
    fees + lost + (IF fee THEN Cardinality(Billing) ELSE 0)
        = (IF fee THEN events["SHARE_LINK"] + events["CREDENTIAL_REFERENCE"] ELSE 0)

\* The lead's count is of the requests that reached it, however they overlapped;
\* the list of them names no other, and lacks one only once a call has written
\* over what it had not read.  How many it then lacks has no bound: one late
\* update drops all those that came between its read and its commit.
DemandCounted ==
    /\ lead.demand = Cardinality(asked)
    /\ lead.requests \subseteq asked
    /\ outdated = 0 => lead.requests = asked
=============================================================================

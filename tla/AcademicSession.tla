-------------------------- MODULE AcademicSession --------------------------
(***************************************************************************)
(* One AcademicSession of an institution: its status, which the            *)
(* institution sets as it likes, and the escalation that reopens a SEALED  *)
(* session: requestSealedSessionReopen and reviewSealedSessionReopen of    *)
(* GovernanceService.  Both read the session and its latest open request   *)
(* first and write later; a unique index on the open requests of a session *)
(* refuses a second one that an overlapping call would create.             *)
(***************************************************************************)
EXTENDS Integers, FiniteSets

CONSTANTS
    Calls,          \* API requests in flight at once
    MaxRequests,    \* bound: reopen requests
    MaxSeals        \* bound: how often the session is sealed

ASSUME AcademicSessionAssumption == MaxRequests \in Nat /\ MaxSeals \in Nat

VARIABLES
    session,    \* the status of the session
    reopen,     \* reopen[r]: the r-th SealedSessionReopenRequest
    desk,       \* desk[c]: the half-done request or review of call c
    seals       \* how often the session was sealed so far

sessionVars == <<session, reopen, desk, seals>>

-----------------------------------------------------------------------------
\* "OPEN" stands for DRAFT, ACTIVE and CLOSED, which no code here tells apart.
SessionStatus == {"OPEN", "SEALED"}

Requests == 1 .. MaxRequests

NoRequest == 0

\* request: the one a review decides.
AtRest == [does |-> "nothing", request |-> NoRequest]

SessionTypeOK ==
    /\ session \in SessionStatus
    /\ reopen \in [Requests -> {"ABSENT", "REQUESTED", "APPROVED", "REJECTED"}]
    /\ desk \in [Calls -> [does : {"nothing", "request", "review"},
                           request : Requests \cup {NoRequest}]]
    /\ \A c \in Calls : desk[c].does = "review" => desk[c].request \in Requests
    /\ seals \in 0 .. MaxSeals

SessionInit ==
    /\ session = "OPEN"
    /\ reopen = [r \in Requests |-> "ABSENT"]
    /\ desk = [c \in Calls |-> AtRest]
    /\ seals = 0

-----------------------------------------------------------------------------
\* updateAcademicSession: any status to any, SEALED included.
UpdateSession(s) ==
    /\ session' = s
    /\ seals' = IF s = "SEALED" /\ session # "SEALED" THEN seals + 1 ELSE seals
    /\ seals' <= MaxSeals
    /\ UNCHANGED <<reopen, desk>>

IsOpen(r) == reopen[r] = "REQUESTED"

LastRequest == Cardinality({r \in Requests : reopen[r] # "ABSENT"})

\* requestSealedSessionReopen finds no open request (one it finds it returns).
ReadForRequest(c) ==
    /\ desk[c].does = "nothing"
    /\ session = "SEALED"
    /\ \A r \in Requests : ~IsOpen(r)
    /\ desk' = [desk EXCEPT ![c].does = "request"]
    /\ UNCHANGED <<session, reopen, seals>>

\* ... and creates its own, unless another call has by then: the unique index
\* SealedSessionReopenRequest_one_open_per_session_idx fails the create.
CreateRequest(c) ==
    /\ desk[c].does = "request"
    /\ \/ /\ \A r \in Requests : ~IsOpen(r)
          /\ LastRequest < MaxRequests
          /\ reopen' = [reopen EXCEPT ![LastRequest + 1] = "REQUESTED"]
       \/ /\ \E r \in Requests : IsOpen(r)
          /\ UNCHANGED reopen
    /\ desk' = [desk EXCEPT ![c] = AtRest]
    /\ UNCHANGED <<session, seals>>

\* reviewSealedSessionReopen takes the latest open request of a sealed session.
ReadForReview(c, r) ==
    /\ desk[c].does = "nothing"
    /\ session = "SEALED"
    /\ IsOpen(r) /\ \A q \in Requests : IsOpen(q) => q <= r
    /\ desk' = [desk EXCEPT ![c] = [does |-> "review", request |-> r]]
    /\ UNCHANGED <<session, reopen, seals>>

\* Its transaction, with decision APPROVE and with REJECT.
Approve(c) ==
    /\ desk[c].does = "review"
    /\ session' = "OPEN"
    /\ reopen' = [reopen EXCEPT ![desk[c].request] = "APPROVED"]
    /\ desk' = [desk EXCEPT ![c] = AtRest]
    /\ UNCHANGED seals

Reject(c) ==
    /\ desk[c].does = "review"
    /\ reopen' = [reopen EXCEPT ![desk[c].request] = "REJECTED"]
    /\ desk' = [desk EXCEPT ![c] = AtRest]
    /\ UNCHANGED <<session, seals>>

\* The process ends, or the write fails.
AbandonDesk(c) ==
    /\ desk[c].does # "nothing"
    /\ desk' = [desk EXCEPT ![c] = AtRest]
    /\ UNCHANGED <<session, reopen, seals>>

SessionStep(c) ==
    \/ ReadForRequest(c)
    \/ CreateRequest(c)
    \/ \E r \in Requests : ReadForReview(c, r)
    \/ Approve(c)
    \/ Reject(c)
    \/ AbandonDesk(c)

=============================================================================

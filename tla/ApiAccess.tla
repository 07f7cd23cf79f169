------------------------------ MODULE ApiAccess ------------------------------
(***************************************************************************)
(* An institution's way to the API: its requests for developer access, the *)
(* keys the founder creates, regenerates and revokes for it or for a       *)
(* product, and the tokens AuthService.issueApiToken exchanges them for.   *)
(*                                                                         *)
(* A key is created on an approval, and a token issued on a key, that was  *)
(* read before; overlaps counts the writes and the tokens that came after  *)
(* a change.  Nothing looks at the key again while its token lives.        *)
(***************************************************************************)
EXTENDS Naturals, Sequences, FiniteSets

CONSTANTS
    Calls,        \* API calls in flight at once
    MaxRequests,  \* bounds
    MaxKeys,
    MaxSecrets,
    MaxOverlaps

ASSUME ApiAccessAssumption ==
    {MaxRequests, MaxKeys, MaxSecrets, MaxOverlaps} \subseteq Nat

VARIABLES
    requests,  \* the status of each developerAccessRequest
    keys,      \* the rows of apiKey
    secrets,   \* client secrets handed out so far
    call,
    dead,      \* history: secrets of keys revoked or replaced
    late,      \* history: tokens issued for a dead secret
    overlaps   \* history: commits on what no longer held

history == <<dead, late>>

vars == <<requests, keys, secrets, call, dead, late, overlaps>>

-----------------------------------------------------------------------------
RequestStatus == {"PENDING", "APPROVED", "REJECTED", "SUSPENDED"}

Reviews == {"APPROVED", "REJECTED", "SUSPENDED"}

\* product: the key is a product's and needs no developer access.
Key == [status : {"ACTIVE", "REVOKED"}, secret : 1 .. MaxSecrets, product : BOOLEAN]

\* target: the request under review; decision and status:
\* the review and the status it read; secret: the one presented; held: whether
\* the access was approved, or the secret alive, when the call looked.
Call == [kind : {"none", "request", "review", "create", "issue"}, target : Nat,
         decision : Reviews, status : RequestStatus, secret : 0 .. MaxSecrets,
         held : BOOLEAN]

NoCall == [kind |-> "none", target |-> 0, decision |-> "APPROVED", status |-> "PENDING",
           secret |-> 0, held |-> TRUE]

TypeOK ==
    /\ requests \in Seq(RequestStatus)
    /\ keys \in Seq(Key)
    /\ secrets \in 0 .. MaxSecrets
    /\ call \in [Calls -> Call]
    /\ dead \subseteq 1 .. MaxSecrets
    /\ late \in Nat
    /\ overlaps \in 0 .. MaxOverlaps

Init ==
    /\ requests = <<>>
    /\ keys = <<>>
    /\ secrets = 0
    /\ call = [c \in Calls |-> NoCall]
    /\ dead = {}
    /\ late = 0
    /\ overlaps = 0

-----------------------------------------------------------------------------
Begin(c, what) ==
    /\ call[c].kind = "none"
    /\ call' = [call EXCEPT ![c] = what]
    /\ UNCHANGED <<requests, keys, secrets, history, overlaps>>

\* The call ends; current says that what it read still holds.
End(c, current) ==
    /\ call' = [call EXCEPT ![c] = NoCall]
    /\ current \/ overlaps < MaxOverlaps
    /\ overlaps' = IF current THEN overlaps ELSE overlaps + 1

Abandon(c) ==
    /\ call[c].kind # "none"
    /\ call' = [call EXCEPT ![c] = NoCall]
    /\ UNCHANGED <<requests, keys, secrets, history, overlaps>>

With(status) == {r \in DOMAIN requests : requests[r] = status}

Open == With("PENDING") \cup With("APPROVED")

\* createDeveloperAccessRequest: no request is open.
MayRequest == Open = {}

ReadRequest(c) ==
    /\ MayRequest
    /\ Begin(c, [NoCall EXCEPT !.kind = "request"])

CommitRequest(c) ==
    /\ call[c].kind = "request"
    /\ Len(requests) < MaxRequests
    /\ requests' = Append(requests, "PENDING")
    /\ End(c, MayRequest)
    /\ UNCHANGED <<keys, secrets, history>>

\* reviewDeveloperAccessRequest.
Reviewable(status, decision) ==
    IF decision = "SUSPENDED" THEN status = "APPROVED" ELSE status = "PENDING"

ReadReview(c) ==
    \E r \in DOMAIN requests, d \in Reviews :
        /\ Reviewable(requests[r], d)
        /\ Begin(c, [NoCall EXCEPT !.kind = "review", !.target = r, !.decision = d,
                                   !.status = requests[r]])

CommitReview(c) ==
    /\ call[c].kind = "review"
    /\ LET r == call[c].target IN
       /\ requests' = [requests EXCEPT ![r] = call[c].decision]
       /\ End(c, requests[r] = call[c].status)
    /\ UNCHANGED <<keys, secrets, history>>

-----------------------------------------------------------------------------
NewKey(product) == [status |-> "ACTIVE", secret |-> secrets + 1, product |-> product]

AddKey(product) ==
    /\ Len(keys) < MaxKeys /\ secrets < MaxSecrets
    /\ keys' = Append(keys, NewKey(product))
    /\ secrets' = secrets + 1
    /\ UNCHANGED <<requests, history>>

AccessApproved == With("APPROVED") # {}

\* createApiKey asks for an approved request ...
ReadCreate(c) ==
    /\ AccessApproved
    /\ Begin(c, [NoCall EXCEPT !.kind = "create", !.held = With("APPROVED") # {}])

\* ... and creates the key.
CommitCreate(c) ==
    /\ call[c].kind = "create"
    /\ AddKey(FALSE)
    /\ End(c, call[c].held = (With("APPROVED") # {}))

\* createProductApiKey.
CreateProductKey == AddKey(TRUE) /\ UNCHANGED <<call, overlaps>>

\* revokeApiKey, in any status.
RevokeKey ==
    /\ \E k \in DOMAIN keys :
           /\ keys' = [keys EXCEPT ![k].status = "REVOKED"]
           /\ dead' = dead \cup {keys[k].secret}
    /\ UNCHANGED <<requests, secrets, call, late, overlaps>>

Regenerated(key) == [key EXCEPT !.status = "ACTIVE", !.secret = secrets + 1]

\* regenerateApiKey, a revoked key too, and whatever became of the developer
\* access it was created on.
RegenerateKey ==
    /\ secrets < MaxSecrets
    /\ \E k \in DOMAIN keys :
           /\ keys' = [keys EXCEPT ![k] = Regenerated(@)]
           /\ dead' = dead \cup {keys[k].secret}
    /\ secrets' = secrets + 1
    /\ UNCHANGED <<requests, call, late, overlaps>>

\* Mutant of LockedDown: the keys of products are left.
LockedDownInstitutions(key) ==
    IF key.product THEN key ELSE [key EXCEPT !.status = "REVOKED"]

LockedDown(key) == [key EXCEPT !.status = "REVOKED"]

\* emergencyLockdown, one updateMany over the ACTIVE keys.
EmergencyLockdown ==
    /\ keys # <<>>
    /\ keys' = [k \in DOMAIN keys |-> LockedDown(keys[k])]
    /\ dead' = dead \cup {keys[k].secret : k \in DOMAIN keys}
    /\ UNCHANGED <<requests, secrets, call, late, overlaps>>

-----------------------------------------------------------------------------
\* issueApiToken checks the secret and the status of the key it read ...
Valid(key, secret) == key.secret = secret /\ key.status = "ACTIVE"

ReadIssue(c) ==
    \E k \in DOMAIN keys, s \in 1 .. secrets :
        /\ Valid(keys[k], s)
        /\ Begin(c, [NoCall EXCEPT !.kind = "issue", !.secret = s, !.held = s \notin dead])

\* ... and signs a token, valid for an hour or a day whatever happens to the key.
Issue(c) ==
    /\ call[c].kind = "issue"
    /\ late' = IF call[c].secret \in dead THEN late + 1 ELSE late
    /\ End(c, call[c].held = (call[c].secret \notin dead))
    /\ UNCHANGED <<requests, keys, secrets, dead>>

Next ==
    \/ CreateProductKey
    \/ RevokeKey
    \/ RegenerateKey
    \/ EmergencyLockdown
    \/ \E c \in Calls :
        \/ ReadRequest(c) \/ CommitRequest(c)
        \/ ReadReview(c)  \/ CommitReview(c)
        \/ ReadCreate(c)  \/ CommitCreate(c)
        \/ ReadIssue(c)   \/ Issue(c)
        \/ Abandon(c)

Spec == Init /\ [][Next]_vars

-----------------------------------------------------------------------------
\* An institution has one open request at a time: createDeveloperAccessRequest
\* looks for another, reviews close requests and reopen none, and a second one is
\* owed to calls that overlapped.
OneOpenAccess == Cardinality(Open) <= 1 + overlaps

\* A secret that was revoked, locked down or replaced never authenticates again:
\* regenerateApiKey makes a revoked key ACTIVE under a new secret only, and no
\* lockdown leaves a key behind.
DeadSecretsStayDead == \A k \in DOMAIN keys : keys[k].status = "ACTIVE" => keys[k].secret \notin dead

\* A token for a dead secret is owed to an exchange that had read the key before.
\* Tokens issued earlier live on until they expire.
NoLateTokens == late <= overlaps

\* An institution gets a new key only under approved access, unless the access
\* was suspended after createApiKey had looked.
KeysUnderAccess ==
    [][Len(keys') > Len(keys) /\ ~keys'[Len(keys')].product =>
          With("APPROVED") # {} \/ overlaps' > overlaps]_vars
=============================================================================

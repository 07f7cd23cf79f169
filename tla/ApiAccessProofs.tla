-------------------------- MODULE ApiAccessProofs --------------------------
(***************************************************************************)
(* Proofs about ApiAccess, for any number of calls, requests, keys and     *)
(* secrets, and any overlap of the calls; and, last, about FounderAccess,  *)
(* which is shown to keep what ApiAccess promises and to ask the founder   *)
(* for a second factor, for any number of visits, codes and authenticators.*)
(***************************************************************************)
EXTENDS FounderAccess, SequenceTheorems, FiniteSetTheorems, TLAPS

-----------------------------------------------------------------------------
(* Sequences. *)

\* An update of one row keeps the type of a table.
LEMMA ReplaceRow ==
    ASSUME NEW S, NEW s \in Seq(S), NEW i \in DOMAIN s, NEW x \in S
    PROVE  /\ [s EXCEPT ![i] = x] \in Seq(S)
           /\ DOMAIN [s EXCEPT ![i] = x] = DOMAIN s
           /\ Len([s EXCEPT ![i] = x]) = Len(s)
OBVIOUS

\* A row added to a table.
LEMMA AddRow ==
    ASSUME NEW S, NEW s \in Seq(S), NEW x \in S
    PROVE  /\ Append(s, x) \in Seq(S)
           /\ DOMAIN Append(s, x) = DOMAIN s \cup {Len(s) + 1}
           /\ Len(s) + 1 \notin DOMAIN s
           /\ Append(s, x)[Len(s) + 1] = x
           /\ \A i \in DOMAIN s : Append(s, x)[i] = s[i]
           /\ Len(Append(s, x)) = Len(s) + 1
           /\ Len(s) \in Nat
           /\ DOMAIN s = 1 .. Len(s)
OBVIOUS

-----------------------------------------------------------------------------
(* Types. *)

LEMMA Bounds ==
    MaxRequests \in Nat /\ MaxKeys \in Nat /\ MaxSecrets \in Nat /\ MaxOverlaps \in Nat
BY ApiAccessAssumption

\* A call at rest.
LEMMA RestingCall == NoCall \in Call /\ NoCall.kind = "none" /\ NoCall.held
BY Bounds DEF NoCall, Call, Reviews, RequestStatus

\* What each of the four kinds of call has read.
LEMMA AskingCall ==
    LET x == [NoCall EXCEPT !.kind = "request"]
    IN  x \in Call /\ x.kind = "request"
BY RestingCall DEF Call

LEMMA ReviewingCall ==
    ASSUME NEW r \in Nat, NEW d \in Reviews, NEW s \in RequestStatus
    PROVE  LET x == [NoCall EXCEPT !.kind = "review", !.target = r, !.decision = d, !.status = s]
           IN  x \in Call /\ x.kind = "review" /\ x.target = r /\ x.decision = d /\ x.status = s
BY RestingCall DEF Call

LEMMA CreatingCall ==
    ASSUME NEW h \in BOOLEAN
    PROVE  LET x == [NoCall EXCEPT !.kind = "create", !.held = h]
           IN  x \in Call /\ x.kind = "create" /\ x.held = h
BY RestingCall DEF Call

LEMMA IssuingCall ==
    ASSUME NEW s \in 1 .. MaxSecrets, NEW h \in BOOLEAN
    PROVE  LET x == [NoCall EXCEPT !.kind = "issue", !.secret = s, !.held = h]
           IN  x \in Call /\ x.kind = "issue" /\ x.secret = s /\ x.held = h
<1>1. s \in 0 .. MaxSecrets
  BY Bounds
<1>2. QED
  BY <1>1, RestingCall DEF Call

\* A call begins.
LEMMA BeginTypes ==
    ASSUME TypeOK, NEW c \in Calls, NEW x \in Call, Begin(c, x)
    PROVE  /\ TypeOK'
           /\ \A d \in Calls : call'[d] = IF d = c THEN x ELSE call[d]
           /\ UNCHANGED <<requests, keys, secrets, dead, late, overlaps>>
BY DEF Begin, TypeOK, history

\* A new key is one under a secret that no key has had.
LEMMA AddKeyTypes ==
    ASSUME TypeOK, NEW p \in BOOLEAN, AddKey(p)
    PROVE  /\ NewKey(p) \in Key
           /\ keys' = Append(keys, NewKey(p))
           /\ keys' \in Seq(Key)
           /\ secrets' \in 0 .. MaxSecrets /\ secrets' = secrets + 1
           /\ UNCHANGED <<requests, dead, late>>
<1>1. NewKey(p) \in Key
  BY Bounds DEF AddKey, NewKey, Key, TypeOK
<1>2. QED
  <2>1. keys \in Seq(Key)
    BY DEF TypeOK
  <2>2. Append(keys, NewKey(p)) \in Seq(Key)
    BY <1>1, <2>1, AddRow
  <2>3. QED
    BY <2>2, Bounds DEF AddKey, TypeOK, history

\* A key revoked, regenerated or locked down.
LEMMA ChangedKeys ==
    ASSUME TypeOK, NEW k \in DOMAIN keys
    PROVE  /\ keys[k] \in Key
           /\ [keys[k] EXCEPT !.status = "REVOKED"] \in Key
           /\ secrets < MaxSecrets => Regenerated(keys[k]) \in Key
           /\ LockedDown(keys[k]) \in Key
<1>1. keys[k] \in Key
  BY DEF TypeOK
<1>2. secrets < MaxSecrets => secrets + 1 \in 1 .. MaxSecrets
  BY Bounds DEF TypeOK
<1>3. QED
  BY <1>1, <1>2 DEF Key, Regenerated, LockedDown

-----------------------------------------------------------------------------
(* Type correctness. *)

LEMMA InitTypes == Init => TypeOK
BY RestingCall, Bounds DEF Init, TypeOK

\* What a call reads has its type.
LEMMA ReadsKeepTypes ==
    ASSUME TypeOK, NEW c \in Calls,
           ReadRequest(c) \/ ReadReview(c) \/ ReadCreate(c) \/ ReadIssue(c)
    PROVE  TypeOK'
<1>1. CASE ReadRequest(c)
  BY <1>1, BeginTypes, AskingCall DEF ReadRequest
<1>2. CASE ReadReview(c)
  <2>1. PICK r \in DOMAIN requests, d \in Reviews :
            Begin(c, [NoCall EXCEPT !.kind = "review", !.target = r, !.decision = d,
                                    !.status = requests[r]])
    BY <1>2 DEF ReadReview
  <2>2. r \in Nat /\ requests[r] \in RequestStatus
    BY DEF TypeOK
  <2>3. QED
    BY <2>1, <2>2, BeginTypes, ReviewingCall
<1>3. CASE ReadCreate(c)
  BY <1>3, BeginTypes, CreatingCall DEF ReadCreate
<1>4. CASE ReadIssue(c)
  <2>1. PICK s \in 1 .. secrets :
            Begin(c, [NoCall EXCEPT !.kind = "issue", !.secret = s, !.held = s \notin dead])
    BY <1>4 DEF ReadIssue
  <2>2. s \in 1 .. MaxSecrets /\ (s \notin dead) \in BOOLEAN
    BY Bounds DEF TypeOK
  <2>3. QED
    BY <2>1, <2>2, BeginTypes, IssuingCall
<1>5. QED
  BY <1>1, <1>2, <1>3, <1>4

\* What a call writes has its type.
LEMMA CommitsKeepTypes ==
    ASSUME TypeOK, NEW c \in Calls,
           CommitRequest(c) \/ CommitReview(c) \/ CommitCreate(c) \/ Issue(c) \/ Abandon(c)
    PROVE  TypeOK'
<1>1. call' \in [Calls -> Call] /\ overlaps' \in 0 .. MaxOverlaps
  <2>1. call' = [call EXCEPT ![c] = NoCall]
    BY DEF CommitRequest, CommitReview, CommitCreate, Issue, Abandon, End
  <2>2. overlaps' = overlaps \/ (overlaps < MaxOverlaps /\ overlaps' = overlaps + 1)
    BY DEF CommitRequest, CommitReview, CommitCreate, Issue, Abandon, End
  <2>3. QED
    BY <2>1, <2>2, RestingCall, Bounds DEF TypeOK
<1>2. CASE CommitRequest(c)
  BY <1>1, <1>2 DEF CommitRequest, TypeOK, RequestStatus, history
<1>3. CASE CommitReview(c)
  <2>1. call[c].decision \in RequestStatus
    BY DEF TypeOK, Call, Reviews, RequestStatus
  <2>2. requests' \in Seq(RequestStatus)
    <3>1. requests' = [requests EXCEPT ![call[c].target] = call[c].decision]
      BY <1>3 DEF CommitReview
    <3>2. requests \in Seq(RequestStatus)
      BY DEF TypeOK
    <3>3. CASE call[c].target \in DOMAIN requests
      BY <2>1, <3>1, <3>2, <3>3, ReplaceRow
    <3>4. CASE call[c].target \notin DOMAIN requests
      <4>1. requests' = requests
        BY <3>1, <3>2, <3>4
      <4>2. QED
        BY <3>2, <4>1
    <3>5. QED
      BY <3>3, <3>4
  <2>3. QED
    BY <1>1, <1>3, <2>2 DEF CommitReview, TypeOK, history
<1>4. CASE CommitCreate(c)
  BY <1>1, <1>4, AddKeyTypes DEF CommitCreate, TypeOK
<1>5. CASE Issue(c)
  BY <1>1, <1>5 DEF Issue, TypeOK
<1>6. CASE Abandon(c)
  BY <1>1, <1>6 DEF Abandon, TypeOK, history
<1>7. QED
  BY <1>2, <1>3, <1>4, <1>5, <1>6

\* What the founder does to keys has its type.
LEMMA KeysKeepTypes ==
    ASSUME TypeOK, CreateProductKey \/ RevokeKey \/ RegenerateKey \/ EmergencyLockdown
    PROVE  TypeOK'
<1>1. CASE CreateProductKey
  BY <1>1, AddKeyTypes DEF CreateProductKey, TypeOK
<1>2. CASE RevokeKey
  <2>1. PICK k \in DOMAIN keys : /\ keys' = [keys EXCEPT ![k].status = "REVOKED"]
                                 /\ dead' = dead \cup {keys[k].secret}
    BY <1>2 DEF RevokeKey
  <2>2. keys' = [keys EXCEPT ![k] = [keys[k] EXCEPT !.status = "REVOKED"]]
    BY <2>1
  <2>3. keys' \in Seq(Key)
    BY <2>2, ChangedKeys, ReplaceRow DEF TypeOK
  <2>4. dead' \subseteq 1 .. MaxSecrets
    BY <2>1, ChangedKeys DEF TypeOK, Key
  <2>5. QED
    BY <1>2, <2>3, <2>4 DEF RevokeKey, TypeOK
<1>3. CASE RegenerateKey
  <2>1. PICK k \in DOMAIN keys : /\ keys' = [keys EXCEPT ![k] = Regenerated(@)]
                                 /\ dead' = dead \cup {keys[k].secret}
    BY <1>3 DEF RegenerateKey
  <2>2. keys' = [keys EXCEPT ![k] = Regenerated(keys[k])]
    BY <2>1
  <2>3. secrets < MaxSecrets
    BY <1>3 DEF RegenerateKey
  <2>4. keys' \in Seq(Key)
    BY <2>2, <2>3, ChangedKeys, ReplaceRow DEF TypeOK
  <2>5. dead' \subseteq 1 .. MaxSecrets
    BY <2>1, ChangedKeys DEF TypeOK, Key
  <2>6. secrets' \in 0 .. MaxSecrets
    BY <1>3, Bounds DEF RegenerateKey, TypeOK
  <2>7. QED
    BY <1>3, <2>4, <2>5, <2>6 DEF RegenerateKey, TypeOK
<1>4. CASE EmergencyLockdown
  <2>1. keys' = [k \in DOMAIN keys |-> LockedDown(keys[k])]
    BY <1>4 DEF EmergencyLockdown
  <2>2. keys' \in Seq(Key)
    <3>1. DOMAIN keys = 1 .. Len(keys) /\ Len(keys) \in Nat
      BY DEF TypeOK
    <3>2. \A k \in 1 .. Len(keys) : LockedDown(keys[k]) \in Key
      BY <3>1, ChangedKeys
    <3> DEFINE n == Len(keys)
               f == [k \in 1 .. n |-> LockedDown(keys[k])]
    <3>3. keys' = f
      BY <2>1, <3>1
    <3>4. f \in [1 .. n -> Key]
      BY <3>2
    <3> HIDE DEF f, n
    <3>5. n \in Nat
      BY <3>1 DEF n
    <3>6. f \in Seq(Key)
      BY <3>4, <3>5, SeqDef, Zenon
    <3>7. QED
      BY <3>3, <3>6
  <2>3. dead' \subseteq 1 .. MaxSecrets
    <3>1. \A k \in DOMAIN keys : keys[k].secret \in 1 .. MaxSecrets
      BY ChangedKeys DEF Key
    <3>2. dead' = dead \cup {keys[k].secret : k \in DOMAIN keys}
      BY <1>4 DEF EmergencyLockdown
    <3>3. QED
      BY <3>1, <3>2 DEF TypeOK
  <2>4. QED
    BY <1>4, <2>2, <2>3 DEF EmergencyLockdown, TypeOK
<1>5. QED
  BY <1>1, <1>2, <1>3, <1>4

LEMMA TypesKept == TypeOK /\ [Next]_vars => TypeOK'
<1> SUFFICES ASSUME TypeOK, [Next]_vars PROVE TypeOK'
  OBVIOUS
<1>1. CASE UNCHANGED vars
  BY <1>1 DEF vars, TypeOK
<1>2. CASE Next
  BY <1>2, ReadsKeepTypes, CommitsKeepTypes, KeysKeepTypes DEF Next
<1>3. QED
  BY <1>1, <1>2

\* Every reachable state is well typed: the tables, the calls in flight and the
\* history stay within what the routes of AdminService and AuthService write.
THEOREM TypeCorrect == Spec => []TypeOK
BY InitTypes, TypesKept, PTL DEF Spec

-----------------------------------------------------------------------------
(* No dead secret authenticates. *)

\* A secret is handed out once, so a new one is nobody's and was never revoked.
SecretsDiffer ==
    /\ \A k \in DOMAIN keys : keys[k].secret <= secrets
    /\ \A j, k \in DOMAIN keys : keys[j].secret = keys[k].secret => j = k
    /\ \A s \in dead : s <= secrets

SecretInv == SecretsDiffer /\ DeadSecretsStayDead

\* Secrets are numbered.
LEMMA SecretTypes ==
    ASSUME TypeOK
    PROVE  /\ secrets \in Nat
           /\ dead \subseteq Nat
           /\ \A k \in DOMAIN keys : keys[k].secret \in Nat
<1>1. 1 .. MaxSecrets \subseteq Nat /\ 0 .. MaxSecrets \subseteq Nat
  BY Bounds
<1>2. \A k \in DOMAIN keys : keys[k].secret \in 1 .. MaxSecrets
  BY ChangedKeys DEF Key
<1>3. secrets \in 0 .. MaxSecrets /\ dead \subseteq 1 .. MaxSecrets
  BY DEF TypeOK
<1>4. QED
  BY <1>1, <1>2, <1>3

LEMMA InitSecrets == Init => SecretInv
BY DEF Init, SecretInv, SecretsDiffer, DeadSecretsStayDead

\* A key added.
LEMMA AddKeySecrets ==
    ASSUME TypeOK, SecretInv, NEW p \in BOOLEAN, AddKey(p)
    PROVE  SecretInv'
<1>1. /\ keys' = Append(keys, NewKey(p))
      /\ secrets' = secrets + 1
      /\ dead' = dead
      /\ NewKey(p) \in Key
  BY AddKeyTypes
<1>2. /\ DOMAIN keys' = DOMAIN keys \cup {Len(keys) + 1}
      /\ Len(keys) + 1 \notin DOMAIN keys
      /\ keys'[Len(keys) + 1] = NewKey(p)
      /\ \A i \in DOMAIN keys : keys'[i] = keys[i]
  BY <1>1, AddRow DEF TypeOK
<1>3. NewKey(p).secret = secrets + 1
  BY DEF NewKey
<1>4. secrets \in Nat /\ dead \subseteq Nat /\ \A k \in DOMAIN keys : keys[k].secret \in Nat
  BY SecretTypes
<1>5. SecretsDiffer'
  BY <1>1, <1>2, <1>3, <1>4 DEF SecretInv, SecretsDiffer
<1>6. DeadSecretsStayDead'
  BY <1>1, <1>2, <1>3, <1>4 DEF SecretInv, SecretsDiffer, DeadSecretsStayDead
<1>7. QED
  BY <1>5, <1>6 DEF SecretInv

\* A key revoked.
LEMMA RevokeSecrets ==
    ASSUME TypeOK, SecretInv, RevokeKey
    PROVE  SecretInv'
<1>1. PICK k \in DOMAIN keys : /\ keys' = [keys EXCEPT ![k].status = "REVOKED"]
                               /\ dead' = dead \cup {keys[k].secret}
  BY DEF RevokeKey
<1>2. DOMAIN keys' = DOMAIN keys /\ secrets' = secrets
  BY <1>1 DEF RevokeKey
<1>3. \A j \in DOMAIN keys :
          /\ keys'[j].secret = keys[j].secret
          /\ keys'[j].status = IF j = k THEN "REVOKED" ELSE keys[j].status
  BY <1>1, ChangedKeys DEF Key
<1>4. SecretsDiffer'
  <2>1. \A s \in dead' : s <= secrets'
    BY <1>1, <1>2 DEF SecretInv, SecretsDiffer
  <2>2. /\ \A j \in DOMAIN keys' : keys'[j].secret <= secrets'
        /\ \A i, j \in DOMAIN keys' : keys'[i].secret = keys'[j].secret => i = j
    BY <1>2, <1>3 DEF SecretInv, SecretsDiffer
  <2>3. QED
    BY <2>1, <2>2 DEF SecretsDiffer
<1>5. DeadSecretsStayDead'
  BY <1>1, <1>2, <1>3 DEF SecretInv, SecretsDiffer, DeadSecretsStayDead
<1>6. QED
  BY <1>4, <1>5 DEF SecretInv

\* A key regenerated: the secret it leaves is dead, the one it gets is new.
LEMMA RegenerateSecrets ==
    ASSUME TypeOK, SecretInv, RegenerateKey
    PROVE  SecretInv'
<1>1. PICK k \in DOMAIN keys : /\ keys' = [keys EXCEPT ![k] = Regenerated(@)]
                               /\ dead' = dead \cup {keys[k].secret}
  BY DEF RegenerateKey
<1>2. DOMAIN keys' = DOMAIN keys /\ secrets' = secrets + 1
  BY <1>1 DEF RegenerateKey
<1>3. /\ Regenerated(keys[k]).secret = secrets + 1
      /\ \A j \in DOMAIN keys : keys'[j] = IF j = k THEN Regenerated(keys[k]) ELSE keys[j]
  BY <1>1, ChangedKeys DEF Key, Regenerated
<1>4. secrets \in Nat /\ dead \subseteq Nat /\ \A j \in DOMAIN keys : keys[j].secret \in Nat
  BY SecretTypes
<1>5. SecretsDiffer'
  BY <1>1, <1>2, <1>3, <1>4 DEF SecretInv, SecretsDiffer
<1>6. DeadSecretsStayDead'
  BY <1>1, <1>2, <1>3, <1>4 DEF SecretInv, SecretsDiffer, DeadSecretsStayDead
<1>7. QED
  BY <1>5, <1>6 DEF SecretInv

\* Every key revoked.
LEMMA LockdownSecrets ==
    ASSUME TypeOK, SecretInv, EmergencyLockdown
    PROVE  SecretInv'
<1>1. /\ keys' = [k \in DOMAIN keys |-> LockedDown(keys[k])]
      /\ dead' = dead \cup {keys[k].secret : k \in DOMAIN keys}
      /\ secrets' = secrets
  BY DEF EmergencyLockdown
<1>2. \A j \in DOMAIN keys :
          keys'[j].secret = keys[j].secret /\ keys'[j].status = "REVOKED"
  BY <1>1, ChangedKeys DEF Key, LockedDown
<1>3. DOMAIN keys' = DOMAIN keys
  BY <1>1
<1>4. SecretsDiffer'
  <2>1. \A s \in dead' : s <= secrets'
    BY <1>1 DEF SecretInv, SecretsDiffer
  <2>2. /\ \A j \in DOMAIN keys' : keys'[j].secret <= secrets'
        /\ \A i, j \in DOMAIN keys' : keys'[i].secret = keys'[j].secret => i = j
    BY <1>1, <1>2, <1>3 DEF SecretInv, SecretsDiffer
  <2>3. QED
    BY <2>1, <2>2 DEF SecretsDiffer
<1>5. DeadSecretsStayDead'
  BY <1>2, <1>3 DEF DeadSecretsStayDead
<1>6. QED
  BY <1>4, <1>5 DEF SecretInv

LEMMA SecretsKept == TypeOK /\ SecretInv /\ [Next]_vars => SecretInv'
<1> SUFFICES ASSUME TypeOK, SecretInv, [Next]_vars PROVE SecretInv'
  OBVIOUS
<1>1. CASE UNCHANGED <<keys, secrets, dead>>
  BY <1>1 DEF SecretInv, SecretsDiffer, DeadSecretsStayDead
<1>2. CASE CreateProductKey
  BY <1>2, AddKeySecrets DEF CreateProductKey
<1>3. CASE \E c \in Calls : CommitCreate(c)
  BY <1>3, AddKeySecrets DEF CommitCreate
<1>4. CASE RevokeKey \/ RegenerateKey \/ EmergencyLockdown
  BY <1>4, RevokeSecrets, RegenerateSecrets, LockdownSecrets
<1>5. QED
  <2>1. ASSUME NEW c \in Calls,
               \/ ReadRequest(c) \/ CommitRequest(c) \/ ReadReview(c) \/ CommitReview(c)
               \/ ReadCreate(c) \/ ReadIssue(c) \/ Issue(c) \/ Abandon(c)
        PROVE  UNCHANGED <<keys, secrets, dead>>
    BY <2>1 DEF ReadRequest, CommitRequest, ReadReview, CommitReview, ReadCreate, ReadIssue,
                Issue, Abandon, Begin, history
  <2>2. CASE UNCHANGED vars
    BY <1>1, <2>2 DEF vars
  <2>3. QED
    BY <1>1, <1>2, <1>3, <1>4, <2>1, <2>2 DEF Next

\* A secret that regenerateApiKey, revokeApiKey or emergencyLockdown retired never
\* again stands in an ACTIVE key.
THEOREM SecretsStayDead == Spec => []DeadSecretsStayDead
<1>1. Spec => [](TypeOK /\ SecretInv)
  BY InitTypes, InitSecrets, TypesKept, SecretsKept, PTL DEF Spec
<1>2. SecretInv => DeadSecretsStayDead
  BY DEF SecretInv
<1>3. QED
  BY <1>1, <1>2, PTL

-----------------------------------------------------------------------------
(* What a call read, and who it overlapped. *)

\* What each call in flight found when it looked.
CallsLooked ==
    \A c \in Calls :
        /\ call[c].kind \in {"create", "issue"} => call[c].held = TRUE
        /\ call[c].kind = "issue" => call[c].secret <= secrets
        /\ call[c].kind = "review" =>
              /\ call[c].target \in DOMAIN requests
              /\ Reviewable(call[c].status, call[c].decision)

\* A call that is waiting still looked as it did: requests and secrets only grow.
LEMMA WaitingLooked ==
    ASSUME CallsLooked, NEW c \in Calls,
           call'[c] = call[c] \/ call'[c] = NoCall,
           DOMAIN requests \subseteq DOMAIN requests',
           secrets' = secrets \/ secrets' = secrets + 1,
           secrets \in Nat, TypeOK
    PROVE  /\ call'[c].kind \in {"create", "issue"} => call'[c].held = TRUE
           /\ call'[c].kind = "issue" => call'[c].secret <= secrets'
           /\ call'[c].kind = "review" =>
                 /\ call'[c].target \in DOMAIN requests'
                 /\ Reviewable(call'[c].status, call'[c].decision)
<1>1. CASE call'[c] = call[c]
  <2>1. call[c].secret \in Nat
    BY Bounds DEF TypeOK, Call
  <2>2. QED
    BY <1>1, <2>1 DEF CallsLooked
<1>2. CASE call'[c] = NoCall
  BY <1>2, RestingCall
<1>3. QED
  BY <1>1, <1>2

\* Requests are added and reviewed, never removed.
LEMMA RequestsGrow ==
    ASSUME TypeOK, [Next]_vars
    PROVE  DOMAIN requests \subseteq DOMAIN requests'
<1>1. CASE UNCHANGED requests
  BY <1>1
<1>2. ASSUME NEW c \in Calls, CommitRequest(c)
      PROVE  DOMAIN requests \subseteq DOMAIN requests'
  BY <1>2, AddRow DEF CommitRequest, TypeOK, RequestStatus
<1>3. ASSUME NEW c \in Calls, CommitReview(c)
      PROVE  DOMAIN requests \subseteq DOMAIN requests'
  BY <1>3 DEF CommitReview
<1>4. CASE CreateProductKey
  BY <1>1, <1>4 DEF CreateProductKey, AddKey
<1>5. ASSUME NEW c \in Calls, ReadRequest(c) \/ ReadReview(c) \/ ReadCreate(c)
                              \/ CommitCreate(c) \/ ReadIssue(c) \/ Issue(c) \/ Abandon(c)
      PROVE  UNCHANGED requests
  BY <1>5 DEF ReadRequest, ReadReview, ReadCreate, CommitCreate, AddKey, ReadIssue, Issue,
              Abandon, Begin
<1>6. CASE RevokeKey \/ RegenerateKey \/ EmergencyLockdown
  BY <1>1, <1>6 DEF RevokeKey, RegenerateKey, EmergencyLockdown
<1>7. CASE UNCHANGED vars
  BY <1>1, <1>7 DEF vars
<1>8. QED
  BY <1>1, <1>2, <1>3, <1>4, <1>5, <1>6, <1>7 DEF Next

LEMMA CallsLookedKept ==
    ASSUME TypeOK, SecretInv, CallsLooked, [Next]_vars
    PROVE  CallsLooked'
<1>1. DOMAIN requests \subseteq DOMAIN requests'
  BY RequestsGrow
<1>2. secrets \in Nat
  BY SecretTypes
<1> DEFINE Looked(c) ==
        /\ call'[c].kind \in {"create", "issue"} => call'[c].held = TRUE
        /\ call'[c].kind = "issue" => call'[c].secret <= secrets'
        /\ call'[c].kind = "review" =>
              /\ call'[c].target \in DOMAIN requests'
              /\ Reviewable(call'[c].status, call'[c].decision)
<1>3. ASSUME \A c \in Calls : call'[c] = call[c] \/ call'[c] = NoCall,
             secrets' = secrets \/ secrets' = secrets + 1
      PROVE  \A c \in Calls : Looked(c)
  BY <1>1, <1>2, <1>3, WaitingLooked
<1>4. ASSUME NEW c \in Calls, NEW x \in Call, Begin(c, x),
             x.kind \in {"create", "issue"} => x.held = TRUE,
             x.kind = "issue" => x.secret <= secrets,
             x.kind = "review" => x.target \in DOMAIN requests /\ Reviewable(x.status, x.decision)
      PROVE  \A d \in Calls : Looked(d)
  <2>1. /\ \A d \in Calls : call'[d] = IF d = c THEN x ELSE call[d]
        /\ requests' = requests /\ secrets' = secrets
    BY <1>4, BeginTypes
  <2>2. Looked(c)
    BY <1>4, <2>1
  <2>3. ASSUME NEW d \in Calls, d # c PROVE Looked(d)
    BY <1>1, <1>2, <2>1, <2>3, WaitingLooked
  <2>4. QED
    BY <2>2, <2>3
<1>5. ASSUME NEW c \in Calls, ReadRequest(c) PROVE \A d \in Calls : Looked(d)
  <2>1. Begin(c, [NoCall EXCEPT !.kind = "request"])
    BY <1>5 DEF ReadRequest
  <2> DEFINE x == [NoCall EXCEPT !.kind = "request"]
  <2>2. x \in Call /\ x.kind = "request"
    BY AskingCall
  <2> HIDE DEF x
  <2>3. Begin(c, x)
    BY <2>1 DEF x
  <2>4. QED
    BY <1>4, <2>2, <2>3
<1>6. ASSUME NEW c \in Calls, ReadReview(c) PROVE \A d \in Calls : Looked(d)
  <2>1. PICK r \in DOMAIN requests, d \in Reviews :
            /\ Reviewable(requests[r], d)
            /\ Begin(c, [NoCall EXCEPT !.kind = "review", !.target = r, !.decision = d,
                                       !.status = requests[r]])
    BY <1>6 DEF ReadReview
  <2> DEFINE x == [NoCall EXCEPT !.kind = "review", !.target = r, !.decision = d,
                                 !.status = requests[r]]
  <2>2. r \in Nat /\ requests[r] \in RequestStatus
    BY DEF TypeOK
  <2>3. /\ x \in Call /\ x.kind = "review" /\ x.target = r
        /\ x.decision = d /\ x.status = requests[r]
    BY <2>1, <2>2, RestingCall DEF Call
  <2>4. Begin(c, x)
    BY <2>1
  <2> HIDE DEF x
  <2>5. QED
    BY <1>4, <2>1, <2>3, <2>4
<1>7. ASSUME NEW c \in Calls, ReadCreate(c) PROVE \A d \in Calls : Looked(d)
  <2> DEFINE x == [NoCall EXCEPT !.kind = "create", !.held = TRUE]
  <2>1. x \in Call /\ x.kind = "create" /\ x.held = TRUE
    BY CreatingCall
  <2>2. (With("APPROVED") # {}) = TRUE
    BY <1>7 DEF ReadCreate, AccessApproved
  <2>3. Begin(c, x)
    BY <1>7, <2>2 DEF ReadCreate
  <2> HIDE DEF x
  <2>4. QED
    BY <1>4, <2>1, <2>3
<1>8. ASSUME NEW c \in Calls, ReadIssue(c) PROVE \A d \in Calls : Looked(d)
  <2>1. PICK k \in DOMAIN keys, s \in 1 .. secrets :
            /\ Valid(keys[k], s)
            /\ Begin(c, [NoCall EXCEPT !.kind = "issue", !.secret = s, !.held = s \notin dead])
    BY <1>8 DEF ReadIssue
  <2> DEFINE x == [NoCall EXCEPT !.kind = "issue", !.secret = s, !.held = TRUE]
  <2>2. s \in 1 .. MaxSecrets /\ s <= secrets
    <3>1. secrets \in 0 .. MaxSecrets
      BY DEF TypeOK
    <3>2. QED
      BY <3>1, Bounds
  <2>3. x \in Call /\ x.kind = "issue" /\ x.secret = s /\ x.held = TRUE
    BY <2>2, IssuingCall
  <2>4. (s \notin dead) = TRUE
    BY <1>8, <2>1 DEF Valid, SecretInv, DeadSecretsStayDead
  <2>5. Begin(c, x)
    BY <2>1, <2>4
  <2> HIDE DEF x
  <2>6. QED
    BY <1>4, <2>2, <2>3, <2>5
<1>9. ASSUME NEW c \in Calls,
             CommitRequest(c) \/ CommitReview(c) \/ CommitCreate(c) \/ Issue(c) \/ Abandon(c)
      PROVE  \A d \in Calls : Looked(d)
  <2>1. call' = [call EXCEPT ![c] = NoCall]
    BY <1>9 DEF CommitRequest, CommitReview, CommitCreate, Issue, Abandon, End
  <2>2. \A d \in Calls : call'[d] = call[d] \/ call'[d] = NoCall
    BY <2>1 DEF TypeOK
  <2>3. secrets' = secrets \/ secrets' = secrets + 1
    BY <1>9 DEF CommitRequest, CommitReview, CommitCreate, Issue, Abandon, AddKey
  <2>4. QED
    BY <1>3, <2>2, <2>3
<1>10. ASSUME \/ CreateProductKey \/ RevokeKey \/ RegenerateKey \/ EmergencyLockdown
              \/ UNCHANGED vars
       PROVE  \A c \in Calls : Looked(c)
  <2>1. call' = call
    BY <1>10 DEF CreateProductKey, RevokeKey, RegenerateKey, EmergencyLockdown, vars
  <2>2. secrets' = secrets \/ secrets' = secrets + 1
    BY <1>10 DEF CreateProductKey, RevokeKey, RegenerateKey, EmergencyLockdown, AddKey, vars
  <2>3. \A c \in Calls : call'[c] = call[c]
    BY <2>1
  <2>4. QED
    BY <1>3, <2>2, <2>3
<1>11. \A c \in Calls : Looked(c)
  <2>1. CASE UNCHANGED vars
    BY <1>10, <2>1
  <2>2. CASE Next
    BY <1>5, <1>6, <1>7, <1>8, <1>9, <1>10, <2>2 DEF Next
  <2>3. QED
    BY <2>1, <2>2
<1>12. CallsLooked' <=> \A c \in Calls : Looked(c)
  BY DEF CallsLooked
<1>13. QED
  BY <1>11, <1>12

LEMMA InitLooked == Init => CallsLooked
BY RestingCall DEF Init, CallsLooked

\* The invariant the theorems below rest on.
CallsInv == TypeOK /\ SecretInv /\ CallsLooked

LEMMA CallsInvHolds == Spec => []CallsInv
<1>1. Init => CallsInv
  BY InitTypes, InitSecrets, InitLooked DEF CallsInv
<1>2. CallsInv /\ [Next]_vars => CallsInv'
  BY TypesKept, SecretsKept, CallsLookedKept DEF CallsInv
<1>3. QED
  BY <1>1, <1>2, PTL DEF Spec

-----------------------------------------------------------------------------
(* Tokens for dead secrets. *)

\* Only issueApiToken changes the count, and one that looked before the secret
\* died overlapped what retired it.
LEMMA LateKept ==
    ASSUME CallsInv, NoLateTokens, [Next]_vars
    PROVE  NoLateTokens'
<1>1. late \in Nat /\ overlaps \in Nat
  BY Bounds DEF CallsInv, TypeOK
<1>2. ASSUME NEW c \in Calls, Issue(c) PROVE late' <= overlaps'
  <2>1. call[c].held = TRUE
    BY <1>2 DEF CallsInv, CallsLooked, Issue
  <2>2. CASE call[c].secret \in dead
    <3>1. ~(call[c].held = (call[c].secret \notin dead))
      BY <2>1, <2>2, Zenon
    <3>2. late' = late + 1 /\ overlaps' = overlaps + 1
      BY <1>2, <2>2, <3>1, Zenon DEF Issue, End
    <3>3. QED
      BY <1>1, <3>2 DEF NoLateTokens
  <2>3. CASE call[c].secret \notin dead
    <3>1. late' = late
      BY <1>2, <2>3, Zenon DEF Issue
    <3>2. overlaps' = overlaps \/ overlaps' = overlaps + 1
      BY <1>2, Zenon DEF Issue, End
    <3>3. QED
      BY <1>1, <3>1, <3>2 DEF NoLateTokens
  <2>4. QED
    BY <2>2, <2>3
<1>3. ASSUME late' = late, overlaps' = overlaps \/ overlaps' = overlaps + 1
      PROVE  late' <= overlaps'
  BY <1>1, <1>3 DEF NoLateTokens
<1>4. ASSUME NEW c \in Calls,
             \/ CommitRequest(c) \/ CommitReview(c) \/ CommitCreate(c) \/ Abandon(c)
             \/ ReadRequest(c) \/ ReadReview(c) \/ ReadCreate(c) \/ ReadIssue(c)
      PROVE  late' <= overlaps'
  <2>1. overlaps' = overlaps \/ overlaps' = overlaps + 1
    BY <1>4 DEF CommitRequest, CommitReview, CommitCreate, Abandon, ReadRequest, ReadReview,
                ReadCreate, ReadIssue, Begin, End
  <2>2. late' = late
    BY <1>4 DEF CommitRequest, CommitReview, CommitCreate, AddKey, Abandon, ReadRequest,
                ReadReview, ReadCreate, ReadIssue, Begin, history
  <2>3. QED
    BY <1>3, <2>1, <2>2
<1>5. ASSUME \/ CreateProductKey \/ RevokeKey \/ RegenerateKey \/ EmergencyLockdown
             \/ UNCHANGED vars
      PROVE  late' <= overlaps'
  <2>1. late' = late /\ overlaps' = overlaps
    BY <1>5 DEF CreateProductKey, AddKey, RevokeKey, RegenerateKey, EmergencyLockdown, vars,
                history
  <2>2. QED
    BY <1>3, <2>1
<1>6. late' <= overlaps'
  <2>1. CASE UNCHANGED vars
    BY <1>5, <2>1
  <2>2. CASE Next
    BY <1>2, <1>4, <1>5, <2>2 DEF Next
  <2>3. QED
    BY <2>1, <2>2
<1>7. QED
  BY <1>6 DEF NoLateTokens

\* issueApiToken signs a token for a revoked or replaced secret only when the key
\* changed between its read and the signature.
THEOREM TokensFollowKeys == Spec => []NoLateTokens
<1>1. Init => NoLateTokens
  BY DEF Init, NoLateTokens
<1>2. QED
  BY <1>1, LateKept, CallsInvHolds, PTL DEF Spec

-----------------------------------------------------------------------------
(* Keys and the access they are created under. *)

LEMMA KeysGrowUnderAccess ==
    ASSUME CallsInv, [Next]_vars, Len(keys') > Len(keys), ~keys'[Len(keys')].product
    PROVE  With("APPROVED") # {} \/ overlaps' > overlaps
<1>1. ASSUME NEW p \in BOOLEAN, AddKey(p) PROVE keys'[Len(keys')].product = p
  <2>1. keys' = Append(keys, NewKey(p))
    BY <1>1, AddKeyTypes DEF CallsInv
  <2>2. keys'[Len(keys')] = NewKey(p)
    BY <1>1, <2>1, AddRow, AddKeyTypes DEF CallsInv, TypeOK
  <2>3. QED
    BY <2>2 DEF NewKey
<1>2. ASSUME Len(keys') = Len(keys) PROVE FALSE
  BY <1>2 DEF CallsInv, TypeOK
<1>3. CASE UNCHANGED keys
  BY <1>2, <1>3
<1>4. ASSUME NEW c \in Calls, CommitCreate(c)
      PROVE  With("APPROVED") # {} \/ overlaps' > overlaps
  <2>1. call[c].held = TRUE
    BY <1>4 DEF CallsInv, CallsLooked, CommitCreate
  <2>2. overlaps \in Nat
    BY Bounds DEF CallsInv, TypeOK
  <2>3. CASE With("APPROVED") = {}
    <3>1. ~(call[c].held = (With("APPROVED") # {}))
      BY <2>1, <2>3, Zenon
    <3>2. overlaps' = overlaps + 1
      BY <1>4, <3>1, Zenon DEF CommitCreate, End
    <3>3. QED
      BY <2>2, <3>2
  <2>4. QED
    BY <2>3
<1>5. CASE CreateProductKey
  BY <1>1, <1>5 DEF CreateProductKey
<1>6. CASE RevokeKey
  BY <1>2, <1>6, ReplaceRow DEF RevokeKey, CallsInv, TypeOK
<1>7. CASE RegenerateKey
  BY <1>2, <1>7, ReplaceRow DEF RegenerateKey, CallsInv, TypeOK
<1>8. CASE EmergencyLockdown
  <2>1. DOMAIN keys' = DOMAIN keys
    BY <1>8 DEF EmergencyLockdown
  <2>2. keys \in Seq(Key) /\ keys' \in Seq(Key)
    BY <1>8, KeysKeepTypes DEF CallsInv, TypeOK
  <2>3. QED
    BY <1>2, <2>1, <2>2
<1>9. ASSUME NEW c \in Calls,
             \/ ReadRequest(c) \/ CommitRequest(c) \/ ReadReview(c) \/ CommitReview(c)
             \/ ReadCreate(c) \/ ReadIssue(c) \/ Issue(c) \/ Abandon(c)
      PROVE  UNCHANGED keys
  BY <1>9 DEF ReadRequest, CommitRequest, ReadReview, CommitReview, ReadCreate, ReadIssue,
              Issue, Abandon, Begin
<1>10. CASE UNCHANGED vars
  BY <1>3, <1>10 DEF vars
<1>11. QED
  BY <1>3, <1>4, <1>5, <1>6, <1>7, <1>8, <1>9, <1>10 DEF Next

\* createApiKey gives an institution a key only under an approved developer
\* access, or one that was approved when it looked.
THEOREM KeysNeedAccess == Spec => KeysUnderAccess
<1>1. CallsInv /\ [Next]_vars =>
          [Len(keys') > Len(keys) /\ ~keys'[Len(keys')].product =>
              With("APPROVED") # {} \/ overlaps' > overlaps]_vars
  BY KeysGrowUnderAccess
<1>2. QED
  BY <1>1, CallsInvHolds, PTL DEF Spec, KeysUnderAccess

-----------------------------------------------------------------------------
(* Open requests. *)

OpenCounted == IsFiniteSet(Open) /\ Cardinality(Open) \in Nat

LEMMA OpenFinite == TypeOK => OpenCounted
<1> SUFFICES ASSUME TypeOK PROVE OpenCounted
  OBVIOUS
<1>1. Open \subseteq 1 .. Len(requests) /\ Len(requests) \in Nat
  BY DEF Open, With, TypeOK
<1>2. IsFiniteSet(1 .. Len(requests))
  BY <1>1, FS_Interval
<1>3. QED
  BY <1>1, <1>2, FS_Subset, FS_CardinalityType DEF OpenCounted

LEMMA OpenFiniteNext == TypeOK' => OpenCounted'
BY OpenFinite, PTL

\* One request more is open at most, and none more when it was not open before.
LEMMA OpenGrows ==
    ASSUME TypeOK, TypeOK', OneOpenAccess, NEW r, Open' \subseteq Open \cup {r},
           overlaps' = overlaps \/ overlaps' = overlaps + 1,
           overlaps' = overlaps => Open' \subseteq Open \/ Open = {}
    PROVE  OneOpenAccess'
<1>1. /\ IsFiniteSet(Open) /\ Cardinality(Open) \in Nat
      /\ IsFiniteSet(Open') /\ Cardinality(Open') \in Nat
  BY OpenFinite, OpenFiniteNext DEF OpenCounted
<1>2. overlaps \in Nat
  BY Bounds DEF TypeOK
<1>3. CASE Open' \subseteq Open
  <2>1. Cardinality(Open') <= Cardinality(Open)
    BY <1>1, <1>3, FS_Subset
  <2>2. QED
    BY <1>1, <1>2, <2>1 DEF OneOpenAccess
<1>4. Cardinality(Open') <= Cardinality(Open) + 1
  <2>1. /\ IsFiniteSet(Open \cup {r})
        /\ Cardinality(Open \cup {r}) \in {Cardinality(Open), Cardinality(Open) + 1}
    BY <1>1, FS_AddElement
  <2>2. Cardinality(Open') <= Cardinality(Open \cup {r})
    BY <2>1, FS_Subset
  <2>3. QED
    BY <1>1, <2>1, <2>2
<1>5. CASE overlaps' = overlaps + 1
  BY <1>1, <1>2, <1>4, <1>5 DEF OneOpenAccess
<1>6. CASE Open = {}
  <2>1. Cardinality(Open) = 0
    BY <1>6, FS_EmptySet
  <2>2. QED
    BY <1>1, <1>2, <1>4, <2>1 DEF OneOpenAccess
<1>7. QED
  BY <1>3, <1>5, <1>6

\* A request made.
LEMMA RequestOpens ==
    ASSUME CallsInv, CallsInv', OneOpenAccess, NEW c \in Calls, CommitRequest(c)
    PROVE  OneOpenAccess'
<1>1. requests' = Append(requests, "PENDING") /\ requests \in Seq(RequestStatus)
  BY DEF CommitRequest, CallsInv, TypeOK
<1>2. /\ DOMAIN requests' = DOMAIN requests \cup {Len(requests) + 1}
      /\ \A i \in DOMAIN requests : requests'[i] = requests[i]
  BY <1>1, AddRow DEF RequestStatus
<1>3. Open' \subseteq Open \cup {Len(requests) + 1}
  BY <1>2 DEF Open, With
<1>4. overlaps' = overlaps \/ overlaps' = overlaps + 1
  BY DEF CommitRequest, End
<1>5. overlaps' = overlaps => Open = {}
  <2>1. overlaps \in Nat
    BY Bounds DEF CallsInv, TypeOK
  <2>2. ~MayRequest => overlaps' = overlaps + 1
    BY DEF CommitRequest, End
  <2>3. QED
    BY <2>1, <2>2 DEF MayRequest
<1>6. QED
  BY <1>3, <1>4, <1>5, OpenGrows DEF CallsInv

\* A request reviewed.
LEMMA ReviewOpens ==
    ASSUME CallsInv, CallsInv', OneOpenAccess, NEW c \in Calls, CommitReview(c)
    PROVE  OneOpenAccess'
<1> DEFINE r == call[c].target
<1>1. /\ requests' = [requests EXCEPT ![r] = call[c].decision]
      /\ requests \in Seq(RequestStatus)
      /\ r \in DOMAIN requests
      /\ Reviewable(call[c].status, call[c].decision)
      /\ call[c].decision \in Reviews
  BY DEF CommitReview, CallsInv, CallsLooked, TypeOK, Call
<1>2. \A i \in DOMAIN requests : requests'[i] = IF i = r THEN call[c].decision ELSE requests[i]
  BY <1>1
<1>3. DOMAIN requests' = DOMAIN requests
  BY <1>1
<1>4. Open' \subseteq Open \cup {r}
  BY <1>2, <1>3 DEF Open, With
<1>5. overlaps' = overlaps \/ overlaps' = overlaps + 1
  BY DEF CommitReview, End
<1>6. overlaps' = overlaps => Open' \subseteq Open
  <2>1. overlaps \in Nat
    BY Bounds DEF CallsInv, TypeOK
  <2>2. requests[r] # call[c].status => overlaps' = overlaps + 1
    BY DEF CommitReview, End
  <2>3. SUFFICES ASSUME requests[r] = call[c].status PROVE Open' \subseteq Open
    BY <2>1, <2>2
  <2>4. requests[r] \in {"PENDING", "APPROVED"}
    BY <1>1, <2>3 DEF Reviewable
  <2>5. r \in Open
    BY <1>1, <2>4 DEF Open, With
  <2>6. QED
    BY <1>4, <2>5
<1>7. QED
  BY <1>4, <1>5, <1>6, OpenGrows DEF CallsInv

LEMMA OpenKept ==
    ASSUME CallsInv, CallsInv', OneOpenAccess, [Next]_vars
    PROVE  OneOpenAccess'
<1>1. ASSUME UNCHANGED requests, overlaps' = overlaps \/ overlaps' = overlaps + 1
      PROVE  OneOpenAccess'
  <2>1. Open' = Open
    BY <1>1 DEF Open, With
  <2>2. Cardinality(Open) \in Nat /\ overlaps \in Nat
    BY OpenFinite, Bounds DEF OpenCounted, CallsInv, TypeOK
  <2>3. QED
    BY <1>1, <2>1, <2>2 DEF OneOpenAccess
<1>2. ASSUME NEW c \in Calls, CommitCreate(c) \/ Issue(c) \/ Abandon(c) \/ ReadRequest(c)
                              \/ ReadReview(c) \/ ReadCreate(c) \/ ReadIssue(c)
      PROVE  OneOpenAccess'
  <2>1. requests' = requests
    BY <1>2 DEF CommitCreate, AddKey, Issue, Abandon, ReadRequest, ReadReview, ReadCreate,
                ReadIssue, Begin
  <2>2. overlaps' = overlaps \/ overlaps' = overlaps + 1
    BY <1>2 DEF CommitCreate, Issue, Abandon, ReadRequest, ReadReview, ReadCreate, ReadIssue,
                Begin, End
  <2>3. QED
    BY <1>1, <2>1, <2>2
<1>3. ASSUME CreateProductKey \/ RevokeKey \/ RegenerateKey \/ EmergencyLockdown \/ UNCHANGED vars
      PROVE  OneOpenAccess'
  <2>1. requests' = requests /\ overlaps' = overlaps
    BY <1>3 DEF CreateProductKey, AddKey, RevokeKey, RegenerateKey, EmergencyLockdown, vars
  <2>2. QED
    BY <1>1, <2>1
<1>4. CASE UNCHANGED vars
  BY <1>3, <1>4
<1>5. CASE Next
  BY <1>2, <1>3, <1>5, RequestOpens, ReviewOpens DEF Next
<1>6. QED
  BY <1>4, <1>5

\* createDeveloperAccessRequest and its reviews leave an institution one open
\* request, and one more for each call that overlapped another.
THEOREM OneOpen == Spec => []OneOpenAccess
<1>1. Init => OneOpenAccess
  <2>1. Init => Open = {}
    BY DEF Init, Open, With
  <2>2. QED
    BY <2>1, FS_EmptySet DEF OneOpenAccess, Init
<1>2. QED
  BY <1>1, OpenKept, CallsInvHolds, PTL DEF Spec

-----------------------------------------------------------------------------
(* The founder.  Behind the guards the operations on keys are those of *)
(* ApiAccess, so what was proved of it holds for the founder's part too. *)

LEMMA FounderKeeps == FounderSpec => Spec
<1>1. FounderInit => Init
  BY DEF FounderInit
<1>2. ASSUME FounderNext PROVE [Next]_vars
  <2>1. CASE session /\ FounderOperation /\ UNCHANGED founderVars
    BY <2>1 DEF FounderOperation, Next
  <2>2. CASE OtherOperation /\ UNCHANGED founderVars
    BY <2>2 DEF OtherOperation, Next
  <2>3. CASE SetupTotp \/ ExpireSession
    BY <2>3 DEF SetupTotp, ExpireSession
  <2>4. ASSUME NEW v \in Visits,
               \/ ReadLogin(v)  \/ LoginBare(v) \/ LoginTotp(v) \/ FindCode(v) \/ UseCode(v)
               \/ ReadEnable(v) \/ CommitEnable(v)
               \/ ReadRotate(v) \/ DeleteCodes(v) \/ CommitRotate(v) \/ GiveUp(v)
        PROVE  UNCHANGED vars
    BY <2>4 DEF ReadLogin, LoginBare, LoginTotp, FindCode, UseCode, ReadEnable, CommitEnable,
                ReadRotate, DeleteCodes, CommitRotate, GiveUp, Arrive
  <2>5. QED
    BY <1>2, <2>1, <2>2, <2>3, <2>4 DEF FounderNext
<1>3. ASSUME UNCHANGED <<vars, founderVars>> PROVE UNCHANGED vars
  BY <1>3
<1>4. QED
  BY <1>1, <1>2, <1>3, PTL DEF FounderSpec, Spec

\* No key the founder's operations leave ACTIVE has a secret that was revoked,
\* locked down or replaced.
THEOREM FounderSecretsStayDead == FounderSpec => []DeadSecretsStayDead
BY FounderKeeps, SecretsStayDead, PTL

-----------------------------------------------------------------------------
(* The second factor.  A code that is still there has let nobody in, and no *)
(* code comes back, as new ones are numbered on; so each visit that uses a  *)
(* code twice, or leaves two sets of codes behind, is counted in races.     *)

FounderTypes ==
    /\ user \in User
    /\ codes \subseteq RecoveryCodes
    /\ issued \in 0 .. MaxCodes
    /\ visit \in [Visits -> Visit]
    /\ uses \in [RecoveryCodes -> Nat]
    /\ bare \in Nat
    /\ races \in 0 .. MaxRaces

CodesInv ==
    /\ codes \subseteq 1 .. issued
    /\ \A c \in RecoveryCodes : c \in codes \/ c > issued => uses[c] = 0

VisitsInv == \A v \in Visits : visit[v].kind = "code" => visit[v].code \in 1 .. issued

FounderInv == FounderTypes /\ CodesInv /\ VisitsInv /\ SecondFactorHolds

LEMMA FounderBounds ==
    /\ SetSize \in Nat /\ SetSize > 0
    /\ MaxCodes \in Nat /\ MaxSetups \in Nat /\ MaxRaces \in Nat
BY FounderAccessAssumption

\* The count of the codes that are left.
LEMMA CodesFinite ==
    ASSUME FounderTypes
    PROVE  IsFiniteSet(codes) /\ Cardinality(codes) \in Nat
<1>1. IsFiniteSet(RecoveryCodes)
  BY FounderBounds, FS_Interval DEF RecoveryCodes
<1>2. QED
  BY <1>1, FS_Subset, FS_CardinalityType DEF FounderTypes

\* What so many sets of codes hold.
LEMMA Sets ==
    ASSUME NEW n \in Nat
    PROVE  /\ SetSize * (1 + n) \in Nat
           /\ SetSize <= SetSize * (1 + n)
           /\ SetSize * (1 + (n + 1)) = SetSize * (1 + n) + SetSize
<1>1. SetSize \in Nat
  BY FounderBounds
<1>2. SetSize * n \in Nat
  BY <1>1
<1>3. SetSize * (1 + n) = SetSize * n + SetSize
  BY <1>1
<1>4. SetSize * (1 + (n + 1)) = SetSize * (1 + n) + SetSize
  BY <1>1
<1>5. QED
  BY <1>1, <1>2, <1>3, <1>4

\* A visit at rest.
LEMMA RestingVisit ==
    /\ NoUser \in User /\ NoVisit \in Visit
    /\ NoVisit.kind = "none" /\ NoUser.mfa = FALSE
BY FounderBounds DEF NoUser, NoVisit, User, Visit

\* The visits after one has begun with what it read, or has ended.
LEMMA VisitWritten ==
    ASSUME FounderTypes, VisitsInv, NEW v \in Visits, NEW x \in Visit,
           visit' = [visit EXCEPT ![v] = x],
           issued' \in Nat, issued <= issued',
           x.kind = "code" => x.code \in 1 .. issued
    PROVE  visit' \in [Visits -> Visit] /\ VisitsInv'
<1>1. issued \in Nat
  BY FounderBounds DEF FounderTypes
<1>2. visit' \in [Visits -> Visit]
  BY DEF FounderTypes
<1>3. ASSUME NEW w \in Visits, visit'[w].kind = "code" PROVE visit'[w].code \in 1 .. issued'
  <2>1. visit'[w] = x \/ visit'[w] = visit[w]
    BY DEF FounderTypes
  <2>2. visit'[w].code \in 1 .. issued
    BY <1>3, <2>1 DEF VisitsInv
  <2>3. QED
    BY <1>1, <2>2
<1>4. QED
  BY <1>2, <1>3 DEF VisitsInv

\* A visit ends.
LEMMA LeaveCounts ==
    ASSUME FounderTypes, VisitsInv, NEW v \in Visits, NEW current \in BOOLEAN,
           Leave(v, current), issued' \in Nat, issued <= issued'
    PROVE  /\ visit' \in [Visits -> Visit] /\ VisitsInv'
           /\ races \in Nat /\ races' \in 0 .. MaxRaces /\ races' \in Nat
           /\ races' = IF current THEN races ELSE races + 1
<1>1. visit' = [visit EXCEPT ![v] = NoVisit]
  BY DEF Leave
<1>2. visit' \in [Visits -> Visit] /\ VisitsInv'
  BY <1>1, RestingVisit, VisitWritten
<1>3. races \in 0 .. MaxRaces /\ MaxRaces \in Nat
  BY FounderBounds DEF FounderTypes
<1>4. QED
  BY <1>2, <1>3 DEF Leave

\* A step of a visit, or none, that leaves the user and the codes alone.
LEMMA FounderRests ==
    ASSUME FounderInv, UNCHANGED <<user, codes, issued, uses, proven, bare>>,
           races' = races \/ races' = races + 1, races' \in 0 .. MaxRaces,
           visit' \in [Visits -> Visit], VisitsInv'
    PROVE  FounderInv'
<1>1. races \in Nat /\ races' \in Nat /\ races <= races' /\ (races > 0 => races' > 0)
  BY FounderBounds DEF FounderInv, FounderTypes
<1>2. FounderTypes' /\ CodesInv'
  BY DEF FounderInv, FounderTypes, CodesInv
<1>3. SetsReplaced'
  <2>1. Remaining <= SetSize * (1 + races) /\ Remaining' = Remaining
    BY DEF FounderInv, SecondFactorHolds, SetsReplaced, Remaining
  <2>2. Remaining \in Nat
    BY CodesFinite DEF Remaining, FounderInv
  <2>3. SetSize * (1 + races) <= SetSize * (1 + races')
    <3>1. /\ SetSize * (1 + races) \in Nat
          /\ SetSize * (1 + (races + 1)) = SetSize * (1 + races) + SetSize
      BY <1>1, Sets
    <3>2. CASE races' = races
      BY <3>1, <3>2
    <3>3. CASE races' = races + 1
      BY <3>1, <3>3, FounderBounds
    <3>4. QED
      BY <3>2, <3>3
  <2>4. SetSize * (1 + races) \in Nat /\ SetSize * (1 + races') \in Nat
    BY <1>1, Sets
  <2>5. QED
    BY <2>1, <2>2, <2>3, <2>4 DEF SetsReplaced
<1>4. CodesUsedOnce' /\ SecretsProven' /\ SecondFactorAsked'
  BY <1>1 DEF FounderInv, FounderTypes, SecondFactorHolds, CodesUsedOnce, SecretsProven,
              SecondFactorAsked
<1>5. QED
  BY <1>2, <1>3, <1>4 DEF FounderInv, SecondFactorHolds

\* The reads, the checks and the ends of the visits.
LEMMA VisitsMove ==
    ASSUME FounderInv, NEW v \in Visits,
           \/ ReadLogin(v) \/ FindCode(v) \/ ReadEnable(v) \/ ReadRotate(v) \/ DeleteCodes(v)
           \/ GiveUp(v)
    PROVE  FounderInv'
<1>1. FounderTypes /\ VisitsInv /\ issued \in Nat /\ races \in 0 .. MaxRaces
  BY FounderBounds DEF FounderInv, FounderTypes
<1>2. /\ UNCHANGED <<user, codes, issued, uses, proven, bare>>
      /\ races' = races
  BY DEF ReadLogin, FindCode, ReadEnable, ReadRotate, DeleteCodes, GiveUp, Arrive, founderHistory
<1>3. ASSUME NEW x \in Visit, visit' = [visit EXCEPT ![v] = x],
             x.kind = "code" => x.code \in 1 .. issued
      PROVE  FounderInv'
  <2>1. issued' \in Nat /\ issued <= issued'
    BY <1>1, <1>2
  <2>2. visit' \in [Visits -> Visit] /\ VisitsInv'
    BY <1>1, <1>3, <2>1, VisitWritten
  <2>3. QED
    BY <1>1, <1>2, <2>2, FounderRests
<1>4. ASSUME NEW kind \in {"login", "enable", "rotate"},
             Arrive(v, [NoVisit EXCEPT !.kind = kind, !.user = user])
      PROVE  FounderInv'
  <2> DEFINE x == [NoVisit EXCEPT !.kind = kind, !.user = user]
  <2>1. x \in Visit /\ x.kind = kind
    BY <1>1, RestingVisit DEF Visit, FounderTypes
  <2>2. visit' = [visit EXCEPT ![v] = x]
    BY <1>4 DEF Arrive
  <2> HIDE DEF x
  <2>3. QED
    BY <1>3, <2>1, <2>2
<1>5. CASE ReadLogin(v) \/ ReadEnable(v) \/ ReadRotate(v)
  BY <1>4, <1>5 DEF ReadLogin, ReadEnable, ReadRotate
<1>6. CASE FindCode(v)
  <2>1. PICK c \in codes : visit' = [visit EXCEPT ![v].kind = "code", ![v].code = c]
    BY <1>6 DEF FindCode
  <2>2. c \in 1 .. issued /\ c \in 0 .. MaxCodes
    BY <1>1, <2>1, FounderBounds DEF FounderInv, FounderTypes, CodesInv, RecoveryCodes
  <2> DEFINE x == [visit[v] EXCEPT !.kind = "code", !.code = c]
  <2>3. visit[v] \in Visit
    BY <1>1 DEF FounderTypes
  <2>4. x \in Visit /\ x.code = c
    BY <2>2, <2>3 DEF Visit
  <2>5. visit' = [visit EXCEPT ![v] = x]
    BY <1>1, <2>1 DEF FounderTypes
  <2> HIDE DEF x
  <2>6. QED
    BY <1>3, <2>2, <2>4, <2>5
<1>7. CASE DeleteCodes(v)
  <2> DEFINE x == [visit[v] EXCEPT !.kind = "replace", !.old = codes]
  <2>1. visit[v] \in Visit /\ codes \in SUBSET RecoveryCodes
    BY <1>1 DEF FounderTypes
  <2>2. x \in Visit /\ x.kind = "replace"
    BY <2>1 DEF Visit
  <2>3. visit' = [visit EXCEPT ![v] = x]
    BY <1>1, <1>7 DEF DeleteCodes, FounderTypes
  <2> HIDE DEF x
  <2>4. QED
    BY <1>3, <2>2, <2>3
<1>8. CASE GiveUp(v)
  BY <1>3, <1>8, RestingVisit DEF GiveUp
<1>9. QED
  BY <1>5, <1>6, <1>7, <1>8

\* A login with a code of the authenticator, or with none.
LEMMA LoginsKept ==
    ASSUME FounderInv, NEW v \in Visits, LoginBare(v) \/ LoginTotp(v)
    PROVE  FounderInv'
<1>1. FounderTypes /\ VisitsInv /\ issued \in Nat /\ bare \in Nat
  BY FounderBounds DEF FounderInv, FounderTypes
<1>2. UNCHANGED <<user, codes, issued, uses, proven>> /\ issued' \in Nat /\ issued <= issued'
  BY <1>1 DEF LoginBare, LoginTotp, founderHistory
<1>3. CASE LoginTotp(v)
  <2> DEFINE current == user = visit[v].user
  <2>1. current \in BOOLEAN /\ Leave(v, current) /\ bare' = bare
    BY <1>3 DEF LoginTotp, founderHistory
  <2> HIDE DEF current
  <2>2. QED
    BY <1>1, <1>2, <2>1, LeaveCounts, FounderRests
<1>4. CASE LoginBare(v)
  <2> DEFINE current == ~user.mfa
  <2>1. current \in BOOLEAN /\ Leave(v, current) /\ bare' = IF user.mfa THEN bare + 1 ELSE bare
    BY <1>4 DEF LoginBare
  <2>2. current = ~user.mfa
    OBVIOUS
  <2> HIDE DEF current
  <2>3. /\ races' = IF current THEN races ELSE races + 1
        /\ races \in Nat /\ races' \in 0 .. MaxRaces /\ races' \in Nat
        /\ visit' \in [Visits -> Visit] /\ VisitsInv'
    BY <1>1, <1>2, <2>1, LeaveCounts
  <2>4. CASE user.mfa
    <3>1. races' = races + 1 /\ bare' = bare + 1
      BY <2>2, <2>1, <2>3, <2>4
    <3>2. bare' \in Nat /\ SecondFactorAsked'
      BY <1>1, <2>3, <3>1 DEF FounderInv, SecondFactorHolds, SecondFactorAsked
    <3>3. FounderTypes' /\ CodesInv'
      BY <1>2, <2>3, <3>2 DEF FounderInv, FounderTypes, CodesInv
    <3>4. Remaining' = Remaining /\ Remaining \in Nat
      BY <1>1, <1>2, CodesFinite DEF Remaining
    <3>5. SetsReplaced'
      <4>1. /\ SetSize * (1 + races) \in Nat
            /\ SetSize * (1 + (races + 1)) = SetSize * (1 + races) + SetSize
        BY <2>3, Sets
      <4>2. QED
        BY <3>1, <3>4, <4>1, FounderBounds DEF FounderInv, SecondFactorHolds, SetsReplaced
    <3>6. CodesUsedOnce' /\ SecretsProven'
      BY <1>1, <1>2, <2>3, <3>1
         DEF FounderInv, FounderTypes, SecondFactorHolds, CodesUsedOnce, SecretsProven
    <3>7. QED
      BY <2>3, <3>2, <3>3, <3>5, <3>6 DEF FounderInv, SecondFactorHolds
  <2>5. CASE ~user.mfa
    <3>1. races' = races /\ bare' = bare
      BY <2>2, <2>1, <2>3, <2>5
    <3>2. QED
      BY <1>2, <2>3, <3>1, FounderRests
  <2>6. QED
    BY <2>4, <2>5
<1>5. QED
  BY <1>3, <1>4

\* A recovery code: it goes, if it was still there.
LEMMA UseKept ==
    ASSUME FounderInv, NEW v \in Visits, UseCode(v)
    PROVE  FounderInv'
<1> DEFINE c == visit[v].code
           current == c \in codes
<1>1. /\ FounderTypes /\ VisitsInv /\ issued \in Nat /\ issued \in 0 .. MaxCodes
      /\ uses \in [RecoveryCodes -> Nat]
  BY FounderBounds DEF FounderInv, FounderTypes
<1>2. /\ codes' = codes \ {c}
      /\ uses' = [uses EXCEPT ![c] = @ + 1]
      /\ Leave(v, current)
      /\ UNCHANGED <<user, issued, proven, bare>>
  BY DEF UseCode, Marked
<1>3. c \in 1 .. issued /\ c \in RecoveryCodes
  <2>1. c \in 1 .. issued
    BY DEF FounderInv, VisitsInv, UseCode
  <2>2. QED
    BY <1>1, <2>1, FounderBounds DEF RecoveryCodes
<1> HIDE DEF c
<1>4. /\ races' = IF current THEN races ELSE races + 1
      /\ races \in Nat /\ races' \in 0 .. MaxRaces /\ races' \in Nat
      /\ visit' \in [Visits -> Visit] /\ VisitsInv'
  <2>1. current \in BOOLEAN /\ issued' \in Nat /\ issued <= issued'
    BY <1>1, <1>2
  <2> HIDE DEF current
  <2>2. QED
    BY <1>1, <1>2, <2>1, LeaveCounts
<1>5. /\ uses' \in [RecoveryCodes -> Nat]
      /\ \A d \in RecoveryCodes : uses'[d] = IF d = c THEN uses[c] + 1 ELSE uses[d]
  BY <1>1, <1>2, <1>3
<1>6. FounderTypes'
  BY <1>1, <1>2, <1>4, <1>5 DEF FounderTypes
<1>7. CodesInv'
  <2>1. ASSUME NEW d \in RecoveryCodes, d \in codes' \/ d > issued' PROVE uses'[d] = 0
    <3>1. d # c
      BY <1>1, <1>2, <1>3, <2>1 DEF RecoveryCodes
    <3>2. d \in codes \/ d > issued
      BY <1>2, <2>1
    <3>3. QED
      BY <1>5, <3>1, <3>2 DEF FounderInv, CodesInv
  <2>2. QED
    BY <1>2, <2>1 DEF FounderInv, CodesInv
<1>8. CodesUsedOnce'
  <2>1. \A d \in RecoveryCodes : uses[d] \in Nat /\ uses[d] <= 1 + races
    BY <1>1 DEF FounderInv, SecondFactorHolds, CodesUsedOnce
  <2>2. CASE current
    <3>1. uses[c] = 0 /\ races' = races
      BY <1>3, <1>4, <2>2 DEF FounderInv, CodesInv
    <3>2. QED
      BY <1>3, <1>4, <1>5, <2>1, <3>1 DEF CodesUsedOnce
  <2>3. CASE ~current
    <3>1. races' = races + 1
      BY <1>4, <2>3
    <3>2. QED
      BY <1>3, <1>4, <1>5, <2>1, <3>1 DEF CodesUsedOnce
  <2>4. QED
    BY <2>2, <2>3
<1>9. SetsReplaced'
  <2>1. Remaining' <= Remaining /\ Remaining \in Nat /\ Remaining' \in Nat
    <3>1. IsFiniteSet(codes) /\ Cardinality(codes) \in Nat
      BY <1>1, CodesFinite
    <3>2. codes' \subseteq codes
      BY <1>2
    <3>3. QED
      BY <3>1, <3>2, FS_Subset, FS_CardinalityType DEF Remaining
  <2>2. /\ SetSize * (1 + races) \in Nat
        /\ SetSize * (1 + (races + 1)) = SetSize * (1 + races) + SetSize
    BY <1>4, Sets
  <2>3. Remaining <= SetSize * (1 + races)
    BY DEF FounderInv, SecondFactorHolds, SetsReplaced
  <2>4. CASE races' = races
    BY <2>1, <2>2, <2>3, <2>4 DEF SetsReplaced
  <2>5. CASE races' = races + 1
    BY <2>1, <2>2, <2>3, <2>5, FounderBounds DEF SetsReplaced
  <2>6. QED
    BY <1>4, <2>4, <2>5
<1>10. SecretsProven' /\ SecondFactorAsked'
  BY <1>1, <1>2, <1>4
     DEF FounderInv, FounderTypes, SecondFactorHolds, SecretsProven, SecondFactorAsked
<1>11. QED
  BY <1>4, <1>6, <1>7, <1>8, <1>9, <1>10 DEF FounderInv, SecondFactorHolds

\* The authenticator: set up anew it is no second factor yet, and is one once a
\* code of its secret was shown, unless it was set up again in between.
LEMMA EnableKept ==
    ASSUME FounderInv, SetupTotp \/ \E v \in Visits : CommitEnable(v)
    PROVE  FounderInv'
<1>1. /\ FounderTypes /\ VisitsInv /\ issued \in Nat /\ races \in 0 .. MaxRaces
      /\ races \in Nat /\ bare \in Nat /\ user \in User
  BY FounderBounds DEF FounderInv, FounderTypes
<1>2. UNCHANGED <<codes, issued, uses, bare>>
  BY DEF SetupTotp, CommitEnable, founderHistory
<1>3. ASSUME races' = races \/ races' = races + 1, races' \in 0 .. MaxRaces,
             visit' \in [Visits -> Visit], VisitsInv', user' \in User, SecretsProven'
      PROVE  FounderInv'
  <2>1. races' \in Nat
    BY <1>3, FounderBounds
  <2>2. Remaining \in Nat /\ Remaining' = Remaining /\ Remaining <= SetSize * (1 + races)
    BY <1>1, <1>2, CodesFinite DEF Remaining, FounderInv, SecondFactorHolds, SetsReplaced
  <2>3. /\ SetSize * (1 + races) \in Nat
        /\ SetSize * (1 + (races + 1)) = SetSize * (1 + races) + SetSize
    BY <1>1, Sets
  <2>4. SetsReplaced'
    <3>1. CASE races' = races
      BY <2>2, <2>3, <3>1 DEF SetsReplaced
    <3>2. CASE races' = races + 1
      BY <2>2, <2>3, <3>2, FounderBounds DEF SetsReplaced
    <3>3. QED
      BY <1>3, <3>1, <3>2
  <2>5. CodesUsedOnce' /\ SecondFactorAsked'
    BY <1>1, <1>2, <1>3, <2>1
       DEF FounderInv, FounderTypes, SecondFactorHolds, CodesUsedOnce, SecondFactorAsked
  <2>6. FounderTypes' /\ CodesInv'
    BY <1>2, <1>3 DEF FounderInv, FounderTypes, CodesInv
  <2>7. QED
    BY <1>3, <2>4, <2>5, <2>6 DEF FounderInv, SecondFactorHolds
<1>4. CASE SetupTotp
  <2>1. /\ user' = [mfa |-> FALSE, secret |-> user.secret + 1]
        /\ user.secret < MaxSetups
        /\ UNCHANGED <<visit, races>>
    BY <1>4 DEF SetupTotp
  <2>2. user' \in User /\ SecretsProven'
    BY <1>1, <2>1, FounderBounds DEF User, SecretsProven
  <2>3. visit' \in [Visits -> Visit] /\ VisitsInv'
    BY <1>1, <1>2, <2>1 DEF FounderTypes, VisitsInv
  <2>4. QED
    BY <1>1, <1>3, <2>1, <2>2, <2>3
<1>5. ASSUME NEW v \in Visits, CommitEnable(v) PROVE FounderInv'
  <2> DEFINE s == visit[v].user.secret
             current == user.secret = s
  <2>1. /\ user' = [user EXCEPT !.mfa = TRUE]
        /\ proven' = proven \cup {s}
        /\ Leave(v, current)
    BY <1>5 DEF CommitEnable
  <2>2. current \in BOOLEAN /\ (current => user.secret = s)
    OBVIOUS
  <2> HIDE DEF current, s
  <2>3. issued' \in Nat /\ issued <= issued'
    BY <1>1, <1>2
  <2>4. /\ races' = IF current THEN races ELSE races + 1
        /\ races' \in 0 .. MaxRaces
        /\ visit' \in [Visits -> Visit] /\ VisitsInv'
    BY <1>1, <2>1, <2>2, <2>3, LeaveCounts
  <2>5. user' \in User /\ user'.secret = user.secret
    BY <1>1, <2>1 DEF User
  <2>6. SecretsProven'
    <3>1. CASE current
      BY <2>1, <2>2, <2>5, <3>1 DEF SecretsProven
    <3>2. CASE ~current
      <4>1. races' > 0
        BY <1>1, <2>4, <3>2
      <4>2. QED
        BY <4>1 DEF SecretsProven
    <3>3. QED
      BY <3>1, <3>2
  <2>7. QED
    BY <1>3, <2>4, <2>5, <2>6
<1>6. QED
  BY <1>4, <1>5

\* A new set of codes, and no other, unless the codes changed after the old ones
\* were deleted.
LEMMA RotateKept ==
    ASSUME FounderInv, NEW v \in Visits, CommitRotate(v)
    PROVE  FounderInv'
<1> DEFINE set == issued + 1 .. issued + SetSize
           old == visit[v].old
           current == codes \subseteq old /\ user = visit[v].user
<1>1. /\ FounderTypes /\ VisitsInv /\ issued \in Nat /\ races \in Nat
      /\ codes \subseteq RecoveryCodes
  BY FounderBounds DEF FounderInv, FounderTypes
<1>2. /\ issued + SetSize <= MaxCodes
      /\ codes' = (codes \ old) \cup set
      /\ issued' = issued + SetSize
      /\ Leave(v, current)
      /\ UNCHANGED <<user, uses, proven, bare>>
  BY DEF CommitRotate, founderHistory
<1>3. current \in BOOLEAN /\ (current => codes \subseteq old)
  OBVIOUS
<1> HIDE DEF current, old
<1>4. /\ issued' \in Nat /\ issued <= issued' /\ issued' \in 0 .. MaxCodes
      /\ set \subseteq RecoveryCodes
  BY <1>1, <1>2, FounderBounds DEF RecoveryCodes
<1>5. /\ races' = IF current THEN races ELSE races + 1
      /\ races' \in 0 .. MaxRaces /\ races' \in Nat
      /\ visit' \in [Visits -> Visit] /\ VisitsInv'
  BY <1>1, <1>2, <1>3, <1>4, LeaveCounts
<1>6. FounderTypes'
  BY <1>1, <1>2, <1>4, <1>5 DEF FounderTypes
<1>7. CodesInv'
  <2>1. codes' \subseteq 1 .. issued'
    <3>1. codes \subseteq 1 .. issued
      BY DEF FounderInv, CodesInv
    <3>2. 1 .. issued \subseteq 1 .. issued' /\ set \subseteq 1 .. issued'
      BY <1>1, <1>2, FounderBounds
    <3>3. QED
      BY <1>2, <3>1, <3>2
  <2>2. ASSUME NEW c \in RecoveryCodes, c \in codes' \/ c > issued' PROVE uses'[c] = 0
    <3>1. c \in codes \/ c > issued
      BY <1>1, <1>2, <2>2, FounderBounds DEF RecoveryCodes
    <3>2. QED
      BY <1>2, <3>1 DEF FounderInv, CodesInv
  <2>3. QED
    BY <2>1, <2>2 DEF CodesInv
<1>8. SetsReplaced'
  <2>1. IsFiniteSet(set) /\ Cardinality(set) = SetSize
    <3>1. issued + 1 \in Int /\ issued + SetSize \in Int /\ ~(issued + 1 > issued + SetSize)
      BY <1>1, FounderBounds
    <3>2. (issued + SetSize) - (issued + 1) + 1 = SetSize
      BY <1>1, FounderBounds
    <3>3. QED
      BY <3>1, <3>2, FS_Interval
  <2>2. IsFiniteSet(codes) /\ Cardinality(codes) \in Nat
    BY <1>1, CodesFinite
  <2>3. /\ SetSize * (1 + races) \in Nat
        /\ SetSize <= SetSize * (1 + races)
        /\ SetSize * (1 + (races + 1)) = SetSize * (1 + races) + SetSize
    BY <1>1, Sets
  <2>4. Cardinality(codes) <= SetSize * (1 + races)
    BY DEF FounderInv, SecondFactorHolds, SetsReplaced, Remaining
  <2> HIDE DEF set
  <2>5. CASE current
    <3>1. codes' = set
      BY <1>2, <1>3, <2>5
    <3>2. Cardinality(codes') = SetSize /\ races' = races
      BY <1>5, <2>1, <2>5, <3>1
    <3>3. QED
      BY <2>3, <3>2 DEF SetsReplaced, Remaining
  <2>6. CASE ~current
    <3>1. /\ IsFiniteSet(codes \ old)
          /\ Cardinality(codes \ old) <= Cardinality(codes)
          /\ Cardinality(codes \ old) \in Nat
      BY <2>2, FS_Subset, FS_CardinalityType
    <3>2. /\ Cardinality(codes') \in Nat
          /\ Cardinality(codes') <= Cardinality(codes \ old) + SetSize
      <4>1. /\ IsFiniteSet((codes \ old) \cap set)
            /\ Cardinality((codes \ old) \cap set) \in Nat
        BY <3>1, FS_Subset, FS_CardinalityType
      <4>2. /\ IsFiniteSet(codes')
            /\ Cardinality(codes') = Cardinality(codes \ old) + Cardinality(set)
                                       - Cardinality((codes \ old) \cap set)
        BY <1>2, <2>1, <3>1, FS_Union
      <4>3. Cardinality(codes') \in Nat
        BY <4>2, FS_CardinalityType
      <4>4. QED
        BY <2>1, <3>1, <4>1, <4>2, <4>3, FounderBounds
    <3>3. races' = races + 1
      BY <1>5, <2>6
    <3>4. QED
      BY <2>2, <2>3, <2>4, <3>1, <3>2, <3>3, FounderBounds DEF SetsReplaced, Remaining
  <2>7. QED
    BY <2>5, <2>6
<1>9. CodesUsedOnce' /\ SecretsProven' /\ SecondFactorAsked'
  BY <1>1, <1>2, <1>5
     DEF FounderInv, FounderTypes, SecondFactorHolds, CodesUsedOnce, SecretsProven,
         SecondFactorAsked
<1>10. QED
  BY <1>5, <1>6, <1>7, <1>8, <1>9 DEF FounderInv, SecondFactorHolds

LEMMA FounderStep ==
    ASSUME FounderInv, [FounderNext]_<<vars, founderVars>>
    PROVE  FounderInv'
<1>1. ASSUME UNCHANGED <<user, codes, issued, visit, uses, proven, bare, races>>
      PROVE  FounderInv'
  <2>1. races \in 0 .. MaxRaces /\ visit \in [Visits -> Visit] /\ VisitsInv
    BY DEF FounderInv, FounderTypes
  <2>2. VisitsInv'
    BY <1>1, <2>1 DEF VisitsInv
  <2>3. QED
    BY <1>1, <2>1, <2>2, FounderRests
<1>2. CASE ExpireSession
  BY <1>1, <1>2 DEF ExpireSession, founderHistory
<1>3. CASE UNCHANGED founderVars
  BY <1>1, <1>3 DEF founderVars
<1>4. QED
  BY <1>2, <1>3, VisitsMove, LoginsKept, UseKept, EnableKept, RotateKept DEF FounderNext

\* A recovery code lets the founder in once, a new set of codes replaces the old
\* one, an enabled authenticator is one she has, and no login goes round it, each
\* up to the calls of AuthService that wrote over a row they had not read.
THEOREM SecondFactor == FounderSpec => []SecondFactorHolds
<1>1. FounderInit => FounderInv
  <2> SUFFICES ASSUME FounderInit PROVE FounderInv
    OBVIOUS
  <2>1. FounderTypes
    BY RestingVisit, FounderBounds DEF FounderInit, FounderTypes
  <2>2. CodesInv /\ VisitsInv
    BY RestingVisit DEF FounderInit, CodesInv, VisitsInv
  <2>3. CodesUsedOnce /\ SecretsProven /\ SecondFactorAsked
    BY RestingVisit, FounderBounds DEF FounderInit, CodesUsedOnce, SecretsProven, SecondFactorAsked
  <2>4. SetsReplaced
    <3>1. Remaining = 0
      BY FS_EmptySet DEF FounderInit, Remaining
    <3>2. SetSize * (1 + races) \in Nat
      BY Sets DEF FounderInit
    <3>3. QED
      BY <3>1, <3>2 DEF SetsReplaced
  <2>5. QED
    BY <2>1, <2>2, <2>3, <2>4 DEF FounderInv, SecondFactorHolds
<1>2. FounderInv => SecondFactorHolds
  BY DEF FounderInv
<1>3. QED
  BY <1>1, <1>2, FounderStep, PTL DEF FounderSpec
=============================================================================

------------------------ MODULE AcademicSetupProofs ------------------------
(***************************************************************************)
(* Proofs about AcademicSetup, for any sessions, any structures, types and *)
(* updates of structures, any scopes and any number of uploads and updates *)
(* in flight.                                                              *)
(***************************************************************************)
EXTENDS AcademicSetup, FiniteSetTheorems, TLAPS

-----------------------------------------------------------------------------
(* Types. *)

LEMMA Bounds ==
    /\ MaxMoves \in Nat /\ MaxOverlaps \in Nat /\ MaxChanges \in Nat
    /\ NoSession \notin Sessions
    /\ NoStructure \notin Structures /\ NoStructure \notin Names
    /\ FirstRow \in [Structures -> Row]
    /\ Scopes \subseteq SUBSET [key : Keys, value : Structures \cup Names]
BY AcademicSetupAssumption

\* The keys that a node writes, and the one it does not.
LEMMA KeysApart ==
    /\ ScopeId \in Keys /\ ScopeId \notin TypeKeys /\ ScopeId[1] \notin Types
    /\ Keys = TypeKeys \cup {ScopeId}
    /\ \A k \in TypeKeys : k[1] \in Types
<1>1. ScopeId[1] = "structure_scope" /\ \A k \in TypeKeys : k[1] \in Types
  BY DEF ScopeId, TypeKeys
<1>2. QED
  BY <1>1, AcademicSetupAssumption DEF Keys

\* A call at rest.
LEMMA RestingCall ==
    /\ NoCall \in Call /\ NoCall.kind = "none"
    /\ NoCall.moved = FALSE /\ NoCall.lapsed = FALSE
BY DEF NoCall, Call, Node

\* An upload whose user's scopes are to be checked.
LEMMA WalkingCall ==
    ASSUME NEW s \in Node, NEW q \in BOOLEAN
    PROVE  /\ Upload(s, q) \in Call
           /\ Upload(s, q).kind = "walk" /\ Upload(s, q).visited = {}
           /\ Upload(s, q).start = s /\ Upload(s, q).at = s
           /\ \A k \in Keys :
                  Upload(s, q).target[k] = IF k = ScopeId THEN s ELSE NoStructure
<1> DEFINE none == [k \in Keys |-> NoStructure]
           target == [none EXCEPT ![ScopeId] = s]
<1>1. target \in [Keys -> Node \cup Names]
  BY DEF Node
<1>2. \A k \in Keys : target[k] = IF k = ScopeId THEN s ELSE NoStructure
  OBVIOUS
<1>3. Upload(s, q) = [NoCall EXCEPT !.kind = "walk", !.queued = q, !.start = s,
                                    !.at = s, !.target = target]
  BY DEF Upload, NoCall
<1> HIDE DEF target
<1>4. QED
  BY <1>1, <1>2, <1>3 DEF NoCall, Call, Node

\* What the walk makes of one node.
LEMMA VisitedCall ==
    ASSUME NEW w \in Call, NEW r \in [Structures -> Row], w.at \in Structures
    PROVE  Visited(w, r) \in Call
<1> DEFINE target == [k \in Keys |-> IF k[1] = r[w.at].type THEN Value(r, w.at, k)
                                    ELSE w.target[k]]
<1>1. r[w.at].parent \in Node /\ r[w.at].name \in Names
      /\ w.visited \cup {w.at} \in SUBSET Structures
  BY DEF Call, Row
<1>2. w.at \in Node /\ w.target \in [Keys -> Node \cup Names]
  BY DEF Node, Call
<1>3. target \in [Keys -> Node \cup Names]
  BY <1>1, <1>2 DEF Value
<1>4. Visited(w, r) = [w EXCEPT !.at = r[w.at].parent, !.visited = @ \cup {w.at},
                                !.target = target]
  BY DEF Visited
<1> HIDE DEF target
<1>5. QED
  BY <1>1, <1>3, <1>4 DEF Call

LEMMA InitTypes == Init => TypeOK
<1>1. NoEdit \in Edit
  BY DEF NoEdit, Edit
<1>2. QED
  BY <1>1, RestingCall, Bounds DEF Init, TypeOK, Node

\* Session updates keep the types.
LEMMA EditsKeepTypes ==
    ASSUME TypeOK, NEW e \in Editors, ClearCurrent(e) \/ SetCurrent(e) \/ AbandonEdit(e)
    PROVE  TypeOK'
<1>1. NoEdit \in Edit
  BY DEF NoEdit, Edit
<1>2. CASE ClearCurrent(e)
  <2>1. PICK s \in Sessions :
            edit' = [edit EXCEPT ![e] = [session |-> s, cleared |-> Cleared(s), seen |-> current]]
    BY <1>2 DEF ClearCurrent
  <2>2. [session |-> s, cleared |-> Cleared(s), seen |-> current] \in Edit
    BY <2>1 DEF Edit, Cleared, TypeOK
  <2>3. QED
    BY <1>2, <2>1, <2>2 DEF ClearCurrent, TypeOK, authority
<1>3. CASE SetCurrent(e)
  <2>1. edit[e].session \in Sessions
    BY <1>3 DEF SetCurrent, TypeOK, Edit
  <2>2. overlaps' \in 0 .. MaxOverlaps
    BY <1>3, Bounds DEF SetCurrent, TypeOK
  <2>3. QED
    BY <1>1, <1>3, <2>1, <2>2 DEF SetCurrent, TypeOK, authority
<1>4. CASE AbandonEdit(e)
  BY <1>1, <1>4 DEF AbandonEdit, TypeOK, authority
<1>5. QED
  BY <1>2, <1>3, <1>4

\* A call in flight replaced, and nothing else that has a type of its own.
LEMMA CallsKeepTypes ==
    ASSUME TypeOK, NEW c \in Calls,
           \/ StartUpload(c) \/ Visit(c) \/ Allow(c) \/ Refuse(c)
           \/ RunJob(c) \/ CreateBatch(c) \/ Abandon(c)
    PROVE  TypeOK'
<1>1. UNCHANGED <<current, row, authority, edit, moves, overlaps>>
  BY DEF StartUpload, Visit, Allow, Refuse, RunJob, CreateBatch, Abandon
<1>2. call[c] \in Call /\ call \in [Calls -> Call] /\ row \in [Structures -> Row]
  BY DEF TypeOK
<1>3. ASSUME NEW x \in Call, call' = [call EXCEPT ![c] = x]
      PROVE  TypeOK'
  BY <1>1, <1>3 DEF TypeOK, authority
<1>4. CASE StartUpload(c)
  BY <1>3, <1>4, WalkingCall DEF StartUpload, Begin
<1>5. CASE Visit(c)
  <2>1. call[c].at \in Structures
    BY <1>2, <1>5 DEF Visit, Seen, Call, Node
  <2>2. Visited(call[c], row) \in Call
    BY <1>2, <2>1, VisitedCall
  <2>3. call' = [call EXCEPT ![c] = Visited(call[c], row)]
    BY <1>5 DEF Visit
  <2>4. QED
    BY <1>3, <2>2, <2>3
<1>6. CASE Allow(c)
  <2> DEFINE x == [NoCall EXCEPT !.kind = IF call[c].queued THEN "queued" ELSE "upload",
                                 !.lapsed = call[c].lapsed]
  <2>1. call[c].lapsed \in BOOLEAN
    BY <1>2 DEF Call
  <2>2. x \in Call
    BY <2>1, RestingCall DEF Call
  <2>3. call' = [call EXCEPT ![c] = x]
    BY <1>6 DEF Allow
  <2> HIDE DEF x
  <2>4. QED
    BY <1>3, <2>2, <2>3
<1>7. CASE RunJob(c)
  <2>1. [NoCall EXCEPT !.kind = "run"] \in Call
    BY RestingCall DEF Call
  <2>2. QED
    BY <1>3, <1>7, <2>1, RestingCall DEF RunJob
<1>8. CASE Refuse(c) \/ CreateBatch(c) \/ Abandon(c)
  BY <1>3, <1>8, RestingCall DEF Refuse, CreateBatch, Abandon, End
<1>9. QED
  BY <1>4, <1>5, <1>6, <1>7, <1>8

\* So do the changes of the institution's sessions, structures and authority.
LEMMA SetupKeepsTypes ==
    ASSUME TypeOK, UnsetCurrent \/ MoveStructure \/ EndAuthority \/ GiveAuthority
    PROVE  TypeOK'
<1>1. CASE UnsetCurrent
  BY <1>1 DEF UnsetCurrent, TypeOK, authority
<1>2. CASE MoveStructure
  <2>1. call' \in [Calls -> Call]
    <3>1. \A c \in Calls : [call[c] EXCEPT !.moved = call[c].kind = "walk"] \in Call
      BY DEF TypeOK, Call
    <3>2. QED
      BY <1>2, <3>1 DEF MoveStructure
  <2>2. row' \in [Structures -> Row] /\ moves' \in 0 .. MaxMoves
    BY <1>2, Bounds DEF MoveStructure, TypeOK
  <2>3. QED
    BY <1>2, <2>1, <2>2 DEF MoveStructure, TypeOK, authority
<1>3. CASE EndAuthority
  <2>1. call' \in [Calls -> Call]
    <3>1. \A c \in Calls : [call[c] EXCEPT !.lapsed = call[c].kind # "none"] \in Call
      BY DEF TypeOK, Call
    <3>2. QED
      BY <1>3, <3>1 DEF EndAuthority
  <2>2. changes' \in 0 .. MaxChanges
    BY <1>3, Bounds DEF EndAuthority, TypeOK
  <2>3. authorized' \in BOOLEAN
    BY <1>3 DEF EndAuthority
  <2>4. QED
    BY <1>3, <2>1, <2>2, <2>3 DEF EndAuthority, TypeOK
<1>4. CASE GiveAuthority
  BY <1>4, Bounds DEF GiveAuthority, TypeOK
<1>5. QED
  BY <1>1, <1>2, <1>3, <1>4

LEMMA TypesKept == TypeOK /\ [Next]_vars => TypeOK'
<1> SUFFICES ASSUME TypeOK, [Next]_vars PROVE TypeOK'
  OBVIOUS
<1>1. CASE UNCHANGED vars
  BY <1>1 DEF vars, authority, TypeOK
<1>2. CASE Next
  BY <1>2, EditsKeepTypes, CallsKeepTypes, SetupKeepsTypes DEF Next
<1>3. QED
  BY <1>1, <1>2

\* Every reachable state is well typed: only sessions are current, only structures
\* are parents, and a walk visits structures only.
THEOREM TypeCorrect == Spec => []TypeOK
BY InitTypes, TypesKept, PTL DEF Spec

-----------------------------------------------------------------------------
(* Sessions. *)

\* An update in its transaction has cleared what it saw.
EditsCleared ==
    \A e \in Editors :
        edit[e].session # NoSession => edit[e].cleared = edit[e].seen \ {edit[e].session}

CurrentInv == EditsCleared /\ IsFiniteSet(current) /\ OneCurrent

LEMMA InitCurrent == Init => CurrentInv
<1> SUFFICES ASSUME Init PROVE CurrentInv
  OBVIOUS
<1>1. EditsCleared
  BY DEF Init, EditsCleared, NoEdit
<1>2. IsFiniteSet(current) /\ OneCurrent
  BY FS_EmptySet DEF Init, OneCurrent
<1>3. QED
  BY <1>1, <1>2 DEF CurrentInv

\* The flags are set for one session.
LEMMA SetCurrentKeeps ==
    ASSUME TypeOK, CurrentInv, NEW e \in Editors, SetCurrent(e)
    PROVE  CurrentInv'
<1> DEFINE s == edit[e].session
           left == current \ edit[e].cleared
<1>1. /\ current' = left \cup {s}
      /\ edit[e].cleared = edit[e].seen \ {s}
  BY DEF SetCurrent, CurrentInv, EditsCleared
<1>2. EditsCleared'
  <2>1. edit' = [edit EXCEPT ![e] = NoEdit] /\ NoEdit.session = NoSession
    BY DEF SetCurrent, NoEdit
  <2>2. \A d \in Editors : edit'[d] = IF d = e THEN NoEdit ELSE edit[d]
    BY <2>1 DEF TypeOK
  <2>3. QED
    BY <2>1, <2>2 DEF CurrentInv, EditsCleared
<1>3. IsFiniteSet(left) /\ Cardinality(left) <= Cardinality(current)
  BY FS_Subset DEF CurrentInv
<1>4. /\ IsFiniteSet(current')
      /\ Cardinality(current') <= Cardinality(left) + 1
  <2>1. Cardinality(left) \in Nat
    BY <1>3, FS_CardinalityType
  <2>2. /\ IsFiniteSet(left \cup {s})
        /\ Cardinality(left \cup {s}) = IF s \in left THEN Cardinality(left)
                                                     ELSE Cardinality(left) + 1
    BY <1>3, FS_AddElement
  <2> HIDE DEF left, s
  <2>3. QED
    BY <1>1, <2>1, <2>2
<1>5. /\ Cardinality(current) \in Nat /\ Cardinality(left) \in Nat
      /\ Cardinality(current') \in Nat /\ overlaps \in Nat
  BY <1>3, <1>4, FS_CardinalityType, Bounds DEF CurrentInv, TypeOK
<1>6. OneCurrent'
  <2>1. CASE current = edit[e].seen
    <3>1. current' = {s}
      BY <1>1, <2>1
    <3>2. overlaps' = overlaps
      BY <2>1 DEF SetCurrent
    <3>3. Cardinality(current') = 1
      BY <3>1, FS_Singleton
    <3>4. QED
      BY <1>5, <3>2, <3>3 DEF OneCurrent
  <2>2. CASE current # edit[e].seen
    <3>1. overlaps' = overlaps + 1
      BY <2>2 DEF SetCurrent
    <3>2. QED
      BY <1>3, <1>4, <1>5, <3>1 DEF OneCurrent, CurrentInv
  <2>3. QED
    BY <2>1, <2>2
<1>7. QED
  BY <1>2, <1>4, <1>6 DEF CurrentInv

LEMMA CurrentKept == TypeOK /\ CurrentInv /\ [Next]_vars => CurrentInv'
<1> SUFFICES ASSUME TypeOK, CurrentInv, [Next]_vars PROVE CurrentInv'
  OBVIOUS
<1>1. ASSUME UNCHANGED <<current, edit, overlaps>> PROVE CurrentInv'
  BY <1>1 DEF CurrentInv, EditsCleared, OneCurrent
<1>2. ASSUME NEW e \in Editors, ClearCurrent(e) PROVE CurrentInv'
  <2>1. PICK s \in Sessions :
            edit' = [edit EXCEPT ![e] = [session |-> s, cleared |-> Cleared(s), seen |-> current]]
    BY <1>2 DEF ClearCurrent
  <2>2. EditsCleared'
    BY <2>1 DEF CurrentInv, EditsCleared, Cleared, TypeOK
  <2>3. UNCHANGED <<current, overlaps>>
    BY <1>2 DEF ClearCurrent
  <2>4. QED
    BY <2>2, <2>3 DEF CurrentInv, OneCurrent
<1>3. ASSUME NEW e \in Editors, AbandonEdit(e) PROVE CurrentInv'
  <2>1. edit' = [edit EXCEPT ![e] = NoEdit] /\ NoEdit.session = NoSession
    BY <1>3 DEF AbandonEdit, NoEdit
  <2>2. EditsCleared'
    BY <2>1 DEF CurrentInv, EditsCleared, TypeOK
  <2>3. UNCHANGED <<current, overlaps>>
    BY <1>3 DEF AbandonEdit
  <2>4. QED
    BY <2>2, <2>3 DEF CurrentInv, OneCurrent
<1>4. CASE UnsetCurrent
  <2>1. current' \subseteq current /\ UNCHANGED <<edit, overlaps>>
    BY <1>4 DEF UnsetCurrent
  <2>2. IsFiniteSet(current') /\ Cardinality(current') <= Cardinality(current)
    BY <2>1, FS_Subset DEF CurrentInv
  <2>3. Cardinality(current') \in Nat /\ Cardinality(current) \in Nat /\ overlaps \in Nat
    BY <2>2, FS_CardinalityType, Bounds DEF CurrentInv, TypeOK
  <2>4. QED
    BY <2>1, <2>2, <2>3 DEF CurrentInv, EditsCleared, OneCurrent
<1>5. ASSUME NEW c \in Calls,
             \/ StartUpload(c) \/ Visit(c) \/ Allow(c) \/ Refuse(c)
             \/ RunJob(c) \/ CreateBatch(c) \/ Abandon(c)
      PROVE  CurrentInv'
  BY <1>1, <1>5 DEF StartUpload, Visit, Allow, Refuse, RunJob, CreateBatch, Abandon
<1>6. CASE MoveStructure \/ EndAuthority \/ GiveAuthority \/ UNCHANGED vars
  BY <1>1, <1>6 DEF MoveStructure, EndAuthority, GiveAuthority, vars
<1>7. CASE UNCHANGED vars
  BY <1>6, <1>7
<1>8. CASE Next
  BY <1>2, <1>3, <1>4, <1>5, <1>6, <1>8, SetCurrentKeeps DEF Next
<1>9. QED
  BY <1>7, <1>8

\* createAcademicSession and updateAcademicSession leave one session current, and
\* one more for each update that another one's commit overlapped.
THEOREM CurrentSessions == Spec => []OneCurrent
<1>1. Spec => [](TypeOK /\ CurrentInv)
  BY InitTypes, InitCurrent, TypesKept, CurrentKept, PTL DEF Spec
<1>2. CurrentInv => OneCurrent
  BY DEF CurrentInv
<1>3. QED
  BY <1>1, <1>2, PTL

-----------------------------------------------------------------------------
(* Authority. *)

\* A call past its check of the institution has seen the authority end if it has.
Backed == \A c \in Calls :
    call[c].kind \in {"walk", "upload", "run"} => authorized \/ call[c].lapsed

LEMMA InitBacked == Init => Backed
BY RestingCall DEF Init, Backed

LEMMA BackedKept == TypeOK /\ Backed /\ [Next]_vars => Backed'
<1> SUFFICES ASSUME TypeOK, Backed, [Next]_vars PROVE Backed'
  OBVIOUS
<1>1. ASSUME UNCHANGED <<call, authorized>> PROVE Backed'
  BY <1>1 DEF Backed
<1>2. ASSUME NEW c \in Calls, NEW x \in Call, call' = [call EXCEPT ![c] = x],
             authorized' = authorized,
             x.kind \in {"walk", "upload", "run"} => authorized \/ x.lapsed
      PROVE  Backed'
  <2>1. \A d \in Calls : call'[d] = IF d = c THEN x ELSE call[d]
    BY <1>2 DEF TypeOK
  <2>2. QED
    BY <1>2, <2>1 DEF Backed
<1>3. ASSUME NEW c \in Calls, StartUpload(c) PROVE Backed'
  <2>1. PICK s \in Node, q \in BOOLEAN : call' = [call EXCEPT ![c] = Upload(s, q)]
    BY <1>3 DEF StartUpload, Begin
  <2>2. authorized /\ authorized' = authorized
    BY <1>3 DEF StartUpload, authority
  <2>3. QED
    BY <1>2, <2>1, <2>2, WalkingCall
<1>4. ASSUME NEW c \in Calls, Visit(c) PROVE Backed'
  <2>1. call[c] \in Call /\ row \in [Structures -> Row]
    BY DEF TypeOK
  <2>2. call[c].at \in Structures
    BY <1>4, <2>1 DEF Visit, Seen, Call, Node
  <2>3. Visited(call[c], row) \in Call
    BY <2>1, <2>2, VisitedCall
  <2>4. /\ Visited(call[c], row).lapsed = call[c].lapsed
        /\ call[c].kind = "walk"
    BY <1>4, <2>1 DEF Visited, Visit, Call
  <2>5. call' = [call EXCEPT ![c] = Visited(call[c], row)] /\ authorized' = authorized
    BY <1>4 DEF Visit, authority
  <2>6. authorized \/ call[c].lapsed
    BY <2>4 DEF Backed
  <2>7. QED
    BY <1>2, <2>3, <2>4, <2>5, <2>6
<1>5. ASSUME NEW c \in Calls, Allow(c) PROVE Backed'
  <2> DEFINE x == [NoCall EXCEPT !.kind = IF call[c].queued THEN "queued" ELSE "upload",
                                 !.lapsed = call[c].lapsed]
  <2>1. call[c].lapsed \in BOOLEAN
    BY DEF TypeOK, Call
  <2>2. x \in Call /\ x.lapsed = call[c].lapsed
    BY <2>1, RestingCall DEF Call
  <2>3. call' = [call EXCEPT ![c] = x] /\ authorized' = authorized
    BY <1>5 DEF Allow, authority
  <2>4. authorized \/ call[c].lapsed
    BY <1>5 DEF Allow, WalkDone, Backed
  <2> HIDE DEF x
  <2>5. QED
    BY <1>2, <2>2, <2>3, <2>4
<1>6. ASSUME NEW c \in Calls, RunJob(c) PROVE Backed'
  <2>1. [NoCall EXCEPT !.kind = "run"] \in Call
    BY RestingCall DEF Call
  <2>2. authorized' = authorized
    BY <1>6 DEF RunJob, authority
  <2>3. CASE authorized
    BY <1>2, <1>6, <2>1, <2>2, <2>3 DEF RunJob, Rechecked
  <2>4. CASE ~authorized
    BY <1>2, <1>6, <2>2, <2>4, RestingCall DEF RunJob, Rechecked
  <2>5. QED
    BY <2>3, <2>4
<1>7. ASSUME NEW c \in Calls, Refuse(c) \/ CreateBatch(c) \/ Abandon(c) PROVE Backed'
  BY <1>2, <1>7, RestingCall DEF Refuse, CreateBatch, Abandon, End, authority
<1>8. CASE MoveStructure
  <2>1. \A c \in Calls :
            call'[c].kind = call[c].kind /\ call'[c].lapsed = call[c].lapsed
    BY <1>8 DEF MoveStructure, TypeOK, Call
  <2>2. authorized' = authorized
    BY <1>8 DEF MoveStructure, authority
  <2>3. QED
    BY <2>1, <2>2 DEF Backed
<1>9. CASE EndAuthority
  <2>1. \A c \in Calls :
            call'[c].kind = call[c].kind /\ (call[c].kind # "none" => call'[c].lapsed)
    BY <1>9 DEF EndAuthority, TypeOK, Call
  <2>2. QED
    BY <2>1 DEF Backed
<1>10. CASE GiveAuthority
  BY <1>10 DEF GiveAuthority, Backed
<1>11. ASSUME NEW e \in Editors, ClearCurrent(e) \/ SetCurrent(e) \/ AbandonEdit(e)
       PROVE  Backed'
  BY <1>1, <1>11 DEF ClearCurrent, SetCurrent, AbandonEdit, authority
<1>12. CASE UnsetCurrent \/ UNCHANGED vars
  BY <1>1, <1>12 DEF UnsetCurrent, vars, authority
<1>13. QED
  BY <1>3, <1>4, <1>5, <1>6, <1>7, <1>8, <1>9, <1>10, <1>11, <1>12 DEF Next

\* ingestResults and the worker create a batch without authority only for an upload
\* that had been checked before the authority ended.
THEOREM UploadsAreBacked == Spec => AuthorityHolds
<1>1. TypeOK /\ Backed /\ [Next]_vars =>
          [\A c \in Calls : CreateBatch(c) /\ ~authorized => call[c].lapsed]_vars
  BY DEF Backed, CreateBatch
<1>2. QED
  BY <1>1, InitTypes, InitBacked, TypesKept, BackedKept, PTL DEF Spec, AuthorityHolds

-----------------------------------------------------------------------------
(* The walk up the tree. *)

\* Closed under the parents of r, but for what is above the structure a.
ClosedBut(V, a, r) == \A u \in V : r[u].parent \in V \cup {a, NoStructure}

\* s and what is above it in the rows r.
Reached(s, r) ==
    {t \in Structures : \A above \in SUBSET Structures :
        (s \in above /\ \A u \in above : r[u].parent \in above \cup {NoStructure})
            => t \in above}

\* The value x under the key k is that of structure v.
Writes(r, v, k, x) == r[v].type = k[1] /\ Value(r, v, k) = x

\* A walk has visited the structures from its start to where it is, and what the
\* target has under a key is what one of them writes.
Walked(w, r) ==
    /\ w.start \in Structures
    /\ w.start \in w.visited \/ (w.visited = {} /\ w.at = w.start)
    /\ ClosedBut(w.visited, w.at, r)
    /\ w.visited \subseteq Reached(w.start, r)
    /\ w.at \in Reached(w.start, r) \cup {NoStructure}
    /\ w.target[ScopeId] = w.start
    /\ \A k \in TypeKeys : \/ w.target[k] = NoStructure
                           \/ \E v \in w.visited : Writes(r, v, k, w.target[k])
    /\ \A v \in w.visited, k \in TypeKeys :
           r[v].type = k[1] => \E u \in w.visited : Writes(r, u, k, w.target[k])

\* The walk of an upload that names no structure.
Nowhere(w) ==
    w.start = NoStructure /\ w.at = NoStructure /\ \A k \in Keys : w.target[k] = NoStructure

WalksInv == \A c \in Calls :
    call[c].kind = "walk" /\ ~call[c].moved => Walked(call[c], row) \/ Nowhere(call[c])

LEMMA StartWalked ==
    ASSUME NEW s \in Node, NEW q \in BOOLEAN, NEW r \in [Structures -> Row]
    PROVE  Walked(Upload(s, q), r) \/ Nowhere(Upload(s, q))
<1> DEFINE w == Upload(s, q)
<1>1. /\ w.start = s /\ w.at = s /\ w.visited = {}
      /\ \A k \in Keys : w.target[k] = IF k = ScopeId THEN s ELSE NoStructure
  BY WalkingCall
<1> HIDE DEF w
<1>2. CASE s = NoStructure
  BY <1>1, <1>2 DEF Nowhere, w
<1>3. CASE s \in Structures
  <2>1. s \in Reached(s, r)
    BY <1>3 DEF Reached
  <2>2. Walked(w, r)
    BY <1>1, <1>3, <2>1, KeysApart DEF Walked, ClosedBut
  <2>3. QED
    BY <2>2 DEF w
<1>4. QED
  BY <1>2, <1>3 DEF Node

\* What is above a structure that is reached is reached.
LEMMA ReachedUp ==
    ASSUME NEW s \in Structures, NEW r \in [Structures -> Row], NEW t \in Reached(s, r)
    PROVE  r[t].parent \in Reached(s, r) \cup {NoStructure}
<1>1. t \in Structures /\ r[t].parent \in Structures \cup {NoStructure}
  BY DEF Reached, Row, Node
<1>2. ASSUME r[t].parent # NoStructure, NEW above \in SUBSET Structures, s \in above,
             \A u \in above : r[u].parent \in above \cup {NoStructure}
      PROVE  r[t].parent \in above
  <2>1. t \in above
    BY <1>2 DEF Reached
  <2>2. QED
    BY <1>2, <2>1
<1>3. QED
  BY <1>1, <1>2 DEF Reached

LEMMA VisitWalked ==
    ASSUME NEW w \in Call, NEW r \in [Structures -> Row], Walked(w, r),
           w.at \in Structures, w.at \notin w.visited
    PROVE  Walked(Visited(w, r), r)
<1> DEFINE a == w.at
           x == Visited(w, r)
<1>1. /\ x.start = w.start /\ x.at = r[a].parent /\ x.visited = w.visited \cup {a}
      /\ x.target = [k \in Keys |-> IF k[1] = r[a].type THEN Value(r, a, k) ELSE w.target[k]]
  BY DEF Visited, Call
<1>2. r[a].type \in Types
  BY DEF Row
<1>3. \A k \in Keys :
          x.target[k] = IF k[1] = r[a].type THEN Value(r, a, k) ELSE w.target[k]
  BY <1>1
<1> HIDE DEF x
<1>4. a \in Reached(w.start, r) /\ w.start \in Structures
  BY Bounds DEF Walked
<1>5. r[a].parent \in Reached(w.start, r) \cup {NoStructure}
  BY <1>4, ReachedUp
<1>6. w.start \in x.visited
  BY <1>1 DEF Walked
<1>7. ClosedBut(x.visited, x.at, r)
  BY <1>1 DEF Walked, ClosedBut
<1>8. x.visited \subseteq Reached(w.start, r)
  BY <1>1, <1>4 DEF Walked
<1>9. x.target[ScopeId] = w.start
  BY <1>2, <1>3, KeysApart DEF Walked
<1>10. ASSUME NEW k \in TypeKeys, k[1] = r[a].type
       PROVE  \E u \in x.visited : Writes(r, u, k, x.target[k])
  <2>1. x.target[k] = Value(r, a, k)
    BY <1>3, <1>10, KeysApart
  <2>2. QED
    BY <1>1, <1>10, <2>1 DEF Writes
<1>11. ASSUME NEW k \in TypeKeys, k[1] # r[a].type
       PROVE  x.target[k] = w.target[k]
  BY <1>3, <1>11, KeysApart
<1>12. \A k \in TypeKeys : \/ x.target[k] = NoStructure
                           \/ \E v \in x.visited : Writes(r, v, k, x.target[k])
  BY <1>1, <1>10, <1>11 DEF Walked
<1>13. ASSUME NEW v \in x.visited, NEW k \in TypeKeys, r[v].type = k[1]
       PROVE  \E u \in x.visited : Writes(r, u, k, x.target[k])
  <2>1. CASE k[1] = r[a].type
    BY <1>10, <2>1
  <2>2. CASE k[1] # r[a].type
    <3>1. v \in w.visited
      BY <1>1, <1>13, <2>2
    <3>2. PICK u \in w.visited : Writes(r, u, k, w.target[k])
      BY <1>13, <3>1 DEF Walked
    <3>3. QED
      BY <1>1, <1>11, <2>2, <3>2
  <2>3. QED
    BY <2>1, <2>2
<1>14. Walked(x, r)
  BY <1>1, <1>4, <1>5, <1>6, <1>7, <1>8, <1>9, <1>12, <1>13 DEF Walked
<1>15. QED
  BY <1>14 DEF x

\* A walk that is done has visited all that is above its start.
LEMMA DoneWalked ==
    ASSUME NEW w \in Call, NEW r \in [Structures -> Row], Walked(w, r), Seen(w)
    PROVE  w.visited = Reached(w.start, r)
<1>1. w.start \in w.visited
  BY Bounds DEF Walked, Seen
<1>2. \A u \in w.visited : r[u].parent \in w.visited \cup {NoStructure}
  BY DEF Walked, Seen, ClosedBut
<1>3. w.visited \in SUBSET Structures
  BY DEF Call
<1>4. Reached(w.start, r) \subseteq w.visited
  BY <1>1, <1>2, <1>3 DEF Reached
<1>5. QED
  BY <1>4 DEF Walked

LEMMA InitWalks == Init => WalksInv
BY RestingCall DEF Init, WalksInv

LEMMA WalksKept == TypeOK /\ WalksInv /\ [Next]_vars => WalksInv'
<1> SUFFICES ASSUME TypeOK, WalksInv, [Next]_vars PROVE WalksInv'
  OBVIOUS
<1>1. ASSUME UNCHANGED <<call, row>> PROVE WalksInv'
  BY <1>1 DEF WalksInv
<1>2. ASSUME NEW c \in Calls, NEW x \in Call, call' = [call EXCEPT ![c] = x],
             row' = row, x.kind = "walk" /\ ~x.moved => Walked(x, row) \/ Nowhere(x)
      PROVE  WalksInv'
  <2>1. \A d \in Calls : call'[d] = IF d = c THEN x ELSE call[d]
    BY <1>2 DEF TypeOK
  <2>2. QED
    BY <1>2, <2>1 DEF WalksInv
<1>3. ASSUME NEW c \in Calls, StartUpload(c) PROVE WalksInv'
  <2>1. PICK s \in Node, q \in BOOLEAN : Begin(c, Upload(s, q))
    BY <1>3 DEF StartUpload
  <2> DEFINE x == Upload(s, q)
  <2>2. x \in Call
    BY <2>1, WalkingCall
  <2>3. Walked(x, row) \/ Nowhere(x)
    BY <2>1, StartWalked DEF TypeOK
  <2>4. call' = [call EXCEPT ![c] = x] /\ row' = row
    BY <1>3, <2>1 DEF Begin, StartUpload
  <2> HIDE DEF x
  <2>5. QED
    BY <1>2, <2>2, <2>3, <2>4
<1>4. ASSUME NEW c \in Calls, Visit(c) PROVE WalksInv'
  <2>1. call[c] \in Call /\ row \in [Structures -> Row]
    BY DEF TypeOK
  <2>2. /\ call[c].at \in Structures /\ call[c].at \notin call[c].visited
        /\ call[c].kind = "walk"
    BY <1>4, <2>1 DEF Visit, Seen, Call, Node
  <2>3. Visited(call[c], row) \in Call
    BY <2>1, <2>2, VisitedCall
  <2>4. Visited(call[c], row).moved = call[c].moved
    BY <2>1 DEF Visited, Call
  <2>5. ~call[c].moved => Walked(Visited(call[c], row), row)
    BY <2>1, <2>2, Bounds, VisitWalked DEF WalksInv, Nowhere
  <2>6. call' = [call EXCEPT ![c] = Visited(call[c], row)] /\ row' = row
    BY <1>4 DEF Visit
  <2>7. QED
    BY <1>2, <2>3, <2>4, <2>5, <2>6
<1>5. ASSUME NEW c \in Calls, Allow(c) PROVE WalksInv'
  <2> DEFINE x == [NoCall EXCEPT !.kind = IF call[c].queued THEN "queued" ELSE "upload",
                                 !.lapsed = call[c].lapsed]
  <2>1. call[c].lapsed \in BOOLEAN
    BY DEF TypeOK, Call
  <2>2. x \in Call /\ x.kind # "walk"
    BY <2>1, RestingCall DEF Call
  <2>3. call' = [call EXCEPT ![c] = x] /\ row' = row
    BY <1>5 DEF Allow
  <2> HIDE DEF x
  <2>4. QED
    BY <1>2, <2>2, <2>3
<1>6. ASSUME NEW c \in Calls, RunJob(c) PROVE WalksInv'
  <2>1. [NoCall EXCEPT !.kind = "run"] \in Call /\ [NoCall EXCEPT !.kind = "run"].kind = "run"
    BY RestingCall DEF Call
  <2>2. PICK x \in {NoCall, [NoCall EXCEPT !.kind = "run"]} : call' = [call EXCEPT ![c] = x]
    BY <1>6 DEF RunJob
  <2>3. row' = row
    BY <1>6 DEF RunJob
  <2>4. QED
    BY <1>2, <2>1, <2>2, <2>3, RestingCall
<1>7. ASSUME NEW c \in Calls, Refuse(c) \/ CreateBatch(c) \/ Abandon(c) PROVE WalksInv'
  BY <1>2, <1>7, RestingCall DEF Refuse, CreateBatch, Abandon, End
<1>8. CASE MoveStructure
  <2>1. \A c \in Calls :
            call'[c].kind = call[c].kind /\ (call[c].kind = "walk" => call'[c].moved)
    BY <1>8 DEF MoveStructure, TypeOK, Call
  <2>2. QED
    BY <2>1 DEF WalksInv
<1>9. CASE EndAuthority
  <2>1. row' = row
    BY <1>9 DEF EndAuthority
  <2>2. ASSUME NEW c \in Calls, call'[c].kind = "walk", ~call'[c].moved
        PROVE  Walked(call'[c], row) \/ Nowhere(call'[c])
    <3>1. call[c] \in Call /\ call'[c] = [call[c] EXCEPT !.lapsed = call[c].kind # "none"]
      BY <1>9 DEF EndAuthority, TypeOK
    <3>2. /\ call'[c].kind = call[c].kind /\ call'[c].moved = call[c].moved
          /\ call'[c].start = call[c].start /\ call'[c].at = call[c].at
          /\ call'[c].visited = call[c].visited /\ call'[c].target = call[c].target
      BY <3>1 DEF Call
    <3>3. Walked(call[c], row) \/ Nowhere(call[c])
      BY <2>2, <3>2 DEF WalksInv
    <3>4. QED
      BY <3>2, <3>3 DEF Walked, Nowhere
  <2>3. QED
    BY <2>1, <2>2 DEF WalksInv
<1>10. CASE GiveAuthority \/ UnsetCurrent
  BY <1>1, <1>10 DEF GiveAuthority, UnsetCurrent
<1>11. ASSUME NEW e \in Editors, ClearCurrent(e) \/ SetCurrent(e) \/ AbandonEdit(e)
       PROVE  WalksInv'
  BY <1>1, <1>11 DEF ClearCurrent, SetCurrent, AbandonEdit
<1>12. CASE UNCHANGED vars
  BY <1>1, <1>12 DEF vars
<1>13. QED
  BY <1>3, <1>4, <1>5, <1>6, <1>7, <1>8, <1>9, <1>10, <1>11, <1>12 DEF Next

\* What a walk that is done has under a key, of an upload that names a structure.
LEMMA WalkFinds ==
    ASSUME TypeOK, WalksInv, NEW c \in Calls, ~call[c].moved, WalkDone(c),
           call[c].start # NoStructure
    PROVE  /\ Walked(call[c], row)
           /\ call[c].visited = Lineage(call[c].start)
<1>1. call[c] \in Call /\ row \in [Structures -> Row]
  BY DEF TypeOK
<1>2. Walked(call[c], row)
  BY DEF WalkDone, WalksInv, Nowhere
<1>3. Lineage(call[c].start) = Reached(call[c].start, row)
  BY DEF Lineage, Reached
<1>4. QED
  BY <1>1, <1>2, <1>3, DoneWalked DEF WalkDone

\* An entry that the target of a walk matches is covered; one that is covered and
\* not matched is shadowed.
LEMMA EntryDecided ==
    ASSUME TypeOK, WalksInv, NEW c \in Calls, ~call[c].moved, WalkDone(c),
           NEW e \in [key : Keys, value : Structures \cup Names]
    PROVE  /\ call[c].target[e.key] = e.value => Covers(e, call[c].start)
           /\ (call[c].target[e.key] # e.value /\ Covers(e, call[c].start))
                  => Shadowed(e, call[c].start)
<1> DEFINE w == call[c]
<1>1. /\ e.key \in TypeKeys \/ e.key = ScopeId
      /\ e.key \in Keys /\ e.value # NoStructure
  BY KeysApart, Bounds
<1>2. CASE w.start = NoStructure
  <2>1. Nowhere(w)
    BY <1>2, Bounds DEF WalksInv, WalkDone, Walked
  <2>2. w.target[e.key] = NoStructure
    BY <1>1, <2>1 DEF Nowhere
  <2>3. Lineage(w.start) = {}
    BY <1>2 DEF Lineage
  <2>4. QED
    BY <1>1, <1>2, <2>2, <2>3 DEF Covers
<1>3. CASE w.start # NoStructure /\ e.key = ScopeId
  <2>1. w.target[e.key] = w.start
    BY <1>3, WalkFinds DEF Walked
  <2>2. QED
    BY <1>3, <2>1 DEF Covers
<1>4. CASE w.start # NoStructure /\ e.key \in TypeKeys
  <2>1. Walked(w, row) /\ w.visited = Lineage(w.start) /\ e.key # ScopeId
    BY <1>4, WalkFinds, KeysApart
  <2>2. ASSUME w.target[e.key] = e.value PROVE Covers(e, w.start)
    <3>1. PICK v \in w.visited : Writes(row, v, e.key, w.target[e.key])
      BY <1>1, <1>4, <2>1, <2>2 DEF Walked
    <3>2. QED
      BY <2>1, <2>2, <3>1 DEF Covers, Named, Writes
  <2>3. ASSUME w.target[e.key] # e.value, Covers(e, w.start)
        PROVE  Shadowed(e, w.start)
    <3>1. PICK t \in w.visited : Named(t, e)
      BY <2>1, <2>3 DEF Covers
    <3>2. PICK u \in w.visited : Writes(row, u, e.key, w.target[e.key])
      BY <1>4, <2>1, <3>1 DEF Walked, Named
    <3>3. QED
      BY <2>1, <2>3, <3>2 DEF Shadowed, Named, Writes
  <2>4. QED
    BY <2>2, <2>3
<1>5. QED
  BY <1>1, <1>2, <1>3, <1>4

\* What a walk that is done decides.
LEMMA WalkDecides ==
    ASSUME TypeOK, WalksInv, NEW c \in Calls, ~call[c].moved
    PROVE  /\ Allow(c) => \/ Bare(call[c])
                         \/ \E scope \in Scopes : scope # {} /\
                                \A e \in scope : Covers(e, call[c].start)
           /\ Refuse(c) => \A scope \in Scopes :
                              (scope # {} /\ \A e \in scope : Covers(e, call[c].start))
                                  => \E e \in scope : Shadowed(e, call[c].start)
<1>1. \A scope \in Scopes : \A e \in scope : e \in [key : Keys, value : Structures \cup Names]
  BY Bounds
<1>2. ASSUME Allow(c), ~Bare(call[c])
      PROVE  \E scope \in Scopes : scope # {} /\ \A e \in scope : Covers(e, call[c].start)
  <2>1. WalkDone(c) /\ ScopeMatches(call[c])
    BY <1>2 DEF Allow
  <2>2. PICK scope \in Scopes :
            scope # {} /\ \A e \in scope : call[c].target[e.key] = e.value
    BY <2>1 DEF ScopeMatches
  <2>3. \A e \in scope : Covers(e, call[c].start)
    BY <1>1, <2>1, <2>2, EntryDecided
  <2>4. QED
    BY <2>2, <2>3
<1>3. ASSUME Refuse(c), NEW scope \in Scopes, scope # {},
             \A e \in scope : Covers(e, call[c].start)
      PROVE  \E e \in scope : Shadowed(e, call[c].start)
  <2>1. WalkDone(c) /\ ~ScopeMatches(call[c])
    BY <1>3 DEF Refuse
  <2>2. PICK e \in scope : call[c].target[e.key] # e.value
    BY <1>3, <2>1 DEF ScopeMatches
  <2>3. QED
    BY <1>1, <1>3, <2>1, <2>2, EntryDecided
<1>4. QED
  BY <1>2, <1>3

\* assertActorAssignedScope lets a user upload to what one of his scopes covers, and
\* to nothing else that is named, whatever the tree, its cycles and the updates
\* before and after the walk; it refuses what a scope covers only where another
\* structure of a type in it is met on the way.
THEOREM ScopeChecked == Spec => ScopeHolds
<1>1. TypeOK /\ WalksInv /\ [Next]_vars =>
          [\A c \in Calls :
              ~call[c].moved =>
                  /\ Allow(c) => \/ Bare(call[c])
                                \/ \E scope \in Scopes : scope # {} /\
                                       \A e \in scope : Covers(e, call[c].start)
                  /\ Refuse(c) => \A scope \in Scopes :
                                     (scope # {} /\ \A e \in scope : Covers(e, call[c].start))
                                         => \E e \in scope : Shadowed(e, call[c].start)]_vars
  BY WalkDecides
<1>2. QED
  BY <1>1, InitTypes, InitWalks, TypesKept, WalksKept, PTL DEF Spec, ScopeHolds

============================================================================

----------------------------- MODULE AcademicSetup -----------------------------
(***************************************************************************)
(* The academic setup of one institution and who may upload results to it: *)
(* its sessions and which one is current, its tree of academic structures, *)
(* and the check of AuthorityService that an uploading user is assigned to *)
(* the structure or to one above it.                                       *)
(*                                                                         *)
(* The check walks up the tree node by node, each a query of its own,      *)
(* while structures are moved, renamed and given other types; no move      *)
(* looks for a cycle.  Results that are queued are checked when they are   *)
(* queued; the worker, which runs them as an administrator, checks the     *)
(* institution's authority anew.                                           *)
(*                                                                         *)
(* An upload need name no structure.  The call that queues it then has     *)
(* nothing to compare and lets it go on; the direct one passes particulars *)
(* of the rows along, none of which an assignment to a structure matches.  *)
(***************************************************************************)
EXTENDS Naturals, FiniteSets

CONSTANTS
    Calls,       \* uploads in flight at once: API requests and worker jobs
    Editors,     \* session updates in flight at once
    Sessions,
    NoSession,   \* the session of no update
    Structures,
    NoStructure, \* the parent of a root, and what an entry is that was not written
    Types,       \* AcademicStructureType
    Names,       \* a structure's name
    FirstRow,    \* FirstRow[s]: the row of s as it was created
    Scopes,      \* the user's assignedScopes, each the set of its entries
    MaxMoves,    \* bounds: updates of structures, overlapping session updates,
    MaxOverlaps, \* changes of the institution's authority
    MaxChanges

Node == Structures \cup {NoStructure}

\* An AcademicStructure.
Row == [parent : Node, type : Types, name : Names]

\* The keys a scope may be compared under: <type>_id and <type>, which a node
\* writes, and structure_scope_id.
ScopeId == <<"structure_scope", "id">>
TypeKeys == Types \X {"id", "name"}
Keys == TypeKeys \cup {ScopeId}

ASSUME AcademicSetupAssumption ==
    /\ NoSession \notin Sessions
    /\ NoStructure \notin Structures \cup Names
    /\ "structure_scope" \notin Types
    /\ FirstRow \in [Structures -> Row]
    /\ Scopes \subseteq SUBSET [key : Keys, value : Structures \cup Names]
    /\ {MaxMoves, MaxOverlaps, MaxChanges} \subseteq Nat

VARIABLES
    current,    \* the sessions whose isCurrent is set
    row,        \* row[s]: the row of structure s
    authorized, \* the institution is ACTIVE and has a grant for ingest_results
    edit,       \* edit[e]: a session update in its transaction
    call,       \* call[c]: an upload
    moves,
    changes,
    overlaps    \* history: session updates over one the call had not seen

authority == <<authorized, changes>>

vars == <<current, row, authority, edit, call, moves, overlaps>>

-----------------------------------------------------------------------------
\* session: the one that is to be current; cleared: those whose flags it has
\* cleared; seen: those whose flags were set.
Edit == [session : Sessions \cup {NoSession}, cleared : SUBSET Sessions, seen : SUBSET Sessions]

NoEdit == [session |-> NoSession, cleared |-> {}, seen |-> {}]

\* queued: by queueResultBatchValidation; start: its structure; at and visited:
\* where the walk is; target: what the last structure of each type it met wrote.
\* History: moved, a structure was updated during the walk; lapsed, the authority
\* ended after it was checked.
Call == [kind : {"none", "walk", "upload", "queued", "run"}, queued : BOOLEAN,
         start : Node, at : Node, visited : SUBSET Structures,
         target : [Keys -> Node \cup Names], moved : BOOLEAN, lapsed : BOOLEAN]

NoCall == [kind |-> "none", queued |-> FALSE,
           start |-> NoStructure, at |-> NoStructure, visited |-> {},
           target |-> [k \in Keys |-> NoStructure], moved |-> FALSE, lapsed |-> FALSE]

TypeOK ==
    /\ current \subseteq Sessions
    /\ row \in [Structures -> Row]
    /\ authorized \in BOOLEAN
    /\ edit \in [Editors -> Edit]
    /\ call \in [Calls -> Call]
    /\ moves \in 0 .. MaxMoves /\ changes \in 0 .. MaxChanges
    /\ overlaps \in 0 .. MaxOverlaps

Init ==
    /\ current = {}
    /\ row = FirstRow
    /\ authorized \in BOOLEAN
    /\ edit = [e \in Editors |-> NoEdit]
    /\ call = [c \in Calls |-> NoCall]
    /\ moves = 0 /\ changes = 0 /\ overlaps = 0

-----------------------------------------------------------------------------
Begin(c, what) ==
    /\ call[c].kind = "none"
    /\ call' = [call EXCEPT ![c] = what]

End(c) == call' = [call EXCEPT ![c] = NoCall]

\* Mutant of Cleared: only an update looks for the other sessions.
ClearedNone(s) == {t \in current : t = s}

\* The updateMany of createAcademicSession and updateAcademicSession, for a
\* session that is to be the current one.
Cleared(s) == current \ {s}

ClearCurrent(e) ==
    /\ edit[e].session = NoSession
    /\ \E s \in Sessions :
           edit' = [edit EXCEPT ![e] = [session |-> s, cleared |-> Cleared(s), seen |-> current]]
    /\ UNCHANGED <<current, row, authority, call, moves, overlaps>>

\* The row of the session is created or updated, and the transaction commits; the
\* sessions it cleared are those that the database showed it.
SetCurrent(e) ==
    /\ edit[e].session # NoSession
    /\ current' = (current \ edit[e].cleared) \cup {edit[e].session}
    /\ edit' = [edit EXCEPT ![e] = NoEdit]
    /\ current = edit[e].seen \/ overlaps < MaxOverlaps
    /\ overlaps' = IF current = edit[e].seen THEN overlaps ELSE overlaps + 1
    /\ UNCHANGED <<row, authority, call, moves>>

\* It is rolled back.
AbandonEdit(e) ==
    /\ edit[e].session # NoSession
    /\ edit' = [edit EXCEPT ![e] = NoEdit]
    /\ UNCHANGED <<current, row, authority, call, moves, overlaps>>

\* updateAcademicSession, with isCurrent false.
UnsetCurrent ==
    /\ \E s \in current : current' = current \ {s}
    /\ UNCHANGED <<row, authority, edit, call, moves, overlaps>>

\* assertParentStructure asks for a structure of the same institution, and
\* updateAcademicStructure refuses the structure itself.
ParentAllowed(s, p) == p # s

\* updateAcademicStructure writes any of the parent, the type and the name.
MoveStructure ==
    /\ moves < MaxMoves
    /\ \E s \in Structures, r \in Row :
           /\ r # row[s] /\ ParentAllowed(s, r.parent)
           /\ row' = [row EXCEPT ![s] = r]
    /\ call' = [c \in Calls |-> [call[c] EXCEPT !.moved = call[c].kind = "walk"]]
    /\ moves' = moves + 1
    /\ UNCHANGED <<current, authority, edit, overlaps>>

\* updateInstitutionStatus to SUSPENDED, or the grant reaches its expiresAt.
EndAuthority ==
    /\ authorized /\ changes < MaxChanges
    /\ authorized' = FALSE
    /\ changes' = changes + 1
    /\ call' = [c \in Calls |-> [call[c] EXCEPT !.lapsed = call[c].kind # "none"]]
    /\ UNCHANGED <<current, row, edit, moves, overlaps>>

\* updateInstitutionStatus to ACTIVE, or createAuthorityGrant.
GiveAuthority ==
    /\ ~authorized /\ changes < MaxChanges
    /\ authorized' = TRUE
    /\ changes' = changes + 1
    /\ UNCHANGED <<current, row, edit, call, moves, overlaps>>

-----------------------------------------------------------------------------
\* The upload c begins: its target has the structure s, if it names one.
Upload(s, queued) ==
    [NoCall EXCEPT !.kind = "walk", !.queued = queued, !.start = s, !.at = s,
                   !.target = [@ EXCEPT ![ScopeId] = s]]

\* ingestResults and queueResultBatchValidation: the authority of the institution,
\* then the scopes of the user, of whom one without any is refused at once.
StartUpload(c) ==
    /\ authorized /\ Scopes # {}
    /\ \E s \in Node, queued \in BOOLEAN : Begin(c, Upload(s, queued))
    /\ UNCHANGED <<current, row, authority, edit, moves, overlaps>>

\* Mutant of Seen: the walk does not remember where it has been.
SeenNothing(w) == w.at = NoStructure

\* The walk has reached a root or a structure it has visited.
Seen(w) == w.at \in w.visited \cup {NoStructure}

\* What structure s of the rows r has under a key of its type.
Value(r, s, k) == IF k[2] = "id" THEN s ELSE r[s].name

\* academicStructureScopeTarget, one node of the tree up: its type's entries are
\* written over those of a node of that type farther down.
Visited(w, r) ==
    [w EXCEPT !.at = r[w.at].parent, !.visited = @ \cup {w.at},
              !.target = [k \in Keys |-> IF k[1] = r[w.at].type THEN Value(r, w.at, k)
                                        ELSE w.target[k]]]

Visit(c) ==
    /\ call[c].kind = "walk" /\ ~Seen(call[c])
    /\ call' = [call EXCEPT ![c] = Visited(call[c], row)]
    /\ UNCHANGED <<current, row, authority, edit, moves, overlaps>>

\* Mutant of ScopeMatches: one entry of a scope is enough.
ScopeMatchesSome(w) ==
    \E scope \in Scopes : \E e \in scope : w.target[e.key] = e.value

\* scopeMatchesTarget, for some scope: all of its entries, if it has any.
ScopeMatches(w) ==
    \E scope \in Scopes : scope # {} /\ \A e \in scope : w.target[e.key] = e.value

\* There is nothing to compare: the target has no key.
Bare(w) == w.queued /\ w.start = NoStructure

WalkDone(c) == call[c].kind = "walk" /\ Seen(call[c])

\* assertActorAssignedScope lets the call go on, or refuses it.
Allow(c) ==
    /\ WalkDone(c) /\ (Bare(call[c]) \/ ScopeMatches(call[c]))
    /\ call' = [call EXCEPT ![c] = [NoCall EXCEPT
                    !.kind = IF call[c].queued THEN "queued" ELSE "upload",
                    !.lapsed = call[c].lapsed]]
    /\ UNCHANGED <<current, row, authority, edit, moves, overlaps>>

Refuse(c) ==
    /\ WalkDone(c) /\ ~Bare(call[c]) /\ ~ScopeMatches(call[c])
    /\ End(c)
    /\ UNCHANGED <<current, row, authority, edit, moves, overlaps>>

\* Mutant of Rechecked: the check of the queued call is relied on.
NotRechecked == authorized \in BOOLEAN

Rechecked == authorized

\* processResultBatchValidation: ingestResults once more, as an administrator,
\* whose scope is not looked at.
RunJob(c) ==
    /\ call[c].kind = "queued"
    /\ call' = [call EXCEPT ![c] = IF Rechecked THEN [NoCall EXCEPT !.kind = "run"]
                                   ELSE NoCall]
    /\ UNCHANGED <<current, row, authority, edit, moves, overlaps>>

\* The transaction of ingestResults.
CreateBatch(c) ==
    /\ call[c].kind \in {"upload", "run"}
    /\ End(c)
    /\ UNCHANGED <<current, row, authority, edit, moves, overlaps>>

\* The process stops, or the transaction is rolled back.
Abandon(c) ==
    /\ call[c].kind \notin {"none", "walk"}
    /\ End(c)
    /\ UNCHANGED <<current, row, authority, edit, moves, overlaps>>

Next ==
    \/ UnsetCurrent \/ MoveStructure \/ EndAuthority \/ GiveAuthority
    \/ \E e \in Editors :
        \/ ClearCurrent(e) \/ SetCurrent(e) \/ AbandonEdit(e)
    \/ \E c \in Calls :
        \/ StartUpload(c) \/ Visit(c) \/ Allow(c) \/ Refuse(c)
        \/ RunJob(c) \/ CreateBatch(c) \/ Abandon(c)

\* The queries of a walk are answered.
Fairness == \A c \in Calls : WF_vars(Visit(c) \/ Allow(c) \/ Refuse(c))

Spec == Init /\ [][Next]_vars /\ Fairness

-----------------------------------------------------------------------------
\* An institution has one current session; a second is owed to a session update
\* that cleared the flags before another one's commit and set its own after.
OneCurrent == Cardinality(current) <= 1 + overlaps

\* s and the structures above it; none for an upload that names no structure.
Lineage(s) ==
    {t \in Structures : s # NoStructure /\ \A above \in SUBSET Structures :
        (s \in above /\ \A u \in above : row[u].parent \in above \cup {NoStructure})
            => t \in above}

\* Structure t is what an entry names: by its uuid or its name, under its type.
Named(t, e) == row[t].type = e.key[1] /\ Value(row, t, e.key) = e.value

\* An entry names the structure s or, under a type, one of those on the way up.
Covers(e, s) ==
    IF e.key = ScopeId THEN e.value = s ELSE \E t \in Lineage(s) : Named(t, e)

\* Another structure of the type, with another value, is on the way.
Shadowed(e, s) ==
    e.key # ScopeId /\ \E t \in Lineage(s) : row[t].type = e.key[1] /\ ~Named(t, e)

\* The structure an upload names is, or is below, what each entry of one of the
\* user's scopes names, cycles or not, unless a structure is updated during the
\* walk; an upload that names none goes on only where it is queued.  He is refused
\* what a scope covers only where another structure of a type in it is on the way,
\* whose entry of academicStructureScopeTarget writes over the one that matches.
ScopeHolds ==
    [][\A c \in Calls :
          ~call[c].moved =>
              /\ Allow(c) => \/ Bare(call[c])
                            \/ \E scope \in Scopes : scope # {} /\
                                   \A e \in scope : Covers(e, call[c].start)
              /\ Refuse(c) => \A scope \in Scopes :
                                 (scope # {} /\ \A e \in scope : Covers(e, call[c].start))
                                     => \E e \in scope : Shadowed(e, call[c].start)]_vars

\* A batch of an institution that is suspended or without authority is owed to an
\* upload that was checked before; a queued one is checked again when it is run.
AuthorityHolds == [][\A c \in Calls : CreateBatch(c) /\ ~authorized => call[c].lapsed]_vars

\* Every walk ends, though the tree may have cycles and change on the way.
WalksEnd == \A c \in Calls : call[c].kind = "walk" ~> call[c].kind # "walk"
=============================================================================

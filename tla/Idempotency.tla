---------------------------- MODULE Idempotency ----------------------------
(***************************************************************************)
(* IdempotencyService for one key of one scope: the IdempotencyRecord row, *)
(* the calls of execute that carry the key, and the retention cleanup.     *)
(*                                                                         *)
(* A call looks for the record, creates it (the unique constraint on scope *)
(* and key decides a race), runs its handler and stores the response.  The *)
(* handler commits its effect in transactions of its own: the call can end *)
(* anywhere between the creation, the effect and the storing.              *)
(***************************************************************************)
EXTENDS Integers

CONSTANTS
    Calls,          \* calls of execute with the key
    Bodies,         \* requests they may carry (what requestHash tells apart)
    MaxCleanups     \* bound: records deleted by the cleanup

ASSUME IdempotencyAssumption == MaxCleanups \in Nat /\ 0 \notin Bodies

VARIABLES
    record,     \* the IdempotencyRecord of the key
    call,       \* call[c]: where call c is, its request and its answer
    effects,    \* history: executions of a handler that took effect
    cleanups    \* records deleted so far

vars == <<record, call, effects, cleanups>>

-----------------------------------------------------------------------------
\* A response names the body it answers and the execution that produced it.
Response == [body : Bodies, run : Nat]

NoBody == 0

NoResponse == [body |-> NoBody, run |-> 0]

Record == [status : {"ABSENT", "IN_PROGRESS", "SUCCEEDED", "FAILED"},
           body : Bodies \cup {NoBody}, response : Response \cup {NoResponse},
           expired : BOOLEAN]

NoRecord == [status |-> "ABSENT", body |-> NoBody, response |-> NoResponse,
             expired |-> FALSE]

\* Owning calls have created the record and not left execute yet.
Owning == {"handle", "store", "abort"}

Call == [pc : {"new", "find", "create", "answered", "refused", "gone"} \cup Owning,
         body : Bodies \cup {NoBody}, answer : Response \cup {NoResponse},
         why : {"none", "mismatch", "conflict", "failed"}]

NewCall == [pc |-> "new", body |-> NoBody, answer |-> NoResponse, why |-> "none"]

TypeOK ==
    /\ record \in Record
    /\ call \in [Calls -> Call]
    /\ \A c \in Calls : call[c].pc # "new" => call[c].body \in Bodies
    /\ effects \in Nat
    /\ cleanups \in 0 .. MaxCleanups

Init ==
    /\ record = NoRecord
    /\ call = [c \in Calls |-> NewCall]
    /\ effects = 0
    /\ cleanups = 0

-----------------------------------------------------------------------------
Goto(c, pc) == call' = [call EXCEPT ![c] = [@ EXCEPT !.pc = pc]]

Answer(c, r) == call' = [call EXCEPT ![c] = [@ EXCEPT !.pc = "answered", !.answer = r]]

Refuse(c, why) == call' = [call EXCEPT ![c] = [@ EXCEPT !.pc = "refused", !.why = why]]

\* A request with the key arrives.
Submit(c, b) ==
    /\ call[c].pc = "new"
    /\ call' = [call EXCEPT ![c] = [NewCall EXCEPT !.pc = "find", !.body = b]]
    /\ UNCHANGED <<record, effects, cleanups>>

Exists == record.status # "ABSENT"

\* The findUnique of execute and its four ways out, in the order of the code;
\* expiresAt plays no part.
Find(c) ==
    /\ call[c].pc = "find"
    /\ \/ ~Exists /\ Goto(c, "create")
       \/ /\ Exists /\ record.body # call[c].body
          /\ Refuse(c, "mismatch")
       \/ /\ Exists /\ record.body = call[c].body
          /\ record.response # NoResponse
          /\ Answer(c, record.response)
       \/ /\ Exists /\ record.body = call[c].body
          /\ record.response = NoResponse
          /\ Refuse(c, IF record.status = "IN_PROGRESS" THEN "conflict" ELSE "failed")
    /\ UNCHANGED <<record, effects, cleanups>>

\* Mutant of CreateRecord: an upsert.
UpsertRecord(c) ==
    /\ call[c].pc = "create"
    /\ record' = [NoRecord EXCEPT !.status = "IN_PROGRESS", !.body = call[c].body]
    /\ Goto(c, "handle")
    /\ UNCHANGED <<effects, cleanups>>

\* createRecord; a record created since the findUnique violates the constraint.
CreateRecord(c) ==
    /\ call[c].pc = "create"
    /\ \/ /\ ~Exists
          /\ record' = [NoRecord EXCEPT !.status = "IN_PROGRESS", !.body = call[c].body]
          /\ Goto(c, "handle")
       \/ /\ Exists
          /\ Refuse(c, "conflict")
          /\ UNCHANGED record
    /\ UNCHANGED <<effects, cleanups>>

\* The handler returns a response, or throws: before its effect is committed, or
\* after it (a later audit write or notification of the same handler fails).
Handle(c) ==
    /\ call[c].pc = "handle"
    /\ \/ /\ effects' = effects + 1
          /\ call' = [call EXCEPT ![c] =
                        [@ EXCEPT !.pc = "store",
                                  !.answer = [body |-> call[c].body, run |-> effects + 1]]]
       \/ /\ effects' \in {effects, effects + 1}
          /\ Goto(c, "abort")
    /\ UNCHANGED <<record, cleanups>>

\* What the update after the handler writes.
Stored(c) == record' = [record EXCEPT !.status = "SUCCEEDED", !.response = call[c].answer]

\* The update and the return of the response; or the update fails, committed or
\* not, and execute goes to its catch.
Store(c) ==
    /\ call[c].pc = "store"
    /\ \/ Stored(c) /\ Goto(c, "answered")
       \/ Stored(c) /\ Goto(c, "abort")
       \/ Goto(c, "abort") /\ UNCHANGED record
    /\ UNCHANGED <<effects, cleanups>>

\* The catch of execute: status and error only, then the error is thrown on; the
\* update can fail as well.
Abort(c) ==
    /\ call[c].pc = "abort"
    /\ \/ record' = [record EXCEPT !.status = "FAILED"]
       \/ UNCHANGED record
    /\ Refuse(c, "failed")
    /\ UNCHANGED <<effects, cleanups>>

\* The API process ends.
Crash(c) ==
    /\ call[c].pc \in {"find", "create"} \cup Owning
    /\ Goto(c, "gone")
    /\ UNCHANGED <<record, effects, cleanups>>

\* Time passes expiresAt and the retention on top of it: two hours at the least,
\* so no call that could still write to the record is running.
Expire ==
    /\ Exists /\ ~record.expired
    /\ \A c \in Calls : call[c].pc \notin Owning
    /\ record' = [record EXCEPT !.expired = TRUE]
    /\ UNCHANGED <<call, effects, cleanups>>

\* cleanupExpiredRecords, whatever the status of the record.
CleanupExpiredRecords ==
    /\ record.expired
    /\ cleanups < MaxCleanups
    /\ cleanups' = cleanups + 1
    /\ record' = NoRecord
    /\ UNCHANGED <<call, effects>>

-----------------------------------------------------------------------------
Execute(c) ==
    \/ Find(c)
    \/ CreateRecord(c)
    \/ Handle(c)
    \/ Store(c)
    \/ Abort(c)

Next ==
    \/ \E c \in Calls :
          \/ \E b \in Bodies : Submit(c, b)
          \/ Execute(c)
          \/ Crash(c)
    \/ Expire
    \/ CleanupExpiredRecords

Spec == Init /\ [][Next]_vars

-----------------------------------------------------------------------------
\* A key takes effect once per life of its record, however many calls carry it,
\* whichever of them fail and wherever a process ends.
AtMostOnce == effects <= 1 + cleanups

\* No caller gets the response to another request than its own: execute compares
\* requestHash before it replays.
OwnResponse ==
    \A c \in Calls : call[c].pc = "answered" => call[c].answer.body = call[c].body
=============================================================================

-------------------------- MODULE ServicesProofs --------------------------
(***************************************************************************)
(* Proofs about three services of the platform that share nothing:         *)
(* Idempotency, Cache and RateLimit, for any number of calls, processes,   *)
(* requests, updates and failures.                                         *)
(*                                                                         *)
(* Of Idempotency first.  AtMostOnce rests on the unique constraint: one   *)
(* call at most is between the creation of the record and its end          *)
(* (Ownership), and the effect it may still have is counted before it has  *)
(* it (Ledger).                                                            *)
(***************************************************************************)
EXTENDS Idempotency, Cache, RateLimit, TLAPS

Owns(c) == call[c].pc \in Owning

\* One call owns the record, which then exists, is for its request, and is not
\* yet due for cleanup.
Ownership ==
    /\ \A c, d \in Calls : Owns(c) /\ Owns(d) => c = d
    /\ \A c \in Calls : Owns(c) => Exists /\ ~record.expired /\ record.body = call[c].body
    /\ record.expired => Exists

\* The effects there have been; none yet in the life of a record that is absent
\* or whose handler is still to run.
Ledger ==
    /\ AtMostOnce
    /\ ~Exists => effects <= cleanups
    /\ \A c \in Calls : call[c].pc = "handle" => effects <= cleanups

\* A response answers the request it is kept with.
Answers ==
    /\ record.response # NoResponse => Exists /\ record.response.body = record.body
    /\ \A c \in Calls : call[c].pc \in {"store", "answered"} =>
          call[c].answer.body = call[c].body

Inv == TypeOK /\ Ownership /\ Ledger /\ Answers

-----------------------------------------------------------------------------
(* The updates of a call. *)

\* A call that has not come and a record that is not there are well typed.
LEMMA NoneTyped == /\ NewCall \in Call /\ NewCall.pc = "new"
                   /\ NoRecord \in Record /\ NoRecord.response = NoResponse
                   /\ NoRecord.status = "ABSENT" /\ ~NoRecord.expired
BY DEF NewCall, Call, NoRecord, Record

\* Goto: only the place of the call changes.
LEMMA Moved ==
    ASSUME NEW x \in Call, NEW pc \in {"create", "answered", "gone"} \cup Owning
    PROVE  LET y == [x EXCEPT !.pc = pc]
           IN  y \in Call /\ y.pc = pc /\ y.body = x.body /\ y.answer = x.answer
BY DEF Call

\* A call that is given a response, by the record or by its own handler.
LEMMA Answered ==
    ASSUME NEW x \in Call, NEW pc \in {"answered", "store"},
           NEW r \in Response \cup {NoResponse}
    PROVE  LET y == [x EXCEPT !.pc = pc, !.answer = r]
           IN  y \in Call /\ y.pc = pc /\ y.body = x.body /\ y.answer = r
BY DEF Call, Owning

\* Refuse: a call that execute throws out.
LEMMA Refused ==
    ASSUME NEW x \in Call, NEW why \in {"mismatch", "conflict", "failed"}
    PROVE  LET y == [x EXCEPT !.pc = "refused", !.why = why]
           IN  y \in Call /\ y.pc = "refused" /\ y.body = x.body
BY DEF Call

\* Submit: a call that arrives with a request.
LEMMA Submitted ==
    ASSUME NEW b \in Bodies
    PROVE  LET y == [NewCall EXCEPT !.pc = "find", !.body = b]
           IN  y \in Call /\ y.pc = "find" /\ y.body = b
BY DEF Call, NewCall

\* A step of one call, seen from all of them.
LEMMA OneCallMoves ==
    ASSUME TypeOK, NEW c \in Calls, NEW y \in Call, y.body \in Bodies,
           call' = [call EXCEPT ![c] = y]
    PROVE  /\ call' \in [Calls -> Call]
           /\ \A d \in Calls : call'[d].pc # "new" => call'[d].body \in Bodies
           /\ \A d \in Calls : call'[d] = IF d = c THEN y ELSE call[d]
<1>1. call' \in [Calls -> Call] /\ \A d \in Calls : call'[d] = IF d = c THEN y ELSE call[d]
  BY DEF TypeOK
<1>2. \A d \in Calls : call'[d].pc # "new" => call'[d].body \in Bodies
  BY <1>1 DEF TypeOK
<1>3. QED
  BY <1>1, <1>2

-----------------------------------------------------------------------------
\* No record, no call: the invariant holds at the start.
LEMMA InitInv == Init => Inv
<1>1. SUFFICES ASSUME Init PROVE Inv
  OBVIOUS
<1>2. /\ record = NoRecord /\ effects = 0 /\ cleanups = 0
      /\ call \in [Calls -> Call]
      /\ \A c \in Calls : call[c].pc = "new"
  BY <1>1, NoneTyped DEF Init
<1>3. TypeOK
  BY <1>2, NoneTyped, IdempotencyAssumption DEF TypeOK
<1>4. Ownership
  BY <1>2, NoneTyped DEF Ownership, Owns, Owning
<1>5. Ledger
  BY <1>2 DEF Ledger, AtMostOnce
<1>6. Answers
  BY <1>2, NoneTyped DEF Answers
<1>7. QED
  BY <1>3, <1>4, <1>5, <1>6 DEF Inv

\* A call that neither takes the record nor lets the effect happen: it moves on,
\* or ends, with an answer to its own request.
LEMMA HarmlessMove ==
    ASSUME Inv, NEW c \in Calls, NEW y \in Call, y.body \in Bodies,
           call' = [call EXCEPT ![c] = y], UNCHANGED <<record, effects, cleanups>>,
           y.pc \in Owning => Owns(c) /\ y.pc # "handle" /\ y.body = call[c].body,
           y.pc \in {"store", "answered"} => y.answer.body = y.body
    PROVE  Inv'
<1>1. \A d \in Calls : call'[d] = IF d = c THEN y ELSE call[d]
  BY OneCallMoves DEF Inv
<1>2. TypeOK'
  BY OneCallMoves DEF Inv, TypeOK
<1>3. Ownership'
  BY <1>1 DEF Inv, Ownership, Owns, Exists
<1>4. Ledger'
  BY <1>1 DEF Inv, Ledger, AtMostOnce, Exists, Owning
<1>5. Answers'
  BY <1>1 DEF Inv, Answers, Exists
<1>6. QED
  BY <1>2, <1>3, <1>4, <1>5 DEF Inv

\* A new call owns nothing.
LEMMA SubmitKeeps ==
    ASSUME Inv, NEW c \in Calls, NEW b \in Bodies, Submit(c, b) PROVE Inv'
<1> DEFINE y == [NewCall EXCEPT !.pc = "find", !.body = b]
<1>1. y \in Call /\ y.pc = "find" /\ y.body = b
  BY Submitted
<1>2. call' = [call EXCEPT ![c] = y] /\ UNCHANGED <<record, effects, cleanups>>
  BY DEF Submit
<1> HIDE DEF y
<1>3. QED
  BY <1>1, <1>2, HarmlessMove DEF Owning

\* Goto and Refuse, where the record is left alone.
LEMMA GotoKeeps ==
    ASSUME Inv, NEW c \in Calls, NEW pc \in {"create", "abort", "gone"},
           call[c].pc # "new", pc = "abort" => Owns(c),
           Goto(c, pc), UNCHANGED <<record, effects, cleanups>>
    PROVE  Inv'
<1> DEFINE y == [call[c] EXCEPT !.pc = pc]
<1>1. call[c] \in Call /\ call[c].body \in Bodies
  BY DEF Inv, TypeOK
<1>2. y \in Call /\ y.pc = pc /\ y.body = call[c].body
  BY <1>1, Moved DEF Owning
<1>3. call' = [call EXCEPT ![c] = y]
  BY DEF Goto
<1> HIDE DEF y
<1>4. QED
  BY <1>1, <1>2, <1>3, HarmlessMove DEF Owning

\* A refused call owns nothing any more.
LEMMA RefuseKeeps ==
    ASSUME Inv, NEW c \in Calls, NEW why \in {"mismatch", "conflict", "failed"},
           call[c].pc # "new",
           Refuse(c, why), UNCHANGED <<record, effects, cleanups>>
    PROVE  Inv'
<1> DEFINE y == [call[c] EXCEPT !.pc = "refused", !.why = why]
<1>1. call[c] \in Call /\ call[c].body \in Bodies
  BY DEF Inv, TypeOK
<1>2. y \in Call /\ y.pc = "refused" /\ y.body = call[c].body
  BY <1>1, Refused
<1>3. call' = [call EXCEPT ![c] = y]
  BY DEF Refuse
<1> HIDE DEF y
<1>4. QED
  BY <1>1, <1>2, <1>3, HarmlessMove DEF Owning

\* The findUnique of execute: a replayed response answers the caller's request.
LEMMA FindKeeps ==
    ASSUME Inv, NEW c \in Calls, Find(c) PROVE Inv'
<1>1. call[c].pc = "find" /\ UNCHANGED <<record, effects, cleanups>>
  BY DEF Find
<1>2. CASE Goto(c, "create")
  BY <1>1, <1>2, GotoKeeps
<1>3. CASE Refuse(c, "mismatch") \/ Refuse(c, "conflict") \/ Refuse(c, "failed")
  BY <1>1, <1>3, RefuseKeeps
<1>4. CASE /\ Exists /\ record.body = call[c].body
           /\ record.response # NoResponse
           /\ Answer(c, record.response)
  <2> DEFINE y == [call[c] EXCEPT !.pc = "answered", !.answer = record.response]
  <2>1. call[c] \in Call /\ call[c].body \in Bodies
        /\ record.response \in Response \cup {NoResponse}
    BY <1>1 DEF Inv, TypeOK, Record
  <2>2. y \in Call /\ y.pc = "answered" /\ y.body = call[c].body /\ y.answer = record.response
    <3> DEFINE res == record.response
    <3>1. res \in Response \cup {NoResponse}
      BY <2>1
    <3> HIDE DEF res
    <3>2. [call[c] EXCEPT !.pc = "answered", !.answer = res] \in Call
          /\ [call[c] EXCEPT !.pc = "answered", !.answer = res].pc = "answered"
          /\ [call[c] EXCEPT !.pc = "answered", !.answer = res].body = call[c].body
          /\ [call[c] EXCEPT !.pc = "answered", !.answer = res].answer = res
      BY <2>1, <3>1, Answered
    <3>3. QED
      BY <3>2 DEF res
  <2>3. call' = [call EXCEPT ![c] = y]
    BY <1>4 DEF Answer
  <2> HIDE DEF y
  <2>4. y.answer.body = y.body
    BY <1>4, <2>2 DEF Inv, Answers
  <2>5. QED
    BY <1>1, <2>1, <2>2, <2>3, <2>4, HarmlessMove DEF Owning
<1>5. QED
  BY <1>2, <1>3, <1>4 DEF Find

\* The insert: it makes the only owner of a record that was not there.
LEMMA CreateKeeps ==
    ASSUME Inv, NEW c \in Calls, CreateRecord(c) PROVE Inv'
<1>1. call[c].pc = "create" /\ UNCHANGED <<effects, cleanups>>
  BY DEF CreateRecord
<1>2. CASE Refuse(c, "conflict") /\ UNCHANGED record
  BY <1>1, <1>2, RefuseKeeps
<1>3. CASE /\ ~Exists
           /\ record' = [NoRecord EXCEPT !.status = "IN_PROGRESS", !.body = call[c].body]
           /\ Goto(c, "handle")
  <2> DEFINE y == [call[c] EXCEPT !.pc = "handle"]
             r == [NoRecord EXCEPT !.status = "IN_PROGRESS", !.body = call[c].body]
  <2>1. call[c] \in Call /\ call[c].body \in Bodies
    BY <1>1 DEF Inv, TypeOK
  <2>2. y \in Call /\ y.pc = "handle" /\ y.body = call[c].body
    BY <2>1, Moved DEF Owning
  <2>3. /\ r \in Record /\ r.status = "IN_PROGRESS" /\ r.body = call[c].body
        /\ r.response = NoResponse /\ ~r.expired
    BY <2>1 DEF NoRecord, Record
  <2>4. call' = [call EXCEPT ![c] = y] /\ record' = r
    BY <1>3 DEF Goto
  <2> HIDE DEF y, r
  <2>5. /\ call' \in [Calls -> Call]
        /\ \A d \in Calls : call'[d].pc # "new" => call'[d].body \in Bodies
        /\ \A d \in Calls : call'[d] = IF d = c THEN y ELSE call[d]
    BY <2>1, <2>2, <2>4, OneCallMoves DEF Inv
  <2>6. \A d \in Calls : ~Owns(d)
    BY <1>3 DEF Inv, Ownership
  <2>7. TypeOK'
    BY <1>1, <2>3, <2>4, <2>5 DEF Inv, TypeOK
  <2>8. Ownership'
    BY <2>2, <2>3, <2>4, <2>5, <2>6 DEF Ownership, Owns, Exists
  <2>9. Ledger'
    <3>1. effects <= cleanups /\ AtMostOnce
      BY <1>3 DEF Inv, Ledger
    <3>2. QED
      BY <1>1, <3>1 DEF Ledger, AtMostOnce
  <2>10. Answers'
    BY <2>2, <2>3, <2>4, <2>5 DEF Inv, Answers
  <2>11. QED
    BY <2>7, <2>8, <2>9, <2>10 DEF Inv
<1>4. QED
  BY <1>2, <1>3 DEF CreateRecord

\* The handler: its owner takes effect the first time in the record's life.
LEMMA HandleKeeps ==
    ASSUME Inv, NEW c \in Calls, Handle(c) PROVE Inv'
<1>1. call[c].pc = "handle" /\ UNCHANGED <<record, cleanups>>
      /\ call[c] \in Call /\ call[c].body \in Bodies /\ effects \in Nat
      /\ cleanups \in 0 .. MaxCleanups
  BY DEF Handle, Inv, TypeOK
<1>2. effects' \in {effects, effects + 1}
  BY DEF Handle
<1>3. PICK y \in Call : /\ call' = [call EXCEPT ![c] = y]
                        /\ y.pc \in {"store", "abort"}
                        /\ y.body = call[c].body
                        /\ y.pc = "store" => y.answer.body = y.body
  <2>1. CASE /\ effects' = effects + 1
             /\ call' = [call EXCEPT ![c] =
                  [@ EXCEPT !.pc = "store",
                            !.answer = [body |-> call[c].body, run |-> effects + 1]]]
    <3> DEFINE r == [body |-> call[c].body, run |-> effects + 1]
               y == [call[c] EXCEPT !.pc = "store", !.answer = r]
    <3>1. effects + 1 \in Nat
      BY <1>1
    <3>2. r \in Response /\ r.body = call[c].body
      BY <1>1, <3>1 DEF Response
    <3>3. call' = [call EXCEPT ![c] = y]
      BY <2>1
    <3> HIDE DEF r
    <3>4. y \in Call /\ y.pc = "store" /\ y.body = call[c].body /\ y.answer = r
      BY <1>1, <3>2, Answered
    <3> HIDE DEF y
    <3>5. QED
      BY <3>2, <3>3, <3>4
  <2>2. CASE Goto(c, "abort")
    <3> DEFINE y == [call[c] EXCEPT !.pc = "abort"]
    <3>1. y \in Call /\ y.pc = "abort" /\ y.body = call[c].body
      BY <1>1, Moved DEF Owning
    <3>2. call' = [call EXCEPT ![c] = y]
      BY <2>2 DEF Goto
    <3> HIDE DEF y
    <3>3. QED
      BY <3>1, <3>2
  <2>3. QED
    BY <2>1, <2>2 DEF Handle
<1>4. /\ call' \in [Calls -> Call]
      /\ \A d \in Calls : call'[d].pc # "new" => call'[d].body \in Bodies
      /\ \A d \in Calls : call'[d] = IF d = c THEN y ELSE call[d]
  BY <1>1, <1>3, OneCallMoves DEF Inv
<1>5. Owns(c) /\ (\A d \in Calls : Owns(d) => d = c) /\ Exists
  BY <1>1 DEF Inv, Ownership, Owns, Owning
<1>6. TypeOK'
  BY <1>1, <1>2, <1>4 DEF Inv, TypeOK
<1>7. Ownership'
  <2>1. \A d \in Calls : Owns(d)' => Owns(d)
    BY <1>4, <1>5 DEF Owns
  <2>2. QED
    BY <1>1, <1>3, <1>4, <1>5, <2>1 DEF Inv, Ownership, Exists
<1>8. Ledger'
  <2>1. effects <= cleanups
    BY <1>1 DEF Inv, Ledger
  <2>2. \A d \in Calls : call'[d].pc # "handle"
    BY <1>3, <1>4, <1>5 DEF Owns, Owning
  <2>3. effects' <= 1 + cleanups'
    BY <1>1, <1>2, <2>1
  <2>4. QED
    BY <1>1, <1>5, <2>2, <2>3 DEF Ledger, AtMostOnce, Exists
<1>9. Answers'
  BY <1>1, <1>3, <1>4 DEF Inv, Answers, Exists
<1>10. QED
  BY <1>6, <1>7, <1>8, <1>9 DEF Inv

\* The updates of the record by its owner, which then moves on or ends.
LEMMA OwnerWrites ==
    ASSUME Inv, NEW c \in Calls, Owns(c), NEW y \in Call, NEW r \in Record,
           call' = [call EXCEPT ![c] = y], record' = r, UNCHANGED <<effects, cleanups>>,
           y.body = call[c].body, y.pc \in {"abort", "answered", "refused"},
           y.pc = "answered" => y.answer.body = y.body,
           r.status # "ABSENT", r.body = record.body, r.expired = record.expired,
           r.response # NoResponse => r.response.body = r.body
    PROVE  Inv'
<1>1. call[c].body \in Bodies /\ Exists
  BY DEF Inv, TypeOK, Owns, Owning, Ownership
<1>2. /\ call' \in [Calls -> Call]
      /\ \A d \in Calls : call'[d].pc # "new" => call'[d].body \in Bodies
      /\ \A d \in Calls : call'[d] = IF d = c THEN y ELSE call[d]
  BY <1>1, OneCallMoves DEF Inv
<1>3. TypeOK'
  BY <1>2 DEF Inv, TypeOK
<1>4. Ownership'
  <2>1. \A d \in Calls : Owns(d)' => Owns(d)
    BY <1>2 DEF Owns
  <2>2. \A d \in Calls : call'[d].body = call[d].body
    BY <1>2
  <2>3. QED
    BY <2>1, <2>2 DEF Inv, Ownership, Exists
<1>5. Ledger'
  BY <1>1, <1>2 DEF Inv, Ledger, AtMostOnce, Exists
<1>6. Answers'
  BY <1>2 DEF Inv, Answers, Exists
<1>7. QED
  BY <1>3, <1>4, <1>5, <1>6 DEF Inv

\* The update after the handler stores what the owner was given.
LEMMA StoreKeeps ==
    ASSUME Inv, NEW c \in Calls, Store(c) PROVE Inv'
<1>1. call[c].pc = "store" /\ UNCHANGED <<effects, cleanups>> /\ Owns(c)
      /\ call[c] \in Call /\ call[c].body \in Bodies
      /\ record \in Record
  BY DEF Store, Inv, TypeOK, Owns, Owning
<1>2. CASE Goto(c, "abort") /\ UNCHANGED record
  BY <1>1, <1>2, GotoKeeps
<1>3. ASSUME NEW pc \in {"answered", "abort"}, Stored(c), Goto(c, pc)
      PROVE  Inv'
  <2> DEFINE y == [call[c] EXCEPT !.pc = pc]
             r == [record EXCEPT !.status = "SUCCEEDED", !.response = call[c].answer]
  <2>1. y \in Call /\ y.pc = pc /\ y.body = call[c].body /\ y.answer = call[c].answer
    BY <1>1, Moved DEF Owning
  <2>2. call[c].answer \in Response \cup {NoResponse} /\ call[c].answer.body = call[c].body
    BY <1>1 DEF Call, Inv, Answers
  <2>3. /\ r \in Record /\ r.status = "SUCCEEDED" /\ r.body = record.body
        /\ r.response = call[c].answer /\ r.expired = record.expired
    BY <1>1, <2>2 DEF Record
  <2>4. record.body = call[c].body
    BY <1>1 DEF Inv, Ownership
  <2>5. call' = [call EXCEPT ![c] = y] /\ record' = r
    BY <1>3 DEF Goto, Stored
  <2> HIDE DEF y, r
  <2>6. QED
    BY <1>1, <2>1, <2>2, <2>3, <2>4, <2>5, OwnerWrites
<1>4. QED
  BY <1>2, <1>3 DEF Store

\* The catch of execute: the record loses its owner and keeps its response.
LEMMA AbortKeeps ==
    ASSUME Inv, NEW c \in Calls, Abort(c) PROVE Inv'
<1>1. call[c].pc = "abort" /\ UNCHANGED <<effects, cleanups>> /\ Owns(c)
      /\ call[c] \in Call /\ record \in Record /\ Refuse(c, "failed")
  BY DEF Abort, Inv, TypeOK, Owns, Owning
<1>2. CASE UNCHANGED record
  BY <1>1, <1>2, RefuseKeeps
<1>3. CASE record' = [record EXCEPT !.status = "FAILED"]
  <2> DEFINE y == [call[c] EXCEPT !.pc = "refused", !.why = "failed"]
             r == [record EXCEPT !.status = "FAILED"]
  <2>1. y \in Call /\ y.pc = "refused" /\ y.body = call[c].body
    BY <1>1, Refused
  <2>2. /\ r \in Record /\ r.status = "FAILED" /\ r.body = record.body
        /\ r.response = record.response /\ r.expired = record.expired
    BY <1>1 DEF Record
  <2>3. r.response # NoResponse => r.response.body = r.body
    BY <2>2 DEF Inv, Answers
  <2>4. call' = [call EXCEPT ![c] = y] /\ record' = r
    BY <1>1, <1>3 DEF Refuse
  <2> HIDE DEF y, r
  <2>5. QED
    BY <1>1, <2>1, <2>2, <2>3, <2>4, OwnerWrites
<1>4. QED
  BY <1>2, <1>3 DEF Abort

\* A record expires only when no call owns it.
LEMMA ExpireKeeps == ASSUME Inv, Expire PROVE Inv'
<1> DEFINE r == [record EXCEPT !.expired = TRUE]
<1>1. /\ r \in Record /\ r.status = record.status /\ r.body = record.body
      /\ r.response = record.response
  BY DEF Inv, TypeOK, Record
<1>2. record' = r /\ UNCHANGED <<call, effects, cleanups>>
      /\ Exists /\ \A c \in Calls : ~Owns(c)
  BY DEF Expire, Owns
<1> HIDE DEF r
<1>3. TypeOK'
  BY <1>1, <1>2 DEF Inv, TypeOK
<1>4. Ownership'
  BY <1>1, <1>2 DEF Ownership, Owns, Exists
<1>5. Ledger'
  BY <1>1, <1>2 DEF Inv, Ledger, AtMostOnce, Exists
<1>6. Answers'
  BY <1>1, <1>2 DEF Inv, Answers, Exists
<1>7. QED
  BY <1>3, <1>4, <1>5, <1>6 DEF Inv

\* The record goes with its claim to the one effect it stands for.
LEMMA CleanupKeeps == ASSUME Inv, CleanupExpiredRecords PROVE Inv'
<1>1. /\ record' = NoRecord /\ UNCHANGED <<call, effects>>
      /\ record.expired /\ cleanups < MaxCleanups /\ cleanups' = cleanups + 1
      /\ cleanups \in 0 .. MaxCleanups /\ effects \in Nat
  BY DEF CleanupExpiredRecords, Inv, TypeOK
<1>2. \A c \in Calls : ~Owns(c)
  BY <1>1 DEF Inv, Ownership
<1>3. cleanups' \in 0 .. MaxCleanups
  BY <1>1, IdempotencyAssumption
<1>4. TypeOK'
  BY <1>1, <1>3, NoneTyped DEF Inv, TypeOK
<1>5. Ownership'
  BY <1>1, <1>2, NoneTyped DEF Ownership, Owns
<1>6. Ledger'
  <2>1. effects <= 1 + cleanups
    BY DEF Inv, Ledger, AtMostOnce
  <2>2. effects' <= cleanups' /\ effects' <= 1 + cleanups'
    BY <1>1, <2>1
  <2>3. QED
    BY <2>2 DEF Ledger, AtMostOnce
<1>7. Answers'
  BY <1>1, NoneTyped DEF Inv, Answers
<1>8. QED
  BY <1>4, <1>5, <1>6, <1>7 DEF Inv

\* A call that ends owns nothing any more.
LEMMA CrashKeeps ==
    ASSUME Inv, NEW c \in Calls, Crash(c) PROVE Inv'
BY GotoKeeps DEF Crash, Owning

\* Every step keeps the invariant.
LEMMA NextInv == Inv /\ [Next]_vars => Inv'
<1>1. ASSUME Inv, Next PROVE Inv'
  BY <1>1, SubmitKeeps, FindKeeps, CreateKeeps, HandleKeeps, StoreKeeps, AbortKeeps,
     CrashKeeps, ExpireKeeps, CleanupKeeps DEF Next, Execute
<1>2. ASSUME Inv, UNCHANGED vars PROVE Inv'
  <2>1. TypeOK' /\ Answers'
    BY <1>2 DEF Inv, TypeOK, Answers, Exists, vars
  <2>2. Ownership' /\ Ledger'
    BY <1>2 DEF Inv, Ownership, Owns, Ledger, AtMostOnce, Exists, vars
  <2>3. QED
    BY <2>1, <2>2 DEF Inv
<1>3. QED
  BY <1>1, <1>2

-----------------------------------------------------------------------------
\* The invariant holds of every reachable state.
LEMMA Invariance == Spec => []Inv
BY InitInv, NextInv, PTL DEF Spec

\* Every reachable state is well typed.
THEOREM TypeCorrect == Spec => []TypeOK
<1>1. Inv => TypeOK
  BY DEF Inv
<1>2. QED
  BY <1>1, Invariance, PTL

\* However many calls carry a key, and wherever handlers, updates and processes
\* fail, the key takes effect once per life of its record.
THEOREM KeyTakesEffectOnce == Spec => []AtMostOnce
<1>1. Inv => AtMostOnce
  BY DEF Inv, Ledger
<1>2. QED
  BY <1>1, Invariance, PTL

\* A replayed response is the response to the request it is replayed for.
THEOREM ReplaysMatch == Spec => []OwnResponse
<1>1. Inv => OwnResponse
  BY DEF Inv, Answers, OwnResponse
<1>2. QED
  BY <1>1, Invariance, PTL

-----------------------------------------------------------------------------
(* Cache.  Once the process of the last update has run invalidateTag, and   *)
(* nothing overlapped it or failed, no older value is on its way (FlightInv),*)
(* that process has none (LocalInv), and if Redis still has one, the         *)
(* invalidation will get to it (RemoteInv).  It finds the key in the tag's   *)
(* set, as what is stored is in it or about to be (TagInv).                  *)

Settled == ~excused /\ ~writing[writer]

TagInv ==
    ~excused /\ remote # Nothing =>
        tagged \/ \E p \in Servers : push[p].at = "add" /\ push[p].value = remote

FlightInv == Settled => \A p \in Servers : Fresh(fetch[p].value) /\ Fresh(push[p].value)

LocalInv == Settled => Fresh(local[writer])

RemoteInv == Settled /\ ~Fresh(remote) => drop[writer] \in {"members", "delete"}

CacheInv == CacheTypeOK /\ TagInv /\ FlightInv /\ LocalInv /\ RemoteInv

LEMMA CacheEntries ==
    /\ MaxUpsets \in Nat /\ Nothing \in Entry /\ Nothing \notin Nat
    /\ \A v \in Versions : v \in Entry
    /\ NoFetch \in Fetch /\ NoFetch.value = Nothing
    /\ NoPush \in Push /\ NoPush.value = Nothing /\ NoPush.at = "none"
BY CacheAssumption DEF Nothing, Entry, Versions, NoFetch, Fetch, NoPush, Push

\* What the invariant says where an update is over, down to its last command.
LEMMA CacheSettled == CacheInv => InvalidationHolds
<1> SUFFICES ASSUME CacheInv, ~Updating, ~excused
             PROVE  Fresh(remote) /\ Fresh(local[writer])
  BY DEF InvalidationHolds
<1>1. writer \in Servers /\ ~writing[writer] /\ drop[writer] = "none"
  BY DEF CacheInv, CacheTypeOK, Updating
<1> QED BY <1>1 DEF CacheInv, Settled, LocalInv, RemoteInv

LEMMA CacheBegins == CacheInit => CacheInv
<1> SUFFICES ASSUME CacheInit PROVE CacheInv
  OBVIOUS
<1>1. writer \in Servers
  BY CacheAssumption DEF CacheInit
<1>2. CacheTypeOK
  <2>1. row \in Versions /\ faults \in 0 .. MaxUpsets
    BY CacheAssumption DEF CacheInit, Versions
  <2>2. /\ local \in [Servers -> Entry] /\ remote \in Entry
        /\ fetch \in [Servers -> Fetch] /\ push \in [Servers -> Push]
    BY CacheEntries DEF CacheInit
  <2>3. /\ drop \in [Servers -> Drop] /\ writing \in [Servers -> BOOLEAN]
        /\ tagged \in BOOLEAN /\ excused \in BOOLEAN
    BY DEF CacheInit, Drop
  <2> QED BY <1>1, <2>1, <2>2, <2>3 DEF CacheTypeOK
<1> QED BY <1>1, <1>2, CacheEntries
       DEF CacheInit, CacheInv, TagInv, FlightInv, LocalInv, RemoteInv, Fresh

\* A fault excuses everything.
LEMMA Excused == excused' => TagInv' /\ FlightInv' /\ LocalInv' /\ RemoteInv'
BY DEF TagInv, FlightInv, LocalInv, RemoteInv, Settled

\* Each step keeps the types.
LEMMA CacheTypes == ASSUME CacheTypeOK, [CacheNext]_cacheVars PROVE CacheTypeOK'
<1> USE CacheEntries, CacheAssumption DEF CacheTypeOK
<1>1. CASE UNCHANGED cacheVars
  BY <1>1 DEF cacheVars
<1>2. CASE ExpireRemote \/ ExpireTag
  BY <1>2 DEF ExpireRemote, ExpireTag
<1>3. ASSUME Fails PROVE faults' \in 0 .. MaxUpsets /\ excused' \in BOOLEAN
  BY <1>3 DEF Fails, Versions
<1>4. ASSUME NEW p \in Servers, Read(p) PROVE CacheTypeOK'
  <2>1. CASE RemoteHit(p)
    BY <2>1 DEF RemoteHit, Fetch, Updating
  <2>2. CASE RemoteMiss(p)
    <3>1. fetch' = [fetch EXCEPT ![p] = [fetch[p] EXCEPT !.at = "load"]]
      BY <2>2 DEF RemoteMiss
    <3>2. [fetch[p] EXCEPT !.at = "load"] \in Fetch
      BY DEF Fetch
    <3>3. fetch' \in [Servers -> Fetch]
      BY <3>1, <3>2
    <3>4. faults' \in 0 .. MaxUpsets /\ excused' \in BOOLEAN
      BY <1>3, <2>2 DEF RemoteMiss
    <3> QED BY <2>2, <3>3, <3>4 DEF RemoteMiss
  <2>3. CASE Fill(p)
    BY <2>3 DEF Fill, Fetch
  <2>4. CASE LoadRow(p)
    BY <2>4 DEF LoadRow, Fetch
  <2>5. CASE Keep(p)
    BY <2>5 DEF Keep, Fetch, Push
  <2> QED BY <1>4, <2>1, <2>2, <2>3, <2>4, <2>5 DEF Read
<1>5. ASSUME NEW p \in Servers, Send(p) PROVE CacheTypeOK'
  <2>1. CASE PushEntry(p)
    BY <2>1 DEF PushEntry, Push
  <2>2. CASE PushTag(p)
    BY <2>2 DEF PushTag, Tagged
  <2>3. CASE PushFails(p)
    BY <1>3, <2>3 DEF PushFails
  <2>4. CASE DropMembers(p)
    BY <2>4 DEF DropMembers, Drop
  <2>5. CASE DropEntry(p)
    BY <2>5 DEF DropEntry, Drop
  <2>6. CASE DropTag(p)
    BY <2>6 DEF DropTag, Drop
  <2>7. CASE DropFails(p)
    BY <1>3, <2>7 DEF DropFails, Drop
  <2> QED BY <1>5, <2>1, <2>2, <2>3, <2>4, <2>5, <2>6, <2>7 DEF Send
<1>6. ASSUME NEW p \in Servers, Update(p) \/ ExpireLocal(p) PROVE CacheTypeOK'
  <2>1. CASE WriteRow(p)
    BY <2>1 DEF WriteRow, Versions
  <2>2. CASE InvalidateTag(p)
    BY <2>2 DEF InvalidateTag, Drop
  <2>3. CASE AuditFails(p)
    BY <1>3, <2>3 DEF AuditFails
  <2>4. CASE ExpireLocal(p)
    BY <2>4 DEF ExpireLocal
  <2> QED BY <1>6, <2>1, <2>2, <2>3, <2>4 DEF Update
<1> QED BY <1>1, <1>2, <1>4, <1>5, <1>6 DEF CacheNext

\* What a read brings into the process is the row's, once the update is over.
LEMMA ReadKeeps ==
    ASSUME CacheInv, CacheTypeOK', NEW p \in Servers, Read(p)
    PROVE  CacheInv'
<1>1. CacheTypeOK /\ writer \in Servers
  BY DEF CacheInv, CacheTypeOK
<1> SUFFICES ASSUME ~excused' PROVE TagInv' /\ FlightInv' /\ LocalInv' /\ RemoteInv'
  BY Excused DEF CacheInv
<1>2. UNCHANGED <<row, remote, tagged, drop, writing, writer>> /\ ~excused
  <2>1. UNCHANGED <<row, remote, tagged, drop, writing, writer>>
    BY DEF Read, RemoteHit, RemoteMiss, Fill, LoadRow, Keep
  <2>2. CASE RemoteHit(p)
    BY <2>1, <2>2, Zenon DEF RemoteHit
  <2>3. CASE RemoteMiss(p)
    BY <2>1, <2>3 DEF RemoteMiss, Fails
  <2>4. CASE Fill(p) \/ LoadRow(p) \/ Keep(p)
    BY <2>1, <2>4 DEF Fill, LoadRow, Keep
  <2> QED BY <2>1, <2>2, <2>3, <2>4 DEF Read
<1>3. RemoteInv'
  BY <1>2 DEF CacheInv, RemoteInv, Settled, Fresh
<1>4. \A q \in Servers : push[q].at = "add" => push'[q] = push[q]
  <2>1. CASE Keep(p)
    BY <1>1, <2>1 DEF Keep, CacheTypeOK
  <2>2. CASE UNCHANGED push
    BY <2>2
  <2> QED BY <2>1, <2>2 DEF Read, RemoteHit, RemoteMiss, Fill, LoadRow
<1>5. TagInv'
  BY <1>2, <1>4 DEF CacheInv, TagInv
<1>6. ASSUME Settled' PROVE /\ \A q \in Servers : Fresh(fetch[q].value) /\ Fresh(push[q].value)
                            /\ Fresh(local[writer])
  BY <1>2, <1>6 DEF CacheInv, Settled, FlightInv, LocalInv
<1>7. CASE RemoteHit(p)
  <2>1. /\ fetch' = [fetch EXCEPT ![p] = [at |-> "fill", value |-> remote]]
        /\ excused' = (excused \/ (Updating /\ remote # row))
        /\ UNCHANGED <<local, push>>
    BY <1>7 DEF RemoteHit
  <2>2. ASSUME Settled' PROVE Fresh(remote)
    <3>1. CASE Updating
      BY <2>1, <3>1 DEF Fresh
    <3>2. CASE ~Updating
      BY <1>2, <3>2, CacheSettled DEF InvalidationHolds
    <3> QED BY <3>1, <3>2
  <2>3. \A q \in Servers : fetch'[q].value = remote \/ fetch'[q].value = fetch[q].value
    BY <1>1, <2>1 DEF CacheTypeOK
  <2>4. FlightInv'
    BY <1>2, <1>6, <2>1, <2>2, <2>3 DEF FlightInv, Fresh
  <2>5. LocalInv'
    BY <1>2, <1>6, <2>1 DEF LocalInv, Fresh
  <2> QED BY <1>3, <1>5, <2>4, <2>5
<1>8. CASE RemoteMiss(p)
  <2>1. fetch' = [fetch EXCEPT ![p].at = "load"] /\ UNCHANGED <<local, push>>
    BY <1>8 DEF RemoteMiss
  <2>2. \A q \in Servers : fetch'[q].value = fetch[q].value
    BY <1>1, <2>1 DEF CacheTypeOK, Fetch
  <2>3. FlightInv' /\ LocalInv'
    BY <1>2, <1>6, <2>1, <2>2 DEF FlightInv, LocalInv, Fresh
  <2> QED BY <1>3, <1>5, <2>3
<1>9. CASE Fill(p)
  <2>1. /\ local' = [local EXCEPT ![p] = fetch[p].value]
        /\ fetch' = [fetch EXCEPT ![p] = NoFetch]
        /\ UNCHANGED push
    BY <1>9 DEF Fill
  <2>2. \A q \in Servers : fetch'[q].value = Nothing \/ fetch'[q].value = fetch[q].value
    BY <1>1, <2>1, CacheEntries DEF CacheTypeOK
  <2>3. local'[writer] \in {local[writer], fetch[writer].value}
    BY <1>1, <2>1 DEF CacheTypeOK
  <2>4. FlightInv'
    BY <1>2, <1>6, <2>1, <2>2 DEF FlightInv, Fresh
  <2>5. LocalInv'
    BY <1>1, <1>2, <1>6, <2>3 DEF LocalInv, Fresh
  <2> QED BY <1>3, <1>5, <2>4, <2>5
<1>10. CASE LoadRow(p)
  <2>1. /\ fetch' = [fetch EXCEPT ![p] = [at |-> "keep", value |-> row]]
        /\ UNCHANGED <<local, push>>
    BY <1>10 DEF LoadRow
  <2>2. \A q \in Servers : fetch'[q].value = row \/ fetch'[q].value = fetch[q].value
    BY <1>1, <2>1 DEF CacheTypeOK
  <2>3. FlightInv' /\ LocalInv'
    BY <1>2, <1>6, <2>1, <2>2 DEF FlightInv, LocalInv, Fresh
  <2> QED BY <1>3, <1>5, <2>3
<1>11. CASE Keep(p)
  <2>1. /\ local' = [local EXCEPT ![p] = fetch[p].value]
        /\ push' = [push EXCEPT ![p] = [at |-> "set", value |-> fetch[p].value]]
        /\ fetch' = [fetch EXCEPT ![p] = NoFetch]
    BY <1>11 DEF Keep
  <2>2. \A q \in Servers :
            /\ fetch'[q].value = Nothing \/ fetch'[q].value = fetch[q].value
            /\ push'[q].value = fetch[q].value \/ push'[q].value = push[q].value
    BY <1>1, <2>1, CacheEntries DEF CacheTypeOK
  <2>3. local'[writer] \in {local[writer], fetch[writer].value}
    BY <1>1, <2>1 DEF CacheTypeOK
  <2>4. FlightInv'
    BY <1>2, <1>6, <2>1, <2>2 DEF FlightInv, Fresh
  <2>5. LocalInv'
    BY <1>1, <1>2, <1>6, <2>3 DEF LocalInv, Fresh
  <2> QED BY <1>3, <1>5, <2>4, <2>5
<1> QED BY <1>7, <1>8, <1>9, <1>10, <1>11 DEF Read

\* What is sent to Redis.
LEMMA SendKeeps ==
    ASSUME CacheInv, CacheTypeOK', NEW p \in Servers, Send(p)
    PROVE  CacheInv'
<1>1. CacheTypeOK /\ writer \in Servers
  BY DEF CacheInv, CacheTypeOK
<1> SUFFICES ASSUME ~excused' PROVE TagInv' /\ FlightInv' /\ LocalInv' /\ RemoteInv'
  BY Excused DEF CacheInv
<1>2. UNCHANGED <<row, local, fetch, writing, writer>> /\ ~excused /\ (Settled' => Settled)
  <2>1. UNCHANGED <<row, local, fetch, writing, writer>>
    BY DEF Send, PushEntry, PushTag, PushFails, DropMembers, DropEntry, DropTag, DropFails
  <2>2. ASSUME DropTag(p) PROVE ~excused
    BY <2>2, Zenon DEF DropTag
  <2>3. ASSUME PushFails(p) \/ DropFails(p) PROVE ~excused
    BY <2>3, Zenon DEF PushFails, DropFails, Fails
  <2>4. ASSUME PushEntry(p) \/ PushTag(p) \/ DropMembers(p) \/ DropEntry(p)
        PROVE  ~excused
    BY <2>4 DEF PushEntry, PushTag, DropMembers, DropEntry
  <2> QED BY <2>1, <2>2, <2>3, <2>4 DEF Send, Settled
<1>3. LocalInv'
  BY <1>2 DEF CacheInv, LocalInv, Fresh
<1>4. ASSUME Settled'
      PROVE  /\ \A q \in Servers : Fresh(fetch[q].value) /\ Fresh(push[q].value)
             /\ ~Fresh(remote) => drop[writer] \in {"members", "delete"}
  BY <1>2, <1>4 DEF CacheInv, FlightInv, RemoteInv
<1>5. ASSUME \A q \in Servers : push'[q].value \in {push[q].value, Nothing} PROVE FlightInv'
  BY <1>2, <1>4, <1>5 DEF FlightInv, Fresh
<1>6. ~PushFails(p) /\ ~DropFails(p)
  BY DEF PushFails, DropFails, Fails
<1>7. CASE PushEntry(p)
  <2>1. /\ push[p].at = "set" /\ remote' = push[p].value
        /\ push' = [push EXCEPT ![p].at = "add"]
        /\ UNCHANGED <<tagged, drop>>
    BY <1>7 DEF PushEntry
  <2>2. /\ \A q \in Servers : push'[q].value = push[q].value
        /\ push'[p].at = "add"
    BY <1>1, <2>1 DEF CacheTypeOK, Push
  <2>3. TagInv'
    BY <2>1, <2>2 DEF TagInv
  <2>4. RemoteInv'
    BY <1>2, <1>4, <2>1 DEF RemoteInv, Fresh
  <2> QED BY <1>3, <1>5, <2>2, <2>3, <2>4
<1>8. CASE PushTag(p)
  <2>1. /\ tagged' = TRUE /\ push' = [push EXCEPT ![p] = NoPush]
        /\ UNCHANGED <<remote, drop>>
    BY <1>8 DEF PushTag, Tagged
  <2>2. \A q \in Servers : push'[q].value \in {push[q].value, Nothing}
    BY <1>1, <2>1, CacheEntries DEF CacheTypeOK
  <2>3. TagInv' /\ RemoteInv'
    BY <1>2, <1>4, <2>1 DEF TagInv, RemoteInv, Fresh
  <2> QED BY <1>3, <1>5, <2>2, <2>3
<1>9. CASE DropMembers(p)
  <2>1. /\ drop[p] = "members"
        /\ drop' = [drop EXCEPT ![p] = IF tagged THEN "delete" ELSE "untag"]
        /\ UNCHANGED <<remote, tagged, push>>
    BY <1>9 DEF DropMembers
  <2>2. TagInv' /\ FlightInv'
    BY <1>2, <1>5, <2>1 DEF CacheInv, TagInv
  <2>3. ASSUME Settled', ~Fresh(remote) PROVE drop'[writer] \in {"members", "delete"}
    <3>1. remote # Nothing /\ ~ \E q \in Servers : push[q].at = "add" /\ push[q].value = remote
      BY <1>4, <2>3 DEF Fresh
    <3>2. tagged
      BY <1>2, <3>1 DEF CacheInv, TagInv
    <3> QED BY <1>1, <1>4, <2>1, <2>3, <3>2 DEF CacheTypeOK
  <2>4. RemoteInv'
    BY <1>2, <2>1, <2>3 DEF RemoteInv, Fresh
  <2> QED BY <1>3, <2>2, <2>4
<1>10. CASE DropEntry(p)
  <2>1. remote' = Nothing /\ UNCHANGED <<tagged, push>>
    BY <1>10 DEF DropEntry
  <2> QED BY <1>3, <1>5, <2>1 DEF TagInv, RemoteInv, Fresh
<1>11. CASE DropTag(p)
  <2>1. /\ drop[p] = "untag" /\ tagged' = FALSE
        /\ drop' = [drop EXCEPT ![p] = "none"]
        /\ excused' = (excused \/ (tagged /\ remote # Nothing))
        /\ UNCHANGED <<remote, push>>
    BY <1>11 DEF DropTag
  <2>2. TagInv'
    BY <1>2, <2>1 DEF CacheInv, TagInv
  <2>3. RemoteInv'
    BY <1>1, <1>2, <1>4, <2>1 DEF RemoteInv, Fresh, CacheTypeOK
  <2> QED BY <1>3, <1>5, <2>1, <2>2, <2>3
<1> QED BY <1>6, <1>7, <1>8, <1>9, <1>10, <1>11 DEF Send

\* An update begins, and the invalidation after it finds nothing older on its way.
LEMMA UpdateKeeps ==
    ASSUME CacheInv, CacheTypeOK', NEW p \in Servers, Update(p) \/ ExpireLocal(p)
    PROVE  CacheInv'
<1>1. CacheTypeOK /\ writer \in Servers
  BY DEF CacheInv, CacheTypeOK
<1> SUFFICES ASSUME ~excused' PROVE TagInv' /\ FlightInv' /\ LocalInv' /\ RemoteInv'
  BY Excused DEF CacheInv
<1>2. ~AuditFails(p)
  BY DEF AuditFails, Fails
<1>3. CASE WriteRow(p)
  <2>1. writing'[writer'] = TRUE
    BY <1>1, <1>3 DEF WriteRow, CacheTypeOK
  <2>2. TagInv'
    BY <1>3 DEF WriteRow, CacheInv, TagInv
  <2> QED BY <2>1, <2>2 DEF FlightInv, LocalInv, RemoteInv, Settled
<1>4. CASE InvalidateTag(p)
  <2>1. /\ writing[p] /\ local' = [local EXCEPT ![p] = Nothing]
        /\ drop' = [drop EXCEPT ![p] = "members"]
        /\ writing' = [writing EXCEPT ![p] = FALSE]
        /\ excused' = (excused \/ \E q \in Servers : InFlight(q))
        /\ UNCHANGED <<row, remote, tagged, fetch, push, writer>>
    BY <1>4 DEF InvalidateTag
  <2>2. TagInv'
    BY <2>1 DEF CacheInv, TagInv
  <2>3. FlightInv'
    BY <2>1 DEF FlightInv, InFlight, Fresh
  <2>4. CASE p = writer
    <3>1. local'[writer] = Nothing /\ drop'[writer] = "members"
      BY <1>1, <2>1, <2>4 DEF CacheTypeOK
    <3> QED BY <2>1, <2>2, <2>3, <3>1 DEF LocalInv, RemoteInv, Fresh
  <2>5. CASE p # writer
    <3>1. /\ local'[writer] = local[writer] /\ drop'[writer] = drop[writer]
          /\ writing'[writer] = writing[writer]
      BY <1>1, <2>1, <2>5 DEF CacheTypeOK
    <3>2. LocalInv' /\ RemoteInv'
      BY <2>1, <3>1 DEF CacheInv, LocalInv, RemoteInv, Settled, Fresh
    <3> QED BY <2>2, <2>3, <3>2
  <2> QED BY <2>4, <2>5
<1>5. CASE ExpireLocal(p)
  <2>1. /\ local' = [local EXCEPT ![p] = Nothing] /\ remote' \in {remote, Nothing}
        /\ UNCHANGED <<row, tagged, fetch, push, drop, writing, writer, excused>>
    BY <1>5 DEF ExpireLocal
  <2>2. local'[writer] \in {local[writer], Nothing}
    BY <1>1, <2>1 DEF CacheTypeOK
  <2>3. TagInv' /\ FlightInv'
    BY <2>1 DEF CacheInv, TagInv, FlightInv, Settled, Fresh
  <2>4. LocalInv' /\ RemoteInv'
    BY <2>1, <2>2 DEF CacheInv, LocalInv, RemoteInv, Settled, Fresh
  <2> QED BY <2>3, <2>4
<1> QED BY <1>2, <1>3, <1>4, <1>5 DEF Update

LEMMA CacheStep == ASSUME CacheInv, [CacheNext]_cacheVars PROVE CacheInv'
<1>1. CacheTypeOK'
  BY CacheTypes DEF CacheInv
<1>2. CASE UNCHANGED cacheVars
  BY <1>1, <1>2
     DEF cacheVars, CacheInv, TagInv, FlightInv, LocalInv, RemoteInv, Settled, Fresh
<1>3. CASE ExpireRemote \/ ExpireTag
  BY <1>1, <1>3
     DEF ExpireRemote, ExpireTag, CacheInv, TagInv, FlightInv, LocalInv, RemoteInv, Settled, Fresh
<1> QED BY <1>1, <1>2, <1>3, ReadKeeps, SendKeeps, UpdateKeeps DEF CacheNext

\* After the last command of an invalidation, neither Redis nor the process that
\* made the update has anything older than the row, unless an older value was on
\* its way or something failed.
THEOREM NothingStale == CacheSpec => []InvalidationHolds
BY CacheBegins, CacheStep, CacheSettled, PTL DEF CacheSpec

-----------------------------------------------------------------------------
(* Of RateLimit.  What is admitted is bounded by what is counted and by the  *)
(* highest limit gone by; no cleanup reaches a bucket whose window is open.  *)

LEMMA LimitNumbers ==
    /\ Limit \in Nat \ {0} /\ MaxLimit \in Nat \ {0} /\ Limit <= MaxLimit
    /\ Window \in Nat \ {0} /\ MaxCount \in Nat /\ MaxUpdates \in Nat /\ MaxFailures \in Nat
BY RateLimitAssumption

\* What may be stored is a limit that admits a request.
LEMMA CapsStored == StorableCaps \subseteq 1 .. MaxLimit
<1>1. ASSUME NEW cap \in Caps PROVE Clamp(cap, 1, MaxLimit) \in 1 .. MaxLimit
  BY LimitNumbers, RateLimitAssumption DEF Clamp
<1> QED BY <1>1, LimitNumbers DEF StorableCaps, Off

\* The limit a request goes by admits one request at least.
LEMMA LimitAdmits ==
    ASSUME NEW cap \in 1 .. MaxLimit
    PROVE  Effective(cap) \in 1 .. MaxLimit
BY LimitNumbers DEF Effective, Lower

\* A cleanup never takes the bucket of the window that is open.
LEMMA NeverTooYoung ==
    ASSUME NEW asked \in CleanupHours, NEW n \in 0 .. Window - 1
    PROVE  ~TooOld(n, PayloadHours(QueuedHours(asked)))
<1> DEFINE hours == Clamp(PayloadHours(QueuedHours(asked)), 1, 720)
<1>1. hours \in 1 .. 720
  BY RateLimitAssumption DEF PayloadHours, QueuedHours, Clamp
<1> HIDE DEF hours
<1>2. \A w, h \in Nat : w > 0 /\ h > 0 => w * h >= w
  OBVIOUS
<1>3. Window * hours >= Window /\ Window * hours \in Nat
  BY <1>1, <1>2, LimitNumbers
<1> QED BY <1>3, LimitNumbers DEF TooOld, hours

\* The arguments of Count and of the policy's maps, typed.
Limits == 1 .. MaxLimit \cup {None}

RateTypes ==
    /\ stored \in 1 .. MaxLimit /\ updater \in Processes
    /\ cache \in [Processes -> Limits] /\ load \in [Processes -> Limits]
    /\ request \in [Processes -> Limits]
    /\ updating \in [Processes -> BOOLEAN] /\ raced \in BOOLEAN
    /\ age \in 0 .. Window - 1 /\ past \in 0 .. 2 * Window
    /\ updates \in 0 .. MaxUpdates /\ failures \in 0 .. MaxFailures

Counts ==
    /\ count \in 0 .. MaxCount /\ admitted \in 0 .. count /\ top \in 0 .. MaxLimit
    /\ AdmittedWithinLimit

\* What the process of the last update reads is what it stored.
Quiet == ~updating[updater] /\ ~raced /\ failures = 0

Takes == Quiet => {cache[updater], load[updater]} \subseteq {None, stored}

RateInv == RateTypes /\ Counts /\ Takes

LEMMA RateBegins == RateInit => RateInv
<1> SUFFICES ASSUME RateInit PROVE RateInv
  OBVIOUS
<1>1. RateTypes
  <2>1. /\ Off \in 1 .. MaxLimit /\ None \in Limits
        /\ 0 \in 0 .. Window - 1 /\ 0 \in 0 .. 2 * Window
        /\ 0 \in 0 .. MaxUpdates /\ 0 \in 0 .. MaxFailures
    BY LimitNumbers DEF Off, Limits
  <2> QED BY <2>1 DEF RateInit, RateTypes
<1>2. Counts
  BY LimitNumbers DEF RateInit, Counts, AdmittedWithinLimit
<1>3. Takes
  BY DEF RateInit, Takes
<1> QED BY <1>1, <1>2, <1>3 DEF RateInv

\* The steps of the policy.
LEMMA PolicyKept ==
    ASSUME RateInv, NEW p \in Processes,
           \/ StorePolicy(p) \/ ClearPolicyCache(p) \/ ExpireCache(p)
           \/ StartLoad(p) \/ FailLoad(p) \/ FinishLoad(p) \/ UseCache(p)
    PROVE  RateInv'
<1>1. RateTypes /\ Takes /\ UNCHANGED bucket
  BY DEF RateInv, StorePolicy, ClearPolicyCache, ExpireCache, StartLoad, FailLoad, FinishLoad,
         UseCache
<1>2. Counts'
  BY <1>1 DEF RateInv, Counts, AdmittedWithinLimit, bucket
<1>3. UNCHANGED <<age, past>> /\ None \in Limits /\ stored \in Limits /\ Off \in 1 .. MaxLimit
      /\ Off \in Limits
  BY <1>1, LimitNumbers DEF bucket, RateTypes, Limits, Off
<1>4. CASE StorePolicy(p)
  <2>1. /\ updates < MaxUpdates /\ stored' \in 1 .. MaxLimit /\ updates' = updates + 1
        /\ updating' = [updating EXCEPT ![p] = TRUE] /\ updater' = p
        /\ UNCHANGED <<cache, load, request, failures, raced>>
    BY <1>4, CapsStored DEF StorePolicy
  <2>2. RateTypes'
    BY <1>1, <1>3, <2>1, LimitNumbers DEF RateTypes
  <2>3. Takes'
    BY <1>1, <2>1 DEF RateTypes, Takes, Quiet
  <2> QED BY <1>2, <2>2, <2>3 DEF RateInv
<1>5. CASE ClearPolicyCache(p)
  <2>1. /\ cache' = [cache EXCEPT ![p] = None] /\ updating' = [updating EXCEPT ![p] = FALSE]
        /\ UNCHANGED <<stored, load, request, updater, updates, failures>>
    BY <1>5 DEF ClearPolicyCache, Cleared
  <2>2. raced' \in BOOLEAN /\ (~raced' => ~raced /\ load[p] \in {None, stored})
    BY <1>5, Zenon DEF ClearPolicyCache
  <2>3. RateTypes'
    BY <1>1, <1>3, <2>1, <2>2 DEF RateTypes
  <2>4. Takes'
    BY <1>1, <2>1, <2>2 DEF RateTypes, Takes, Quiet
  <2> QED BY <1>2, <2>3, <2>4 DEF RateInv
<1>6. CASE ExpireCache(p)
  <2>1. /\ cache' = [cache EXCEPT ![p] = None]
        /\ UNCHANGED <<stored, load, request, updating, updater, updates, failures, raced>>
    BY <1>6 DEF ExpireCache
  <2> QED BY <1>1, <1>2, <1>3, <2>1 DEF RateInv, RateTypes, Takes, Quiet
<1>7. CASE StartLoad(p)
  <2>1. /\ load' = [load EXCEPT ![p] = stored]
        /\ UNCHANGED <<stored, cache, request, updating, updater, updates, failures, raced>>
    BY <1>7 DEF StartLoad
  <2> QED BY <1>1, <1>2, <1>3, <2>1 DEF RateInv, RateTypes, Takes, Quiet
<1>8. CASE FailLoad(p)
  <2>1. /\ load' = [load EXCEPT ![p] = Off]
        /\ failures < MaxFailures /\ failures' = failures + 1
        /\ UNCHANGED <<stored, cache, request, updating, updater, updates, raced>>
    BY <1>8 DEF FailLoad
  <2>2. RateTypes'
    BY <1>1, <1>3, <2>1, LimitNumbers DEF RateTypes
  <2>3. Takes'
    BY <1>1, <2>1, LimitNumbers DEF RateTypes, Takes, Quiet
  <2> QED BY <1>2, <2>2, <2>3 DEF RateInv
<1>9. CASE FinishLoad(p)
  <2>1. /\ cache' = [cache EXCEPT ![p] = load[p]] /\ load' = [load EXCEPT ![p] = None]
        /\ request' = [request EXCEPT ![p] = load[p]]
        /\ UNCHANGED <<stored, updating, updater, updates, failures, raced>>
    BY <1>9 DEF FinishLoad
  <2>2. RateTypes'
    BY <1>1, <1>3, <2>1 DEF RateTypes
  <2>3. Takes'
    BY <1>1, <2>1 DEF RateTypes, Takes, Quiet
  <2> QED BY <1>2, <2>2, <2>3 DEF RateInv
<1>10. CASE UseCache(p)
  <2>1. request' = [request EXCEPT ![p] = cache[p]] /\ UNCHANGED policy
    BY <1>10 DEF UseCache
  <2> QED BY <1>1, <1>2, <1>3, <2>1 DEF RateInv, RateTypes, Takes, Quiet, policy
<1> QED BY <1>4, <1>5, <1>6, <1>7, <1>8, <1>9, <1>10

\* A request that is counted.
LEMMA CountKept == ASSUME RateInv, NEW p \in Processes, Count(p) PROVE RateInv'
<1> DEFINE limit == Effective(request[p])
<1>1. /\ count < MaxCount /\ count' = count + 1 /\ top' = Higher(top, limit)
      /\ admitted' = IF count' <= limit THEN admitted + 1 ELSE admitted
      /\ request' = [request EXCEPT ![p] = None] /\ UNCHANGED <<policy, age, past>>
      /\ request[p] # None
  BY DEF Count, Allowed
<1>2. limit \in 1 .. MaxLimit
  BY <1>1, LimitAdmits DEF RateInv, RateTypes, Limits
<1> HIDE DEF limit
<1>3. Counts'
  BY <1>1, <1>2, LimitNumbers DEF RateInv, Counts, AdmittedWithinLimit, Higher
<1>4. RateTypes' /\ Takes'
  BY <1>1 DEF RateInv, RateTypes, Limits, Takes, Quiet, policy
<1> QED BY <1>3, <1>4 DEF RateInv

\* Time passes, and old buckets are cleaned up.
LEMMA TimeKept == ASSUME RateInv, Tick \/ NextWindow \/ CleanUp PROVE RateInv'
<1>1. UNCHANGED <<policy, request>>
  BY DEF Tick, NextWindow, CleanUp
<1>2. Takes'
  BY <1>1 DEF RateInv, Takes, Quiet, policy
<1>3. Older \in 0 .. 2 * Window
  BY LimitNumbers DEF RateInv, RateTypes, Older, Lower
<1>4. age' \in 0 .. Window - 1 /\ past' \in 0 .. 2 * Window /\ Counts'
  <2>1. CASE Tick
    BY <1>3, <2>1, LimitNumbers DEF Tick, RateInv, RateTypes, Counts, AdmittedWithinLimit
  <2>2. CASE NextWindow
    BY <1>3, <2>2, LimitNumbers DEF NextWindow, RateInv, RateTypes, Counts, AdmittedWithinLimit
  <2>3. CASE CleanUp
    <3>1. PICK asked \in CleanupHours :
              /\ past' \in {0, past}
              /\ count' = IF TooOld(age, PayloadHours(QueuedHours(asked))) THEN 0 ELSE count
      BY <2>3 DEF CleanUp
    <3>2. count' = count
      BY <3>1, NeverTooYoung DEF RateInv, RateTypes
    <3>3. UNCHANGED <<age, admitted, top>>
      BY <2>3 DEF CleanUp
    <3> QED BY <3>1, <3>2, <3>3, LimitNumbers
            DEF RateInv, RateTypes, Counts, AdmittedWithinLimit
  <2> QED BY <2>1, <2>2, <2>3
<1>5. RateTypes'
  BY <1>1, <1>4 DEF RateInv, RateTypes, policy
<1> QED BY <1>2, <1>4, <1>5 DEF RateInv

LEMMA RateStep == ASSUME RateInv, [RateNext]_rateVars PROVE RateInv'
<1>1. CASE UNCHANGED rateVars
  BY <1>1 DEF rateVars, RateInv, RateTypes, Counts, AdmittedWithinLimit, Takes, Quiet
<1> QED BY <1>1, PolicyKept, CountKept, TimeKept DEF RateNext

LEMMA RateHolds == RateSpec => []RateInv
BY RateBegins, RateStep, PTL DEF RateSpec

\* A window admits no more than the highest limit one of its requests went by,
\* and its first request always, whatever the processes have cached and
\* whatever a cleanup is asked for.
THEOREM AdmissionBounded == RateSpec => []AdmittedWithinLimit
<1>1. RateInv => AdmittedWithinLimit
  BY DEF RateInv, Counts
<1> QED BY <1>1, RateHolds, PTL

\* The founder's process goes by what he stored last as soon as it has cleared
\* its cache, unless a load was under way when it did or a read has failed.
THEOREM UpdateIsFollowed == RateSpec => []UpdateTakesEffect
<1>1. RateInv => UpdateTakesEffect
  BY DEF RateInv, Takes, Quiet, UpdateTakesEffect
<1> QED BY <1>1, RateHolds, PTL
=============================================================================

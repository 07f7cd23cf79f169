---------------------------- MODULE JobLifecycle ----------------------------
(***************************************************************************)
(* What the background-job table promises to its producers, its workers    *)
(* and its operators, without rows, attempts, timers or snapshots.         *)
(*                                                                         *)
(* A job is submitted once, is started by one worker at a time, and only   *)
(* the worker that started it may move it out of "running": to "done", to  *)
(* "dead", or back to "waiting".  An operator may revive a dead job, and   *)
(* only a dead one.  A worker may lose what it holds (it stops); the job   *)
(* then stays "running".  The worker that reported success may still       *)
(* withdraw that report while it holds the job: the commit of its report   *)
(* can fail on the client side only.                                       *)
(*                                                                         *)
(* The promise lapses with the first revival that overlooks another one of *)
(* the same job: it may take the job from whatever phase it is in by then, *)
(* and what follows is no longer bound.                                    *)
(***************************************************************************)

CONSTANTS
    Jobs,       \* the jobs that may be submitted
    Workers,    \* the worker processes
    NoJob       \* what an idle worker holds

VARIABLES
    phase,      \* phase[j]: where job j is in its life
    holding,    \* holding[w]: the job worker w is executing, or NoJob
    lapsed      \* has a revival overlooked another one?

vars == <<phase, holding, lapsed>>

Phases == {"absent", "waiting", "running", "done", "dead"}

TypeOK ==
    /\ phase \in [Jobs -> Phases]
    /\ holding \in [Workers -> Jobs \cup {NoJob}]
    /\ lapsed \in BOOLEAN

Init ==
    /\ phase = [j \in Jobs |-> "absent"]
    /\ holding = [w \in Workers |-> NoJob]
    /\ lapsed = FALSE

Submit(j) ==
    /\ phase[j] = "absent"
    /\ phase' = [phase EXCEPT ![j] = "waiting"]
    /\ UNCHANGED holding

Start(w, j) ==
    /\ phase[j] = "waiting"
    /\ holding[w] = NoJob
    /\ \A v \in Workers : holding[v] # j
    /\ phase' = [phase EXCEPT ![j] = "running"]
    /\ holding' = [holding EXCEPT ![w] = j]

\* The holder decides what becomes of its job and lets it go.
Settle(w, j) ==
    /\ holding[w] = j
    /\ phase[j] \in {"running", "done"}
    /\ \E p \in {"waiting", "done", "dead"} : phase' = [phase EXCEPT ![j] = p]
    /\ holding' = [holding EXCEPT ![w] = NoJob]

\* The holder's report of success is stored, but the holder does not know.
Report(w, j) ==
    /\ holding[w] = j
    /\ phase[j] = "running"
    /\ phase' = [phase EXCEPT ![j] = "done"]
    /\ UNCHANGED holding

Lose(w) ==
    /\ holding[w] # NoJob
    /\ holding' = [holding EXCEPT ![w] = NoJob]
    /\ UNCHANGED phase

Revive(j) ==
    /\ phase[j] = "dead"
    /\ phase' = [phase EXCEPT ![j] = "waiting"]
    /\ UNCHANGED holding

Bound ==
    \/ \E j \in Jobs : Submit(j) \/ Revive(j)
    \/ \E w \in Workers : Lose(w)
    \/ \E w \in Workers, j \in Jobs : Start(w, j) \/ Settle(w, j) \/ Report(w, j)

Overlook(j) ==
    /\ phase[j] # "absent"
    /\ phase' = [phase EXCEPT ![j] = "waiting"]
    /\ lapsed' = TRUE
    /\ UNCHANGED holding

Unbound ==
    /\ lapsed
    /\ phase' \in [Jobs -> Phases]
    /\ holding' \in [Workers -> Jobs \cup {NoJob}]
    /\ UNCHANGED lapsed

Next ==
    \/ Bound /\ UNCHANGED lapsed
    \/ \E j \in Jobs : Overlook(j)
    \/ Unbound

Spec == Init /\ [][Next]_vars
=============================================================================

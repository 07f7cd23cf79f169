-------------------------- MODULE MCAcademicSetup --------------------------
(* Two sessions and three structures, two of them of one type.  The user has *)
(* a scope of one entry, by uuid, and one of two, by name and by uuid.  The  *)
(* updates of sessions share no variable with the rest of the module: only   *)
(* one of the two moves in a behaviour.                                      *)
EXTENDS AcademicSetup, TLC

CONSTANTS class1, class2, arm, gold, blue

MCFirstRow ==
    class1 :> [parent |-> NoStructure, type |-> "class", name |-> gold]
    @@ class2 :> [parent |-> NoStructure, type |-> "class", name |-> blue]
    @@ arm :> [parent |-> class2, type |-> "arm", name |-> gold]

MCScopes ==
    {{[key |-> <<"class", "id">>, value |-> class1]},
     {[key |-> <<"class", "name">>, value |-> blue], [key |-> ScopeId, value |-> arm]}}

SessionsAtRest ==
    edit = [e \in Editors |-> NoEdit] /\ current = {} /\ overlaps = 0

UploadsAtRest ==
    call = [c \in Calls |-> NoCall] /\ row = FirstRow /\ changes = 0

SetupSpec ==
    Init /\ [][Next /\ (SessionsAtRest' \/ UploadsAtRest')]_vars /\ Fairness
=============================================================================

------------------------------ MODULE Rotation ------------------------------
(***************************************************************************)
(* What a pool of backends promises its requests: each takes the backend   *)
(* whose turn it is, and the turn passes to the next one at that moment.   *)
(***************************************************************************)
EXTENDS Integers

CONSTANTS
    Handlers,  \* request goroutines
    Count,     \* backends of the pool, 0 .. Count - 1
    Unset      \* a request that has no backend yet

VARIABLES
    turn,   \* the backend whose turn it is
    given   \* the backend of each request

vars == <<turn, given>>

TakeTurn(h) ==
    /\ given[h] = Unset
    /\ given' = [given EXCEPT ![h] = turn]
    /\ turn' = (turn + 1) % Count

GiveUp(h) ==
    /\ given[h] # Unset
    /\ given' = [given EXCEPT ![h] = Unset]
    /\ UNCHANGED turn

Init ==
    /\ turn = 0
    /\ given = [h \in Handlers |-> Unset]

Next == \E h \in Handlers : TakeTurn(h) \/ GiveUp(h)

Spec == Init /\ [][Next]_vars
=============================================================================

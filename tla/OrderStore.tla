----------------------------- MODULE OrderStore -----------------------------
(***************************************************************************)
(* What the order service's tables promise its clients, however many       *)
(* handlers work on them: an order appears once, with its items, under an  *)
(* id that was no order's before; from then on each change is a change of  *)
(* one existing order and its items, made at once; and an order that was   *)
(* deleted is gone with its items for good.                                *)
(***************************************************************************)
EXTENDS Integers

VARIABLES
    orders,   \* id -> row
    items,    \* id -> row, with the order it belongs to
    next,     \* the id the next order gets
    pending   \* ids given to orders that are not there yet

vars == <<orders, items, next, pending>>

-----------------------------------------------------------------------------
(* The rows of every order but o are what they were, and no item moves     *)
(* between o and another order.                                            *)
OthersKept(o) ==
    LET Others(table) == {i \in DOMAIN table : table[i].order # o}
    IN  /\ DOMAIN orders' \ {o} = DOMAIN orders \ {o}
        /\ \A p \in DOMAIN orders \ {o} : orders'[p] = orders[p]
        /\ Others(items') = Others(items)
        /\ \A i \in Others(items) : items'[i] = items[i]

Reserve ==
    /\ next' = next + 1
    /\ pending' = pending \cup {next}
    /\ UNCHANGED <<orders, items>>

(* The creation came to nothing; its id is not given again.                *)
Abandon(o) ==
    /\ pending' = pending \ {o}
    /\ UNCHANGED <<orders, items, next>>

Create(o) ==
    /\ o \notin DOMAIN orders
    /\ o \in DOMAIN orders'
    /\ OthersKept(o)
    /\ pending' = pending \ {o}
    /\ UNCHANGED next

Change(o) ==
    /\ o \in DOMAIN orders'
    /\ OthersKept(o)
    /\ UNCHANGED <<next, pending>>

Delete(o) ==
    /\ o \notin DOMAIN orders'
    /\ \A i \in DOMAIN items' : items'[i].order # o
    /\ OthersKept(o)
    /\ UNCHANGED <<next, pending>>

-----------------------------------------------------------------------------
Init ==
    /\ orders = <<>>
    /\ items = <<>>
    /\ next = 1
    /\ pending = {}

Next ==
    \/ Reserve
    \/ \E o \in pending : Abandon(o) \/ Create(o)
    \/ \E o \in DOMAIN orders : Change(o) \/ Delete(o)

Spec == Init /\ [][Next]_vars
=============================================================================

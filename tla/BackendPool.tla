----------------------------- MODULE BackendPool -----------------------------
(***************************************************************************)
(* The pool of backends of a route (backend_pool.go): requests choose      *)
(* their backend round-robin with one shared int64 counter, by an atomic   *)
(* increment (RoundRobinAtomic, the one the gateway calls) or under a      *)
(* mutex (RoundRobinMutex).  Pools are filled before the gateway serves,   *)
(* and start-up refuses an empty one (gateway_setup.go:66).                *)
(***************************************************************************)
EXTENDS Integers, FiniteSets

CONSTANTS
    Handlers,    \* request goroutines
    Count,       \* backends of the pool, 0 .. Count - 1
    Unset,       \* a request that has no backend
    Half,        \* int64 holds -Half .. Half - 1
    MaxRequests  \* bound: requests that choose in one behaviour

ASSUME CountAssumption == Count \in Nat \ {0}
ASSUME UnsetAssumption == Unset \notin 0 .. Count - 1
ASSUME HalfAssumption == Half \in Nat \ {0}
ASSUME RequestsAssumption == MaxRequests \in Nat

VARIABLES
    method,    \* the one of the two methods the program calls
    current,   \* BackendPool.Current
    pc,        \* where each request is
    ticket,    \* currentIndex of each request
    backend,   \* the backend each request was given
    drawn,     \* auxiliary: requests that chose
    served,    \* auxiliary: how often each backend was given
    panicked   \* auxiliary: did a request meet a negative index?

vars == <<method, current, pc, ticket, backend, drawn, served, panicked>>

\* int64 arithmetic.
Wrap(n) == ((n + Half) % (2 * Half)) - Half

\* Go's % keeps the sign of the dividend.
Rem(n, d) == IF n >= 0 THEN n % d ELSE -((-n) % d)

(* The request gets backend i, or panics on a negative index.  net/http    *)
(* recovers the panic and drops the connection.                            *)
Give(h, i) ==
    IF i >= 0
    THEN /\ pc' = [pc EXCEPT ![h] = "forwarding"]
         /\ backend' = [backend EXCEPT ![h] = i]
         /\ served' = [served EXCEPT ![i] = @ + 1]
         /\ UNCHANGED panicked
    ELSE /\ pc' = [pc EXCEPT ![h] = "idle"]
         /\ panicked' = TRUE
         /\ UNCHANGED <<backend, served>>

(* Mutant of Increment, one too low.                                       *)
IncrementTooLow(h) ==
    /\ method = "atomic"
    /\ pc[h] = "idle"
    /\ drawn < MaxRequests
    /\ current' = Wrap(current + 1)
    /\ ticket' = [ticket EXCEPT ![h] = Wrap(current' - 2)]
    /\ drawn' = drawn + 1
    /\ pc' = [pc EXCEPT ![h] = "indexing"]
    /\ UNCHANGED <<method, backend, served, panicked>>

(* RoundRobinAtomic: one atomic increment, ...                             *)
Increment(h) ==
    /\ method = "atomic"
    /\ pc[h] = "idle"
    /\ drawn < MaxRequests
    /\ current' = Wrap(current + 1)
    /\ ticket' = [ticket EXCEPT ![h] = Wrap(current' - 1)]
    /\ drawn' = drawn + 1
    /\ pc' = [pc EXCEPT ![h] = "indexing"]
    /\ UNCHANGED <<method, backend, served, panicked>>

(* Mutant of Index, reading the counter again in place of the value the    *)
(* increment returned.                                                     *)
IndexReread(h) ==
    /\ pc[h] = "indexing"
    /\ Give(h, Rem(Wrap(current - 1), Count))
    /\ UNCHANGED <<method, current, ticket, drawn>>

(* ... then the index of the backend.                                      *)
Index(h) ==
    /\ pc[h] = "indexing"
    /\ Give(h, Rem(ticket[h], Count))
    /\ UNCHANGED <<method, current, ticket, drawn>>

(* Mutant of ChooseLocked, without the increment.                          *)
ChooseStanding(h) ==
    /\ method = "mutex"
    /\ pc[h] = "idle"
    /\ drawn < MaxRequests
    /\ Give(h, Rem(current, Count))
    /\ drawn' = drawn + 1
    /\ UNCHANGED <<method, current, ticket>>

(* RoundRobinMutex, whose callers meet only in its critical section.  A    *)
(* panic unlocks (the unlock is deferred) and leaves the counter alone.    *)
ChooseLocked(h) ==
    LET i == Rem(current, Count) IN
    /\ method = "mutex"
    /\ pc[h] = "idle"
    /\ drawn < MaxRequests
    /\ Give(h, i)
    /\ current' = IF i >= 0 THEN Wrap(current + 1) ELSE current
    /\ drawn' = drawn + 1
    /\ UNCHANGED <<method, ticket>>

(* The proxy of the backend serves the request.                            *)
Forward(h) ==
    /\ pc[h] = "forwarding"
    /\ pc' = [pc EXCEPT ![h] = "idle"]
    /\ backend' = [backend EXCEPT ![h] = Unset]
    /\ UNCHANGED <<method, current, ticket, drawn, served, panicked>>

Init ==
    /\ method \in {"atomic", "mutex"}
    /\ current = 0
    /\ pc = [h \in Handlers |-> "idle"]
    /\ ticket = [h \in Handlers |-> 0]
    /\ backend = [h \in Handlers |-> Unset]
    /\ drawn = 0
    /\ served = [i \in 0 .. Count - 1 |-> 0]
    /\ panicked = FALSE

(* All requests of the bound are served.                                   *)
Done ==
    /\ drawn = MaxRequests
    /\ \A h \in Handlers : pc[h] = "idle"
    /\ UNCHANGED vars

Next ==
    \/ \E h \in Handlers : Increment(h) \/ Index(h) \/ ChooseLocked(h) \/ Forward(h)
    \/ Done

Spec == Init /\ [][Next]_vars

-----------------------------------------------------------------------------
TypeOK ==
    /\ method \in {"atomic", "mutex"}
    /\ current \in -Half .. Half - 1
    /\ pc \in [Handlers -> {"idle", "indexing", "forwarding"}]
    /\ ticket \in [Handlers -> -Half .. Half - 1]
    /\ backend \in [Handlers -> 0 .. Count - 1 \cup {Unset}]
    /\ drawn \in 0 .. MaxRequests
    /\ served \in [0 .. Count - 1 -> Nat]
    /\ panicked \in BOOLEAN

(* The load is shared evenly at all times: counting the requests that hold *)
(* a ticket for a backend as its own, no backend is ever two requests      *)
(* ahead of another, however the choices interleave (until int64 wraps).   *)
Share(i) ==
    served[i] + Cardinality({h \in Handlers : pc[h] = "indexing"
                                              /\ Rem(ticket[h], Count) = i})

FairShare ==
    drawn <= Half => \A i, j \in 0 .. Count - 1 : Share(i) <= Share(j) + 1

(* Only a counter that wrapped, after 2^63 requests to one pool, yields a  *)
(* negative index.                                                         *)
PanicsOnlyAfterWrap == drawn <= Half => ~panicked

(* While int64 does not wrap, both methods implement Rotation: a request   *)
(* takes its turn when it increments the counter, although it finds its    *)
(* backend later.                                                          *)
Given(h) ==
    IF pc[h] = "indexing" THEN ticket[h] % Count ELSE backend[h]

R == INSTANCE Rotation WITH
        turn  <- current % Count,
        given <- [h \in Handlers |-> Given(h)]

ImplementsRotation ==
    R!Init /\ [][drawn' < Half => [R!Next]_(R!vars)]_vars

(* The inductive invariant of the proof: until int64 wraps, the counter    *)
(* counts the requests and tickets are the numbers it went through.        *)
CounterCounts ==
    /\ drawn <= Half =>
          /\ current = Wrap(drawn)
          /\ \A h \in Handlers : pc[h] = "indexing" => ticket[h] \in 0 .. drawn - 1
    /\ \A h \in Handlers : backend[h] = Unset <=> pc[h] # "forwarding"
=============================================================================

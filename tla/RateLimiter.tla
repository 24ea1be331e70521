----------------------------- MODULE RateLimiter -----------------------------
(***************************************************************************)
(* The gateway's rate limiter (rate_limit.go), enabled: a token bucket per *)
(* client key in one map of one process, shared by all request goroutines  *)
(* and guarded by a mutex, except for one read of the map made after the   *)
(* mutex is released.  The gateway may be restarted; its buckets are lost. *)
(*                                                                         *)
(* Tokens are fractions in the code.  Here they are counted in a unit of   *)
(* which a token costs `Cost' and a tick of the clock refills `Refill', so *)
(* RefillRate / RefillInterval is Refill / Cost tokens a tick and rounding *)
(* of floats is left out.  The clock is the wall clock (UTC() drops the    *)
(* monotonic reading), which may be set back.                              *)
(***************************************************************************)
EXTENDS Integers

CONSTANTS
    Handlers,     \* request goroutines
    Keys,         \* client addresses
    Direct,       \* the absence of an X-Forwarded-For header
    Capacity,     \* tokens a bucket holds
    Cost,         \* units of one token
    Refill,       \* units refilled per tick
    Second,       \* ticks in the second Retry-After asks for
    Nobody,       \* the owner of a free mutex
    Restarts,     \* may the process be restarted?
    MaxClock,     \* bound: readings of the clock
    MaxRequests   \* bound: requests received in one behaviour

ASSUME CapacityAssumption == Capacity \in Nat \ {0}
ASSUME CostAssumption == Cost \in Nat \ {0}
ASSUME RefillAssumption == Refill \in Nat
ASSUME NobodyAssumption == Nobody \notin Handlers
ASSUME DirectAssumption == Direct \notin Keys
ASSUME BoundsAssumption ==
    /\ MaxClock \in Nat
    /\ MaxRequests \in Nat

VARIABLES
    running,  \* FALSE once the runtime has aborted the process
    clock,    \* the wall clock
    slipped,  \* auxiliary: was the clock ever set back?
    buckets,  \* limiter.buckets: key -> [tokens, lastRefill]
    mutex,    \* who holds limiter.mu
    pc,       \* where each handler is
    key,      \* the client key of each handler's request
    now,      \* the clock reading each handler took
    received, \* requests received so far
    ledger    \* auxiliary: what each client asked for and was given

vars == <<running, clock, slipped, buckets, mutex, pc, key, now, received, ledger>>

Full == Capacity * Cost

-----------------------------------------------------------------------------
(* The bookkeeping of the properties, kept per key from the first request  *)
(* of a client to this process on.  `opened' and `latest' are the first    *)
(* and the latest clock reading of its requests, `admitted' counts those   *)
(* let through; `fullAt' is when its bucket was full last and `since' what *)
(* it was given from then on; `refusedAt' is when it was refused first     *)
(* since a request of it was last admitted.                                *)
Never == -1

Opened(time) ==
    [opened |-> time, latest |-> time, admitted |-> 0,
     fullAt |-> time, since |-> 0, refusedAt |-> Never]

Later(s, t) == IF s > t THEN s ELSE t

Entry(entry, time, full, allowed) ==
    LET given == IF allowed THEN 1 ELSE 0 IN
    [opened    |-> entry.opened,
     latest    |-> Later(entry.latest, time),
     admitted  |-> entry.admitted + given,
     fullAt    |-> IF full THEN time ELSE entry.fullAt,
     since     |-> (IF full THEN 0 ELSE entry.since) + given,
     refusedAt |-> IF allowed THEN Never
                   ELSE IF entry.refusedAt = Never THEN time ELSE entry.refusedAt]

-----------------------------------------------------------------------------
(* The arithmetic of consume.                                              *)

NewBucket(time) == [tokens |-> Full, lastRefill |-> time]

Elapsed(bucket, time) == time - bucket.lastRefill

Capped(tokens) == IF tokens < Full THEN tokens ELSE Full

(* Mutant of Refilled, without the check of the elapsed time.              *)
UncheckedRefill(bucket, time) ==
    [tokens |-> Capped(bucket.tokens + Refill * Elapsed(bucket, time)), lastRefill |-> time]

(* Mutant of Refilled, moving lastRefill back with the clock.              *)
BackdatedRefill(bucket, time) ==
    IF Elapsed(bucket, time) > 0 /\ Refill > 0
    THEN [tokens |-> Capped(bucket.tokens + Refill * Elapsed(bucket, time)), lastRefill |-> time]
    ELSE [bucket EXCEPT !.lastRefill = time]

(* Mutant of Refilled, refilling whole tokens only.                        *)
WholeRefill(bucket, time) ==
    IF Elapsed(bucket, time) > 0 /\ Refill > 0
    THEN [tokens |-> Capped(bucket.tokens
                            + ((Refill * Elapsed(bucket, time)) \div Cost) * Cost),
          lastRefill |-> time]
    ELSE bucket

Refilled(bucket, time) ==
    IF Elapsed(bucket, time) > 0 /\ Refill > 0
    THEN [tokens |-> Capped(bucket.tokens + Refill * Elapsed(bucket, time)), lastRefill |-> time]
    ELSE bucket

Allows(bucket) == bucket.tokens >= Cost

-----------------------------------------------------------------------------
(* The middleware.                                                         *)

ClientKey(forwardedFor, remote) ==
    IF forwardedFor # Direct THEN forwardedFor ELSE remote

Receive(h) ==
    /\ running
    /\ pc[h] = "idle"
    /\ received < MaxRequests
    /\ \E forwardedFor \in Keys \cup {Direct}, remote \in Keys :
         key' = [key EXCEPT ![h] = ClientKey(forwardedFor, remote)]
    /\ pc' = [pc EXCEPT ![h] = "locking"]
    /\ received' = received + 1
    /\ UNCHANGED <<running, clock, slipped, buckets, mutex, now, ledger>>

(* Mutant of Acquire, without the mutex.                                   *)
AcquireUnlocked(h) ==
    /\ running
    /\ pc[h] = "locking"
    /\ mutex' = h
    /\ now' = [now EXCEPT ![h] = clock]
    /\ pc' = [pc EXCEPT ![h] =
                IF key[h] \in DOMAIN buckets THEN "consuming" ELSE "inserting"]
    /\ UNCHANGED <<running, clock, slipped, buckets, key, received, ledger>>

(* consume locks the mutex, reads the clock and looks the bucket up.  For  *)
(* a new client it starts to insert one into the map.                      *)
Acquire(h) ==
    /\ running
    /\ pc[h] = "locking"
    /\ mutex = Nobody
    /\ mutex' = h
    /\ now' = [now EXCEPT ![h] = clock]
    /\ pc' = [pc EXCEPT ![h] =
                IF key[h] \in DOMAIN buckets THEN "consuming" ELSE "inserting"]
    /\ UNCHANGED <<running, clock, slipped, buckets, key, received, ledger>>

(* The insertion into the map is complete.                                 *)
Insert(h) ==
    /\ running
    /\ pc[h] = "inserting"
    /\ buckets' = [k \in DOMAIN buckets \cup {key[h]} |->
                     IF k = key[h] THEN NewBucket(now[h]) ELSE buckets[k]]
    /\ ledger' = [ledger EXCEPT ![key[h]] =
                    IF @.opened = Never THEN Opened(now[h]) ELSE @]
    /\ pc' = [pc EXCEPT ![h] = "consuming"]
    /\ UNCHANGED <<running, clock, slipped, mutex, key, now, received>>

(* Mutant of Consume, returning before the unlock when there is no token.  *)
ConsumeKeepingMutex(h) ==
    LET bucket  == Refilled(buckets[key[h]], now[h])
        allowed == Allows(bucket)
    IN
    /\ running
    /\ pc[h] = "consuming"
    /\ buckets' = [buckets EXCEPT ![key[h]] =
                     IF allowed THEN [bucket EXCEPT !.tokens = @ - Cost] ELSE bucket]
    /\ mutex' = IF allowed THEN Nobody ELSE mutex
    /\ pc' = [pc EXCEPT ![h] = IF allowed THEN "admitted" ELSE "refused"]
    /\ ledger' = [ledger EXCEPT ![key[h]] =
                    Entry(@, now[h], bucket.tokens = Full, allowed)]
    /\ UNCHANGED <<running, clock, slipped, key, now, received>>

(* The refill, the decision and the unlock.                                *)
Consume(h) ==
    LET bucket  == Refilled(buckets[key[h]], now[h])
        allowed == Allows(bucket)
    IN
    /\ running
    /\ pc[h] = "consuming"
    /\ buckets' = [buckets EXCEPT ![key[h]] =
                     IF allowed THEN [bucket EXCEPT !.tokens = @ - Cost] ELSE bucket]
    /\ mutex' = Nobody
    /\ pc' = [pc EXCEPT ![h] = IF allowed THEN "admitted" ELSE "refused"]
    /\ ledger' = [ledger EXCEPT ![key[h]] =
                    Entry(@, now[h], bucket.tokens = Full, allowed)]
    /\ UNCHANGED <<running, clock, slipped, key, now, received>>

(* The handler reads the map again, with no lock, for its log lines; then  *)
(* it answers 429 or passes the request on.  The runtime aborts the whole  *)
(* process when it notices a read of a map that is being written.          *)
Observe(h) ==
    /\ running
    /\ pc[h] \in {"admitted", "refused"}
    /\ pc' = [pc EXCEPT ![h] = "idle"]
    /\ running' \in {TRUE, \A g \in Handlers : pc[g] # "inserting"}
    /\ UNCHANGED <<clock, slipped, buckets, mutex, key, now, received, ledger>>

(* The process was aborted, or is replaced, and starts with no buckets.    *)
Restart ==
    /\ Restarts
    /\ running' = TRUE
    /\ buckets' = <<>>
    /\ mutex' = Nobody
    /\ pc' = [h \in Handlers |-> "idle"]
    /\ ledger' = [k \in Keys |-> Opened(Never)]
    /\ UNCHANGED <<clock, slipped, key, now, received>>

Tick ==
    /\ clock < MaxClock
    /\ clock' = clock + 1
    /\ UNCHANGED <<running, slipped, buckets, mutex, pc, key, now, received, ledger>>

SetBack ==
    /\ clock > 0
    /\ clock' = clock - 1
    /\ slipped' = TRUE
    /\ UNCHANGED <<running, buckets, mutex, pc, key, now, received, ledger>>

(* Idle, or out of requests: keeps the bound from looking like a deadlock. *)
Done ==
    /\ running => \A h \in Handlers : pc[h] = "idle"
    /\ UNCHANGED vars

Handle(h) == Acquire(h) \/ Insert(h) \/ Consume(h) \/ Observe(h)

Init ==
    /\ running = TRUE
    /\ clock = 0
    /\ slipped = FALSE
    /\ buckets = <<>>
    /\ mutex = Nobody
    /\ pc = [h \in Handlers |-> "idle"]
    /\ key \in [Handlers -> Keys]
    /\ now = [h \in Handlers |-> 0]
    /\ received = 0
    /\ ledger = [k \in Keys |-> Opened(Never)]

Next ==
    \/ \E h \in Handlers : Receive(h) \/ Handle(h)
    \/ Restart
    \/ Tick
    \/ SetBack
    \/ Done

Spec == Init /\ [][Next]_vars

(* Go schedules every goroutine and wakes the waiters of a mutex in turn.  *)
FairSpec == Spec /\ \A h \in Handlers : SF_vars(Handle(h))

-----------------------------------------------------------------------------
(* Types: a bucket holds no more than its capacity and no debt.            *)
Bucket == [tokens : 0 .. Full, lastRefill : 0 .. MaxClock]

TypeOK ==
    /\ running \in BOOLEAN
    /\ clock \in 0 .. MaxClock
    /\ slipped \in BOOLEAN
    /\ DOMAIN buckets \subseteq Keys
    /\ \A k \in DOMAIN buckets : buckets[k] \in Bucket
    /\ mutex \in Handlers \cup {Nobody}
    /\ pc \in [Handlers -> {"idle", "locking", "inserting", "consuming",
                            "admitted", "refused"}]
    /\ key \in [Handlers -> Keys]
    /\ now \in [Handlers -> 0 .. MaxClock]
    /\ received \in 0 .. MaxRequests
    /\ ledger \in [Keys -> [opened : Int, latest : Int, admitted : Nat,
                            fullAt : Int, since : Nat, refusedAt : Int]]

(* Whatever its requests do at the same time, a client is let through for  *)
(* no more than its bucket's capacity and what the clock refilled between  *)
(* its first and its latest request, even when the clock is set back.      *)
AdmissionBound ==
    \A k \in Keys :
        ledger[k].opened # Never =>
            Cost * ledger[k].admitted
                <= Full + Refill * (ledger[k].latest - ledger[k].opened)

Refuses(h) == pc[h] = "consuming" /\ pc'[h] = "refused"

(* A client is refused only when it used up all it had coming: since its   *)
(* bucket was full last, what it was given and one token more exceed the   *)
(* capacity and what the elapsed time refills.  (Nothing is refilled while *)
(* a clock that was set back catches up.)                                  *)
RefusalIsEarned ==
    [][\A h \in Handlers :
          Refuses(h) /\ ~slipped =>
            LET entry == ledger[key[h]] IN
            Full + Refill * (now[h] - entry.fullAt) < Cost * (entry.since + 1)]_vars

(* The answer 429 says "Retry-After: 1".  A client that waits that long is *)
(* not refused again, unless another request of it was admitted meanwhile: *)
(* true of a refill rate of a token a second or more, like the one in      *)
(* trapigo-gateway.yaml (and of a clock that was not set back).            *)
RetryAfterSuffices ==
    [][\A h \in Handlers :
          Refuses(h) /\ ~slipped /\ ledger[key[h]].refusedAt # Never =>
            now[h] < ledger[key[h]].refusedAt + Second]_vars

(* Every request is decided: no handler waits forever for the mutex, and   *)
(* none keeps it.                                                          *)
EveryRequestDecided ==
    \A h \in Handlers : pc[h] # "idle" ~> pc[h] = "idle" \/ ~running

(* The inductive invariant behind AdmissionBound: whoever inserts or uses a *)
(* bucket holds the mutex, and the tokens left in a bucket still count     *)
(* against what it may give.                                               *)
MutexGuardsMap ==
    \A h \in Handlers :
        /\ pc[h] \in {"inserting", "consuming"} => mutex = h
        /\ pc[h] = "inserting" => key[h] \notin DOMAIN buckets
        /\ pc[h] = "consuming" => key[h] \in DOMAIN buckets

TokensAreCounted ==
    \A k \in Keys :
        IF k \in DOMAIN buckets
        THEN /\ 0 <= ledger[k].opened
             /\ ledger[k].opened <= buckets[k].lastRefill
             /\ buckets[k].lastRefill <= ledger[k].latest
             /\ buckets[k].tokens + Cost * ledger[k].admitted
                  <= Full + Refill * (buckets[k].lastRefill - ledger[k].opened)
        ELSE ledger[k].opened = Never

IInv == TypeOK /\ MutexGuardsMap /\ TokensAreCounted

(* What holds besides until the clock is set back: a bucket holds just     *)
(* what was refilled and not given out since it was full, and since it     *)
(* refused a request it lost nothing.                                      *)
InBalance ==
    /\ \A h \in Handlers :
          /\ now[h] <= clock
          /\ pc[h] = "consuming" => buckets[key[h]].lastRefill <= now[h]
    /\ \A k \in DOMAIN buckets :
          /\ buckets[k].lastRefill <= clock
          /\ buckets[k].tokens + Cost * ledger[k].since
               = Full + Refill * (buckets[k].lastRefill - ledger[k].fullAt)
          /\ ledger[k].refusedAt # Never =>
               Refill * (buckets[k].lastRefill - ledger[k].refusedAt) <= buckets[k].tokens

Balanced == ~slipped => InBalance

(* "This limiter is in-memory and works for a single app instance only"    *)
(* (rate_limit.go:109): its one process is not aborted by its own limiter. *)
ProcessSurvives == running
=============================================================================

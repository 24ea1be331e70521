-------------------------- MODULE RateLimiterProofs --------------------------
(***************************************************************************)
(* Proofs about RateLimiter, for any number of handlers and clients, any   *)
(* capacity and any refill rate.  IInv bounds what a client is given; with *)
(* a clock that is not set back, InBalance adds that nothing it has coming  *)
(* is lost.                                                                *)
(***************************************************************************)
EXTENDS RateLimiter, TLAPS

(* The facts on products the arithmetic below needs.                       *)
LEMMA ProductOfSum ==
    ASSUME NEW r \in Int, NEW a \in Int, NEW b \in Int
    PROVE  /\ r * (a + b) = r * a + r * b
           /\ r * (a - b) = r * a - r * b
           /\ r * a \in Int
  OBVIOUS

LEMMA ProductGrows ==
    ASSUME NEW r \in Nat, NEW a \in Int, NEW b \in Int, a <= b
    PROVE  r * a <= r * b
<1>1. r * (b - a) = r * b - r * a /\ r * a \in Int /\ r * b \in Int
  BY ProductOfSum
<1>2. r * (b - a) >= 0
  <2>1. b - a \in Nat
    OBVIOUS
  <2>. QED BY <2>1
<1>. QED BY <1>1, <1>2

LEMMA FullIsNat == Full \in Nat /\ Cost <= Full /\ Cost > 0
<1>1. Cost \in Nat /\ Capacity \in Nat /\ Capacity >= 1 /\ Cost > 0
  BY CapacityAssumption, CostAssumption
<1>2. Cost * 1 <= Cost * Capacity
  BY <1>1, ProductGrows
<1>3. Capacity * Cost = Cost * Capacity /\ Cost * Capacity \in Int /\ Cost * 1 = Cost
  BY <1>1
<1>. QED BY <1>1, <1>2, <1>3 DEF Full

(* Refilling moves a bucket forward in time and adds no more than the time *)
(* that passed is worth.                                                   *)
LEMMA RefillIsBounded ==
    ASSUME NEW bucket \in Bucket, NEW time \in 0 .. MaxClock
    PROVE  LET b == Refilled(bucket, time) IN
           /\ b \in Bucket
           /\ bucket.lastRefill <= b.lastRefill
           /\ b.lastRefill = bucket.lastRefill \/ b.lastRefill = time
           /\ b.tokens <= bucket.tokens
                            + Refill * (b.lastRefill - bucket.lastRefill)
<1>. DEFINE e == Elapsed(bucket, time)
<1>1. /\ Full \in Nat /\ Refill \in Nat /\ MaxClock \in Nat
      /\ bucket.tokens \in 0 .. Full /\ bucket.lastRefill \in 0 .. MaxClock
      /\ bucket = [tokens |-> bucket.tokens, lastRefill |-> bucket.lastRefill]
  BY FullIsNat, RefillAssumption, BoundsAssumption DEF Bucket
<1>2. e \in Int /\ e = time - bucket.lastRefill
  BY <1>1 DEF Elapsed
<1>3. Refill * e \in Int /\ Refill * 0 = 0
  BY <1>1, <1>2
<1>4. CASE e > 0 /\ Refill > 0
  <2>1. Refill * e >= 0
    BY <1>1, <1>2, <1>3, <1>4, ProductGrows
  <2>2. Refilled(bucket, time)
          = [tokens |-> Capped(bucket.tokens + Refill * e), lastRefill |-> time]
    BY <1>4 DEF Refilled
  <2>3. /\ Capped(bucket.tokens + Refill * e) \in 0 .. Full
        /\ Capped(bucket.tokens + Refill * e) <= bucket.tokens + Refill * e
    BY <1>1, <1>3, <2>1 DEF Capped
  <2>4. time - bucket.lastRefill = e /\ bucket.lastRefill <= time
    BY <1>1, <1>2, <1>4
  <2>. QED BY <2>2, <2>3, <2>4 DEF Bucket
<1>5. CASE ~(e > 0 /\ Refill > 0)
  <2>1. Refilled(bucket, time) = bucket
    BY <1>5 DEF Refilled
  <2>2. bucket.lastRefill - bucket.lastRefill = 0
    BY <1>1
  <2>. QED BY <1>1, <1>3, <2>1, <2>2
<1>. QED BY <1>4, <1>5

-----------------------------------------------------------------------------
(* IInv is inductive.                                                      *)

LEMMA InitEstablishes == Init => IInv
<1>. SUFFICES ASSUME Init PROVE IInv
  OBVIOUS
<1>0. DOMAIN buckets = {}
  BY DEF Init
<1>1. TypeOK
  <2>1. ledger \in [Keys -> [opened : Int, latest : Int, admitted : Nat,
                             fullAt : Int, since : Nat, refusedAt : Int]]
    <3>1. Opened(Never) \in [opened : Int, latest : Int, admitted : Nat,
                              fullAt : Int, since : Nat, refusedAt : Int]
      BY DEF Opened, Never
    <3>. QED BY <3>1 DEF Init
  <2>2. clock \in 0 .. MaxClock /\ received \in 0 .. MaxRequests
    BY BoundsAssumption DEF Init
  <2>3. /\ now \in [Handlers -> 0 .. MaxClock] /\ key \in [Handlers -> Keys]
        /\ mutex \in Handlers \cup {Nobody} /\ running \in BOOLEAN
    BY BoundsAssumption DEF Init
  <2>4. pc \in [Handlers -> {"idle", "locking", "inserting", "consuming",
                             "admitted", "refused"}]
    BY DEF Init
  <2>5. slipped \in BOOLEAN
    BY DEF Init
  <2>. QED BY <1>0, <2>1, <2>2, <2>3, <2>4, <2>5 DEF TypeOK
<1>2. MutexGuardsMap
  BY DEF Init, MutexGuardsMap
<1>3. TokensAreCounted
  BY <1>0 DEF Init, TokensAreCounted, Opened
<1>. QED BY <1>1, <1>2, <1>3 DEF IInv

LEMMA ReceiveKeeps ==
    ASSUME IInv, NEW h \in Handlers, Receive(h)
    PROVE  IInv'
<1>. USE DEF IInv
<1>1. TypeOK'
  <2>1. key' \in [Handlers -> Keys]
    BY DEF TypeOK, Receive, ClientKey
  <2>2. received' \in 0 .. MaxRequests
    BY BoundsAssumption DEF TypeOK, Receive
  <2>. QED BY <2>1, <2>2 DEF TypeOK, Receive, Bucket
<1>2. MutexGuardsMap'
  BY DEF TypeOK, Receive, MutexGuardsMap
<1>3. TokensAreCounted'
  BY DEF Receive, TokensAreCounted
<1>. QED BY <1>1, <1>2, <1>3

LEMMA AcquireKeeps ==
    ASSUME IInv, NEW h \in Handlers, Acquire(h)
    PROVE  IInv'
<1>. USE DEF IInv
<1>1. TypeOK'
  BY DEF TypeOK, Acquire, Bucket
<1>2. MutexGuardsMap'
  <2>. SUFFICES ASSUME NEW g \in Handlers
                PROVE  /\ pc'[g] \in {"inserting", "consuming"} => mutex' = g
                       /\ pc'[g] = "inserting" => key'[g] \notin DOMAIN buckets'
                       /\ pc'[g] = "consuming" => key'[g] \in DOMAIN buckets'
    BY DEF MutexGuardsMap
  <2>1. CASE g = h
    BY <2>1 DEF TypeOK, Acquire
  <2>2. CASE g # h
    BY <2>2, NobodyAssumption DEF TypeOK, Acquire, MutexGuardsMap
  <2>. QED BY <2>1, <2>2
<1>3. TokensAreCounted'
  BY DEF Acquire, TokensAreCounted
<1>. QED BY <1>1, <1>2, <1>3

(* No other handler is inside consume while h is.                          *)
LEMMA OthersAreOutside ==
    ASSUME IInv, NEW h \in Handlers, pc[h] \in {"inserting", "consuming"}
    PROVE  \A g \in Handlers \ {h} : pc[g] \notin {"inserting", "consuming"}
  BY DEF IInv, MutexGuardsMap

LEMMA InsertKeeps ==
    ASSUME IInv, NEW h \in Handlers, Insert(h)
    PROVE  IInv'
<1>. DEFINE k == key[h]
<1>. USE DEF IInv
<1>1. /\ k \in Keys /\ k \notin DOMAIN buckets /\ ledger[k].opened = Never
      /\ now[h] \in 0 .. MaxClock
  BY DEF Insert, TypeOK, MutexGuardsMap, TokensAreCounted
<1>2. /\ DOMAIN buckets' = DOMAIN buckets \cup {k}
      /\ buckets'[k] = NewBucket(now[h])
      /\ \A j \in DOMAIN buckets : j # k /\ buckets'[j] = buckets[j]
  BY <1>1 DEF Insert
<1>3. /\ ledger'[k] = Opened(now[h])
      /\ \A j \in Keys \ {k} : ledger'[j] = ledger[j]
  BY <1>1 DEF Insert, TypeOK
<1>4. NewBucket(now[h]) \in Bucket
  BY <1>1, FullIsNat DEF NewBucket, Bucket
<1>5. TypeOK'
  <2>1. \A j \in DOMAIN buckets' : buckets'[j] \in Bucket
    BY <1>2, <1>4 DEF TypeOK
  <2>2. \A j \in Keys : ledger'[j] \in [opened : Int, latest : Int, admitted : Nat,
                                      fullAt : Int, since : Nat, refusedAt : Int]
    BY <1>1, <1>3, BoundsAssumption DEF TypeOK, Opened, Never
  <2>3. ledger' \in [Keys -> [opened : Int, latest : Int, admitted : Nat,
                              fullAt : Int, since : Nat, refusedAt : Int]]
    BY <2>2 DEF Insert, TypeOK
  <2>4. DOMAIN buckets' \subseteq Keys
    BY <1>1, <1>2 DEF TypeOK
  <2>. QED BY <2>1, <2>3, <2>4 DEF TypeOK, Insert, Bucket
<1>6. MutexGuardsMap'
  BY <1>2, OthersAreOutside DEF Insert, TypeOK, MutexGuardsMap
<1>7. TokensAreCounted'
  <2>1. /\ 0 <= now[h]
        /\ Full + Cost * 0 <= Full + Refill * (now[h] - now[h])
    <3>1. Cost * 0 = 0 /\ now[h] - now[h] = 0 /\ Refill * 0 = 0
      BY <1>1, BoundsAssumption, CostAssumption, RefillAssumption
    <3>. QED BY <1>1, <3>1, FullIsNat, BoundsAssumption
  <2>. SUFFICES ASSUME NEW j \in Keys
                PROVE  IF j \in DOMAIN buckets'
                       THEN /\ 0 <= ledger'[j].opened
                            /\ ledger'[j].opened <= buckets'[j].lastRefill
                            /\ buckets'[j].lastRefill <= ledger'[j].latest
                            /\ buckets'[j].tokens + Cost * ledger'[j].admitted
                                 <= Full + Refill * (buckets'[j].lastRefill - ledger'[j].opened)
                       ELSE ledger'[j].opened = Never
    BY DEF TokensAreCounted
  <2>2. CASE j = k
    <3>1. /\ ledger'[j].opened = now[h] /\ ledger'[j].latest = now[h]
          /\ ledger'[j].admitted = 0
          /\ buckets'[j].lastRefill = now[h] /\ buckets'[j].tokens = Full
          /\ j \in DOMAIN buckets' /\ now[h] \in Int
      BY <1>1, <1>2, <1>3, <2>2 DEF Opened, NewBucket
    <3>. QED BY <2>1, <3>1
  <2>3. CASE j # k
    BY <1>2, <1>3, <2>3 DEF TokensAreCounted
  <2>. QED BY <2>2, <2>3
<1>. QED BY <1>5, <1>6, <1>7

(* What Consume leaves of the bucket and the ledger entry it works on.     *)
LEMMA ConsumeEffect ==
    ASSUME IInv, NEW h \in Handlers, Consume(h)
    PROVE  LET k == key[h]
               b == Refilled(buckets[k], now[h])
           IN
           /\ k \in DOMAIN buckets /\ k \in Keys
           /\ buckets[k] \in Bucket /\ now[h] \in 0 .. MaxClock
           /\ DOMAIN buckets' = DOMAIN buckets
           /\ \A j \in DOMAIN buckets \ {k} : buckets'[j] = buckets[j]
           /\ \A j \in Keys \ {k} : ledger'[j] = ledger[j]
           /\ buckets'[k].lastRefill = b.lastRefill
           /\ buckets'[k] \in Bucket
           /\ \/ /\ Allows(b)
                 /\ pc'[h] = "admitted"
                 /\ buckets'[k].tokens = b.tokens - Cost
              \/ /\ ~Allows(b)
                 /\ pc'[h] = "refused"
                 /\ buckets'[k].tokens = b.tokens
           /\ ledger'[k] = Entry(ledger[k], now[h], b.tokens = Full, Allows(b))
<1>. DEFINE k == key[h]
            b == Refilled(buckets[k], now[h])
<1>1. /\ k \in DOMAIN buckets /\ k \in Keys
      /\ buckets[k] \in Bucket /\ now[h] \in 0 .. MaxClock
  BY DEF IInv, TypeOK, MutexGuardsMap, Consume
<1>2. b \in Bucket
  BY <1>1, RefillIsBounded
<1>. HIDE DEF b
<1>3. /\ buckets' = [buckets EXCEPT ![k] =
                       IF Allows(b) THEN [b EXCEPT !.tokens = @ - Cost] ELSE b]
      /\ ledger' = [ledger EXCEPT ![k] = Entry(@, now[h], b.tokens = Full, Allows(b))]
      /\ pc' = [pc EXCEPT ![h] = IF Allows(b) THEN "admitted" ELSE "refused"]
  BY DEF Consume, b
<1>4. /\ DOMAIN buckets' = DOMAIN buckets
      /\ \A j \in DOMAIN buckets \ {k} : buckets'[j] = buckets[j]
      /\ buckets'[k] = IF Allows(b) THEN [b EXCEPT !.tokens = @ - Cost] ELSE b
  BY <1>1, <1>3
<1>5. /\ \A j \in Keys \ {k} : ledger'[j] = ledger[j]
      /\ ledger'[k] = Entry(ledger[k], now[h], b.tokens = Full, Allows(b))
  BY <1>1, <1>3 DEF IInv, TypeOK
<1>6. pc'[h] = IF Allows(b) THEN "admitted" ELSE "refused"
  BY <1>3 DEF IInv, TypeOK
<1>7. CASE Allows(b)
  <2>1. /\ buckets'[k].lastRefill = b.lastRefill
        /\ buckets'[k].tokens = b.tokens - Cost
        /\ buckets'[k] = [tokens |-> b.tokens - Cost, lastRefill |-> b.lastRefill]
    BY <1>2, <1>4, <1>7 DEF Bucket
  <2>2. b.tokens - Cost \in 0 .. Full
    BY <1>2, <1>7, FullIsNat, CostAssumption DEF Bucket, Allows
  <2>3. buckets'[k] \in Bucket
    BY <1>2, <2>1, <2>2 DEF Bucket
  <2>. QED BY <1>1, <1>4, <1>5, <1>6, <1>7, <2>1, <2>3 DEF b
<1>8. CASE ~Allows(b)
  BY <1>1, <1>2, <1>4, <1>5, <1>6, <1>8 DEF b
<1>. QED BY <1>7, <1>8

LEMMA ConsumeKeeps ==
    ASSUME IInv, NEW h \in Handlers, Consume(h)
    PROVE  IInv'
<1>. DEFINE k == key[h]
            b == Refilled(buckets[k], now[h])
            given == IF Allows(b) THEN 1 ELSE 0
<1>1. /\ k \in DOMAIN buckets /\ k \in Keys
      /\ buckets[k] \in Bucket /\ now[h] \in 0 .. MaxClock
      /\ DOMAIN buckets' = DOMAIN buckets
      /\ \A j \in DOMAIN buckets \ {k} : buckets'[j] = buckets[j]
      /\ \A j \in Keys \ {k} : ledger'[j] = ledger[j]
      /\ buckets'[k].lastRefill = b.lastRefill
      /\ buckets'[k] \in Bucket
      /\ \/ Allows(b) /\ buckets'[k].tokens = b.tokens - Cost
         \/ ~Allows(b) /\ buckets'[k].tokens = b.tokens
      /\ ledger'[k] = Entry(ledger[k], now[h], b.tokens = Full, Allows(b))
  BY ConsumeEffect
<1>2. /\ b \in Bucket
      /\ buckets[k].lastRefill <= b.lastRefill
      /\ b.lastRefill = buckets[k].lastRefill \/ b.lastRefill = now[h]
      /\ b.tokens <= buckets[k].tokens + Refill * (b.lastRefill - buckets[k].lastRefill)
  BY <1>1, RefillIsBounded
<1>. HIDE DEF b
<1>3. /\ ledger[k] \in [opened : Int, latest : Int, admitted : Nat,
                        fullAt : Int, since : Nat, refusedAt : Int]
      /\ now[h] \in Int
  BY <1>1, BoundsAssumption DEF IInv, TypeOK
<1>4. /\ ledger'[k] \in [opened : Int, latest : Int, admitted : Nat,
                         fullAt : Int, since : Nat, refusedAt : Int]
      /\ ledger'[k].opened = ledger[k].opened
      /\ ledger'[k].latest >= ledger[k].latest /\ ledger'[k].latest >= now[h]
      /\ ledger'[k].admitted = ledger[k].admitted + given
  BY <1>1, <1>3 DEF Entry, Later, Never
<1>5. TypeOK'
  <2>1. \A j \in DOMAIN buckets' : buckets'[j] \in Bucket
    BY <1>1 DEF IInv, TypeOK
  <2>2. ledger' \in [Keys -> [opened : Int, latest : Int, admitted : Nat,
                              fullAt : Int, since : Nat, refusedAt : Int]]
    <3>1. ledger' = [ledger EXCEPT ![k] = ledger'[k]]
      BY <1>1 DEF Consume, IInv, TypeOK
    <3>. QED BY <1>4, <3>1 DEF IInv, TypeOK
  <2>3. pc' \in [Handlers -> {"idle", "locking", "inserting", "consuming",
                             "admitted", "refused"}]
    BY DEF Consume, IInv, TypeOK
  <2>. QED BY <1>1, <2>1, <2>2, <2>3 DEF Consume, IInv, TypeOK, Bucket
<1>6. MutexGuardsMap'
  BY <1>1, OthersAreOutside DEF Consume, IInv, TypeOK, MutexGuardsMap
<1>7. TokensAreCounted'
  <2>1. /\ 0 <= ledger[k].opened
        /\ ledger[k].opened <= buckets[k].lastRefill
        /\ buckets[k].lastRefill <= ledger[k].latest
        /\ buckets[k].tokens + Cost * ledger[k].admitted
             <= Full + Refill * (buckets[k].lastRefill - ledger[k].opened)
    BY <1>1 DEF IInv, TokensAreCounted
  <2>2. /\ ledger[k].opened \in Int /\ ledger[k].latest \in Int /\ ledger[k].admitted \in Nat
        /\ ledger'[k].latest \in Int
        /\ buckets[k].lastRefill \in Int /\ buckets[k].tokens \in Int
        /\ b.lastRefill \in Int /\ b.tokens \in Int
        /\ Full \in Int /\ Cost \in Int /\ Refill \in Int /\ given \in Int
    BY <1>1, <1>2, <1>3, <1>4, FullIsNat, CostAssumption, RefillAssumption, BoundsAssumption
       DEF Bucket
  <2>3. /\ 0 <= ledger'[k].opened
        /\ ledger'[k].opened <= buckets'[k].lastRefill
        /\ buckets'[k].lastRefill <= ledger'[k].latest
    BY <1>1, <1>2, <1>3, <1>4, <2>1, <2>2
  <2>4. buckets'[k].tokens + Cost * ledger'[k].admitted
          = b.tokens + Cost * ledger[k].admitted
    <3>1. Cost * (ledger[k].admitted + given) = Cost * ledger[k].admitted + Cost * given
      BY <2>2, ProductOfSum
    <3>2. buckets'[k].tokens = b.tokens - Cost * given
      BY <1>1, <2>2
    <3>3. Cost * given \in Int /\ Cost * ledger[k].admitted \in Int
      BY <2>2, ProductOfSum
    <3>. HIDE DEF given
    <3>. QED BY <1>4, <2>2, <3>1, <3>2, <3>3
  <2>5. b.tokens + Cost * ledger[k].admitted
          <= Full + Refill * (b.lastRefill - ledger[k].opened)
    <3>. DEFINE x == buckets[k].lastRefill - ledger[k].opened
                y == b.lastRefill - buckets[k].lastRefill
    <3>1. x \in Int /\ y \in Int /\ b.lastRefill - ledger[k].opened = x + y
      BY <2>2
    <3>2. Refill * (x + y) = Refill * x + Refill * y /\ Refill * x \in Int /\ Refill * y \in Int
      BY <2>2, <3>1, ProductOfSum
    <3>3. Cost * ledger[k].admitted \in Int
      BY <2>2, ProductOfSum
    <3>4. /\ buckets[k].tokens + Cost * ledger[k].admitted <= Full + Refill * x
          /\ b.tokens <= buckets[k].tokens + Refill * y
      BY <1>2, <2>1
    <3>. HIDE DEF x, y
    <3>. QED BY <2>2, <3>1, <3>2, <3>3, <3>4
  <2>6. buckets'[k].tokens + Cost * ledger'[k].admitted
          <= Full + Refill * (buckets'[k].lastRefill - ledger'[k].opened)
    BY <1>1, <1>4, <2>4, <2>5
  <2>. SUFFICES ASSUME NEW j \in Keys
                PROVE  IF j \in DOMAIN buckets'
                       THEN /\ 0 <= ledger'[j].opened
                            /\ ledger'[j].opened <= buckets'[j].lastRefill
                            /\ buckets'[j].lastRefill <= ledger'[j].latest
                            /\ buckets'[j].tokens + Cost * ledger'[j].admitted
                                 <= Full + Refill * (buckets'[j].lastRefill - ledger'[j].opened)
                       ELSE ledger'[j].opened = Never
    BY DEF TokensAreCounted
  <2>7. CASE j = k
    BY <1>1, <2>3, <2>6, <2>7
  <2>8. CASE j # k
    BY <1>1, <2>8 DEF IInv, TokensAreCounted
  <2>. QED BY <2>7, <2>8
<1>. QED BY <1>5, <1>6, <1>7 DEF IInv

LEMMA ObserveKeeps ==
    ASSUME IInv, NEW h \in Handlers, Observe(h)
    PROVE  IInv'
<1>. USE DEF IInv
<1>1. TypeOK'
  <2>1. running' \in BOOLEAN
    BY DEF Observe
  <2>. QED BY <2>1 DEF TypeOK, Observe, Bucket
<1>2. MutexGuardsMap'
  BY DEF TypeOK, Observe, MutexGuardsMap
<1>3. TokensAreCounted'
  BY DEF Observe, TokensAreCounted
<1>. QED BY <1>1, <1>2, <1>3

LEMMA RestartKeeps ==
    ASSUME IInv, Restart
    PROVE  IInv'
<1>0. DOMAIN buckets' = {}
  BY DEF Restart
<1>1. TypeOK'
  BY <1>0, BoundsAssumption DEF IInv, Restart, TypeOK, Opened, Never
<1>2. MutexGuardsMap'
  BY DEF Restart, MutexGuardsMap
<1>3. TokensAreCounted'
  BY <1>0 DEF Restart, TokensAreCounted, Opened
<1>. QED BY <1>1, <1>2, <1>3 DEF IInv

LEMMA ClockKeeps ==
    ASSUME IInv, Tick \/ SetBack
    PROVE  IInv'
<1>1. clock' \in 0 .. MaxClock
  BY BoundsAssumption DEF IInv, TypeOK, Tick, SetBack
<1>2. UNCHANGED <<running, buckets, mutex, pc, key, now, received, ledger>>
  BY DEF Tick, SetBack
<1>3. slipped' \in BOOLEAN
  BY DEF IInv, TypeOK, Tick, SetBack
<1>. QED BY <1>1, <1>2, <1>3 DEF IInv, TypeOK, MutexGuardsMap, TokensAreCounted, Bucket

LEMMA StutterKeeps ==
    ASSUME IInv, UNCHANGED vars
    PROVE  IInv'
  BY DEF IInv, vars, TypeOK, MutexGuardsMap, TokensAreCounted, Bucket

LEMMA NextKeeps ==
    ASSUME IInv, [Next]_vars
    PROVE  IInv'
<1>1. ASSUME NEW h \in Handlers, Receive(h) \/ Handle(h) PROVE IInv'
  BY <1>1, ReceiveKeeps, AcquireKeeps, InsertKeeps, ConsumeKeeps, ObserveKeeps DEF Handle
<1>2. CASE Restart
  BY <1>2, RestartKeeps
<1>3. CASE Tick \/ SetBack
  BY <1>3, ClockKeeps
<1>4. CASE Done \/ UNCHANGED vars
  BY <1>4, StutterKeeps DEF Done
<1>. QED BY <1>1, <1>2, <1>3, <1>4 DEF Next

(* The inductive invariant of the limiter, whatever its clock does.        *)
THEOREM LimiterInvariant == Spec => []IInv
<1>1. IInv /\ [Next]_vars => IInv'
  BY NextKeeps
<1>. QED BY InitEstablishes, <1>1, PTL DEF Spec

(* Buckets, readings and the ledger keep their types: no bucket overflows  *)
(* its capacity or goes into debt.                                         *)
THEOREM LimiterTypeCorrect == Spec => []TypeOK
<1>1. IInv => TypeOK
  BY DEF IInv
<1>. QED BY LimiterInvariant, <1>1, PTL

(* No interleaving of requests, no restart and no setting of the clock     *)
(* gives a client more than consume's rate and capacity allow.             *)
THEOREM AdmissionIsBounded == Spec => []AdmissionBound
<1>1. IInv => AdmissionBound
  <2>. SUFFICES ASSUME IInv, NEW k \in Keys, ledger[k].opened # Never
                PROVE  Cost * ledger[k].admitted
                         <= Full + Refill * (ledger[k].latest - ledger[k].opened)
    BY DEF AdmissionBound
  <2>1. /\ k \in DOMAIN buckets
        /\ buckets[k].lastRefill <= ledger[k].latest
        /\ buckets[k].tokens + Cost * ledger[k].admitted
             <= Full + Refill * (buckets[k].lastRefill - ledger[k].opened)
    BY DEF IInv, TokensAreCounted
  <2>2. /\ buckets[k].tokens \in Nat /\ buckets[k].lastRefill \in Int
        /\ ledger[k].opened \in Int /\ ledger[k].latest \in Int
        /\ ledger[k].admitted \in Int
        /\ Full \in Int /\ Cost \in Int /\ Refill \in Nat
    BY <2>1, FullIsNat, CostAssumption, RefillAssumption, BoundsAssumption
       DEF IInv, TypeOK, Bucket
  <2>3. Refill * (buckets[k].lastRefill - ledger[k].opened)
          <= Refill * (ledger[k].latest - ledger[k].opened)
    BY <2>1, <2>2, ProductGrows
  <2>4. /\ Cost * ledger[k].admitted \in Int
        /\ Refill * (buckets[k].lastRefill - ledger[k].opened) \in Int
        /\ Refill * (ledger[k].latest - ledger[k].opened) \in Int
    BY <2>2
  <2>. QED BY <2>1, <2>2, <2>3, <2>4
<1>. QED BY LimiterInvariant, <1>1, PTL

-----------------------------------------------------------------------------
(* With a clock that is not set back, nothing is lost either.              *)

(* Below the capacity, a refill adds all that the elapsed time is worth.   *)
LEMMA RefillIsExact ==
    ASSUME NEW bucket \in Bucket, NEW time \in 0 .. MaxClock,
           bucket.lastRefill <= time
    PROVE  LET b == Refilled(bucket, time) IN
           /\ b.tokens < Full =>
                b.tokens = bucket.tokens + Refill * (b.lastRefill - bucket.lastRefill)
           /\ b.lastRefill <= time
           /\ \A x \in Int : Refill * (b.lastRefill - x) = Refill * (time - x)
<1>. DEFINE e == Elapsed(bucket, time)
<1>1. /\ Full \in Nat /\ Refill \in Nat /\ MaxClock \in Nat
      /\ bucket.tokens \in 0 .. Full /\ bucket.lastRefill \in 0 .. MaxClock
  BY FullIsNat, RefillAssumption, BoundsAssumption DEF Bucket
<1>2. e \in Int /\ e = time - bucket.lastRefill
  BY <1>1 DEF Elapsed
<1>3. Refill * e \in Int /\ \A x \in Int : 0 * x = 0 /\ Refill * 0 = 0
  BY <1>1, <1>2
<1>4. CASE e > 0 /\ Refill > 0
  <2>1. Refilled(bucket, time)
          = [tokens |-> Capped(bucket.tokens + Refill * e), lastRefill |-> time]
    BY <1>4 DEF Refilled
  <2>2. Capped(bucket.tokens + Refill * e) < Full =>
          Capped(bucket.tokens + Refill * e) = bucket.tokens + Refill * e
    BY <1>1, <1>3 DEF Capped
  <2>. QED BY <1>1, <1>2, <2>1, <2>2
<1>5. CASE ~(e > 0 /\ Refill > 0)
  <2>1. Refilled(bucket, time) = bucket
    BY <1>5 DEF Refilled
  <2>2. e = 0 \/ Refill = 0
    BY <1>1, <1>2, <1>5
  <2>3. bucket.lastRefill - bucket.lastRefill = 0
    BY <1>1
  <2>4. CASE Refill = 0
    BY <1>1, <1>3, <2>1, <2>3, <2>4
  <2>5. CASE e = 0
    <3>1. bucket.lastRefill = time
      BY <1>1, <1>2, <2>5
    <3>. QED BY <1>1, <1>3, <2>1, <2>3, <3>1
  <2>. QED BY <2>2, <2>4, <2>5
<1>. QED BY <1>4, <1>5

(* What a handler in consume finds and decides.                            *)
LEMMA ConsumeIsExact ==
    ASSUME IInv, InBalance, NEW h \in Handlers, Consume(h)
    PROVE  LET k == key[h]
               b == Refilled(buckets[k], now[h])
           IN
           /\ b \in Bucket /\ b.lastRefill <= now[h] /\ now[h] \in Int
           /\ ledger[k].fullAt \in Int /\ ledger[k].since \in Nat
           /\ ledger[k].refusedAt \in Int
           /\ \A x \in Int : Refill * (b.lastRefill - x) = Refill * (now[h] - x)
           /\ b.tokens < Full =>
                b.tokens + Cost * ledger[k].since
                  = Full + Refill * (b.lastRefill - ledger[k].fullAt)
           /\ b.tokens < Full /\ ledger[k].refusedAt # Never =>
                Refill * (b.lastRefill - ledger[k].refusedAt) <= b.tokens
<1>. DEFINE k == key[h]
            b == Refilled(buckets[k], now[h])
<1>1. /\ k \in DOMAIN buckets /\ k \in Keys
      /\ buckets[k] \in Bucket /\ now[h] \in 0 .. MaxClock
      /\ buckets[k].lastRefill <= now[h]
  BY DEF IInv, TypeOK, MutexGuardsMap, Consume, InBalance
<1>2. /\ b \in Bucket /\ b.lastRefill <= now[h]
      /\ \A x \in Int : Refill * (b.lastRefill - x) = Refill * (now[h] - x)
      /\ b.tokens < Full =>
           b.tokens = buckets[k].tokens + Refill * (b.lastRefill - buckets[k].lastRefill)
  BY <1>1, RefillIsBounded, RefillIsExact
<1>3. /\ ledger[k].fullAt \in Int /\ ledger[k].since \in Nat /\ ledger[k].refusedAt \in Int
      /\ buckets[k].tokens \in Int /\ buckets[k].lastRefill \in Int
      /\ b.tokens \in Int /\ b.lastRefill \in Int /\ now[h] \in Int
      /\ Full \in Int /\ Refill \in Int /\ Cost \in Int
  <2>. HIDE DEF b
  <2>1. /\ ledger[k] \in [opened : Int, latest : Int, admitted : Nat,
                          fullAt : Int, since : Nat, refusedAt : Int]
        /\ Full \in Nat /\ Refill \in Nat /\ Cost \in Nat /\ MaxClock \in Nat
    BY <1>1, FullIsNat, RefillAssumption, CostAssumption, BoundsAssumption DEF IInv, TypeOK
  <2>2. ledger[k].fullAt \in Int /\ ledger[k].since \in Nat /\ ledger[k].refusedAt \in Int
    BY <2>1
  <2>3. buckets[k].tokens \in Int /\ buckets[k].lastRefill \in Int /\ now[h] \in Int
    BY <1>1, <2>1 DEF Bucket
  <2>4. b.tokens \in Int /\ b.lastRefill \in Int
    BY <1>2, <2>1 DEF Bucket
  <2>. QED BY <2>1, <2>2, <2>3, <2>4
<1>4. /\ buckets[k].tokens + Cost * ledger[k].since
           = Full + Refill * (buckets[k].lastRefill - ledger[k].fullAt)
      /\ ledger[k].refusedAt # Never =>
           Refill * (buckets[k].lastRefill - ledger[k].refusedAt) <= buckets[k].tokens
  BY <1>1 DEF InBalance
<1>. HIDE DEF b, k
<1>5. ASSUME NEW x \in Int
      PROVE  /\ Refill * (b.lastRefill - x)
                  = Refill * (buckets[k].lastRefill - x)
                      + Refill * (b.lastRefill - buckets[k].lastRefill)
             /\ Refill * (buckets[k].lastRefill - x) \in Int
             /\ Refill * (b.lastRefill - x) \in Int
  <2>. DEFINE p == buckets[k].lastRefill - x
              q == b.lastRefill - buckets[k].lastRefill
  <2>1. b.lastRefill - x = p + q /\ p \in Int /\ q \in Int
    BY <1>3
  <2>2. Refill * (p + q) = Refill * p + Refill * q /\ Refill * p \in Int /\ Refill * q \in Int
    <3>. HIDE DEF p, q
    <3>. QED BY <1>3, <2>1, ProductOfSum
  <2>. QED BY <2>1, <2>2
<1>6. Cost * ledger[k].since \in Int /\ Refill * (b.lastRefill - buckets[k].lastRefill) \in Int
  <2>1. b.lastRefill - buckets[k].lastRefill \in Int
    BY <1>3
  <2>. QED BY <1>3, <2>1, ProductOfSum
<1>7. b.tokens < Full =>
        b.tokens + Cost * ledger[k].since = Full + Refill * (b.lastRefill - ledger[k].fullAt)
  <2>. DEFINE x == ledger[k].fullAt
              u == Refill * (buckets[k].lastRefill - x)
              v == Refill * (b.lastRefill - buckets[k].lastRefill)
              w == Cost * ledger[k].since
  <2>1. Refill * (b.lastRefill - x) = u + v /\ u \in Int /\ v \in Int /\ w \in Int
    BY <1>3, <1>5, <1>6
  <2>2. /\ b.tokens < Full => b.tokens = buckets[k].tokens + v
        /\ buckets[k].tokens + w = Full + u
    BY <1>2, <1>4
  <2>. HIDE DEF x, u, v, w
  <2>3. b.tokens < Full => b.tokens + w = Full + Refill * (b.lastRefill - x)
    BY <1>3, <2>1, <2>2
  <2>. QED BY <2>3 DEF x, w
<1>8. b.tokens < Full /\ ledger[k].refusedAt # Never =>
        Refill * (b.lastRefill - ledger[k].refusedAt) <= b.tokens
  <2>. DEFINE x == ledger[k].refusedAt
              u == Refill * (buckets[k].lastRefill - x)
              v == Refill * (b.lastRefill - buckets[k].lastRefill)
  <2>1. Refill * (b.lastRefill - x) = u + v /\ u \in Int /\ v \in Int
    BY <1>3, <1>5, <1>6
  <2>2. /\ b.tokens < Full => b.tokens = buckets[k].tokens + v
        /\ x # Never => u <= buckets[k].tokens
    BY <1>2, <1>4
  <2>. HIDE DEF x, u, v
  <2>3. b.tokens < Full /\ x # Never => Refill * (b.lastRefill - x) <= b.tokens
    BY <1>3, <2>1, <2>2
  <2>. QED BY <2>3 DEF x
<1>. QED BY <1>2, <1>3, <1>7, <1>8 DEF b, k

LEMMA ConsumeBalances ==
    ASSUME IInv, InBalance, NEW h \in Handlers, Consume(h)
    PROVE  InBalance'
<1>. DEFINE k == key[h]
            b == Refilled(buckets[k], now[h])
<1>1. /\ k \in DOMAIN buckets /\ k \in Keys
      /\ DOMAIN buckets' = DOMAIN buckets
      /\ \A j \in DOMAIN buckets \ {k} : buckets'[j] = buckets[j]
      /\ \A j \in Keys \ {k} : ledger'[j] = ledger[j]
      /\ buckets'[k].lastRefill = b.lastRefill
      /\ \/ Allows(b) /\ buckets'[k].tokens = b.tokens - Cost
         \/ ~Allows(b) /\ buckets'[k].tokens = b.tokens
      /\ ledger'[k] = Entry(ledger[k], now[h], b.tokens = Full, Allows(b))
  BY ConsumeEffect
<1>2. /\ b \in Bucket /\ b.lastRefill <= now[h] /\ now[h] \in Int
      /\ ledger[k].fullAt \in Int /\ ledger[k].since \in Nat
      /\ ledger[k].refusedAt \in Int
      /\ \A x \in Int : Refill * (b.lastRefill - x) = Refill * (now[h] - x)
      /\ b.tokens < Full =>
           b.tokens + Cost * ledger[k].since
             = Full + Refill * (b.lastRefill - ledger[k].fullAt)
      /\ b.tokens < Full /\ ledger[k].refusedAt # Never =>
           Refill * (b.lastRefill - ledger[k].refusedAt) <= b.tokens
  BY ConsumeIsExact
<1>. HIDE DEF b
<1>3. /\ b.tokens \in 0 .. Full /\ b.lastRefill \in Int /\ Full \in Nat /\ Cost <= Full
      /\ Cost \in Nat /\ Refill \in Nat
  BY <1>2, FullIsNat, CostAssumption, RefillAssumption, BoundsAssumption DEF Bucket
<1>4. Refill * (b.lastRefill - now[h]) = 0
  <2>1. Refill * (b.lastRefill - now[h]) = Refill * (now[h] - now[h])
    BY <1>2
  <2>. QED BY <1>2, <1>3, <2>1
<1>5. buckets'[k].tokens + Cost * ledger'[k].since
        = Full + Refill * (buckets'[k].lastRefill - ledger'[k].fullAt)
  <2>1. CASE b.tokens = Full
    <3>1. ledger'[k].fullAt = now[h] /\ Allows(b)
      BY <1>1, <1>3, <2>1 DEF Entry, Allows
    <3>2. ledger'[k].since = 1 /\ buckets'[k].tokens = Full - Cost
      BY <1>1, <2>1, <3>1 DEF Entry
    <3>3. Cost * 1 = Cost
      BY <1>3
    <3>4. Refill * (buckets'[k].lastRefill - ledger'[k].fullAt) = 0
      BY <1>1, <1>4, <3>1
    <3>. QED BY <1>3, <3>2, <3>3, <3>4
  <2>2. CASE b.tokens # Full
    <3>1. b.tokens < Full /\ ledger'[k].fullAt = ledger[k].fullAt
      BY <1>1, <1>3, <2>2 DEF Entry
    <3>2. CASE Allows(b)
      <4>1. ledger'[k].since = ledger[k].since + 1 /\ buckets'[k].tokens = b.tokens - Cost
        BY <1>1, <2>2, <3>2 DEF Entry
      <4>2. Cost * (ledger[k].since + 1) = Cost * ledger[k].since + Cost * 1
        BY <1>2, <1>3, ProductOfSum
      <4>3. Cost * 1 = Cost /\ Cost * ledger[k].since \in Int
        BY <1>2, <1>3
      <4>. QED BY <1>1, <1>2, <1>3, <3>1, <4>1, <4>2, <4>3
    <3>3. CASE ~Allows(b)
      <4>1. ledger'[k].since = ledger[k].since + 0 /\ buckets'[k].tokens = b.tokens
        BY <1>1, <2>2, <3>3 DEF Entry
      <4>. QED BY <1>1, <1>2, <3>1, <4>1
    <3>. QED BY <3>2, <3>3
  <2>. QED BY <2>1, <2>2
<1>6. ledger'[k].refusedAt # Never =>
        Refill * (buckets'[k].lastRefill - ledger'[k].refusedAt) <= buckets'[k].tokens
  <2>. SUFFICES ASSUME ~Allows(b)
                PROVE  Refill * (buckets'[k].lastRefill - ledger'[k].refusedAt)
                         <= buckets'[k].tokens
    BY <1>1 DEF Entry
  <2>1. b.tokens < Full /\ buckets'[k].tokens = b.tokens
    BY <1>1, <1>3 DEF Allows
  <2>2. CASE ledger[k].refusedAt = Never
    <3>1. ledger'[k].refusedAt = now[h]
      BY <1>1, <2>2 DEF Entry
    <3>. QED BY <1>1, <1>3, <1>4, <2>1, <3>1
  <2>3. CASE ledger[k].refusedAt # Never
    <3>1. ledger'[k].refusedAt = ledger[k].refusedAt
      BY <1>1, <2>3 DEF Entry
    <3>. QED BY <1>1, <1>2, <2>1, <2>3, <3>1
  <2>. QED BY <2>2, <2>3
<1>7. now[h] <= clock /\ clock \in Int /\ buckets'[k].lastRefill <= clock
  BY <1>1, <1>2, <1>3, BoundsAssumption DEF IInv, TypeOK, InBalance
<1>8. \A g \in Handlers : /\ now'[g] <= clock'
                          /\ pc'[g] = "consuming" => buckets'[key'[g]].lastRefill <= now'[g]
  BY OthersAreOutside DEF Consume, InBalance, IInv, TypeOK
<1>9. ASSUME NEW j \in DOMAIN buckets'
      PROVE  /\ buckets'[j].lastRefill <= clock'
             /\ buckets'[j].tokens + Cost * ledger'[j].since
                  = Full + Refill * (buckets'[j].lastRefill - ledger'[j].fullAt)
             /\ ledger'[j].refusedAt # Never =>
                  Refill * (buckets'[j].lastRefill - ledger'[j].refusedAt) <= buckets'[j].tokens
  <2>0. clock' = clock
    BY DEF Consume
  <2>1. CASE j = k
    BY <1>5, <1>6, <1>7, <2>0, <2>1
  <2>2. CASE j # k
    <3>1. buckets'[j] = buckets[j] /\ ledger'[j] = ledger[j] /\ j \in DOMAIN buckets
      BY <1>1, <2>2 DEF IInv, TypeOK
    <3>. QED BY <2>0, <3>1 DEF InBalance
  <2>. QED BY <2>1, <2>2
<1>. QED BY <1>8, <1>9 DEF InBalance

LEMMA InsertBalances ==
    ASSUME IInv, InBalance, NEW h \in Handlers, Insert(h)
    PROVE  InBalance'
<1>. DEFINE k == key[h]
<1>1. /\ k \in Keys /\ k \notin DOMAIN buckets /\ ledger[k].opened = Never
      /\ now[h] \in 0 .. MaxClock /\ now[h] <= clock /\ pc[h] = "inserting"
  BY DEF Insert, IInv, TypeOK, MutexGuardsMap, TokensAreCounted, InBalance
<1>2. /\ DOMAIN buckets' = DOMAIN buckets \cup {k}
      /\ buckets'[k] = NewBucket(now[h])
      /\ \A j \in DOMAIN buckets : j # k /\ buckets'[j] = buckets[j]
  BY <1>1 DEF Insert
<1>3. /\ ledger'[k] = Opened(now[h])
      /\ \A j \in Keys \ {k} : ledger'[j] = ledger[j]
      /\ clock' = clock /\ now' = now /\ key' = key
  BY <1>1 DEF Insert, IInv, TypeOK
<1>4. \A g \in Handlers : /\ now'[g] <= clock'
                          /\ pc'[g] = "consuming" => buckets'[key'[g]].lastRefill <= now'[g]
  <2>. SUFFICES ASSUME NEW g \in Handlers
                PROVE  /\ now'[g] <= clock'
                       /\ pc'[g] = "consuming" => buckets'[key'[g]].lastRefill <= now'[g]
    OBVIOUS
  <2>1. now'[g] <= clock'
    BY <1>3 DEF InBalance
  <2>2. CASE g = h
    BY <1>1, <1>2, <1>3, <2>1, <2>2, BoundsAssumption DEF NewBucket
  <2>3. CASE g # h
    BY <1>1, <2>1, <2>3, OthersAreOutside DEF Insert, IInv, TypeOK
  <2>. QED BY <2>2, <2>3
<1>5. ASSUME NEW j \in DOMAIN buckets'
      PROVE  /\ buckets'[j].lastRefill <= clock'
             /\ buckets'[j].tokens + Cost * ledger'[j].since
                  = Full + Refill * (buckets'[j].lastRefill - ledger'[j].fullAt)
             /\ ledger'[j].refusedAt # Never =>
                  Refill * (buckets'[j].lastRefill - ledger'[j].refusedAt) <= buckets'[j].tokens
  <2>1. CASE j = k
    <3>1. /\ buckets'[j].lastRefill = now[h] /\ buckets'[j].tokens = Full
          /\ ledger'[j].since = 0 /\ ledger'[j].fullAt = now[h] /\ ledger'[j].refusedAt = Never
      BY <1>2, <1>3, <2>1 DEF NewBucket, Opened
    <3>2. now[h] - now[h] = 0 /\ Refill * 0 = 0 /\ Cost * 0 = 0
      BY <1>1, BoundsAssumption, RefillAssumption, CostAssumption
    <3>. QED BY <1>1, <1>3, <3>1, <3>2, FullIsNat
  <2>2. CASE j # k
    <3>1. j \in DOMAIN buckets /\ j \in Keys
      BY <1>2, <2>2 DEF IInv, TypeOK
    <3>2. buckets'[j] = buckets[j] /\ ledger'[j] = ledger[j]
      BY <1>2, <1>3, <2>2, <3>1
    <3>. QED BY <1>3, <3>1, <3>2 DEF InBalance
  <2>. QED BY <2>1, <2>2
<1>. QED BY <1>4, <1>5 DEF InBalance

LEMMA NextBalances ==
    ASSUME ~slipped', IInv, InBalance, [Next]_vars
    PROVE  InBalance'
<1>1. ASSUME NEW h \in Handlers, Receive(h)
      PROVE  InBalance'
  BY <1>1 DEF IInv, TypeOK, Receive, InBalance
<1>2. ASSUME NEW h \in Handlers, Acquire(h)
      PROVE  InBalance'
  <2>1. clock \in Int /\ clock' = clock /\ buckets' = buckets /\ ledger' = ledger /\ key' = key
    BY <1>2, BoundsAssumption DEF IInv, TypeOK, Acquire
  <2>2. ASSUME NEW g \in Handlers
        PROVE  /\ now'[g] <= clock'
               /\ pc'[g] = "consuming" => buckets'[key'[g]].lastRefill <= now'[g]
    <3>1. CASE g = h
      <4>1. now'[g] = clock
        BY <1>2, <3>1 DEF Acquire, IInv, TypeOK
      <4>2. pc'[g] = "consuming" => key[g] \in DOMAIN buckets
        BY <1>2, <3>1 DEF Acquire, IInv, TypeOK
      <4>. QED BY <2>1, <4>1, <4>2 DEF InBalance
    <3>2. CASE g # h
      <4>1. now'[g] = now[g] /\ pc'[g] = pc[g]
        BY <1>2, <3>2 DEF Acquire, IInv, TypeOK
      <4>. QED BY <2>1, <4>1 DEF InBalance
    <3>. QED BY <3>1, <3>2
  <2>. QED BY <2>1, <2>2 DEF InBalance
<1>3. ASSUME NEW h \in Handlers, Insert(h) \/ Consume(h)
      PROVE  InBalance'
  BY <1>3, InsertBalances, ConsumeBalances
<1>4. ASSUME NEW h \in Handlers, Observe(h)
      PROVE  InBalance'
  BY <1>4 DEF IInv, TypeOK, Observe, InBalance
<1>5. CASE Restart
  <2>1. DOMAIN buckets' = {} /\ now' = now /\ clock' = clock
    BY <1>5 DEF Restart
  <2>2. \A g \in Handlers : pc'[g] = "idle"
    BY <1>5 DEF Restart
  <2>. QED BY <2>1, <2>2 DEF InBalance
<1>6. CASE Tick
  <2>1. clock \in Int /\ clock' = clock + 1 /\ now \in [Handlers -> Int]
        /\ \A k \in DOMAIN buckets : buckets[k].lastRefill \in Int
    BY <1>6, BoundsAssumption DEF IInv, TypeOK, Tick, Bucket
  <2>2. UNCHANGED <<buckets, pc, key, now, ledger>>
    BY <1>6 DEF Tick
  <2>. QED BY <2>1, <2>2 DEF InBalance
<1>7. CASE Done \/ UNCHANGED vars
  BY <1>7 DEF Done, vars, InBalance
<1>8. ~SetBack
  BY DEF SetBack
<1>. QED BY <1>1, <1>2, <1>3, <1>4, <1>5, <1>6, <1>7, <1>8 DEF Next, Handle

LEMMA InitBalances == Init => Balanced
<1>. SUFFICES ASSUME Init PROVE Balanced
  OBVIOUS
<1>1. DOMAIN buckets = {}
  BY DEF Init
<1>. QED BY <1>1 DEF Init, Balanced, InBalance

LEMMA SlipsAreRemembered ==
    ASSUME [Next]_vars, slipped
    PROVE  slipped'
<1>1. ASSUME NEW h \in Handlers,
             Receive(h) \/ Acquire(h) \/ Insert(h) \/ Consume(h) \/ Observe(h)
      PROVE  slipped' = slipped
  BY <1>1 DEF Receive, Acquire, Insert, Consume, Observe
<1>2. CASE Restart \/ Tick \/ Done \/ UNCHANGED vars
  BY <1>2 DEF Restart, Tick, Done, vars
<1>3. CASE SetBack
  BY <1>3 DEF SetBack
<1>. QED BY <1>1, <1>2, <1>3 DEF Next, Handle

(* Until the clock is set back, buckets hold exactly what is due.          *)
THEOREM LimiterBalances == Spec => [](IInv /\ Balanced)
<1>1. IInv /\ Balanced /\ [Next]_vars => (IInv /\ Balanced)'
  BY NextKeeps, NextBalances, SlipsAreRemembered DEF Balanced
<1>. QED BY InitEstablishes, InitBalances, <1>1, PTL DEF Spec

(* A step that refuses is the Consume of its handler.                      *)
LEMMA RefusalIsAConsume ==
    ASSUME IInv, Next, NEW h \in Handlers, Refuses(h)
    PROVE  /\ Consume(h)
           /\ ~Allows(Refilled(buckets[key[h]], now[h]))
<1>1. Consume(h)
  <2>1. ASSUME NEW g \in Handlers, Receive(g) \/ Acquire(g) \/ Insert(g) \/ Observe(g)
        PROVE  FALSE
    BY <2>1 DEF Refuses, IInv, TypeOK, Receive, Acquire, Insert, Observe
  <2>2. ASSUME NEW g \in Handlers, Consume(g)
        PROVE  Consume(h)
    BY <2>2 DEF Refuses, IInv, TypeOK, Consume
  <2>3. ~(Tick \/ SetBack \/ Done \/ Restart)
    BY DEF Refuses, Tick, SetBack, Done, vars, Restart
  <2>. QED BY <2>1, <2>2, <2>3 DEF Next, Handle
<1>2. pc'[h] = "refused"
  BY DEF Refuses
<1>. QED BY <1>1, <1>2, ConsumeEffect

(* Until the clock is set back, no request is refused a token its client   *)
(* had coming.                                                             *)
THEOREM RefusalsAreEarned == Spec => RefusalIsEarned
<1>1. ASSUME IInv, InBalance, Next, NEW h \in Handlers, Refuses(h)
      PROVE  Full + Refill * (now[h] - ledger[key[h]].fullAt)
               < Cost * (ledger[key[h]].since + 1)
  <2>. DEFINE entry == ledger[key[h]]
              b == Refilled(buckets[key[h]], now[h])
  <2>1. Consume(h) /\ ~Allows(b)
    BY <1>1, RefusalIsAConsume
  <2>2. /\ b \in Bucket /\ now[h] \in Int
        /\ entry.fullAt \in Int /\ entry.since \in Nat
        /\ \A x \in Int : Refill * (b.lastRefill - x) = Refill * (now[h] - x)
        /\ b.tokens < Full =>
             b.tokens + Cost * entry.since = Full + Refill * (b.lastRefill - entry.fullAt)
    BY <1>1, <2>1, ConsumeIsExact
  <2>. HIDE DEF b, entry
  <2>3. /\ b.tokens < Full /\ b.tokens < Cost /\ b.tokens \in Int
        /\ Full \in Int /\ Cost \in Int /\ Refill \in Int
    BY <2>1, <2>2, FullIsNat, CostAssumption, RefillAssumption DEF Bucket, Allows
  <2>4. Full + Refill * (now[h] - entry.fullAt) = b.tokens + Cost * entry.since
    BY <2>2, <2>3
  <2>5. Cost * (entry.since + 1) = Cost * entry.since + Cost * 1
        /\ Cost * 1 = Cost /\ Cost * entry.since \in Int
    BY <2>2, <2>3, ProductOfSum
  <2>. QED BY <2>3, <2>4, <2>5 DEF entry
<1>2. IInv /\ Balanced /\ [Next]_vars =>
        [\A h \in Handlers :
            Refuses(h) /\ ~slipped =>
              LET entry == ledger[key[h]] IN
              Full + Refill * (now[h] - entry.fullAt) < Cost * (entry.since + 1)]_vars
  BY <1>1 DEF Balanced
<1>. QED BY LimiterBalances, <1>2, PTL DEF Spec, RefusalIsEarned

(* A client refused twice waited for less than a token's refill.           *)
LEMMA RefusedTwiceIsSoon ==
    ASSUME IInv, InBalance, Next, NEW h \in Handlers,
           Refuses(h), ledger[key[h]].refusedAt # Never
    PROVE  /\ now[h] - ledger[key[h]].refusedAt \in Int
           /\ Refill * (now[h] - ledger[key[h]].refusedAt) < Cost
<1>. DEFINE t == ledger[key[h]].refusedAt
            b == Refilled(buckets[key[h]], now[h])
<1>1. Consume(h) /\ ~Allows(b)
  BY RefusalIsAConsume
<1>2. /\ b \in Bucket /\ now[h] \in Int /\ t \in Int
      /\ \A x \in Int : Refill * (b.lastRefill - x) = Refill * (now[h] - x)
      /\ b.tokens < Full /\ t # Never => Refill * (b.lastRefill - t) <= b.tokens
  BY <1>1, ConsumeIsExact
<1>3. t # Never
  OBVIOUS
<1>. HIDE DEF b, t
<1>4. /\ b.tokens < Full /\ b.tokens < Cost /\ b.tokens \in Int
      /\ Cost \in Int /\ Refill \in Nat
  BY <1>1, <1>2, FullIsNat, CostAssumption, RefillAssumption DEF Bucket, Allows
<1>5. Refill * (now[h] - t) <= b.tokens
  BY <1>2, <1>3, <1>4
<1>6. now[h] - t \in Int /\ Refill * (now[h] - t) \in Int
  BY <1>2, <1>4
<1>7. Refill * (now[h] - t) < Cost
  BY <1>4, <1>5, <1>6
<1>. QED BY <1>6, <1>7 DEF t

(* Where a second refills at least one token, a client that follows        *)
(* Retry-After is admitted, until the clock is set back.                   *)
THEOREM RetryAfterIsEnough ==
    ASSUME Second \in Nat, Refill * Second >= Cost
    PROVE  Spec => RetryAfterSuffices
<1>1. ASSUME IInv, InBalance, Next, NEW h \in Handlers,
             Refuses(h), ledger[key[h]].refusedAt # Never
      PROVE  now[h] < ledger[key[h]].refusedAt + Second
  <2>. DEFINE d == now[h] - ledger[key[h]].refusedAt
  <2>1. d \in Int /\ Refill * d < Cost
    BY <1>1, RefusedTwiceIsSoon
  <2>2. now[h] \in Int /\ ledger[key[h]].refusedAt \in Int
    BY <1>1, RefusalIsAConsume, ConsumeIsExact
  <2>. HIDE DEF d
  <2>3. d < Second
    <3>. SUFFICES ASSUME Second <= d PROVE FALSE
      BY <2>1
    <3>1. Refill * Second <= Refill * d
      BY <2>1, RefillAssumption, ProductGrows
    <3>2. Refill * Second \in Int /\ Refill * d \in Int /\ Cost \in Int
      BY <2>1, RefillAssumption, CostAssumption
    <3>. QED BY <2>1, <3>1, <3>2
  <2>. QED BY <2>2, <2>3 DEF d
<1>2. IInv /\ Balanced /\ [Next]_vars =>
        [\A h \in Handlers :
            Refuses(h) /\ ~slipped /\ ledger[key[h]].refusedAt # Never =>
              now[h] < ledger[key[h]].refusedAt + Second]_vars
  BY <1>1 DEF Balanced
<1>. QED BY LimiterBalances, <1>2, PTL DEF Spec, RetryAfterSuffices

-----------------------------------------------------------------------------
(* The safety half of EveryRequestDecided: the mutex is held by a handler  *)
(* on its way to the unlock, and by no one who waits or has gone.          *)
HolderIsAtWork == mutex # Nobody => pc[mutex] \in {"inserting", "consuming"}

(* No path of the handler keeps limiter.mu, neither that of a refused      *)
(* request nor that of a new client, and a restart leaves it free.         *)
THEOREM MutexIsGivenBack == Spec => []HolderIsAtWork
<1>1. Init => HolderIsAtWork
  BY DEF Init, HolderIsAtWork
<1>2. IInv /\ HolderIsAtWork /\ [Next]_vars => HolderIsAtWork'
  <2>. SUFFICES ASSUME IInv, HolderIsAtWork, [Next]_vars PROVE HolderIsAtWork'
    OBVIOUS
  <2>1. mutex \in Handlers \cup {Nobody} /\ DOMAIN pc = Handlers
    BY DEF IInv, TypeOK
  <2>2. ASSUME NEW h \in Handlers, Acquire(h) PROVE HolderIsAtWork'
    BY <2>1, <2>2 DEF Acquire, HolderIsAtWork
  <2>3. ASSUME NEW h \in Handlers, Insert(h) PROVE HolderIsAtWork'
    BY <2>1, <2>3 DEF Insert, HolderIsAtWork
  <2>4. ASSUME NEW h \in Handlers, Consume(h) PROVE HolderIsAtWork'
    BY <2>4 DEF Consume, HolderIsAtWork
  <2>5. ASSUME NEW h \in Handlers, Receive(h) \/ Observe(h) PROVE HolderIsAtWork'
    <3>1. mutex' = mutex /\ pc[h] \notin {"inserting", "consuming"}
      BY <2>5 DEF Receive, Observe
    <3>2. \A g \in Handlers \ {h} : pc'[g] = pc[g]
      BY <2>1, <2>5 DEF Receive, Observe
    <3>. QED BY <2>1, <3>1, <3>2 DEF HolderIsAtWork
  <2>6. CASE Restart
    BY <2>6 DEF Restart, HolderIsAtWork
  <2>7. CASE Tick \/ SetBack \/ Done \/ UNCHANGED vars
    BY <2>7 DEF Tick, SetBack, Done, vars, HolderIsAtWork
  <2>. QED BY <2>2, <2>3, <2>4, <2>5, <2>6, <2>7 DEF Next, Handle
<1>. QED BY <1>1, <1>2, LimiterInvariant, PTL DEF Spec
=============================================================================

-------------------------- MODULE BackendPoolProofs --------------------------
(***************************************************************************)
(* Proof that both methods of BackendPool give backends in turn, without a *)
(* panic, for any numbers of requests and backends, until the counter      *)
(* wraps.                                                                  *)
(***************************************************************************)
EXTENDS BackendPool, FiniteSetTheorems, TLAPS

(* Division with remainder, and what it says of the next number.           *)
LEMMA RemainderIsSmall ==
    ASSUME NEW n \in Int, NEW d \in Int, d > 0
    PROVE  n % d \in 0 .. d - 1
  BY SMTT(60)

LEMMA QuotientIsExact ==
    ASSUME NEW n \in Int, NEW d \in Int, d > 0
    PROVE  n % d = n - d * (n \div d)
  BY SMTT(60)

LEMMA QuotientIsInt ==
    ASSUME NEW n \in Int, NEW d \in Int, d > 0
    PROVE  n \div d \in Int
  BY SMTT(60)

LEMMA Remainder ==
    ASSUME NEW n \in Int, NEW d \in Int, d > 0,
           NEW q \in Int, NEW r \in 0 .. d - 1, n = d * q + r
    PROVE  n % d = r
  BY SMTT(60)

LEMMA Quotient ==
    ASSUME NEW n \in Int, NEW d \in Int, d > 0,
           NEW q \in Int, NEW r \in 0 .. d - 1, n = d * q + r
    PROVE  n \div d = q
  BY SMTT(60)

LEMMA NextRemainder ==
    ASSUME NEW n \in Int, NEW d \in Int, d > 0
    PROVE  ((n % d) + 1) % d = (n + 1) % d
<1>. DEFINE q == n \div d
            r == n % d
<1>1. r \in 0 .. d - 1 /\ q \in Int /\ n = d * q + r
  <2>1. r \in 0 .. d - 1
    BY RemainderIsSmall
  <2>2. q \in Int
    BY QuotientIsInt
  <2>3. r = n - d * q
    BY QuotientIsExact
  <2>. HIDE DEF q, r
  <2>. QED BY <2>1, <2>2, <2>3
<1>. HIDE DEF q, r
<1>2. CASE r + 1 < d
  <2>1. r + 1 \in 0 .. d - 1 /\ n + 1 = d * q + (r + 1)
    BY <1>1, <1>2
  <2>2. (n + 1) % d = r + 1
    BY <1>1, <2>1, Remainder
  <2>3. d * 0 = 0 /\ r + 1 = d * 0 + (r + 1)
    BY <2>1
  <2>4. (r + 1) % d = r + 1
    BY <2>1, <2>3, Remainder
  <2>. QED BY <2>2, <2>4 DEF r
<1>3. CASE r + 1 = d
  <2>1. d * (q + 1) = d * q + d
    BY <1>1
  <2>2. n + 1 = d * (q + 1) + 0 /\ 0 \in 0 .. d - 1 /\ q + 1 \in Int
    BY <1>1, <1>3, <2>1
  <2>3. (n + 1) % d = 0
    BY <1>1, <2>2, Remainder
  <2>4. d = d * 1 + 0
    OBVIOUS
  <2>5. d % d = 0
    BY <2>2, <2>4, Remainder
  <2>. QED BY <1>3, <2>3, <2>5 DEF r
<1>. QED BY <1>1, <1>2, <1>3

(* int64 arithmetic is exact below Half, and stays in its range.           *)
LEMMA WrapIsExact ==
    ASSUME NEW n \in Int, -Half <= n, n < Half
    PROVE  Wrap(n) = n
<1>1. Half \in Int /\ 2 * Half > 0 /\ 2 * Half \in Int
  BY HalfAssumption
<1>2. n + Half \in 0 .. 2 * Half - 1 /\ n + Half = (2 * Half) * 0 + (n + Half)
  BY <1>1
<1>3. (n + Half) % (2 * Half) = n + Half
  BY <1>1, <1>2, Remainder
<1>. QED BY <1>1, <1>3 DEF Wrap

LEMMA WrapIsInRange ==
    ASSUME NEW n \in Int
    PROVE  Wrap(n) \in -Half .. Half - 1
<1>1. Half \in Int /\ 2 * Half > 0 /\ 2 * Half \in Int /\ n + Half \in Int
  BY HalfAssumption
<1>2. (n + Half) % (2 * Half) \in 0 .. 2 * Half - 1
  BY <1>1, RemainderIsSmall
<1>. QED BY <1>1, <1>2 DEF Wrap

(* The number a request draws, also the last one before the counter wraps. *)
LEMMA NumberDrawn ==
    ASSUME NEW n \in Nat, n < Half
    PROVE  Wrap(Wrap(n + 1) - 1) = n
<1>1. Half \in Int /\ Half > 0 /\ 2 * Half > 0 /\ 2 * Half \in Int
  BY HalfAssumption
<1>2. CASE n + 1 < Half
  <2>1. Wrap(n + 1) = n + 1
    BY <1>1, <1>2, WrapIsExact
  <2>2. Wrap(n) = n
    BY <1>1, WrapIsExact
  <2>. QED BY <2>1, <2>2
<1>3. CASE n + 1 = Half
  <2>1. 2 * Half = (2 * Half) * 1 + 0 /\ 0 \in 0 .. 2 * Half - 1
    BY <1>1
  <2>2. (2 * Half) % (2 * Half) = 0
    BY <1>1, <2>1, Remainder
  <2>3. n + 1 + Half = 2 * Half
    BY <1>1, <1>3
  <2>4. Wrap(n + 1) = -Half
    BY <1>1, <2>2, <2>3 DEF Wrap
  <2>5. -1 = (2 * Half) * (-1) + (2 * Half - 1) /\ 2 * Half - 1 \in 0 .. 2 * Half - 1
    BY <1>1
  <2>6. (-1) % (2 * Half) = 2 * Half - 1
    BY <1>1, <2>5, Remainder
  <2>7. (-Half) - 1 + Half = -1
    BY <1>1
  <2>8. Wrap((-Half) - 1) = Half - 1
    BY <1>1, <2>6, <2>7 DEF Wrap
  <2>. QED BY <1>1, <1>3, <2>4, <2>8
<1>. QED BY <1>1, <1>2, <1>3

LEMMA IndexIsValid ==
    ASSUME NEW n \in Nat
    PROVE  Rem(n, Count) = n % Count /\ n % Count \in 0 .. Count - 1
<1>1. Count \in Int /\ Count > 0
  BY CountAssumption
<1>2. n % Count \in 0 .. Count - 1
  BY <1>1, RemainderIsSmall
<1>. QED BY <1>2 DEF Rem

LEMMA IndexIsBounded ==
    ASSUME NEW n \in Int
    PROVE  Rem(n, Count) \in Int /\ (Rem(n, Count) >= 0 => Rem(n, Count) \in 0 .. Count - 1)
<1>1. Count \in Int /\ Count > 0
  BY CountAssumption
<1>2. CASE n >= 0
  BY <1>2, IndexIsValid, <1>1
<1>3. CASE n < 0
  <2>1. -n \in Int
    OBVIOUS
  <2>2. (-n) % Count \in 0 .. Count - 1
    BY <1>1, <2>1, RemainderIsSmall
  <2>3. Rem(n, Count) = -((-n) % Count)
    BY <1>3 DEF Rem
  <2>. QED BY <1>1, <2>2, <2>3
<1>. QED BY <1>2, <1>3

-----------------------------------------------------------------------------
PoolInv == TypeOK /\ CounterCounts /\ PanicsOnlyAfterWrap

LEMMA InitPool == Init => PoolInv
<1>. SUFFICES ASSUME Init PROVE PoolInv
  OBVIOUS
<1>1. Wrap(0) = 0
  BY WrapIsExact, HalfAssumption
<1>2. TypeOK
  <2>1. /\ current \in -Half .. Half - 1 /\ drawn \in 0 .. MaxRequests
        /\ ticket \in [Handlers -> -Half .. Half - 1]
    BY HalfAssumption, RequestsAssumption DEF Init
  <2>2. /\ method \in {"atomic", "mutex"}
        /\ pc \in [Handlers -> {"idle", "indexing", "forwarding"}]
        /\ backend \in [Handlers -> 0 .. Count - 1 \cup {Unset}]
        /\ served \in [0 .. Count - 1 -> Nat]
        /\ panicked \in BOOLEAN
    BY DEF Init
  <2>. QED BY <2>1, <2>2 DEF TypeOK
<1>3. CounterCounts
  BY <1>1 DEF Init, CounterCounts
<1>. QED BY <1>2, <1>3 DEF PoolInv, Init, PanicsOnlyAfterWrap

(* What a request gets for an index in Go's range.                         *)
LEMMA GiveKeepsTypes ==
    ASSUME TypeOK, NEW h \in Handlers, NEW i \in Int, Give(h, i),
           i >= 0 => i \in 0 .. Count - 1
    PROVE  /\ pc' \in [Handlers -> {"idle", "indexing", "forwarding"}]
           /\ backend' \in [Handlers -> 0 .. Count - 1 \cup {Unset}]
           /\ served' \in [0 .. Count - 1 -> Nat]
           /\ panicked' \in BOOLEAN
<1>1. CASE i >= 0
  <2>1. i \in 0 .. Count - 1
    BY <1>1
  <2>2. /\ pc' = [pc EXCEPT ![h] = "forwarding"]
        /\ backend' = [backend EXCEPT ![h] = i]
        /\ served' = [served EXCEPT ![i] = @ + 1]
        /\ panicked' = panicked
    BY <1>1 DEF Give
  <2>3. served \in [0 .. Count - 1 -> Nat] /\ served[i] + 1 \in Nat
    BY <2>1 DEF TypeOK
  <2>4. served' \in [0 .. Count - 1 -> Nat]
    BY <2>2, <2>3
  <2>5. backend' \in [Handlers -> 0 .. Count - 1 \cup {Unset}]
    BY <2>1, <2>2 DEF TypeOK
  <2>6. pc' \in [Handlers -> {"idle", "indexing", "forwarding"}] /\ panicked' \in BOOLEAN
    BY <2>2 DEF TypeOK
  <2>. QED BY <2>4, <2>5, <2>6
<1>2. CASE ~(i >= 0)
  BY <1>2 DEF Give, TypeOK
<1>. QED BY <1>1, <1>2

LEMMA GiveKeepsBackends ==
    ASSUME TypeOK, NEW h \in Handlers, NEW i \in Int, Give(h, i),
           i >= 0 => i \in 0 .. Count - 1,
           pc[h] # "forwarding",
           \A g \in Handlers : backend[g] = Unset <=> pc[g] # "forwarding"
    PROVE  \A g \in Handlers : backend'[g] = Unset <=> pc'[g] # "forwarding"
<1>. SUFFICES ASSUME NEW g \in Handlers
              PROVE  backend'[g] = Unset <=> pc'[g] # "forwarding"
  OBVIOUS
<1>0. backend[g] = Unset <=> pc[g] # "forwarding"
  OBVIOUS
<1>1. CASE i >= 0
  <2>1. i # Unset
    BY <1>1, UnsetAssumption
  <2>2. /\ pc' = [pc EXCEPT ![h] = "forwarding"]
        /\ backend' = [backend EXCEPT ![h] = i]
    BY <1>1 DEF Give
  <2>. QED BY <1>0, <2>1, <2>2 DEF TypeOK
<1>2. CASE ~(i >= 0)
  <2>1. pc' = [pc EXCEPT ![h] = "idle"] /\ backend' = backend
    BY <1>2 DEF Give
  <2>. QED BY <1>0, <2>1 DEF TypeOK
<1>. QED BY <1>1, <1>2

(* Where the counter stands while it did not wrap.                         *)
LEMMA CounterIsExact ==
    ASSUME PoolInv, drawn < Half
    PROVE  drawn \in Nat /\ current = drawn /\ current \in Nat
<1>1. drawn \in Nat /\ Half \in Int /\ -Half <= drawn
  BY HalfAssumption, RequestsAssumption DEF PoolInv, TypeOK
<1>2. current = Wrap(drawn)
  BY <1>1 DEF PoolInv, CounterCounts
<1>. QED BY <1>1, <1>2, WrapIsExact

LEMMA IncrementPool ==
    ASSUME PoolInv, NEW h \in Handlers, Increment(h)
    PROVE  /\ PoolInv'
           /\ drawn' <= Half => ticket' = [ticket EXCEPT ![h] = drawn]
<1>0. /\ Half \in Int /\ Half > 0 /\ current \in Int /\ drawn \in Nat
      /\ drawn < MaxRequests /\ MaxRequests \in Int
      /\ drawn' = drawn + 1 /\ current' = Wrap(current + 1)
      /\ ticket' = [ticket EXCEPT ![h] = Wrap(current' - 1)]
      /\ pc' = [pc EXCEPT ![h] = "indexing"] /\ pc[h] = "idle"
      /\ UNCHANGED <<method, backend, served, panicked>>
  BY HalfAssumption, RequestsAssumption DEF PoolInv, TypeOK, Increment
<1>1. current' \in -Half .. Half - 1 /\ current' \in Int
  BY <1>0, WrapIsInRange
<1>2. Wrap(current' - 1) \in -Half .. Half - 1
  BY <1>1, WrapIsInRange
<1>3. ASSUME drawn' <= Half
      PROVE  current' = Wrap(drawn') /\ Wrap(current' - 1) = drawn
  <2>1. drawn < Half
    BY <1>0, <1>3
  <2>2. current = drawn
    BY <2>1, CounterIsExact
  <2>3. current' = Wrap(drawn + 1)
    BY <1>0, <2>2
  <2>. QED BY <1>0, <2>1, <2>3, NumberDrawn
<1>4. TypeOK'
  <2>1. ticket' \in [Handlers -> -Half .. Half - 1]
    BY <1>0, <1>2 DEF PoolInv, TypeOK
  <2>2. drawn' \in 0 .. MaxRequests
    BY <1>0
  <2>. QED BY <1>0, <1>1, <2>1, <2>2 DEF PoolInv, TypeOK
<1>5. CounterCounts'
  <2>1. ASSUME drawn' <= Half, NEW g \in Handlers, pc'[g] = "indexing"
        PROVE  ticket'[g] \in 0 .. drawn' - 1
    <3>1. CASE g = h
      BY <1>0, <1>3, <2>1, <3>1 DEF PoolInv, TypeOK
    <3>2. CASE g # h
      <4>1. pc[g] = "indexing" /\ ticket'[g] = ticket[g]
        BY <1>0, <2>1, <3>2 DEF PoolInv, TypeOK
      <4>2. ticket[g] \in 0 .. drawn - 1
        BY <1>0, <2>1, <4>1 DEF PoolInv, CounterCounts
      <4>. QED BY <1>0, <4>1, <4>2
    <3>. QED BY <3>1, <3>2
  <2>2. \A g \in Handlers : backend'[g] = Unset <=> pc'[g] # "forwarding"
    BY <1>0 DEF PoolInv, TypeOK, CounterCounts
  <2>. QED BY <1>3, <2>1, <2>2 DEF CounterCounts
<1>6. PanicsOnlyAfterWrap'
  BY <1>0 DEF PoolInv, PanicsOnlyAfterWrap
<1>. QED BY <1>0, <1>3, <1>4, <1>5, <1>6 DEF PoolInv

LEMMA IndexPool ==
    ASSUME PoolInv, NEW h \in Handlers, Index(h)
    PROVE  /\ PoolInv'
           /\ drawn <= Half => /\ backend' = [backend EXCEPT ![h] = ticket[h] % Count]
                               /\ pc' = [pc EXCEPT ![h] = "forwarding"]
<1>. DEFINE i == Rem(ticket[h], Count)
<1>0. /\ ticket[h] \in Int /\ pc[h] = "indexing" /\ Give(h, i)
      /\ UNCHANGED <<method, current, ticket, drawn>>
  BY HalfAssumption DEF PoolInv, TypeOK, Index
<1>1. i \in Int /\ (i >= 0 => i \in 0 .. Count - 1)
  BY <1>0, IndexIsBounded
<1>2. ASSUME drawn <= Half
      PROVE  i = ticket[h] % Count /\ i >= 0
  <2>1. ticket[h] \in Nat
    BY <1>0, <1>2 DEF PoolInv, CounterCounts
  <2>. QED BY <2>1, IndexIsValid, CountAssumption
<1>. HIDE DEF i
<1>3. TypeOK'
  BY <1>0, <1>1, GiveKeepsTypes DEF PoolInv, TypeOK
<1>4. \A g \in Handlers : backend'[g] = Unset <=> pc'[g] # "forwarding"
  BY <1>0, <1>1, GiveKeepsBackends DEF PoolInv, CounterCounts
<1>5. CounterCounts'
  <2>1. ASSUME NEW g \in Handlers, pc'[g] = "indexing"
        PROVE  pc[g] = "indexing"
    BY <1>0, <1>1, <2>1 DEF Give, PoolInv, TypeOK
  <2>. QED BY <1>0, <1>4, <2>1 DEF PoolInv, CounterCounts
<1>6. PanicsOnlyAfterWrap'
  BY <1>0, <1>2 DEF Give, PoolInv, PanicsOnlyAfterWrap
<1>. QED BY <1>2, <1>0, <1>3, <1>5, <1>6 DEF PoolInv, Give

LEMMA ChoosePool ==
    ASSUME PoolInv, NEW h \in Handlers, ChooseLocked(h)
    PROVE  /\ PoolInv'
           /\ drawn < Half => /\ backend' = [backend EXCEPT ![h] = current % Count]
                              /\ pc' = [pc EXCEPT ![h] = "forwarding"]
                              /\ current' = Wrap(current + 1)
<1>. DEFINE i == Rem(current, Count)
<1>0. /\ Half \in Int /\ Half > 0 /\ current \in Int /\ drawn \in Nat
      /\ current \in -Half .. Half - 1
      /\ drawn < MaxRequests /\ MaxRequests \in Int
      /\ drawn' = drawn + 1 /\ pc[h] = "idle" /\ Give(h, i)
      /\ current' = IF i >= 0 THEN Wrap(current + 1) ELSE current
      /\ UNCHANGED <<method, ticket>>
  BY HalfAssumption, RequestsAssumption DEF PoolInv, TypeOK, ChooseLocked
<1>1. i \in Int /\ (i >= 0 => i \in 0 .. Count - 1)
  BY <1>0, IndexIsBounded
<1>2. ASSUME drawn < Half
      PROVE  /\ i = current % Count /\ i >= 0
             /\ current = drawn
  <2>1. current \in Nat /\ current = drawn
    BY <1>2, CounterIsExact
  <2>. QED BY <2>1, IndexIsValid, CountAssumption
<1>3. current' \in -Half .. Half - 1
  BY <1>0, WrapIsInRange
<1>. HIDE DEF i
<1>4. TypeOK'
  <2>1. drawn' \in 0 .. MaxRequests
    BY <1>0
  <2>. QED BY <1>0, <1>1, <1>3, <2>1, GiveKeepsTypes DEF PoolInv, TypeOK
<1>5. \A g \in Handlers : backend'[g] = Unset <=> pc'[g] # "forwarding"
  BY <1>0, <1>1, GiveKeepsBackends DEF PoolInv, CounterCounts
<1>6. CounterCounts'
  <2>1. ASSUME drawn' <= Half
        PROVE  current' = Wrap(drawn')
    BY <1>0, <1>2, <2>1
  <2>2. ASSUME drawn' <= Half, NEW g \in Handlers, pc'[g] = "indexing"
        PROVE  ticket'[g] \in 0 .. drawn' - 1
    <3>1. pc[g] = "indexing"
      BY <1>0, <1>1, <2>2 DEF Give, PoolInv, TypeOK
    <3>2. ticket[g] \in 0 .. drawn - 1
      BY <1>0, <2>2, <3>1 DEF PoolInv, CounterCounts
    <3>. QED BY <1>0, <3>2
  <2>. QED BY <1>5, <2>1, <2>2 DEF CounterCounts
<1>7. PanicsOnlyAfterWrap'
  BY <1>0, <1>2 DEF Give, PoolInv, PanicsOnlyAfterWrap
<1>. QED BY <1>0, <1>2, <1>4, <1>6, <1>7 DEF PoolInv, Give

LEMMA ForwardPool ==
    ASSUME PoolInv, NEW h \in Handlers, Forward(h)
    PROVE  PoolInv'
<1>1. TypeOK'
  BY DEF PoolInv, TypeOK, Forward
<1>2. CounterCounts'
  BY DEF PoolInv, TypeOK, CounterCounts, Forward
<1>3. PanicsOnlyAfterWrap'
  BY DEF PoolInv, PanicsOnlyAfterWrap, Forward
<1>. QED BY <1>1, <1>2, <1>3 DEF PoolInv

LEMMA NextPool ==
    ASSUME PoolInv, [Next]_vars
    PROVE  PoolInv'
<1>1. ASSUME NEW h \in Handlers,
             Increment(h) \/ Index(h) \/ ChooseLocked(h) \/ Forward(h)
      PROVE  PoolInv'
  BY <1>1, IncrementPool, IndexPool, ChoosePool, ForwardPool
<1>2. CASE Done \/ UNCHANGED vars
  BY <1>2 DEF Done, vars, PoolInv, TypeOK, CounterCounts, PanicsOnlyAfterWrap
<1>. QED BY <1>1, <1>2 DEF Next

LEMMA PoolInvariance == Spec => []PoolInv
<1>1. PoolInv /\ [Next]_vars => PoolInv'
  BY NextPool
<1>. QED BY InitPool, <1>1, PTL DEF Spec

(* No index is negative, so no request panics, before int64 wraps.         *)
THEOREM NoPanicBeforeWrap == Spec => []PanicsOnlyAfterWrap
<1>1. PoolInv => PanicsOnlyAfterWrap
  BY DEF PoolInv
<1>. QED BY PoolInvariance, <1>1, PTL

(* Every variable of the pool has its type, int64 overflow included.       *)
THEOREM PoolTypeCorrect == Spec => []TypeOK
<1>1. PoolInv => TypeOK
  BY DEF PoolInv
<1>. QED BY PoolInvariance, <1>1, PTL

(* The counter counts the requests, tickets are numbers it went through,   *)
(* and a request has a backend exactly while it is forwarded.              *)
THEOREM CounterIsTheCount == Spec => []CounterCounts
<1>1. PoolInv => CounterCounts
  BY DEF PoolInv
<1>. QED BY PoolInvariance, <1>1, PTL

-----------------------------------------------------------------------------
(* The share of each backend, exactly: of the first n requests, every      *)
(* backend gets the whole rounds, and those below the remainder one more.  *)
Turns(n, i) == n \div Count + IF i < n % Count THEN 1 ELSE 0

\* Requests that drew a ticket for backend i and do not have it yet.
Pending(i) ==
    {h \in Handlers : pc[h] = "indexing" /\ Rem(ticket[h], Count) = i}

SharesAreTurns ==
    \A i \in 0 .. Count - 1 :
        /\ IsFiniteSet(Pending(i))
        /\ drawn <= Half => Share(i) = Turns(drawn, i)

LEMMA ShareIsServedAndPending ==
    ASSUME NEW i
    PROVE  /\ Share(i) = served[i] + Cardinality(Pending(i))
           /\ Share(i)' = served'[i] + Cardinality(Pending(i)')
  BY DEF Share, Pending

LEMMA NextTurn ==
    ASSUME NEW n \in Nat, NEW i \in 0 .. Count - 1
    PROVE  /\ Turns(n, i) \in Int
           /\ Turns(n + 1, i) = IF i = n % Count THEN Turns(n, i) + 1 ELSE Turns(n, i)
<1>. DEFINE q == n \div Count
            r == n % Count
<1>0. Count \in Int /\ Count > 0 /\ n \in Int /\ n + 1 \in Int
  BY CountAssumption
<1>1. r \in 0 .. Count - 1 /\ q \in Int /\ n = Count * q + r
  <2>1. r \in 0 .. Count - 1
    BY <1>0, RemainderIsSmall
  <2>2. q \in Int
    BY <1>0, QuotientIsInt
  <2>3. r = n - Count * q
    BY <1>0, QuotientIsExact
  <2>. HIDE DEF q, r
  <2>. QED BY <1>0, <2>1, <2>2, <2>3
<1>2. Turns(n, i) = q + IF i < r THEN 1 ELSE 0
  BY DEF Turns
<1>3. r = n % Count
  OBVIOUS
<1>. HIDE DEF q, r
<1>4. CASE r + 1 < Count
  <2>1. r + 1 \in 0 .. Count - 1 /\ n + 1 = Count * q + (r + 1)
    BY <1>0, <1>1, <1>4
  <2>2. (n + 1) % Count = r + 1
    BY <1>0, <1>1, <2>1, Remainder
  <2>3. (n + 1) \div Count = q
    BY <1>0, <1>1, <2>1, Quotient
  <2>4. Turns(n + 1, i) = q + IF i < r + 1 THEN 1 ELSE 0
    BY <2>2, <2>3 DEF Turns
  <2>. QED BY <1>1, <1>2, <1>3, <2>4
<1>5. CASE r + 1 = Count
  <2>1. Count * (q + 1) = Count * q + Count
    BY <1>0, <1>1
  <2>2. n + 1 = Count * (q + 1) + 0 /\ 0 \in 0 .. Count - 1 /\ q + 1 \in Int
    BY <1>0, <1>1, <1>5, <2>1
  <2>3. (n + 1) % Count = 0
    BY <1>0, <2>2, Remainder
  <2>4. (n + 1) \div Count = q + 1
    BY <1>0, <2>2, Quotient
  <2>5. Turns(n + 1, i) = (q + 1) + IF i < 0 THEN 1 ELSE 0
    BY <2>3, <2>4 DEF Turns
  <2>. QED BY <1>0, <1>1, <1>2, <1>3, <1>5, <2>5
<1>. QED BY <1>0, <1>1, <1>4, <1>5

LEMMA InitShares == Init => SharesAreTurns
<1>. SUFFICES ASSUME Init, NEW i \in 0 .. Count - 1
              PROVE  IsFiniteSet(Pending(i)) /\ Share(i) = Turns(drawn, i)
  BY DEF SharesAreTurns
<1>0. Count \in Int /\ Count > 0 /\ 0 \in 0 .. Count - 1 /\ 0 = Count * 0 + 0
  BY CountAssumption
<1>1. Pending(i) = {}
  BY DEF Init, Pending
<1>2. IsFiniteSet(Pending(i)) /\ Cardinality(Pending(i)) = 0
  BY <1>1, FS_EmptySet
<1>3. served[i] = 0 /\ drawn = 0
  BY DEF Init
<1>4. 0 % Count = 0 /\ 0 \div Count = 0
  BY <1>0, Remainder, Quotient
<1>5. Turns(drawn, i) = 0
  BY <1>3, <1>4 DEF Turns
<1>. QED BY <1>2, <1>3, <1>5, ShareIsServedAndPending

LEMMA IncrementShares ==
    ASSUME PoolInv, SharesAreTurns, NEW h \in Handlers, Increment(h)
    PROVE  SharesAreTurns'
<1>. SUFFICES ASSUME NEW i \in 0 .. Count - 1
              PROVE  /\ IsFiniteSet(Pending(i)')
                     /\ drawn' <= Half => Share(i)' = Turns(drawn', i)
  BY DEF SharesAreTurns
<1>0. /\ drawn \in Nat /\ Half \in Int /\ drawn' = drawn + 1
      /\ pc[h] = "idle" /\ pc' = [pc EXCEPT ![h] = "indexing"]
      /\ ticket' = [ticket EXCEPT ![h] = Wrap(current' - 1)]
      /\ served' = served
  BY HalfAssumption, RequestsAssumption DEF PoolInv, TypeOK, Increment
<1>1. IsFiniteSet(Pending(i)) /\ Cardinality(Pending(i)) \in Nat /\ h \notin Pending(i)
  BY <1>0, FS_CardinalityType DEF SharesAreTurns, Pending
<1>2. Pending(i)' = IF Rem(ticket'[h], Count) = i THEN Pending(i) \cup {h} ELSE Pending(i)
  <2>1. pc'[h] = "indexing"
    BY <1>0 DEF PoolInv, TypeOK
  <2>2. \A g \in Handlers \ {h} : pc'[g] = pc[g] /\ ticket'[g] = ticket[g]
    BY <1>0 DEF PoolInv, TypeOK
  <2>. QED BY <1>1, <2>1, <2>2 DEF Pending
<1>3. /\ IsFiniteSet(Pending(i) \cup {h})
      /\ Cardinality(Pending(i) \cup {h}) = Cardinality(Pending(i)) + 1
  BY <1>1, FS_AddElement
<1>4. IsFiniteSet(Pending(i)')
  BY <1>1, <1>2, <1>3
<1>5. ASSUME drawn' <= Half
      PROVE  Share(i)' = Turns(drawn', i)
  <2>1. Rem(ticket'[h], Count) = drawn % Count
    <3>1. ticket'[h] = drawn
      BY <1>5, IncrementPool DEF PoolInv, TypeOK
    <3>. QED BY <1>0, <3>1, IndexIsValid
  <2>2. Share(i) = Turns(drawn, i)
    BY <1>0, <1>5 DEF SharesAreTurns
  <2>3. Turns(drawn', i) = IF i = drawn % Count THEN Turns(drawn, i) + 1 ELSE Turns(drawn, i)
    BY <1>0, NextTurn
  <2>4. served[i] \in Nat
    BY DEF PoolInv, TypeOK
  <2>5. CASE i = drawn % Count
    <3>1. Cardinality(Pending(i)') = Cardinality(Pending(i)) + 1
      BY <1>2, <1>3, <2>1, <2>5
    <3>2. Share(i)' = served[i] + (Cardinality(Pending(i)) + 1)
      BY <1>0, <3>1, ShareIsServedAndPending
    <3>3. Share(i) = served[i] + Cardinality(Pending(i))
      BY ShareIsServedAndPending
    <3>. QED BY <1>1, <2>2, <2>3, <2>4, <2>5, <3>2, <3>3
  <2>6. CASE i # drawn % Count
    <3>1. Pending(i)' = Pending(i)
      BY <1>2, <2>1, <2>6
    <3>2. Share(i)' = Share(i)
      BY <1>0, <3>1, ShareIsServedAndPending
    <3>. QED BY <2>2, <2>3, <2>6, <3>2
  <2>. QED BY <2>5, <2>6
<1>. QED BY <1>4, <1>5

LEMMA IndexShares ==
    ASSUME PoolInv, SharesAreTurns, NEW h \in Handlers, Index(h)
    PROVE  SharesAreTurns'
<1>. SUFFICES ASSUME NEW i \in 0 .. Count - 1
              PROVE  /\ IsFiniteSet(Pending(i)')
                     /\ drawn' <= Half => Share(i)' = Turns(drawn', i)
  BY DEF SharesAreTurns
<1>. DEFINE k == Rem(ticket[h], Count)
<1>0. /\ ticket[h] \in Int /\ pc[h] = "indexing" /\ Give(h, k)
      /\ UNCHANGED <<method, current, ticket, drawn>>
  BY HalfAssumption DEF PoolInv, TypeOK, Index
<1>1. IsFiniteSet(Pending(i)) /\ Cardinality(Pending(i)) \in Nat
  BY FS_CardinalityType DEF SharesAreTurns
<1>2. h \in Pending(i) <=> i = k
  BY <1>0 DEF Pending
<1>. HIDE DEF k
<1>3. Pending(i)' = Pending(i) \ {h}
  <2>1. pc'[h] # "indexing" /\ \A g \in Handlers \ {h} : pc'[g] = pc[g]
    BY <1>0 DEF Give, PoolInv, TypeOK
  <2>. QED BY <1>0, <2>1 DEF Pending
<1>4. /\ IsFiniteSet(Pending(i)')
      /\ Cardinality(Pending(i)') = IF i = k THEN Cardinality(Pending(i)) - 1
                                             ELSE Cardinality(Pending(i))
  <2>1. /\ IsFiniteSet(Pending(i) \ {h})
        /\ Cardinality(Pending(i) \ {h}) = IF h \in Pending(i)
                                             THEN Cardinality(Pending(i)) - 1
                                             ELSE Cardinality(Pending(i))
    BY <1>1, FS_RemoveElement
  <2>. QED BY <1>2, <1>3, <2>1
<1>5. ASSUME drawn' <= Half
      PROVE  Share(i)' = Share(i)
  <2>1. ticket[h] \in Nat
    BY <1>0, <1>5 DEF PoolInv, CounterCounts
  <2>2. k \in 0 .. Count - 1 /\ k >= 0
    BY <2>1, IndexIsValid, CountAssumption DEF k
  <2>3. served' = [served EXCEPT ![k] = @ + 1]
    BY <1>0, <2>2 DEF Give
  <2>4. served[i] \in Nat /\ served'[i] = IF i = k THEN served[i] + 1 ELSE served[i]
    BY <2>2, <2>3 DEF PoolInv, TypeOK
  <2>5. served'[i] + Cardinality(Pending(i)') = served[i] + Cardinality(Pending(i))
    BY <1>1, <1>4, <2>4
  <2>. QED BY <2>5, ShareIsServedAndPending
<1>. QED BY <1>0, <1>4, <1>5 DEF SharesAreTurns

LEMMA ChooseShares ==
    ASSUME PoolInv, SharesAreTurns, NEW h \in Handlers, ChooseLocked(h)
    PROVE  SharesAreTurns'
<1>. SUFFICES ASSUME NEW i \in 0 .. Count - 1
              PROVE  /\ IsFiniteSet(Pending(i)')
                     /\ drawn' <= Half => Share(i)' = Turns(drawn', i)
  BY DEF SharesAreTurns
<1>. DEFINE k == Rem(current, Count)
<1>0. /\ drawn \in Nat /\ Half \in Int /\ drawn' = drawn + 1
      /\ pc[h] = "idle" /\ Give(h, k) /\ ticket' = ticket
  BY HalfAssumption, RequestsAssumption DEF PoolInv, TypeOK, ChooseLocked
<1>1. IsFiniteSet(Pending(i)) /\ Cardinality(Pending(i)) \in Nat
  BY FS_CardinalityType DEF SharesAreTurns
<1>. HIDE DEF k
<1>2. Pending(i)' = Pending(i)
  <2>1. pc'[h] # "indexing" /\ \A g \in Handlers \ {h} : pc'[g] = pc[g]
    BY <1>0 DEF Give, PoolInv, TypeOK
  <2>. QED BY <1>0, <2>1 DEF Pending
<1>3. ASSUME drawn' <= Half
      PROVE  Share(i)' = Turns(drawn', i)
  <2>1. current = drawn
    BY <1>0, <1>3, CounterIsExact
  <2>2. k = drawn % Count /\ k \in 0 .. Count - 1 /\ k >= 0
    BY <1>0, <2>1, IndexIsValid, CountAssumption DEF k
  <2>3. served' = [served EXCEPT ![k] = @ + 1]
    BY <1>0, <2>2 DEF Give
  <2>4. served[i] \in Nat /\ served'[i] = IF i = k THEN served[i] + 1 ELSE served[i]
    BY <2>2, <2>3 DEF PoolInv, TypeOK
  <2>5. Share(i)' = IF i = k THEN Share(i) + 1 ELSE Share(i)
    BY <1>1, <1>2, <2>4, ShareIsServedAndPending
  <2>6. Share(i) = Turns(drawn, i)
    BY <1>0, <1>3 DEF SharesAreTurns
  <2>7. Turns(drawn', i) = IF i = drawn % Count THEN Turns(drawn, i) + 1 ELSE Turns(drawn, i)
    BY <1>0, NextTurn
  <2>. QED BY <2>2, <2>5, <2>6, <2>7
<1>. QED BY <1>1, <1>2, <1>3

LEMMA ForwardShares ==
    ASSUME PoolInv, SharesAreTurns, NEW h \in Handlers, Forward(h)
    PROVE  SharesAreTurns'
<1>. SUFFICES ASSUME NEW i \in 0 .. Count - 1
              PROVE  Pending(i)' = Pending(i) /\ Share(i)' = Share(i) /\ drawn' = drawn
  BY DEF SharesAreTurns, Turns
<1>1. pc[h] # "indexing" /\ pc' = [pc EXCEPT ![h] = "idle"]
      /\ UNCHANGED <<ticket, served, drawn>>
  BY DEF Forward
<1>2. Pending(i)' = Pending(i)
  BY <1>1 DEF Pending, PoolInv, TypeOK
<1>. QED BY <1>1, <1>2, ShareIsServedAndPending

(* No backend is ever two requests ahead of another, whoever is between    *)
(* the increment and the lookup: the share of each is its turns.           *)
THEOREM SharesAreFair == Spec => []FairShare
<1>1. PoolInv /\ SharesAreTurns /\ [Next]_vars => SharesAreTurns'
  <2>. SUFFICES ASSUME PoolInv, SharesAreTurns, [Next]_vars
                PROVE  SharesAreTurns'
    OBVIOUS
  <2>1. ASSUME NEW h \in Handlers,
               Increment(h) \/ Index(h) \/ ChooseLocked(h) \/ Forward(h)
        PROVE  SharesAreTurns'
    BY <2>1, IncrementShares, IndexShares, ChooseShares, ForwardShares
  <2>2. CASE UNCHANGED vars
    BY <2>2 DEF vars, SharesAreTurns, Pending, Share, Turns
  <2>. QED BY <2>1, <2>2 DEF Next, Done
<1>2. PoolInv /\ SharesAreTurns => FairShare
  <2>. SUFFICES ASSUME PoolInv, SharesAreTurns, drawn <= Half,
                       NEW i \in 0 .. Count - 1, NEW j \in 0 .. Count - 1
                PROVE  Share(i) <= Share(j) + 1
    BY DEF FairShare
  <2>1. drawn \in Nat /\ drawn \in Int /\ Count \in Int /\ Count > 0
    BY CountAssumption, RequestsAssumption DEF PoolInv, TypeOK
  <2>2. Share(i) = Turns(drawn, i) /\ Share(j) = Turns(drawn, j)
    BY DEF SharesAreTurns
  <2>3. drawn \div Count \in Int
    BY <2>1, QuotientIsInt
  <2>. QED BY <2>2, <2>3 DEF Turns
<1>. QED BY PoolInvariance, InitShares, <1>1, <1>2, PTL DEF Spec

-----------------------------------------------------------------------------
(* Steps of the pool as steps of Rotation.                                 *)
LEMMA InitRotates == Init => R!Init
<1>. SUFFICES ASSUME Init PROVE R!Init
  OBVIOUS
<1>0. Count \in Int /\ Count > 0
  BY CountAssumption
<1>1. 0 = Count * 0 + 0 /\ 0 \in 0 .. Count - 1
  BY <1>0
<1>2. current % Count = 0
  BY <1>0, <1>1, Remainder DEF Init
<1>3. \A g \in Handlers : Given(g) = Unset
  BY DEF Init, Given
<1>. QED BY <1>2, <1>3 DEF R!Init

(* What taking a turn comes down to.                                       *)
LEMMA TurnTaken ==
    ASSUME NEW h \in Handlers, current \in Int, current' = current + 1,
           Given(h) = Unset, Given(h)' = current % Count,
           \A g \in Handlers \ {h} : Given(g)' = Given(g)
    PROVE  R!TakeTurn(h)
<1>1. Count \in Int /\ Count > 0
  BY CountAssumption
<1>2. (current % Count)' = ((current % Count) + 1) % Count
  BY <1>1, NextRemainder
<1>3. [g \in Handlers |-> Given(g)]'
        = [[g \in Handlers |-> Given(g)] EXCEPT ![h] = current % Count]
  BY Zenon
<1>. QED BY <1>2, <1>3 DEF R!TakeTurn

LEMMA IncrementRotates ==
    ASSUME PoolInv, NEW h \in Handlers, Increment(h), drawn' < Half
    PROVE  R!TakeTurn(h)
<1>0. drawn' = drawn + 1 /\ drawn \in Nat /\ Half \in Int
  BY HalfAssumption, RequestsAssumption DEF Increment, PoolInv, TypeOK
<1>1. current \in Nat /\ current = drawn
  BY <1>0, CounterIsExact
<1>2. current' = current + 1
  <2>1. Wrap(current + 1) = current + 1
    BY <1>0, <1>1, WrapIsExact
  <2>. QED BY <2>1 DEF Increment
<1>3. /\ pc[h] = "idle" /\ backend[h] = Unset
      /\ ticket' = [ticket EXCEPT ![h] = current]
      /\ pc' = [pc EXCEPT ![h] = "indexing"] /\ backend' = backend
  <2>1. ticket' = [ticket EXCEPT ![h] = drawn]
    BY <1>0, IncrementPool
  <2>2. pc[h] = "idle" /\ pc' = [pc EXCEPT ![h] = "indexing"] /\ backend' = backend
    BY DEF Increment
  <2>. QED BY <1>1, <2>1, <2>2 DEF PoolInv, CounterCounts
<1>4. Given(h) = Unset /\ Given(h)' = current % Count
  BY <1>3 DEF Given, PoolInv, TypeOK
<1>5. \A g \in Handlers \ {h} : Given(g)' = Given(g)
  BY <1>3 DEF Given, PoolInv, TypeOK
<1>. QED BY <1>1, <1>2, <1>4, <1>5, TurnTaken

LEMMA ChooseRotates ==
    ASSUME PoolInv, NEW h \in Handlers, ChooseLocked(h), drawn' < Half
    PROVE  R!TakeTurn(h)
<1>0. drawn' = drawn + 1 /\ drawn \in Nat /\ Half \in Int
  BY HalfAssumption, RequestsAssumption DEF ChooseLocked, PoolInv, TypeOK
<1>1. current \in Nat /\ current = drawn
  BY <1>0, CounterIsExact
<1>2. Wrap(current + 1) = current + 1
  BY <1>0, <1>1, WrapIsExact
<1>3. /\ backend' = [backend EXCEPT ![h] = current % Count]
      /\ pc' = [pc EXCEPT ![h] = "forwarding"]
      /\ current' = current + 1
      /\ pc[h] = "idle" /\ backend[h] = Unset /\ ticket' = ticket
  BY <1>0, <1>2, ChoosePool DEF ChooseLocked, PoolInv, CounterCounts
<1>4. Given(h) = Unset /\ Given(h)' = current % Count
  BY <1>3 DEF Given, PoolInv, TypeOK
<1>5. \A g \in Handlers \ {h} : Given(g)' = Given(g)
  BY <1>3 DEF Given, PoolInv, TypeOK
<1>. QED BY <1>1, <1>3, <1>4, <1>5, TurnTaken

LEMMA IndexRotates ==
    ASSUME PoolInv, NEW h \in Handlers, Index(h), drawn' < Half
    PROVE  UNCHANGED R!vars
<1>0. drawn' = drawn /\ drawn \in Nat /\ Half \in Int
  BY HalfAssumption, RequestsAssumption DEF Index, PoolInv, TypeOK
<1>1. /\ backend' = [backend EXCEPT ![h] = ticket[h] % Count]
      /\ pc' = [pc EXCEPT ![h] = "forwarding"]
      /\ pc[h] = "indexing" /\ UNCHANGED <<current, ticket>>
  BY <1>0, IndexPool DEF Index
<1>2. \A g \in Handlers : Given(g)' = Given(g)
  BY <1>1 DEF Given, PoolInv, TypeOK
<1>. QED BY <1>1, <1>2 DEF R!vars

LEMMA ForwardRotates ==
    ASSUME PoolInv, NEW h \in Handlers, Forward(h)
    PROVE  R!GiveUp(h)
<1>1. /\ pc[h] = "forwarding" /\ backend[h] # Unset
      /\ pc' = [pc EXCEPT ![h] = "idle"]
      /\ backend' = [backend EXCEPT ![h] = Unset]
      /\ UNCHANGED <<current, ticket>>
  BY DEF Forward, PoolInv, CounterCounts
<1>2. Given(h) # Unset /\ Given(h)' = Unset
  BY <1>1 DEF Given, PoolInv, TypeOK
<1>3. \A g \in Handlers \ {h} : Given(g)' = Given(g)
  BY <1>1 DEF Given, PoolInv, TypeOK
<1>4. [g \in Handlers |-> Given(g)]'
        = [[g \in Handlers |-> Given(g)] EXCEPT ![h] = Unset]
  <2>1. Given(h)' = Unset
    BY <1>2
  <2>. QED BY <1>3, <2>1, Zenon
<1>. QED BY <1>1, <1>2, <1>4 DEF R!GiveUp

(* RoundRobinAtomic and RoundRobinMutex give requests the backends in      *)
(* turn: until int64 wraps, they implement Rotation.                       *)
THEOREM PoolRotates == Spec => ImplementsRotation
<1>1. ASSUME PoolInv, [Next]_vars, drawn' < Half
      PROVE  [R!Next]_(R!vars)
  <2>1. CASE Done \/ UNCHANGED vars
    <3>1. UNCHANGED vars
      BY <2>1 DEF Done
    <3>. QED BY <3>1 DEF vars, Given, R!vars
  <2>2. ASSUME NEW h \in Handlers,
               Increment(h) \/ Index(h) \/ ChooseLocked(h) \/ Forward(h)
        PROVE  [R!Next]_(R!vars)
    BY <1>1, <2>2, IncrementRotates, IndexRotates, ChooseRotates, ForwardRotates
       DEF R!Next
  <2>. QED BY <1>1, <2>1, <2>2 DEF Next
<1>2. PoolInv /\ [Next]_vars => [drawn' < Half => [R!Next]_(R!vars)]_vars
  BY <1>1
<1>. QED BY PoolInvariance, InitRotates, <1>2, PTL DEF Spec, ImplementsRotation
=============================================================================

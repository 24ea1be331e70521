---------------------------- MODULE LifecycleProofs ----------------------------
(***************************************************************************)
(* Proofs about Lifecycle, for any number of replicas and requests, any    *)
(* routers and any kinds of requests.                                      *)
(***************************************************************************)
EXTENDS Lifecycle, FiniteSetTheorems, TLAPS

(* A sequence without repetition as long as the set of routers has them    *)
(* all.                                                                    *)
LEMMA RoutesAreComplete ==
  ASSUME NEW s \in BuildRoutes
  PROVE  /\ s \in Seq(Routers)
         /\ \A i, j \in DOMAIN s : s[i] = s[j] => i = j
         /\ \A t \in Routers : \E i \in DOMAIN s : s[i] = t
<1> DEFINE n == Cardinality(Routers)
<1>1. IsFiniteSet(Routers) /\ n \in Nat
  BY PrefixAssumption, FS_CardinalityType
<1>2. s \in [1 .. n -> Routers] /\ IsInjective(s)
  BY DEF BuildRoutes
<1>3. s \in Injection(1 .. n, Routers)
  BY <1>2 DEF Injection
<1>4. Cardinality(1 .. n) = n
  <2>1. 1 \in Int /\ n \in Int
    BY <1>1
  <2>2. Cardinality(1 .. n) = IF 1 > n THEN 0 ELSE n - 1 + 1
    BY <2>1, FS_Interval
  <2>3. QED
    BY <1>1, <2>2
<1>5. s \in Surjection(1 .. n, Routers)
  BY <1>1, <1>3, <1>4, FS_Injection
<1>6. \A t \in Routers : \E i \in 1 .. n : s[i] = t
  BY <1>5 DEF Surjection
<1>7. s \in Seq(Routers) /\ DOMAIN s = 1 .. n
  BY <1>1, <1>2
<1>8. QED
  BY <1>2, <1>6, <1>7 DEF IsInjective

(* Two prefixes of one path are not apart.                                 *)
LEMMA PrefixesMeet ==
  ASSUME NEW p \in Seq(Pieces), NEW q \in Seq(Pieces), NEW path \in Seq(Pieces),
         IsPrefix(p, path), IsPrefix(q, path)
  PROVE  ~Apart(p, q)
<1>1. \A s, t \in Seq(Pieces) :
        IsPrefix(s, t) <=> Len(s) <= Len(t) /\ \A i \in 1 .. Len(s) : s[i] = t[i]
  <2> SUFFICES ASSUME NEW s \in Seq(Pieces), NEW t \in Seq(Pieces)
               PROVE  IsPrefix(s, t) <=> Len(s) <= Len(t) /\ \A i \in 1 .. Len(s) : s[i] = t[i]
    OBVIOUS
  <2>1. SubSeq(s, 1, Len(s)) = s
    OBVIOUS
  <2>2. ASSUME Len(s) <= Len(t), NEW i \in 1 .. Len(s)
        PROVE  SubSeq(t, 1, Len(s))[i] = t[i]
    BY <2>2
  <2>3. CASE Len(s) <= Len(t)
    <3>1. SubSeq(t, 1, Len(s)) \in Seq(Pieces) /\ Len(SubSeq(t, 1, Len(s))) = Len(s)
      BY <2>3
    <3>2. s = SubSeq(t, 1, Len(s)) <=> \A i \in 1 .. Len(s) : s[i] = SubSeq(t, 1, Len(s))[i]
      BY <3>1
    <3>3. QED
      BY <2>1, <2>2, <2>3, <3>2 DEF IsPrefix
  <2>4. CASE ~(Len(s) <= Len(t))
    BY <2>4 DEF IsPrefix
  <2>5. QED
    BY <2>3, <2>4
<1>2. CASE Len(p) <= Len(q)
  BY <1>1, <1>2 DEF Apart
<1>3. CASE Len(q) <= Len(p)
  BY <1>1, <1>3 DEF Apart
<1>4. QED
  BY <1>2, <1>3

(* The route found is one of the table whose prefix the path has.          *)
LEMMA RouteMatches ==
  ASSUME NEW table \in Seq(Routers), NEW path, Route(table, path) # NoRoute
  PROVE  /\ Route(table, path) \in Routers
         /\ IsPrefix(Prefix[Route(table, path)], path)
<1> DEFINE First(i) == /\ IsPrefix(Prefix[table[i]], path)
                       /\ \A j \in 1 .. i - 1 : ~IsPrefix(Prefix[table[j]], path)
           found == CHOOSE i \in DOMAIN table : First(i)
<1>1. Route(table, path) = IF \E i \in DOMAIN table : First(i) THEN table[found] ELSE NoRoute
  BY DEF Route
<1>2. \E i \in DOMAIN table : First(i)
  BY <1>1
<1>3. found \in DOMAIN table /\ First(found)
  BY <1>2
<1>4. QED
  BY <1>1, <1>2, <1>3

(* A request that is proxied to the replicas passed every check.           *)
LEMMA ForwardedIsChecked ==
  ASSUME Apart(Prefix[OrderRouter], <<"/auth", "/">>),
         NEW table \in Seq(Routers), NEW k \in Kinds, NEW limited \in BOOLEAN,
         ProxiedTo(k, limited, table) = OrderRouter
  PROVE  Authorized(k)
<1>1. OrderRouter \in Routers /\ OrderRouter # NoRoute
  BY ReplicasAssumption, PrefixAssumption
<1>2. /\ Admitted(k, limited) /\ Entry(k) \in {"keycloak", "other"}
      /\ Route(table, k.path) = OrderRouter
  BY <1>1 DEF ProxiedTo
<1>3. IsPrefix(Prefix[OrderRouter], k.path)
  BY <1>1, <1>2, RouteMatches
<1>4. Prefix[OrderRouter] \in Seq(Pieces) /\ k.path \in Seq(Pieces)
  BY <1>1, PrefixAssumption, KindsAssumption DEF IsRequest
<1>5. Entry(k) # "keycloak"
  <2> SUFFICES ASSUME Entry(k) = "keycloak" PROVE FALSE
    OBVIOUS
  <2>1. IsPrefix(<<"/auth", "/">>, k.path)
    BY DEF Entry
  <2>2. <<"/auth", "/">> \in Seq(Pieces)
    BY PrefixAssumption
  <2>3. QED
    BY <1>3, <1>4, <2>1, <2>2, PrefixesMeet
<1>6. Entry(k) = "other"
  BY <1>2, <1>5
<1>7. QED
  BY <1>2, <1>6 DEF Admitted, Authorized

(* What breaking the connections of a replica does to its requests.        *)
LEMMA BreakingConnections ==
  ASSUME TypeOK, NEW c \in Replicas
  PROVE  /\ Busy(c) \in BOOLEAN
         /\ Broken(c) \in [Requests -> {"unsent", "answered", "proxying", "waiting",
                                        "ok", "error", "cut"}]
         /\ \A r \in Requests :
              Broken(c)[r] = IF at[r] = c /\ stage[r] = "waiting" THEN "error" ELSE stage[r]
  BY DEF TypeOK, Busy, Broken

(* Every step keeps the types.                                             *)
LEMMA StepType ==
  ASSUME TypeOK, [Next]_vars
  PROVE  TypeOK'
<1>1. CASE UNCHANGED vars
  BY <1>1 DEF TypeOK, vars, gatewayVars, replicaVars, requestVars, stored
<1>2. CASE StartGateway
  <2>1. routers' \in Seq(Routers)
    BY <1>2, RoutesAreComplete DEF StartGateway
  <2>2. \A i, j \in DOMAIN routers' : routers'[i] = routers'[j] => i = j
    BY <1>2, RoutesAreComplete DEF StartGateway
  <2>3. QED
    BY <1>2, <2>1, <2>2 DEF StartGateway, TypeOK, replicaVars, requestVars, stored
<1>3. CASE GatewayListens
  BY <1>3 DEF TypeOK, replicaVars, requestVars, GatewayListens, stored
<1>4. CASE DrainGateway
  BY <1>4 DEF TypeOK, replicaVars, requestVars, DrainGateway, stored
<1>5. CASE DrainGatewayTimeout
  BY <1>5 DEF TypeOK, replicaVars, requestVars, DrainGatewayTimeout, stored
<1>6. CASE ExitGateway
  BY <1>6 DEF TypeOK, replicaVars, ExitGateway, EndGateway, stored
<1>7. CASE SignalGateway
  BY <1>7 DEF TypeOK, replicaVars, requestVars, SignalGateway, stored
<1>8. CASE KillGateway
  BY <1>8 DEF TypeOK, replicaVars, KillGateway, EndGateway, stored
<1>9. CASE TogglePostgres
  BY <1>9 DEF TypeOK, gatewayVars, replicaVars, requestVars, TogglePostgres, stored
<1>10. ASSUME NEW c \in Replicas, FirstPing(c) PROVE TypeOK'
  BY <1>10 DEF TypeOK, gatewayVars, requestVars, FirstPing, stored
<1>11. ASSUME NEW c \in Replicas, Expire(c) PROVE TypeOK'
  BY <1>11 DEF TypeOK, gatewayVars, requestVars, Expire, stored
<1>12. ASSUME NEW c \in Replicas, Ping(c) PROVE TypeOK'
  BY <1>12 DEF TypeOK, gatewayVars, requestVars, Ping, stored
<1>13. ASSUME NEW c \in Replicas, GiveUp(c) PROVE TypeOK'
  BY <1>13 DEF TypeOK, gatewayVars, requestVars, GiveUp, stored
<1>14. ASSUME NEW c \in Replicas, StartServing(c) PROVE TypeOK'
  BY <1>14 DEF TypeOK, gatewayVars, requestVars, StartServing, stored
<1>15. ASSUME NEW c \in Replicas, Listen(c) PROVE TypeOK'
  BY <1>15 DEF TypeOK, gatewayVars, requestVars, Listen, stored
<1>16. ASSUME NEW c \in Replicas, ServeFails(c) PROVE TypeOK'
  BY <1>16, BreakingConnections DEF TypeOK, gatewayVars, requestVars,
    ServeFails, stored
<1>17. ASSUME NEW c \in Replicas, Drain(c) PROVE TypeOK'
  BY <1>17 DEF TypeOK, gatewayVars, requestVars, Drain, stored
<1>18. ASSUME NEW c \in Replicas, DrainTimeout(c) PROVE TypeOK'
  BY <1>18, BreakingConnections DEF TypeOK, gatewayVars, DrainTimeout, stored
<1>19. ASSUME NEW c \in Replicas, CloseDatabase(c) PROVE TypeOK'
  BY <1>19 DEF TypeOK, gatewayVars, requestVars, CloseDatabase, stored
<1>20. ASSUME NEW c \in Replicas, Exit(c) PROVE TypeOK'
  BY <1>20, BreakingConnections DEF TypeOK, gatewayVars, Exit, End, stored
<1>21. ASSUME NEW c \in Replicas, FirstPingFails(c) PROVE TypeOK'
  BY <1>21 DEF TypeOK, gatewayVars, requestVars, FirstPingFails, stored
<1>22. ASSUME NEW c \in Replicas, ListenerFails(c) PROVE TypeOK'
  BY <1>22 DEF TypeOK, gatewayVars, requestVars, ListenerFails, stored
<1>23. ASSUME NEW c \in Replicas, Signal(c) PROVE TypeOK'
  BY <1>23 DEF TypeOK, gatewayVars, requestVars, Signal, stored
<1>24. ASSUME NEW c \in Replicas, Kill(c) PROVE TypeOK'
  BY <1>24, BreakingConnections DEF TypeOK, gatewayVars, Kill, End, stored
<1>25. ASSUME NEW r \in Requests, Answer(r) PROVE TypeOK'
  BY <1>25 DEF TypeOK, gatewayVars, replicaVars, Answer, stored
<1>26. ASSUME NEW r \in Requests, Forward(r) PROVE TypeOK'
  BY <1>26 DEF TypeOK, gatewayVars, replicaVars, Forward, stored
<1>27. ASSUME NEW r \in Requests, Connect(r) PROVE TypeOK'
  BY <1>27 DEF TypeOK, gatewayVars, replicaVars, Connect, stored
<1>28. ASSUME NEW r \in Requests, Refused(r) PROVE TypeOK'
  BY <1>28 DEF TypeOK, gatewayVars, replicaVars, Refused, stored
<1>29. ASSUME NEW r \in Requests, Commit(r) PROVE TypeOK'
  BY <1>29 DEF TypeOK, gatewayVars, replicaVars, Commit
<1>30. ASSUME NEW r \in Requests, Abort(r) PROVE TypeOK'
  BY <1>30 DEF TypeOK, gatewayVars, replicaVars, Abort, stored
<1>31. ASSUME NEW r \in Requests, Reply(r) PROVE TypeOK'
  BY <1>31 DEF TypeOK, gatewayVars, replicaVars, Reply, stored
<1>32. ASSUME NEW r \in Requests, CommitUnheard(r) PROVE TypeOK'
  BY <1>32 DEF TypeOK, gatewayVars, replicaVars,
    CommitUnheard
<1>33. QED
  BY <1>1, <1>2, <1>3, <1>4, <1>5, <1>6, <1>7, <1>8, <1>9, <1>10, <1>11,
    <1>12, <1>13, <1>14, <1>15, <1>16, <1>17, <1>18, <1>19, <1>20, <1>21,
    <1>22, <1>23, <1>24, <1>25, <1>26, <1>27, <1>28, <1>29, <1>30, <1>31, <1>32
    DEF Next, GatewayStep, Step

(* Every step keeps the listeners with the serving phases.                 *)
LEMMA StepListeners ==
  ASSUME IInv, [Next]_vars
  PROVE  ListenersServe'
<1> USE DEF IInv
<1>1. CASE UNCHANGED vars
  BY <1>1 DEF ListenersServe, UnderWay, gatewayVars, replicaVars, requestVars,
    vars
<1>2. CASE StartGateway
  BY <1>2 DEF ListenersServe, replicaVars, requestVars, StartGateway
<1>3. CASE GatewayListens
  BY <1>3 DEF ListenersServe, replicaVars, requestVars, GatewayListens
<1>4. CASE DrainGateway
  BY <1>4 DEF ListenersServe, UnderWay, replicaVars, requestVars, DrainGateway
<1>5. CASE DrainGatewayTimeout
  BY <1>5 DEF ListenersServe, replicaVars, requestVars, DrainGatewayTimeout
<1>6. CASE ExitGateway
  BY <1>6 DEF ListenersServe, replicaVars, ExitGateway, EndGateway
<1>7. CASE SignalGateway
  BY <1>7 DEF ListenersServe, replicaVars, requestVars, SignalGateway
<1>8. CASE KillGateway
  BY <1>8 DEF ListenersServe, replicaVars, KillGateway, EndGateway
<1>9. CASE TogglePostgres
  BY <1>9 DEF ListenersServe, UnderWay, gatewayVars, replicaVars, requestVars,
    TogglePostgres
<1>10. ASSUME NEW c \in Replicas, FirstPing(c) PROVE ListenersServe'
  BY <1>10 DEF ListenersServe, UnderWay, gatewayVars, requestVars, FirstPing
<1>11. ASSUME NEW c \in Replicas, Expire(c) PROVE ListenersServe'
  BY <1>11 DEF ListenersServe, UnderWay, gatewayVars, requestVars, Expire
<1>12. ASSUME NEW c \in Replicas, Ping(c) PROVE ListenersServe'
  BY <1>12 DEF ListenersServe, UnderWay, gatewayVars, requestVars, Ping
<1>13. ASSUME NEW c \in Replicas, GiveUp(c) PROVE ListenersServe'
  BY <1>13 DEF ListenersServe, UnderWay, gatewayVars, requestVars, GiveUp
<1>14. ASSUME NEW c \in Replicas, StartServing(c) PROVE ListenersServe'
  BY <1>14 DEF ListenersServe, UnderWay, gatewayVars, requestVars,
    StartServing
<1>15. ASSUME NEW c \in Replicas, Listen(c) PROVE ListenersServe'
  BY <1>15 DEF ListenersServe, UnderWay, gatewayVars, requestVars, Listen
<1>16. ASSUME NEW c \in Replicas, ServeFails(c) PROVE ListenersServe'
  BY <1>16, BreakingConnections DEF ListenersServe, UnderWay, TypeOK,
    gatewayVars, requestVars, ServeFails
<1>17. ASSUME NEW c \in Replicas, Drain(c) PROVE ListenersServe'
  BY <1>17 DEF ListenersServe, UnderWay, gatewayVars, requestVars, Drain
<1>18. ASSUME NEW c \in Replicas, DrainTimeout(c) PROVE ListenersServe'
  BY <1>18, BreakingConnections DEF ListenersServe, UnderWay, TypeOK,
    gatewayVars, DrainTimeout
<1>19. ASSUME NEW c \in Replicas, CloseDatabase(c) PROVE ListenersServe'
  BY <1>19 DEF ListenersServe, UnderWay, gatewayVars, requestVars,
    CloseDatabase
<1>20. ASSUME NEW c \in Replicas, Exit(c) PROVE ListenersServe'
  BY <1>20, BreakingConnections DEF ListenersServe, UnderWay, gatewayVars,
    Exit, End
<1>21. ASSUME NEW c \in Replicas, FirstPingFails(c) PROVE ListenersServe'
  BY <1>21 DEF ListenersServe, UnderWay, gatewayVars, requestVars,
    FirstPingFails
<1>22. ASSUME NEW c \in Replicas, ListenerFails(c) PROVE ListenersServe'
  BY <1>22 DEF ListenersServe, UnderWay, gatewayVars, requestVars,
    ListenerFails
<1>23. ASSUME NEW c \in Replicas, Signal(c) PROVE ListenersServe'
  BY <1>23 DEF ListenersServe, UnderWay, TypeOK, gatewayVars, requestVars,
    Signal
<1>24. ASSUME NEW c \in Replicas, Kill(c) PROVE ListenersServe'
  BY <1>24, BreakingConnections DEF ListenersServe, UnderWay, TypeOK,
    gatewayVars, Kill, End
<1>25. ASSUME NEW r \in Requests, Answer(r) PROVE ListenersServe'
  BY <1>25 DEF ListenersServe, gatewayVars, replicaVars, Answer
<1>26. ASSUME NEW r \in Requests, Forward(r) PROVE ListenersServe'
  BY <1>26 DEF ListenersServe, gatewayVars, replicaVars, Forward
<1>27. ASSUME NEW r \in Requests, Connect(r) PROVE ListenersServe'
  BY <1>27 DEF ListenersServe, UnderWay, gatewayVars, replicaVars, Connect
<1>28. ASSUME NEW r \in Requests, Refused(r) PROVE ListenersServe'
  BY <1>28 DEF ListenersServe, UnderWay, gatewayVars, replicaVars, Refused
<1>29. ASSUME NEW r \in Requests, Commit(r) PROVE ListenersServe'
  BY <1>29 DEF ListenersServe, UnderWay, gatewayVars, replicaVars, Commit
<1>30. ASSUME NEW r \in Requests, Abort(r) PROVE ListenersServe'
  BY <1>30 DEF ListenersServe, UnderWay, gatewayVars, replicaVars, Abort
<1>31. ASSUME NEW r \in Requests, Reply(r) PROVE ListenersServe'
  BY <1>31 DEF ListenersServe, UnderWay, gatewayVars, replicaVars, Reply
<1>32. ASSUME NEW r \in Requests, CommitUnheard(r) PROVE ListenersServe'
  BY <1>32 DEF ListenersServe, UnderWay, gatewayVars, replicaVars,
    CommitUnheard
<1>33. QED
  BY <1>1, <1>2, <1>3, <1>4, <1>5, <1>6, <1>7, <1>8, <1>9, <1>10, <1>11,
    <1>12, <1>13, <1>14, <1>15, <1>16, <1>17, <1>18, <1>19, <1>20, <1>21,
    <1>22, <1>23, <1>24, <1>25, <1>26, <1>27, <1>28, <1>29, <1>30, <1>31, <1>32
    DEF Next, GatewayStep, Step

(* Every step keeps the handlers with the stages of their requests.        *)
LEMMA StepHandlers ==
  ASSUME IInv, [Next]_vars
  PROVE  HandlersServe'
<1> USE DEF IInv
<1>1. CASE UNCHANGED vars
  BY <1>1 DEF HandlersServe, vars, gatewayVars, replicaVars, requestVars, stored
<1>2. CASE StartGateway
  BY <1>2 DEF HandlersServe, replicaVars, requestVars, StartGateway, stored
<1>3. CASE GatewayListens
  BY <1>3 DEF HandlersServe, replicaVars, requestVars, GatewayListens, stored
<1>4. CASE DrainGateway
  BY <1>4 DEF HandlersServe, replicaVars, requestVars, DrainGateway, stored
<1>5. CASE DrainGatewayTimeout
  BY <1>5 DEF HandlersServe, replicaVars, requestVars, DrainGatewayTimeout, stored
<1>6. CASE ExitGateway
  BY <1>6 DEF HandlersServe, UnderWay, replicaVars, ExitGateway, EndGateway, stored
<1>7. CASE SignalGateway
  BY <1>7 DEF HandlersServe, replicaVars, requestVars, SignalGateway, stored
<1>8. CASE KillGateway
  BY <1>8 DEF HandlersServe, UnderWay, replicaVars, KillGateway, EndGateway, stored
<1>9. CASE TogglePostgres
  BY <1>9 DEF HandlersServe, gatewayVars, replicaVars, requestVars,
    TogglePostgres, stored
<1>10. ASSUME NEW c \in Replicas, FirstPing(c) PROVE HandlersServe'
  BY <1>10 DEF HandlersServe, gatewayVars, requestVars, FirstPing, stored
<1>11. ASSUME NEW c \in Replicas, Expire(c) PROVE HandlersServe'
  BY <1>11 DEF HandlersServe, gatewayVars, requestVars, Expire, stored
<1>12. ASSUME NEW c \in Replicas, Ping(c) PROVE HandlersServe'
  BY <1>12 DEF HandlersServe, gatewayVars, requestVars, Ping, stored
<1>13. ASSUME NEW c \in Replicas, GiveUp(c) PROVE HandlersServe'
  BY <1>13 DEF HandlersServe, gatewayVars, requestVars, GiveUp, stored
<1>14. ASSUME NEW c \in Replicas, StartServing(c) PROVE HandlersServe'
  BY <1>14 DEF HandlersServe, gatewayVars, requestVars, StartServing, stored
<1>15. ASSUME NEW c \in Replicas, Listen(c) PROVE HandlersServe'
  BY <1>15 DEF HandlersServe, gatewayVars, requestVars, Listen, stored
<1>16. ASSUME NEW c \in Replicas, ServeFails(c) PROVE HandlersServe'
  BY <1>16, BreakingConnections DEF HandlersServe, Busy, gatewayVars,
    requestVars, ServeFails, stored
<1>17. ASSUME NEW c \in Replicas, Drain(c) PROVE HandlersServe'
  BY <1>17 DEF HandlersServe, gatewayVars, requestVars, Drain, stored
<1>18. ASSUME NEW c \in Replicas, DrainTimeout(c) PROVE HandlersServe'
  BY <1>18, BreakingConnections DEF HandlersServe, TypeOK, gatewayVars,
    DrainTimeout, stored
<1>19. ASSUME NEW c \in Replicas, CloseDatabase(c) PROVE HandlersServe'
  BY <1>19 DEF HandlersServe, gatewayVars, requestVars, CloseDatabase, stored
<1>20. ASSUME NEW c \in Replicas, Exit(c) PROVE HandlersServe'
  BY <1>20, BreakingConnections DEF HandlersServe, gatewayVars, Exit, End, stored
<1>21. ASSUME NEW c \in Replicas, FirstPingFails(c) PROVE HandlersServe'
  BY <1>21 DEF HandlersServe, gatewayVars, requestVars, FirstPingFails, stored
<1>22. ASSUME NEW c \in Replicas, ListenerFails(c) PROVE HandlersServe'
  BY <1>22 DEF HandlersServe, gatewayVars, requestVars, ListenerFails, stored
<1>23. ASSUME NEW c \in Replicas, Signal(c) PROVE HandlersServe'
  BY <1>23 DEF HandlersServe, gatewayVars, requestVars, Signal, stored
<1>24. ASSUME NEW c \in Replicas, Kill(c) PROVE HandlersServe'
  BY <1>24, BreakingConnections DEF HandlersServe, gatewayVars, Kill, End, stored
<1>25. ASSUME NEW r \in Requests, Answer(r) PROVE HandlersServe'
  BY <1>25 DEF HandlersServe, gatewayVars, replicaVars, Answer, stored
<1>26. ASSUME NEW r \in Requests, Forward(r) PROVE HandlersServe'
  BY <1>26 DEF HandlersServe, TypeOK, gatewayVars, replicaVars, Forward, stored
<1>27. ASSUME NEW r \in Requests, Connect(r) PROVE HandlersServe'
  BY <1>27 DEF HandlersServe, TypeOK, gatewayVars, replicaVars, Connect, stored
<1>28. ASSUME NEW r \in Requests, Refused(r) PROVE HandlersServe'
  BY <1>28 DEF HandlersServe, gatewayVars, replicaVars, Refused, stored
<1>29. ASSUME NEW r \in Requests, Commit(r) PROVE HandlersServe'
  BY <1>29 DEF HandlersServe, TypeOK, gatewayVars, replicaVars, Commit
<1>30. ASSUME NEW r \in Requests, Abort(r) PROVE HandlersServe'
  BY <1>30 DEF HandlersServe, gatewayVars, replicaVars, Abort, stored
<1>31. ASSUME NEW r \in Requests, Reply(r) PROVE HandlersServe'
  BY <1>31 DEF HandlersServe, TypeOK, gatewayVars, replicaVars, Reply, stored
<1>32. ASSUME NEW r \in Requests, CommitUnheard(r) PROVE HandlersServe'
  BY <1>32 DEF HandlersServe, TypeOK, gatewayVars, replicaVars,
    CommitUnheard
<1>33. QED
  BY <1>1, <1>2, <1>3, <1>4, <1>5, <1>6, <1>7, <1>8, <1>9, <1>10, <1>11,
    <1>12, <1>13, <1>14, <1>15, <1>16, <1>17, <1>18, <1>19, <1>20, <1>21,
    <1>22, <1>23, <1>24, <1>25, <1>26, <1>27, <1>28, <1>29, <1>30, <1>31, <1>32
    DEF Next, GatewayStep, Step

(* Every step that leaves handlers behind says so.                         *)
LEMMA StepDrained ==
  ASSUME IInv, [Next]_vars
  PROVE  DrainedBeforeClosing'
<1> USE DEF IInv
<1>1. CASE UNCHANGED vars
  BY <1>1 DEF DrainedBeforeClosing, Busy, vars, gatewayVars, replicaVars,
    requestVars
<1>2. CASE StartGateway
  BY <1>2 DEF DrainedBeforeClosing, Busy, replicaVars, requestVars,
    StartGateway
<1>3. CASE GatewayListens
  BY <1>3 DEF DrainedBeforeClosing, Busy, replicaVars, requestVars,
    GatewayListens
<1>4. CASE DrainGateway
  BY <1>4 DEF DrainedBeforeClosing, Busy, replicaVars, requestVars,
    DrainGateway
<1>5. CASE DrainGatewayTimeout
  BY <1>5 DEF DrainedBeforeClosing, Busy, replicaVars, requestVars,
    DrainGatewayTimeout
<1>6. CASE ExitGateway
  BY <1>6 DEF DrainedBeforeClosing, Busy, replicaVars, ExitGateway, EndGateway
<1>7. CASE SignalGateway
  BY <1>7 DEF DrainedBeforeClosing, Busy, replicaVars, requestVars,
    SignalGateway
<1>8. CASE KillGateway
  BY <1>8 DEF DrainedBeforeClosing, Busy, replicaVars, KillGateway, EndGateway
<1>9. CASE TogglePostgres
  BY <1>9 DEF DrainedBeforeClosing, Busy, gatewayVars, replicaVars,
    requestVars, TogglePostgres
<1>10. ASSUME NEW c \in Replicas, FirstPing(c) PROVE DrainedBeforeClosing'
  BY <1>10 DEF DrainedBeforeClosing, Busy, gatewayVars, requestVars, FirstPing
<1>11. ASSUME NEW c \in Replicas, Expire(c) PROVE DrainedBeforeClosing'
  BY <1>11 DEF DrainedBeforeClosing, Busy, gatewayVars, requestVars, Expire
<1>12. ASSUME NEW c \in Replicas, Ping(c) PROVE DrainedBeforeClosing'
  BY <1>12 DEF DrainedBeforeClosing, Busy, gatewayVars, requestVars, Ping
<1>13. ASSUME NEW c \in Replicas, GiveUp(c) PROVE DrainedBeforeClosing'
  BY <1>13 DEF DrainedBeforeClosing, Busy, gatewayVars, requestVars, GiveUp
<1>14. ASSUME NEW c \in Replicas, StartServing(c) PROVE DrainedBeforeClosing'
  BY <1>14 DEF DrainedBeforeClosing, Busy, gatewayVars, requestVars,
    StartServing
<1>15. ASSUME NEW c \in Replicas, Listen(c) PROVE DrainedBeforeClosing'
  BY <1>15 DEF DrainedBeforeClosing, Busy, gatewayVars, requestVars, Listen
<1>16. ASSUME NEW c \in Replicas, ServeFails(c) PROVE DrainedBeforeClosing'
  BY <1>16 DEF DrainedBeforeClosing, Busy, TypeOK, gatewayVars, requestVars,
    ServeFails
<1>17. ASSUME NEW c \in Replicas, Drain(c) PROVE DrainedBeforeClosing'
  BY <1>17 DEF DrainedBeforeClosing, Busy, gatewayVars, requestVars, Drain
<1>18. ASSUME NEW c \in Replicas, DrainTimeout(c) PROVE DrainedBeforeClosing'
  BY <1>18 DEF DrainedBeforeClosing, Busy, TypeOK, gatewayVars, DrainTimeout
<1>19. ASSUME NEW c \in Replicas, CloseDatabase(c) PROVE DrainedBeforeClosing'
  BY <1>19 DEF DrainedBeforeClosing, Busy, gatewayVars, requestVars,
    CloseDatabase
<1>20. ASSUME NEW c \in Replicas, Exit(c) PROVE DrainedBeforeClosing'
  BY <1>20 DEF DrainedBeforeClosing, Busy, gatewayVars, Exit, End
<1>21. ASSUME NEW c \in Replicas, FirstPingFails(c) PROVE DrainedBeforeClosing'
  BY <1>21 DEF DrainedBeforeClosing, Busy, gatewayVars, requestVars,
    FirstPingFails
<1>22. ASSUME NEW c \in Replicas, ListenerFails(c) PROVE DrainedBeforeClosing'
  BY <1>22 DEF DrainedBeforeClosing, Busy, gatewayVars, requestVars,
    ListenerFails
<1>23. ASSUME NEW c \in Replicas, Signal(c) PROVE DrainedBeforeClosing'
  BY <1>23 DEF DrainedBeforeClosing, Busy, gatewayVars, requestVars, Signal
<1>24. ASSUME NEW c \in Replicas, Kill(c) PROVE DrainedBeforeClosing'
  BY <1>24 DEF DrainedBeforeClosing, Busy, gatewayVars, Kill, End
<1>25. ASSUME NEW r \in Requests, Answer(r) PROVE DrainedBeforeClosing'
  BY <1>25 DEF DrainedBeforeClosing, Busy, gatewayVars, replicaVars, Answer
<1>26. ASSUME NEW r \in Requests, Forward(r) PROVE DrainedBeforeClosing'
  BY <1>26 DEF DrainedBeforeClosing, Busy, HandlersServe, gatewayVars,
    replicaVars, Forward
<1>27. ASSUME NEW r \in Requests, Connect(r) PROVE DrainedBeforeClosing'
  BY <1>27 DEF DrainedBeforeClosing, Busy, ListenersServe, gatewayVars,
    replicaVars, Connect
<1>28. ASSUME NEW r \in Requests, Refused(r) PROVE DrainedBeforeClosing'
  BY <1>28 DEF DrainedBeforeClosing, Busy, gatewayVars, replicaVars, Refused
<1>29. ASSUME NEW r \in Requests, Commit(r) PROVE DrainedBeforeClosing'
  BY <1>29 DEF DrainedBeforeClosing, Busy, gatewayVars, replicaVars, Commit
<1>30. ASSUME NEW r \in Requests, Abort(r) PROVE DrainedBeforeClosing'
  BY <1>30 DEF DrainedBeforeClosing, Busy, gatewayVars, replicaVars, Abort
<1>31. ASSUME NEW r \in Requests, Reply(r) PROVE DrainedBeforeClosing'
  BY <1>31 DEF DrainedBeforeClosing, Busy, gatewayVars, replicaVars, Reply
<1>32. ASSUME NEW r \in Requests, CommitUnheard(r) PROVE DrainedBeforeClosing'
  BY <1>32 DEF DrainedBeforeClosing, Busy, gatewayVars, replicaVars,
    CommitUnheard
<1>33. QED
  BY <1>1, <1>2, <1>3, <1>4, <1>5, <1>6, <1>7, <1>8, <1>9, <1>10, <1>11,
    <1>12, <1>13, <1>14, <1>15, <1>16, <1>17, <1>18, <1>19, <1>20, <1>21,
    <1>22, <1>23, <1>24, <1>25, <1>26, <1>27, <1>28, <1>29, <1>30, <1>31, <1>32
    DEF Next, GatewayStep, Step

(* Every step keeps the answers true.                                      *)
LEMMA StepAnswers ==
  ASSUME IInv, [Next]_vars
  PROVE  AnswersMatchOrders'
<1> USE DEF IInv
<1>1. CASE UNCHANGED vars
  BY <1>1 DEF AnswersMatchOrders, vars, gatewayVars, replicaVars, requestVars, stored
<1>2. CASE StartGateway
  BY <1>2 DEF AnswersMatchOrders, replicaVars, requestVars, StartGateway, stored
<1>3. CASE GatewayListens
  BY <1>3 DEF AnswersMatchOrders, replicaVars, requestVars, GatewayListens, stored
<1>4. CASE DrainGateway
  BY <1>4 DEF AnswersMatchOrders, replicaVars, requestVars, DrainGateway, stored
<1>5. CASE DrainGatewayTimeout
  BY <1>5 DEF AnswersMatchOrders, replicaVars, requestVars,
    DrainGatewayTimeout, stored
<1>6. CASE ExitGateway
  BY <1>6 DEF AnswersMatchOrders, ListenersServe, replicaVars, ExitGateway,
    EndGateway, stored
<1>7. CASE SignalGateway
  BY <1>7 DEF AnswersMatchOrders, replicaVars, requestVars, SignalGateway, stored
<1>8. CASE KillGateway
  BY <1>8 DEF AnswersMatchOrders, replicaVars, KillGateway, EndGateway, stored
<1>9. CASE TogglePostgres
  BY <1>9 DEF AnswersMatchOrders, gatewayVars, replicaVars, requestVars,
    TogglePostgres, stored
<1>10. ASSUME NEW c \in Replicas, FirstPing(c) PROVE AnswersMatchOrders'
  BY <1>10 DEF AnswersMatchOrders, gatewayVars, requestVars, FirstPing, stored
<1>11. ASSUME NEW c \in Replicas, Expire(c) PROVE AnswersMatchOrders'
  BY <1>11 DEF AnswersMatchOrders, gatewayVars, requestVars, Expire, stored
<1>12. ASSUME NEW c \in Replicas, Ping(c) PROVE AnswersMatchOrders'
  BY <1>12 DEF AnswersMatchOrders, gatewayVars, requestVars, Ping, stored
<1>13. ASSUME NEW c \in Replicas, GiveUp(c) PROVE AnswersMatchOrders'
  BY <1>13 DEF AnswersMatchOrders, gatewayVars, requestVars, GiveUp, stored
<1>14. ASSUME NEW c \in Replicas, StartServing(c) PROVE AnswersMatchOrders'
  BY <1>14 DEF AnswersMatchOrders, gatewayVars, requestVars, StartServing, stored
<1>15. ASSUME NEW c \in Replicas, Listen(c) PROVE AnswersMatchOrders'
  BY <1>15 DEF AnswersMatchOrders, gatewayVars, requestVars, Listen, stored
<1>16. ASSUME NEW c \in Replicas, ServeFails(c) PROVE AnswersMatchOrders'
  BY <1>16 DEF AnswersMatchOrders, ListenersServe, gatewayVars, requestVars,
    ServeFails, stored
<1>17. ASSUME NEW c \in Replicas, Drain(c) PROVE AnswersMatchOrders'
  BY <1>17 DEF AnswersMatchOrders, gatewayVars, requestVars, Drain, stored
<1>18. ASSUME NEW c \in Replicas, DrainTimeout(c) PROVE AnswersMatchOrders'
  BY <1>18 DEF AnswersMatchOrders, Broken, TypeOK, gatewayVars, DrainTimeout, stored
<1>19. ASSUME NEW c \in Replicas, CloseDatabase(c) PROVE AnswersMatchOrders'
  BY <1>19 DEF AnswersMatchOrders, gatewayVars, requestVars, CloseDatabase, stored
<1>20. ASSUME NEW c \in Replicas, Exit(c) PROVE AnswersMatchOrders'
  BY <1>20 DEF AnswersMatchOrders, Broken, Busy, DrainedBeforeClosing,
    HandlersServe, gatewayVars, Exit, End, stored
<1>21. ASSUME NEW c \in Replicas, FirstPingFails(c) PROVE AnswersMatchOrders'
  BY <1>21 DEF AnswersMatchOrders, gatewayVars, requestVars, FirstPingFails, stored
<1>22. ASSUME NEW c \in Replicas, ListenerFails(c) PROVE AnswersMatchOrders'
  BY <1>22 DEF AnswersMatchOrders, gatewayVars, requestVars, ListenerFails, stored
<1>23. ASSUME NEW c \in Replicas, Signal(c) PROVE AnswersMatchOrders'
  BY <1>23 DEF AnswersMatchOrders, gatewayVars, requestVars, Signal, stored
<1>24. ASSUME NEW c \in Replicas, Kill(c) PROVE AnswersMatchOrders'
  <2> SUFFICES ASSUME NEW r \in Requests
               PROVE  /\ stage'[r] = "ok" => r \in written'
                      /\ stage'[r] = "error" /\ r \in written'
                           => abrupt'[at'[r]] \/ r \in unheard'
                      /\ stage'[r] = "cut" => gatewayForced'
    BY DEF AnswersMatchOrders
  <2>1. /\ written' = written /\ unheard' = unheard /\ at' = at /\ gatewayForced' = gatewayForced
        /\ stage' = Broken(c) /\ abrupt' = [abrupt EXCEPT ![c] = abrupt[c] \/ Busy(c)]
    BY <1>24 DEF Kill, End, gatewayVars, stored
  <2>2. CASE at[r] = c /\ stage[r] = "waiting"
    <3>1. Busy(c)
      BY <2>2 DEF HandlersServe, Busy
    <3>2. abrupt'[c] = TRUE
      BY <2>1, <3>1 DEF TypeOK
    <3>3. QED
      BY <2>1, <2>2, <3>2, BreakingConnections
  <2>3. CASE ~(at[r] = c /\ stage[r] = "waiting")
    <3>1. stage'[r] = stage[r]
      BY <2>1, <2>3, BreakingConnections
    <3>2. at[r] \in Replicas /\ abrupt[at[r]] => abrupt'[at[r]]
      BY <2>1, BreakingConnections DEF TypeOK
    <3>3. stage[r] = "error" => at[r] \in Replicas
      BY DEF HandlersServe
    <3>4. QED
      BY <2>1, <3>1, <3>2, <3>3 DEF AnswersMatchOrders
  <2>4. QED
    BY <2>2, <2>3
<1>25. ASSUME NEW r \in Requests, Answer(r) PROVE AnswersMatchOrders'
  BY <1>25 DEF AnswersMatchOrders, gatewayVars, replicaVars, Answer, stored
<1>26. ASSUME NEW r \in Requests, Forward(r) PROVE AnswersMatchOrders'
  BY <1>26 DEF AnswersMatchOrders, gatewayVars, replicaVars, Forward, stored
<1>27. ASSUME NEW r \in Requests, Connect(r) PROVE AnswersMatchOrders'
  BY <1>27 DEF AnswersMatchOrders, gatewayVars, replicaVars, Connect, stored
<1>28. ASSUME NEW r \in Requests, Refused(r) PROVE AnswersMatchOrders'
  BY <1>28 DEF AnswersMatchOrders, HandlersServe, gatewayVars, replicaVars,
    Refused, stored
<1>29. ASSUME NEW r \in Requests, Commit(r) PROVE AnswersMatchOrders'
  BY <1>29 DEF AnswersMatchOrders, HandlersServe, gatewayVars, replicaVars,
    Commit
<1>30. ASSUME NEW r \in Requests, Abort(r) PROVE AnswersMatchOrders'
  BY <1>30 DEF AnswersMatchOrders, gatewayVars, replicaVars, Abort, stored
<1>31. ASSUME NEW r \in Requests, Reply(r) PROVE AnswersMatchOrders'
  BY <1>31 DEF AnswersMatchOrders, HandlersServe, gatewayVars, replicaVars,
    Reply, stored
<1>32. ASSUME NEW r \in Requests, CommitUnheard(r) PROVE AnswersMatchOrders'
  BY <1>32 DEF AnswersMatchOrders, HandlersServe, gatewayVars, replicaVars,
    CommitUnheard
<1>33. QED
  BY <1>1, <1>2, <1>3, <1>4, <1>5, <1>6, <1>7, <1>8, <1>9, <1>10, <1>11,
    <1>12, <1>13, <1>14, <1>15, <1>16, <1>17, <1>18, <1>19, <1>20, <1>21,
    <1>22, <1>23, <1>24, <1>25, <1>26, <1>27, <1>28, <1>29, <1>30, <1>31, <1>32
    DEF Next, GatewayStep, Step

(* The invariant holds while nothing is under way.                         *)
LEMMA InitIInv == Init => IInv
<1> SUFFICES ASSUME Init PROVE IInv
  OBVIOUS
<1>1. TypeOK
  <2>1. <<>> \in Seq(Routers) /\ DOMAIN <<>> = {}
    OBVIOUS
  <2>2. QED
    BY <2>1 DEF Init, TypeOK
<1>2. ListenersServe
  BY DEF Init, ListenersServe
<1>3. HandlersServe
  BY DEF Init, HandlersServe
<1>4. DrainedBeforeClosing
  BY DEF Init, DrainedBeforeClosing
<1>5. AnswersMatchOrders
  BY DEF Init, AnswersMatchOrders
<1>6. QED
  BY <1>1, <1>2, <1>3, <1>4, <1>5 DEF IInv

(* The inductive invariant of the two processes and the requests between   *)
(* them (app.go, main.go).                                                 *)
THEOREM LifecycleInvariant == Spec => []IInv
<1>1. IInv /\ [Next]_vars => IInv'
  BY StepType, StepListeners, StepHandlers, StepDrained, StepAnswers DEF IInv
<1>2. QED
  BY InitIInv, <1>1, PTL DEF Spec

(* Every variable keeps its type, and the gateway never adds a router      *)
(* twice (buildLoadBalancer).                                              *)
THEOREM LifecycleTypeCorrect == Spec => []TypeOK
<1>1. IInv => TypeOK
  BY DEF IInv
<1>2. QED
  BY LifecycleInvariant, <1>1, PTL

(* A replica closes its database with handlers running only if its         *)
(* listener failed or its drain ran out of time (serveUntilShutdown).      *)
THEOREM ReplicasDrain == Spec => []DrainedBeforeClosing
<1>1. IInv => DrainedBeforeClosing
  BY DEF IInv
<1>2. QED
  BY LifecycleInvariant, <1>1, PTL

(* What clients are told agrees with what is stored, but for a COMMIT that *)
(* seemed to fail and for requests that a replica or the gateway left      *)
(* behind when it stopped.                                                 *)
THEOREM AnswersAreTrue == Spec => []AnswersMatchOrders
<1>1. IInv => AnswersMatchOrders
  BY DEF IInv
<1>2. QED
  BY LifecycleInvariant, <1>1, PTL

(* A request gets a replica only after every check of its mux entry: the   *)
(* entry without checks matches no path of the orders (the table of        *)
(* buildGatewayHttpHandler).                                               *)
THEOREM OnlyCheckedRequestsReachOrders ==
  ASSUME Apart(Prefix[OrderRouter], <<"/auth", "/">>)
  PROVE  Spec => []ForwardedIsAuthorized
<1>1. Init => CheckedOnly
  BY DEF Init, CheckedOnly
<1>2. IInv /\ CheckedOnly /\ [Next]_vars => CheckedOnly'
  <2> SUFFICES ASSUME IInv, CheckedOnly, [Next]_vars PROVE CheckedOnly'
    OBVIOUS
  <2>1. ASSUME NEW r \in Requests, Forward(r) PROVE CheckedOnly'
    <3>1. routers \in Seq(Routers)
      BY DEF IInv, TypeOK
    <3>2. PICK k \in Kinds, limited \in BOOLEAN :
            ProxiedTo(k, limited, routers) = OrderRouter /\ kind' = [kind EXCEPT ![r] = k]
      BY <2>1 DEF Forward
    <3>3. Authorized(k)
      BY <3>1, <3>2, ForwardedIsChecked
    <3>4. \A q \in Requests : q # r => at'[q] = at[q] /\ kind'[q] = kind[q]
      BY <2>1, <3>2 DEF Forward, IInv, TypeOK
    <3>5. kind'[r] = k
      BY <3>2 DEF IInv, TypeOK
    <3>6. QED
      BY <3>3, <3>4, <3>5 DEF CheckedOnly
  <2>2. CASE \A r \in Requests : ~Forward(r)
    <3>1. UNCHANGED <<at, kind>>
      BY <2>2 DEF Next, GatewayStep, Step, vars, gatewayVars, replicaVars, requestVars,
        StartGateway, GatewayListens, DrainGateway, DrainGatewayTimeout, ExitGateway,
        SignalGateway, KillGateway, EndGateway, TogglePostgres, FirstPing, FirstPingFails,
        Expire, Ping, GiveUp, StartServing, Listen, ListenerFails, ServeFails, Signal, Drain,
        DrainTimeout, CloseDatabase, Exit, Kill, End, Answer, Connect, Refused, Commit,
        CommitUnheard, Abort, Reply
    <3>2. QED
      BY <3>1 DEF CheckedOnly
  <2>3. QED
    BY <2>1, <2>2
<1>3. IInv /\ CheckedOnly => ForwardedIsAuthorized
  <2> SUFFICES ASSUME IInv, CheckedOnly, NEW r \in Requests, handler[r] # "none"
               PROVE  Authorized(kind[r])
    BY DEF ForwardedIsAuthorized
  <2>1. stage[r] \notin {"unsent", "answered"}
    BY DEF IInv, HandlersServe
  <2>2. at[r] \in Replicas
    BY <2>1 DEF IInv, HandlersServe
  <2>3. QED
    BY <2>2, ReplicasAssumption DEF CheckedOnly
<1>4. QED
  BY LifecycleInvariant, <1>1, <1>2, <1>3, PTL DEF Spec

(* A path has the prefix of one router at most, and the first match in any *)
(* order finds it.                                                         *)
LEMMA FirstMatchIsTheMatch ==
  ASSUME PrefixesApart, NEW table \in BuildRoutes, NEW path \in Seq(Pieces)
  PROVE  Route(table, path) = Expected(path)
<1> DEFINE First(i) == /\ IsPrefix(Prefix[table[i]], path)
                       /\ \A j \in 1 .. i - 1 : ~IsPrefix(Prefix[table[j]], path)
           found == {s \in Routers : IsPrefix(Prefix[s], path)}
<1>1. /\ table \in Seq(Routers)
      /\ \A i, j \in DOMAIN table : table[i] = table[j] => i = j
      /\ \A t \in Routers : \E i \in DOMAIN table : table[i] = t
  BY RoutesAreComplete
<1>2. \A s, t \in found : s = t
  BY PrefixesMeet, PrefixAssumption DEF PrefixesApart
<1>3. CASE found = {}
  <2>1. ~ \E i \in DOMAIN table : First(i)
    BY <1>1, <1>3
  <2>2. Route(table, path) = NoRoute
    BY <2>1 DEF Route
  <2>3. QED
    BY <1>3, <2>2 DEF Expected
<1>4. ASSUME NEW s \in found PROVE Route(table, path) = Expected(path)
  <2>1. PICK i \in DOMAIN table : table[i] = s
    BY <1>1
  <2>2. \A j \in DOMAIN table : IsPrefix(Prefix[table[j]], path) => j = i
    <3> SUFFICES ASSUME NEW j \in DOMAIN table, IsPrefix(Prefix[table[j]], path)
                 PROVE  j = i
      OBVIOUS
    <3>1. table[j] \in found
      BY <1>1
    <3>2. table[j] = table[i]
      BY <1>2, <2>1, <3>1
    <3>3. QED
      BY <1>1, <3>2
  <2>3. First(i)
    <3>1. \A j \in 1 .. i - 1 : j \in DOMAIN table /\ j # i
      BY <1>1
    <3>2. QED
      BY <2>1, <2>2, <3>1
  <2>4. Route(table, path) # NoRoute
    <3>1. Route(table, path) = table[CHOOSE j \in DOMAIN table : First(j)]
      BY <2>3 DEF Route
    <3>2. (CHOOSE j \in DOMAIN table : First(j)) \in DOMAIN table
      BY <2>3
    <3>3. QED
      BY <1>1, <3>1, <3>2, PrefixAssumption
  <2>5. Route(table, path) \in found
    BY <1>1, <2>4, RouteMatches
  <2>6. \E t \in found : \A u \in found : Len(Prefix[u]) <= Len(Prefix[t])
    <3>1. Len(Prefix[s]) \in Nat
      BY PrefixAssumption
    <3>2. QED
      BY <1>2, <3>1
  <2>7. Expected(path) \in found
    BY <2>6 DEF Expected
  <2>8. QED
    BY <1>2, <2>5, <2>7
<1>5. QED
  BY <1>3, <1>4

(* In a configuration in which no prefix extends another, every process    *)
(* routes alike, whatever order its map was iterated in                    *)
(* (buildLoadBalancerWithStaticServers).                                   *)
THEOREM RouteOrderIsImmaterial ==
  ASSUME PrefixesApart
  PROVE  Spec => []RoutesAgree
<1>1. IInv => RoutesAgree
  <2> SUFFICES ASSUME IInv, gateway = "serving", NEW k \in Kinds
               PROVE  Route(routers, k.path) = Expected(k.path)
    BY DEF RoutesAgree
  <2>1. routers \in BuildRoutes
    BY DEF IInv, ListenersServe
  <2>2. k.path \in Seq(Pieces)
    BY KindsAssumption DEF IsRequest
  <2>3. QED
    BY <2>1, <2>2, FirstMatchIsTheMatch
<1>2. QED
  BY LifecycleInvariant, <1>1, PTL
=============================================================================

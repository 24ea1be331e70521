-------------------------- MODULE JwksCacheProofs --------------------------
(***************************************************************************)
(* Proofs about JwksCache, for any number of handlers and keys, any        *)
(* lifetime of the cache and any order of the fetches.                     *)
(***************************************************************************)
EXTENDS JwksCache, TLAPS

(* The four parts of the invariant hold in the initial states.             *)
LEMMA InitIInv == Init => IInv
<1> SUFFICES ASSUME Init PROVE IInv
  OBVIOUS
<1> USE NoKidAssumption, TTLAssumption, BoundsAssumption
<1>1. TypeOK
  BY DEF Init, TypeOK, Labels, Verdicts
<1>2. DocumentsAreDated
  BY DEF Init, DocumentsAreDated, Withdrawn
<1>3. CacheIsYoung
  BY DEF Init, CacheIsYoung
<1>4. SteadyKeyIsFetched
  BY DEF Init, SteadyKeyIsFetched
<1>5. QED
  BY <1>1, <1>2, <1>3, <1>4 DEF IInv

(* Finish leaves every variable of the token in its type.                  *)
LEMMA FinishType ==
  ASSUME TypeOK, NEW h \in Handlers, NEW verdict \in {"verified", "invalid", "keycloak"},
         Finish(h, verdict)
  PROVE  /\ pc' \in [Handlers -> Labels]
         /\ kid' \in [Handlers -> Kids \cup {NoKid}]
         /\ checkedAt' \in [Handlers -> 0 .. MaxTime]
         /\ steady' \subseteq Handlers /\ overtaken' \subseteq Handlers
  BY BoundsAssumption DEF TypeOK, Finish, Goto, Labels, Verdicts

(* Every step keeps the types.                                             *)
LEMMA StepType ==
  ASSUME TypeOK, [Next]_vars
  PROVE  TypeOK'
<1> USE BoundsAssumption
<1>1. CASE UNCHANGED vars
  BY <1>1 DEF TypeOK, vars, keycloak, cache, token, fetch
<1>2. ASSUME NEW h \in Handlers, Receive(h) PROVE TypeOK'
  BY <1>2 DEF TypeOK, Receive, Goto, Labels, keycloak, cache, fetch
<1>3. ASSUME NEW h \in Handlers, Ensure(h) PROVE TypeOK'
  BY <1>3 DEF TypeOK, Ensure, Goto, Labels, keycloak, cache, fetch
<1>4. ASSUME NEW h \in Handlers, Send(h) PROVE TypeOK'
  BY <1>4 DEF TypeOK, Send, Goto, Labels, keycloak, cache, token
<1>5. ASSUME NEW h \in Handlers, FetchFails(h) PROVE TypeOK'
  BY <1>5, FinishType DEF TypeOK, FetchFails, keycloak, cache, fetch
<1>6. ASSUME NEW h \in Handlers, Install(h) PROVE TypeOK'
  BY <1>6 DEF TypeOK, Install, Goto, Labels, keycloak, Deprived
<1>7. ASSUME NEW h \in Handlers, LookUp(h) PROVE TypeOK'
  <2>1. CASE \E verdict \in {"verified", "invalid", "keycloak"} : Finish(h, verdict)
    BY <1>7, <2>1, FinishType DEF TypeOK, LookUp, keycloak, cache, fetch
  <2>2. CASE Goto(h, "forcing") /\ UNCHANGED token
    BY <1>7, <2>2 DEF TypeOK, LookUp, Goto, Labels, keycloak, cache, fetch, token
  <2>3. QED
    BY <1>7, <2>1, <2>2 DEF LookUp, Verify
<1>8. ASSUME NEW h \in Handlers, LookUpAgain(h) PROVE TypeOK'
  BY <1>8, FinishType DEF TypeOK, LookUpAgain, Verify, keycloak, cache, fetch
<1>9. CASE Rotate
  BY <1>9 DEF TypeOK, Rotate, cache, fetch
<1>10. CASE Tick
  BY <1>10 DEF TypeOK, Tick, keycloak, cache, token, fetch
<1>11. CASE Done
  BY <1>1, <1>11 DEF Done
<1>12. QED
  BY <1>1, <1>2, <1>3, <1>4, <1>5, <1>6, <1>7, <1>8, <1>9, <1>10, <1>11 DEF Next, Handle

-----------------------------------------------------------------------------
(* Finish keeps what the age of the cache and the dates of documents rest  *)
(* on: no handler it moves is past its check any more.                     *)
LEMMA FinishKeepsParts ==
  ASSUME TypeOK, DocumentsAreDated, CacheIsYoung, SteadyKeyIsFetched,
         NEW h \in Handlers, NEW verdict \in {"verified", "invalid", "keycloak"},
         Finish(h, verdict), UNCHANGED <<now, keycloak, cache, fetch>>
  PROVE  DocumentsAreDated' /\ CacheIsYoung' /\ SteadyKeyIsFetched'
<1> USE BoundsAssumption
<1>1. DocumentsAreDated'
  BY DEF TypeOK, DocumentsAreDated, Withdrawn, Finish, Goto, keycloak, cache, fetch
<1>2. CacheIsYoung'
  BY DEF TypeOK, CacheIsYoung, Finish, Goto, keycloak, cache, fetch
<1>3. SteadyKeyIsFetched'
  BY DEF TypeOK, SteadyKeyIsFetched, Verdicts, Finish, Goto, keycloak, cache, fetch
<1>4. QED
  BY <1>1, <1>2, <1>3

(* A document that arrives is dated and holds every steady key.            *)
LEMMA SendKeepsParts ==
  ASSUME TypeOK, DocumentsAreDated, CacheIsYoung, SteadyKeyIsFetched,
         NEW h \in Handlers, Send(h)
  PROVE  DocumentsAreDated' /\ CacheIsYoung' /\ SteadyKeyIsFetched'
<1> USE BoundsAssumption DEF Send, Goto, keycloak, cache, token
<1>1. DocumentsAreDated'
  BY DEF TypeOK, DocumentsAreDated, Withdrawn
<1>2. CacheIsYoung'
  BY DEF TypeOK, CacheIsYoung
<1>3. SteadyKeyIsFetched'
  BY DEF TypeOK, SteadyKeyIsFetched, Verdicts
<1>4. QED
  BY <1>1, <1>2, <1>3

(* The installed document takes its date along; the cache gets younger;    *)
(* and a handler that loses its key by it is overtaken.                    *)
LEMMA InstallKeepsParts ==
  ASSUME TypeOK, DocumentsAreDated, CacheIsYoung, SteadyKeyIsFetched,
         NEW h \in Handlers, Install(h)
  PROVE  DocumentsAreDated' /\ CacheIsYoung' /\ SteadyKeyIsFetched'
<1> USE BoundsAssumption, TTLAssumption DEF Install, Goto, keycloak
<1>1. DocumentsAreDated'
  BY DEF TypeOK, DocumentsAreDated, Withdrawn
<1>2. CacheIsYoung'
  BY DEF TypeOK, CacheIsYoung, DocumentsAreDated
<1>3. SteadyKeyIsFetched'
  BY DEF TypeOK, SteadyKeyIsFetched, Deprived, Verdicts
<1>4. QED
  BY <1>1, <1>2, <1>3

(* A rotation dates the keys it withdraws and unsettles their tokens.      *)
LEMMA RotateKeepsParts ==
  ASSUME TypeOK, DocumentsAreDated, CacheIsYoung, SteadyKeyIsFetched, Rotate
  PROVE  DocumentsAreDated' /\ CacheIsYoung' /\ SteadyKeyIsFetched'
<1> USE BoundsAssumption DEF Rotate, cache, fetch
<1>1. DocumentsAreDated'
  BY DEF TypeOK, DocumentsAreDated, Withdrawn
<1>2. CacheIsYoung'
  BY DEF TypeOK, CacheIsYoung
<1>3. SteadyKeyIsFetched'
  BY DEF TypeOK, SteadyKeyIsFetched, Verdicts
<1>4. QED
  BY <1>1, <1>2, <1>3

(* The remaining steps of a handler move it to another label at most.      *)
LEMMA ReceiveKeepsParts ==
  ASSUME TypeOK, DocumentsAreDated, CacheIsYoung, SteadyKeyIsFetched,
         NEW h \in Handlers, Receive(h)
  PROVE  DocumentsAreDated' /\ CacheIsYoung' /\ SteadyKeyIsFetched'
<1> USE BoundsAssumption DEF Receive, Goto, Verdicts, keycloak, cache, fetch
<1>1. DocumentsAreDated'
  BY DEF TypeOK, DocumentsAreDated, Withdrawn
<1>2. CacheIsYoung'
  BY DEF TypeOK, CacheIsYoung
<1>3. SteadyKeyIsFetched'
  BY DEF TypeOK, SteadyKeyIsFetched, Verdicts
<1>4. QED
  BY <1>1, <1>2, <1>3

(* The check sends a handler to the cache only when the cache is young.    *)
LEMMA EnsureKeepsParts ==
  ASSUME TypeOK, DocumentsAreDated, CacheIsYoung, SteadyKeyIsFetched,
         NEW h \in Handlers, Ensure(h)
  PROVE  DocumentsAreDated' /\ CacheIsYoung' /\ SteadyKeyIsFetched'
<1> USE BoundsAssumption, TTLAssumption DEF Ensure, Goto, keycloak, cache, fetch
<1>1. DocumentsAreDated'
  BY DEF TypeOK, DocumentsAreDated, Withdrawn
<1>2. CacheIsYoung'
  BY DEF TypeOK, CacheIsYoung, Fresh
<1>3. SteadyKeyIsFetched'
  BY DEF TypeOK, SteadyKeyIsFetched, Verdicts
<1>4. QED
  BY <1>1, <1>2, <1>3

(* A lookup that misses asks for a refresh and changes nothing else.       *)
LEMMA ForcingKeepsParts ==
  ASSUME TypeOK, DocumentsAreDated, CacheIsYoung, SteadyKeyIsFetched,
         NEW h \in Handlers, pc[h] = "looking", Goto(h, "forcing"),
         UNCHANGED <<now, keycloak, cache, token, fetch>>
  PROVE  DocumentsAreDated' /\ CacheIsYoung' /\ SteadyKeyIsFetched'
<1> USE BoundsAssumption DEF Goto, keycloak, cache, token, fetch
<1>1. DocumentsAreDated'
  BY DEF TypeOK, DocumentsAreDated, Withdrawn
<1>2. CacheIsYoung'
  BY DEF TypeOK, CacheIsYoung
<1>3. SteadyKeyIsFetched'
  BY DEF TypeOK, SteadyKeyIsFetched, Verdicts
<1>4. QED
  BY <1>1, <1>2, <1>3

(* Time only makes what happened lie further back.                         *)
LEMMA TickKeepsParts ==
  ASSUME TypeOK, DocumentsAreDated, CacheIsYoung, SteadyKeyIsFetched,
         Tick \/ UNCHANGED vars
  PROVE  DocumentsAreDated' /\ CacheIsYoung' /\ SteadyKeyIsFetched'
<1> USE BoundsAssumption DEF Tick, vars, keycloak, cache, token, fetch
<1>1. DocumentsAreDated'
  BY DEF TypeOK, DocumentsAreDated, Withdrawn
<1>2. CacheIsYoung'
  BY DEF TypeOK, CacheIsYoung
<1>3. SteadyKeyIsFetched'
  BY DEF TypeOK, SteadyKeyIsFetched, Verdicts
<1>4. QED
  BY <1>1, <1>2, <1>3

(* The invariant is inductive.                                             *)
LEMMA StepIInv ==
  ASSUME IInv, [Next]_vars
  PROVE  IInv'
<1>1. TypeOK /\ DocumentsAreDated /\ CacheIsYoung /\ SteadyKeyIsFetched
  BY DEF IInv
<1>2. SUFFICES DocumentsAreDated' /\ CacheIsYoung' /\ SteadyKeyIsFetched'
  BY <1>1, StepType DEF IInv
<1>3. ASSUME NEW h \in Handlers, Receive(h) \/ Handle(h)
      PROVE  DocumentsAreDated' /\ CacheIsYoung' /\ SteadyKeyIsFetched'
  <2>1. CASE FetchFails(h)
    BY <1>1, <2>1, FinishKeepsParts DEF FetchFails
  <2>2. CASE LookUp(h)
    <3>1. CASE \E verdict \in {"verified", "invalid", "keycloak"} : Finish(h, verdict)
      BY <1>1, <2>2, <3>1, FinishKeepsParts DEF LookUp
    <3>2. CASE Goto(h, "forcing") /\ UNCHANGED token
      BY <1>1, <2>2, <3>2, ForcingKeepsParts DEF LookUp
    <3>3. QED
      BY <2>2, <3>1, <3>2 DEF LookUp, Verify
  <2>3. CASE LookUpAgain(h)
    BY <1>1, <2>3, FinishKeepsParts DEF LookUpAgain, Verify
  <2>4. QED
    BY <1>1, <1>3, <2>1, <2>2, <2>3, ReceiveKeepsParts, EnsureKeepsParts,
       SendKeepsParts, InstallKeepsParts DEF Handle
<1>4. CASE Rotate
  BY <1>1, <1>4, RotateKeepsParts
<1>5. CASE Tick \/ Done \/ UNCHANGED vars
  <2>1. Tick \/ UNCHANGED vars
    BY <1>5 DEF Done
  <2>2. QED
    BY <1>1, <2>1, TickKeepsParts
<1>6. QED
  BY <1>3, <1>4, <1>5 DEF Next

-----------------------------------------------------------------------------
(* The inductive invariant of the cache.                                   *)
THEOREM CacheInvariant == Spec => []IInv
  BY InitIInv, StepIInv, PTL DEF Spec

(* A withdrawn key is trusted no longer than the lifetime of the cache and *)
(* the time its document took to arrive.                                   *)
THEOREM WithdrawnKeysAreForgotten == Spec => TrustEnds
<1> DEFINE Trusted(h) ==
      Verifies(h) /\ kid[h] \notin published =>
          checkedAt[h] < withdrawnAt[kid[h]] + TTL + (fetchedAt - issuedAt)
<1>1. ASSUME IInv, [Next]_vars, NEW h \in Handlers, Verifies(h), kid[h] \notin published
      PROVE  checkedAt[h] < withdrawnAt[kid[h]] + TTL + (fetchedAt - issuedAt)
  <2>1. kid[h] \in keys
    BY <1>1 DEF IInv, TypeOK, Verifies, Next, vars, Handle, Receive, Ensure, Send,
       FetchFails, Install, LookUp, LookUpAgain, Verify, Finish, Goto, Rotate, Tick,
       Done, Verdicts
  <2>2. kid[h] \in Kids /\ issuedAt <= withdrawnAt[kid[h]]
    BY <1>1, <2>1 DEF IInv, TypeOK, DocumentsAreDated, Withdrawn
  <2>3. checkedAt[h] < fetchedAt + TTL
    BY <1>1 DEF IInv, CacheIsYoung, Verifies
  <2>4. QED
    BY <1>1, <2>2, <2>3, TTLAssumption, BoundsAssumption DEF IInv, TypeOK
<1>2. IInv /\ [Next]_vars => [\A h \in Handlers : Trusted(h)]_vars
  BY <1>1
<1>3. QED
  BY <1>2, CacheInvariant, PTL DEF Spec, TrustEnds

(* A key published throughout a request is refused as unknown only when an *)
(* older document overtook the request's own refresh.                      *)
THEOREM OnlyTheOvertakenAreRefused == Spec => RefusedOnlyIfOvertaken
<1>1. IInv => \A h \in Handlers : RefusesUnknown(h) /\ h \in steady => h \in overtaken
  BY DEF IInv, SteadyKeyIsFetched, RefusesUnknown
<1>2. QED
  BY <1>1, CacheInvariant, PTL DEF Spec, RefusedOnlyIfOvertaken

-----------------------------------------------------------------------------
(* The safety half of EveryTokenJudged: a bound on a handler's steps.      *)
StepsTo ==
    [idle |-> 0, verified |-> 0, invalid |-> 0, keycloak |-> 0, relooking |-> 1,
     reinstalling |-> 2, forcing |-> 3, looking |-> 4, installing |-> 5,
     fetching |-> 6, checking |-> 7]

StepsLeft(h) == StepsTo[pc[h]]

JudgementNears ==
    \A h \in Handlers :
        pc[h] \notin Verdicts =>
          /\ StepsLeft(h) \in Nat
          /\ StepsLeft(h)' < StepsLeft(h) \/ pc'[h] = pc[h]

(* Each step of a token's handler brings its verdict nearer and no other   *)
(* handler's step undoes one, so that a token makes the gateway ask        *)
(* Keycloak at most twice, whatever keys come and go meanwhile.            *)
THEOREM TokensAreJudgedInSteps == Spec => [][JudgementNears]_vars
<1>1. ASSUME TypeOK, NEW h \in Handlers, Handle(h)
      PROVE  \/ pc[h] = "checking" /\ pc'[h] \in {"looking", "fetching"}
             \/ pc[h] = "fetching" /\ pc'[h] \in {"installing", "keycloak"}
             \/ pc[h] = "installing" /\ pc'[h] = "looking"
             \/ pc[h] = "looking" /\ pc'[h] \in {"forcing", "verified", "invalid"}
             \/ pc[h] = "forcing" /\ pc'[h] \in {"reinstalling", "invalid"}
             \/ pc[h] = "reinstalling" /\ pc'[h] = "relooking"
             \/ pc[h] = "relooking" /\ pc'[h] \in {"verified", "invalid"}
  <2>1. CASE Ensure(h) \/ Send(h) \/ Install(h)
    BY <1>1, <2>1 DEF TypeOK, Ensure, Send, Install, Goto
  <2>2. CASE FetchFails(h) \/ LookUp(h) \/ LookUpAgain(h)
    BY <1>1, <2>2 DEF TypeOK, FetchFails, LookUp, LookUpAgain, Verify, Finish, Goto
  <2> QED BY <1>1, <2>1, <2>2 DEF Handle
<1>2. ASSUME TypeOK, NEW h \in Handlers, Handle(h)
      PROVE  StepsLeft(h)' < StepsLeft(h)
  <2>1. StepsLeft(h)' = StepsTo[pc'[h]]
    BY DEF StepsLeft
  <2> QED BY <1>1, <1>2, <2>1 DEF StepsLeft, StepsTo
<1>3. ASSUME TypeOK, NEW h \in Handlers, NEW g \in Handlers \ {h}, Receive(g) \/ Handle(g)
      PROVE  pc'[h] = pc[h]
  BY <1>3 DEF TypeOK, Handle, Receive, Ensure, Send, FetchFails, Install, LookUp,
     LookUpAgain, Verify, Finish, Goto
<1>4. IInv /\ [Next]_vars => [JudgementNears]_vars
  <2> SUFFICES ASSUME TypeOK, Next, NEW h \in Handlers, pc[h] \notin Verdicts
               PROVE  /\ StepsLeft(h) \in Nat
                      /\ StepsLeft(h)' < StepsLeft(h) \/ pc'[h] = pc[h]
    BY DEF JudgementNears, IInv, vars
  <2>1. StepsLeft(h) \in Nat
    BY DEF TypeOK, Labels, Verdicts, StepsLeft, StepsTo
  <2>2. ~Receive(h)
    BY DEF Receive
  <2>3. CASE Rotate \/ Tick \/ Done
    BY <2>1, <2>3 DEF Rotate, Tick, Done, vars
  <2>4. ASSUME NEW g \in Handlers, Receive(g) \/ Handle(g)
        PROVE  StepsLeft(h)' < StepsLeft(h) \/ pc'[h] = pc[h]
    <3>1. CASE g = h
      BY <1>2, <2>2, <2>4, <3>1
    <3>2. CASE g # h
      BY <1>3, <2>4, <3>2
    <3> QED BY <3>1, <3>2
  <2> QED BY <2>1, <2>3, <2>4 DEF Next
<1> QED BY <1>4, CacheInvariant, PTL DEF Spec
=============================================================================

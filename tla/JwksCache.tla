------------------------------ MODULE JwksCache ------------------------------
(***************************************************************************)
(* The gateway's JWT validator (jwt_validator.go): request goroutines      *)
(* verify tokens with the signing keys of Keycloak, cached for a while in  *)
(* one map behind a read-write lock.  The map is empty at first; a request *)
(* fetches the published key set (the JWKS document) when the cache is     *)
(* empty or too old, and again when the key of its token is not in it.     *)
(* Fetches hold no lock, so documents arrive in any order.  Keycloak       *)
(* rotates its keys meanwhile, and may fail to answer.                     *)
(***************************************************************************)
EXTENDS Integers

CONSTANTS
    Handlers,     \* request goroutines
    Kids,         \* key ids
    NoKid,        \* of a handler without a token
    TTL,          \* jwksCacheTTL
    MaxTime,      \* bound: readings of the monotonic clock
    MaxRotations, \* bound: changes of the published key set
    MaxRequests   \* bound: tokens validated in one behaviour

ASSUME NoKidAssumption == NoKid \notin Kids
ASSUME TTLAssumption == TTL \in Nat \ {0}
ASSUME BoundsAssumption ==
    MaxTime \in Nat /\ MaxRotations \in Nat /\ MaxRequests \in Nat

VARIABLES
    now,         \* the monotonic clock
    published,   \* the usable (RSA) keys Keycloak publishes
    keys,        \* verificationKeys
    fetchedAt,   \* lastJWKSFetchTime
    pc,          \* where each handler is; between requests, its last verdict
    kid,         \* the key id in each handler's token
    document,    \* the JWKS document each handler received
    rotations,   \* changes of the published keys so far
    received     \* tokens so far

\* Auxiliary variables of the properties.
VARIABLES
    issuedAt,    \* when Keycloak sent the document in the cache
    sentAt,      \* when it sent each handler's document
    checkedAt,   \* when each handler last looked at the age of the cache
    withdrawnAt, \* when each key was last withdrawn
    steady,      \* handlers whose key has been published since they started
    overtaken    \* handlers that lost their key again before they looked it up

keycloak == <<published, rotations, withdrawnAt>>
cache    == <<keys, fetchedAt, issuedAt>>
token    == <<kid, checkedAt, steady, overtaken>>
fetch    == <<document, sentAt>>
vars == <<now, keycloak, cache, token, fetch, pc, received>>

(* "verified" stands for what the claims of a token with a good signature  *)
(* make of it: accepted, expired or invalid.                               *)
Verdicts == {"idle", "verified", "invalid", "keycloak"}

Goto(h, label) == pc' = [pc EXCEPT ![h] = label]

(* The token has its verdict, and the handler forgets it.                  *)
Finish(h, verdict) ==
    /\ Goto(h, verdict)
    /\ kid' = [kid EXCEPT ![h] = NoKid]
    /\ checkedAt' = [checkedAt EXCEPT ![h] = 0]
    /\ steady' = steady \ {h}
    /\ overtaken' = overtaken \ {h}

-----------------------------------------------------------------------------
(* Validate and ValidateIDToken, on a token that is not blank.             *)
Receive(h) ==
    /\ pc[h] \in Verdicts
    /\ received < MaxRequests
    /\ received' = received + 1
    /\ \E k \in Kids :
          /\ kid' = [kid EXCEPT ![h] = k]
          /\ steady' = IF k \in published THEN steady \cup {h} ELSE steady
    /\ Goto(h, "checking")
    /\ UNCHANGED <<now, keycloak, cache, fetch, checkedAt, overtaken>>

Fresh == keys # {} /\ now - fetchedAt < TTL

(* Mutant of Ensure, without the age of the cache.                         *)
EnsureFilled(h) ==
    /\ pc[h] = "checking"
    /\ checkedAt' = [checkedAt EXCEPT ![h] = now]
    /\ Goto(h, IF keys # {} THEN "looking" ELSE "fetching")
    /\ UNCHANGED <<now, keycloak, cache, fetch, kid, received, steady, overtaken>>

(* ensureJWKS.                                                             *)
Ensure(h) ==
    /\ pc[h] = "checking"
    /\ checkedAt' = [checkedAt EXCEPT ![h] = now]
    /\ Goto(h, IF Fresh THEN "looking" ELSE "fetching")
    /\ UNCHANGED <<now, keycloak, cache, fetch, kid, received, steady, overtaken>>

(* Keycloak answers the request of a handler with its keys of the moment.  *)
Send(h) ==
    /\ pc[h] \in {"fetching", "forcing"}
    /\ document' = [document EXCEPT ![h] = published]
    /\ sentAt' = [sentAt EXCEPT ![h] = now]
    /\ Goto(h, IF pc[h] = "fetching" THEN "installing" ELSE "reinstalling")
    /\ UNCHANGED <<now, keycloak, cache, token, received>>

(* It does not, or the document has no usable key.  What was a failure of  *)
(* Keycloak before the token is parsed is an invalid token afterwards.     *)
FetchFails(h) ==
    /\ pc[h] \in {"fetching", "forcing"}
    /\ Finish(h, IF pc[h] = "fetching" THEN "keycloak" ELSE "invalid")
    /\ UNCHANGED <<now, keycloak, cache, fetch, received>>

(* Handlers whose key is in the cache no more when g installs a document.  *)
Deprived(g) ==
    {h \in Handlers \ {g} : pc[h] = "relooking" /\ kid[h] \notin document[g]}

(* Mutant of Install, adding to the keys in place of replacing them.       *)
InstallMerged(h) ==
    /\ pc[h] \in {"installing", "reinstalling"}
    /\ keys' = keys \cup document[h]
    /\ fetchedAt' = now
    /\ issuedAt' = sentAt[h]
    /\ overtaken' = overtaken \cup Deprived(h)
    /\ document' = [document EXCEPT ![h] = {}]
    /\ sentAt' = [sentAt EXCEPT ![h] = 0]
    /\ Goto(h, IF pc[h] = "installing" THEN "looking" ELSE "relooking")
    /\ UNCHANGED <<now, keycloak, kid, received, checkedAt, steady>>

(* The end of refreshJWKS: the received keys replace the cached ones.      *)
Install(h) ==
    /\ pc[h] \in {"installing", "reinstalling"}
    /\ keys' = document[h]
    /\ fetchedAt' = now
    /\ issuedAt' = sentAt[h]
    /\ overtaken' = overtaken \cup Deprived(h)
    /\ document' = [document EXCEPT ![h] = {}]
    /\ sentAt' = [sentAt EXCEPT ![h] = 0]
    /\ Goto(h, IF pc[h] = "installing" THEN "looking" ELSE "relooking")
    /\ UNCHANGED <<now, keycloak, kid, received, checkedAt, steady>>

(* The key is found: signature and claims are the token's own business.    *)
Verify(h) == kid[h] \in keys /\ Finish(h, "verified")

(* Mutant of LookUp, refreshing only a cache that is too old.              *)
LookUpUnforced(h) ==
    /\ pc[h] = "looking"
    /\ \/ Finish(h, "invalid")
       \/ Verify(h)
       \/ kid[h] \notin keys /\ Fresh /\ Goto(h, "relooking") /\ UNCHANGED token
       \/ kid[h] \notin keys /\ ~Fresh /\ Goto(h, "forcing") /\ UNCHANGED token
    /\ UNCHANGED <<now, keycloak, cache, fetch, received>>

(* The parser refuses a token that is malformed, of another method or has  *)
(* no key id; otherwise its key function does the first lookup, ...        *)
LookUp(h) ==
    /\ pc[h] = "looking"
    /\ \/ Finish(h, "invalid")
       \/ Verify(h)
       \/ kid[h] \notin keys /\ Goto(h, "forcing") /\ UNCHANGED token
    /\ UNCHANGED <<now, keycloak, cache, fetch, received>>

(* Mutant of LookUpAgain, fetching until the key is found.                 *)
LookUpUntilFound(h) ==
    /\ pc[h] = "relooking"
    /\ \/ Verify(h)
       \/ kid[h] \notin keys /\ Goto(h, "forcing") /\ UNCHANGED token
    /\ UNCHANGED <<now, keycloak, cache, fetch, received>>

(* ... and the second one, after the forced refresh.                       *)
LookUpAgain(h) ==
    /\ pc[h] = "relooking"
    /\ \/ Verify(h)
       \/ kid[h] \notin keys /\ Finish(h, "invalid")
    /\ UNCHANGED <<now, keycloak, cache, fetch, received>>

-----------------------------------------------------------------------------
(* Keycloak starts to publish some keys and withdraws others.              *)
Rotate ==
    /\ rotations < MaxRotations
    /\ rotations' = rotations + 1
    /\ published' \in SUBSET Kids \ {{}, published}
    /\ withdrawnAt' = [k \in Kids |-> IF k \in published \ published'
                                      THEN now ELSE withdrawnAt[k]]
    /\ steady' = {h \in steady : kid[h] \in published'}
    /\ UNCHANGED <<now, cache, fetch, pc, kid, received, checkedAt, overtaken>>

Tick ==
    /\ now < MaxTime
    /\ now' = now + 1
    /\ UNCHANGED <<keycloak, cache, token, fetch, pc, received>>

(* Every token of the bound has its verdict.                               *)
Done ==
    /\ \A h \in Handlers : pc[h] \in Verdicts
    /\ UNCHANGED vars

Init ==
    /\ now = 0
    /\ published \in SUBSET Kids \ {{}}
    /\ keys = {}
    /\ fetchedAt = 0
    /\ pc = [h \in Handlers |-> "idle"]
    /\ kid = [h \in Handlers |-> NoKid]
    /\ document = [h \in Handlers |-> {}]
    /\ rotations = 0
    /\ received = 0
    /\ issuedAt = 0
    /\ sentAt = [h \in Handlers |-> 0]
    /\ checkedAt = [h \in Handlers |-> 0]
    /\ withdrawnAt = [k \in Kids |-> 0]
    /\ steady = {}
    /\ overtaken = {}

(* What a handler does for its token once it has it.                       *)
Handle(h) == Ensure(h) \/ Send(h) \/ FetchFails(h) \/ Install(h) \/ LookUp(h) \/ LookUpAgain(h)

Next ==
    \/ \E h \in Handlers : Receive(h) \/ Handle(h)
    \/ Rotate
    \/ Tick
    \/ Done

Spec == Init /\ [][Next]_vars

(* Go schedules every goroutine; a request to Keycloak is answered or its  *)
(* connection breaks.                                                      *)
FairSpec == Spec /\ \A h \in Handlers : WF_vars(Handle(h))

-----------------------------------------------------------------------------
Labels == Verdicts \cup {"checking", "fetching", "installing", "looking",
                         "forcing", "reinstalling", "relooking"}

TypeOK ==
    /\ now \in 0 .. MaxTime /\ fetchedAt \in 0 .. MaxTime /\ issuedAt \in 0 .. MaxTime
    /\ published \subseteq Kids /\ keys \subseteq Kids
    /\ pc \in [Handlers -> Labels]
    /\ kid \in [Handlers -> Kids \cup {NoKid}]
    /\ document \in [Handlers -> SUBSET Kids]
    /\ rotations \in 0 .. MaxRotations /\ received \in 0 .. MaxRequests
    /\ sentAt \in [Handlers -> 0 .. MaxTime]
    /\ checkedAt \in [Handlers -> 0 .. MaxTime]
    /\ withdrawnAt \in [Kids -> 0 .. MaxTime]
    /\ steady \subseteq Handlers /\ overtaken \subseteq Handlers

Verifies(h) == pc[h] \in {"looking", "relooking"} /\ pc'[h] = "verified"

(* A withdrawn key is trusted no longer than the lifetime of the cache and *)
(* the time its document took to arrive, however fetches overlap and fail: *)
(* counted to the moment the request looked at the age of the cache, for   *)
(* its goroutine may be delayed after that.                                *)
TrustEnds ==
    [][\A h \in Handlers :
          Verifies(h) /\ kid[h] \notin published =>
              checkedAt[h] < withdrawnAt[kid[h]] + TTL + (fetchedAt - issuedAt)]_vars

RefusesUnknown(h) ==
    pc[h] = "relooking" /\ pc'[h] = "invalid" /\ kid[h] \notin keys

(* A token signed with a key that Keycloak has published ever since the    *)
(* request began is refused as unknown in one case only: a document older  *)
(* than the key was installed between this request's refresh and its       *)
(* lookup.  A rotated key is otherwise picked up at its first use.         *)
RefusedOnlyIfOvertaken ==
    [][\A h \in Handlers : RefusesUnknown(h) /\ h \in steady => h \in overtaken]_vars

(* Every token gets a verdict, an unknown key or Keycloak being down       *)
(* included.                                                               *)
EveryTokenJudged ==
    \A h \in Handlers : pc[h] \notin Verdicts ~> pc[h] \in Verdicts

(* "expected JWKS refresh on unknown kid" (jwt_validator_test.go:115): a   *)
(* key that is published throughout the request is found after a refresh.  *)
RotatedKeyIsFound ==
    [][\A h \in Handlers : RefusesUnknown(h) => h \notin steady]_vars

-----------------------------------------------------------------------------
(* The inductive invariant: the keys of a document were published when it  *)
(* was sent, so a key that is published no more was withdrawn after that;  *)
(* and a refresh for a steady key finds it.                                *)
Withdrawn(document_, at) ==
    \A k \in document_ \ published : at <= withdrawnAt[k]

DocumentsAreDated ==
    /\ Withdrawn(keys, issuedAt)
    /\ issuedAt <= fetchedAt /\ fetchedAt <= now
    /\ \A k \in Kids : withdrawnAt[k] <= now
    /\ \A h \in Handlers :
          /\ checkedAt[h] <= now
          /\ pc[h] \in {"installing", "reinstalling"} =>
                Withdrawn(document[h], sentAt[h]) /\ sentAt[h] <= now

(* A handler past its check finds a cache that was young enough then.      *)
CacheIsYoung ==
    \A h \in Handlers :
        pc[h] \in {"looking", "forcing", "reinstalling", "relooking"} =>
            checkedAt[h] < fetchedAt + TTL

SteadyKeyIsFetched ==
    \A h \in Handlers :
        /\ h \in steady => pc[h] \notin Verdicts /\ kid[h] \in published
        /\ h \in steady /\ pc[h] = "reinstalling" => kid[h] \in document[h]
        /\ h \in steady \ overtaken /\ pc[h] = "relooking" => kid[h] \in keys

IInv == TypeOK /\ DocumentsAreDated /\ CacheIsYoung /\ SteadyKeyIsFetched
=============================================================================

# trapigo: TLA+ models, checks and proofs

This directory models the parts of the repository whose correctness depends on
order, concurrency and failure, checks them with TLC on small instances, and
proves the main safety results with TLAPS for every instance.

- `PROJECT.json` lists the components, the runs, the code each definition
  translates, the hazards of the code and the theorems.
- `tlc -config <run>.cfg <module>.tla` repeats a run, `tlapm <Module>Proofs.tla`
  a proof.

## 1. The system

| Part | State | Operations | Interacts with |
|---|---|---|---|
| Order service (`go-order-service`): HTTP handlers, commands, repository, unit of work | tables `customer_order` and `customer_order_item`, their id sequences; per request: the loaded `domain.Order`, an open transaction | create, get, list, change status, add/patch/remove item, delete | Postgres; called by the gateway |
| Order service process (`cmd/app`, `platform/database`) | the server, the pool, telemetry | ping with retries, serve, drain, flush, close | Postgres, the OS |
| Load balancer (`trapigo/.../core/domain`) | backends of each route, a shared int64 counter | choose the next backend | the gateway pipeline |
| Rate limiter (`.../middleware/transporthttp/rate_limit.go`) | a map of token buckets, one mutex | consume a token, refill by elapsed time | the gateway pipeline |
| JWT validation (`jwt_validator.go`) | the cached JWKS key set and its fetch time | validate a token, refresh the keys (on age or on an unknown key) | Keycloak's JWKS endpoint |
| Session authentication (`authentication.go`, `cookie_manager.go`) | cookies in the browser | authenticate by bearer or cookie, refresh, clear cookies | JWT validation, Keycloak's token endpoint |
| OAuth login (`auth/web`, `oauth_state_store.go`, `keycloak.go`) | a map of pending OAuth states, cookies | login, callback, logout, me | Keycloak, the browser |
| Gateway pipeline (`app/gateway/bootstrap`, `origin`) | the route table | log, limit, check CSRF and origin, authenticate, forward | all gateway parts; the order service |
| Gateway process (`bootstrap/app.go`) | two servers, telemetry | start, wait for a signal, shut down | the OS |
| Showcase (`frontend-dashboard/src`) | one active trace on the server; request and trace state in the browser | send requests through the gateway or directly, poll Jaeger, normalise a trace | gateway, order service, Jaeger |

What is hard in each, and what makes it correct:

- **Order service.** Requests on one order interleave at statement granularity
  under READ COMMITTED, and every write is computed from an earlier read without
  a lock. Correct: item rows are internally consistent and owned by an order,
  deletes are final, totals follow items, what an answer shows is stored,
  every request ends.
- **Load balancer.** Concurrent requests share one counter that wraps. Correct:
  each backend gets its turn and an index is always valid.
- **Rate limiter.** Buckets are shared and refilled lazily by a clock. Correct:
  no client gets more than capacity plus what was refilled, and none is refused
  a token it has.
- **JWT validation.** Fetches run outside the lock and overlap with key
  rotation. Correct: the cache is replaced as a whole, a withdrawn key is
  trusted for a bounded time, and a rotated key is found.
- **Sessions and login.** Requests of one browser race on cookies, refresh
  tokens and the one-time state. Correct: the tokens in the browser belong
  together, an older one never replaces a newer, a spent state is refused, a
  logout holds.
- **Gateway pipeline.** Several checks in a row, some on some entries of the mux
  only, and routers in the random order of a map. Correct: what reaches the order
  service was checked, and equal configurations route alike.
- **Processes.** Start-up and shutdown overlap with requests in two processes,
  and each shutdown has a deadline. Correct: requests are drained before what
  they use is closed, an answer tells the truth about the order, a process told
  to stop exits.
- **Showcase.** Answers and polls arrive late. Correct: what is shown belongs to
  the request it is shown for, and polling ends.

## 2. Modules

### Orders: the order service

`Orders` models the service for any number of concurrent requests, in one
process or in several replicas (they share only the database). A member of
`Clients` is a request goroutine; it serves one request at a time.

| In the model | In the code |
|---|---|
| `orders`, `items` | the committed rows of the two tables (`db/migrations/*.sql`) |
| `nextOrder`, `nextItem` | the `BIGSERIAL` sequences |
| `pc[c]` | the statement the handler is about to run |
| `req[c]` | the decoded request (path ids and body) |
| `loaded[c]` | the `domain.Order` in the handler's memory; `items` by id, those not stored yet by `0, -1, ...` in place of their position; `fresh` counts them; `inserted` are the rows the transaction has inserted |
| `locks[c]` | the order row the open transaction has locked |
| `answer[c]` | the status code of the last response |
| `overtaken` | auxiliary: handlers whose order changed after they read it |

| Action | Code |
|---|---|
| `Submit` | routing, and the checks made before a transaction (`create_order.go:37`, `update_order_status.go:29`) |
| `BuildLine` | one turn of the loop of `NewOrder` |
| `InsertOrder`, `InsertItems` | the statements of `Create` |
| `ReadOrder`, `ReadItems` | the two statements of `GetByID`; `ReadItems` continues with the command's domain method (`AddItem`, `UpdateItem`, `RemoveItem`, `UpdateStatus`) |
| `UpdateOrder`, `WriteItems` | the statements of `Update` |
| `DeleteOrder` | `Delete` |
| `Commit` | the COMMIT of `RunInTx` and the answer |
| `Fail` | a statement, the BEGIN or the COMMIT fails, or the process dies; a failed COMMIT may have taken effect |

A transaction's writes live in `loaded` and reach the tables in `Commit`: under
READ COMMITTED no other transaction sees them before. What the others do notice
earlier is the row lock, which `LockOrder` takes. `InsertItems` and `WriteItems`
run the loop of INSERTs and UPDATEs as one step: the item rows of an existing
order are written under the lock of its row by every handler, and those of a new
order are visible to none, so no other transaction can see or change anything
between two turns of the loop.

Abstracted: customer and product ids beyond "positive or not", timestamps,
JSON, and ids a failed INSERT burns. `GET /orders` is not in this module.

### OrderStore: what the order service promises

`OrderStore` is the abstract specification of the service, without handlers,
transactions or statements: a store in which each step creates, changes or
deletes one order with its items, leaves every other order's rows alone, and
never makes an order of an id twice. `ImplementsOrderStore` maps `Orders` to it:
the committed tables to its tables, the sequence to `next`, and the ids held by
creations under way (`Creators`) to `pending`. A failed creation maps to
`Abandon`, and a commit on an order that was deleted meanwhile to no step at
all. It says nothing of which change a commit makes: `AnswerIsStored` and
`TotalFollowsItems` do, and the refuted properties show what no abstract
specification of a correct service would allow.

### MCOrders

Gives the request bodies their values and the clients their symmetry.

### RateLimiter: the limiter of the gateway

`RateLimiter` models the middleware of `rate_limit.go` when it is enabled, for
any number of request goroutines and clients. (Disabled, it passes every
request on and keeps nothing.)

Tokens are fractions in the code. The model counts them in a unit of which a
token costs `Cost` and a tick of the clock refills `Refill`, so that the rate
`RefillRate / RefillInterval` is `Refill / Cost` tokens a tick. The rounding of
float64 is left out.

| In the model | In the code |
|---|---|
| `buckets` | `limiter.buckets`, with `tokens` and `lastRefill` |
| `mutex` | `limiter.mu` |
| `clock`, `now[h]` | the wall clock, and the reading `consume` took of it |
| `key[h]` | `clientKey(r)` |
| `running` | FALSE once the runtime has aborted the process |
| `ledger`, `slipped` | auxiliary: what each client was given since its bucket was full and since it was first seen; whether the clock was ever set back |

| Action | Code |
|---|---|
| `Receive` | the request enters the middleware; `clientKey` |
| `Acquire` | `consume` up to the lock, with the bucket lookup |
| `Insert` | the map assignment of a new client's bucket (two steps of the runtime, so that a reader can meet it) |
| `Consume` | refill, take a token, unlock |
| `Observe` | what follows the unlock: the read of the map for the log, the answer |
| `Restart`, `Tick`, `SetBack` | the orchestrator and the clock |

`UTC()` drops the monotonic reading, so `SetBack` may set the clock back. The
map is read at line 76 after the mutex was released; when that meets `Insert`,
the runtime may abort the process: `running` becomes FALSE.

### BackendPool: round-robin selection

`Rotation` is the abstract specification, independent of the code: choices are
handed out in turn, modulo the number of backends. `BackendPool` models both
methods of `backend_pool.go` (`method` is chosen once per behaviour, as a route
uses one of them): `ChooseLocked` is `RoundRobinMutex`, one critical section;
`Increment` and `Index` are `RoundRobinAtomic`, between which other requests
run. `Forward` ends a request. `int64` is `-Half .. Half - 1` and wraps; Go's
`%` keeps the sign of the dividend (`Rem`). `ImplementsRotation` maps `drawn`
and `current` to the abstract specification until the counter wraps.

### JwksCache: the signing keys of the gateway

`JwksCache` models `jwt_validator.go`: request goroutines validate tokens with
the cached key set. What the claims of a token with a good signature lead to
(accepted, expired, invalid) is left open as the one verdict `verified`.

| In the model | In the code |
|---|---|
| `keys`, `fetchedAt` | `verificationKeys`, `lastJWKSFetchTime`, behind `mu` |
| `kid[h]` | the key id of the handler's token |
| `document[h]` | the JWKS document the handler received and has not installed |
| `published` | the RSA keys Keycloak publishes |
| `issuedAt`, `sentAt`, `withdrawnAt`, `checkedAt` | auxiliary: when the cached and the received documents were sent, keys withdrawn, ages checked |
| `steady`, `overtaken` | auxiliary: handlers whose key was published ever since they began, and those that lost it from the cache before their second lookup |

| Action | Code |
|---|---|
| `Receive` | `Validate` / `ValidateIDToken` on a token that is not blank |
| `Ensure` | `ensureJWKS`: the check of the cache under the read lock |
| `Send`, `FetchFails` | Keycloak's answer, without a lock held; or none, or one without a usable key |
| `Install` | the assignment of the new map and its time under the write lock |
| `LookUp`, `LookUpAgain` | the key function, before and after the forced refresh |
| `Rotate`, `Tick` | Keycloak and the clock |

`Handle` is the sequence of steps in `Validate`; `ValidateIDToken` takes the same
ones. `ValidateString` and `ParseTokenString` have no callers and are left out.

### Session: one browser's cookies, from login to logout

The gateway keeps no session: it is in the browser's cookies. `Session` models
one browser with `Slots` requests under way, the gateway's login, callback,
logout and authentication, and Keycloak as far as they use it. Requests carry
the cookies as they were when they were sent, and answers are applied in the
order they arrive in.

| In the model | In the code |
|---|---|
| `jar` | the browser's three cookies, each with the moment it drops them (`cookie_manager.go` and the handlers that set them) |
| `states`, `discovered` | `oauth_state_store.go`; the cached discovery document of `keycloak.go` |
| `begun`, `offered` | logins that saved a state, and those whose authorization URL reached the browser |
| `issued`, `redeemed`, `latest`, `rotates` | Keycloak: authorization codes, those exchanged, the newest token of each session, whether refresh tokens are good for one use |
| `pc`, `request`, `token`, `answer` | each request: where it is, what it carries, what Keycloak gave it, its response |
| `signedIn`, `signedOut`, `overtaken`, `restored`, `forfeited` | auxiliary |

| Action | Code |
|---|---|
| `Login`, `Authorize` | `HandleLogin`; the user at Keycloak |
| `Return` .. `FetchState`, `Exchange`, `Complete`, `Reject` | `HandleCallback`: state, exchange, validation, deletion of the state and cookies |
| `Call`, `Authenticate`, `Refresh`, `RefuseRefresh`, `Proceed`, `Withdraw` | `authenticateRequest` with a cookie: validation, refresh, the cookies of the refresh, second validation |
| `Bearer`, `AuthenticateBearer` | `authenticateRequest` with an `Authorization` header |
| `Logout`, `SignOff` | `HandleLogout` |
| `Deliver`, `Lose` | the browser applies an answer, or left before it came |
| `Restart`, `Tick` | the gateway's process; time, and cookies that run out |

Points of the code the model keeps: the state is read before the exchange and
deleted after it, so two callbacks that are past the read together both go on
(`frontend-dashboard/README.md:58-59` calls the state single-use);
`SpentStateRefused` is what holds. A refresh sets a new refresh cookie (the
oauth2 package returns the old refresh token when Keycloak sends none) and not
the id-token cookie; a failed one clears the access and refresh cookies only.
The refresh cookie has two lives, one after a login and one after a refresh. A
response may set cookies and clear them again. `HandleLogout` answers 403 and
clears nothing if the request has no `Origin`, and clears the cookies also when it
answers 502.

Keycloak may answer a code without a refresh token (`renewable` is FALSE). The
callback then sets no refresh cookie (`auth_handler.go:68`) and leaves one of an
earlier session beside the new access token; `TokensPaired` names this case and
excludes every other. With refresh tokens that are good for one use, the second
of two requests that refresh with the same token is refused, and its 401 clears
the cookies the first one set. `NewestTokenKept` does not deny it: it lists the
ways in which the newest refresh token can go from the browser and from its way
there (its answer is lost or refused by the validator, its cookie runs out, an
answer clears it, another session's takes its place), and says that nothing else
does it: no order of answers puts an older token in its place, and no handler
forgets to pass it on.

Left open: why a token is invalid otherwise than by expiry (its key, a scope) is
a nondeterministic refusal, as is the end of a session at Keycloak. Left out:
return URLs (the second check of one never fails), and `me`, which reads.

### Pipeline: the checks and routes of the gateway

`Pipeline` holds no state: it is the decision the gateway takes about one
request, as operators. `AllowedOrigins`, `CsrfPasses`, `OriginPasses` and
`Preflight` are the origin checks, `Entry` the table of the mux, `Admitted` the
middlewares in their order (limit, cross-site check, then per entry the origin
check, which answers a preflight, and authentication). `BuildRoutes` is the set
of orders in which the routers can be added: Go iterates over a map.
`Route` takes the first whose prefix fits. The verdicts of the limiter and of
authentication are inputs, since `RateLimiter`, `JwksCache` and `Session` model
them. Paths are sequences of `Pieces`, as only prefixes of them matter.

### Lifecycle: the processes, and a request through both

`Lifecycle` composes the gateway (with `Pipeline`), the replicas of the order
service, Postgres and requests of clients.

| In the model | In the code |
|---|---|
| `gateway`, `gatewayListener`, `routers` | how far `App.Run` is, its listener, `LoadBalancer.Routers` |
| `phase`, `listener`, `late`, `abrupt` | how far `main` is per replica, its listener, whether `openTimeout` passed; auxiliary: did it stop with handlers running |
| `stage`, `at`, `kind` | a request as its client sees it, the replica it went to, what it looks like |
| `handler`, `written` | what the replica does for it; the orders stored |
| `unheard` | auxiliary: the orders stored by a COMMIT whose reply was lost |

| Action | Code |
|---|---|
| `StartGateway`, `GatewayListens`, `SignalGateway`, `DrainGateway`, `DrainGatewayTimeout`, `ExitGateway` | `NewApp` and `App.Run`: routes, the serving goroutine, the signal, `Shutdown` with its deadline, the flush of telemetry |
| `FirstPing`, `FirstPingFails`, `Expire`, `Ping`, `GiveUp` | `database.Open`: the first ping has no deadline and its result is dropped, the others end after 30 seconds |
| `StartServing`, `Listen`, `ListenerFails`, `ServeFails`, `Signal`, `Drain`, `DrainTimeout`, `CloseDatabase`, `Exit` | `main`, `serveUntilShutdown`, `shutdownServer` |
| `Answer`, `Forward`, `Connect`, `Refused` | the pipeline's decision, the proxy and its connection |
| `Commit`, `CommitUnheard`, `Abort`, `Reply` | a handler of the order service: its COMMIT, one whose reply is lost (`RunInTx` returns the error although the order is stored), any other failure, the answer |
| `KillGateway`, `Kill`, `TogglePostgres` | crashes and failed starts; Postgres stops and starts to answer |

`AnswersMatchOrders` says when an answer and the tables may disagree: an error
for an order that is stored means that the reply to its COMMIT was lost or that
its replica stopped under it, no answer at all that the gateway did, and `ok` is
always true.

The replica of a request is chosen freely, since `BackendPool` says how. A
handler may commit after `db.Close`: `Close` leaves connections in use alone.
Nothing in the repository starts a process again, so each has one life. Left
out: the admin server, which has one handler that always answers; clients that
give up; connections that are reused. The initialisation of telemetry is part of
`StartServing`, its failure of `Kill`.

### Proof modules

`OrdersProofs`, `OrdersAnswersProofs` and `OrdersTotalsProofs` are about `Orders`,
`RateLimiterProofs`, `BackendPoolProofs`, `JwksCacheProofs`, `SessionProofs` and
`LifecycleProofs` about the modules they are named after (section 4).

## 3. Runs

| Run | Shows | Bounds |
|---|---|---|
| `orders_concurrent` | `TypeOK`, `ItemRowsConsistent`, `NoOrphanItems`, `RowsHeldByOne`, `IInv`, `DeletedStaysDeleted`, `TotalFollowsItems`, `AnswerIsStored`, `ImplementsOrderStore` | 2 clients, 4 requests of any route, faults: enough for a create followed by three requests that race on one order, the third overtaking the others |
| `orders_answered` | `ItemRowsConsistent`, `TotalFollowsItems`, `EveryRequestAnswered`, with a request body for every validation branch | 2 clients, 3 requests, faults |
| `orders_removed_item` | refuted: `RemovedItemIsGone` | 1 client, 2 requests |
| `orders_lost_status` | refuted: `StatusMovesByItsCommand` | 2 clients, 3 requests |
| `limiter_safety` | `TypeOK`, `AdmissionBound`, `IInv`, `Balanced`, `RefusalIsEarned`, `RetryAfterSuffices`, `EveryRequestDecided` | 2 handlers, 2 clients, 4 requests, capacity 1, 3 clock readings, restarts |
| `limiter_race` | refuted: `ProcessSurvives` | 2 handlers |
| `pool_choices` | `FairShare`, `CounterCounts`, `PanicsOnlyAfterWrap`, `ImplementsRotation` | 3 requests at a time, 10 in all, 3 backends, a counter that wraps at 7 |
| `jwks_rotation` | `IInv`, `TrustEnds`, `RefusedOnlyIfOvertaken`, `EveryTokenJudged` | 2 handlers, 3 tokens, 2 keys, 1 rotation, cache lifetime 1, 3 clock readings |
| `jwks_lost_key` | refuted: `RotatedKeyIsFound` | as `jwks_rotation` |
| `session_browser` | `TypeOK`, `TokensPaired`, `NewestTokenKept`, `LogoutHolds`, `SpentStateRefused` | 2 requests at a time, 4 in all, 1 login with 2 codes, 4 clock readings, faults and restarts |
| `session_refresh` | refuted: `RefreshedTransparently` | as `session_browser`, without faults |
| `lifecycle_shutdown` | `TypeOK`, `DrainedBeforeClosing`, `AnswersMatchOrders`, `ForwardedIsAuthorized`, `RoutesAgree`, `StopsOnceItMust`, `StartupDecides` | 1 replica, 2 requests of 14 kinds, 3 routers in any order |

The bounds are the smallest at which the hazards happen, plus what finishes in
a few minutes: `MaxRequests` everywhere (TLC stops in `Done`, so deadlock is
checked), `MaxClock`/`MaxTime` for the clocks, `MaxRotations` for the key sets.

*Orders* uses int4 money (-8 .. 7) so that subtotals and totals wrap, and an
INTEGER column that holds up to 3, so that a quantity can be refused.
`TotalFollowsItems` is stated around the two refuted properties: it allows an
order's total to move away from its items in the commit of a handler that was
overtaken or removed an item, and in no other step. Two further behaviours of
the code are visible in the model and contradict nothing it says: a request
may succeed on an order deleted after it was read (the UPDATE of no row is not
noticed), and the handlers answer 404 for any error of the lookup, a lost
connection included.

*Limiter*: the rate is the 5/3 tokens a second of
`trapigo-gateway.yaml`, in half seconds: `Cost` 6, `Refill` 5, `Second` 2. With
a capacity of 1 and two half seconds a bucket is emptied, refilled in part, in
full, and capped. `Balanced` is the exact content of a bucket: full, less what
was given since it was full, plus what was refilled, unless the clock was set
back; `RefusalIsEarned` and `RetryAfterSuffices` follow a client over several
requests.

*Pool*: the real counter wraps after 2^63 requests; 7 stands for it so that the
wrap and the panic after it happen. Three backends do not divide the 14 values of the counter, so the
rotation is seen to break at the wrap.

*JWKS*: three requests are what a lost key needs: two fetches that overlap
across the rotation, and the one that is overtaken. `TrustEnds` counts from the
withdrawal to the moment a request looked at the age of the cache, and allows
the lifetime plus the travel time of the document in it: no better bound holds,
as the fetch time is taken on arrival.

*Session*: four requests hold a callback, two calls that refresh at once (the
second with a token the first has spent) and a logout, and two codes of one login
two callbacks with one state. Three ticks take an access token (life 1, leeway
1) from issue to its end, while its cookie is dropped at its expiry; the refresh
cookies outlive the run, as they outlive an access token in the code. `Faults` lets every
call to Keycloak fail, answers get lost and the gateway restart. `rotates` is
chosen at the start, so that both settings of Keycloak are covered.

*Lifecycle*: the three routers are those of `trapigo-gateway.yaml`, among them
the one whose prefix `/auth` meets the mux's own `/auth/`. The 14 kinds of
request hold one for every branch of the pipeline: each origin, preflights, no
token, the mux's entries, an unknown path, and a path that extends a prefix
(`/authors`). Two requests are what tells a drained replica from one that drops
one request after it served another. One replica is enough for the safety
properties, since replicas share nothing but Postgres; that holds for any number
by the proofs.

`PROJECT.json` lists hazards that no property covers, each with a note. For some
the code has nothing to check: it does what the hazard says, as the two callbacks
that are past the state together, or a refused refresh that clears newer cookies;
the properties near them name that case as their exception. Prefixes of routers
that extend each other occur in no shipped configuration, and so in no run.

The refuted properties are what comments, tests and messages of the repository
say; their counterexamples are recorded in `PROJECT.json` under `findings`.

**Fairness.**

- Orders: strong fairness of `Serve(c)`: a goroutine keeps running, Postgres
  keeps answering, and a lock passes to its waiters in turn (Postgres queues
  them). Weak fairness would not do: a waiting `UpdateOrder` is disabled
  whenever another transaction holds the row.
- Limiter: strong fairness of `Handle(h)`: a `sync.Mutex` hands itself to a
  waiter that starves.
- JWKS: weak fairness of `Handle(h)`: no step waits for another goroutine, since
  the critical sections of the read-write lock are single steps. It assumes that
  a request to Keycloak is answered, fails, or is cancelled with the request it
  serves; the HTTP client sets no timeout of its own.

- Session: none. No step waits for another, so that liveness would only restate
  the fairness.
- Lifecycle: weak fairness of each process (`GatewayStep`, `Step(c)`): `main`
  and the timers of its contexts run on. Only a ping that Postgres answers is
  bound to return. Handlers and clients get none: no timeout of the servers ends
  a handler, and `StopsOnceItMust` holds although it may never return, by the
  deadlines of `Shutdown`.

Nothing is assumed of arriving requests, failures, restarts, rotations or the
clocks.

## 4. Proofs

`OrdersProofs` proves, for every set of clients, every set of request bodies and
every integer width (`HalfAssumption`, `QuantityAssumption`,
`CommandsAssumption`, `LinesAssumption`, `CartsAssumption`,
`PatchesAssumption`, `RequestsAssumption`):

- `Invariance`: `Spec => []IInv`
- `TypeCorrect`, `RowsConsistent`, `ItemsHaveTheirOrder`, `WritersAreSerial`:
  the safety invariants of `orders_concurrent`
- `DeletedOrdersStayDeleted`: the action property `DeletedStaysDeleted`

None of the invariants is inductive. A commit writes what the handler holds in
memory, so `ItemRowsConsistent` needs `MemoryMatchesStep` (every item in memory
is good, stored items carry the id of their order, new ones are numbered
`0, -1, ...`). `NoOrphanItems` needs to know that an item inserted for an
existing order is committed under its row's lock: `HoldsItsRow`, which
`LockMatchesStep` ties to the handler's step, keeps a delete from committing in
between. `NewIdIsUnused` keeps a creation from meeting any other handler.
`IInv` is their conjunction, checked by TLC in `orders_concurrent` first.

`OrdersAnswersProofs` proves `ShownAnswersAreStored` (`AnswerIsStored`), which
rests on `IInv` and a second invariant, `RowsInv`: a handler at work has
answered nothing, the rows it loaded of an order that is still there are still
rows of that order (`KnowsStoredRows`), and the ids its transaction inserted are
nobody else's (`OwnsItsIds`). A COMMIT of another handler keeps both because it
deletes rows only with their order (`RowsFollow`).

The same module proves that the handlers implement the abstract store,
`HandlersImplementOrderStore` (`ImplementsOrderStore`), step by step:
`InsertOrder` reserves an id (`InsertOrderReserves`), a creation that fails
abandons it (`LeaveAbandons`), a COMMIT is one change (`CommitIsOneChange`) that
touches no other order (`OtherOrdersUntouched`, `CommitTouchesItsOrder`) or, on
an order that is gone, nothing (`LateCommitChangesNothing`), and every other
step stutters. That a late COMMIT changes nothing needs the lock again: items it
inserted imply that it holds the row of an order that exists.

`OrdersTotalsProofs` proves `TotalsFollowItems` (`TotalFollowsItems`), for any
number of orders and items and any integer width. Three things are in the way:

- The sum over an order's items is a fold, a recursive function over the item
  set. The module first proves what a sum is by induction (`SumsExist`,
  `SumsAgree`, `SumIsSolution`), then the laws a step needs: a sum does not
  change with rows outside its set (`SameSum`), and what adding, removing or
  replacing an item does to it (`SumWith`, `SumWithout`). The library's
  induction takes an operator as a parameter, so the induction is over sets of
  naturals: a set without a least counterexample is empty (`LeastNumber`,
  `NaturalsAreInductive`).
- int64 wraps. `RemainderOfSum` and `WrapOfSum` say that wrapping in between
  does not change where a sum ends, so that the handler's wrapped additions and
  the wrapped sum agree.
- A handler computes the total from what it read. `TotalsInv` says what it may
  rely on: its items are finite and its own (`HoldsTidyItems`), an order being
  created is off by nothing (`CreatesWithoutDrift`), and unless the handler is
  overtaken or removes an item, its order in memory is off by just what the
  stored order is off by, and holds just the stored items and those it inserted
  (`KnowsItsOrder`). A COMMIT of another handler on the same order adds its
  readers to `overtaken`, which is where the exception of the property comes
  from. TLC checked `TotalsInv` before it was proved.

Of the liveness properties the provers cannot reach, two theorems prove the part
that is not about fairness. `HandlersMoveOn`: each step of a handler lowers
`StepsLeft`, a natural number, and no step of another raises it. `NoCircularWait`:
a handler that waits for a lock holds none, and the holder waits for nobody. With
the strong fairness of `Serve`, they are the argument for `EveryRequestAnswered`
that TLC confirms on its instance.

The proof of `IInv` follows the module: lemmas on the domain methods (`WithItemGood`,
`WithPatchGood`, ...), `MoveKeepsInvariant` for the steps that move one handler
and leave the tables alone, one lemma per action, `CommitWritesGoodRows` for the
tables a COMMIT leaves, and `NextKeepsInvariant`.

`RateLimiterProofs` proves, for every set of handlers and clients, every
capacity, rate and clock (`CapacityAssumption`, `CostAssumption`,
`RefillAssumption`, `NobodyAssumption`, `DirectAssumption`,
`BoundsAssumption`): `LimiterInvariant` (`IInv`), `LimiterTypeCorrect`,
`AdmissionIsBounded`, `LimiterBalances`, `RefusalsAreEarned`,
`RetryAfterIsEnough`, and `MutexIsGivenBack`, the part of `EveryRequestDecided`
that is not about fairness: the holder of the mutex is always on its way to the
unlock. `RetryAfterIsEnough` assumes besides that a second refills a token
(`Refill * Second >= Cost`), since the `Retry-After: 1` of the code is only then
enough. `AdmissionBound` is not inductive: how often a client was admitted
follows from what its bucket holds only together with how long it has been
refilled, which `IInv` keeps in one inequality per key; `Balanced` is the
equation that replaces it as long as the clock was never set back. `IInv` also
holds who has the mutex and that a handler past the lookup still finds the
bucket it saw.

`BackendPoolProofs` proves, for every number of handlers, backends and
requests: `PoolTypeCorrect`, `CounterIsTheCount` (`CounterCounts`),
`NoPanicBeforeWrap` (`PanicsOnlyAfterWrap`), `SharesAreFair` (`FairShare`) and
`PoolRotates` (`ImplementsRotation`), the implementation of `Rotation` by both
methods. The
invariant says that the counter and each ticket are what exact arithmetic gives
as long as `drawn` has not reached `Half`; `NextRemainder` and `WrapIsExact`
are the arithmetic. For `FairShare` it is strengthened to the exact share of each
backend after `n` choices (`Turns`): `n` divided by the number of backends, and
one more below the remainder; the requests between the increment and the lookup
are a finite set, which each step changes by at most one.

`JwksCacheProofs` proves, for every set of handlers and keys and every lifetime
(`NoKidAssumption`, `TTLAssumption`, `BoundsAssumption`): `CacheInvariant`
(`IInv`), `WithdrawnKeysAreForgotten` (`TrustEnds`),
`OnlyTheOvertakenAreRefused` (`RefusedOnlyIfOvertaken`), and
`TokensAreJudgedInSteps`, the part of `EveryTokenJudged` that is not about
fairness: each step of a handler lowers the number of steps it has left, so that
a token asks Keycloak twice at most. `IInv` relates three
things no single step shows together: the keys of a document were published
when it was sent (`DocumentsAreDated`), a handler past its check has a cache
that was young at that moment, whoever replaced it since (`CacheIsYoung`), and
the document a steady handler fetched, then the cache, holds its key unless it
was overtaken (`SteadyKeyIsFetched`).

`SessionProofs` proves, for every number of requests, logins and codes and every
life of tokens and cookies (`NoneAssumption`, `LivesAssumption`,
`BoundsAssumption`): `SessionInvariant`, `SessionTypeCorrect`,
`CookiesArePaired` (`TokensPaired`), `NewestTokenStaysAtHand`
(`NewestTokenKept`), `LogoutIsFinal` (`LogoutHolds`) and
`SpentStatesAreRefused` (`SpentStateRefused`). What the browser holds follows
from what is on its way to it, so the invariant says of every request and every
answer what the properties say of the jar: a response sets or clears the two
token cookies together, unless its login came without a refresh token (`Paired`,
`SlotShape`), every token was given by Keycloak (`TokensKnown`), one of a session
that was signed out belongs to a request the logout overtook
(`SignedOutStaysOut`), and a refresh token under way is the newest of its session
and nobody else has it (`NewestUnderWay`). The last is what `NewestTokenKept`
rests on: each lemma about an action shows besides `IInv'` that the action keeps
the newest token at hand or is one of the named ways to lose it
(`NewestStaysAtHand`).

`LifecycleProofs` proves, for every number of replicas and requests and every
configuration (`PrefixAssumption`, `KindsAssumption`, `ReplicasAssumption`):
`LifecycleInvariant` (`IInv`), `LifecycleTypeCorrect`, `ReplicasDrain`
(`DrainedBeforeClosing`) and `AnswersAreTrue` (`AnswersMatchOrders`).
`AnswersMatchOrders` needs to know what each stage of a request says of its
handler (`HandlersServe`), among them that an order is stored behind a failure
only if the reply to its COMMIT was lost, and that in turn which phase the
listeners belong to (`ListenersServe`). Two theorems say which configurations are free of the
hazards of the route table: `OnlyCheckedRequestsReachOrders`
(`ForwardedIsAuthorized`) if the prefix of the order service neither extends
`/auth/` nor is extended by it, `RouteOrderIsImmaterial` (`RoutesAgree`) if no
prefix extends another. Both are hypotheses of the theorem and hold in the
configuration that `lifecycle_shutdown` checks; nothing in the code enforces
them.

Model-checked only is what holds under fairness: `EveryRequestAnswered`,
`EveryRequestDecided`, `EveryTokenJudged`, `StopsOnceItMust`, `StartupDecides`.
Temporal properties with fairness, and ENABLED, are beyond the prover; for the
first three the theorems above prove the safety half. Every other property of a
passing run is the statement of a theorem.

## 5. Plan

Done, in this order: `Orders` and `OrderStore` with `OrdersProofs`,
`OrdersAnswersProofs` and `OrdersTotalsProofs`;
`RateLimiter` with `RateLimiterProofs`; `Rotation` and `BackendPool` with
`BackendPoolProofs`; `JwksCache` with `JwksCacheProofs`; `Session`, which also
holds the login flow, with `SessionProofs`; `Pipeline` and `Lifecycle` with
`LifecycleProofs`.

Left, most important first:

1. `Showcase`: the dashboard's request and trace state (`use-showcase.ts`), late
   answers, polling that is cancelled, and the one active trace of its server.
   Property: what is shown belongs to the last request.
2. `List` of the order service: reads without a transaction, so that an order
   may be listed with the items of a later moment.
3. `TraceNormalizer`: the span tree against a reference definition over bounded
   inputs.

## 6. Not modelled, and why

- Showcase requests and traces, trace normalizer: the demonstration page of the
  dashboard, in the plan above. It depends on the gateway and nothing depends on
  it, so it comes last.
- `GET /orders` (`List`, `domain/order_repository.go`): reads only, and would
  multiply the states of `Orders`. It holds one connection for its rows and takes
  another for each order; the pool has no limit (no `SetMaxOpenConns`), so nobody
  waits for anybody, and how many connections Postgres allows is not in the code.
- `kubernetes_discovery.go`: commented out as a whole.
- Dashboard authentication, components and routes: a fetch per call, and layout
  without state beyond the hook that the plan covers.
- `buildingblocks`, logging, telemetry, configuration: formatting and output,
  read once at start-up. `auth_setup.go` and the response headers only wire and
  decorate what `Pipeline` and `Session` model.
- `k8s`, `observability`: declarative manifests.
- Below the models: SQL types other than the widths named above, JSON, TLS,
  signatures, the float64 rounding of the limiter, timestamps of orders.

------------------------------ MODULE Lifecycle ------------------------------
(***************************************************************************)
(* The gateway process (app.go), the replicas of the order service behind  *)
(* it (main.go, database.go) and the requests that pass through both while *)
(* they start, fail to listen, are told to stop, drain, run out of time    *)
(* and exit.  Nothing in the repository starts a process again: each has   *)
(* one life here.                                                          *)
(***************************************************************************)
EXTENDS Pipeline, FiniteSets

CONSTANTS
    Replicas,      \* of the order service
    OrderRouter,   \* the router that leads to them
    Requests,      \* one call of a client each; at a replica it writes an order
    Kinds,         \* what they can look like
    Nobody

ASSUME KindsAssumption == \A k \in Kinds : IsRequest(k)
ASSUME ReplicasAssumption == Nobody \notin Replicas \cup Kinds /\ OrderRouter \in Routers

VARIABLES
    gateway,           \* how far App.Run is
    routers,           \* LoadBalancer.Routers
    gatewayListener,   \* "closed", "open" or "failed"
    gatewayForced,     \* it exits, or will, with requests under way
    phase,             \* how far main is, per replica
    listener,
    late,              \* openTimeout has passed
    abrupt,            \* it stopped serving with handlers running
    postgres,          \* does it answer?
    stage,             \* of a request, as its client sees it
    at,                \* the replica the pool chose for it
    kind,
    handler,           \* what the replica does for it
    written,           \* the requests whose order is stored
    unheard            \* auxiliary: those of them whose COMMIT seemed to fail

gatewayVars == <<gateway, routers, gatewayListener, gatewayForced>>
replicaVars == <<phase, listener, late, abrupt>>
stored      == <<written, unheard>>
requestVars == <<stage, at, kind, handler, stored>>
vars == <<gatewayVars, replicaVars, postgres, requestVars>>

UnderWay == {r \in Requests : stage[r] \in {"proxying", "waiting"}}

Busy(c) == \E r \in Requests : at[r] = c /\ handler[r] # "none"

(* The connections of a replica break: the proxy answers 502.              *)
Broken(c) ==
    [r \in Requests |-> IF at[r] = c /\ stage[r] = "waiting" THEN "error" ELSE stage[r]]

Init ==
    /\ gateway = "starting" /\ routers = <<>>
    /\ gatewayListener = "closed" /\ gatewayForced = FALSE
    /\ phase = [c \in Replicas |-> "pinging"] /\ listener = [c \in Replicas |-> "closed"]
    /\ late = [c \in Replicas |-> FALSE] /\ abrupt = [c \in Replicas |-> FALSE]
    /\ postgres \in BOOLEAN
    /\ stage = [r \in Requests |-> "unsent"] /\ handler = [r \in Requests |-> "none"]
    /\ at = [r \in Requests |-> Nobody] /\ kind = [r \in Requests |-> Nobody]
    /\ written = {} /\ unheard = {}

-----------------------------------------------------------------------------
\* The gateway.

StartGateway ==
    /\ gateway = "starting"
    /\ gateway' = "serving"
    /\ routers' \in BuildRoutes
    /\ UNCHANGED <<gatewayListener, gatewayForced, replicaVars, postgres, requestVars>>

(* A gateway that cannot listen says so in its log and waits for a signal. *)
GatewayListens ==
    /\ gateway = "serving" /\ gatewayListener = "closed"
    /\ gatewayListener' \in {"open", "failed"}
    /\ UNCHANGED <<gateway, routers, gatewayForced, replicaVars, postgres, requestVars>>

SignalGateway ==
    /\ gateway = "serving"
    /\ gateway' = "draining" /\ gatewayListener' = "closed"
    /\ UNCHANGED <<routers, gatewayForced, replicaVars, postgres, requestVars>>

(* Mutant of DrainGateway, which does not wait for Shutdown to return.     *)
DrainGatewayAtOnce ==
    /\ gateway = "draining"
    /\ gateway' = "flushing"
    /\ UNCHANGED <<routers, gatewayListener, gatewayForced, replicaVars, postgres, requestVars>>

DrainGateway ==
    /\ gateway = "draining" /\ UnderWay = {}
    /\ gateway' = "flushing"
    /\ UNCHANGED <<routers, gatewayListener, gatewayForced, replicaVars, postgres, requestVars>>

(* After five seconds Shutdown gives up; requests go on while telemetry is *)
(* flushed.                                                                *)
DrainGatewayTimeout ==
    /\ gateway = "draining" /\ UnderWay # {}
    /\ gateway' = "flushing" /\ gatewayForced' = TRUE
    /\ UNCHANGED <<routers, gatewayListener, replicaVars, postgres, requestVars>>

EndGateway ==
    /\ gateway' = "exited" /\ gatewayListener' = "closed"
    /\ stage' = [r \in Requests |-> IF r \in UnderWay THEN "cut" ELSE stage[r]]
    /\ UNCHANGED <<routers, replicaVars, postgres, at, kind, handler, stored>>

ExitGateway ==
    gateway = "flushing" /\ EndGateway /\ UNCHANGED gatewayForced

(* A crash, a failed start, or a signal before anyone waits for it.        *)
KillGateway ==
    gateway # "exited" /\ EndGateway /\ gatewayForced' = (gatewayForced \/ UnderWay # {})

-----------------------------------------------------------------------------
\* Requests.

(* The gateway answers a request itself, refuses it, or another backend    *)
(* has the answer.                                                         *)
Answer(r) ==
    /\ stage[r] = "unsent" /\ gatewayListener = "open"
    /\ \E k \in Kinds, limited \in BOOLEAN : ProxiedTo(k, limited, routers) # OrderRouter
    /\ stage' = [stage EXCEPT ![r] = "answered"]
    /\ UNCHANGED <<gatewayVars, replicaVars, postgres, at, kind, handler, stored>>

(* The pool names a replica, whatever state it is in: BackendPool.         *)
Forward(r) ==
    /\ stage[r] = "unsent" /\ gatewayListener = "open"
    /\ \E k \in Kinds, limited \in BOOLEAN :
           ProxiedTo(k, limited, routers) = OrderRouter /\ kind' = [kind EXCEPT ![r] = k]
    /\ \E c \in Replicas : at' = [at EXCEPT ![r] = c]
    /\ stage' = [stage EXCEPT ![r] = "proxying"]
    /\ UNCHANGED <<gatewayVars, replicaVars, postgres, handler, stored>>

Connect(r) ==
    /\ stage[r] = "proxying"
    /\ listener[at[r]] = "open"
    /\ stage' = [stage EXCEPT ![r] = "waiting"] /\ handler' = [handler EXCEPT ![r] = "running"]
    /\ UNCHANGED <<gatewayVars, replicaVars, postgres, at, kind, stored>>

Refused(r) ==
    /\ stage[r] = "proxying"
    /\ listener[at[r]] # "open"
    /\ stage' = [stage EXCEPT ![r] = "error"]
    /\ UNCHANGED <<gatewayVars, replicaVars, postgres, at, kind, handler, stored>>

(* A transaction holds its connection: closing the database does not stop  *)
(* it.                                                                     *)
Commit(r) ==
    /\ handler[r] = "running" /\ postgres
    /\ handler' = [handler EXCEPT ![r] = "committed"] /\ written' = written \cup {r}
    /\ UNCHANGED <<gatewayVars, replicaVars, postgres, stage, at, kind, unheard>>

(* Postgres stores the order but its reply is lost: RunInTx returns the    *)
(* error of Commit, and the handler answers that it failed.                *)
CommitUnheard(r) ==
    /\ handler[r] = "running" /\ postgres
    /\ handler' = [handler EXCEPT ![r] = "failed"] /\ written' = written \cup {r}
    /\ unheard' = unheard \cup {r}
    /\ UNCHANGED <<gatewayVars, replicaVars, postgres, stage, at, kind>>

Abort(r) ==
    /\ handler[r] = "running"
    /\ handler' = [handler EXCEPT ![r] = "failed"]
    /\ UNCHANGED <<gatewayVars, replicaVars, postgres, stage, at, kind, stored>>

(* The answer reaches the client if its connection still stands.           *)
Reply(r) ==
    /\ handler[r] \in {"committed", "failed"}
    /\ handler' = [handler EXCEPT ![r] = "none"]
    /\ stage' = IF stage[r] # "waiting" THEN stage
                ELSE [stage EXCEPT ![r] = IF handler[r] = "committed" THEN "ok" ELSE "error"]
    /\ UNCHANGED <<gatewayVars, replicaVars, postgres, at, kind, stored>>

-----------------------------------------------------------------------------
\* A replica of the order service.

(* Open pings once without a deadline and ignores the result, then retries *)
(* until 30 seconds have passed since it began.                            *)
FirstPing(c) ==
    /\ phase[c] = "pinging" /\ postgres
    /\ phase' = [phase EXCEPT ![c] = "connecting"]
    /\ UNCHANGED <<gatewayVars, listener, late, abrupt, postgres, requestVars>>

FirstPingFails(c) ==
    /\ phase[c] = "pinging" /\ ~postgres
    /\ phase' = [phase EXCEPT ![c] = "connecting"]
    /\ UNCHANGED <<gatewayVars, listener, late, abrupt, postgres, requestVars>>

(* Mutant of Expire, with a context that has no deadline.                  *)
ExpireNever(c) == late[c] /\ UNCHANGED vars

Expire(c) ==
    /\ phase[c] \in {"pinging", "connecting"} /\ ~late[c]
    /\ late' = [late EXCEPT ![c] = TRUE]
    /\ UNCHANGED <<gatewayVars, phase, listener, abrupt, postgres, requestVars>>

Ping(c) ==
    /\ phase[c] = "connecting" /\ postgres /\ ~late[c]
    /\ phase' = [phase EXCEPT ![c] = "starting"]
    /\ UNCHANGED <<gatewayVars, listener, late, abrupt, postgres, requestVars>>

GiveUp(c) ==
    /\ phase[c] = "connecting" /\ late[c]
    /\ phase' = [phase EXCEPT ![c] = "exited"]
    /\ UNCHANGED <<gatewayVars, listener, late, abrupt, postgres, requestVars>>

StartServing(c) ==
    /\ phase[c] = "starting"
    /\ phase' = [phase EXCEPT ![c] = "serving"]
    /\ UNCHANGED <<gatewayVars, listener, late, abrupt, postgres, requestVars>>

Listen(c) ==
    /\ phase[c] = "serving" /\ listener[c] = "closed"
    /\ listener' = [listener EXCEPT ![c] = "open"]
    /\ UNCHANGED <<gatewayVars, phase, late, abrupt, postgres, requestVars>>

ListenerFails(c) ==
    /\ phase[c] = "serving" /\ listener[c] # "failed"
    /\ listener' = [listener EXCEPT ![c] = "failed"]
    /\ UNCHANGED <<gatewayVars, phase, late, abrupt, postgres, requestVars>>

(* ListenAndServe returned an error: on to the clean-up without Shutdown.  *)
ServeFails(c) ==
    /\ phase[c] = "serving" /\ listener[c] = "failed"
    /\ phase' = [phase EXCEPT ![c] = "flushing"] /\ abrupt' = [abrupt EXCEPT ![c] = Busy(c)]
    /\ UNCHANGED <<gatewayVars, listener, late, postgres, requestVars>>

Signal(c) ==
    /\ phase[c] = "serving"
    /\ phase' = [phase EXCEPT ![c] = "draining"] /\ listener' = [listener EXCEPT ![c] = "closed"]
    /\ UNCHANGED <<gatewayVars, late, abrupt, postgres, requestVars>>

(* Mutant of Drain, which does not wait for Shutdown to return.            *)
DrainAtOnce(c) ==
    /\ phase[c] = "draining"
    /\ phase' = [phase EXCEPT ![c] = "flushing"]
    /\ UNCHANGED <<gatewayVars, listener, late, abrupt, postgres, requestVars>>

Drain(c) ==
    /\ phase[c] = "draining" /\ ~Busy(c)
    /\ phase' = [phase EXCEPT ![c] = "flushing"]
    /\ UNCHANGED <<gatewayVars, listener, late, abrupt, postgres, requestVars>>

(* Mutant of DrainTimeout, with a context that has no deadline.            *)
DrainForever(c) == phase[c] = "draining" /\ Busy(c) /\ UNCHANGED vars

(* After ten seconds Close breaks the connections, not the handlers.       *)
DrainTimeout(c) ==
    /\ phase[c] = "draining" /\ Busy(c)
    /\ phase' = [phase EXCEPT ![c] = "flushing"] /\ abrupt' = [abrupt EXCEPT ![c] = TRUE]
    /\ stage' = Broken(c)
    /\ UNCHANGED <<gatewayVars, listener, late, postgres, at, kind, handler, stored>>

CloseDatabase(c) ==
    /\ phase[c] = "flushing"
    /\ phase' = [phase EXCEPT ![c] = "closed"]
    /\ UNCHANGED <<gatewayVars, listener, late, abrupt, postgres, requestVars>>

End(c) ==
    /\ phase' = [phase EXCEPT ![c] = "exited"] /\ listener' = [listener EXCEPT ![c] = "closed"]
    /\ stage' = Broken(c)
    /\ handler' = [r \in Requests |-> IF at[r] = c THEN "none" ELSE handler[r]]
    /\ UNCHANGED <<gatewayVars, late, postgres, at, kind, stored>>

Exit(c) == phase[c] = "closed" /\ End(c) /\ UNCHANGED abrupt

(* A crash, a failed start, or a signal that nobody waits for.             *)
Kill(c) ==
    /\ phase[c] # "exited"
    /\ End(c)
    /\ abrupt' = [abrupt EXCEPT ![c] = abrupt[c] \/ Busy(c)]

-----------------------------------------------------------------------------
TogglePostgres ==
    postgres' = ~postgres /\ UNCHANGED <<gatewayVars, replicaVars, requestVars>>

GatewayStep ==
    \/ StartGateway \/ GatewayListens \/ DrainGateway \/ DrainGatewayTimeout \/ ExitGateway

Step(c) ==
    \/ FirstPing(c) \/ Expire(c) \/ Ping(c) \/ GiveUp(c) \/ StartServing(c) \/ Listen(c)
    \/ ServeFails(c) \/ Drain(c) \/ DrainTimeout(c) \/ CloseDatabase(c) \/ Exit(c)

Next ==
    \/ GatewayStep \/ SignalGateway \/ KillGateway \/ TogglePostgres
    \/ \E c \in Replicas :
           Step(c) \/ FirstPingFails(c) \/ ListenerFails(c) \/ Signal(c) \/ Kill(c)
    \/ \E r \in Requests :
           \/ Answer(r) \/ Forward(r) \/ Connect(r) \/ Refused(r)
           \/ Commit(r) \/ CommitUnheard(r) \/ Abort(r) \/ Reply(r)

(* The processes and their timers run on.  Handlers, clients and operators *)
(* may stop anywhere: no timeout of the servers ends a handler.            *)
Fairness == WF_vars(GatewayStep) /\ \A c \in Replicas : WF_vars(Step(c))

Spec == Init /\ [][Next]_vars /\ Fairness
-----------------------------------------------------------------------------
(* Every variable keeps its type, and a gateway that serves has each       *)
(* router of its configuration exactly once (buildLoadBalancer).           *)
TypeOK ==
    /\ gateway \in {"starting", "serving", "draining", "flushing", "exited"}
    /\ routers \in Seq(Routers)
    /\ \A i, j \in DOMAIN routers : routers[i] = routers[j] => i = j
    /\ gatewayListener \in {"closed", "open", "failed"} /\ gatewayForced \in BOOLEAN
    /\ phase \in [Replicas -> {"pinging", "connecting", "starting", "serving", "draining",
                               "flushing", "closed", "exited"}]
    /\ listener \in [Replicas -> {"closed", "open", "failed"}]
    /\ late \in [Replicas -> BOOLEAN] /\ abrupt \in [Replicas -> BOOLEAN]
    /\ postgres \in BOOLEAN
    /\ stage \in [Requests -> {"unsent", "answered", "proxying", "waiting", "ok", "error", "cut"}]
    /\ at \in [Requests -> Replicas \cup {Nobody}] /\ kind \in [Requests -> Kinds \cup {Nobody}]
    /\ handler \in [Requests -> {"none", "running", "committed", "failed"}]
    /\ written \subseteq Requests /\ unheard \subseteq written

(* A replica drains before it closes its database (README of the order     *)
(* service): only one whose listener failed, or whose ten seconds ran out, *)
(* has handlers left by then (serveUntilShutdown).                         *)
DrainedBeforeClosing ==
    \A c \in Replicas : phase[c] \in {"flushing", "closed"} /\ Busy(c) => abrupt[c]

(* A client that is told its order was written finds it written.  One that *)
(* is told it failed may find it written only if Postgres's reply to the   *)
(* COMMIT was lost or its replica stopped under it, and one that is told   *)
(* nothing at all had a gateway that stopped under it (RunInTx, and        *)
(* Shutdown on both sides).                                                *)
AnswersMatchOrders ==
    \A r \in Requests :
        /\ stage[r] = "ok" => r \in written
        /\ stage[r] = "error" /\ r \in written => abrupt[at[r]] \/ r \in unheard
        /\ stage[r] = "cut" => gatewayForced

Authorized(k) == k.authentic /\ OriginPasses(k) /\ ~Preflight(k)

(* A handler of the order service runs only for requests with a valid      *)
(* token from no browser or an allowed origin: the entry of the mux that   *)
(* checks neither never leads there, in whatever order the routers are.    *)
ForwardedIsAuthorized ==
    \A r \in Requests : handler[r] # "none" => Authorized(kind[r])

(* Which router the first match finds does not depend on the order in      *)
(* which a process happened to add them.                                   *)
RoutesAgree ==
    gateway = "serving" => \A k \in Kinds : Route(routers, k.path) = Expected(k.path)

(* The rest of the inductive invariant.  The listeners belong to the phase *)
(* that serves, which has left no request behind yet.                      *)
ListenersServe ==
    /\ gatewayListener # "closed" => gateway = "serving"
    /\ gateway = "flushing" /\ UnderWay # {} => gatewayForced
    /\ gateway = "serving" => routers \in BuildRoutes
    /\ \A c \in Replicas :
           /\ listener[c] = "open" => phase[c] = "serving"
           /\ abrupt[c] => phase[c] \in {"flushing", "closed", "exited"}

(* What is known of a request at each stage: handlers run for requests     *)
(* that were forwarded, one runs for each that waits, and one that runs on *)
(* after its client was told of an error ran at a replica that stopped.    *)
HandlersServe ==
    \A r \in Requests :
        /\ stage[r] \in {"unsent", "answered", "proxying"} => handler[r] = "none" /\ r \notin written
        /\ stage[r] \notin {"unsent", "answered"} => at[r] \in Replicas
        /\ stage[r] = "waiting" => handler[r] # "none"
        /\ handler[r] = "committed" => r \in written
        /\ handler[r] = "running" => r \notin written
        /\ handler[r] = "failed" /\ r \in written => r \in unheard
        /\ stage[r] \in {"ok", "error"} /\ handler[r] # "none" => abrupt[at[r]]

IInv ==
    TypeOK /\ ListenersServe /\ HandlersServe /\ DrainedBeforeClosing /\ AnswersMatchOrders

(* With prefixes apart from Keycloak's entry, only checked requests get a  *)
(* replica.                                                                *)
CheckedOnly == \A r \in Requests : at[r] # Nobody => Authorized(kind[r])

(* A process that was told to stop, or a replica that cannot listen, does  *)
(* exit, even if a handler never returns (the deadlines of Shutdown).      *)
StopsOnceItMust ==
    /\ gateway = "draining" ~> gateway = "exited"
    /\ \A c \in Replicas :
           (phase[c] = "draining" \/ listener[c] = "failed") ~> phase[c] = "exited"

(* A replica comes up or gives up, unless Postgres leaves its first ping,  *)
(* which has no deadline, without an answer (database.Open).               *)
StartupDecides ==
    \A c \in Replicas :
        phase[c] \in {"pinging", "connecting"} ~>
            \/ phase[c] \notin {"pinging", "connecting"}
            \/ phase[c] = "pinging" /\ ~postgres
=============================================================================

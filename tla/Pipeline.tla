------------------------------- MODULE Pipeline -------------------------------
(***************************************************************************)
(* What the gateway does with a request before it forwards it              *)
(* (gateway_setup.go): rate limit, cross-site request check, the table of  *)
(* the mux with the origin and authentication checks of each entry, and    *)
(* the choice of a route.  The verdicts of the limiter and of              *)
(* authentication are inputs here; RateLimiter and Session model them.     *)
(***************************************************************************)
EXTENDS Integers, Sequences, SequencesExt

CONSTANTS
    Pieces,       \* of text, which paths are sequences of; only prefixes matter
    Routers,      \* of the configuration
    Prefix,       \* path-prefix of each
    NoRoute,
    Configured,   \* allowed_origins of the configuration
    Frontend,     \* frontend_redirect_url, their fallback
    OriginOf,     \* scheme and host of each of these URLs, NoOrigin without
    Own,          \* the origin of the gateway itself
    NoOrigin      \* a request without the header

ASSUME PrefixAssumption ==
    /\ IsFiniteSet(Routers) /\ NoRoute \notin Routers
    /\ Prefix \in [Routers -> Seq(Pieces)] /\ {"/auth", "/"} \subseteq Pieces

(* A request.  A preflight names the method it asks for; the token is      *)
(* valid or not.                                                           *)
IsRequest(k) ==
    /\ k.path \in Seq(Pieces) /\ k.method \in {"GET", "POST", "OPTIONS"}
    /\ k.preflight \in BOOLEAN /\ k.authentic \in BOOLEAN

-----------------------------------------------------------------------------
\* Origins.

(* ParseAllowedOrigins: the frontend stands in only for an empty list.     *)
AllowedOrigins ==
    {OriginOf[u] : u \in IF Configured # {} THEN Configured ELSE {Frontend}} \ {NoOrigin}

(* CrossOriginProtection: a request that may change state comes from the   *)
(* gateway's own origin, from a trusted one, or from no browser.           *)
CsrfPasses(k) ==
    k.method \in {"GET", "OPTIONS"} \/ k.origin \in {NoOrigin, Own} \cup AllowedOrigins

OriginPasses(k) == k.origin \in {NoOrigin} \cup AllowedOrigins

Preflight(k) == k.method = "OPTIONS" /\ k.preflight /\ k.origin # NoOrigin

-----------------------------------------------------------------------------
\* The mux.

Entry(k) ==
    IF k.path \in {<<"/web/auth/login">>, <<"/web/auth/callback">>} /\ k.method = "GET"
        THEN "public"
    ELSE IF k.path = <<"/web/auth/logout">> /\ k.method = "POST" THEN "logout"
    ELSE IF k.path = <<"/web/auth/me">> /\ k.method = "GET" THEN "me"
    ELSE IF k.path = <<"/auth">> THEN "redirect"
    ELSE IF IsPrefix(<<"/auth", "/">>, k.path) THEN "keycloak"
    ELSE "other"

(* Mutant of Admitted, which lets every OPTIONS request pass.              *)
AdmittedOptions(k, limited) ==
    /\ ~limited
    /\ CsrfPasses(k)
    /\ Entry(k) \in {"logout", "other"} => OriginPasses(k) /\ ~Preflight(k)
    /\ Entry(k) \in {"me", "other"} => k.authentic \/ k.method = "OPTIONS"

(* The request reaches the handler of its entry.  A preflight never does:  *)
(* the origin check answers it, before authentication.                     *)
Admitted(k, limited) ==
    /\ ~limited
    /\ CsrfPasses(k)
    /\ Entry(k) \in {"logout", "other"} => OriginPasses(k) /\ ~Preflight(k)
    /\ Entry(k) \in {"me", "other"} => k.authentic

-----------------------------------------------------------------------------
\* Routes.

(* Mutant of BuildRoutes, which adds a router for each of its servers.     *)
RoutePerServer == [1 .. Cardinality(Routers) + 1 -> Routers]

(* The routers are added in the order Go iterates a map in: any.           *)
BuildRoutes == {s \in [1 .. Cardinality(Routers) -> Routers] : IsInjective(s)}

(* Mutant of Route, with the arguments of HasPrefix swapped.               *)
RouteSwapped(routers, path) ==
    LET First(i) == /\ IsPrefix(path, Prefix[routers[i]])
                    /\ \A j \in 1 .. i - 1 : ~IsPrefix(path, Prefix[routers[j]])
    IN  IF \E i \in DOMAIN routers : First(i)
        THEN routers[CHOOSE i \in DOMAIN routers : First(i)] ELSE NoRoute

(* The first router whose prefix the path has.                             *)
Route(routers, path) ==
    LET First(i) == /\ IsPrefix(Prefix[routers[i]], path)
                    /\ \A j \in 1 .. i - 1 : ~IsPrefix(Prefix[routers[j]], path)
    IN  IF \E i \in DOMAIN routers : First(i)
        THEN routers[CHOOSE i \in DOMAIN routers : First(i)] ELSE NoRoute

(* What a reader of the configuration expects of it, whatever the order:   *)
(* the router with the longest prefix.                                     *)
Expected(path) ==
    LET found == {s \in Routers : IsPrefix(Prefix[s], path)} IN
    IF found = {} THEN NoRoute
    ELSE CHOOSE s \in found : \A t \in found : Len(Prefix[t]) <= Len(Prefix[s])

(* The router a request is proxied to.  Two entries of the mux end there.  *)
ProxiedTo(k, limited, routers) ==
    IF Admitted(k, limited) /\ Entry(k) \in {"keycloak", "other"}
    THEN Route(routers, k.path) ELSE NoRoute

(* Configurations without the hazard: no prefix extends another.           *)
Apart(p, q) == ~IsPrefix(p, q) /\ ~IsPrefix(q, p)

PrefixesApart == \A s, t \in Routers : s # t => Apart(Prefix[s], Prefix[t])
=============================================================================

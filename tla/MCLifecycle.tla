----------------------------- MODULE MCLifecycle -----------------------------
(* A small instance of Lifecycle.                                          *)
EXTENDS Lifecycle

MCPieces == {"/auth", "/", "realms", "ors", "/api/v1/", "go-orders", "dotnet10-aot-orders",
             "/7", "/web/auth/me", "/nowhere"}
MCPrefix == [keycloak |-> <<"/auth">>, orders |-> <<"/api/v1/", "go-orders">>,
             dotnet |-> <<"/api/v1/", "dotnet10-aot-orders">>]
MCRouters == DOMAIN MCPrefix
MCOriginOf == [dashboard |-> "dashboard", nonsense |-> "none"]
MCConfigured == {"dashboard", "nonsense"}

Request(path, method, origin, preflight, authentic) ==
    [path |-> path, method |-> method, origin |-> origin,
     preflight |-> preflight, authentic |-> authentic]

orders == <<"/api/v1/", "go-orders">>

MCKinds == {
    Request(orders, "POST", "dashboard", FALSE, TRUE),
    Request(orders, "POST", "none", FALSE, TRUE),
    Request(orders, "POST", "none", FALSE, FALSE),
    Request(orders, "POST", "stranger", FALSE, TRUE),
    Request(orders, "POST", "gateway", FALSE, TRUE),
    Request(orders, "OPTIONS", "dashboard", TRUE, FALSE),
    Request(orders, "OPTIONS", "none", FALSE, FALSE),
    Request(<<"/auth">>, "GET", "none", FALSE, FALSE),
    Request(<<"/auth", "/", "realms">>, "POST", "none", FALSE, FALSE),
    Request(<<"/auth", "ors">>, "GET", "none", FALSE, TRUE),
    Request(<<"/web/auth/me">>, "GET", "none", FALSE, TRUE),
    Request(<<"/api/v1/", "dotnet10-aot-orders", "/7">>, "GET", "none", FALSE, TRUE),
    Request(<<"/api/v1/">>, "GET", "none", FALSE, TRUE),
    Request(<<"/nowhere">>, "GET", "none", FALSE, TRUE)}
=============================================================================

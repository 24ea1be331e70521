CONSTANTS
    Pieces <- MCPieces
    Routers <- MCRouters
    Prefix <- MCPrefix
    NoRoute = NoRoute
    Configured <- MCConfigured
    Frontend = "dashboard"
    OriginOf <- MCOriginOf
    Own = "gateway"
    NoOrigin = "none"
    Replicas = {c1}
    OrderRouter = "orders"
    Requests = {r1, r2}
    Kinds <- MCKinds
    Nobody = Nobody
SPECIFICATION Spec
INVARIANTS TypeOK DrainedBeforeClosing AnswersMatchOrders ForwardedIsAuthorized RoutesAgree
PROPERTIES StopsOnceItMust StartupDecides

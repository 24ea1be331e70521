CONSTANTS
    Clients = {c1, c2}
    Commands = {"create", "get", "status", "add", "patch", "remove", "delete"}
    Carts <- MCCarts
    Lines <- MCLines
    Patches <- MCPatches
    Statuses = {"paid", "none", "long"}
    NoStatus = "none"
    LongStatus = "long"
    Nil = Nil
    Half = 8
    MaxQuantity = 3
    Faults = TRUE
    MaxRequests = 3
SPECIFICATION FairSpec
INVARIANTS ItemRowsConsistent
PROPERTIES TotalFollowsItems EveryRequestAnswered

CONSTANTS
    Clients = {c1, c2}
    Commands = {"create", "get", "status", "add", "patch", "remove", "delete"}
    Carts <- SmallCarts
    Lines <- SmallLines
    Patches <- SmallPatches
    Statuses = {"paid", "none", "long"}
    NoStatus = "none"
    LongStatus = "long"
    Nil = Nil
    Half = 8
    MaxQuantity = 3
    Faults = TRUE
    MaxRequests = 4
SPECIFICATION Spec
SYMMETRY Symmetry
INVARIANTS TypeOK ItemRowsConsistent NoOrphanItems RowsHeldByOne IInv
PROPERTIES DeletedStaysDeleted TotalFollowsItems AnswerIsStored ImplementsOrderStore

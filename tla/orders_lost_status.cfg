CONSTANTS
    Clients = {c1, c2}
    Commands = {"create", "status", "add"}
    Carts <- SmallCarts
    Lines <- SmallLines
    Patches <- SmallPatches
    Statuses = {"paid", "none", "long"}
    NoStatus = "none"
    LongStatus = "long"
    Nil = Nil
    Half = 8
    MaxQuantity = 3
    Faults = FALSE
    MaxRequests = 3
SPECIFICATION Spec
PROPERTIES StatusMovesByItsCommand

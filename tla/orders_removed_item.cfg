CONSTANTS
    Clients = {c1}
    Commands = {"create", "remove"}
    Carts <- SmallCarts
    Lines <- SmallLines
    Patches <- SmallPatches
    Statuses = {"paid", "none", "long"}
    NoStatus = "none"
    LongStatus = "long"
    Nil = Nil
    Half = 8
    MaxQuantity = 3
    Faults = FALSE
    MaxRequests = 2
SPECIFICATION Spec
PROPERTIES RemovedItemIsGone

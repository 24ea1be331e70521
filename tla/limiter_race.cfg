CONSTANTS
    Handlers = {h1, h2}
    Keys = {"k1", "k2"}
    Direct = "none"
    Capacity = 2
    Cost = 6
    Refill = 5
    Second = 2
    Nobody = Nobody
    Restarts = FALSE
    MaxClock = 1
    MaxRequests = 2
SPECIFICATION Spec
INVARIANTS ProcessSurvives

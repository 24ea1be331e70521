CONSTANTS
    Handlers = {h1, h2}
    Keys = {"k1", "k2"}
    Direct = "none"
    Capacity = 1
    Cost = 6
    Refill = 5
    Second = 2
    Nobody = Nobody
    Restarts = TRUE
    MaxClock = 2
    MaxRequests = 4
SPECIFICATION FairSpec
INVARIANTS TypeOK AdmissionBound IInv Balanced
PROPERTIES RefusalIsEarned RetryAfterSuffices EveryRequestDecided

CONSTANTS
    Handlers = {h1, h2}
    Kids = {k1, k2}
    NoKid = NoKid
    TTL = 1
    MaxTime = 2
    MaxRotations = 1
    MaxRequests = 3
SPECIFICATION FairSpec
INVARIANTS IInv
PROPERTIES TrustEnds RefusedOnlyIfOvertaken EveryTokenJudged

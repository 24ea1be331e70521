CONSTANTS
    Handlers = {h1, h2, h3}
    Count = 3
    Unset = Unset
    Half = 7
    MaxRequests = 10
SPECIFICATION Spec
SYMMETRY Symmetry
INVARIANTS FairShare CounterCounts PanicsOnlyAfterWrap
PROPERTIES ImplementsRotation

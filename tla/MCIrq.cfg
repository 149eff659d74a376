SPECIFICATION Spec
CONSTANTS
    h1 = h1
    h2 = h2
    p1 = p1
    p2 = p2
    NULL = NULL
    Handlers = {h1, h2}
    Privs = {p1, p2}
    Irqn <- MCNeighbours
    Requests <- MCNeighbourRequests
    MaxCalls = 3
    MaxRaises = 2
INVARIANTS
    DispatchWhole
    ClaimsCompleted
    OnlyAskedLinesServed
PROPERTIES
    ImplementsService
    EveryRaiseServed

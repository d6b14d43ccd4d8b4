SPECIFICATION Spec
CONSTANTS
    c1 = c1
    c2 = c2
    Conns = {c1, c2}
    Scenarios <- MCScenarios
    outbound_capacity = 1
    offreader_limit = 1
    MaxRequests = 2
    MaxPeer = 2
    Keys = {k1}
    None = None
CHECK_DEADLOCK FALSE
INVARIANTS AliasesInverse RegistryIsLive DisconnectOnce OneAnswer PermitsConserved
PROPERTIES QueuedIsFlushed DrainReturns Answered

SPECIFICATION Spec
CONSTANTS
    c1 = c1
    c2 = c2
    Conns = {c1}
    Scenarios <- StallScenarios
    outbound_capacity = 1
    offreader_limit = 1
    MaxRequests = 1
    MaxPeer = 1
    Keys = {k1}
    None = None
CHECK_DEADLOCK FALSE
PROPERTIES NeverPinned

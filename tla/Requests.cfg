SPECIFICATION Spec
CONSTANTS
    None = None
    HEADER_SIZE = 2
    U64_MAX = 15
    USIZE_MAX = 11
    ALIGN = 4
    STACK_SEGS = 2
    ROUTER_MAX = 100
    c1 = c1
    BUFFER = 2
    SOCKET = 1
    h1 = h1
    h2 = h2
    p1 = p1
    p2 = p2
CHECK_DEADLOCK FALSE
INVARIANTS AddressesAgree FramesSound RoutingSound StructsSound OwnAnswers GatewaySound
PROPERTIES EffectsContained RequestsEnd

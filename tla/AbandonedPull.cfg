SPECIFICATION Spec
CHECK_DEADLOCK FALSE
CONSTANTS
    None = None
    Rival = Rival
    p1 = p1
    p2 = p2
    Pullers = {p1, p2}
    Paths = {"x"}
    AsyncPullDepth = 1
    Scenarios <- AbandonedScenarios
PROPERTIES DisconnectFrees

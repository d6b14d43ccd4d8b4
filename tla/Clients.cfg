SPECIFICATION Spec
CONSTANTS
    c1 = c1
    c2 = c2
    c3 = c3
    h1 = h1
    h2 = h2
    None = None
    Calls = {c1, c2, c3}
    Handles = {h1, h2}
    Workers = {1, 2}
    MaxSubs = 2
    Scenarios <- MCScenarios
CHECK_DEADLOCK FALSE
INVARIANTS EntriesSound SubscriptionsSound
PROPERTIES SubscriberLearns CallsEnd

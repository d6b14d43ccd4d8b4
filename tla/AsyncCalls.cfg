SPECIFICATION FairSpec
CONSTANTS
    None = None
    Calls = {a, b, n}
    Notifies = {n}
    Forwarded = {n}
    Timed = {a}
    Cancellable = {b, n}
    ForwardIds = {3}
    MaxId = 3
INVARIANTS AnswerIsOwn NoLeakedEntry WaiterIsServed
PROPERTIES LoopFailureEndsCalls
CHECK_DEADLOCK FALSE

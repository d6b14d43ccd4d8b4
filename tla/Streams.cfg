SPECIFICATION Spec
CONSTANT None = None
INVARIANTS NothingLost
PROPERTIES Delivery CreditReturns SilentTransfersEnd
CHECK_DEADLOCK FALSE

SPECIFICATION Spec
CONSTANTS
    Addresses = {1, 2, 3, 4}
    MaxCallbacks = 5
INVARIANTS TypeOK StayedAreCalledOnce RemovalIsOwn
PROPERTIES EndsComplete
CHECK_DEADLOCK FALSE

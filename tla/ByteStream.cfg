SPECIFICATION Spec
CONSTANTS
    Capacity = 4
    MaxPush = 5
    MaxPushed = 8
INVARIANT Counters
PROPERTIES FinishedForGood ImplementsPipe
CHECK_DEADLOCK FALSE

CONSTANTS
    MaxRows = 1
    MaxArrive = 2
    MaxCancel = 2
SPECIFICATION Spec
PROPERTY UnsubscribeReturns
CHECK_DEADLOCK FALSE

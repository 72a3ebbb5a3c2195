CONSTANTS
    MaxRows = 2
    MaxArrive = 3
    MaxCancel = 2
SPECIFICATION Spec
INVARIANTS  QuietAfterUnsubscribe
PROPERTY EverythingEnds
CHECK_DEADLOCK FALSE

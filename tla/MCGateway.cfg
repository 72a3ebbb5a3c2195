CONSTANTS
    MaxConn = 2
    MaxSub = 2
    MaxRow = 2
    MaxReq = 2
    EagerReconnect = FALSE
SPECIFICATION Spec
INVARIANTS AnswersMeetRequests RowsReachCallback
PROPERTY BrokenSessionsEnd
CHECK_DEADLOCK FALSE

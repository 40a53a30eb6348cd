SPECIFICATION Spec
CONSTANTS
    k1 = k1
    k2 = k2
    a = a
    b = b
    Threads = {t1, t2}
    Keys = {k1, k2}
    Values = {a, b}
    NoRow = NoRow
    NoCall = NoCall
    Nobody = Nobody
    Calls <- SomeCalls
    SqlMayFail = TRUE
    ConnectMayFail = TRUE
    CommitMayFail = TRUE
    MaxCalls = 4
INVARIANTS
    DmlTypeOK
    TransactionsEnd
PROPERTIES
    CallsAreSteps
    LockIsReleased
CHECK_DEADLOCK FALSE

SPECIFICATION Spec
CONSTANTS
    t1 = t1
    t2 = t2
    day = day
    temp = temp
    Threads = {t1, t2}
    Files = {day}
    Kind <- DayOnly
    NumColumns = 1
    FieldVersion <- One
    Expired = {day}
    Indexed = {1}
    Rows = {o1}
    Absent = Absent
    Nobody = Nobody
    FirstVersion = 1
    MaxVersion = 2
    MaxDamage = 1
    SqlMayFail = TRUE
    CrashAnywhere = TRUE
INVARIANT
    DatabasesTypeOK
PROPERTY
    MutexIsReleased
    RowsAreKept

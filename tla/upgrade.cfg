SPECIFICATION Spec
CONSTANTS
    t1 = t1
    t2 = t2
    day = day
    temp = temp
    Threads = {t1, t2}
    Files = {day, temp}
    Kind <- DayAndTemp
    NumColumns = 4
    FieldVersion <- TwoNew
    Expired = {}
    Indexed = {2, 3}
    Rows = {o1}
    Absent = Absent
    Nobody = Nobody
    FirstVersion = 1
    MaxVersion = 2
    MaxDamage = 2
    SqlMayFail = FALSE
    CrashAnywhere = FALSE
SYMMETRY ThreadSymmetry
INVARIANTS
    PoolIsReady
    PoolIsIndexed
PROPERTIES
    EveryCallGetsADatabase
    RowsAreKept

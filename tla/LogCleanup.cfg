\* Two instances, two tasks at a time, one row followed.
SPECIFICATION Spec
CONSTANTS
    i1 = i1
    i2 = i2
    t1 = t1
    t2 = t2
    NoTask = NoTask
    NoInstance = NoInstance
    Instances = {i1, i2}
    Tasks = {t1, t2}
    MonthStarts <- MCMonthStarts
    RetentionMonths = 1
    MaxRetry = 1
    MaxRows = 1
    MaxAge = 5
INVARIANT CleanupInv
PROPERTIES DeletesOnlyOverdue OverdueGo

CONSTANTS
    OS_MAX_TASKS = 64
    TCB = {t1}
    NULL = NULL
    UsedPrio <- MCUsedPrio
    OS_AVAIL_TASKS = 4
    TaskRec <- MCTaskRec
SPECIFICATION SchedSpec
CHECK_DEADLOCK FALSE
INVARIANTS
    TableFindsLowest
    SortedByPeriod
    AcceptedMeetsDeadlines
PROPERTY ImplementsSets

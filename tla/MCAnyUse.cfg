CONSTANTS
    IDLE_PRIO = 4
    NULL = NULL
    NUM_DEVICES = 1
    dev_freq <- MCFreq
    OS_TIMER_RESOLUTION = 1
    WORD = 3
    OS_NUM_MUTEX = 2
    MinHolds <- MCMinHolds
SPECIFICATION Spec
CHECK_DEADLOCK FALSE
INVARIANTS
    SlotsAreTheirTasks
    LockedIffHeld

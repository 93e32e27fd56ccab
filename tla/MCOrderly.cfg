CONSTANTS
    IDLE_PRIO = 5
    NULL = NULL
    NUM_DEVICES = 2
    dev_freq <- MCFreq
    OS_TIMER_RESOLUTION = 1
    WORD = 7
    OS_NUM_MUTEX = 3
    MinHolds = 0
SPECIFICATION OrderlySpec
INVARIANTS
    LockHolderRuns
    HoldsLockCounts
    EachTaskInOnePlace
    IInv
PROPERTIES
    InversionOnlyFromUnlock
    SignalWakesItsSleepers
    KeepsPromise

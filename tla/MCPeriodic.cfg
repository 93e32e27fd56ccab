CONSTANTS
    IDLE_PRIO = 4
    NULL = NULL
    NUM_DEVICES = 2
    dev_freq <- MCSlowFreq
    OS_TIMER_RESOLUTION = 2
    WORD = 13
    OS_NUM_MUTEX = 2
    MinHolds = 0
SPECIFICATION PeriodicSpec
INVARIANT NoSignalIsLate
PROPERTIES
    EverySleeperWakes
    TopTaskRuns

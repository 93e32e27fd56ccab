CONSTANTS
    IDLE_PRIO = 3
    NULL = NULL
    NUM_DEVICES = 2
    dev_freq <- MCFreq
    OS_TIMER_RESOLUTION = 1
    WORD = 5
    OS_NUM_MUTEX = 2
    MinHolds = 0
SPECIFICATION ReleaseSpec
PROPERTY TopTaskRuns

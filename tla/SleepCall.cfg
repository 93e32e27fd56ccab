CONSTANTS
    OS_TIMER_RESOLUTION = 6
    WORD = 16
    Request = {0, 1, 5, 7, 15}  \* none, less than a tick, a few, almost the whole range
SPECIFICATION FairSpec
PROPERTIES
    EarlyOnlyAcrossWrap
    SleepEnds

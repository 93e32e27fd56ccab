SPECIFICATION BothSpec
CONSTANTS
  IDLE_PRIO = 5
  NULL = NULL
  NUM_DEVICES = 4
  dev_freq <- MCFreq
  OS_TIMER_RESOLUTION = 1
  WORD = 64
  OS_NUM_MUTEX = 3
  MinHolds = 0
  ADDRESSES = 16
  USR_START_ADDR = 4
  USR_END_ADDR = 12
  MUTEX_NUM = 3
  ITE = 3
  MaxTicks = 22
INVARIANTS ChaserEndsRight PrintsAsLogged SleepsAddUp LinesNest
CHECK_DEADLOCK FALSE

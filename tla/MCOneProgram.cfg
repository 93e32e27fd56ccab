SPECIFICATION AllSpec
CONSTANTS
  MATCH = 2
  TIMER_RESOLUTION = 12100
  WORD = 32768
  SDRAM_LOW = 4
  U_Boot = 12
  FlashROM_LOW = 0
  FlashROM_HIGH = 2
  Buffers <- MCBuffers
  Keys <- MCKeys
  Texts <- MCTexts
  Sleeps <- MCSleeps
  MaxTyped = 4
  MaxNow = 6
  BLOCK_SIZE = 3
  LineKeys <- MCLineKeys
  DriveTimes <- MCDriveTimes
  Garbage <- MCGarbage
  Rot13Keys <- MCRot13Keys
  Rot13Typed = 5
INVARIANTS LineIsWhatWasTyped ScreenShowsLine ClockLosesOnlyMaskedTime
  TellsWhatHappened AnswersInRot13 MachineIsLeftAsFound
PROPERTIES SleepIsAtMostATickShort
CHECK_DEADLOCK FALSE

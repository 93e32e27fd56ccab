CONSTANTS
    MEM = 5
    Char <- MCChar
    BITS = 8
    RWORD = 16
    RAND_STEP = 11
    LEFT = 2
    RIGHT = 8
    PRINTF_BUFMAX = 8
    Prints <- MCPrints
    Directives <- MCDirectives
    Dumps <- MCDumps
SPECIFICATION LibcSpec
INVARIANTS
    ReadersAreRight
    CopiesLeaveTheText
    MoveIsSimultaneous
    NothingIsLost
    WidthOnlyPads
    PrintedNumbersReadBack

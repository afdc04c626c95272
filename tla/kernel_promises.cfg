SPECIFICATION FairVideoSpec
CONSTANTS
    NUM_MAX_PROCESSES = 3
    MAX_TERM = 3
    MAX_NESTED = 1
    Windows = {"empty"}
    VideoWindows = {}
INVARIANT
    DrawsOnOwnTerminal
PROPERTIES
    ImplementsProcessStacks
    EveryTerminalScheduled

SPECIFICATION Spec
CONSTANTS
    NUM_MAX_PROCESSES = 3
    STACK_ROOM = 7584
    FRAMES = 488
INVARIANT
    EntersAbovePcb

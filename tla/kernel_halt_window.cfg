SPECIFICATION Spec
CONSTANTS
    NUM_MAX_PROCESSES = 4
    MAX_TERM = 3
    MAX_NESTED = 1
    Windows = {"halt"}
PROPERTY
    HaltReturnsToParent

SPECIFICATION FairSpec
CONSTANTS
    MAX_TERM = 2
    Devices = {0, 1, 8, 14}
    MAX_DEPTH = 2
INVARIANTS
    TypeOK
    InterruptsUnblocked
    ProgramsPreemptible
    NoStrayVector
    MasksAgree
PROPERTIES
    RequestsServed
    RtcKeepsTicking

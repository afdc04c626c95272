SPECIFICATION Spec
CONSTANTS
    Terms = {t1, t2}
    Keys = {a}
    KEY_BUFFER_SIZE = 2
    NUM_BYTES = 8
    MAX_IDX = 4
    Races = {"switch"}
INVARIANT
    OwnInput

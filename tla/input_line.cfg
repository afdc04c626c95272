SPECIFICATION Spec
CONSTANTS
    Terms = {t1, t2}
    Keys = {a, b}
    KEY_BUFFER_SIZE = 2
    NUM_BYTES = 8
    MAX_IDX = 4
    Races = {}
SYMMETRY Symmetry
INVARIANTS
    TypeOK
    BufferMatchesTyped
    IndexInBuffer
    OwnInput
PROPERTY
    LineDelivered

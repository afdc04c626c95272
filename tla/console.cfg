SPECIFICATION Spec
CONSTANTS
    Terms = {t1, t2}
    Shifts = {left, right}
    NUM_ROWS = 2
    NUM_COLS = 2
    KEY_BUFFER_SIZE = 1
    MAX_IDX = 2
    Glyphs = {"a", "A"}
    Texts <- Output
    Windows = {}
VIEW LiveState
SYMMETRY Symmetry
INVARIANTS
    TypeOK
    ScreenShowsText
    ModifiersFollowKeys
PROPERTY
    NothingTypedWithAltOrCtrl

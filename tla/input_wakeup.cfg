SPECIFICATION FairSpec
CONSTANTS
    Terms = {t1, t2}
    Keys = {}
    KEY_BUFFER_SIZE = 1
    NUM_BYTES = 1
    MAX_IDX = 2
    Races = {"typeahead", "switch"}
PROPERTY
    EnterWakesReader

SPECIFICATION FairSpec
CONSTANTS
    Terms = {t1, t2}
    Freqs = {2, 32, 8192}
    Races = {}
INVARIANTS
    TypeOK
    FrequencyInForce
PROPERTY
    TickEndsRead

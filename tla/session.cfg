SPECIFICATION SessionSpec
CONSTANTS
    NUM_MAX_PROCESSES = 3
    Procs = {0, 1, 2}
    NUM_MAX_OPEN_FILES = 8
    BLOCK_SIZE = 2
    WORD = 16
    Dentries <- ImageDentries
    file_size <- ImageSizes
    block_number <- ImageBlocks
    total_data_blocks = 3
    NBYTES = {2}
    MAX_SEEN = 3
    Listings = {"shared", "abandoned"}
    Words <- TypedWords
    Arguments = {"text", ".", "rtc", "none"}
    ExitWords = {"exit"}
    Executables <- ImagePrograms
    Spaces = {}
INVARIANTS
    ReportsRight
    PrintsAll
PROPERTY
    PromptReturns

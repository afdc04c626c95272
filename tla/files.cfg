SPECIFICATION Spec
CONSTANTS
    Procs = {p1, p2}
    NUM_MAX_OPEN_FILES = 4
    BLOCK_SIZE = 2
    WORD = 16
    Dentries <- ImageDentries
    file_size <- ImageSizes
    block_number <- ImageBlocks
    total_data_blocks = 3
    NBYTES = {3}
    MAX_SEEN = 3
    Listings = {}
SYMMETRY Symmetry
INVARIANTS
    TypeOK
    ReadsFollowFile
    ListingInOrder
PROPERTY
    OpenFilesKept

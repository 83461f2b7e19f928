SPECIFICATION SysSpec
CONSTANTS
    a = a
    b = b
    s1 = s1
    s2 = s2
    NoSid = NoSid
    None = None
    regular = regular
    fifo = fifo
    Clients = {a, b}
    Sids = {s1, s2}
    Paths = {regular, fifo}
    Fifos = {fifo}
    Kind <- MCKind
    Sizes = {0, 2, 3, 4}
    CHUNK = 2
    FOPEN_MAX = 1
    OtherTypes = {7}
    Restarts = TRUE
    IOErrors = FALSE
    FilesChange = FALSE
SYMMETRY Symmetry
INVARIANTS
    CompleteCopy
    ClientFile
PROPERTIES
    AbandonedForGood
    ImplementsTransfer

SPECIFICATION SysFairSpec
CONSTANTS
    a = a
    b = b
    s1 = s1
    s2 = s2
    NoSid = NoSid
    None = None
    regular = regular
    fifo = fifo
    Clients = {a, b}
    Sids = {s1, s2}
    Paths = {regular, fifo}
    Fifos = {fifo}
    Kind <- MCKind
    Sizes = {0, 2, 3}
    CHUNK = 2
    FOPEN_MAX = 2
    OtherTypes = {7}
    Restarts = FALSE
    IOErrors = FALSE
    FilesChange = FALSE
PROPERTIES
    GetsItsFile
    AnswerComes

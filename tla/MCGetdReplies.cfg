SPECIFICATION RSpec
CONSTANTS
    s1 = s1
    s2 = s2
    NoSid = NoSid
    regular = regular
    directory = directory
    missing = missing
    Sids = {s1, s2}
    Paths = {regular, directory, missing}
    Kind <- MCKind
    Sizes = {1}
    CHUNK = 2
    Zeroed = TRUE
    FOPEN_MAX = 2
    OtherTypes = {7}
    IOErrors = FALSE
    FilesChange = FALSE
INVARIANTS
    ErrorTextEnds

SPECIFICATION Spec
CONSTANTS
    s1 = s1
    s2 = s2
    NoSid = NoSid
    regular = regular
    directory = directory
    missing = missing
    Sids = {s1, s2}
    Paths = {regular, directory, missing}
    Kind <- MCKind
    Sizes = {0, 1, 2, 3, 4}
    CHUNK = 2
    FOPEN_MAX = 2
    OtherTypes = {7}
    IOErrors = TRUE
    FilesChange = FALSE
INVARIANTS
    CompleteCopy

SPECIFICATION Spec
CONSTANTS
    a = a
    b = b
    Letters = {a, b}
    NUL = NUL
    DN = 2
    SID = 2
    PATH = 2
    KNOWN = 1
    EXCESS = 2
INVARIANTS
    Accepted0Exactly
    
    TruncationUnseen
    Accepted6Exactly
CHECK_DEADLOCK FALSE

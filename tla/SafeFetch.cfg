SPECIFICATION FairSpec
CONSTANTS
    Origins = {a, b, bad}
    SafeOrigins = {a, b}
    NoOrigin = NoOrigin
    MAX_REDIRECTS = 3
    MAX_BODY_BYTES = 3
    MaxChunk = 2
CHECK_DEADLOCK FALSE
INVARIANTS
    TypeOK
    OnlySafeContacted
    SecretsStayHome
    WholeWithinCap
PROPERTIES
    CallEnds

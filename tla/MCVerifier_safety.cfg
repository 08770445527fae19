SPECIFICATION Spec
CONSTANTS
    Sessions = {s1, s2}
    Handlers = {h1, h2}
    Indices = {0, 1}
    NoStatus = NoStatus
    ListSize = 1
    SESSION_TTL = 1
    TRUST_CACHE_TTL = 1
    MAX_MAP_SIZE = 2
    MaxRotations = 1
SYMMETRY Symmetry
INVARIANTS
    TypeOK
    OneSubmission
    NoReplay
    RevokedNeverAccepted
    ReadOnce
PROPERTIES
    OthersKeepTheirSessions
    ImplementsOneShotSession

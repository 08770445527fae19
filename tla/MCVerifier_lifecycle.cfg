SPECIFICATION FairSpec
CONSTANTS
    Sessions = {s1, s2}
    Handlers = {h1, h2}
    Indices = {0}
    NoStatus = NoStatus
    ListSize = 1
    SESSION_TTL = 0
    TRUST_CACHE_TTL = 1
    MAX_MAP_SIZE = 1
    MaxRotations = 1
PROPERTIES
    EverySessionCloses
    StaleKeyGoes

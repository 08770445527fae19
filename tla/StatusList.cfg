SPECIFICATION Spec
CONSTANTS
    size = 11
    Touched = {0, 7, 8, 10, 11}
    ttl = 2
INVARIANTS
    TypeOK
    RevocationSeen
PROPERTIES
    ImplementsRevocationSet

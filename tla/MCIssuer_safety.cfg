SPECIFICATION Spec
CONSTANTS
    PreAuthCodes = {o1, o2}
    RequestUris = {u1}
    AuthCodes = {a1, a2}
    Tokens = {t1, t2}
    Requests = {r1, r2}
    Clients = {c1, c2}
    Verifiers = {v1, v2}
    PRE_AUTH_CODE_TTL = 1
    AUTH_CODE_TTL = 1
    PAR_TTL = 1
    ACCESS_TOKEN_TTL = 1
    C_NONCE_TTL = 1
    MAX_MAP_SIZE = 2
    ListSize = 1
    MaxRestarts = 1
SYMMETRY Symmetry
INVARIANTS
    TypeOK
    SingleUse
    UniqueStatusIndex
    CredentialRecorded
    NoProofReplay
    BoundedLifetime
    CodeBoundToClient
PROPERTIES
    OthersKeepTheirGrants

SPECIFICATION FairSpec
CONSTANTS
    PreAuthCodes = {o1}
    RequestUris = {u1}
    AuthCodes = {a1}
    Tokens = {t1, t2}
    Requests = {r1}
    Clients = {c1, c2}
    Verifiers = {v1}
    PRE_AUTH_CODE_TTL = 0
    AUTH_CODE_TTL = 1
    PAR_TTL = 1
    ACCESS_TOKEN_TTL = 1
    C_NONCE_TTL = 1
    MAX_MAP_SIZE = 1
    ListSize = 1
    MaxRestarts = 1
PROPERTIES
    ImplementsOneTimeGrant
    EveryGrantSettles

SPECIFICATION Spec
CONSTANTS
    PreAuthCodes = {o1, o2}
    RequestUris = {}
    AuthCodes = {}
    Tokens = {t1, t2}
    Requests = {r1}
    Clients = {c1}
    Verifiers = {v1}
    PRE_AUTH_CODE_TTL = 1
    AUTH_CODE_TTL = 1
    PAR_TTL = 1
    ACCESS_TOKEN_TTL = 1
    C_NONCE_TTL = 1
    MAX_MAP_SIZE = 2
    ListSize = 1
    MaxRestarts = 0
INVARIANTS
    EveryCredentialRevocable

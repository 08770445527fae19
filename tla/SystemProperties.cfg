SPECIFICATION FairSpec
CONSTANTS
    Gets = {g1, g2}
    Presents = {p1}
    Elsewhere = {s1}
    None = None
    MaxFaults = 1
    Origins = {verifier, other}
    TrustedVerifierOrigins = {verifier}
    WalletAudience = wallet
    OtherAudience = otherWallet
    VerifierKeys = {0, 1, OtherKey}
    Nonces = {p1, s1, None}
    VerifierUrl = verifier
    OtherUrl = other
    OtherKey = OtherKey
CHECK_DEADLOCK FALSE
INVARIANTS
    TypeOK
    StoredIsIssued
    OnlyVerifierAnswered
PROPERTIES
    LostIsLost
    RevokedFirstBlocks
    EveryAttemptEnds
    RetryGetsCredential

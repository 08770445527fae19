SPECIFICATION Spec
CONSTANTS
    KB_JWT_MAX_AGE_S = 2
    CLOCK_SKEW_S = 1
    Absent = Absent
    Credentials = {c1, c2}
    Sessions = {s1, s2}
    HolderKeys = {k1, k2}
    IssuerKey = ik
    VerifierUrl = verifier
    Types = {pid}
    AskedType = pid
    Overrides = {{"given_name"}, {"given_name", "age_over_18", "birthdate"}}
    ExpiresIn = 2
    Drifts = {0, 2}
    MaxTime = 3
CHECK_DEADLOCK FALSE
INVARIANTS
    TypeOK
    AcceptedIsVouchedFor
    AcceptedAsMade
    InOrderIsAccepted
SYMMETRY Symmetry

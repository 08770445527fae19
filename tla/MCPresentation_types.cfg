SPECIFICATION Spec
CONSTANTS
    KB_JWT_MAX_AGE_S = 2
    CLOCK_SKEW_S = 1
    Absent = Absent
    Credentials = {c1}
    Sessions = {s1}
    HolderKeys = {k1}
    IssuerKey = ik
    VerifierUrl = verifier
    Types = {pid, other}
    AskedType = pid
    Overrides = {{"given_name", "age_over_18", "birthdate"}}
    ExpiresIn = 2
    Drifts = {0}
    MaxTime = 2
CHECK_DEADLOCK FALSE
INVARIANTS
    TypeEnforced

SPECIFICATION Spec
CONSTANTS
    Octets <- NoNumbers
    Groups <- NoNumbers
    Names = {"localhost", "fd", "else"}
CHECK_DEADLOCK FALSE
INVARIANTS
    OnlyPrivateRefused

SPECIFICATION Spec
CONSTANTS
    Octets <- AllOctets
    Groups <- AllGroups
    Names = {"localhost", "fc", "fd", "fe8", "fe9", "fea", "feb", "else"}
CHECK_DEADLOCK FALSE
INVARIANTS
    NoPrivateFetched
    PublicIPv4Fetched

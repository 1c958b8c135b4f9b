\* A join that is refused after it has put the account's other session out.
CONSTANTS
    Users = {"a", "b"}
    Sessions = {s1, s2, s3}
    Rooms = {"r", "q"}
    Managers <- MCManagers
    JoinLimit = 1
    MaxRequests = 3
    None = "none"
SPECIFICATION Spec
SYMMETRY Symmetry
PROPERTY EvictionAnnounced
CHECK_DEADLOCK FALSE

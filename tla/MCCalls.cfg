\* Joins, media changes, settings, identifications and departures of three
\* sessions.
CONSTANTS
    Users = {"a", "b"}
    Sessions = {s1, s2, s3}
    Rooms = {"r", "q"}
    Managers <- MCManagers
    JoinLimit = 1
    MaxRequests = 3
    None = "none"
SPECIFICATION Spec
SYMMETRY Symmetry
INVARIANTS OneCallPerAccount CallsAreVisible
PROPERTIES JoinsAreLimited AccessHeld
CHECK_DEADLOCK FALSE

\* Three requests of the kinds that meet, over the life time of a cache entry.
CONSTANTS
    Users = {1, 2, 3, 4}
    Here = {1, 2, 3}
    Malformed = {3}
    Created <- MCCreated
    Names = {10, 15, 20, 30}
    FirstName <- MCFirstName
    LookUps <- MCLookUps
    Sessions = {"a1", "a2", "b1"}
    UserOf <- MCUserOf
    Requests = {r1, r2, r3}
    Scenarios <- MCScenarios
    Abouts = {0, 1}
    PreKeys = {"k", "l"}
    Hints = {"x", "y", "z"}
    MaxBlocks = 1
    Versions = {1, 2}
    Ttl = 1
    CacheCap = 0
    Week = 1
    PageLimit = 1
    None = None
SPECIFICATION Spec
SYMMETRY Symmetry
INVARIANTS OwnIdCurrent PicturesExist BlocksBounded ListedOnce
PROPERTIES StaleWithinTtl
CHECK_DEADLOCK FALSE

\* Leaving under a name somebody else wrote under.
CONSTANTS
    Users = {"u1", "u2"}
    Names = {"ann", "bob", "cid"}
    None = None
    s1 = s1
    s2 = s2
    s3 = s3
    Sessions = {s1, s2, s3}
    UserOf <- MCUserOf
    FirstName <- MCFirstName
    Role <- MCRole
    ServerAdmins = {}
    ModsMayDelete = TRUE
    Urls = {}
    Choices = {0, 1}
    MaxMessages = 2
    Requests = {"send", "rename", "leave"}
    MaxRequests = 4
    DbFaults = FALSE
    MaxClock = 1
SPECIFICATION Spec
SYMMETRY Symmetry
PROPERTY OnlyOwnMessagesErased
CHECK_DEADLOCK FALSE

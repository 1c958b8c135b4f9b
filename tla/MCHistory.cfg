\* All the requests on messages, against sanctions, renames, deletion and SQL faults.
CONSTANTS
    Users = {"u1", "u2"}
    Names = {"ann", "bob", "cid"}
    None = None
    s1 = s1
    s2 = s2
    s3 = s3
    Sessions = {s1, s2, s3}
    UserOf <- MCUserOf
    FirstName <- MCFirstName
    Role <- MCRole
    ServerAdmins = {}
    ModsMayDelete = TRUE
    Urls = {"x"}
    Choices = {0, 1}
    MaxMessages = 2
    Requests = {"send", "edit", "delete", "preview", "rename", "leave", "join", "react", "vote", "silence", "delete_room"}
    MaxRequests = 4
    DbFaults = TRUE
    MaxClock = 2
SPECIFICATION Spec
SYMMETRY Symmetry
INVARIANTS HistoryIsLatest PreviewIsCurrent SilencedStaySilent OneVotePerAccount
PROPERTIES DeletedStaysBlank OnlyAuthorEdits
CHECK_DEADLOCK FALSE

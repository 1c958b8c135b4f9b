\* A join that writes back the record it read before the ban: the owner alone
\* is on the staff, so no second moderation handler can lose the ban.
CONSTANTS
    Users = {"o", "a", "b"}
    None = "none"
    Sessions = {"so", "sa", "sb"}
    UserOf <- MCUserOf
    ServerAdmins = {"b"}
    Founder = "o"
    Permissions = {"Ban", "Kick", "Mute"}
    Staff <- MCOwnerAlone
    MaxModerators = 1
    MaxSubAdmins = 1
    Requests = {"ban_member", "join_game"}
    MaxRequests = 3
    MaxDbFaults = 0
    Faulty = {}
SPECIFICATION Spec
PROPERTY BannedCannotJoin
CHECK_DEADLOCK FALSE

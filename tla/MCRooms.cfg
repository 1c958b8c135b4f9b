\* All the requests on a room and its members; statements fail among the staff requests.
CONSTANTS
    Users = {"o", "a", "b"}
    None = "none"
    Sessions = {"so", "sa", "sb"}
    UserOf <- MCUserOf
    ServerAdmins = {"b"}
    Founder = "o"
    Permissions = {"Ban"}
    Staff <- MCStaff
    MaxModerators = 1
    MaxSubAdmins = 1
    Requests = {"set_member_role", "transfer_ownership", "set_moderator_permissions",
                "create_room", "delete_room_op", "ban_member", "unban_member", "kick_member",
                "timeout_member", "unmute_member", "join_game", "leave_game", "disconnect", "identify_player",
                "set_chat_lock", "update_room_description", "update_room_title",
                "upload_room_icon"}
    Faulty = {"set_member_role", "transfer_ownership", "delete_room_op", "create_room"}
    MaxRequests = 3
    MaxDbFaults = 1
SPECIFICATION Spec
INVARIANTS TypeOK BanExpels OwnerIsSoleAdministrator StaffWithinLimits
PROPERTIES OwnershipMovesByTransfer
CHECK_DEADLOCK FALSE

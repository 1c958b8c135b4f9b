--------------------------- MODULE RoomModeration ---------------------------
(***************************************************************************)
(* The persisted record of one community room and the WebSocket handlers   *)
(* that change it (rust/src/websocket/protocol.rs, with the room table of  *)
(* rust/src/core/database.rs).                                             *)
(*                                                                         *)
(* Every handler is a read-modify-write of the WHOLE row: it SELECTs the   *)
(* record, checks the caller's role on that copy, changes one field of the *)
(* copy and UPSERTs all columns.  Nothing holds a lock between the SELECT  *)
(* and the UPSERT, so the handlers of different sessions interleave at     *)
(* every await; each such segment is one action here.  A session runs one  *)
(* handler at a time: its socket loop awaits process_message.              *)
(*                                                                         *)
(* Rows of different rooms are independent, so the module has one room.    *)
(***************************************************************************)
EXTENDS Naturals, FiniteSets

CONSTANTS
    Users,          \* account ids
    None,           \* RoomRecord.owner_id = None
    Sessions,       \* identified WebSocket sessions
    UserOf,         \* the account each session has identified as at the start
    ServerAdmins,   \* accounts with PlayerSession.is_admin
    Founder,        \* owner of the room the behaviours start from
    Staff,          \* the roles its owner has already given
    Permissions,    \* the permissions a moderator can be given (ModeratorPermissions)
    MaxModerators,  \* MAX_ROOM_MODERATORS
    MaxSubAdmins,   \* MAX_ROOM_SUB_ADMINS
    Requests,       \* the operations clients issue
    MaxRequests,    \* bound: requests served in one behaviour
    MaxDbFaults,    \* bound: failing SQL statements in one behaviour
    Faulty          \* bound: a statement fails while only these are under way

Roles == {"Member", "Moderator", "SubAdministrator", "Administrator"}
Kinds == {"none", "classic", "community"}
Flags == {"chat_locked", "calls_enabled"}

ModerationOps ==
    {"set_member_role", "ban_member", "unban_member", "kick_member",
     "timeout_member", "unmute_member", "transfer_ownership",
     "set_chat_lock", "set_calls_enabled", "set_moderator_permissions",
     "update_room_description", "update_room_title", "upload_room_icon",
     "delete_room_op"}
Operations == ModerationOps \cup {"create_room", "join_game", "leave_game", "disconnect",
                               "identify_player"}

Stages == {"idle", "load", "reload", "store", "remove", "names", "syncload",
           "syncstore", "banload", "unjoin", "insert", "delete", "evict"}

(***************************************************************************)
(* RoomRecord.  Title, description and icon carry no control and are left  *)
(* out; "roles" maps the users without an entry to Member; "timeouts" is   *)
(* the set of users with an entry; "flags" holds the two booleans that are *)
(* set.  kind = "none" stands for the missing row.                         *)
(***************************************************************************)
Rooms == [kind: Kinds, owner: Users \cup {None}, roles: [Users -> Roles],
          banned: SUBSET Users, timeouts: SUBSET Users,
          mod_permissions: SUBSET Permissions, flags: SUBSET Flags,
          members: SUBSET Users]

HoldersOf(roles, role) == {u \in Users : roles[u] = role}

ASSUME ModelAssumption ==
    /\ IsFiniteSet(Users)
    /\ None \notin Users
    /\ UserOf \in [Sessions -> Users]
    /\ ServerAdmins \subseteq Users
    /\ Permissions \subseteq {"Ban", "Kick", "Mute", "Delete"}
    /\ MaxModerators \in Nat /\ MaxSubAdmins \in Nat
    /\ Requests \subseteq Operations
    /\ MaxRequests \in Nat /\ MaxDbFaults \in Nat /\ Faulty \subseteq Operations

ASSUME StaffAssumption ==
    /\ Founder \in Users
    /\ Staff \in [Users -> Roles]
    /\ HoldersOf(Staff, "Administrator") = {Founder}
    /\ Cardinality(HoldersOf(Staff, "Moderator")) <= MaxModerators
    /\ Cardinality(HoldersOf(Staff, "SubAdministrator")) <= MaxSubAdmins

VARIABLES
    row,        \* the room's row in the rooms table
    online,     \* the keys of AppState.players
    user_id,    \* PlayerSession.user_id of each session
    inRoom,     \* the sessions whose PlayerSession.rooms holds the room
    job,        \* the handler each session is running
    budget,     \* requests still to be served
    faults,     \* SQL statements that have failed
    overwrote,  \* history: an UPSERT replaced a row other than the one it read
    sentence,   \* history: users banned by a completed UPSERT and not unbanned
    slipped     \* history: sessions that, in the room, last identified as an
                \* account the row already banned

vars == <<row, online, user_id, inRoom, job, budget, faults, overwrote, sentence, slipped>>
-----------------------------------------------------------------------------
\* RoomRecord::default(): what sync_room_record and set_room_icon fall back to.
DefaultRoom ==
    [kind |-> "classic", owner |-> None, roles |-> [u \in Users |-> "Member"],
     banned |-> {}, timeouts |-> {}, mod_permissions |-> Permissions,
     flags |-> {"calls_enabled"}, members |-> {}]

NoRow == [DefaultRoom EXCEPT !.kind = "none"]

\* The record create_room builds for its caller.
FreshRoom(u, perms) ==
    [DefaultRoom EXCEPT !.kind = "community", !.owner = u,
                        !.roles = [@ EXCEPT ![u] = "Administrator"],
                        !.mod_permissions = perms]

role_in_room(r, u) == IF r.owner = u THEN "Administrator" ELSE r.roles[u]

count_role(r, role) == Cardinality(HoldersOf(r.roles, role))

Manages(r, u) == role_in_room(r, u) \in {"Administrator", "SubAdministrator"}

can_moderate(r, actor, target, action) ==
    \/ actor = "Administrator"
    \/ actor = "SubAdministrator" /\ target # "Administrator"
    \/ actor = "Moderator" /\ target = "Member" /\ action \in r.mod_permissions

Moderates(r, a, t, action) ==
    can_moderate(r, role_in_room(r, a), role_in_room(r, t), action)

\* Mutant: the staff limits compared with <= instead of <.
RoleChangeAllowed_OffByOne(r, a, t, role) ==
    /\ Manages(r, a)
    /\ role # "Administrator"
    /\ t # a
    /\ role_in_room(r, t) # "Administrator"
    /\ role = "Moderator" /\ role_in_room(r, t) # "Moderator"
         => count_role(r, "Moderator") <= MaxModerators
    /\ role = "SubAdministrator" /\ role_in_room(r, t) # "SubAdministrator"
         => count_role(r, "SubAdministrator") <= MaxSubAdmins

\* The check set_member_role makes before it changes target t's role.
RoleChangeAllowed(r, a, t, role) ==
    /\ Manages(r, a)
    /\ role # "Administrator"
    /\ t # a
    /\ role_in_room(r, t) # "Administrator"
    /\ role = "Moderator" /\ role_in_room(r, t) # "Moderator"
         => count_role(r, "Moderator") < MaxModerators
    /\ role = "SubAdministrator" /\ role_in_room(r, t) # "SubAdministrator"
         => count_role(r, "SubAdministrator") < MaxSubAdmins

\* Mutant: any manager of the room may give it away.
TransferAllowed_AnyManager(r, a, t) ==
    /\ Manages(r, a)
    /\ role_in_room(r, t) \in {"Moderator", "SubAdministrator"}
    /\ role_in_room(r, t) # "SubAdministrator"
         => count_role(r, "SubAdministrator") < MaxSubAdmins

\* The check transfer_ownership makes: only to staff, and the old owner
\* must find a sub-administrator slot.
TransferAllowed(r, a, t) ==
    /\ r.owner = a
    /\ role_in_room(r, t) \in {"Moderator", "SubAdministrator"}
    /\ role_in_room(r, t) # "SubAdministrator"
         => count_role(r, "SubAdministrator") < MaxSubAdmins

\* Mutant: the old owner keeps the Administrator role.
Transferred_KeepsRole(r, a, t) ==
    [r EXCEPT !.owner = t, !.roles = [@ EXCEPT ![t] = "Administrator"]]

\* Mutant: the old owner's new role is written under a name that is no role.
Transferred_UnknownRole(r, a, t) ==
    [r EXCEPT !.owner = t,
              !.roles = [@ EXCEPT ![t] = "Administrator", ![a] = "SubAdmin"]]

Transferred(r, a, t) ==
    [r EXCEPT !.owner = t,
              !.roles = [@ EXCEPT ![t] = "Administrator", ![a] = "SubAdministrator"]]
-----------------------------------------------------------------------------
IdleJob == [op |-> "disconnect", stage |-> "idle", target |-> None,
            names |-> {}, snap |-> NoRow, base |-> NoRow]

MayFail ==
    /\ faults < MaxDbFaults
    /\ \A s \in Sessions : job[s].stage = "idle" \/ job[s].op \in Faulty

\* A SELECT returns the row; a failing one is indistinguishable from a
\* missing row (RoomDatabase::room_record ends in ".ok()??").
Select(r) ==
    \/ r = row /\ faults' = faults
    \/ r = NoRow /\ MayFail /\ faults' = faults + 1

\* A statement that writes the row fails and the handler returns.
WriteFails ==
    /\ MayFail
    /\ faults' = faults + 1

Return(s) == job' = [job EXCEPT ![s] = IdleJob]

\* Handler of s continues at the given stage.
Continue(s, stage) == job' = [job EXCEPT ![s].stage = stage]

\* Handler of s now holds the changed copy of record r, for target t.
Hold(s, stage, t, r, changed) ==
    job' = [job EXCEPT ![s] = [@ EXCEPT !.stage = stage, !.target = t,
                                        !.snap = changed, !.base = r]]

At(s, op, stage) == job[s].op = op /\ job[s].stage = stage

\* room_usernames: the accounts of the sessions in the room.
room_usernames == {user_id[s] : s \in inRoom}

-----------------------------------------------------------------------------
Begin(s, op, stage) ==
    /\ op \in Requests
    /\ budget > 0
    /\ s \in online
    /\ job[s].stage = "idle"
    /\ budget' = budget - 1
    /\ job' = [job EXCEPT ![s] = [IdleJob EXCEPT !.op = op, !.stage = stage]]
    /\ UNCHANGED <<row, user_id, faults, overwrote, sentence>>

\* session_identity and resolve_room_for_session: a moderation request is
\* taken up only from a session that is in the room.
Request(s) ==
    /\ s \in inRoom
    /\ \E op \in ModerationOps : Begin(s, op, "load")
    /\ UNCHANGED <<online, inRoom, slipped>>

\* The common part of the step that reads the record and checks the role.
Load(s, op, r) ==
    /\ At(s, op, "load")
    /\ Select(r)
    /\ UNCHANGED <<row, online, user_id, inRoom, budget, overwrote, sentence, slipped>>

\* Answers an error to the caller: the record read is not a community room's
\* or the check failed.
Refuse(s, r, allowed) ==
    /\ ~(r.kind = "community" /\ allowed)
    /\ Return(s)

Grant(s, r, allowed, stage, t, changed) ==
    /\ r.kind = "community" /\ allowed
    /\ Hold(s, stage, t, r, changed)

set_member_role(s) ==
    \E r \in {row, NoRow}, t \in Users, role \in Roles :
        LET allowed == RoleChangeAllowed(r, user_id[s], t, role)
        IN  /\ Load(s, "set_member_role", r)
            /\ \/ Refuse(s, r, allowed)
               \/ Grant(s, r, allowed, "store", t, [r EXCEPT !.roles = [@ EXCEPT ![t] = role]])

ban_member(s) ==
    \E r \in {row, NoRow}, t \in Users :
        LET allowed == t # user_id[s] /\ Moderates(r, user_id[s], t, "Ban")
        IN  /\ Load(s, "ban_member", r)
            /\ \/ Refuse(s, r, allowed)
               \/ Grant(s, r, allowed, "store", t, [r EXCEPT !.banned = @ \cup {t}])

unban_member(s) ==
    \E r \in {row, NoRow}, t \in Users :
        LET allowed == Manages(r, user_id[s])
        IN  /\ Load(s, "unban_member", r)
            /\ \/ Refuse(s, r, allowed)
               \/ Grant(s, r, allowed, "store", t, [r EXCEPT !.banned = @ \ {t}])

\* Kicking writes nothing before it removes the target's sessions.
kick_member(s) ==
    \E r \in {row, NoRow}, t \in Users :
        LET allowed == t # user_id[s] /\ Moderates(r, user_id[s], t, "Kick")
        IN  /\ Load(s, "kick_member", r)
            /\ \/ Refuse(s, r, allowed)
               \/ Grant(s, r, allowed, "remove", t, r)

timeout_member(s) ==
    \E r \in {row, NoRow}, t \in Users :
        LET allowed == t # user_id[s] /\ Moderates(r, user_id[s], t, "Mute")
        IN  /\ Load(s, "timeout_member", r)
            /\ \/ Refuse(s, r, allowed)
               \/ Grant(s, r, allowed, "store", t, [r EXCEPT !.timeouts = @ \cup {t}])

unmute_member(s) ==
    \E r \in {row, NoRow}, t \in Users :
        LET allowed == Moderates(r, user_id[s], t, "Mute")
        IN  /\ Load(s, "unmute_member", r)
            /\ \/ Refuse(s, r, allowed)
               \/ Grant(s, r, allowed, "store", t, [r EXCEPT !.timeouts = @ \ {t}])

transfer_ownership(s) ==
    \E r \in {row, NoRow}, t \in Users :
        LET allowed == TransferAllowed(r, user_id[s], t)
        IN  /\ Load(s, "transfer_ownership", r)
            /\ \/ Refuse(s, r, allowed)
               \/ Grant(s, r, allowed, "store", t, Transferred(r, user_id[s], t))

\* set_chat_lock and set_calls_enabled: one flag is set or cleared.
set_flag(s) ==
    \E r \in {row, NoRow}, f \in Flags, on \in BOOLEAN :
        LET allowed == Manages(r, user_id[s])
            op == IF f = "chat_locked" THEN "set_chat_lock" ELSE "set_calls_enabled"
        IN  /\ Load(s, op, r)
            /\ \/ Refuse(s, r, allowed)
               \/ Grant(s, r, allowed, "store", None,
                        [r EXCEPT !.flags = IF on THEN @ \cup {f} ELSE @ \ {f}])

set_moderator_permissions(s) ==
    \E r \in {row, NoRow}, perms \in SUBSET Permissions :
        LET allowed == Manages(r, user_id[s])
        IN  /\ Load(s, "set_moderator_permissions", r)
            /\ \/ Refuse(s, r, allowed)
               \/ Grant(s, r, allowed, "store", None, [r EXCEPT !.mod_permissions = perms])

update_room_description(s) ==
    \E r \in {row, NoRow} :
        LET allowed == Manages(r, user_id[s])
        IN  /\ Load(s, "update_room_description", r)
            /\ \/ Refuse(s, r, allowed)
               \/ Grant(s, r, allowed, "store", None, r)

\* Title and icon are checked only when the record read is a community
\* room's: with a missing row, or after a failed read, they proceed.
update_room_title(s) ==
    \E r \in {row, NoRow} :
        /\ Load(s, "update_room_title", r)
        /\ IF r.kind = "community" /\ ~Manages(r, user_id[s])
           THEN Return(s) ELSE Continue(s, "names")

upload_room_icon(s) ==
    \E r \in {row, NoRow} :
        /\ Load(s, "upload_room_icon", r)
        /\ IF r.kind = "community" /\ ~Manages(r, user_id[s])
           THEN Return(s) ELSE Continue(s, "reload")

\* RoomDatabase::set_room_icon reads the record again before it writes it.
set_room_icon(s) ==
    \E r \in {row, NoRow} :
        /\ At(s, "upload_room_icon", "reload")
        /\ Select(r)
        /\ Hold(s, "store", None, r, IF r.kind = "none" THEN DefaultRoom ELSE r)
        /\ UNCHANGED <<row, online, user_id, inRoom, budget, overwrote, sentence, slipped>>

delete_room_op(s) ==
    \E r \in {row, NoRow} :
        LET allowed == r.owner = user_id[s] \/ user_id[s] \in ServerAdmins
        IN  /\ Load(s, "delete_room_op", r)
            /\ \/ Refuse(s, r, allowed)
               \/ Grant(s, r, allowed, "delete", None, r)
-----------------------------------------------------------------------------
\* RoomDatabase::set_room_record: the UPSERT of all columns.
Upsert(s) ==
    /\ row' = job[s].snap
    /\ overwrote' = (overwrote \/ row # job[s].base)

\* Mutant: ban_member forgets to remove the target's sessions.
AfterStore_BanLeavesSessions(op) ==
    CASE op \in {"ban_member", "upload_room_icon"} -> "names"
      [] OTHER -> "idle"

\* What the handler does after its UPSERT succeeded.
AfterStore(op) ==
    CASE op = "ban_member" -> "remove"
      [] op = "upload_room_icon" -> "names"
      [] OTHER -> "idle"

Store(s) ==
    /\ job[s].stage = "store"
    /\ \/ /\ Upsert(s)
          /\ IF AfterStore(job[s].op) = "idle" THEN Return(s)
                                               ELSE Continue(s, AfterStore(job[s].op))
          /\ sentence' = CASE job[s].op = "ban_member" -> sentence \cup {job[s].target}
                           [] job[s].op = "unban_member" -> sentence \ {job[s].target}
                           [] OTHER -> sentence
          /\ faults' = faults
       \/ WriteFails /\ Return(s) /\ UNCHANGED <<row, overwrote, sentence>>
    /\ UNCHANGED <<online, user_id, inRoom, budget, slipped>>

\* remove_user_from_room: every session of the target leaves, under the
\* players write lock.
remove_user_from_room(s) ==
    /\ job[s].stage = "remove"
    /\ inRoom' = {x \in inRoom : user_id[x] # job[s].target}
    /\ Continue(s, "names")
    /\ UNCHANGED <<row, online, user_id, budget, faults, overwrote, sentence, slipped>>

\* sync_room_record: collect the usernames, read the record (or start from
\* the default one), write it back with the new member list.
SyncNames(s) ==
    /\ job[s].stage = "names"
    /\ job' = [job EXCEPT ![s].names = room_usernames, ![s].stage = "syncload"]
    /\ UNCHANGED <<row, online, user_id, inRoom, budget, faults, overwrote, sentence, slipped>>

SyncLoad(s) ==
    /\ job[s].stage = "syncload"
    /\ \E r \in {row, NoRow} :
          /\ Select(r)
          /\ Hold(s, "syncstore", job[s].target, r,
                  [(IF r.kind = "none" THEN DefaultRoom ELSE r) EXCEPT !.members = job[s].names])
    /\ UNCHANGED <<row, online, user_id, inRoom, budget, overwrote, sentence, slipped>>

\* update_room_title writes the synchronised copy a second time, with the
\* new title.
SyncStore(s) ==
    /\ job[s].stage = "syncstore"
    /\ \/ /\ Upsert(s)
          /\ IF job[s].op = "update_room_title"
             THEN Hold(s, "store", None, job[s].snap, job[s].snap)
             ELSE Return(s)
          /\ faults' = faults
       \/ WriteFails /\ Return(s) /\ UNCHANGED <<row, overwrote>>
    /\ UNCHANGED <<online, user_id, inRoom, budget, sentence, slipped>>

\* RoomDatabase::delete_room, then the sessions are put out of the room.
delete_room(s) ==
    /\ job[s].stage = "delete"
    /\ \/ row' = NoRow /\ sentence' = {} /\ Continue(s, "evict") /\ faults' = faults
       \/ WriteFails /\ Return(s) /\ UNCHANGED <<row, sentence>>
    /\ UNCHANGED <<online, user_id, inRoom, budget, overwrote, slipped>>

EvictAll(s) ==
    /\ job[s].stage = "evict"
    /\ inRoom' = {}
    /\ Return(s)
    /\ UNCHANGED <<row, online, user_id, budget, faults, overwrote, sentence, slipped>>
-----------------------------------------------------------------------------
\* create_room: the room must not exist; INSERT ... ON CONFLICT DO NOTHING
\* decides; an icon in the payload writes the caller's own copy again.
create_room(s) ==
    /\ Begin(s, "create_room", "load")
    /\ UNCHANGED <<online, inRoom, slipped>>

CreateCheck(s) ==
    \E r \in {row, NoRow}, perms \in SUBSET Permissions :
        /\ Load(s, "create_room", r)
        /\ \/ r.kind # "none" /\ Return(s)
           \/ r.kind = "none" /\ Hold(s, "insert", None, FreshRoom(user_id[s], perms),
                                      FreshRoom(user_id[s], perms))

create_room_if_absent(s) ==
    /\ job[s].stage = "insert"
    /\ \/ /\ row.kind = "none"
          /\ row' = job[s].snap
          /\ sentence' = {}
          /\ Return(s) \/ Continue(s, "store")
          /\ faults' = faults
       \/ row.kind # "none" /\ Return(s) /\ UNCHANGED <<row, sentence, faults>>
       \/ WriteFails /\ Return(s) /\ UNCHANGED <<row, sentence>>
    /\ UNCHANGED <<online, user_id, inRoom, budget, overwrote, slipped>>

\* join_game: the room is entered first and the ban is looked up after.  A
\* session already in the room skips both and changes nothing.
join_game(s) ==
    /\ s \notin inRoom
    /\ Begin(s, "join_game", "banload")
    /\ inRoom' = inRoom \cup {s}
    /\ slipped' = slipped \ {s}
    /\ UNCHANGED online

JoinBanCheck(s) ==
    /\ job[s].stage = "banload"
    /\ \E r \in {row, NoRow} :
          /\ Select(r)
          /\ IF r.kind = "community" /\ user_id[s] \in r.banned
             THEN Continue(s, "unjoin") ELSE Continue(s, "names")
    /\ UNCHANGED <<row, online, user_id, inRoom, budget, overwrote, sentence, slipped>>

JoinUndo(s) ==
    /\ job[s].stage = "unjoin"
    /\ inRoom' = inRoom \ {s}
    /\ Return(s)
    /\ UNCHANGED <<row, online, user_id, budget, faults, overwrote, sentence, slipped>>

leave_game(s) ==
    /\ s \in inRoom
    /\ Begin(s, "leave_game", "names")
    /\ inRoom' = inRoom \ {s}
    /\ UNCHANGED <<online, slipped>>

\* disconnect_player, run by the session's own loop between two messages.
disconnect_player(s) ==
    /\ Begin(s, "disconnect", IF s \in inRoom THEN "names" ELSE "idle")
    /\ online' = online \ {s}
    /\ inRoom' = inRoom \ {s}
    /\ UNCHANGED slipped

\* identify_player on a session that is already identified: the account of
\* the token replaces the session's, the rooms it is in are kept and no ban
\* is looked up.
identify_player(s) ==
    /\ "identify_player" \in Requests
    /\ budget > 0
    /\ s \in online
    /\ job[s].stage = "idle"
    /\ budget' = budget - 1
    /\ \E u \in Users :
          /\ user_id' = [user_id EXCEPT ![s] = u]
          /\ slipped' = IF s \in inRoom /\ u \in row.banned THEN slipped \cup {s}
                                                            ELSE slipped \ {s}
    /\ UNCHANGED <<row, online, inRoom, job, faults, overwrote, sentence>>
-----------------------------------------------------------------------------
\* The room as its owner left it, with any of the sessions in it.
Init ==
    /\ inRoom \in SUBSET Sessions
    /\ online = Sessions
    /\ user_id = UserOf
    /\ row = [FreshRoom(Founder, Permissions) EXCEPT !.roles = Staff,
                 !.members = {user_id[s] : s \in inRoom}]
    /\ job = [s \in Sessions |-> IdleJob]
    /\ budget = MaxRequests
    /\ faults = 0
    /\ overwrote = FALSE
    /\ sentence = {}
    /\ slipped = {}

\* The handlers' first step.
Check(s) ==
    \/ set_member_role(s) \/ ban_member(s) \/ unban_member(s) \/ kick_member(s)
    \/ timeout_member(s) \/ unmute_member(s) \/ transfer_ownership(s)
    \/ set_flag(s) \/ set_moderator_permissions(s) \/ update_room_description(s)
    \/ update_room_title(s) \/ upload_room_icon(s)
    \/ delete_room_op(s)

Moderation(s) ==
    \/ Request(s)
    \/ job[s].stage = "load" /\ Check(s)
    \/ set_room_icon(s)

Persistence(s) ==
    \/ Store(s) \/ remove_user_from_room(s)
    \/ SyncNames(s) \/ SyncLoad(s) \/ SyncStore(s)
    \/ delete_room(s) \/ EvictAll(s)

Membership(s) ==
    \/ create_room(s) \/ CreateCheck(s) \/ create_room_if_absent(s)
    \/ join_game(s) \/ JoinBanCheck(s) \/ JoinUndo(s)
    \/ leave_game(s) \/ disconnect_player(s) \/ identify_player(s)

Next == \E s \in Sessions : Moderation(s) \/ Persistence(s) \/ Membership(s)

Spec == Init /\ [][Next]_vars
-----------------------------------------------------------------------------
(***************************************************************************)
(* Properties.                                                             *)
(***************************************************************************)
Jobs == [op: Operations, stage: Stages, target: Users \cup {None},
         names: SUBSET Users, snap: Rooms, base: Rooms]

\* Type invariant: every row the handlers write back is a well-formed record
\* and every handler is at a stage it can continue from.
TypeOK ==
    /\ row \in Rooms
    /\ online \subseteq Sessions /\ inRoom \subseteq online
    /\ user_id \in [Sessions -> Users]
    /\ job \in [Sessions -> Jobs]
    /\ budget \in 0..MaxRequests /\ faults \in 0..MaxDbFaults
    /\ overwrote \in BOOLEAN /\ sentence \subseteq Users \cup {None}
    /\ slipped \subseteq Sessions

SoleAdministrator(r) ==
    IF r.kind = "community"
    THEN r.owner \in Users /\ HoldersOf(r.roles, "Administrator") = {r.owner}
    ELSE r.owner = None /\ HoldersOf(r.roles, "Administrator") = {}

WithinLimits(r) ==
    /\ Cardinality(HoldersOf(r.roles, "Moderator")) <= MaxModerators
    /\ Cardinality(HoldersOf(r.roles, "SubAdministrator")) <= MaxSubAdmins

RecordOK(r) == r \in Rooms /\ SoleAdministrator(r) /\ WithinLimits(r)

\* The inductive invariant: the stored row AND every copy a handler holds are
\* sound records, so that writing any of them back at any time is harmless to
\* the two invariants below.
RecordInv ==
    /\ TypeOK
    /\ RecordOK(row)
    /\ \A s \in Sessions : RecordOK(job[s].snap)

\* Ownership: whatever interleaving of role changes, transfers, deletions,
\* re-creations, stale write-backs and failed reads produced it, the record
\* of a community room names one owner and gives the Administrator role to
\* that user alone; any other record has neither (transfer_ownership,
\* set_member_role, create_room, sync_room_record).
OwnerIsSoleAdministrator == SoleAdministrator(row)

\* Staff limits: the counts set_member_role and transfer_ownership check on
\* their own copy still hold of the stored row, although other handlers
\* write between the check and the UPSERT.
StaffWithinLimits == WithinLimits(row)

\* A banned user is out: as long as no UPSERT has overwritten a concurrent
\* one and no statement failed, a session of a banned user is in the room
\* only while its own join has still to undo itself or the ban's handler has
\* still to remove it (join_game enters first and looks up the ban after,
\* ban_member writes first and removes after), or because it was in the room
\* when it identified anew, as the banned user: identify_player keeps the
\* session's rooms and asks no ban.
BanExpels ==
    ~overwrote /\ faults = 0 /\ row.kind = "community" =>
        \A s \in inRoom \ slipped : user_id[s] \in row.banned =>
            \/ job[s].stage \in {"banload", "unjoin"}
            \/ \E x \in Sessions : At(x, "ban_member", "remove") /\ job[x].target = user_id[s]

\* Ownership moves only by the owner's own hand: unless a stale UPSERT is
\* involved, the owner of a community room changes in one step only because
\* that owner transfers it, and keeps a sub-administrator role
\* (transfer_ownership).
OwnershipMovesByTransfer ==
    [][ row.kind = "community" /\ row'.kind = "community" /\ row'.owner # row.owner
          /\ ~overwrote'
        => \E s \in Sessions :
              /\ At(s, "transfer_ownership", "store") /\ user_id[s] = row.owner
              /\ row'.owner = job[s].target
              /\ row'.roles[row.owner] = "SubAdministrator" ]_vars

\* Joining, step 5 of explain/04-message-transport.md: a user whose ban was
\* stored, and who was not unbanned, is turned away by join_game.
BannedCannotJoin ==
    [][ \A s \in Sessions :
          job[s].stage = "banload" /\ job'[s].stage = "names"
            => user_id[s] \notin sentence ]_vars

=============================================================================

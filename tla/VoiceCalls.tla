----------------------------- MODULE VoiceCalls -----------------------------
(***************************************************************************)
(* Calls of websocket/protocol.rs: which session is in a call, in which    *)
(* room, and who may be sent the signals that set a connection up.  The    *)
(* media go from browser to browser; the server keeps flags in             *)
(* PlayerSession and relays signals.                                       *)
(*                                                                         *)
(* A handler works in steps, one per time it takes the players lock, and   *)
(* other sessions' handlers come between them.  What only refuses before   *)
(* anything is changed is left out (limits per session, the server's calls *)
(* flag): the model then has more behaviours than the code.  So are the    *)
(* camera, screen and deafened flags, which no decision of the server      *)
(* depends on, and the other columns of the room's record, whose lost      *)
(* updates are the subject of RoomModeration.                              *)
(***************************************************************************)
EXTENDS Naturals, FiniteSets

CONSTANTS
    Users,          \* accounts
    Sessions,       \* WebSocket sessions
    Rooms,
    Managers,       \* administrators and sub-administrators of each community room
    JoinLimit,      \* VOICE_JOINS_PER_MINUTE
    MaxRequests,    \* bound: requests served in one behaviour
    None

ASSUME CallAssumption ==
    /\ None \notin Users \cup Rooms
    /\ Users \cap Sessions = {} /\ Managers \in [Rooms -> SUBSET Users]
    /\ JoinLimit \in Nat /\ MaxRequests \in Nat

VARIABLES
    online,         \* the sessions in state.players
    user,           \* PlayerSession.user_id, None before identification
    visible,        \* PlayerSession.status is not Invisible
    rooms,          \* PlayerSession.rooms
    voice,          \* PlayerSession.is_voice_chat
    call_room,      \* PlayerSession.call_room
    closed,         \* the rooms whose record has calls_enabled = 0
    overrides,      \* state.call_access_overrides
    joins,          \* the limiter's voice_join buckets: account or session -> count
    job,            \* the handler at work for each session
    claimed,        \* history: the sessions in a call because they said so when
                    \* they identified, and that have not joined since
    budget

session == <<online, user, visible, rooms, voice, call_room>>
access == <<closed, overrides, joins>>
vars == <<session, access, job, claimed, budget>>

Stages == {"idle", "limit", "access", "override", "voice", "media", "announce", "mode", "allow"}
\* "on", "room": what the request says; "user": the account as read first;
\* "free": not limited, because the session was in a call already; "news":
\* the sessions put out of their call that are still to be announced.
\* History: "out", another session has put this one out of its call since;
\* "right", calls of the room were open to the account at some moment since.
Jobs ==
    {j \in [stage: Stages, on: BOOLEAN, room: Rooms \cup {None}, user: Users \cup {None},
            free: BOOLEAN, news: SUBSET Sessions, out: BOOLEAN, right: BOOLEAN] :
        j.stage \in {"access", "override", "mode", "allow"} => j.room \in Rooms}
Job(stage, on, r, u, free, right) ==
    [stage |-> stage, on |-> on, room |-> r, user |-> u, free |-> free,
     news |-> {}, out |-> FALSE, right |-> right]
Telling(out) == [stage |-> "announce", on |-> FALSE, room |-> None, user |-> None,
                 free |-> FALSE, news |-> out, out |-> FALSE, right |-> FALSE]
Idle == Job("idle", FALSE, None, None, FALSE, FALSE)
-----------------------------------------------------------------------------
\* PlayerSession::is_call_in_room: a session without a known call room counts
\* as in a call everywhere.
is_call_in_room(s, r) == voice[s] /\ call_room[s] \in {None, r}

\* The other sessions of the account.
Siblings(s) == {t \in online \ {s} : user[t] = user[s] /\ user[s] # None}

\* relay_call_signal: the sessions that account u can be reached at by the
\* signals of s in room r.
SignalTargets(s, u, r) ==
    {t \in online : /\ r \in rooms[s] /\ is_call_in_room(s, r)
                    /\ user[t] = u /\ r \in rooms[t] /\ is_call_in_room(t, r)}

At(s, stage) == job[s].stage = stage

Return(s) == job' = [job EXCEPT ![s] = Idle]

Go(s, stage) == job' = [job EXCEPT ![s].stage = stage]

\* A session serves its requests one after the other.
Request(s) ==
    /\ s \in online /\ At(s, "idle") /\ budget > 0
    /\ budget' = budget - 1

\* Requests that change the session in one step.
AtOnce(s) == Request(s) /\ UNCHANGED <<online, access, job>>

\* Calls of the room r are open to the account.
OpenTo(u, r) == r \notin closed \/ r \in overrides \/ u \in Managers[r]
-----------------------------------------------------------------------------
\* Mutant: a second session is not a second join.
already_in_voice_Account(s) == \E t \in Siblings(s) \cup {s} : voice[t]

already_in_voice(s) == voice[s]

\* The room of a request to join or to leave a call is looked up, if it names
\* one; a request without gameId is checked against no room.
Checks(r) == IF r = None THEN "voice" ELSE "access"

\* update_voice_chat (op 98) arrives: the account and its call are read.
VoiceRequest(s) ==
    /\ Request(s)
    /\ \E on \in BOOLEAN, r \in Rooms \cup {None} :
          LET free == ~on \/ already_in_voice(s)
          IN  job' = [job EXCEPT ![s] =
                        Job(IF free THEN Checks(r) ELSE "limit", on, r, user[s], free,
                            r # None /\ OpenTo(user[s], r))]
    /\ UNCHANGED <<session, access, claimed>>

\* update_call_media_state (op 110) arrives; neither the limit nor
\* the room's rules apply to it.
MediaRequest(s) ==
    /\ Request(s)
    /\ \E on \in BOOLEAN, r \in Rooms \cup {None} :
          job' = [job EXCEPT ![s] = Job("media", on, r, None, FALSE, FALSE)]
    /\ UNCHANGED <<session, access, claimed>>

\* The joins of an account share a bucket, whichever sessions make them.
JoinKey(s) == IF job[s].user = None THEN s ELSE job[s].user

\* rate_limit_hit for a join; the bucket's minute may be over.  Counts above
\* the limit make no difference and are left out.
rate_limit_hit(s) ==
    /\ At(s, "limit")
    /\ \E over \in BOOLEAN :
          LET count == IF over THEN 0 ELSE joins[JoinKey(s)]
          IN  IF count < JoinLimit
              THEN /\ joins' = [joins EXCEPT ![JoinKey(s)] = count + 1]
                   /\ Go(s, Checks(job[s].room))
              ELSE /\ joins' = [joins EXCEPT ![JoinKey(s)] = count]
                   /\ Return(s)
    /\ UNCHANGED <<session, closed, overrides, claimed, budget>>

\* Mutant: members are let in and the staff is not.
Barred_Staff(s) == job[s].room \in closed /\ job[s].user \in Managers[job[s].room]

\* The record says that the room's calls are not for this account.
Barred(s) == job[s].room \in closed /\ job[s].user \notin Managers[job[s].room]

\* The SELECT of the room's record.  One that fails is taken for a room
\* without a record, which is open.
CheckAccess(s) ==
    /\ At(s, "access")
    /\ \/ /\ Go(s, IF job[s].on THEN IF Barred(s) THEN "override" ELSE "voice"
                   ELSE IF job[s].user \in Managers[job[s].room] THEN "override" ELSE "voice")
       \/ job' = [job EXCEPT ![s] = [stage |-> "voice", on |-> @.on, room |-> @.room, user |-> @.user,
                       free |-> @.free, news |-> {}, out |-> @.out, right |-> TRUE]]
    /\ UNCHANGED <<session, access, claimed, budget>>

\* A member joins a closed room's call under an override only; a member of
\* the staff who leaves ends the override.
CheckOverride(s) ==
    /\ At(s, "override")
    /\ \/ /\ job[s].on
          /\ IF job[s].room \in overrides THEN Go(s, "voice") ELSE Return(s)
          /\ UNCHANGED overrides
       \/ /\ ~job[s].on
          /\ overrides' = overrides \ {job[s].room}
          /\ Go(s, "voice")
    /\ UNCHANGED <<session, closed, joins, claimed, budget>>

\* set_calls_enabled (op 50) and set_call_access (op 51) of a room's staff.
ManageCalls(s) ==
    /\ Request(s)
    /\ \E stage \in {"mode", "allow"}, on \in BOOLEAN, r \in rooms[s] :
          /\ user[s] \in Managers[r]
          /\ job' = [job EXCEPT ![s] = Job(stage, on, r, user[s], FALSE, FALSE)]
    /\ UNCHANGED <<session, access, claimed>>

\* The handlers after s has opened a room, or not.
Opened(s, yes) ==
    [t \in Sessions |->
        IF t = s THEN Idle
        ELSE IF yes /\ job[t].room = job[s].room THEN [job[t] EXCEPT !.right = TRUE] ELSE job[t]]

set_calls_enabled(s) ==
    /\ At(s, "mode")
    /\ \/ /\ closed' = IF job[s].on THEN closed \ {job[s].room} ELSE closed \cup {job[s].room}
          /\ job' = Opened(s, job[s].on)
       \/ UNCHANGED closed /\ Return(s)
    /\ UNCHANGED <<session, overrides, joins, claimed, budget>>

set_call_access(s) ==
    /\ At(s, "allow")
    /\ overrides' = IF job[s].on THEN overrides \cup {job[s].room} ELSE overrides \ {job[s].room}
    /\ job' = Opened(s, job[s].on)
    /\ UNCHANGED <<session, closed, joins, claimed, budget>>
-----------------------------------------------------------------------------
\* The other sessions of the account that are put out of their call.
Evicted(s, on) == IF on THEN {t \in Siblings(s) : voice[t]} ELSE {}

\* The request is neither one to call while invisible nor about a room the
\* session is not in.
Admitted(s) ==
    /\ s \in online
    /\ job[s].on => visible[s]
    /\ job[s].room # None => job[s].room \in rooms[s]

RoomOfCall(s) == IF job[s].on THEN job[s].room ELSE None

\* The write section of update_voice_chat: the account's other sessions are
\* put out first, and the request may still be refused after that.  A session
\* whose request named no room is in the call of all its rooms from here on.
update_voice_chat(s) ==
    /\ At(s, "voice")
    /\ LET out == Evicted(s, job[s].on)
       IN  /\ voice' = [t \in Sessions |->
                          IF t \in out THEN FALSE
                          ELSE IF t = s /\ Admitted(s) THEN job[s].on ELSE voice[t]]
           /\ call_room' = [t \in Sessions |->
                          IF t \in out THEN None
                          ELSE IF t = s /\ Admitted(s) THEN RoomOfCall(s) ELSE call_room[t]]
           /\ job' = [t \in Sessions |->
                          IF t = s THEN IF Admitted(s) THEN Telling(out) ELSE Idle
                          ELSE IF t \in out /\ job[t] # Idle THEN [job[t] EXCEPT !.out = TRUE] ELSE job[t]]
           /\ claimed' = claimed \ (out \cup {t \in {s} : Admitted(s)})
    /\ UNCHANGED <<online, user, visible, rooms, access, budget>>

\* Op 98 to the members of the rooms, for the session and for those it has put
\* out.
Announce(s) ==
    /\ At(s, "announce")
    /\ Return(s)
    /\ UNCHANGED <<session, access, claimed, budget>>

\* Mutant: a session of the account that is in the call of another room is no
\* reason to refuse.
duplicate_voice_session_SameRoom(s) ==
    job[s].on /\ \E t \in Siblings(s) : voice[t] /\ call_room[t] = job[s].room

duplicate_voice_session(s) == job[s].on /\ \E t \in Siblings(s) : voice[t]

\* The write section of update_call_media_state, which refuses where the other
\* one puts out.
update_call_media_state(s) ==
    /\ At(s, "media")
    /\ IF Admitted(s) /\ user[s] # None /\ ~duplicate_voice_session(s)
       THEN /\ voice' = [voice EXCEPT ![s] = job[s].on]
            /\ call_room' = [call_room EXCEPT ![s] = RoomOfCall(s)]
            /\ claimed' = claimed \ {s}
       ELSE UNCHANGED <<voice, call_room, claimed>>
    /\ Return(s)
    /\ UNCHANGED <<online, user, visible, rooms, access, budget>>
-----------------------------------------------------------------------------
\* Mutant: going invisible does not end the call.
VoiceAfterStatus_Stays(s, on) == voice[s]

\* Going invisible ends the call.
VoiceAfterStatus(s, on) == on /\ voice[s]

update_client_settings(s) ==
    /\ AtOnce(s)
    /\ \E on \in BOOLEAN :
          /\ visible' = [visible EXCEPT ![s] = on]
          /\ voice' = [voice EXCEPT ![s] = VoiceAfterStatus(s, on)]
          /\ call_room' = [call_room EXCEPT ![s] = IF on THEN @ ELSE None]
          /\ claimed' = IF on THEN claimed ELSE claimed \ {s}
    /\ UNCHANGED <<user, rooms>>

\* identify_player, first or again, with the token of any account: the flag is
\* the client's word, also of an invisible one and of a second session, and the
\* rooms and the call's room stay.
identify_player(s) ==
    /\ AtOnce(s)
    /\ \E u \in Users, on \in BOOLEAN, claim \in BOOLEAN :
          /\ user' = [user EXCEPT ![s] = u]
          /\ visible' = [visible EXCEPT ![s] = on]
          /\ voice' = [voice EXCEPT ![s] = claim]
          /\ claimed' = IF claim THEN claimed \cup {s} ELSE claimed \ {s}
    /\ UNCHANGED <<rooms, call_room>>

\* join_game and leave_game leave the call's flags as they are.
join_game(s) ==
    /\ AtOnce(s)
    /\ user[s] # None
    /\ \E r \in Rooms \ rooms[s] : rooms' = [rooms EXCEPT ![s] = @ \cup {r}]
    /\ UNCHANGED <<user, visible, voice, call_room, claimed>>

leave_game(s) ==
    /\ AtOnce(s)
    /\ \E r \in rooms[s] : rooms' = [rooms EXCEPT ![s] = @ \ {r}]
    /\ UNCHANGED <<user, visible, voice, call_room, claimed>>

\* So does a kick or a ban, which takes all sessions of an account out of the
\* room.
remove_user_from_room(s) ==
    /\ AtOnce(s)
    /\ \E r \in rooms[s], u \in Users \ {user[s]} :
          rooms' = [t \in Sessions |-> IF user[t] = u THEN rooms[t] \ {r} ELSE rooms[t]]
    /\ UNCHANGED <<user, visible, voice, call_room, claimed>>

VoiceWithout(s) == [voice EXCEPT ![s] = FALSE]

\* The session is removed when its socket ends or its account is evicted, also
\* while one of its requests is being served.
disconnect_player(s) ==
    /\ s \in online
    /\ online' = online \ {s}
    /\ user' = [user EXCEPT ![s] = None]
    /\ rooms' = [rooms EXCEPT ![s] = {}]
    /\ voice' = VoiceWithout(s)
    /\ call_room' = [call_room EXCEPT ![s] = None]
    /\ claimed' = claimed \ {s}
    /\ UNCHANGED <<visible, access, job, budget>>

\* Sessions that have connected; those that identified have joined the rooms.
Init ==
    /\ online = Sessions
    /\ user \in [Sessions -> Users \cup {None}]
    /\ visible = [s \in Sessions |-> TRUE]
    /\ rooms = [s \in Sessions |-> IF user[s] = None THEN {} ELSE Rooms]
    /\ voice = [s \in Sessions |-> FALSE]
    /\ call_room = [s \in Sessions |-> None]
    /\ closed = {} /\ overrides = {} /\ joins = [k \in Users \cup Sessions |-> 0]
    /\ job = [s \in Sessions |-> Idle]
    /\ claimed = {} /\ budget = MaxRequests

Next ==
    \E s \in Sessions :
        \/ VoiceRequest(s) \/ rate_limit_hit(s) \/ CheckAccess(s) \/ CheckOverride(s)
        \/ update_voice_chat(s) \/ Announce(s)
        \/ MediaRequest(s) \/ update_call_media_state(s)
        \/ ManageCalls(s) \/ set_calls_enabled(s) \/ set_call_access(s)
        \/ update_client_settings(s) \/ identify_player(s)
        \/ join_game(s) \/ leave_game(s) \/ remove_user_from_room(s)
        \/ disconnect_player(s)

Spec == Init /\ [][Next]_vars
-----------------------------------------------------------------------------
(***************************************************************************)
(* Properties.                                                             *)
(***************************************************************************)
\* Type invariant; nothing is left of a session that is gone.
TypeOK ==
    /\ online \subseteq Sessions
    /\ user \in [Sessions -> Users \cup {None}]
    /\ visible \in [Sessions -> BOOLEAN]
    /\ rooms \in [Sessions -> SUBSET Rooms]
    /\ voice \in [Sessions -> BOOLEAN]
    /\ call_room \in [Sessions -> Rooms \cup {None}]
    /\ closed \subseteq Rooms /\ overrides \subseteq Rooms
    /\ joins \in [Users \cup Sessions -> 0..JoinLimit]
    /\ job \in [Sessions -> Jobs]
    /\ claimed \subseteq Sessions /\ budget \in 0..MaxRequests
    /\ \A s \in Sessions \ online : user[s] = None /\ rooms[s] = {} /\ ~voice[s]

\* An account is in a call with one session at most, in whatever order its
\* sessions join (update_voice_chat puts the others out), change media
\* (update_call_media_state refuses), change their account, become invisible and
\* go; so a signal that names an account can mean one session only
\* (relay_call_signal).  The exception: identify_player takes isVoiceChat from
\* the client and checks it against nothing, so a session that claimed to be in
\* a call when it identified is a second one, until a join of either is granted.
OneCallPerAccount ==
    \A s, t \in Sessions :
        voice[s] /\ voice[t] /\ user[s] = user[t] /\ user[s] # None
          => s = t \/ s \in claimed \/ t \in claimed

\* An invisible user is in no call and gets no signals, whichever of the
\* requests to join and to become invisible is served last; except, again, by
\* its own word in identify_player, which takes the status invisible and
\* isVoiceChat together, and for as long as it has not joined since.
CallsAreVisible ==
    /\ \A s \in online : voice[s] => visible[s] \/ s \in claimed
    /\ \A s \in online, u \in Users, r \in Rooms :
          \A t \in SignalTargets(s, u, r) :
              (visible[s] \/ s \in claimed) /\ (visible[t] \/ t \in claimed)

\* A join by op 98 counts against the limit of its account, whichever tab makes
\* it: the only session that it brings into a call uncounted is one that was in
\* a call when its request began and was put out by another session meanwhile
\* (update_voice_chat: "opening more tabs must not buy more joins").  Op 110
\* joins too, and is neither limited nor under the room's rules.
JoinsAreLimited ==
    [][ \A s \in Sessions :
          At(s, "voice") /\ ~voice[s] /\ voice'[s] => ~job[s].free \/ job[s].out ]_vars

\* An op 98 that names a room brings a session into the call of a room, from no
\* call or from another room's, only if that room is the one it named and its
\* calls were open to the account at some moment while the request was served,
\* or the record could not be read: closing, overriding and the departure of
\* staff cross the checks in any order (set_calls_enabled, set_call_access,
\* update_voice_chat).  Nothing is said of an op 98 without gameId: it is
\* checked against no room, and PlayerSession::is_call_in_room then counts the
\* session as in the call of each of its rooms, the closed ones included.
AccessHeld ==
    [][ \A s \in Sessions, r \in Rooms :
          At(s, "voice") /\ job[s].room # None /\ ~is_call_in_room(s, r) /\ is_call_in_room(s, r)'
            => r = job[s].room /\ job[s].right ]_vars

\* "Notify everyone that the evicted stale sessions left voice, using their
\* own client id so the voice-member map stays accurate" (update_voice_chat):
\* a request that puts another session, one that has joined a call, out of it
\* goes on to announce it.
EvictionAnnounced ==
    [][ \A s, t \in Sessions :
          s # t /\ At(t, "voice") /\ job'[t].stage # "voice" /\ voice[s] /\ ~voice'[s] /\ s \notin claimed
            => s \in job'[t].news ]_vars
=============================================================================

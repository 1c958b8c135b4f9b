---------------------------- MODULE RoomHistory ----------------------------
(***************************************************************************)
(* The in-memory message history of one room (AppState.room_messages), the *)
(* poll tallies beside it and the handlers of rust/src/websocket/          *)
(* protocol.rs that change them: sending, editing, deleting, reacting,     *)
(* voting, link previews fetched by background tasks, leaving with "delete *)
(* my messages", and the deletion of the room.                             *)
(*                                                                         *)
(* A handler releases every lock between its checks and its effect, so the *)
(* checks are steps of their own and may be stale when the effect comes.   *)
(* A session runs one handler at a time; background tasks run at any time. *)
(*                                                                         *)
(* Message bodies are abstracted to the first URL they hold (None: no      *)
(* URL) and to whether they are encrypted.  What the room's record says of *)
(* a user (banned, timed out, chat locked) is the one bit can_speak        *)
(* computes; RoomModeration has the handlers that change it.               *)
(***************************************************************************)
EXTENDS Naturals, Sequences, FiniteSets

CONSTANTS
    Users,          \* account ids
    Names,          \* usernames
    None,           \* Option::None
    Sessions,       \* identified WebSocket sessions
    UserOf,         \* PlayerSession.user_id
    FirstName,      \* the username each account registered with
    Role,           \* role_in_room of each user
    ServerAdmins,   \* accounts with PlayerSession.is_admin
    ModsMayDelete,  \* mod_permissions.can_delete of the room
    Urls,           \* URLs a text can hold
    Choices,        \* options of a poll
    MaxMessages,    \* MAX_ROOM_MESSAGES
    Requests,       \* the operations clients issue
    MaxRequests,    \* bound: requests served in one behaviour
    DbFaults,       \* whether reads of the room's record may fail
    MaxClock        \* bound: the last millisecond of a behaviour

Operations == {"send", "edit", "delete", "react", "vote", "preview",
               "leave", "join", "rename", "silence", "delete_room"}

ASSUME HistoryAssumption ==
    /\ None \notin Users \cup Names \cup Urls
    /\ UserOf \in [Sessions -> Users]
    /\ FirstName \in [Users -> Names]
    /\ \A u, v \in Users : FirstName[u] = FirstName[v] => u = v
    /\ Role \in [Users -> {"Member", "Moderator", "SubAdministrator", "Administrator"}]
    /\ ServerAdmins \subseteq Users
    /\ ModsMayDelete \in BOOLEAN /\ DbFaults \in BOOLEAN
    /\ MaxMessages \in Nat \ {0}
    /\ Requests \subseteq Operations
    /\ MaxRequests \in Nat /\ MaxClock \in Nat

VARIABLES
    kind,       \* the room's record: "community", "classic" or "none"
    silenced,   \* users for whom can_speak is false on that record
    inRoom,     \* sessions whose PlayerSession.rooms holds the room
    account,    \* username column of each account
    name,       \* PlayerSession.username of the account's sessions
    history,    \* room_messages of the room (<<>> also stands for no entry)
    arrivals,   \* messages stored so far: the source of message ids
    tallies,    \* poll_tallies: message id -> [voters, counts]
    tasks,      \* link preview tasks in flight
    job,        \* the handler each session is running
    now,        \* now_ms()
    budget,     \* requests still to be served
    ballots,    \* history: the votes that were acknowledged, in order
    stamps      \* history: the edits that were applied and their edited_at

vars == <<kind, silenced, inRoom, account, name, history, arrivals, tallies,
          tasks, job, now, budget, ballots, stamps>>

\* ChatMessageRecord.  edited = 0 stands for edited_at = None; "version"
\* counts the texts the message has had and is not in the code.
Body == [url: Urls \cup {None}, sealed: {FALSE}] \cup [url: {None}, sealed: {TRUE}]
Blank == [url |-> None, sealed |-> FALSE]
IdleJob == [op |-> "none", stage |-> "idle", id |-> 0, body |-> Blank,
            at |-> 0, name |-> None, muted |-> FALSE, choices |-> {}]

-----------------------------------------------------------------------------
Position(id) == {i \in DOMAIN history : history[i].id = id}
Stored(id) == Position(id) # {}
Msg(id) == history[CHOOSE i \in Position(id) : TRUE]

\* The history with message id replaced.
With(id, m) == [i \in DOMAIN history |-> IF history[i].id = id THEN m ELSE history[i]]

\* Mutant: authorship decided on the display name.
is_message_author_ByName(m, u, n) == m.name = n

\* Usernames can be taken over: authorship is decided on the account id.
\* Every message of this module carries one.
is_message_author(m, u, n) == m.author = u

\* The roles that may delete somebody else's message.
MayDelete(u, author) ==
    \/ Role[u] = "Administrator"
    \/ Role[u] = "SubAdministrator" /\ Role[author] \in {"Member", "Moderator"}
    \/ Role[u] = "Moderator" /\ ModsMayDelete /\ Role[author] = "Member"

can_delete(m, u, n) ==
    \/ is_message_author(m, u, n)
    \/ kind = "community" /\ MayDelete(u, m.author)
    \/ kind # "community" /\ u \in ServerAdmins

can_speak(u) == kind = "community" => u \notin silenced

\* A deleted message: everything but id, author and name is cleared.
Tombstone(m) == [m EXCEPT !.body = Blank, !.preview = None, !.reactions = {},
                          !.edited = 0, !.deleted = TRUE]

\* delete_user_messages_in_room_and_broadcast leaves edited_at as it is.
Erased(m) == [m EXCEPT !.body = Blank, !.preview = None, !.reactions = {}, !.deleted = TRUE]

Return(s) == job' = [job EXCEPT ![s] = IdleJob]
Continue(s, stage) == job' = [job EXCEPT ![s].stage = stage]
At(s, op, stage) == job[s].op = op /\ job[s].stage = stage

\* Session s takes up a request; j holds what its first step computes.
Begin(s, op, j) ==
    /\ op \in Requests
    /\ budget > 0
    /\ job[s].stage = "idle"
    /\ budget' = budget - 1
    /\ job' = [job EXCEPT ![s] = [j EXCEPT !.op = op, !.muted = ~can_speak(UserOf[s]),
                                           !.name = name[UserOf[s]]]]
-----------------------------------------------------------------------------
\* send_chat_message: the membership check, under the players lock.
SendCheck(s) ==
    /\ s \in inRoom
    /\ \E body \in Body :
          Begin(s, "send", [IdleJob EXCEPT !.stage = "speak", !.body = body])
    /\ UNCHANGED <<kind, silenced, inRoom, account, name, history, arrivals, tallies,
                   tasks, now, ballots, stamps>>

\* Mutant: the answer of can_speak is not used.
SpeakCheck_Unused(s) ==
    /\ job[s].stage = "speak"
    /\ Continue(s, "store")
    /\ UNCHANGED <<kind, silenced, inRoom, account, name, history, arrivals, tallies,
                   tasks, now, budget, ballots, stamps>>

\* The record is read and can_speak evaluated, for a message or a reaction.  A
\* read that fails counts as "no record" and the handler goes on.
SpeakCheck(s) ==
    /\ job[s].stage = "speak"
    /\ \/ can_speak(UserOf[s]) /\ Continue(s, "store")
       \/ ~can_speak(UserOf[s]) /\ Return(s)
       \/ DbFaults /\ job' = [job EXCEPT ![s] = [@ EXCEPT !.stage = "store", !.muted = FALSE]]
    /\ UNCHANGED <<kind, silenced, inRoom, account, name, history, arrivals, tallies,
                   tasks, now, budget, ballots, stamps>>

\* Mutant: one message too many is kept.
Drain_OffByOne(h) == IF Len(h) > MaxMessages + 1 THEN Tail(h) ELSE h

\* The oldest messages beyond the limit are dropped.
Drain(h) ==
    IF Len(h) > MaxMessages THEN SubSeq(h, Len(h) - MaxMessages + 1, Len(h)) ELSE h

\* The preview task of a message whose text holds a URL.
PreviewTask(op, id, body, edited, version) ==
    IF body.url # None /\ ~body.sealed
    THEN {[op |-> op, id |-> id, url |-> body.url, edited |-> edited, version |-> version]}
    ELSE {}

store_room_message(s) ==
    /\ At(s, "send", "store")
    /\ LET m == [id |-> arrivals + 1, author |-> UserOf[s], name |-> job[s].name,
                 body |-> job[s].body, edited |-> 0, version |-> 0, preview |-> None,
                 reactions |-> {}, deleted |-> FALSE]
       IN  /\ history' = Drain(Append(history, m))
           /\ tasks' = tasks \cup PreviewTask("send", m.id, m.body, 0, 0)
    /\ arrivals' = arrivals + 1
    /\ Return(s)
    /\ UNCHANGED <<kind, silenced, inRoom, account, name, tallies, now, budget,
                   ballots, stamps>>

\* edit_message: the membership check and edited_at = now_ms().
EditCheck(s) ==
    /\ s \in inRoom
    /\ \E id \in 1..arrivals, body \in Body :
          Begin(s, "edit", [IdleJob EXCEPT !.stage = "edit", !.id = id, !.body = body,
                                           !.at = now])
    /\ UNCHANGED <<kind, silenced, inRoom, account, name, history, arrivals, tallies,
                   tasks, now, ballots, stamps>>

\* The new text; the preview of the old one goes.
Edited(m, body, at) ==
    [m EXCEPT !.body = body, !.preview = None, !.edited = at, !.version = @ + 1]

edit_message(s) ==
    /\ At(s, "edit", "edit")
    /\ LET id == job[s].id
           m == Msg(id)
       IN  IF Stored(id) /\ ~m.deleted /\ is_message_author(m, UserOf[s], job[s].name)
           THEN /\ history' = With(id, Edited(m, job[s].body, job[s].at))
                /\ tasks' = tasks \cup
                            PreviewTask("edit", id, job[s].body, job[s].at, m.version + 1)
                /\ stamps' = stamps \cup {[id |-> id, at |-> job[s].at,
                                           version |-> m.version + 1]}
           ELSE UNCHANGED <<history, tasks, stamps>>
    /\ Return(s)
    /\ UNCHANGED <<kind, silenced, inRoom, account, name, arrivals, tallies, now,
                   budget, ballots>>

\* delete_message decides and clears under the history's write lock; being in
\* the room is not asked for.
delete_message(s) ==
    /\ \E id \in 1..arrivals :
          /\ Begin(s, "delete", IdleJob)
          /\ IF Stored(id) /\ ~Msg(id).deleted
                   /\ can_delete(Msg(id), UserOf[s], name[UserOf[s]])
             THEN history' = With(id, Tombstone(Msg(id)))
             ELSE UNCHANGED history
    /\ UNCHANGED <<kind, silenced, inRoom, account, name, arrivals, tallies, tasks,
                   now, ballots, stamps>>
-----------------------------------------------------------------------------
\* toggle_message_reaction: identity and rooms are copied, then the message is
\* looked for, then can_speak, then the reaction is toggled.
ReactCheck(s) ==
    /\ s \in inRoom
    /\ \E id \in 1..arrivals :
          Begin(s, "react", [IdleJob EXCEPT !.stage = "find", !.id = id])
    /\ UNCHANGED <<kind, silenced, inRoom, account, name, history, arrivals, tallies,
                   tasks, now, ballots, stamps>>

ReactFind(s) ==
    /\ At(s, "react", "find")
    /\ IF Stored(job[s].id) THEN Continue(s, "speak") ELSE Return(s)
    /\ UNCHANGED <<kind, silenced, inRoom, account, name, history, arrivals, tallies,
                   tasks, now, budget, ballots, stamps>>

\* A second toggle by the same name takes the reaction back.  There is one
\* emoji; a reaction nobody holds is removed.
toggle_reaction_in_message(m, n) ==
    [m EXCEPT !.reactions = IF n \in @ THEN @ \ {n} ELSE @ \cup {n}]

update_message_reactions(s) ==
    /\ At(s, "react", "store")
    /\ LET id == job[s].id
       IN  IF Stored(id)
           THEN history' = With(id, toggle_reaction_in_message(Msg(id), job[s].name))
           ELSE UNCHANGED history
    /\ Return(s)
    /\ UNCHANGED <<kind, silenced, inRoom, account, name, arrivals, tallies, tasks,
                   now, budget, ballots, stamps>>

\* vote_poll: rooms are copied, the message is looked for, the vote is counted
\* under the tallies' lock.
VoteCheck(s) ==
    /\ s \in inRoom
    /\ \E id \in 1..arrivals, c \in SUBSET Choices \ {{}} :
          Begin(s, "vote", [IdleJob EXCEPT !.stage = "find", !.id = id, !.choices = c])
    /\ UNCHANGED <<kind, silenced, inRoom, account, name, history, arrivals, tallies,
                   tasks, now, ballots, stamps>>

VoteFind(s) ==
    /\ At(s, "vote", "find")
    /\ IF Stored(job[s].id) /\ ~Msg(job[s].id).deleted
       THEN Continue(s, "count") ELSE Return(s)
    /\ UNCHANGED <<kind, silenced, inRoom, account, name, history, arrivals, tallies,
                   tasks, now, budget, ballots, stamps>>

NoTally == [voters |-> {}, counts |-> [c \in Choices |-> 0]]

\* Mutant: who has voted is not looked up under the lock that counts the vote.
AlreadyVoted_Unlocked(tally, u) == FALSE

\* The voter's salted hash identifies the account within the poll.
AlreadyVoted(tally, u) == u \in tally.voters

Counted(tally, u, choices) ==
    [voters |-> tally.voters \cup {u},
     counts |-> [c \in Choices |-> IF c \in choices THEN tally.counts[c] + 1
                                                    ELSE tally.counts[c]]]

vote_poll(s) ==
    /\ At(s, "vote", "count")
    /\ LET id == job[s].id
           tally == IF id \in DOMAIN tallies THEN tallies[id] ELSE NoTally
       IN  IF AlreadyVoted(tally, UserOf[s])
           THEN UNCHANGED <<tallies, ballots>>
           ELSE /\ tallies' = [i \in DOMAIN tallies \cup {id} |->
                                 IF i = id THEN Counted(tally, UserOf[s], job[s].choices)
                                           ELSE tallies[i]]
                /\ ballots' = Append(ballots, [id |-> id, choices |-> job[s].choices])
    /\ Return(s)
    /\ UNCHANGED <<kind, silenced, inRoom, account, name, history, arrivals, tasks,
                   now, budget, stamps>>
-----------------------------------------------------------------------------
\* request_link_preview, for an encrypted message: any member may ask, with
\* the URL it has decrypted.
PreviewCheck(s) ==
    /\ s \in inRoom
    /\ \E id \in 1..arrivals, u \in Urls :
          Begin(s, "preview", [IdleJob EXCEPT !.stage = "find", !.id = id,
                                              !.body = [url |-> u, sealed |-> FALSE]])
    /\ UNCHANGED <<kind, silenced, inRoom, account, name, history, arrivals, tallies,
                   tasks, now, ballots, stamps>>

request_link_preview(s) ==
    /\ At(s, "preview", "find")
    /\ LET id == job[s].id
       IN  IF Stored(id) /\ ~Msg(id).deleted /\ Msg(id).body.sealed /\ Msg(id).preview = None
           THEN tasks' = tasks \cup PreviewTask("request", id, job[s].body, Msg(id).edited,
                                                Msg(id).version)
           ELSE UNCHANGED tasks
    /\ Return(s)
    /\ UNCHANGED <<kind, silenced, inRoom, account, name, history, arrivals, tallies,
                   now, budget, ballots, stamps>>

\* Mutant: a finished fetch ignores that the message was edited meanwhile.
StillWanted_AnyVersion(t, m) == ~m.deleted /\ m.preview = None

\* Mutant: a finished fetch ignores that the message was deleted meanwhile.
StillWanted_Deleted(t, m) == m.preview = None /\ m.edited = t.edited

\* What the three kinds of task check when the fetch is over.
StillWanted(t, m) ==
    /\ ~m.deleted
    /\ m.edited = t.edited
    /\ t.op \in {"edit", "request"} => m.preview = None
    /\ t.op = "request" => m.body.sealed

\* The fetch ends: without a result, or the preview is stored in the message
\* if it is still there and unchanged.
FetchPreview ==
    \E t \in tasks :
        /\ tasks' = tasks \ {t}
        /\ \/ /\ Stored(t.id) /\ StillWanted(t, Msg(t.id))
              /\ history' = With(t.id, [Msg(t.id) EXCEPT
                                   !.preview = [url |-> t.url, version |-> t.version]])
           \/ UNCHANGED history
        /\ UNCHANGED <<kind, silenced, inRoom, account, name, arrivals, tallies, job,
                       now, budget, ballots, stamps>>
-----------------------------------------------------------------------------
\* leave_game and disconnect_player: the session leaves the room; with
\* delete_messages_on_leave its messages are erased in a later step.
leave_game(s) ==
    /\ s \in inRoom
    /\ inRoom' = inRoom \ {s}
    /\ \E stage \in {"idle", "erase"} : Begin(s, "leave", [IdleJob EXCEPT !.stage = stage])
    /\ UNCHANGED <<kind, silenced, account, name, history, arrivals, tallies, tasks,
                   now, ballots, stamps>>

delete_user_messages_in_room(s) ==
    /\ At(s, "leave", "erase")
    /\ history' = [i \in DOMAIN history |->
                     IF ~history[i].deleted /\ history[i].name = job[s].name
                     THEN Erased(history[i]) ELSE history[i]]
    /\ Return(s)
    /\ UNCHANGED <<kind, silenced, inRoom, account, name, arrivals, tallies, tasks,
                   now, budget, ballots, stamps>>

\* join_game, as far as it matters here: a missing record becomes a classic
\* one.  RoomModeration has its ban check.
join_game(s) ==
    /\ s \notin inRoom
    /\ Begin(s, "join", IdleJob)
    /\ inRoom' = inRoom \cup {s}
    /\ kind' = IF kind = "none" THEN "classic" ELSE kind
    /\ UNCHANGED <<silenced, account, name, history, arrivals, tallies, tasks, now,
                   ballots, stamps>>

\* change_username: the account takes a free name, then its sessions do.
\* One rename of an account is in flight at a time.
change_username(u) ==
    /\ "rename" \in Requests /\ budget > 0
    /\ name[u] = account[u]
    /\ \E n \in Names : /\ \A v \in Users : account[v] # n
                        /\ account' = [account EXCEPT ![u] = n]
    /\ budget' = budget - 1
    /\ UNCHANGED <<kind, silenced, inRoom, name, history, arrivals, tallies, tasks,
                   job, now, ballots, stamps>>

RenameSessions(u) ==
    /\ name[u] # account[u]
    /\ name' = [name EXCEPT ![u] = account[u]]
    /\ UNCHANGED <<kind, silenced, inRoom, account, history, arrivals, tallies, tasks,
                   job, now, budget, ballots, stamps>>

\* The record's ban, timeout or lock of u is stored or lifted.
Sanction(u) ==
    /\ "silence" \in Requests /\ budget > 0
    /\ kind = "community"
    /\ budget' = budget - 1
    /\ \/ u \notin silenced /\ silenced' = silenced \cup {u} /\ UNCHANGED job
       \/ /\ u \in silenced
          /\ silenced' = silenced \ {u}
          /\ job' = [s \in Sessions |-> IF UserOf[s] = u THEN [job[s] EXCEPT !.muted = FALSE]
                                                         ELSE job[s]]
    /\ UNCHANGED <<kind, inRoom, account, name, history, arrivals, tallies, tasks, now,
                   ballots, stamps>>

\* delete_room_op: the record goes first, then, under both locks, the history
\* and every session's membership.
delete_room(s) ==
    /\ s \in inRoom
    /\ kind = "community"
    /\ Role[UserOf[s]] = "Administrator" \/ UserOf[s] \in ServerAdmins
    /\ "delete_room" \in Requests /\ budget > 0 /\ job[s].stage = "idle"
    /\ budget' = budget - 1
    /\ job' = [x \in Sessions |->
                 IF x = s THEN [IdleJob EXCEPT !.op = "delete_room", !.stage = "evict"]
                          ELSE [job[x] EXCEPT !.muted = FALSE]]
    /\ kind' = "none"
    /\ silenced' = {}
    /\ UNCHANGED <<inRoom, account, name, history, arrivals, tallies, tasks, now,
                   ballots, stamps>>

EvictAll(s) ==
    /\ At(s, "delete_room", "evict")
    /\ history' = <<>>
    /\ inRoom' = {}
    /\ Return(s)
    /\ UNCHANGED <<kind, silenced, account, name, arrivals, tallies, tasks, now,
                   budget, ballots, stamps>>

Tick ==
    /\ now < MaxClock
    /\ now' = now + 1
    /\ UNCHANGED <<kind, silenced, inRoom, account, name, history, arrivals, tallies,
                   tasks, job, budget, ballots, stamps>>
-----------------------------------------------------------------------------
Init ==
    /\ kind = "community"
    /\ silenced = {}
    /\ inRoom = Sessions
    /\ account = FirstName /\ name = FirstName
    /\ history = <<>>
    /\ arrivals = 0
    /\ tallies = <<>>
    /\ tasks = {}
    /\ job = [s \in Sessions |-> IdleJob]
    /\ now = 1
    /\ budget = MaxRequests
    /\ ballots = <<>>
    /\ stamps = {}

Messages(s) ==
    \/ SendCheck(s) \/ SpeakCheck(s) \/ store_room_message(s)
    \/ EditCheck(s) \/ edit_message(s) \/ delete_message(s)
    \/ ReactCheck(s) \/ ReactFind(s) \/ update_message_reactions(s)
    \/ VoteCheck(s) \/ VoteFind(s) \/ vote_poll(s)
    \/ PreviewCheck(s) \/ request_link_preview(s)

Membership(s) ==
    \/ leave_game(s) \/ delete_user_messages_in_room(s) \/ join_game(s)
    \/ delete_room(s) \/ EvictAll(s)

Next ==
    \/ \E s \in Sessions : Messages(s) \/ Membership(s)
    \/ \E u \in Users : change_username(u) \/ RenameSessions(u) \/ Sanction(u)
    \/ FetchPreview
    \/ Tick

Spec == Init /\ [][Next]_vars
-----------------------------------------------------------------------------
(***************************************************************************)
(* Properties.                                                             *)
(***************************************************************************)
\* Type invariant.
TypeOK ==
    /\ kind \in {"none", "classic", "community"}
    /\ silenced \subseteq Users /\ inRoom \subseteq Sessions
    /\ account \in [Users -> Names] /\ name \in [Users -> Names]
    /\ \A i \in DOMAIN history :
          /\ history[i].id \in 1..arrivals
          /\ history[i].body \in Body
          /\ history[i].edited \in 0..now
          /\ history[i].reactions \subseteq Names
    /\ DOMAIN tallies \subseteq 1..arrivals
    /\ \A t \in tasks : t.id \in 1..arrivals /\ t.url \in Urls

\* The history is the latest messages, in the order they were stored and
\* without a gap, however many sessions store at once (store_room_message
\* appends and drains under one lock).
HistoryIsLatest ==
    /\ Len(history) <= MaxMessages
    /\ \A i \in DOMAIN history : history[i].id = arrivals - Len(history) + i

\* A stored link preview belongs to the text the message has now: a fetch
\* that outlives an edit is discarded, unless two edits fell in one
\* millisecond, which edited_at cannot tell apart.
PreviewIsCurrent ==
    \A i \in DOMAIN history :
        history[i].preview # None =>
            \/ history[i].preview.version = history[i].version
            \/ \E e, f \in stamps : e.id = history[i].id /\ f.id = e.id
                                    /\ e.at = f.at /\ e.version # f.version

\* Deleting is final: as long as the message is in the history it stays
\* deleted, and no late edit and no late preview gives it content again.
DeletedStaysBlank ==
    [][ \A i \in DOMAIN history, j \in DOMAIN history' :
          history[i].deleted /\ history'[j].id = history[i].id
            => history'[j].deleted /\ history'[j].body = Blank /\ history'[j].preview = None ]_vars

\* Only the account that wrote a message gives it another text, whatever
\* names were released and taken since (is_message_author).
OnlyAuthorEdits ==
    [][ \A i \in DOMAIN history, j \in DOMAIN history' :
          history'[j].id = history[i].id /\ history'[j].version # history[i].version
            => \E s \in Sessions : At(s, "edit", "edit") /\ UserOf[s] = history[i].author ]_vars

\* A user silenced before its request began, and not released since, has no
\* message and no reaction stored by that request, as long as the record can
\* be read (can_speak in send_chat_message and toggle_message_reaction).
SilencedStaySilent ==
    \A s \in Sessions : job[s].stage = "store" => ~job[s].muted

\* Every account's vote is counted once, even from two sessions at a time:
\* the counts are those of the acknowledged ballots, one per voter (vote_poll).
OneVotePerAccount ==
    \A id \in DOMAIN tallies :
        LET cast == {i \in DOMAIN ballots : ballots[i].id = id}
        IN  /\ Cardinality(cast) = Cardinality(tallies[id].voters)
            /\ \A c \in Choices :
                  tallies[id].counts[c] = Cardinality({i \in cast : c \in ballots[i].choices})

\* protocol.rs, is_message_author: "Usernames can be released and claimed by
\* someone else, so authorship is decided on the stable account id": leaving
\* with "delete my messages" deletes the leaver's messages only.
OnlyOwnMessagesErased ==
    [][ \A s \in Sessions :
          At(s, "leave", "erase") /\ job'[s].stage = "idle" =>
            \A i \in DOMAIN history :
               history[i].author # UserOf[s] => history'[i].deleted = history[i].deleted ]_vars

=============================================================================

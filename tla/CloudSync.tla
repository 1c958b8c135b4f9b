----------------------------- MODULE CloudSync -----------------------------
(***************************************************************************)
(* The relay between the devices of one account (QxCloudSync): frames of   *)
(* op 60, the directory of op 62 and the presence events of op 63.         *)
(*                                                                         *)
(* A handler changes or reads the table of players under its lock, lets    *)
(* the lock go and then sends to one recipient after the other; handlers   *)
(* of other sessions run between any two of these steps.  A socket that    *)
(* ends is served by the same task, one that is evicted by another.        *)
(*                                                                         *)
(* The devices are external: "known" is what a device that follows the     *)
(* client contract of explain/09-qxcloudsync.md has learnt.  Platforms are *)
(* left out but for the event that one has changed; payloads are opaque.   *)
(***************************************************************************)
EXTENDS Naturals, Sequences, FiniteSets

CONSTANTS
    Users,          \* accounts
    Clients,        \* client ids
    Sessions,       \* connections; each is used once
    MaxSessions,    \* MAX_CONCURRENT_SESSIONS
    QueueCap,       \* length of a session's outgoing queue: 512
    Scenarios,      \* bound: which messages meet, how many of them and of ended sessions
    None            \* no account, no client id

ASSUME SyncAssumption ==
    /\ IsFiniteSet(Sessions) /\ MaxSessions \in Nat \ {0} /\ QueueCap \in Nat \ {0}
    /\ None \notin Users \cup Clients \cup Sessions

VARIABLES
    player,     \* players: session -> state, account and client id
    queue,      \* session -> messages its writer has not sent
    task,       \* what a handler, or the end of a session, still has to send
    known,      \* device -> siblings it has learnt and can address
    fetched,    \* devices that know a directory and no stale route since
    sent,       \* number of messages the devices have sent
    used,       \* bound: the kinds of those messages
    due,        \* history: frames routed to a session that it has not received
    lost,       \* history: sessions that missed a message because of a full queue
    moved,      \* history: sessions that changed their account
    misled      \* history: <<device, id>> told "leave" while a sibling had that id

vars == <<player, queue, task, known, fetched, sent, used, due, lost, moved, misled>>
history == <<due, lost, moved, misled>>

Message == [kind: {"join", "update", "leave", "data", "directory", "ack"},
            client: Clients \cup {None}, peers: SUBSET Clients,
            from: Sessions \cup {None}, n: Nat]
NoMessage == [kind |-> "ack", client |-> None, peers |-> {}, from |-> None, n |-> 0]

Idle == [stage |-> "idle", msg |-> NoMessage, user |-> None, except |-> None,
         to |-> {}, ack |-> None]

In(s) == player[s].state = "in"
Open(s) == player[s].state \in {"open", "in"}
Siblings(u) == {t \in Sessions : In(t) /\ player[t].user = u}

\* A session's messages are handled one after the other.
Ready(s) == task[<<s, "handler">>] = Idle

WithinScenario(n, kinds, ended) ==
    \E sc \in Scenarios : n <= sc.sent /\ kinds \subseteq sc.kinds /\ Cardinality(ended) <= sc.ended

Closed == {s \in Sessions : player[s].state = "closed"}

Takes(s, kind) ==
    /\ Open(s) /\ Ready(s)
    /\ WithinScenario(sent + 1, used \cup {kind}, Closed)
    /\ sent' = sent + 1 /\ used' = used \cup {kind}

\* broadcast_sync_peer_event and broadcast_sync_peer_leave, before the recipients are collected.
Event(event, u, c, except) ==
    IF u = None \/ c = None THEN Idle
    ELSE [Idle EXCEPT !.stage = "collect", !.msg = [NoMessage EXCEPT !.kind = event, !.client = c],
                      !.user = u, !.except = except]

\* A task with nobody left to send to answers its sender, if it has to.
Settled(s, k) ==
    IF k.to # {} THEN k
    ELSE IF k.ack = None THEN Idle
    ELSE [k EXCEPT !.to = {s}, !.msg = k.ack, !.ack = None]

Do(s, k) == task' = [task EXCEPT ![<<s, "handler">>] = k]
-----------------------------------------------------------------------------
\* register_connection.
register_connection(s) ==
    /\ player[s].state = "new"
    /\ Cardinality({t \in Sessions : Open(t)}) < MaxSessions
    /\ player' = [player EXCEPT ![s].state = "open"]
    /\ UNCHANGED <<queue, task, known, fetched, sent, used, history>>

\* Mutant: only a session's first id is announced.
Announces_First(previous, c) == c # None /\ previous = None

\* identify_player and update_client_settings announce a new id only.
Announces(previous, c) == c # None /\ previous # c

\* identify_player, when the account is authenticated.
identify_player(s) ==
    /\ Takes(s, "identify")
    /\ \E u \in Users, c \in Clients \cup {None} :
          /\ player' = [player EXCEPT ![s] = [state |-> "in", user |-> u, client |-> c]]
          /\ Do(s, IF Announces(player[s].client, c) THEN Event("join", u, c, s) ELSE Idle)
          /\ moved' = IF In(s) /\ player[s].user # u THEN moved \cup {s} ELSE moved
    /\ UNCHANGED <<queue, known, fetched, due, lost, misled>>

\* update_client_settings, which may also change the platform.
update_client_settings(s) ==
    /\ Takes(s, "settings") /\ In(s)
    /\ \E c \in Clients \cup {None}, platform \in BOOLEAN :
          /\ player' = [player EXCEPT ![s].client = c]
          /\ Do(s, IF Announces(player[s].client, c) THEN Event("join", player[s].user, c, s)
                   ELSE IF platform THEN Event("update", player[s].user, c, s) ELSE Idle)
    /\ UNCHANGED <<queue, known, fetched, history>>

\* relay_cloud_sync_op: to one client id or, with none, to all siblings; the
\* answer tells whether the id was found.
relay_cloud_sync_op(s) ==
    /\ Takes(s, "relay") /\ In(s) /\ player[s].client # None
    /\ \E c \in Clients \cup {None}, asks \in BOOLEAN :
          LET to == {t \in Siblings(player[s].user) \ {s} : c = None \/ player[t].client = c}
              ack == [NoMessage EXCEPT !.client = IF to = {} THEN c ELSE None]
          IN  /\ Do(s, Settled(s, [Idle EXCEPT !.stage = "send", !.to = to,
                         !.msg = [NoMessage EXCEPT !.kind = "data", !.client = c, !.from = s, !.n = sent],
                         !.ack = IF asks THEN ack ELSE None]))
              /\ due' = [t \in Sessions |-> IF t \in to THEN due[t] \cup {<<s, sent>>} ELSE due[t]]
    /\ UNCHANGED <<player, queue, known, fetched, lost, moved, misled>>

Directory(s) == {player[t].client : t \in Siblings(player[s].user) \ {s}} \ {None}

sync_peers_op(s) ==
    /\ Takes(s, "peers") /\ In(s)
    /\ Do(s, [Idle EXCEPT !.stage = "send", !.to = {s},
                !.msg = [NoMessage EXCEPT !.kind = "directory", !.peers = Directory(s)]])
    /\ UNCHANGED <<player, queue, known, fetched, history>>

\* disconnect_player, by the session's own task or by one that evicts it; what
\* concerned the session is forgotten.
disconnect_player(s) ==
    /\ Open(s) /\ WithinScenario(sent, used, Closed \cup {s})
    /\ player' = [player EXCEPT ![s] = [state |-> "closed", user |-> None, client |-> None]]
    /\ task' = [task EXCEPT ![<<s, "closing">>] = Event("leave", player[s].user, player[s].client, None)]
    /\ queue' = [queue EXCEPT ![s] = <<>>]
    /\ known' = [known EXCEPT ![s] = {}] /\ fetched' = fetched \ {s}
    /\ due' = [due EXCEPT ![s] = {}] /\ lost' = lost \ {s} /\ moved' = moved \ {s}
    /\ misled' = {m \in misled : m[1] # s}
    /\ UNCHANGED <<sent, used>>

\* The recipients of an event are collected under the lock.
Collect(k) ==
    /\ task[k].stage = "collect"
    /\ task' = [task EXCEPT ![k] = Settled(k[1], [@ EXCEPT !.stage = "send",
                   !.to = Siblings(task[k].user) \ {task[k].except}])]
    /\ UNCHANGED <<player, queue, known, fetched, sent, used, history>>

\* Mutant: a full queue makes room by dropping its oldest message.
Queued_DropOldest(q, msg) == Append(IF Len(q) < QueueCap THEN q ELSE Tail(q), msg)

\* try_send: a full queue takes nothing, and neither does a closed one.
Queued(q, msg) == IF Len(q) < QueueCap THEN Append(q, msg) ELSE q

SendTo(k, t) ==
    LET msg == task[k].msg
        full == Len(queue[t]) >= QueueCap
        false == msg.kind = "leave" /\ \E p \in Siblings(task[k].user) : player[p].client = msg.client
    IN  /\ task[k].stage = "send" /\ t \in task[k].to
        /\ task' = [task EXCEPT ![k] = Settled(k[1], [task[k] EXCEPT !.to = @ \ {t}])]
        /\ queue' = IF Open(t) THEN [queue EXCEPT ![t] = Queued(@, msg)] ELSE queue
        /\ lost' = IF full THEN lost \cup {t} ELSE lost
        /\ due' = IF full THEN [due EXCEPT ![t] = @ \ {<<msg.from, msg.n>>}] ELSE due
        /\ misled' = IF Open(t) /\ false THEN misled \cup {<<t, msg.client>>} ELSE misled
        /\ UNCHANGED <<player, known, fetched, sent, used, moved>>

\* A device takes the next message: it adds who joined or is listed, drops who
\* left, and after a frame that found nobody drops the route and asks again.
Receive(s) ==
    /\ Open(s) /\ queue[s] # <<>>
    /\ LET msg == Head(queue[s])
       IN  /\ known' = [known EXCEPT ![s] =
                IF msg.kind = "join" THEN @ \cup {msg.client}
                ELSE IF msg.kind = "directory" THEN @ \cup msg.peers
                ELSE IF msg.kind \in {"leave", "ack"} THEN @ \ {msg.client} ELSE @]
           /\ fetched' = IF msg.kind = "directory" THEN fetched \cup {s}
                         ELSE IF msg.kind = "ack" /\ msg.client # None THEN fetched \ {s} ELSE fetched
           /\ due' = IF msg.kind = "data" THEN [due EXCEPT ![s] = @ \ {<<msg.from, msg.n>>}] ELSE due
    /\ queue' = [queue EXCEPT ![s] = Tail(@)]
    /\ UNCHANGED <<player, task, sent, used, lost, moved, misled>>

Init ==
    /\ player = [s \in Sessions |-> [state |-> "new", user |-> None, client |-> None]]
    /\ queue = [s \in Sessions |-> <<>>]
    /\ task = [k \in Sessions \X {"handler", "closing"} |-> Idle]
    /\ known = [s \in Sessions |-> {}] /\ fetched = {}
    /\ sent = 0 /\ used = {}
    /\ due = [s \in Sessions |-> {}] /\ lost = {} /\ moved = {} /\ misled = {}

Next ==
    \/ \E s \in Sessions :
          \/ register_connection(s) \/ identify_player(s) \/ update_client_settings(s)
          \/ relay_cloud_sync_op(s) \/ sync_peers_op(s) \/ disconnect_player(s) \/ Receive(s)
    \/ \E k \in Sessions \X {"handler", "closing"} :
          Collect(k) \/ \E t \in Sessions : SendTo(k, t)

Spec == Init /\ [][Next]_vars
-----------------------------------------------------------------------------
(***************************************************************************)
(* Properties.                                                             *)
(***************************************************************************)
\* Type invariant.
TypeOK ==
    /\ player \in [Sessions -> [state: {"new", "open", "in", "closed"}, user: Users \cup {None},
                                client: Clients \cup {None}]]
    /\ \A s \in Sessions : \A i \in DOMAIN queue[s] : queue[s][i] \in Message
    /\ \A s \in Sessions : Len(queue[s]) <= QueueCap
    /\ known \in [Sessions -> SUBSET Clients]
    /\ fetched \subseteq Sessions /\ lost \subseteq Sessions /\ moved \subseteq Sessions

\* Nothing is under way that a device has yet to hear.
AtRest == (\A k \in DOMAIN task : task[k] = Idle) /\ \A s \in Sessions : Open(s) => queue[s] = <<>>

\* A device that has fetched the directory knows every sibling it can address,
\* although snapshots, joins and leaves are sent after the lock is released and
\* reach it in any order.  Excepted are a queue that overflowed, a session that
\* identified again under another account with its old id, which is not
\* announced, and an id whose former session was reported gone after a new one
\* had it (identify_player, sync_peers_op, disconnect_player).
KnowsMesh ==
    AtRest => \A s, t \in Sessions :
        LET c == player[t].client
            excepted == s \in lost \cup moved \/ t \in moved \/ <<s, c>> \in misled
        IN  In(s) /\ In(t) /\ s # t /\ player[s].user = player[t].user /\ s \in fetched
                /\ c # None /\ ~excepted => c \in known[s]

\* The frames of one session reach another in the order in which they were
\* relayed, each once, and none is passed over but for a full queue, whichever
\* handlers interleave their sends (relay_cloud_sync_op).
FramesInSequence ==
    [][\A s \in Sessions : queue[s] # <<>> /\ queue'[s] = Tail(queue[s]) /\ Head(queue[s]).kind = "data" =>
          LET msg == Head(queue[s])
          IN  /\ <<msg.from, msg.n>> \in due[s]
              /\ \A f \in due[s] : f[1] = msg.from => f[2] >= msg.n]_vars
=============================================================================

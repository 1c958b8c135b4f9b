------------------------ MODULE SyncAndDeployProofs ------------------------
(***************************************************************************)
(* Proofs about two components that share no state.                        *)
(*                                                                         *)
(* CloudSync: what the devices of an account learn of each other, and the  *)
(* order of the frames between them, for any number of devices, accounts   *)
(* and messages, any limit of sessions and any length of the queues.  A    *)
(* device is to learn of a sibling from a message that is under way at     *)
(* every moment: in a task, in its queue, or taken already.                *)
(*                                                                         *)
(* WebDeploy, at the end: what the server serves, for any damage and any   *)
(* number of failures, crashes and revisions.  A server that listens is at *)
(* the end of a chain of stages, so what it serves is shown by saying,     *)
(* stage by stage, what the stages before it have established.             *)
(***************************************************************************)
EXTENDS CloudSync, WebDeploy, TLAPS

\* Messages and tasks as the code makes them: presence always names an id, and
\* only a frame is sent on behalf of a session and asks for an answer.
Carried == {m \in Message : /\ m.kind \in {"join", "update", "leave"} => m.client # None
                            /\ m.kind = "data" => m.from \in Sessions
                            /\ m.kind # "data" => m.from = None}

Keys == Sessions \X {"handler", "closing"}

Task == [stage: {"idle", "collect", "send"}, msg: Carried, user: Users \cup {None},
         except: Sessions \cup {None}, to: SUBSET Sessions, ack: Message \cup {None}]

\* What the handler or the end of session s can have left to do.
Proper(k, j) ==
    /\ j \in Task
    /\ j.stage = "idle" => j = Idle
    /\ j.stage = "collect" => j.to = {} /\ j.ack = None /\ j.msg.kind \in {"join", "update", "leave"}
    /\ j.stage = "send" => j.to # {}
    /\ j.stage = "send" /\ j.msg.kind \in {"directory", "ack"} => j.to = {k[1]} /\ j.ack = None
    /\ j.msg.kind = "data" => j.msg.from = k[1]
    /\ j.ack # None => j.msg.kind = "data" /\ j.ack.kind = "ack" /\ j.ack.client = None /\ j.ack.from = None
    /\ k[2] = "closing" => j = Idle \/ (j.msg.kind = "leave" /\ j.ack = None)

Player == [state: {"new", "open", "in", "closed"}, user: Users \cup {None}, client: Clients \cup {None}]

TypesOK ==
    /\ player \in [Sessions -> Player]
    /\ queue \in [Sessions -> Seq(Carried)]
    /\ \A s \in Sessions : Len(queue[s]) <= QueueCap
    /\ task \in [Keys -> Task]
    /\ known \in [Sessions -> SUBSET Clients]
    /\ fetched \subseteq Sessions /\ lost \subseteq Sessions /\ moved \subseteq Sessions
    /\ sent \in Nat

TasksOK == \A k \in Keys : Proper(k, task[k])

\* Who has not identified, or is gone, has nothing queued and has learnt nothing.
QuietOK == \A s \in Sessions :
    /\ player[s].state # "closed" => task[<<s, "closing">>] = Idle
    /\ In(s) => player[s].user # None
    /\ ~In(s) => player[s].user = None /\ player[s].client = None /\ queue[s] = <<>> /\ s \notin fetched

\* Only who has identified sends or is sent to.
SentToOK == \A k \in Keys :
    /\ task[k] # Idle => player[k[1]].state \in {"in", "closed"}
    /\ \A t \in task[k].to :
          /\ player[t].state \in {"in", "closed"}
          /\ In(t) /\ t \notin moved /\ task[k].msg.kind = "leave" => task[k].user = player[t].user

Base == TypesOK /\ TasksOK /\ QuietOK /\ SentToOK
-----------------------------------------------------------------------------
Adds(m, c) == (m.kind = "join" /\ m.client = c) \/ (m.kind = "directory" /\ c \in m.peers)
Drops(m, c) == m.kind \in {"leave", "ack"} /\ m.client = c
Unroutes(m) == m.kind = "ack" /\ m.client # None

\* A message that adds c is on its way to s, not yet in the queue.
Coming(s, c) == \E k \in Keys :
    \/ /\ task[k].stage = "collect" /\ task[k].msg.kind = "join" /\ task[k].msg.client = c
       /\ task[k].user = player[s].user /\ task[k].except # s
    \/ task[k].stage = "send" /\ Adds(task[k].msg, c) /\ s \in task[k].to

\* One is in the queue and nothing behind it takes c away again.
Lined(q, c) == \E i \in 1..Len(q) : Adds(q[i], c) /\ \A j \in 1..Len(q) : j > i => ~Drops(q[j], c)

Kept(ids, q, c) == c \in ids /\ \A j \in 1..Len(q) : ~Drops(q[j], c)

\* After what is queued the device knows no directory, and none is on its way.
Stale(has, q) ==
    \/ \E i \in 1..Len(q) : Unroutes(q[i]) /\ \A j \in 1..Len(q) : j > i => q[j].kind # "directory"
    \/ ~has /\ \A j \in 1..Len(q) : q[j].kind # "directory"

Unfetched(s) ==
    LET h == task[<<s, "handler">>]
    IN  /\ ~(h.stage = "send" /\ h.msg.kind = "directory")
        /\ (h.stage = "send" /\ Unroutes(h.msg)) \/ Stale(s \in fetched, queue[s])

\* s is to learn that its sibling t has the id c.
Reaches(s, t, c) ==
    /\ In(s) /\ In(t) /\ s # t /\ player[s].user = player[t].user /\ player[t].client = c
    /\ s \notin lost \cup moved /\ t \notin moved /\ <<s, c>> \notin misled

Learns(s, c) ==
    Coming(s, c) \/ Lined(queue[s], c) \/ Kept(known[s], queue[s], c) \/ Unfetched(s)

MeshOK == \A s, t \in Sessions, c \in Clients : Reaches(s, t, c) => Learns(s, c)
-----------------------------------------------------------------------------
\* The n-th message of session f is a frame in the queue, or is being sent to s.
IsFrame(m, f, n) == m.kind = "data" /\ m.from = f /\ m.n = n
InQueue(q, f, n) == \E i \in 1..Len(q) : IsFrame(q[i], f, n)
Sends(f, n, s) ==
    LET h == task[<<f, "handler">>]
    IN  h.stage = "send" /\ IsFrame(h.msg, f, n) /\ s \in h.to

\* The frames of one session are queued in their order.
InOrder(q) == \A i, j \in 1..Len(q) :
    i < j /\ q[i].kind = "data" /\ q[j].kind = "data" /\ q[i].from = q[j].from => q[i].n < q[j].n

\* The frame is due exactly while it is queued or being sent, and the one being
\* sent is the latest of its session.
FrameOK(s, f, n) ==
    /\ <<f, n>> \in due[s] => n < sent /\ (InQueue(queue[s], f, n) \/ Sends(f, n, s))
    /\ InQueue(queue[s], f, n) => <<f, n>> \in due[s]
    /\ Sends(f, n, s) /\ In(s) =>
          <<f, n>> \in due[s] /\ \A o \in Nat : InQueue(queue[s], f, o) => o < n

FramesOK ==
    /\ due \in [Sessions -> SUBSET (Sessions \X Nat)]
    /\ \A s \in Sessions :
          /\ ~In(s) => due[s] = {}
          /\ InOrder(queue[s])
          /\ \A f \in Sessions, n \in Nat : FrameOK(s, f, n)
-----------------------------------------------------------------------------
LEMMA NoneApart ==
    /\ None \notin Users /\ None \notin Clients /\ None \notin Sessions
    /\ QueueCap \in Nat \ {0}
BY SyncAssumption

LEMMA KeysAre ==
    /\ \A s \in Sessions : <<s, "handler">> \in Keys /\ <<s, "closing">> \in Keys
                           /\ <<s, "handler">> # <<s, "closing">>
    /\ \A k \in Keys : k[1] \in Sessions /\ (k = <<k[1], "handler">> \/ k = <<k[1], "closing">>)
    /\ \A s, t \in Sessions : s # t => <<s, "handler">> # <<t, "handler">> /\ <<s, "closing">> # <<t, "closing">>
    /\ \A s, t \in Sessions : <<s, "handler">> # <<t, "closing">>
BY DEF Keys

\* An idle task.
LEMMA IdleIs ==
    /\ NoMessage \in Carried /\ NoMessage.kind = "ack" /\ NoMessage.client = None
    /\ Idle \in Task /\ Idle.stage = "idle" /\ Idle.msg = NoMessage /\ Idle.to = {} /\ Idle.ack = None
    /\ \A k \in Keys : Proper(k, Idle)
<1>1. NoMessage \in Message /\ NoMessage.kind = "ack" /\ NoMessage.client = None /\ NoMessage.from = None
  BY DEF NoMessage, Message
<1>2. NoMessage \in Carried
  BY <1>1 DEF Carried
<1>3. Idle \in Task /\ Idle.stage = "idle" /\ Idle.msg = NoMessage /\ Idle.to = {} /\ Idle.ack = None
  BY <1>2 DEF Idle, Task
<1>. QED  BY <1>1, <1>2, <1>3 DEF Proper

\* A task that announces presence.
LEMMA EventIs ==
    ASSUME NEW event \in {"join", "update", "leave"}, NEW u \in Users \cup {None},
           NEW c \in Clients \cup {None}, NEW x \in Sessions \cup {None}
    PROVE  LET j == Event(event, u, c, x) IN
           /\ j \in Task /\ j.to = {} /\ j.ack = None
           /\ u = None \/ c = None => j = Idle
           /\ u # None /\ c # None =>
                 /\ j.stage = "collect" /\ j.user = u /\ j.except = x
                 /\ j.msg.kind = event /\ j.msg.client = c /\ j.msg.from = None
<1>. DEFINE j == Event(event, u, c, x)
<1>1. CASE u = None \/ c = None
  BY <1>1, IdleIs DEF Event
<1>2. CASE ~(u = None \/ c = None)
  <2>. DEFINE m == [NoMessage EXCEPT !.kind = event, !.client = c]
  <2>1. NoMessage \in Message /\ NoMessage.from = None
    BY DEF NoMessage, Message
  <2>2. m \in Message /\ m.kind = event /\ m.client = c /\ m.from = None
    BY <2>1 DEF Message
  <2>4. m \in Carried
    BY <1>2, <2>2 DEF Carried
  <2>3. j = [stage |-> "collect", msg |-> m, user |-> u, except |-> x, to |-> {}, ack |-> None]
    BY <1>2 DEF Event, Idle
  <2>. HIDE DEF m
  <2>. QED  BY <1>2, <2>2, <2>3, <2>4 DEF Task
<1>. QED  BY <1>1, <1>2

LEMMA EventProper ==
    ASSUME NEW event \in {"join", "update", "leave"}, NEW u \in Users \cup {None},
           NEW c \in Clients \cup {None}, NEW x \in Sessions \cup {None},
           NEW k \in Keys, k[2] = "closing" => event = "leave"
    PROVE  Proper(k, Event(event, u, c, x))
<1>1. CASE u = None \/ c = None
  BY <1>1, EventIs, IdleIs
<1>2. CASE u # None /\ c # None
  BY <1>2, EventIs DEF Proper
<1>. QED  BY <1>1, <1>2

\* A task that has sent to everybody answers its sender or is over.
LEMMA SettledIs ==
    ASSUME NEW k \in Keys, NEW j \in Task, j.stage = "send",
           j.msg.kind \in {"directory", "ack"} /\ j.to # {} => j.to = {k[1]},
           j.msg.kind \in {"directory", "ack"} => j.ack = None,
           j.msg.kind = "data" => j.msg.from = k[1],
           j.ack # None => j.msg.kind = "data" /\ j.ack.kind = "ack" /\ j.ack.from = None /\ (j.to # {} => j.ack.client = None),
           k[2] = "closing" => j.msg.kind = "leave" /\ j.ack = None
    PROVE  LET i == Settled(k[1], j) IN
           /\ Proper(k, i)
           /\ j.to # {} => i = j
           /\ j.to = {} /\ j.ack = None => i = Idle
           /\ j.to = {} /\ j.ack # None =>
                 i.stage = "send" /\ i.msg = j.ack /\ i.to = {k[1]} /\ i.ack = None /\ i.user = j.user
<1>. DEFINE i == Settled(k[1], j)
<1>1. CASE j.to # {}
  BY <1>1 DEF Settled, Proper
<1>2. CASE j.to = {} /\ j.ack = None
  BY <1>2, IdleIs DEF Settled
<1>3. CASE j.to = {} /\ j.ack # None
  <2>1. i = [j EXCEPT !.to = {k[1]}, !.msg = j.ack, !.ack = None]
    BY <1>3 DEF Settled
  <2>2. j.ack \in Carried /\ k[1] \in Sessions
    BY <1>3, KeysAre DEF Task, Carried
  <2>. DEFINE self == {k[1]}
              ack == j.ack
  <2>4. self \in SUBSET Sessions /\ ack \in Carried /\ i = [j EXCEPT !.to = self, !.msg = ack, !.ack = None]
    BY <2>1, <2>2
  <2>. HIDE DEF self, ack, i
  <2>5. i \in Task /\ i.stage = "send" /\ i.msg = ack /\ i.to = self /\ i.ack = None /\ i.user = j.user
    BY <2>4 DEF Task
  <2>3. /\ i \in Task /\ i.stage = "send" /\ i.msg = j.ack /\ i.to = {k[1]} /\ i.ack = None /\ i.user = j.user
    BY <2>5 DEF self, ack
  <2>. USE DEF i
  <2>. QED  BY <1>3, <2>3 DEF Proper
<1>. QED  BY <1>1, <1>2, <1>3

\* One task becomes j.
Put(k, j) ==
    /\ k \in Keys /\ j \in Task /\ Proper(k, j)
    /\ task' \in [Keys -> Task] /\ TasksOK'
    /\ task'[k] = j /\ \A q \in Keys : q # k => task'[q] = task[q]

LEMMA TaskSet ==
    ASSUME TypesOK, TasksOK, NEW k \in Keys, NEW j, Proper(k, j), task' = [task EXCEPT ![k] = j]
    PROVE  Put(k, j)
<1>1. j \in Task
  BY DEF Proper
<1>2. /\ task' \in [Keys -> Task] /\ task'[k] = j /\ \A q \in Keys : q # k => task'[q] = task[q]
  BY <1>1 DEF TypesOK
<1>3. \A q \in Keys : Proper(q, task'[q])
  BY <1>2 DEF TasksOK
<1>4. TasksOK'
  BY <1>3 DEF TasksOK, Proper
<1>. QED  BY <1>1, <1>2, <1>4 DEF Put
-----------------------------------------------------------------------------
\* What each step does to the tasks and the table of players.
LEMMA AnnounceSteps ==
    ASSUME Base, NEW s \in Sessions, identify_player(s) \/ update_client_settings(s)
    PROVE  \E u \in Users, c \in Clients \cup {None}, j \in Task :
              /\ Open(s) /\ task[<<s, "handler">>] = Idle /\ sent' = sent + 1
              /\ player' \in [Sessions -> Player] /\ \A t \in Sessions \ {s} : player'[t] = player[t]
              /\ player'[s].state = "in" /\ player'[s].user = u /\ player'[s].client = c
              /\ Put(<<s, "handler">>, j) /\ j.to = {} /\ j.stage \in {"idle", "collect"}
              /\ j.msg.kind # "data"
              /\ c # None /\ player[s].client # c =>
                    /\ j.stage = "collect" /\ j.user = u /\ j.except = s
                    /\ j.msg.kind = "join" /\ j.msg.client = c
              /\ moved' = IF In(s) /\ player[s].user # u THEN moved \cup {s} ELSE moved
              /\ UNCHANGED <<queue, known, fetched, due, lost, misled>>
<1>1. player \in [Sessions -> Player] /\ player[s] \in Player /\ TypesOK /\ TasksOK
  BY DEF Base, TypesOK
<1>. DEFINE k == <<s, "handler">>
<1>2. k \in Keys /\ k[1] = s /\ k[2] = "handler"
  BY KeysAre
<1>3. ASSUME NEW event \in {"join", "update"}, NEW u \in Users, NEW c \in Clients \cup {None}
      PROVE  LET j == Event(event, u, c, s)
             IN  /\ j \in Task /\ Proper(k, j) /\ j.to = {} /\ j.stage \in {"idle", "collect"}
                 /\ j.msg.kind # "data"
                 /\ c # None => /\ j.stage = "collect" /\ j.user = u /\ j.except = s
                                /\ j.msg.kind = event /\ j.msg.client = c
  BY <1>2, EventIs, EventProper, IdleIs, NoneApart
<1>4. CASE identify_player(s)
  <2>1. PICK u \in Users, c \in Clients \cup {None} :
          /\ player' = [player EXCEPT ![s] = [state |-> "in", user |-> u, client |-> c]]
          /\ Do(s, IF Announces(player[s].client, c) THEN Event("join", u, c, s) ELSE Idle)
          /\ moved' = IF In(s) /\ player[s].user # u THEN moved \cup {s} ELSE moved
    BY <1>4 DEF identify_player
  <2>. DEFINE j == IF Announces(player[s].client, c) THEN Event("join", u, c, s) ELSE Idle
  <2>2. [state |-> "in", user |-> u, client |-> c] \in Player
    BY DEF Player
  <2>3. /\ player' \in [Sessions -> Player] /\ \A t \in Sessions \ {s} : player'[t] = player[t]
        /\ player'[s].state = "in" /\ player'[s].user = u /\ player'[s].client = c
    BY <1>1, <2>1, <2>2
  <2>4. /\ j \in Task /\ Proper(k, j) /\ j.to = {} /\ j.stage \in {"idle", "collect"} /\ j.msg.kind # "data"
        /\ c # None /\ player[s].client # c =>
              /\ j.stage = "collect" /\ j.user = u /\ j.except = s
              /\ j.msg.kind = "join" /\ j.msg.client = c
    BY <1>2, <1>3, IdleIs DEF Announces
  <2>. HIDE DEF j
  <2>5. Put(k, j)
    BY <1>1, <1>2, <2>1, <2>4, TaskSet DEF Do, j
  <2>6. Open(s) /\ task[k] = Idle /\ sent' = sent + 1 /\ UNCHANGED <<queue, known, fetched, due, lost, misled>>
    BY <1>4 DEF identify_player, Takes, Ready
  <2>. QED  BY <2>1, <2>3, <2>4, <2>5, <2>6
<1>5. CASE update_client_settings(s)
  <2>1. PICK c \in Clients \cup {None}, platform \in BOOLEAN :
          /\ player' = [player EXCEPT ![s].client = c]
          /\ Do(s, IF Announces(player[s].client, c) THEN Event("join", player[s].user, c, s)
                   ELSE IF platform THEN Event("update", player[s].user, c, s) ELSE Idle)
    BY <1>5 DEF update_client_settings
  <2>. DEFINE u == player[s].user
              j == IF Announces(player[s].client, c) THEN Event("join", u, c, s)
                   ELSE IF platform THEN Event("update", u, c, s) ELSE Idle
  <2>2. In(s) /\ UNCHANGED <<queue, known, fetched, due, lost, moved, misled>>
    BY <1>5 DEF update_client_settings, history
  <2>3. u \in Users
    BY <1>1, <2>2 DEF Base, QuietOK, Player
  <2>4. /\ player' \in [Sessions -> Player] /\ \A t \in Sessions \ {s} : player'[t] = player[t]
        /\ player'[s].state = "in" /\ player'[s].user = u /\ player'[s].client = c
    BY <1>1, <2>1, <2>2 DEF Player, In
  <2>5. /\ j \in Task /\ Proper(k, j) /\ j.to = {} /\ j.stage \in {"idle", "collect"} /\ j.msg.kind # "data"
        /\ c # None /\ player[s].client # c =>
              /\ j.stage = "collect" /\ j.user = u /\ j.except = s
              /\ j.msg.kind = "join" /\ j.msg.client = c
    BY <1>2, <1>3, <2>3, IdleIs DEF Announces
  <2>6. task' = [task EXCEPT ![k] = j]
    BY <2>1 DEF Do
  <2>. HIDE DEF j
  <2>7. Put(k, j)
    BY <1>1, <1>2, <2>5, <2>6, TaskSet
  <2>8. Open(s) /\ task[k] = Idle /\ sent' = sent + 1
    BY <1>5 DEF update_client_settings, Takes, Ready
  <2>9. moved' = IF In(s) /\ player[s].user # u THEN moved \cup {s} ELSE moved
    BY <2>2
  <2>. QED  BY <2>2, <2>3, <2>4, <2>5, <2>7, <2>8, <2>9
<1>. QED  BY <1>4, <1>5

LEMMA RelaySteps ==
    ASSUME Base, NEW s \in Sessions, relay_cloud_sync_op(s)
    PROVE  \E to \in SUBSET Sessions, j \in Task :
              /\ In(s) /\ task[<<s, "handler">>] = Idle /\ sent' = sent + 1
              /\ \A t \in to : In(t) /\ t # s
              /\ Put(<<s, "handler">>, j)
              /\ to # {} => j.stage = "send" /\ j.msg.kind = "data" /\ j.msg.n = sent /\ j.to = to
              /\ to = {} => \/ j = Idle
                            \/ j.stage = "send" /\ j.msg.kind = "ack" /\ j.to = {s}
              /\ due' = [t \in Sessions |-> IF t \in to THEN due[t] \cup {<<s, sent>>} ELSE due[t]]
              /\ UNCHANGED <<player, queue, known, fetched, lost, moved, misled>>
<1>. DEFINE k == <<s, "handler">>
<1>1. k \in Keys /\ k[1] = s /\ k[2] = "handler" /\ TypesOK /\ TasksOK /\ sent \in Nat
  BY KeysAre DEF Base, TypesOK
<1>2. PICK c \in Clients \cup {None}, asks \in BOOLEAN :
        LET to == {t \in Siblings(player[s].user) \ {s} : c = None \/ player[t].client = c}
            ack == [NoMessage EXCEPT !.client = IF to = {} THEN c ELSE None]
        IN  /\ Do(s, Settled(s, [Idle EXCEPT !.stage = "send", !.to = to,
                       !.msg = [NoMessage EXCEPT !.kind = "data", !.client = c, !.from = s, !.n = sent],
                       !.ack = IF asks THEN ack ELSE None]))
            /\ due' = [t \in Sessions |-> IF t \in to THEN due[t] \cup {<<s, sent>>} ELSE due[t]]
  BY DEF relay_cloud_sync_op
<1>. DEFINE to == {t \in Siblings(player[s].user) \ {s} : c = None \/ player[t].client = c}
            lost_to == IF to = {} THEN c ELSE None
            answer == [NoMessage EXCEPT !.client = lost_to]
            ack == IF asks THEN answer ELSE None
            msg == [NoMessage EXCEPT !.kind = "data", !.client = c, !.from = s, !.n = sent]
            j == [Idle EXCEPT !.stage = "send", !.to = to, !.msg = msg, !.ack = ack]
<1>3. to \in SUBSET Sessions /\ \A t \in to : In(t) /\ t # s
  BY DEF Siblings
<1>4. NoMessage \in Message /\ NoMessage.kind = "ack" /\ NoMessage.from = None
  BY DEF NoMessage, Message
<1>5. msg \in Message /\ msg.kind = "data" /\ msg.from = s /\ msg.n = sent
  BY <1>1, <1>4 DEF Message
<1>6. msg \in Carried
  BY <1>5 DEF Carried
<1>7. /\ answer \in Message /\ answer.kind = "ack" /\ answer.from = None
      /\ to # {} => answer.client = None
  BY <1>4 DEF Message
<1>8. ack \in Message \cup {None} /\ (ack # None => ack.kind = "ack" /\ ack.from = None /\ (to # {} => ack.client = None))
  BY <1>7
<1>9. task' = [task EXCEPT ![k] = Settled(s, j)]
  BY <1>2 DEF Do
<1>. HIDE DEF to, msg, ack, answer, lost_to
<1>10. j \in Task /\ j.stage = "send" /\ j.to = to /\ j.msg = msg /\ j.ack = ack
  BY <1>3, <1>6, <1>8, IdleIs DEF Task
<1>. HIDE DEF j
<1>11. LET i == Settled(s, j)
       IN  /\ i \in Task /\ Proper(k, i)
           /\ to # {} => i = j
           /\ to = {} => \/ i = Idle
                         \/ i.stage = "send" /\ i.msg.kind = "ack" /\ i.to = {s}
  BY <1>1, <1>5, <1>8, <1>10, SettledIs DEF Proper
<1>12. Put(k, Settled(s, j))
  BY <1>1, <1>9, <1>11, TaskSet
<1>13. due' = [t \in Sessions |-> IF t \in to THEN due[t] \cup {<<s, sent>>} ELSE due[t]]
  BY <1>2 DEF to
<1>14. /\ In(s) /\ task[k] = Idle /\ sent' = sent + 1
       /\ UNCHANGED <<player, queue, known, fetched, lost, moved, misled>>
  BY DEF relay_cloud_sync_op, Takes, Ready
<1>. QED  BY <1>3, <1>5, <1>10, <1>11, <1>12, <1>13, <1>14

LEMMA PeersSteps ==
    ASSUME Base, NEW s \in Sessions, sync_peers_op(s)
    PROVE  \E j \in Task :
              /\ In(s) /\ task[<<s, "handler">>] = Idle /\ sent' = sent + 1
              /\ Put(<<s, "handler">>, j) /\ j.stage = "send" /\ j.to = {s}
              /\ j.msg.kind = "directory" /\ j.msg.peers = Directory(s)
              /\ UNCHANGED <<player, queue, known, fetched, due, lost, moved, misled>>
<1>. DEFINE k == <<s, "handler">>
            peers == Directory(s)
            self == {s}
            msg == [NoMessage EXCEPT !.kind = "directory", !.peers = peers]
            j == [Idle EXCEPT !.stage = "send", !.to = self, !.msg = msg]
<1>1. k \in Keys /\ k[1] = s /\ k[2] = "handler" /\ TypesOK /\ TasksOK
  BY KeysAre DEF Base
<1>2. peers \in SUBSET Clients /\ self \in SUBSET Sessions
  BY DEF Directory, Siblings, Base, TypesOK, Player
<1>3. NoMessage \in Message /\ NoMessage.kind = "ack" /\ NoMessage.from = None
  BY DEF NoMessage, Message
<1>4. task' = [task EXCEPT ![k] = j]
  BY DEF sync_peers_op, Do
<1>. HIDE DEF peers, self
<1>5. msg \in Message /\ msg.kind = "directory" /\ msg.from = None /\ msg.peers = peers
  BY <1>2, <1>3 DEF Message
<1>6. msg \in Carried
  BY <1>5 DEF Carried
<1>. HIDE DEF msg
<1>7. j \in Task /\ j.stage = "send" /\ j.to = self /\ j.msg = msg /\ j.ack = None
  BY <1>2, <1>6, IdleIs DEF Task
<1>. HIDE DEF j
<1>8. Proper(k, j)
  BY <1>1, <1>5, <1>7 DEF Proper, self
<1>9. Put(k, j)
  BY <1>1, <1>4, <1>8, TaskSet
<1>10. /\ In(s) /\ task[k] = Idle /\ sent' = sent + 1
       /\ UNCHANGED <<player, queue, known, fetched, due, lost, moved, misled>>
  BY DEF sync_peers_op, Takes, Ready, history
<1>. QED  BY <1>5, <1>7, <1>9, <1>10 DEF self, peers

LEMMA LeaveSteps ==
    ASSUME Base, NEW s \in Sessions, disconnect_player(s)
    PROVE  \E j \in Task :
              /\ Open(s) /\ task[<<s, "closing">>] = Idle
              /\ Put(<<s, "closing">>, j) /\ j.to = {}
              /\ j = Idle \/ (j.stage = "collect" /\ j.msg.kind = "leave")
              /\ player' \in [Sessions -> Player] /\ \A t \in Sessions \ {s} : player'[t] = player[t]
              /\ player'[s].state = "closed" /\ player'[s].user = None /\ player'[s].client = None
<1>. DEFINE k == <<s, "closing">>
            j == Event("leave", player[s].user, player[s].client, None)
<1>1. k \in Keys /\ k[1] = s /\ k[2] = "closing" /\ TypesOK /\ TasksOK /\ player \in [Sessions -> Player]
  BY KeysAre DEF Base, TypesOK
<1>2. /\ Open(s) /\ task' = [task EXCEPT ![k] = j]
      /\ player' = [player EXCEPT ![s] = [state |-> "closed", user |-> None, client |-> None]]
  BY DEF disconnect_player
<1>3. task[k] = Idle
  BY <1>2 DEF Open, Base, QuietOK
<1>4. player[s].user \in Users \cup {None} /\ player[s].client \in Clients \cup {None}
  BY <1>1 DEF Player
<1>5. j \in Task /\ Proper(k, j) /\ j.to = {} /\ (j = Idle \/ (j.stage = "collect" /\ j.msg.kind = "leave"))
  BY <1>1, <1>4, EventIs, EventProper
<1>. HIDE DEF j
<1>6. Put(k, j)
  BY <1>1, <1>2, <1>5, TaskSet
<1>7. [state |-> "closed", user |-> None, client |-> None] \in Player
  BY DEF Player
<1>8. /\ player' \in [Sessions -> Player] /\ \A t \in Sessions \ {s} : player'[t] = player[t]
      /\ player'[s].state = "closed" /\ player'[s].user = None /\ player'[s].client = None
  BY <1>1, <1>2, <1>7
<1>. QED  BY <1>2, <1>3, <1>5, <1>6, <1>8

LEMMA CollectSteps ==
    ASSUME Base, NEW k \in Keys, Collect(k)
    PROVE  \E j \in Task :
              /\ task[k].stage = "collect" /\ task[k].msg.kind \in {"join", "update", "leave"}
              /\ Put(k, j)
              /\ LET to == Siblings(task[k].user) \ {task[k].except}
                 IN  /\ to # {} => /\ j.stage = "send" /\ j.msg = task[k].msg /\ j.user = task[k].user
                                   /\ j.to = to
                     /\ to = {} => j = Idle
              /\ UNCHANGED <<player, queue, known, fetched, sent, due, lost, moved, misled>>
<1>1. task[k] \in Task /\ Proper(k, task[k]) /\ TypesOK /\ TasksOK
  BY DEF Base, TypesOK, TasksOK
<1>. DEFINE to == Siblings(task[k].user) \ {task[k].except}
            i == [task[k] EXCEPT !.stage = "send", !.to = to]
<1>2. to \in SUBSET Sessions
  BY DEF Siblings
<1>3. task[k].stage = "collect" /\ task' = [task EXCEPT ![k] = Settled(k[1], i)]
  BY DEF Collect
<1>. HIDE DEF to
<1>4. /\ i \in Task /\ i.stage = "send" /\ i.msg = task[k].msg /\ i.user = task[k].user /\ i.to = to
      /\ i.ack = task[k].ack
  BY <1>1, <1>2 DEF Task
<1>. HIDE DEF i
<1>5. task[k].ack = None /\ task[k].msg.kind \in {"join", "update", "leave"}
      /\ (k[2] = "closing" => task[k].msg.kind = "leave")
  BY <1>1, <1>3, IdleIs DEF Proper
<1>6. LET j == Settled(k[1], i)
      IN  /\ Proper(k, j) /\ j \in Task
          /\ to # {} => j = i
          /\ to = {} => j = Idle
  BY <1>4, <1>5, SettledIs DEF Proper
<1>7. Put(k, Settled(k[1], i))
  BY <1>1, <1>3, <1>6, TaskSet
<1>8. UNCHANGED <<player, queue, known, fetched, sent, due, lost, moved, misled>>
  BY DEF Collect, history
<1>. QED  BY <1>3, <1>4, <1>5, <1>6, <1>7, <1>8 DEF to

LEMMA SendSteps ==
    ASSUME Base, NEW k \in Keys, NEW t \in Sessions, SendTo(k, t)
    PROVE  \E j \in Task :
              /\ task[k].stage = "send" /\ t \in task[k].to /\ Put(k, j)
              /\ task[k].to # {t} =>
                    j.stage = "send" /\ j.msg = task[k].msg /\ j.user = task[k].user /\ j.to = task[k].to \ {t}
              /\ task[k].to = {t} =>
                    \/ j = Idle
                    \/ /\ j.stage = "send" /\ j.msg.kind = "ack" /\ j.msg.client = None /\ j.to = {k[1]}
                       /\ task[k].msg.kind = "data"
              /\ UNCHANGED <<player, known, fetched, sent, moved>>
<1>1. task[k] \in Task /\ Proper(k, task[k]) /\ TypesOK /\ TasksOK
  BY DEF Base, TypesOK, TasksOK
<1>. DEFINE rest == task[k].to \ {t}
            i == [task[k] EXCEPT !.to = rest]
<1>2. rest \in SUBSET Sessions
  BY <1>1 DEF Task
<1>3. task[k].stage = "send" /\ t \in task[k].to /\ task' = [task EXCEPT ![k] = Settled(k[1], i)]
      /\ UNCHANGED <<player, known, fetched, sent, moved>>
  <2>1. task[k].stage = "send" /\ t \in task[k].to /\ UNCHANGED <<player, known, fetched, sent, moved>>
    BY DEF SendTo
  <2>2. task' = [task EXCEPT ![k] = Settled(k[1], i)]
    BY DEF SendTo
  <2>. QED  BY <2>1, <2>2
<1>4. rest = {} <=> task[k].to = {t}
  BY <1>3
<1>5. rest # {} /\ task[k].to = {k[1]} => FALSE
  BY <1>3
<1>6. rest \subseteq task[k].to
  OBVIOUS
<1>. HIDE DEF rest
<1>7. /\ i \in Task /\ i.stage = "send" /\ i.msg = task[k].msg /\ i.user = task[k].user /\ i.to = rest
      /\ i.ack = task[k].ack
  BY <1>1, <1>2, <1>3 DEF Task
<1>. HIDE DEF i
<1>8. /\ i.msg.kind \in {"directory", "ack"} => i.to = {} /\ i.ack = None
      /\ i.msg.kind = "data" => i.msg.from = k[1]
      /\ i.ack # None => i.ack.kind = "ack" /\ i.ack.from = None /\ i.ack.client = None
      /\ k[2] = "closing" => i.msg.kind = "leave" /\ i.ack = None
  BY <1>1, <1>3, <1>5, <1>7, IdleIs DEF Proper
<1>9. i.ack # None => i.msg.kind = "data"
  BY <1>1, <1>3, <1>7, IdleIs DEF Proper
<1>10. LET j == Settled(k[1], i)
       IN  /\ Proper(k, j) /\ j \in Task
           /\ rest # {} => j = i
           /\ rest = {} => \/ j = Idle
                           \/ /\ j.stage = "send" /\ j.msg.kind = "ack" /\ j.msg.client = None
                              /\ j.to = {k[1]} /\ i.ack # None
  BY <1>7, <1>8, <1>9, SettledIs DEF Proper
<1>11. Put(k, Settled(k[1], i))
  BY <1>1, <1>3, <1>10, TaskSet
<1>. QED  BY <1>3, <1>4, <1>7, <1>9, <1>10, <1>11 DEF rest
-----------------------------------------------------------------------------
LEMMA QueueGrows ==
    ASSUME NEW q \in Seq(Carried), NEW m \in Carried
    PROVE  /\ Append(q, m) \in Seq(Carried) /\ Len(Append(q, m)) = Len(q) + 1 /\ Len(q) \in Nat
           /\ \A i \in 1..Len(q) : Append(q, m)[i] = q[i]
           /\ Append(q, m)[Len(q) + 1] = m
OBVIOUS

LEMMA QueueShrinks ==
    ASSUME NEW q \in Seq(Carried), q # <<>>
    PROVE  /\ Tail(q) \in Seq(Carried) /\ Len(q) \in Nat \ {0} /\ Len(Tail(q)) = Len(q) - 1
           /\ Head(q) = q[1] /\ Head(q) \in Carried
           /\ \A i \in 1..(Len(q) - 1) : Tail(q)[i] = q[i + 1]
OBVIOUS

LEMMA BaseInit == Init => Base
<1>. SUFFICES ASSUME Init PROVE Base
  OBVIOUS
<1>1. \A k \in Keys : task[k] = Idle
  BY DEF Init, Keys
<1>2. TasksOK /\ SentToOK
  BY <1>1, IdleIs DEF TasksOK, SentToOK
<1>3. QuietOK
  BY <1>1, KeysAre DEF QuietOK, Init, In
<1>4. TypesOK
  <2>1. [state |-> "new", user |-> None, client |-> None] \in Player
    BY DEF Player
  <2>2. task \in [Keys -> Task]
    BY IdleIs DEF Init, Keys
  <2>3. \A s \in Sessions : queue[s] = <<>> /\ Len(queue[s]) = 0
    BY DEF Init
  <2>4. queue \in [Sessions -> Seq(Carried)]
    BY DEF Init
  <2>. QED  BY <2>1, <2>2, <2>3, <2>4, NoneApart DEF TypesOK, Init
<1>. QED  BY <1>2, <1>3, <1>4 DEF Base

LEMMA AnnounceBase ==
    ASSUME Base, NEW s \in Sessions, identify_player(s) \/ update_client_settings(s)
    PROVE  Base'
<1>1. PICK u \in Users, c \in Clients \cup {None}, j \in Task :
              /\ Open(s) /\ task[<<s, "handler">>] = Idle /\ sent' = sent + 1
              /\ player' \in [Sessions -> Player] /\ \A t \in Sessions \ {s} : player'[t] = player[t]
              /\ player'[s].state = "in" /\ player'[s].user = u /\ player'[s].client = c
              /\ Put(<<s, "handler">>, j) /\ j.to = {} /\ j.stage \in {"idle", "collect"}
              /\ moved' = IF In(s) /\ player[s].user # u THEN moved \cup {s} ELSE moved
              /\ UNCHANGED <<queue, known, fetched, due, lost, misled>>
  BY AnnounceSteps
<1>2. TypesOK /\ TasksOK /\ QuietOK /\ SentToOK
  BY DEF Base
<1>3. TypesOK' /\ TasksOK'
  BY <1>1, <1>2 DEF TypesOK, Put
<1>4. \A t \in Sessions : task'[<<t, "closing">>] = task[<<t, "closing">>]
  BY <1>1, KeysAre DEF Put
<1>5. QuietOK'
  <2>1. player[s].state # "closed"
    BY <1>1 DEF Open
  <2>2. u # None
    BY NoneApart
  <2>. QED  BY <1>1, <1>2, <1>4, <2>1, <2>2 DEF QuietOK, In
<1>6. SentToOK'
  <2>. DEFINE k == <<s, "handler">>
  <2>0. k \in Keys /\ k[1] = s
    BY KeysAre
  <2>1. ASSUME NEW q \in Keys, task'[q] # Idle PROVE player'[q[1]].state \in {"in", "closed"}
    <3>1. CASE q[1] = s
      BY <1>1, <3>1, IdleIs
    <3>2. CASE q[1] # s
      BY <1>1, <1>2, <2>1, <2>0, <3>2, KeysAre DEF Put, SentToOK
    <3>. QED  BY <3>1, <3>2
  <2>2. ASSUME NEW q \in Keys, NEW t \in task'[q].to
        PROVE  /\ player'[t].state \in {"in", "closed"}
               /\ player'[t].state = "in" /\ t \notin moved' /\ task'[q].msg.kind = "leave" =>
                     task'[q].user = player'[t].user
    <3>1. q # k /\ task'[q] = task[q] /\ t \in Sessions
      BY <1>1, <1>2, <2>2 DEF Put, TypesOK, Task
    <3>2. /\ player[t].state \in {"in", "closed"}
          /\ In(t) /\ t \notin moved /\ task[q].msg.kind = "leave" => task[q].user = player[t].user
      BY <1>2, <2>2, <3>1 DEF SentToOK
    <3>3. CASE t = s
      BY <1>1, <3>1, <3>2, <3>3 DEF Open, In
    <3>4. CASE t # s
      BY <1>1, <3>1, <3>2, <3>4 DEF In
    <3>. QED  BY <3>3, <3>4
  <2>. QED  BY <2>1, <2>2 DEF SentToOK, In
<1>. QED  BY <1>3, <1>5, <1>6 DEF Base

\* A handler of s, which has identified, begins to send.
LEMMA SendingBase ==
    ASSUME Base, NEW s \in Sessions, In(s), NEW j \in Task, Put(<<s, "handler">>, j),
           \A t \in j.to : In(t), j.msg.kind # "leave", sent' = sent + 1,
           UNCHANGED <<player, queue, known, fetched, lost, moved>>
    PROVE  Base'
<1>1. TypesOK /\ TasksOK /\ QuietOK /\ SentToOK
  BY DEF Base
<1>2. TypesOK' /\ TasksOK'
  BY <1>1 DEF TypesOK, Put
<1>3. \A t \in Sessions : task'[<<t, "closing">>] = task[<<t, "closing">>]
  BY KeysAre DEF Put
<1>4. QuietOK'
  BY <1>1, <1>3 DEF QuietOK, In
<1>5. SentToOK'
  <2>. DEFINE k == <<s, "handler">>
  <2>1. k[1] = s /\ player[s].state = "in"
    BY DEF In
  <2>2. ASSUME NEW q \in Keys
        PROVE  /\ task'[q] # Idle => player'[q[1]].state \in {"in", "closed"}
               /\ \A t \in task'[q].to :
                     /\ player'[t].state \in {"in", "closed"}
                     /\ player'[t].state = "in" /\ t \notin moved' /\ task'[q].msg.kind = "leave" =>
                           task'[q].user = player'[t].user
    <3>1. CASE q = k
      BY <2>1, <3>1 DEF Put, In
    <3>2. CASE q # k
      <4>1. task'[q] = task[q]
        BY <3>2 DEF Put
      <4>. QED  BY <1>1, <4>1 DEF SentToOK, In
    <3>. QED  BY <3>1, <3>2
  <2>. QED  BY <2>2 DEF SentToOK, In
<1>. QED  BY <1>2, <1>4, <1>5 DEF Base

LEMMA LeaveBase ==
    ASSUME Base, NEW s \in Sessions, disconnect_player(s)
    PROVE  Base'
<1>1. PICK j \in Task :
              /\ Open(s) /\ task[<<s, "closing">>] = Idle
              /\ Put(<<s, "closing">>, j) /\ j.to = {}
              /\ player' \in [Sessions -> Player] /\ \A t \in Sessions \ {s} : player'[t] = player[t]
              /\ player'[s].state = "closed" /\ player'[s].user = None /\ player'[s].client = None
  BY LeaveSteps
<1>2. TypesOK /\ TasksOK /\ QuietOK /\ SentToOK
  BY DEF Base
<1>3. /\ queue' = [queue EXCEPT ![s] = <<>>] /\ known' = [known EXCEPT ![s] = {}] /\ fetched' = fetched \ {s}
      /\ lost' = lost \ {s} /\ moved' = moved \ {s} /\ sent' = sent
  BY DEF disconnect_player
<1>4. /\ queue' \in [Sessions -> Seq(Carried)] /\ queue'[s] = <<>> /\ Len(queue'[s]) = 0
      /\ \A t \in Sessions \ {s} : queue'[t] = queue[t]
  BY <1>2, <1>3 DEF TypesOK
<1>5. TypesOK' /\ TasksOK'
  <2>1. \A t \in Sessions : Len(queue'[t]) <= QueueCap
    <3>1. \A t \in Sessions : Len(queue[t]) <= QueueCap
      BY <1>2 DEF TypesOK
    <3>2. 0 <= QueueCap
      BY NoneApart
    <3>3. \A t \in Sessions \ {s} : Len(queue'[t]) <= QueueCap
      BY <1>4, <3>1
    <3>. QED  BY <1>4, <3>2, <3>3
  <2>2. known' \in [Sessions -> SUBSET Clients]
    BY <1>2, <1>3 DEF TypesOK
  <2>. QED  BY <1>1, <1>2, <1>3, <1>4, <2>1, <2>2 DEF TypesOK, Put
<1>6. \A t \in Sessions \ {s} : task'[<<t, "closing">>] = task[<<t, "closing">>]
  BY <1>1, KeysAre DEF Put
<1>7. QuietOK'
  BY <1>1, <1>2, <1>3, <1>4, <1>6 DEF QuietOK, In
<1>8. SentToOK'
  <2>. DEFINE k == <<s, "closing">>
  <2>0. k \in Keys /\ k[1] = s
    BY KeysAre
  <2>1. ASSUME NEW q \in Keys, task'[q] # Idle PROVE player'[q[1]].state \in {"in", "closed"}
    <3>1. CASE q[1] = s
      BY <1>1, <3>1, IdleIs
    <3>2. CASE q[1] # s
      BY <1>1, <1>2, <2>1, <2>0, <3>2, KeysAre DEF Put, SentToOK
    <3>. QED  BY <3>1, <3>2
  <2>2. ASSUME NEW q \in Keys, NEW t \in task'[q].to
        PROVE  /\ player'[t].state \in {"in", "closed"}
               /\ player'[t].state = "in" /\ t \notin moved' /\ task'[q].msg.kind = "leave" =>
                     task'[q].user = player'[t].user
    <3>1. q # k /\ task'[q] = task[q] /\ t \in Sessions
      BY <1>1, <1>2, <2>2 DEF Put, TypesOK, Task
    <3>2. /\ player[t].state \in {"in", "closed"}
          /\ In(t) /\ t \notin moved /\ task[q].msg.kind = "leave" => task[q].user = player[t].user
      BY <1>2, <2>2, <3>1 DEF SentToOK
    <3>. QED  BY <1>1, <1>3, <3>1, <3>2 DEF In
  <2>. QED  BY <2>1, <2>2 DEF SentToOK, In
<1>. QED  BY <1>5, <1>7, <1>8 DEF Base

LEMMA CollectBase ==
    ASSUME Base, NEW k \in Keys, Collect(k)
    PROVE  Base'
<1>1. PICK j \in Task :
              /\ task[k].stage = "collect" /\ Put(k, j)
              /\ LET to == Siblings(task[k].user) \ {task[k].except}
                 IN  /\ to # {} => /\ j.stage = "send" /\ j.msg = task[k].msg /\ j.user = task[k].user
                                   /\ j.to = to
                     /\ to = {} => j = Idle
              /\ UNCHANGED <<player, queue, known, fetched, sent, due, lost, moved, misled>>
  BY CollectSteps
<1>2. TypesOK /\ TasksOK /\ QuietOK /\ SentToOK
  BY DEF Base
<1>3. TypesOK' /\ TasksOK'
  BY <1>1, <1>2 DEF TypesOK, Put
<1>4. \A t \in j.to : In(t) /\ player[t].user = j.user
  BY <1>1, IdleIs DEF Siblings
<1>5. task[k] # Idle
  BY <1>1, IdleIs
<1>6. QuietOK'
  <2>1. ASSUME NEW t \in Sessions, player[t].state # "closed" PROVE task'[<<t, "closing">>] = Idle
    BY <1>1, <1>2, <1>5, <2>1, KeysAre DEF QuietOK, Put
  <2>. QED  BY <1>1, <1>2, <2>1 DEF QuietOK, In
<1>7. SentToOK'
  BY <1>1, <1>2, <1>4, <1>5 DEF SentToOK, Put, In
<1>. QED  BY <1>3, <1>6, <1>7 DEF Base

LEMMA SendBase ==
    ASSUME Base, NEW k \in Keys, NEW t \in Sessions, SendTo(k, t)
    PROVE  Base'
<1>1. PICK j \in Task :
              /\ task[k].stage = "send" /\ t \in task[k].to /\ Put(k, j)
              /\ task[k].to # {t} =>
                    j.stage = "send" /\ j.msg = task[k].msg /\ j.user = task[k].user /\ j.to = task[k].to \ {t}
              /\ task[k].to = {t} =>
                    \/ j = Idle
                    \/ /\ j.stage = "send" /\ j.msg.kind = "ack" /\ j.msg.client = None /\ j.to = {k[1]}
                       /\ task[k].msg.kind = "data"
              /\ UNCHANGED <<player, known, fetched, sent, moved>>
  BY SendSteps
<1>2. TypesOK /\ TasksOK /\ QuietOK /\ SentToOK
  BY DEF Base
<1>3. task[k] # Idle
  BY <1>1, IdleIs
<1>4. /\ queue' = IF Open(t) THEN [queue EXCEPT ![t] = Queued(queue[t], task[k].msg)] ELSE queue
      /\ lost' \in {lost, lost \cup {t}}
  BY DEF SendTo
<1>5. queue[t] \in Seq(Carried) /\ task[k].msg \in Carried /\ Len(queue[t]) <= QueueCap
  BY <1>2 DEF TypesOK, Task
<1>6. Queued(queue[t], task[k].msg) \in Seq(Carried) /\ Len(Queued(queue[t], task[k].msg)) <= QueueCap
  BY <1>5, QueueGrows, NoneApart DEF Queued
<1>7. /\ queue' \in [Sessions -> Seq(Carried)] /\ \A s \in Sessions : Len(queue'[s]) <= QueueCap
      /\ \A s \in Sessions : queue'[s] = queue[s] \/ (s = t /\ Open(t))
  <2>. DEFINE q == Queued(queue[t], task[k].msg)
  <2>1. queue' = [queue EXCEPT ![t] = q] \/ queue' = queue
    BY <1>4
  <2>2. queue' = queue \/ Open(t)
    BY <1>4
  <2>3. q \in Seq(Carried) /\ Len(q) <= QueueCap
    BY <1>6
  <2>. HIDE DEF q
  <2>. QED  BY <1>2, <2>1, <2>2, <2>3 DEF TypesOK
<1>8. TypesOK' /\ TasksOK'
  BY <1>1, <1>2, <1>4, <1>7 DEF TypesOK, Put
<1>9. QuietOK'
  <2>1. ASSUME NEW s \in Sessions, player[s].state # "closed" PROVE task'[<<s, "closing">>] = Idle
    BY <1>1, <1>2, <1>3, <2>1, KeysAre DEF QuietOK, Put
  <2>2. Open(t) => In(t)
    BY <1>1, <1>2 DEF SentToOK, Open, In
  <2>. QED  BY <1>1, <1>2, <1>7, <2>1, <2>2 DEF QuietOK, In
<1>10. SentToOK'
  <2>1. player[k[1]].state \in {"in", "closed"}
    BY <1>2, <1>3 DEF SentToOK
  <2>2. /\ \A s \in j.to : s \in task[k].to \/ s = k[1]
        /\ j.msg.kind = "leave" => j = Idle \/ (j.msg = task[k].msg /\ j.user = task[k].user /\ j.to \subseteq task[k].to)
    <3>1. CASE task[k].to = {t}
      BY <1>1, <3>1, IdleIs
    <3>2. CASE task[k].to # {t}
      BY <1>1, <3>2
    <3>. QED  BY <3>1, <3>2
  <2>. QED  BY <1>1, <1>2, <2>1, <2>2, IdleIs DEF SentToOK, Put, In
<1>. QED  BY <1>8, <1>9, <1>10 DEF Base

LEMMA ReceiveBase ==
    ASSUME Base, NEW s \in Sessions, Receive(s)
    PROVE  Base'
<1>1. TypesOK /\ TasksOK /\ QuietOK /\ SentToOK
  BY DEF Base
<1>. DEFINE msg == Head(queue[s])
            ids == IF msg.kind = "join" THEN known[s] \cup {msg.client}
                   ELSE IF msg.kind = "directory" THEN known[s] \cup msg.peers
                   ELSE IF msg.kind \in {"leave", "ack"} THEN known[s] \ {msg.client} ELSE known[s]
<1>2. /\ queue[s] # <<>> /\ queue' = [queue EXCEPT ![s] = Tail(queue[s])] /\ known' = [known EXCEPT ![s] = ids]
      /\ UNCHANGED <<player, task, sent, lost, moved>>
      /\ fetched' \in {fetched, fetched \cup {s}, fetched \ {s}}
  BY DEF Receive
<1>3. queue[s] \in Seq(Carried) /\ Len(queue[s]) <= QueueCap /\ QueueCap \in Nat
  BY <1>1, NoneApart DEF TypesOK
<1>4. Tail(queue[s]) \in Seq(Carried) /\ msg \in Carried /\ Len(Tail(queue[s])) <= QueueCap
  BY <1>2, <1>3, QueueShrinks
<1>5. ids \in SUBSET Clients
  BY <1>1, <1>4 DEF Carried, Message, TypesOK
<1>. HIDE DEF ids
<1>6. TypesOK'
  <2>1. queue' \in [Sessions -> Seq(Carried)] /\ \A t \in Sessions : Len(queue'[t]) <= QueueCap
    BY <1>1, <1>2, <1>4 DEF TypesOK
  <2>2. known' \in [Sessions -> SUBSET Clients]
    BY <1>1, <1>2, <1>5 DEF TypesOK
  <2>3. fetched' \subseteq Sessions
    BY <1>1, <1>2 DEF TypesOK
  <2>. QED  BY <1>1, <1>2, <2>1, <2>2, <2>3 DEF TypesOK
<1>7. TasksOK' /\ SentToOK'
  BY <1>1, <1>2 DEF TasksOK, SentToOK, In, Proper
<1>8. QuietOK'
  <2>1. In(s)
    BY <1>1, <1>2 DEF QuietOK
  <2>2. \A t \in Sessions \ {s} : queue'[t] = queue[t] /\ (t \in fetched' <=> t \in fetched)
    BY <1>1, <1>2 DEF TypesOK
  <2>. QED  BY <1>1, <1>2, <2>1, <2>2 DEF QuietOK, In
<1>. QED  BY <1>6, <1>7, <1>8 DEF Base

LEMMA RegisterBase ==
    ASSUME Base, NEW s \in Sessions, register_connection(s)
    PROVE  Base'
<1>1. TypesOK /\ TasksOK /\ QuietOK /\ SentToOK
  BY DEF Base
<1>2. /\ player[s].state = "new" /\ player' = [player EXCEPT ![s].state = "open"]
      /\ UNCHANGED <<queue, task, known, fetched, sent, due, lost, moved, misled>>
  BY DEF register_connection, history
<1>3. /\ player' \in [Sessions -> Player] /\ \A t \in Sessions \ {s} : player'[t] = player[t]
      /\ player'[s].state = "open" /\ player'[s].user = player[s].user /\ player'[s].client = player[s].client
  BY <1>1, <1>2 DEF TypesOK, Player
<1>4. TypesOK' /\ TasksOK'
  BY <1>1, <1>2, <1>3 DEF TypesOK, TasksOK, Proper
<1>5. QuietOK'
  BY <1>1, <1>2, <1>3 DEF QuietOK, In
<1>6. SentToOK'
  <2>1. \A k \in Keys : k[1] \in Sessions /\ task[k].to \subseteq Sessions
    BY <1>1, KeysAre DEF TypesOK, Task
  <2>. QED  BY <1>1, <1>2, <1>3, <2>1 DEF SentToOK, In
<1>. QED  BY <1>4, <1>5, <1>6 DEF Base

LEMMA BaseKept == Base /\ [Next]_vars => Base'
<1>. SUFFICES ASSUME Base, [Next]_vars PROVE Base'
  OBVIOUS
<1>1. ASSUME NEW s \in Sessions, relay_cloud_sync_op(s) PROVE Base'
  <2>1. PICK to \in SUBSET Sessions, j \in Task :
              /\ In(s) /\ sent' = sent + 1 /\ \A t \in to : In(t) /\ t # s
              /\ Put(<<s, "handler">>, j)
              /\ to # {} => j.stage = "send" /\ j.msg.kind = "data" /\ j.msg.n = sent /\ j.to = to
              /\ to = {} => \/ j = Idle
                            \/ j.stage = "send" /\ j.msg.kind = "ack" /\ j.to = {s}
              /\ UNCHANGED <<player, queue, known, fetched, lost, moved, misled>>
    BY <1>1, RelaySteps
  <2>2. (\A t \in j.to : In(t)) /\ j.msg.kind # "leave"
    BY <2>1, IdleIs
  <2>. QED  BY <2>1, <2>2, SendingBase
<1>2. ASSUME NEW s \in Sessions, sync_peers_op(s) PROVE Base'
  <2>1. PICK j \in Task :
              /\ In(s) /\ sent' = sent + 1 /\ Put(<<s, "handler">>, j) /\ j.to = {s}
              /\ j.msg.kind = "directory"
              /\ UNCHANGED <<player, queue, known, fetched, due, lost, moved, misled>>
    BY <1>2, PeersSteps
  <2>2. (\A t \in j.to : In(t)) /\ j.msg.kind # "leave"
    BY <2>1
  <2>. QED  BY <2>1, <2>2, SendingBase
<1>3. CASE UNCHANGED vars
  <2>1. UNCHANGED <<player, queue, task, known, fetched, sent, lost, moved>>
    BY <1>3 DEF vars
  <2>2. TypesOK' /\ TasksOK' /\ QuietOK' /\ SentToOK'
    BY <2>1 DEF Base, TypesOK, TasksOK, QuietOK, SentToOK, Proper, In
  <2>. QED  BY <2>2 DEF Base
<1>. QED  BY <1>1, <1>2, <1>3, AnnounceBase, LeaveBase, CollectBase, SendBase, ReceiveBase, RegisterBase
          DEF Next, Keys
-----------------------------------------------------------------------------
\* What a message at the end of a queue does.
LEMMA Joining ==
    ASSUME NEW q \in Seq(Carried), NEW m \in Carried, NEW c, NEW ids, NEW has
    PROVE  /\ Adds(m, c) => Lined(Append(q, m), c)
           /\ ~Drops(m, c) /\ Lined(q, c) => Lined(Append(q, m), c)
           /\ ~Drops(m, c) /\ Kept(ids, q, c) => Kept(ids, Append(q, m), c)
           /\ m.kind # "directory" /\ Stale(has, q) => Stale(has, Append(q, m))
           /\ Unroutes(m) => Stale(has, Append(q, m))
<1>. DEFINE p == Append(q, m)
            n == Len(q)
<1>1. /\ Len(p) = n + 1 /\ n \in Nat /\ p[n + 1] = m
      /\ \A i \in 1..n : p[i] = q[i]
  BY QueueGrows
<1>2. \A i \in 1..Len(p) : i \in 1..n \/ i = n + 1
  BY <1>1
<1>3. \A i \in 1..n : i \in 1..Len(p) /\ i < n + 1
  BY <1>1
<1>4. n + 1 \in 1..Len(p) /\ \A j \in 1..Len(p) : ~(j > n + 1)
  BY <1>1
<1>. HIDE DEF p, n
<1>5. Adds(m, c) => Lined(p, c)
  BY <1>1, <1>4 DEF Lined
<1>6. ASSUME ~Drops(m, c), Lined(q, c) PROVE Lined(p, c)
  <2>1. PICK i \in 1..n : Adds(q[i], c) /\ \A j \in 1..n : j > i => ~Drops(q[j], c)
    BY <1>6 DEF Lined, n
  <2>2. i \in 1..Len(p) /\ p[i] = q[i]
    BY <1>1, <1>3
  <2>3. \A j \in 1..Len(p) : j > i => ~Drops(p[j], c)
    BY <1>1, <1>2, <1>6, <2>1
  <2>. QED  BY <2>1, <2>2, <2>3 DEF Lined
<1>7. ASSUME ~Drops(m, c), Kept(ids, q, c) PROVE Kept(ids, p, c)
  BY <1>1, <1>2, <1>7 DEF Kept, n
<1>8. ASSUME m.kind # "directory", Stale(has, q) PROVE Stale(has, p)
  <2>1. CASE \E i \in 1..n : Unroutes(q[i]) /\ \A j \in 1..n : j > i => q[j].kind # "directory"
    <3>1. PICK i \in 1..n : Unroutes(q[i]) /\ \A j \in 1..n : j > i => q[j].kind # "directory"
      BY <2>1
    <3>2. i \in 1..Len(p) /\ p[i] = q[i]
      BY <1>1, <1>3
    <3>3. \A j \in 1..Len(p) : j > i => p[j].kind # "directory"
      BY <1>1, <1>2, <1>8, <3>1
    <3>. QED  BY <3>1, <3>2, <3>3 DEF Stale
  <2>2. CASE ~has /\ \A j \in 1..n : q[j].kind # "directory"
    BY <1>1, <1>2, <1>8, <2>2 DEF Stale
  <2>. QED  BY <1>8, <2>1, <2>2 DEF Stale, n
<1>9. Unroutes(m) => Stale(has, p)
  BY <1>1, <1>4 DEF Stale
<1>. QED  BY <1>5, <1>6, <1>7, <1>8, <1>9 DEF p

\* What is left of a queue whose head is taken, and the device has learnt.
LEMMA Taking ==
    ASSUME NEW q \in Seq(Carried), q # <<>>, NEW c, NEW ids, NEW ids2, NEW has, NEW has2,
           Adds(q[1], c) => c \in ids2,
           c \in ids /\ ~Drops(q[1], c) => c \in ids2,
           q[1].kind # "directory" /\ ~has => ~has2,
           Unroutes(q[1]) => ~has2
    PROVE  /\ Lined(q, c) => Lined(Tail(q), c) \/ Kept(ids2, Tail(q), c)
           /\ Kept(ids, q, c) => Kept(ids2, Tail(q), c)
           /\ Stale(has, q) => Stale(has2, Tail(q))
<1>. DEFINE p == Tail(q)
            n == Len(p)
<1>1. /\ Len(q) = n + 1 /\ n \in Nat
      /\ \A i \in 1..n : p[i] = q[i + 1]
  BY QueueShrinks
<1>2. \A i \in 1..n : i + 1 \in 1..Len(q) /\ i + 1 > 1
  BY <1>1
<1>3. \A i \in 1..Len(q) : i = 1 \/ (i - 1 \in 1..n /\ i = (i - 1) + 1)
  BY <1>1
<1>4. 1 \in 1..Len(q)
  BY <1>1
<1>. HIDE DEF p
<1>5. ASSUME Lined(q, c) PROVE Lined(p, c) \/ Kept(ids2, p, c)
  <2>1. PICK i \in 1..Len(q) : Adds(q[i], c) /\ \A j \in 1..Len(q) : j > i => ~Drops(q[j], c)
    BY <1>5 DEF Lined
  <2>2. CASE i = 1
    <3>1. \A j \in 1..n : ~Drops(p[j], c)
      BY <1>1, <1>2, <2>1, <2>2
    <3>. QED  BY <2>1, <2>2, <3>1 DEF Kept
  <2>3. CASE i # 1
    <3>1. i - 1 \in 1..n /\ p[i - 1] = q[i]
      BY <1>1, <1>3, <2>3
    <3>2. ASSUME NEW j \in 1..n, j > i - 1 PROVE ~Drops(p[j], c)
      <4>1. j + 1 \in 1..Len(q) /\ j + 1 > i /\ p[j] = q[j + 1]
        BY <1>1, <1>2, <3>1, <3>2
      <4>. QED  BY <2>1, <4>1
    <3>. QED  BY <2>1, <3>1, <3>2 DEF Lined
  <2>. QED  BY <2>2, <2>3
<1>6. ASSUME Kept(ids, q, c) PROVE Kept(ids2, p, c)
  <2>1. c \in ids /\ \A j \in 1..Len(q) : ~Drops(q[j], c)
    BY <1>6 DEF Kept
  <2>2. \A j \in 1..n : ~Drops(p[j], c)
    BY <1>1, <1>2, <2>1
  <2>. QED  BY <1>4, <2>1, <2>2 DEF Kept
<1>7. ASSUME Stale(has, q) PROVE Stale(has2, p)
  <2>1. CASE \E i \in 1..Len(q) : Unroutes(q[i]) /\ \A j \in 1..Len(q) : j > i => q[j].kind # "directory"
    <3>1. PICK i \in 1..Len(q) : Unroutes(q[i]) /\ \A j \in 1..Len(q) : j > i => q[j].kind # "directory"
      BY <2>1
    <3>2. CASE i = 1
      <4>1. \A j \in 1..n : p[j].kind # "directory"
        BY <1>1, <1>2, <3>1, <3>2
      <4>. QED  BY <3>1, <3>2, <4>1 DEF Stale
    <3>3. CASE i # 1
      <4>1. i - 1 \in 1..n /\ p[i - 1] = q[i]
        BY <1>1, <1>3, <3>3
      <4>2. ASSUME NEW j \in 1..n, j > i - 1 PROVE p[j].kind # "directory"
        <5>1. j + 1 \in 1..Len(q) /\ j + 1 > i /\ p[j] = q[j + 1]
          BY <1>1, <1>2, <4>1, <4>2
        <5>. QED  BY <3>1, <5>1
      <4>. QED  BY <3>1, <4>1, <4>2 DEF Stale
    <3>. QED  BY <3>2, <3>3
  <2>2. CASE ~has /\ \A j \in 1..Len(q) : q[j].kind # "directory"
    <3>1. \A j \in 1..n : p[j].kind # "directory"
      BY <1>1, <1>2, <2>2
    <3>. QED  BY <1>4, <2>2, <3>1 DEF Stale
  <2>. QED  BY <1>7, <2>1, <2>2 DEF Stale
<1>. QED  BY <1>5, <1>6, <1>7 DEF p
-----------------------------------------------------------------------------
\* The steps, and what a device is to learn of its siblings.
LEMMA ComingStays ==
    ASSUME NEW k, NEW j, Put(k, j), task[k] = Idle \/ task[k].msg.kind \notin {"join", "directory"},
           NEW s \in Sessions, player'[s].user = player[s].user, NEW c, Coming(s, c)
    PROVE  Coming(s, c)'
<1>1. PICK q \in Keys :
    \/ /\ task[q].stage = "collect" /\ task[q].msg.kind = "join" /\ task[q].msg.client = c
       /\ task[q].user = player[s].user /\ task[q].except # s
    \/ task[q].stage = "send" /\ Adds(task[q].msg, c) /\ s \in task[q].to
  BY DEF Coming
<1>2. q # k
  BY <1>1, IdleIs DEF Adds
<1>3. task'[q] = task[q]
  BY <1>2 DEF Put
<1>. QED  BY <1>1, <1>3 DEF Coming

LEMMA AnnounceMesh ==
    ASSUME Base, MeshOK, NEW x \in Sessions, identify_player(x) \/ update_client_settings(x)
    PROVE  MeshOK'
<1>1. PICK u \in Users, c \in Clients \cup {None}, j \in Task :
              /\ Open(x) /\ task[<<x, "handler">>] = Idle
              /\ player' \in [Sessions -> Player] /\ \A t \in Sessions \ {x} : player'[t] = player[t]
              /\ player'[x].state = "in" /\ player'[x].user = u /\ player'[x].client = c
              /\ Put(<<x, "handler">>, j) /\ j.stage \in {"idle", "collect"}
              /\ c # None /\ player[x].client # c =>
                    /\ j.stage = "collect" /\ j.user = u /\ j.except = x
                    /\ j.msg.kind = "join" /\ j.msg.client = c
              /\ moved' = IF In(x) /\ player[x].user # u THEN moved \cup {x} ELSE moved
              /\ UNCHANGED <<queue, known, fetched, due, lost, misled>>
  BY AnnounceSteps
<1>. DEFINE k == <<x, "handler">>
<1>2. k \in Keys /\ \A s \in Sessions \ {x} : task'[<<s, "handler">>] = task[<<s, "handler">>]
  BY <1>1, KeysAre DEF Put
<1>3. ASSUME NEW s \in Sessions, Unfetched(s) PROVE Unfetched(s)'
  <2>1. CASE s = x
    BY <1>1, <1>3, <2>1, IdleIs DEF Unfetched, Put
  <2>2. CASE s # x
    BY <1>1, <1>2, <1>3, <2>2 DEF Unfetched
  <2>. QED  BY <2>1, <2>2
<1>4. ASSUME NEW s \in Sessions, player'[s].user = player[s].user, NEW d, Learns(s, d) PROVE Learns(s, d)'
  <2>1. Coming(s, d) => Coming(s, d)'
    BY <1>1, <1>4, ComingStays
  <2>2. Lined(queue[s], d) => Lined(queue[s], d)'
    BY <1>1
  <2>3. Kept(known[s], queue[s], d) => Kept(known[s], queue[s], d)'
    BY <1>1
  <2>. QED  BY <1>3, <1>4, <2>1, <2>2, <2>3 DEF Learns
<1>5. ASSUME NEW s \in Sessions, NEW t \in Sessions, NEW d \in Clients, Reaches(s, t, d)'
      PROVE  Learns(s, d)'
  <2>1. /\ player'[s].state = "in" /\ player'[t].state = "in" /\ s # t
        /\ player'[s].user = player'[t].user /\ player'[t].client = d /\ d # None
        /\ s \notin lost' \cup moved' /\ t \notin moved' /\ <<s, d>> \notin misled'
    BY <1>5, NoneApart DEF Reaches, In
  <2>2. s \notin lost \cup moved /\ t \notin moved /\ <<s, d>> \notin misled
    BY <1>1, <2>1
  <2>3. In(x) => player[x].user = u \/ x \in moved'
    BY <1>1
  <2>4. CASE s = x /\ ~In(x)
    <3>1. queue[s] = <<>> /\ s \notin fetched
      BY <2>4 DEF Base, QuietOK
    <3>2. Stale(s \in fetched, queue[s])
      <4>1. Len(queue[s]) = 0
        BY <3>1
      <4>. QED  BY <3>1, <4>1 DEF Stale
    <3>3. Unfetched(s)
      BY <1>1, <2>4, <3>2, IdleIs DEF Unfetched
    <3>. QED  BY <1>3, <3>3 DEF Learns
  <2>5. CASE s = x /\ In(x)
    <3>1. player'[s].user = player[s].user /\ t # x /\ player'[t] = player[t]
      BY <1>1, <2>1, <2>3, <2>5
    <3>2. Reaches(s, t, d)
      BY <2>1, <2>2, <2>5, <3>1 DEF Reaches, In
    <3>. QED  BY <1>4, <3>1, <3>2 DEF MeshOK
  <2>6. CASE t = x /\ player[x].client # c
    <3>1. /\ task'[k].stage = "collect" /\ task'[k].msg.kind = "join" /\ task'[k].msg.client = d
          /\ task'[k].user = player'[s].user /\ task'[k].except # s
      BY <1>1, <2>1, <2>6 DEF Put
    <3>2. Coming(s, d)'
      BY <1>2, <3>1 DEF Coming
    <3>. QED  BY <3>2 DEF Learns
  <2>7. CASE t = x /\ player[x].client = c
    <3>1. In(x)
      BY <1>1, <2>1, <2>7 DEF Base, QuietOK
    <3>2. player[t].user = player'[t].user /\ player'[s] = player[s]
      BY <1>1, <2>1, <2>3, <2>7, <3>1
    <3>3. Reaches(s, t, d)
      BY <1>1, <2>1, <2>2, <2>7, <3>1, <3>2 DEF Reaches, In
    <3>. QED  BY <1>4, <3>2, <3>3 DEF MeshOK
  <2>8. CASE s # x /\ t # x
    <3>1. player'[s] = player[s] /\ player'[t] = player[t]
      BY <1>1, <2>8
    <3>2. Reaches(s, t, d)
      BY <2>1, <2>2, <3>1 DEF Reaches, In
    <3>. QED  BY <1>4, <3>1, <3>2 DEF MeshOK
  <2>. QED  BY <2>4, <2>5, <2>6, <2>7, <2>8
<1>. QED  BY <1>5 DEF MeshOK

\* A handler of x begins to send; if it sends a directory, then one that holds
\* all that is to be learnt.
LEMMA SendingMesh ==
    ASSUME Base, MeshOK, NEW x \in Sessions, NEW j \in Task, Put(<<x, "handler">>, j),
           task[<<x, "handler">>] = Idle,
           \/ ~(j.stage = "send" /\ j.msg.kind = "directory")
           \/ j.stage = "send" /\ j.msg.kind = "directory" /\ j.msg.peers = Directory(x) /\ j.to = {x},
           UNCHANGED <<player, queue, known, fetched, lost, moved, misled>>
    PROVE  MeshOK'
<1>. DEFINE k == <<x, "handler">>
<1>1. k \in Keys /\ (\A s \in Sessions \ {x} : task'[<<s, "handler">>] = task[<<s, "handler">>]) /\ task'[k] = j
  BY KeysAre DEF Put
<1>2. ASSUME NEW s \in Sessions, NEW t \in Sessions, NEW c \in Clients, Reaches(s, t, c)'
      PROVE  Learns(s, c)'
  <2>1. Reaches(s, t, c)
    BY <1>2 DEF Reaches, In
  <2>2. Learns(s, c)
    BY <2>1 DEF MeshOK
  <2>3. CASE s = x /\ j.stage = "send" /\ j.msg.kind = "directory"
    <3>1. c \in Directory(s)
      BY <2>1, NoneApart DEF Reaches, Directory, Siblings
    <3>2. task'[k].stage = "send" /\ Adds(task'[k].msg, c) /\ s \in task'[k].to
      BY <1>1, <2>3, <3>1 DEF Adds
    <3>3. Coming(s, c)'
      BY <1>1, <3>2 DEF Coming
    <3>. QED  BY <3>3 DEF Learns
  <2>4. CASE ~(s = x /\ j.stage = "send" /\ j.msg.kind = "directory")
    <3>1. Coming(s, c) => Coming(s, c)'
      BY ComingStays
    <3>2. Unfetched(s) => Unfetched(s)'
      <4>1. CASE s = x
        BY <1>1, <2>4, <4>1, IdleIs DEF Unfetched
      <4>2. CASE s # x
        BY <1>1, <4>2 DEF Unfetched
      <4>. QED  BY <4>1, <4>2
    <3>3. Lined(queue[s], c) => Lined(queue[s], c)'
      OBVIOUS
    <3>4. Kept(known[s], queue[s], c) => Kept(known[s], queue[s], c)'
      OBVIOUS
    <3>5. Learns(s, c)'
      BY <2>2, <3>1, <3>2, <3>3, <3>4 DEF Learns
    <3>. QED  BY <3>5
  <2>. QED  BY <2>3, <2>4
<1>. QED  BY <1>2 DEF MeshOK
\* A session ends; its sibling s hears nothing new by that.
LEMMA LeaveMesh ==
    ASSUME Base, MeshOK, NEW x \in Sessions, disconnect_player(x)
    PROVE  MeshOK'
<1>1. PICK j \in Task :
              /\ task[<<x, "closing">>] = Idle /\ Put(<<x, "closing">>, j)
              /\ player' \in [Sessions -> Player] /\ \A t \in Sessions \ {x} : player'[t] = player[t]
              /\ player'[x].state = "closed"
  BY LeaveSteps
<1>2. /\ queue' = [queue EXCEPT ![x] = <<>>] /\ known' = [known EXCEPT ![x] = {}] /\ fetched' = fetched \ {x}
      /\ lost' = lost \ {x} /\ moved' = moved \ {x} /\ misled' = {m \in misled : m[1] # x}
  BY DEF disconnect_player
<1>3. \A s \in Sessions : task'[<<s, "handler">>] = task[<<s, "handler">>]
  BY <1>1, KeysAre DEF Put
<1>4. ASSUME NEW s \in Sessions, NEW t \in Sessions, NEW c \in Clients, Reaches(s, t, c)'
      PROVE  Learns(s, c)'
  <2>1. s # x /\ t # x
    BY <1>1, <1>4 DEF Reaches, In
  <2>2. player'[s] = player[s] /\ player'[t] = player[t]
    BY <1>1, <2>1
  <2>3. s \notin lost \cup moved /\ t \notin moved /\ <<s, c>> \notin misled
    BY <1>2, <1>4, <2>1 DEF Reaches
  <2>4. Reaches(s, t, c)
    BY <1>4, <2>2, <2>3 DEF Reaches, In
  <2>5. queue'[s] = queue[s] /\ known'[s] = known[s] /\ (s \in fetched' <=> s \in fetched)
    BY <1>2, <2>1 DEF Base, TypesOK
  <2>6. Coming(s, c) => Coming(s, c)'
    BY <1>1, <2>2, ComingStays
  <2>7. Unfetched(s) => Unfetched(s)'
    BY <1>3, <2>5 DEF Unfetched, Stale
  <2>. QED  BY <2>4, <2>5, <2>6, <2>7 DEF MeshOK, Learns
<1>. QED  BY <1>4 DEF MeshOK

\* Who is to be told of a join is among the recipients collected.
LEMMA CollectMesh ==
    ASSUME Base, MeshOK, NEW k \in Keys, Collect(k)
    PROVE  MeshOK'
<1>1. PICK j \in Task :
              /\ task[k].stage = "collect" /\ task[k].msg.kind \in {"join", "update", "leave"}
              /\ Put(k, j)
              /\ LET to == Siblings(task[k].user) \ {task[k].except}
                 IN  /\ to # {} => /\ j.stage = "send" /\ j.msg = task[k].msg /\ j.user = task[k].user
                                   /\ j.to = to
                     /\ to = {} => j = Idle
              /\ UNCHANGED <<player, queue, known, fetched, sent, due, lost, moved, misled>>
  BY CollectSteps
<1>2. ASSUME NEW s \in Sessions, NEW t \in Sessions, NEW c \in Clients, Reaches(s, t, c)'
      PROVE  Learns(s, c)'
  <2>1. Reaches(s, t, c)
    BY <1>1, <1>2 DEF Reaches, In
  <2>2. ASSUME Coming(s, c) PROVE Coming(s, c)'
    <3>1. PICK q \in Keys :
        \/ /\ task[q].stage = "collect" /\ task[q].msg.kind = "join" /\ task[q].msg.client = c
           /\ task[q].user = player[s].user /\ task[q].except # s
        \/ task[q].stage = "send" /\ Adds(task[q].msg, c) /\ s \in task[q].to
      BY <2>2 DEF Coming
    <3>2. CASE q # k
      BY <1>1, <3>1, <3>2 DEF Put, Coming
    <3>3. CASE q = k
      <4>1. task[k].msg.kind = "join" /\ task[k].msg.client = c /\ s \in Siblings(task[k].user) \ {task[k].except}
        BY <1>1, <2>1, <3>1, <3>3 DEF Siblings, Reaches
      <4>2. j.stage = "send" /\ Adds(j.msg, c) /\ s \in j.to /\ task'[k] = j
        BY <1>1, <4>1 DEF Put, Adds
      <4>. QED  BY <4>2 DEF Coming
    <3>. QED  BY <3>2, <3>3
  <2>3. ASSUME Unfetched(s) PROVE Unfetched(s)'
    <3>1. CASE k = <<s, "handler">>
      <4>1. Stale(s \in fetched, queue[s])
        BY <1>1, <2>3, <3>1 DEF Unfetched
      <4>2. ~(j.stage = "send" /\ j.msg.kind = "directory") /\ task'[k] = j
        BY <1>1, IdleIs DEF Put
      <4>3. Stale(s \in fetched, queue[s])'
        BY <1>1, <4>1
      <4>. QED  BY <3>1, <4>2, <4>3 DEF Unfetched
    <3>2. CASE k # <<s, "handler">>
      <4>1. task'[<<s, "handler">>] = task[<<s, "handler">>]
        BY <1>1, <3>2, KeysAre DEF Put
      <4>. QED  BY <1>1, <2>3, <4>1 DEF Unfetched
    <3>. QED  BY <3>1, <3>2
  <2>4. Learns(s, c)
    BY <2>1 DEF MeshOK
  <2>. QED  BY <1>1, <2>2, <2>3, <2>4 DEF Learns
<1>. QED  BY <1>2 DEF MeshOK

\* A device takes a message.
LEMMA ReceiveMesh ==
    ASSUME Base, MeshOK, NEW x \in Sessions, Receive(x)
    PROVE  MeshOK'
<1>1. /\ queue[x] # <<>> /\ queue' = [queue EXCEPT ![x] = Tail(queue[x])]
      /\ UNCHANGED <<player, task, lost, moved, misled>>
  BY DEF Receive
<1>2. queue[x] \in Seq(Carried) /\ Head(queue[x]) = queue[x][1]
  BY <1>1, QueueShrinks DEF Base, TypesOK
<1>. DEFINE msg == queue[x][1]
            ids == IF msg.kind = "join" THEN known[x] \cup {msg.client}
                   ELSE IF msg.kind = "directory" THEN known[x] \cup msg.peers
                   ELSE IF msg.kind \in {"leave", "ack"} THEN known[x] \ {msg.client} ELSE known[x]
<1>3. /\ known' = [known EXCEPT ![x] = ids]
      /\ fetched' = IF msg.kind = "directory" THEN fetched \cup {x}
                    ELSE IF msg.kind = "ack" /\ msg.client # None THEN fetched \ {x} ELSE fetched
  BY <1>2 DEF Receive
<1>4. /\ known'[x] = ids /\ queue'[x] = Tail(queue[x])
      /\ \A s \in Sessions \ {x} : known'[s] = known[s] /\ queue'[s] = queue[s] /\ (s \in fetched' <=> s \in fetched)
  BY <1>1, <1>3 DEF Base, TypesOK
<1>5. /\ msg.kind # "directory" /\ x \notin fetched => x \notin fetched'
      /\ Unroutes(msg) => x \notin fetched'
  BY <1>3 DEF Unroutes
<1>6. \A c : /\ Adds(msg, c) => c \in ids
             /\ c \in known[x] /\ ~Drops(msg, c) => c \in ids
  BY DEF Adds, Drops
<1>. HIDE DEF ids
<1>7. ASSUME NEW s \in Sessions, NEW t \in Sessions, NEW c \in Clients, Reaches(s, t, c)'
      PROVE  Learns(s, c)'
  <2>1. Learns(s, c)
    BY <1>1, <1>7 DEF Reaches, In, MeshOK
  <2>2. Coming(s, c) => Coming(s, c)'
    BY <1>1 DEF Coming
  <2>3. CASE s # x
    <3>1. known'[s] = known[s] /\ queue'[s] = queue[s] /\ (s \in fetched' <=> s \in fetched)
      BY <1>4, <2>3
    <3>2. Unfetched(s) => Unfetched(s)'
      <4>1. task'[<<s, "handler">>] = task[<<s, "handler">>]
        BY <1>1
      <4>. QED  BY <3>1, <4>1 DEF Unfetched, Stale
    <3>. QED  BY <2>1, <2>2, <3>1, <3>2 DEF Learns
  <2>4. CASE s = x
    <3>1. /\ Lined(queue[x], c) => Lined(Tail(queue[x]), c) \/ Kept(ids, Tail(queue[x]), c)
          /\ Kept(known[x], queue[x], c) => Kept(ids, Tail(queue[x]), c)
          /\ Stale(x \in fetched, queue[x]) => Stale(x \in fetched', Tail(queue[x]))
      BY <1>1, <1>2, <1>5, <1>6, Taking
    <3>2. Unfetched(x) => Unfetched(x)'
      BY <1>1, <1>4, <3>1 DEF Unfetched
    <3>. QED  BY <1>4, <2>1, <2>2, <2>4, <3>1, <3>2 DEF Learns
  <2>. QED  BY <2>3, <2>4
<1>. QED  BY <1>7 DEF MeshOK

\* A message is sent to x.  One that takes an id away is either the answer that
\* x found nobody, or tells of a session whose id no sibling has.
LEMMA SendMesh ==
    ASSUME Base, MeshOK, NEW k \in Keys, NEW x \in Sessions, SendTo(k, x)
    PROVE  MeshOK'
<1>1. PICK j \in Task :
              /\ task[k].stage = "send" /\ x \in task[k].to /\ Put(k, j)
              /\ task[k].to # {x} =>
                    j.stage = "send" /\ j.msg = task[k].msg /\ j.user = task[k].user /\ j.to = task[k].to \ {x}
              /\ task[k].to = {x} =>
                    \/ j = Idle
                    \/ /\ j.stage = "send" /\ j.msg.kind = "ack" /\ j.msg.client = None /\ j.to = {k[1]}
                       /\ task[k].msg.kind = "data"
              /\ UNCHANGED <<player, known, fetched, sent, moved>>
  BY SendSteps
<1>. DEFINE msg == task[k].msg
<1>2. /\ queue' = IF Open(x) THEN [queue EXCEPT ![x] = Queued(queue[x], msg)] ELSE queue
      /\ lost' = IF Len(queue[x]) >= QueueCap THEN lost \cup {x} ELSE lost
      /\ misled' = IF Open(x) /\ msg.kind = "leave"
                        /\ \E p \in Siblings(task[k].user) : player[p].client = msg.client
                   THEN misled \cup {<<x, msg.client>>} ELSE misled
  BY DEF SendTo
<1>3. /\ Proper(k, task[k]) /\ msg \in Carried /\ queue \in [Sessions -> Seq(Carried)]
      /\ task[k] # Idle
  BY <1>1, IdleIs DEF Base, TasksOK, TypesOK, Task
<1>4. /\ msg.kind \in {"directory", "ack"} => task[k].to = {k[1]} /\ k[1] = x
      /\ msg.kind \in {"directory", "ack"} => k = <<x, "handler">>
  <2>1. msg.kind \in {"directory", "ack"} => task[k].to = {k[1]}
    BY <1>1, <1>3 DEF Proper
  <2>2. msg.kind \in {"directory", "ack"} => k[1] = x
    BY <1>1, <2>1
  <2>3. k[2] = "closing" => msg.kind = "leave"
    BY <1>3 DEF Proper
  <2>. QED  BY <2>1, <2>2, <2>3, KeysAre DEF Keys
<1>5. ASSUME NEW s \in Sessions, NEW t \in Sessions, NEW c \in Clients, Reaches(s, t, c)'
      PROVE  Learns(s, c)'
  <2>1. /\ In(s) /\ In(t) /\ player[s].user = player[t].user /\ player[t].client = c
        /\ s \notin lost' \cup moved /\ <<s, c>> \notin misled' /\ c # None
    BY <1>1, <1>5, NoneApart DEF Reaches, In
  <2>2. s \notin lost /\ <<s, c>> \notin misled
    BY <1>2, <2>1
  <2>3. Reaches(s, t, c)
    BY <1>1, <1>5, <2>2 DEF Reaches, In
  <2>4. Learns(s, c)
    BY <2>3 DEF MeshOK
  <2>5. s = x => queue'[x] = Append(queue[x], msg)
    <3>1. s = x => ~(Len(queue[x]) >= QueueCap)
      BY <1>2, <2>1
    <3>2. Len(queue[x]) \in Nat
      BY <1>3
    <3>3. s = x => Len(queue[x]) < QueueCap /\ Open(x)
      BY <2>1, <3>1, <3>2, NoneApart DEF In, Open
    <3>. QED  BY <1>2, <1>3, <3>3 DEF Queued
  <2>6. s # x => queue'[s] = queue[s]
    BY <1>2, <1>3
  <2>7. s = x => ~(msg.kind = "leave" /\ msg.client = c)
    <3>1. s = x /\ msg.kind = "leave" => task[k].user = player[t].user
      BY <1>1, <2>1 DEF Base, SentToOK, Reaches
    <3>2. s = x /\ msg.kind = "leave" => t \in Siblings(task[k].user)
      BY <2>1, <3>1 DEF Siblings
    <3>3. s = x => Open(x)
      BY <2>1 DEF In, Open
    <3>. QED  BY <1>2, <2>1, <3>2, <3>3
  <2>. DEFINE h == task[<<s, "handler">>]
              i == task'[<<s, "handler">>]
  <2>8. CASE s = x /\ Unroutes(msg)
    <3>1. k = <<s, "handler">> /\ task[k].to = {x} /\ j = Idle
      BY <1>1, <1>4, <2>8 DEF Unroutes
    <3>2. i = Idle
      BY <1>1, <3>1 DEF Put
    <3>3. Stale(s \in fetched', queue'[s])
      BY <1>3, <2>5, <2>8, Joining
    <3>4. Unfetched(s)'
      BY <3>2, <3>3, IdleIs DEF Unfetched
    <3>. QED  BY <3>4 DEF Learns
  <2>9. CASE s = x /\ ~Unroutes(msg)
    <3>1. ~Drops(msg, c)
      BY <2>1, <2>7, <2>9 DEF Drops, Unroutes
    <3>2. /\ Adds(msg, c) => Lined(queue'[s], c)
          /\ Lined(queue[s], c) => Lined(queue'[s], c)
          /\ Kept(known[s], queue[s], c) => Kept(known'[s], queue'[s], c)
          /\ msg.kind # "directory" /\ Stale(s \in fetched, queue[s]) => Stale(s \in fetched', queue'[s])
      <4>. DEFINE q == queue[s]
      <4>1. q \in Seq(Carried) /\ queue'[s] = Append(q, msg) /\ known' = known /\ fetched' = fetched
        BY <1>1, <1>3, <2>5, <2>9
      <4>2. /\ Adds(msg, c) => Lined(Append(q, msg), c)
            /\ Lined(q, c) => Lined(Append(q, msg), c)
            /\ Kept(known[s], q, c) => Kept(known[s], Append(q, msg), c)
            /\ msg.kind # "directory" /\ Stale(s \in fetched, q) => Stale(s \in fetched, Append(q, msg))
        BY <1>3, <3>1, <4>1, Joining
      <4>. QED  BY <4>1, <4>2
    <3>3. ASSUME Coming(s, c) PROVE Coming(s, c)' \/ Lined(queue'[s], c)
      <4>1. PICK q \in Keys :
          \/ /\ task[q].stage = "collect" /\ task[q].msg.kind = "join" /\ task[q].msg.client = c
             /\ task[q].user = player[s].user /\ task[q].except # s
          \/ task[q].stage = "send" /\ Adds(task[q].msg, c) /\ s \in task[q].to
        BY <3>3 DEF Coming
      <4>2. CASE q = k
        BY <1>1, <3>2, <4>1, <4>2
      <4>3. CASE q # k
        BY <1>1, <4>1, <4>3 DEF Put, Coming
      <4>. QED  BY <4>2, <4>3
    <3>4. ASSUME Unfetched(s) PROVE Unfetched(s)'
      <4>1. msg.kind # "directory"
        BY <1>1, <1>4, <2>9, <3>4 DEF Unfetched
      <4>2. CASE k = <<s, "handler">>
        <5>1. Stale(s \in fetched, queue[s])
          BY <1>1, <2>9, <3>4, <4>2 DEF Unfetched
        <5>2. ~(i.stage = "send" /\ i.msg.kind = "directory")
          BY <1>1, <4>1, <4>2, IdleIs DEF Put
        <5>. QED  BY <3>2, <4>1, <5>1, <5>2 DEF Unfetched
      <4>3. CASE k # <<s, "handler">>
        <5>1. i = h
          BY <1>1, <4>3, KeysAre DEF Put
        <5>. QED  BY <3>2, <3>4, <4>1, <5>1 DEF Unfetched
      <4>. QED  BY <4>2, <4>3
    <3>. QED  BY <2>4, <3>2, <3>3, <3>4 DEF Learns
  <2>10. CASE s # x
    <3>1. queue'[s] = queue[s] /\ known' = known /\ fetched' = fetched
      BY <1>1, <2>6, <2>10
    <3>3. ASSUME Coming(s, c) PROVE Coming(s, c)'
      <4>1. PICK q \in Keys :
          \/ /\ task[q].stage = "collect" /\ task[q].msg.kind = "join" /\ task[q].msg.client = c
             /\ task[q].user = player[s].user /\ task[q].except # s
          \/ task[q].stage = "send" /\ Adds(task[q].msg, c) /\ s \in task[q].to
        BY <3>3 DEF Coming
      <4>2. CASE q = k
        <5>1. Adds(msg, c) /\ s \in task[k].to /\ task[k].to # {x}
          BY <1>1, <2>10, <4>1, <4>2
        <5>2. task'[k].stage = "send" /\ Adds(task'[k].msg, c) /\ s \in task'[k].to
          BY <1>1, <2>10, <5>1 DEF Put
        <5>. QED  BY <5>2 DEF Coming
      <4>3. CASE q # k
        BY <1>1, <4>1, <4>3 DEF Put, Coming
      <4>. QED  BY <4>2, <4>3
    <3>4. ASSUME Unfetched(s) PROVE Unfetched(s)'
      <4>2. CASE k = <<s, "handler">>
        <5>1. msg.kind \notin {"directory", "ack"}
          BY <1>4, <2>10, <4>2
        <5>2. Stale(s \in fetched, queue[s])
          BY <1>1, <3>4, <4>2, <5>1 DEF Unfetched, Unroutes
        <5>3. ~(i.stage = "send" /\ i.msg.kind = "directory")
          BY <1>1, <4>2, <5>1, IdleIs DEF Put
        <5>. QED  BY <3>1, <5>2, <5>3 DEF Unfetched
      <4>3. CASE k # <<s, "handler">>
        <5>1. i = h
          BY <1>1, <4>3, KeysAre DEF Put
        <5>. QED  BY <3>1, <3>4, <5>1 DEF Unfetched
      <4>. QED  BY <4>2, <4>3
    <3>5. /\ Lined(queue[s], c) => Lined(queue'[s], c)
          /\ Kept(known[s], queue[s], c) => Kept(known'[s], queue'[s], c)
      BY <3>1
    <3>. QED  BY <2>4, <3>3, <3>4, <3>5 DEF Learns
  <2>. QED  BY <2>8, <2>9, <2>10
<1>. QED  BY <1>5 DEF MeshOK

LEMMA RegisterMesh ==
    ASSUME Base, MeshOK, NEW x \in Sessions, register_connection(x)
    PROVE  MeshOK'
<1>1. /\ player[x].state = "new" /\ player' = [player EXCEPT ![x].state = "open"]
      /\ UNCHANGED <<queue, task, known, fetched, sent, due, lost, moved, misled>>
  BY DEF register_connection, history
<1>2. /\ \A s \in Sessions : player'[s].user = player[s].user /\ player'[s].client = player[s].client
      /\ \A s \in Sessions : player'[s].state = "in" => player[s].state = "in"
  BY <1>1 DEF Base, TypesOK, Player
<1>3. ASSUME NEW s \in Sessions, NEW t \in Sessions, NEW c \in Clients, Reaches(s, t, c)'
      PROVE  Learns(s, c)'
  <2>1. Reaches(s, t, c)
    BY <1>1, <1>2, <1>3 DEF Reaches, In
  <2>2. Coming(s, c) => Coming(s, c)'
    BY <1>1, <1>2 DEF Coming
  <2>3. Unfetched(s) => Unfetched(s)'
    BY <1>1 DEF Unfetched
  <2>. QED  BY <1>1, <2>1, <2>2, <2>3 DEF MeshOK, Learns
<1>. QED  BY <1>3 DEF MeshOK

LEMMA MeshKept == Base /\ MeshOK /\ [Next]_vars => MeshOK'
<1>. SUFFICES ASSUME Base, MeshOK, [Next]_vars PROVE MeshOK'
  OBVIOUS
<1>1. ASSUME NEW s \in Sessions, relay_cloud_sync_op(s) PROVE MeshOK'
  <2>1. PICK to \in SUBSET Sessions, j \in Task :
              /\ task[<<s, "handler">>] = Idle
              /\ Put(<<s, "handler">>, j)
              /\ to # {} => j.stage = "send" /\ j.msg.kind = "data" /\ j.msg.n = sent /\ j.to = to
              /\ to = {} => \/ j = Idle
                            \/ j.stage = "send" /\ j.msg.kind = "ack" /\ j.to = {s}
              /\ UNCHANGED <<player, queue, known, fetched, lost, moved, misled>>
    BY <1>1, RelaySteps
  <2>2. ~(j.stage = "send" /\ j.msg.kind = "directory")
    BY <2>1, IdleIs
  <2>. QED  BY <2>1, <2>2, SendingMesh
<1>2. ASSUME NEW s \in Sessions, sync_peers_op(s) PROVE MeshOK'
  <2>1. PICK j \in Task :
              /\ task[<<s, "handler">>] = Idle
              /\ Put(<<s, "handler">>, j) /\ j.stage = "send" /\ j.to = {s}
              /\ j.msg.kind = "directory" /\ j.msg.peers = Directory(s)
              /\ UNCHANGED <<player, queue, known, fetched, due, lost, moved, misled>>
    BY <1>2, PeersSteps
  <2>. QED  BY <2>1, SendingMesh
<1>3. CASE UNCHANGED vars
  <2>1. UNCHANGED <<player, queue, task, known, fetched, lost, moved, misled>>
    BY <1>3 DEF vars
  <2>. QED  BY <2>1 DEF MeshOK, Reaches, Learns, Coming, Unfetched, In
<1>. QED  BY <1>1, <1>2, <1>3, AnnounceMesh, LeaveMesh, CollectMesh, SendMesh, ReceiveMesh, RegisterMesh
          DEF Next, Keys

LEMMA MeshInit == Init => MeshOK
<1>. SUFFICES ASSUME Init PROVE MeshOK
  OBVIOUS
<1>1. \A s \in Sessions : ~In(s)
  BY DEF Init, In
<1>. QED  BY <1>1 DEF MeshOK, Reaches

\* A device that has fetched the directory knows its siblings, for any number
\* of devices, accounts and messages and any length of the queues, whichever
\* handlers interleave and whichever sessions end.
THEOREM MeshKnown == Spec => []KnowsMesh
<1>1. Base /\ MeshOK => KnowsMesh
  <2>. SUFFICES ASSUME Base, MeshOK, AtRest, NEW s \in Sessions, NEW t \in Sessions,
                       In(s), In(t), s # t, player[s].user = player[t].user, s \in fetched,
                       player[t].client # None, s \notin lost \cup moved, t \notin moved,
                       <<s, player[t].client>> \notin misled
                PROVE  player[t].client \in known[s]
    BY DEF KnowsMesh
  <2>. DEFINE c == player[t].client
  <2>1. c \in Clients
    BY DEF Base, TypesOK, Player
  <2>2. Learns(s, c)
    BY <2>1 DEF MeshOK, Reaches
  <2>3. /\ \A k \in Keys : task[k] = Idle
        /\ queue[s] = <<>> /\ Len(queue[s]) = 0
    <3>1. DOMAIN task = Keys
      BY DEF Base, TypesOK
    <3>2. queue[s] = <<>>
      BY DEF AtRest, In, Open
    <3>. QED  BY <3>1, <3>2 DEF AtRest
  <2>4. ~Coming(s, c)
    BY <2>3, IdleIs DEF Coming
  <2>5. ~Lined(queue[s], c)
    BY <2>3 DEF Lined
  <2>6. ~Unfetched(s)
    <3>1. ~Stale(s \in fetched, queue[s])
      BY <2>3 DEF Stale
    <3>2. task[<<s, "handler">>].stage = "idle"
      BY <2>3, IdleIs, KeysAre
    <3>. QED  BY <3>1, <3>2 DEF Unfetched
  <2>. QED  BY <2>2, <2>4, <2>5, <2>6 DEF Learns, Kept
<1>. QED  BY <1>1, BaseInit, BaseKept, MeshInit, MeshKept, PTL DEF Spec
-----------------------------------------------------------------------------
\* A message at the end of a queue, and the queue without its head.
LEMMA FrameQueued ==
    ASSUME NEW q \in Seq(Carried), NEW m \in Carried
    PROVE  /\ \A f, n : InQueue(Append(q, m), f, n) <=> InQueue(q, f, n) \/ IsFrame(m, f, n)
           /\ InOrder(q) /\ (m.kind = "data" => \A n \in Nat : InQueue(q, m.from, n) => n < m.n)
                 => InOrder(Append(q, m))
<1>. DEFINE p == Append(q, m)
            l == Len(q)
<1>1. /\ Len(p) = l + 1 /\ l \in Nat /\ p[l + 1] = m
      /\ \A i \in 1..l : p[i] = q[i] /\ q[i] \in Carried
  BY QueueGrows
<1>2. /\ \A i \in 1..(l + 1) : i \in 1..l \/ i = l + 1
      /\ \A i \in 1..l : i \in 1..(l + 1) /\ i < l + 1
      /\ l + 1 \in 1..(l + 1)
      /\ \A i \in 1..(l + 1) : ~(l + 1 < i)
  BY <1>1
<1>. HIDE DEF p
<1>3. ASSUME NEW f, NEW n PROVE InQueue(p, f, n) <=> InQueue(q, f, n) \/ IsFrame(m, f, n)
  BY <1>1, <1>2 DEF InQueue
<1>4. ASSUME InOrder(q), m.kind = "data" => \A n \in Nat : InQueue(q, m.from, n) => n < m.n
      PROVE  InOrder(p)
  <2>. SUFFICES ASSUME NEW i \in 1..(l + 1), NEW j \in 1..(l + 1), i < j,
                       p[i].kind = "data", p[j].kind = "data", p[i].from = p[j].from
                PROVE  p[i].n < p[j].n
    BY <1>1 DEF InOrder
  <2>1. i \in 1..l
    BY <1>2
  <2>2. CASE j \in 1..l
    BY <1>1, <1>4, <2>1, <2>2 DEF InOrder
  <2>3. CASE j = l + 1
    <3>1. p[i] = q[i] /\ p[j] = m /\ q[i].n \in Nat
      BY <1>1, <2>1, <2>3 DEF Carried, Message
    <3>2. InQueue(q, m.from, q[i].n)
      BY <2>1, <3>1 DEF InQueue, IsFrame
    <3>. QED  BY <1>4, <3>1, <3>2
  <2>. QED  BY <1>2, <2>2, <2>3
<1>. QED  BY <1>3, <1>4 DEF p

LEMMA FrameTaken ==
    ASSUME NEW q \in Seq(Carried), q # <<>>
    PROVE  /\ \A f, n : InQueue(q, f, n) <=> InQueue(Tail(q), f, n) \/ IsFrame(q[1], f, n)
           /\ InOrder(q) => /\ InOrder(Tail(q))
                            /\ \A f, n, o : IsFrame(q[1], f, n) /\ InQueue(Tail(q), f, o) => n < o
<1>. DEFINE p == Tail(q)
            l == Len(p)
<1>1. /\ Len(q) = l + 1 /\ l \in Nat
      /\ \A i \in 1..l : p[i] = q[i + 1]
  BY QueueShrinks
<1>2. /\ \A i \in 1..l : i + 1 \in 1..(l + 1) /\ 1 < i + 1
      /\ \A i \in 1..(l + 1) : i = 1 \/ (i - 1 \in 1..l /\ i = (i - 1) + 1)
      /\ 1 \in 1..(l + 1)
      /\ \A i, j \in 1..l : i < j => i + 1 < j + 1
  BY <1>1
<1>. HIDE DEF p
<1>3. ASSUME NEW f, NEW n PROVE InQueue(q, f, n) <=> InQueue(p, f, n) \/ IsFrame(q[1], f, n)
  <2>1. ASSUME InQueue(q, f, n) PROVE InQueue(p, f, n) \/ IsFrame(q[1], f, n)
    <3>1. PICK i \in 1..(l + 1) : IsFrame(q[i], f, n)
      BY <1>1, <2>1 DEF InQueue
    <3>2. i = 1 \/ (i - 1 \in 1..l /\ p[i - 1] = q[i])
      BY <1>1, <1>2
    <3>. QED  BY <3>1, <3>2 DEF InQueue
  <2>2. ASSUME InQueue(p, f, n) PROVE InQueue(q, f, n)
    <3>1. PICK i \in 1..l : IsFrame(p[i], f, n)
      BY <2>2 DEF InQueue
    <3>2. i + 1 \in 1..Len(q) /\ q[i + 1] = p[i]
      BY <1>1, <1>2
    <3>. QED  BY <3>1, <3>2 DEF InQueue
  <2>3. IsFrame(q[1], f, n) => InQueue(q, f, n)
    BY <1>1, <1>2 DEF InQueue
  <2>. QED  BY <2>1, <2>2, <2>3
<1>4. ASSUME InOrder(q)
      PROVE  InOrder(p) /\ \A f, n, o : IsFrame(q[1], f, n) /\ InQueue(p, f, o) => n < o
  <2>1. ASSUME NEW i \in 1..l, NEW j \in 1..l, i < j,
               p[i].kind = "data", p[j].kind = "data", p[i].from = p[j].from
        PROVE  p[i].n < p[j].n
    <3>1. /\ i + 1 \in 1..Len(q) /\ j + 1 \in 1..Len(q) /\ i + 1 < j + 1
          /\ p[i] = q[i + 1] /\ p[j] = q[j + 1]
      BY <1>1, <1>2, <2>1
    <3>. QED  BY <1>4, <2>1, <3>1 DEF InOrder
  <2>2. ASSUME NEW f, NEW n, NEW o, IsFrame(q[1], f, n), InQueue(p, f, o) PROVE n < o
    <3>1. PICK i \in 1..l : IsFrame(p[i], f, o)
      BY <2>2 DEF InQueue
    <3>2. i + 1 \in 1..Len(q) /\ 1 \in 1..Len(q) /\ 1 < i + 1 /\ q[i + 1] = p[i]
      BY <1>1, <1>2
    <3>. QED  BY <1>4, <2>2, <3>1, <3>2 DEF InOrder, IsFrame
  <2>. QED  BY <2>1, <2>2 DEF InOrder
<1>. QED  BY <1>3, <1>4 DEF p

\* A step that neither begins nor ends the sending of a frame.
LEMMA FramesStay ==
    ASSUME Base, Base', FramesOK, sent' \in {sent, sent + 1}, UNCHANGED <<queue, due>>,
           \A s, f \in Sessions, n \in Nat : Sends(f, n, s)' <=> Sends(f, n, s),
           \A s \in Sessions : /\ player[s].state = "in" => player'[s].state = "in"
                               /\ \A k \in Keys : s \in task[k].to /\ player'[s].state = "in" => In(s)
    PROVE  FramesOK'
<1>1. sent \in Nat /\ \A s \in Sessions : In(s) => In(s)'
  BY DEF Base, TypesOK, In
<1>2. ASSUME NEW s \in Sessions, NEW f \in Sessions, NEW n \in Nat PROVE FrameOK(s, f, n)'
  <2>1. FrameOK(s, f, n)
    BY DEF FramesOK
  <2>2. Sends(f, n, s)' /\ In(s)' => Sends(f, n, s) /\ In(s)
    BY KeysAre DEF Sends, In
  <2>3. Sends(f, n, s)' <=> Sends(f, n, s)
    OBVIOUS
  <2>4. n < sent => n < sent'
    BY <1>1
  <2>. HIDE DEF Sends
  <2>. QED  BY <2>1, <2>2, <2>3, <2>4 DEF FrameOK
<1>. QED  BY <1>1, <1>2 DEF FramesOK
-----------------------------------------------------------------------------
NoFrame(j) == ~(j.stage = "send" /\ j.msg.kind = "data")

\* A task that sends no frame becomes another that sends none.
LEMMA NoFramePut ==
    ASSUME NEW k, NEW j, Put(k, j), NoFrame(task[k]), NoFrame(j)
    PROVE  \A s, f \in Sessions, n \in Nat : Sends(f, n, s)' <=> Sends(f, n, s)
BY KeysAre DEF Put, NoFrame, Sends, IsFrame

LEMMA AnnounceFrames ==
    ASSUME Base, Base', FramesOK, NEW x \in Sessions, identify_player(x) \/ update_client_settings(x)
    PROVE  FramesOK'
<1>1. PICK u \in Users, c \in Clients \cup {None}, j \in Task :
              /\ Open(x) /\ task[<<x, "handler">>] = Idle /\ sent' = sent + 1
              /\ \A t \in Sessions \ {x} : player'[t] = player[t]
              /\ player'[x].state = "in"
              /\ Put(<<x, "handler">>, j) /\ j.stage \in {"idle", "collect"}
              /\ UNCHANGED <<queue, known, fetched, due, lost, misled>>
  BY AnnounceSteps
<1>2. \A s, f \in Sessions, n \in Nat : Sends(f, n, s)' <=> Sends(f, n, s)
  BY <1>1, NoFramePut, IdleIs DEF NoFrame
<1>3. ASSUME NEW s \in Sessions
      PROVE  /\ player[s].state = "in" => player'[s].state = "in"
             /\ \A k \in Keys : s \in task[k].to /\ player'[s].state = "in" => In(s)
  <2>1. \A k \in Keys : s \in task[k].to => player[s].state \in {"in", "closed"}
    BY DEF Base, SentToOK
  <2>. QED  BY <1>1, <2>1 DEF In, Open
<1>. QED  BY <1>1, <1>2, <1>3, FramesStay

LEMMA PeersFrames ==
    ASSUME Base, Base', FramesOK, NEW x \in Sessions, sync_peers_op(x)
    PROVE  FramesOK'
<1>1. PICK j \in Task :
              /\ task[<<x, "handler">>] = Idle /\ sent' = sent + 1
              /\ Put(<<x, "handler">>, j) /\ j.msg.kind = "directory"
              /\ UNCHANGED <<player, queue, known, fetched, due, lost, moved, misled>>
  BY PeersSteps
<1>2. \A s, f \in Sessions, n \in Nat : Sends(f, n, s)' <=> Sends(f, n, s)
  BY <1>1, NoFramePut, IdleIs DEF NoFrame
<1>3. \A s \in Sessions : player[s].state = "in" => In(s)
  BY DEF In
<1>. QED  BY <1>1, <1>2, <1>3, FramesStay

LEMMA CollectFrames ==
    ASSUME Base, Base', FramesOK, NEW k \in Keys, Collect(k)
    PROVE  FramesOK'
<1>1. PICK j \in Task :
              /\ task[k].stage = "collect" /\ task[k].msg.kind \in {"join", "update", "leave"}
              /\ Put(k, j) /\ (j = Idle \/ j.msg = task[k].msg)
              /\ UNCHANGED <<player, queue, known, fetched, sent, due, lost, moved, misled>>
  BY CollectSteps
<1>2. \A s, f \in Sessions, n \in Nat : Sends(f, n, s)' <=> Sends(f, n, s)
  BY <1>1, NoFramePut, IdleIs DEF NoFrame
<1>3. \A s \in Sessions : player[s].state = "in" => In(s)
  BY DEF In
<1>. QED  BY <1>1, <1>2, <1>3, FramesStay

LEMMA RegisterFrames ==
    ASSUME Base, Base', FramesOK, NEW x \in Sessions, register_connection(x)
    PROVE  FramesOK'
<1>1. /\ player[x].state = "new" /\ player' = [player EXCEPT ![x].state = "open"]
      /\ UNCHANGED <<queue, task, known, fetched, sent, due, lost, moved, misled>>
  BY DEF register_connection, history
<1>2. \A s \in Sessions : player'[s].state = "in" <=> player[s].state = "in"
  BY <1>1 DEF Base, TypesOK, Player
<1>3. \A s, f \in Sessions, n \in Nat : Sends(f, n, s)' <=> Sends(f, n, s)
  BY <1>1 DEF Sends
<1>. QED  BY <1>1, <1>2, <1>3, FramesStay DEF In

LEMMA RelayFrames ==
    ASSUME Base, Base', FramesOK, NEW x \in Sessions, relay_cloud_sync_op(x)
    PROVE  FramesOK'
<1>1. PICK to \in SUBSET Sessions, j \in Task :
              /\ task[<<x, "handler">>] = Idle /\ sent' = sent + 1
              /\ \A t \in to : In(t)
              /\ Put(<<x, "handler">>, j)
              /\ to # {} => j.stage = "send" /\ j.msg.kind = "data" /\ j.msg.n = sent /\ j.to = to
              /\ to = {} => j = Idle \/ j.msg.kind = "ack"
              /\ due' = [t \in Sessions |-> IF t \in to THEN due[t] \cup {<<x, sent>>} ELSE due[t]]
              /\ UNCHANGED <<player, queue, known, fetched, lost, moved, misled>>
  BY RelaySteps
<1>. DEFINE k == <<x, "handler">>
<1>2. sent \in Nat /\ due \in [Sessions -> SUBSET (Sessions \X Nat)] /\ k \in Keys /\ k[1] = x
  BY KeysAre DEF Base, TypesOK, FramesOK
<1>3. \A s, f \in Sessions, n \in Nat :
          Sends(f, n, s)' <=> Sends(f, n, s) \/ (s \in to /\ f = x /\ n = sent)
  <2>1. \A f \in Sessions \ {x} : task'[<<f, "handler">>] = task[<<f, "handler">>]
    BY <1>1, KeysAre DEF Put
  <2>2. \A s \in Sessions, n \in Nat : ~Sends(x, n, s)
    BY <1>1, IdleIs DEF Sends
  <2>3. task'[k] = j /\ (j.msg.kind = "data" => j.msg.from = x)
    BY <1>1 DEF Put, Proper
  <2>4. to = {} => ~(j.msg.kind = "data")
    BY <1>1, IdleIs
  <2>5. \A s \in Sessions, n \in Nat : Sends(x, n, s)' <=> s \in to /\ n = sent
    BY <1>1, <2>3, <2>4 DEF Sends, IsFrame
  <2>6. \A s \in Sessions, f \in Sessions \ {x}, n \in Nat : Sends(f, n, s)' <=> Sends(f, n, s)
    BY <2>1 DEF Sends
  <2>. QED  BY <2>2, <2>5, <2>6
<1>4. \A s, f \in Sessions, n \in Nat :
          <<f, n>> \in due'[s] <=> <<f, n>> \in due[s] \/ (s \in to /\ f = x /\ n = sent)
  BY <1>1, <1>2
<1>5. due' \in [Sessions -> SUBSET (Sessions \X Nat)]
  <2>1. \A s \in Sessions : due'[s] \in SUBSET (Sessions \X Nat)
    BY <1>1, <1>2
  <2>. QED  BY <1>1, <2>1
<1>6. ASSUME NEW s \in Sessions, NEW f \in Sessions, NEW n \in Nat PROVE FrameOK(s, f, n)'
  <2>1. FrameOK(s, f, n) /\ \A o \in Nat : FrameOK(s, f, o)
    BY DEF FramesOK
  <2>2. s \in to => \A o \in Nat : InQueue(queue[s], f, o) => o < sent
    BY <2>1 DEF FrameOK
  <2>3. /\ Sends(f, n, s)' <=> Sends(f, n, s) \/ (s \in to /\ f = x /\ n = sent)
        /\ <<f, n>> \in due'[s] <=> <<f, n>> \in due[s] \/ (s \in to /\ f = x /\ n = sent)
        /\ queue'[s] = queue[s] /\ (In(s)' <=> In(s)) /\ sent' = sent + 1
    BY <1>1, <1>3, <1>4 DEF In
  <2>. HIDE DEF Sends
  <2>. QED  BY <1>2, <2>1, <2>2, <2>3 DEF FrameOK
<1>7. \A s \in Sessions : InOrder(queue'[s]) /\ (player'[s].state # "in" => due'[s] = {})
  <2>1. \A s \in Sessions : player[s].state # "in" => s \notin to /\ due[s] = {}
    BY <1>1 DEF FramesOK, In
  <2>2. \A s \in Sessions : InOrder(queue[s])
    BY DEF FramesOK
  <2>. QED  BY <1>1, <2>1, <2>2
<1>. QED  BY <1>5, <1>6, <1>7 DEF FramesOK, In
\* What concerned a session that ends is forgotten.
LEMMA LeaveFrames ==
    ASSUME Base, Base', FramesOK, NEW x \in Sessions, disconnect_player(x)
    PROVE  FramesOK'
<1>1. PICK j \in Task :
              /\ Put(<<x, "closing">>, j)
              /\ \A t \in Sessions \ {x} : player'[t] = player[t]
              /\ player'[x].state = "closed"
  BY LeaveSteps
<1>2. /\ queue' = [queue EXCEPT ![x] = <<>>] /\ due' = [due EXCEPT ![x] = {}] /\ sent' = sent
  BY DEF disconnect_player
<1>3. \A s, f \in Sessions, n \in Nat : Sends(f, n, s)' <=> Sends(f, n, s)
  <2>1. \A f \in Sessions : task'[<<f, "handler">>] = task[<<f, "handler">>]
    BY <1>1, KeysAre DEF Put
  <2>. QED  BY <2>1 DEF Sends
<1>4. /\ queue'[x] = <<>> /\ Len(queue'[x]) = 0 /\ due'[x] = {}
      /\ \A s \in Sessions \ {x} : queue'[s] = queue[s] /\ due'[s] = due[s]
      /\ due' \in [Sessions -> SUBSET (Sessions \X Nat)]
  BY <1>2 DEF Base, TypesOK, FramesOK
<1>5. ASSUME NEW s \in Sessions, NEW f \in Sessions, NEW n \in Nat PROVE FrameOK(s, f, n)'
  <2>1. FrameOK(s, f, n)
    BY DEF FramesOK
  <2>2. CASE s = x
    <3>1. ~InQueue(queue'[s], f, n)
      BY <1>4, <2>2 DEF InQueue
    <3>. QED  BY <1>1, <1>4, <2>2, <3>1 DEF FrameOK, In
  <2>3. CASE s # x
    <3>1. /\ queue'[s] = queue[s] /\ due'[s] = due[s] /\ (In(s)' <=> In(s))
          /\ Sends(f, n, s)' <=> Sends(f, n, s)
      BY <1>1, <1>3, <1>4, <2>3 DEF In
    <3>. HIDE DEF Sends
    <3>. QED  BY <1>2, <2>1, <3>1 DEF FrameOK
  <2>. QED  BY <2>2, <2>3
<1>6. \A s \in Sessions : InOrder(queue'[s]) /\ (player'[s].state # "in" => due'[s] = {})
  <2>1. InOrder(queue'[x])
    BY <1>4 DEF InOrder
  <2>2. \A s \in Sessions \ {x} : InOrder(queue[s]) /\ (player[s].state # "in" => due[s] = {})
    BY DEF FramesOK, In
  <2>. QED  BY <1>1, <1>4, <2>1, <2>2
<1>. QED  BY <1>4, <1>5, <1>6 DEF FramesOK, In

\* A message that is no frame is sent.
LEMMA SendOtherFrames ==
    ASSUME Base, Base', FramesOK, NEW k \in Keys, NEW x \in Sessions, SendTo(k, x),
           task[k].msg.kind # "data"
    PROVE  FramesOK'
<1>. DEFINE msg == task[k].msg
<1>1. PICK j \in Task :
              /\ task[k].stage = "send" /\ Put(k, j)
              /\ j = Idle \/ j.msg = msg
              /\ UNCHANGED <<player, known, fetched, sent, moved>>
  BY SendSteps
<1>2. \A s, f \in Sessions, n \in Nat : Sends(f, n, s)' <=> Sends(f, n, s)
  BY <1>1, NoFramePut, IdleIs DEF NoFrame
<1>3. msg \in Carried /\ queue \in [Sessions -> Seq(Carried)]
  BY DEF Base, TypesOK, Task
<1>4. due \in [Sessions -> SUBSET (Sessions \X Nat)]
  BY DEF FramesOK
<1>5. due' = due
  <2>1. msg.from \notin Sessions
    BY <1>3, NoneApart DEF Carried
  <2>2. due[x] \ {<<msg.from, msg.n>>} = due[x]
    <3>1. due[x] \in SUBSET (Sessions \X Nat)
      BY <1>4
    <3>2. <<msg.from, msg.n>> \notin Sessions \X Nat
      BY <2>1
    <3>. QED  BY <3>1, <3>2
  <2>3. due' = [due EXCEPT ![x] = due[x] \ {<<msg.from, msg.n>>}] \/ due' = due
    BY DEF SendTo
  <2>. QED  BY <1>4, <2>2, <2>3
<1>6. queue' = queue \/ queue' = [queue EXCEPT ![x] = Append(queue[x], msg)]
  <2>1. queue' = IF Open(x) THEN [queue EXCEPT ![x] = Queued(queue[x], msg)] ELSE queue
    BY DEF SendTo
  <2>2. Queued(queue[x], msg) \in {queue[x], Append(queue[x], msg)}
    BY DEF Queued
  <2>. QED  BY <1>3, <2>1, <2>2
<1>7. ASSUME NEW s \in Sessions
      PROVE  /\ \A f, n : InQueue(queue'[s], f, n) <=> InQueue(queue[s], f, n)
             /\ InOrder(queue[s]) => InOrder(queue'[s])
  <2>1. queue'[s] = queue[s] \/ queue'[s] = Append(queue[s], msg)
    BY <1>3, <1>6
  <2>2. queue[s] \in Seq(Carried) /\ \A f, n : ~IsFrame(msg, f, n)
    BY <1>3 DEF IsFrame
  <2>3. CASE queue'[s] = queue[s]
    BY <2>3
  <2>4. CASE queue'[s] = Append(queue[s], msg)
    <3>1. \A f, n : InQueue(Append(queue[s], msg), f, n) <=> InQueue(queue[s], f, n)
      BY <1>3, <2>2, FrameQueued
    <3>2. InOrder(queue[s]) => InOrder(Append(queue[s], msg))
      BY <1>3, <2>2, FrameQueued
    <3>. QED  BY <2>4, <3>1, <3>2
  <2>. QED  BY <2>1, <2>3, <2>4
<1>8. ASSUME NEW s \in Sessions, NEW f \in Sessions, NEW n \in Nat PROVE FrameOK(s, f, n)'
  <2>1. FrameOK(s, f, n)
    BY DEF FramesOK
  <2>2. (In(s)' <=> In(s)) /\ (Sends(f, n, s)' <=> Sends(f, n, s))
    BY <1>1, <1>2 DEF In
  <2>. HIDE DEF Sends
  <2>. QED  BY <1>1, <1>5, <1>7, <2>1, <2>2 DEF FrameOK
<1>9. \A s \in Sessions : InOrder(queue'[s]) /\ (player'[s].state # "in" => due'[s] = {})
  BY <1>1, <1>5, <1>7 DEF FramesOK, In
<1>. QED  BY <1>4, <1>5, <1>8, <1>9 DEF FramesOK, In

\* A frame is queued behind the earlier ones of its session, or is given up.
LEMMA SendFrame ==
    ASSUME Base, Base', FramesOK, NEW k \in Keys, NEW x \in Sessions, SendTo(k, x),
           task[k].msg.kind = "data"
    PROVE  FramesOK'
<1>. DEFINE msg == task[k].msg
<1>1. PICK j \in Task :
              /\ task[k].stage = "send" /\ x \in task[k].to /\ Put(k, j)
              /\ task[k].to # {x} => j.stage = "send" /\ j.msg = msg /\ j.to = task[k].to \ {x}
              /\ task[k].to = {x} => j = Idle \/ j.msg.kind = "ack"
              /\ UNCHANGED <<player, known, fetched, sent, moved>>
  BY SendSteps
<1>2. /\ msg \in Carried /\ queue \in [Sessions -> Seq(Carried)]
      /\ \A s \in Sessions : Len(queue[s]) \in Nat
  <2>1. msg \in Carried /\ queue \in [Sessions -> Seq(Carried)]
    BY DEF Base, TypesOK, Task
  <2>2. \A s \in Sessions : Len(queue[s]) \in Nat
    BY <2>1
  <2>. QED  BY <2>1, <2>2
<1>0. PICK sender \in Sessions, number \in Nat : sender = msg.from /\ number = msg.n
  BY <1>2 DEF Carried, Message
<1>3. k = <<sender, "handler">>
  <2>1. Proper(k, task[k]) /\ task[k] # Idle
    BY <1>1, IdleIs DEF Base, TasksOK
  <2>. QED  BY <1>0, <2>1, KeysAre DEF Proper, Keys
<1>4. due \in [Sessions -> SUBSET (Sessions \X Nat)]
  BY DEF FramesOK
<1>5. /\ Sends(sender, number, x)
      /\ \A s, f \in Sessions, n \in Nat : Sends(f, n, s)' <=> Sends(f, n, s) /\ ~(f = sender /\ s = x)
  <2>1. Sends(sender, number, x)
    BY <1>0, <1>1, <1>3 DEF Sends, IsFrame
  <2>2. \A f \in Sessions \ {sender} : task'[<<f, "handler">>] = task[<<f, "handler">>]
    BY <1>1, <1>3, KeysAre DEF Put
  <2>3. \A s \in Sessions, f \in Sessions \ {sender}, n \in Nat : Sends(f, n, s)' <=> Sends(f, n, s)
    BY <2>2 DEF Sends
  <2>4. ASSUME NEW s \in Sessions, NEW n \in Nat
        PROVE  Sends(sender, n, s)' <=> Sends(sender, n, s) /\ s # x
    <3>1. task'[<<sender, "handler">>] = j /\ task[<<sender, "handler">>] = task[k]
      BY <1>1, <1>3 DEF Put
    <3>2. Sends(sender, n, s) <=> number = n /\ s \in task[k].to
      BY <1>0, <1>1, <3>1 DEF Sends, IsFrame
    <3>3. Sends(sender, n, s)' <=> number = n /\ s \in task[k].to /\ s # x
      <4>1. CASE task[k].to = {x}
        <5>1. ~(j.stage = "send" /\ j.msg.kind = "data")
          BY <1>1, <4>1, IdleIs
        <5>. QED  BY <1>0, <3>1, <4>1, <5>1 DEF Sends, IsFrame
      <4>2. CASE task[k].to # {x}
        BY <1>0, <1>1, <3>1, <4>2 DEF Sends, IsFrame
      <4>. QED  BY <4>1, <4>2
    <3>. HIDE DEF Sends
    <3>. QED  BY <3>2, <3>3
  <2>. QED  BY <2>1, <2>3, <2>4
<1>. HIDE DEF Sends
<1>6. /\ queue' = IF Open(x) THEN [queue EXCEPT ![x] = Queued(queue[x], msg)] ELSE queue
      /\ due' = IF Len(queue[x]) >= QueueCap THEN [due EXCEPT ![x] = due[x] \ {<<sender, number>>}] ELSE due
  BY <1>0 DEF SendTo
<1>7. \A s \in Sessions \ {x} : queue'[s] = queue[s] /\ due'[s] = due[s]
  BY <1>2, <1>4, <1>6
<1>8. due' \in [Sessions -> SUBSET (Sessions \X Nat)]
  <2>. DEFINE rest == due[x] \ {<<sender, number>>}
  <2>1. rest \in SUBSET (Sessions \X Nat)
    BY <1>4
  <2>. QED  BY <1>4, <1>6, <2>1
<1>9. \A s \in Sessions : (In(s)' <=> In(s)) /\ InOrder(queue[s]) /\ (~In(s) => due[s] = {})
  BY <1>1 DEF In, FramesOK
<1>10. \A s, f \in Sessions, n \in Nat : FrameOK(s, f, n)
  BY DEF FramesOK
<1>11. ASSUME NEW s \in Sessions, s # x
       PROVE  InOrder(queue'[s]) /\ (~In(s) => due'[s] = {}) /\ \A f \in Sessions, n \in Nat : FrameOK(s, f, n)'
  BY <1>1, <1>5, <1>7, <1>9, <1>10, <1>11 DEF FrameOK
<1>12. CASE ~In(x)
  <2>1. queue[x] = <<>> /\ player[x].state \in {"in", "closed"}
    BY <1>1, <1>12 DEF Base, QuietOK, SentToOK
  <2>2. ~Open(x) /\ ~(Len(queue[x]) >= QueueCap)
    BY <1>12, <2>1, NoneApart DEF Open, In
  <2>3. queue' = queue /\ due' = due
    BY <1>6, <2>2
  <2>4. \A f \in Sessions, n \in Nat : FrameOK(x, f, n)'
    BY <1>9, <1>10, <1>12, <2>3 DEF FrameOK
  <2>. QED  BY <1>8, <1>9, <1>11, <2>3, <2>4 DEF FramesOK
<1>13. CASE In(x) /\ Len(queue[x]) >= QueueCap
  <2>1. queue'[x] = queue[x] /\ due'[x] = due[x] \ {<<sender, number>>}
    BY <1>2, <1>4, <1>6, <1>13, NoneApart DEF Queued
  <2>2. \A o \in Nat : InQueue(queue[x], sender, o) => o < number
    BY <1>2, <1>5, <1>10, <1>13 DEF FrameOK
  <2>3. ASSUME NEW f \in Sessions, NEW n \in Nat PROVE FrameOK(x, f, n)'
    <3>1. FrameOK(x, f, n) /\ (Sends(f, n, x)' <=> Sends(f, n, x) /\ f # sender)
      BY <1>5, <1>10
    <3>2. Sends(sender, n, x) => n = number
      BY <1>5 DEF Sends, IsFrame
    <3>3. InQueue(queue[x], sender, n) => n < number
      BY <2>2
    <3>4. <<f, n>> \in due'[x] <=> <<f, n>> \in due[x] /\ ~(f = sender /\ n = number)
      BY <2>1
    <3>5. ~(number < number)
      BY <1>2
    <3>. QED  BY <1>1, <1>9, <1>13, <2>1, <3>1, <3>2, <3>3, <3>4, <3>5 DEF FrameOK
  <2>. QED  BY <1>8, <1>9, <1>11, <1>13, <2>1, <2>3 DEF FramesOK
<1>14. CASE In(x) /\ ~(Len(queue[x]) >= QueueCap)
  <2>1. queue'[x] = Append(queue[x], msg) /\ due'[x] = due[x]
    <3>1. Open(x) /\ Len(queue[x]) < QueueCap
      BY <1>2, <1>14, NoneApart DEF In, Open
    <3>. QED  BY <1>2, <1>6, <1>14, <3>1 DEF Queued
  <2>2. <<sender, number>> \in due[x] /\ \A o \in Nat : InQueue(queue[x], sender, o) => o < number
    BY <1>2, <1>5, <1>10, <1>14 DEF FrameOK
  <2>3. /\ \A f, n : InQueue(queue'[x], f, n) <=> InQueue(queue[x], f, n) \/ (f = sender /\ n = number)
        /\ InOrder(queue'[x])
    <3>1. queue[x] \in Seq(Carried) /\ InOrder(queue[x]) /\ \A f, n : IsFrame(msg, f, n) <=> f = sender /\ n = number
      BY <1>0, <1>2, <1>9 DEF IsFrame
    <3>. QED  BY <1>0, <1>2, <2>1, <2>2, <3>1, FrameQueued
  <2>4. ASSUME NEW f \in Sessions, NEW n \in Nat PROVE FrameOK(x, f, n)'
    <3>1. FrameOK(x, f, n) /\ (Sends(f, n, x)' <=> Sends(f, n, x) /\ f # sender)
      BY <1>5, <1>10
    <3>2. Sends(sender, n, x) => n = number
      BY <1>5 DEF Sends, IsFrame
    <3>. QED  BY <1>1, <1>9, <1>14, <2>1, <2>2, <2>3, <3>1, <3>2 DEF FrameOK
  <2>. QED  BY <1>8, <1>9, <1>11, <1>14, <2>1, <2>3, <2>4 DEF FramesOK
<1>. QED  BY <1>12, <1>13, <1>14
\* A device takes a message; a frame that it takes is no longer due.
LEMMA ReceiveFrames ==
    ASSUME Base, Base', FramesOK, NEW x \in Sessions, Receive(x)
    PROVE  FramesOK'
<1>. DEFINE q == queue[x]
            msg == q[1]
<1>1. /\ q # <<>> /\ queue' = [queue EXCEPT ![x] = Tail(q)]
      /\ UNCHANGED <<player, task, sent>>
  BY DEF Receive
<1>2. q \in Seq(Carried) /\ Head(q) = msg /\ msg \in Carried /\ queue \in [Sessions -> Seq(Carried)]
  BY <1>1, QueueShrinks DEF Base, TypesOK
<1>3. due \in [Sessions -> SUBSET (Sessions \X Nat)]
  BY DEF FramesOK
<1>4. due' = IF msg.kind = "data" THEN [due EXCEPT ![x] = due[x] \ {<<msg.from, msg.n>>}] ELSE due
  BY <1>2 DEF Receive
<1>5. /\ queue'[x] = Tail(q) /\ due' \in [Sessions -> SUBSET (Sessions \X Nat)]
      /\ \A s \in Sessions \ {x} : queue'[s] = queue[s] /\ due'[s] = due[s]
  <2>. DEFINE rest == due[x] \ {<<msg.from, msg.n>>}
  <2>1. rest \in SUBSET (Sessions \X Nat)
    BY <1>3
  <2>2. due' = [due EXCEPT ![x] = rest] \/ due' = due
    BY <1>4
  <2>. HIDE DEF rest
  <2>. QED  BY <1>1, <1>2, <1>3, <2>1, <2>2
<1>6. \A f, n : <<f, n>> \in due'[x] <=> <<f, n>> \in due[x] /\ ~IsFrame(msg, f, n)
  BY <1>3, <1>4 DEF IsFrame
<1>7. /\ \A f, n : InQueue(q, f, n) <=> InQueue(Tail(q), f, n) \/ IsFrame(msg, f, n)
      /\ InOrder(Tail(q))
      /\ \A f, n, o : IsFrame(msg, f, n) /\ InQueue(Tail(q), f, o) => n < o
  BY <1>1, <1>2, FrameTaken DEF FramesOK
<1>. HIDE DEF q, msg
<1>8. ASSUME NEW s \in Sessions, NEW f \in Sessions, NEW n \in Nat PROVE FrameOK(s, f, n)'
  <2>1. FrameOK(s, f, n)
    BY DEF FramesOK
  <2>2. (In(s)' <=> In(s)) /\ (Sends(f, n, s)' <=> Sends(f, n, s)) /\ sent' = sent
    BY <1>1 DEF In, Sends
  <2>. HIDE DEF Sends
  <2>3. CASE s # x
    BY <1>5, <2>1, <2>2, <2>3 DEF FrameOK
  <2>4. CASE s = x
    <3>1. ~(n < n)
      OBVIOUS
    <3>. QED  BY <1>5, <1>6, <1>7, <2>1, <2>2, <2>4, <3>1 DEF FrameOK, q
  <2>. QED  BY <2>3, <2>4
<1>9. \A s \in Sessions : InOrder(queue'[s]) /\ (player'[s].state # "in" => due'[s] = {})
  <2>1. \A s \in Sessions : InOrder(queue[s]) /\ (player[s].state # "in" => due[s] = {})
    BY DEF FramesOK, In
  <2>2. player[x].state = "in"
    BY <1>1 DEF Base, QuietOK, In, q
  <2>. QED  BY <1>1, <1>5, <1>7, <2>1, <2>2
<1>. QED  BY <1>5, <1>8, <1>9 DEF FramesOK, In

LEMMA FramesKept == Base /\ FramesOK /\ [Next]_vars => FramesOK'
<1>. SUFFICES ASSUME Base, FramesOK, [Next]_vars PROVE FramesOK'
  OBVIOUS
<1>1. Base'
  BY BaseKept
<1>2. CASE UNCHANGED vars
  <2>1. UNCHANGED <<player, queue, task, sent, due>>
    BY <1>2 DEF vars
  <2>. QED  BY <2>1 DEF FramesOK, FrameOK, Sends, In
<1>. QED  BY <1>1, <1>2, AnnounceFrames, RelayFrames, PeersFrames, LeaveFrames, CollectFrames,
             SendFrame, SendOtherFrames, ReceiveFrames, RegisterFrames
          DEF Next, Keys

LEMMA FramesInit == Init => FramesOK
<1>. SUFFICES ASSUME Init PROVE FramesOK
  OBVIOUS
<1>1. Base
  BY BaseInit
<1>2. ASSUME NEW s \in Sessions
      PROVE  /\ due[s] = {} /\ InOrder(queue[s])
             /\ \A f, n : ~InQueue(queue[s], f, n) /\ (f \in Sessions => ~Sends(f, n, s))
  <2>1. queue[s] = <<>> /\ Len(queue[s]) = 0 /\ due[s] = {}
    BY DEF Init
  <2>2. \A f \in Sessions : task[<<f, "handler">>] = Idle
    BY DEF Init
  <2>. QED  BY <2>1, <2>2, IdleIs DEF InOrder, InQueue, Sends
<1>3. due \in [Sessions -> SUBSET (Sessions \X Nat)]
  BY DEF Init
<1>. QED  BY <1>2, <1>3 DEF FramesOK, FrameOK

\* The frames of a session reach each of its siblings in their order, each
\* once and none passed over, for any number of devices and messages and any
\* length of the queues, whichever handlers interleave.
THEOREM FramesOrdered == Spec => FramesInSequence
<1>1. Base /\ FramesOK => \A s \in Sessions : queue[s] # <<>> /\ Head(queue[s]).kind = "data" =>
          LET msg == Head(queue[s])
          IN  /\ <<msg.from, msg.n>> \in due[s]
              /\ \A f \in due[s] : f[1] = msg.from => f[2] >= msg.n
  <2>. SUFFICES ASSUME Base, FramesOK, NEW s \in Sessions, queue[s] # <<>>, Head(queue[s]).kind = "data"
                PROVE  LET msg == Head(queue[s])
                       IN  /\ <<msg.from, msg.n>> \in due[s]
                           /\ \A f \in due[s] : f[1] = msg.from => f[2] >= msg.n
    OBVIOUS
  <2>. DEFINE q == queue[s]
              msg == Head(q)
  <2>1. q \in Seq(Carried) /\ msg = q[1] /\ msg \in Carried
    BY QueueShrinks DEF Base, TypesOK
  <2>2. PICK f \in Sessions, n \in Nat : f = msg.from /\ n = msg.n
    BY <2>1 DEF Carried, Message
  <2>3. /\ \A o : InQueue(q, f, o) <=> InQueue(Tail(q), f, o) \/ IsFrame(msg, f, o)
        /\ \A o : IsFrame(msg, f, n) /\ InQueue(Tail(q), f, o) => n < o
        /\ IsFrame(msg, f, n)
    <3>1. InOrder(q) /\ q # <<>>
      BY DEF FramesOK
    <3>2. IsFrame(msg, f, n)
      BY <2>2 DEF IsFrame
    <3>. QED  BY <2>1, <3>1, <3>2, FrameTaken
  <2>. HIDE DEF q
  <2>4. In(s) /\ \A o \in Nat : FrameOK(s, f, o)
    BY DEF Base, QuietOK, FramesOK
  <2>5. <<f, n>> \in due[s]
    BY <2>3, <2>4 DEF FrameOK, q
  <2>6. ASSUME NEW o \in Nat, <<f, o>> \in due[s] PROVE o >= n
    <3>1. InQueue(q, f, o) \/ Sends(f, o, s)
      BY <2>4, <2>6 DEF FrameOK, q
    <3>2. CASE InQueue(q, f, o)
      <4>1. CASE IsFrame(msg, f, o)
        BY <2>2, <4>1 DEF IsFrame
      <4>2. CASE InQueue(Tail(q), f, o)
        <5>1. n < o
          BY <2>3, <4>2
        <5>. QED  BY <5>1
      <4>. QED  BY <2>3, <3>2, <4>1, <4>2
    <3>3. CASE Sends(f, o, s)
      <4>1. n < o
        BY <2>3, <2>4, <3>3 DEF FrameOK, q
      <4>. QED  BY <4>1
    <3>. QED  BY <3>1, <3>2, <3>3
  <2>7. due[s] \subseteq Sessions \X Nat
    BY DEF FramesOK
  <2>8. ASSUME NEW g \in due[s], g[1] = f PROVE g[2] >= n
    <3>1. g[2] \in Nat /\ g = <<f, g[2]>>
      BY <2>7, <2>8
    <3>. QED  BY <2>6, <2>8, <3>1
  <2>. QED  BY <2>2, <2>5, <2>8 DEF q
<1>2. Base /\ FramesOK /\ [Next]_vars =>
        [\A s \in Sessions : queue[s] # <<>> /\ queue'[s] = Tail(queue[s]) /\ Head(queue[s]).kind = "data" =>
            LET msg == Head(queue[s])
            IN  /\ <<msg.from, msg.n>> \in due[s]
                /\ \A f \in due[s] : f[1] = msg.from => f[2] >= msg.n]_vars
  BY <1>1
<1>. QED  BY <1>2, BaseInit, BaseKept, FramesInit, FramesKept, PTL DEF Spec, FramesInSequence

\* Type correctness of the relay.
THEOREM SyncTypeCorrect == Spec => []TypeOK
<1>1. Base => TypeOK
  <2>. SUFFICES ASSUME Base PROVE TypeOK
    OBVIOUS
  <2>1. ASSUME NEW s \in Sessions, NEW i \in DOMAIN queue[s] PROVE queue[s][i] \in Message
    <3>1. queue[s] \in Seq(Carried)
      BY DEF Base, TypesOK
    <3>2. queue[s][i] \in Carried
      BY <3>1
    <3>. QED  BY <3>2 DEF Carried
  <2>. QED  BY <2>1 DEF Base, TypesOK, TypeOK, Player
<1>. QED  BY <1>1, BaseInit, BaseKept, PTL DEF Spec
-----------------------------------------------------------------------------
(***************************************************************************)
(* WebDeploy.                                                              *)
(***************************************************************************)
\* The stages from the one named on, in the order of prepare_once.
FromVerify == {"VerifyOutput", "serving"}
FromDeps == {"DependencyCleanup", "BunInstall", "BunBuild"} \cup FromVerify
FromReset == {"Reset", "Clean"} \cup FromDeps
FromCheckout == {"Checkout"} \cup FromReset
FromOrigin == {"SetOrigin", "Fetch", "ValidateTag", "ResolveRevision"} \cup FromCheckout

\* What the stages before the current one have established.  A directory that
\* passes for a checkout in an enclosing repository has no contents of its own.
Established ==
    /\ proc.stage = "recover" => proc.attempt = 1
    /\ proc.stage \in FromOrigin => disk.kind \in {"repo", "directory"}
    /\ proc.stage \in {"ValidateTag", "ResolveRevision"} /\ disk.kind = "repo" =>
          disk.known >= wanted
    /\ proc.stage \in FromCheckout => proc.revision >= wanted
    /\ proc.stage \in FromReset /\ disk.kind = "repo" => disk.tree = proc.revision
    /\ proc.stage \in FromDeps \ {"serving"} => disk.dist \in {0, disk.tree}
    /\ proc.stage \in {"BunBuild"} \cup FromVerify => disk.deps = disk.tree
    /\ proc.stage = "serving" => disk.kind = "repo" /\ disk.dist = disk.tree

DeployInv == DeployTypeOK /\ Established

USE DEF FromOrigin, FromCheckout, FromReset, FromDeps, FromVerify
-----------------------------------------------------------------------------
\* The order of the stages (prepare, prepare_once).
LEMMA StageOrder ==
    /\ After("ToolGit") = "ToolBun"
    /\ After("ToolBun") \in {"Clone", "InspectCheckout"}
    /\ After("Clone") = "SetOrigin"
    /\ After("InspectCheckout") = "SetOrigin"
    /\ After("SetOrigin") = "Fetch"
    /\ After("Fetch") \in {"ResolveRevision", "ValidateTag"}
    /\ After("ValidateTag") = "ResolveRevision"
    /\ After("ResolveRevision") = "Checkout"
    /\ After("Checkout") = "Reset"
    /\ After("Reset") = "Clean"
    /\ After("Clean") = "DependencyCleanup"
    /\ After("DependencyCleanup") = "BunInstall"
    /\ After("BunInstall") = "BunBuild"
    /\ After("BunBuild") = "VerifyOutput"
  BY Zenon DEF After, FirstStage

\* What each stage does to the checkout.
LEMMA StageEffects ==
    /\ \A s \in {"ToolGit", "ToolBun", "InspectCheckout", "SetOrigin", "ValidateTag"} :
          Effect(s) = disk
    /\ Effect("Clone") = [Bare("repo") EXCEPT !.known = remote]
    /\ disk.kind # "repo" => \A s \in Stages \ {"Clone"} : Effect(s) = disk
    /\ disk.kind = "repo" =>
          /\ Effect("Fetch") = [disk EXCEPT !.known = remote]
          /\ Effect("Checkout") = [disk EXCEPT !.tree = proc.revision]
          /\ Effect("Reset") = [disk EXCEPT !.tree = proc.revision]
          /\ Effect("Clean") = [disk EXCEPT !.dist = 0]
          /\ Effect("DependencyCleanup") = [disk EXCEPT !.deps = 0]
          /\ Effect("BunInstall") = [disk EXCEPT !.deps = disk.tree]
          /\ Effect("BunBuild") = [disk EXCEPT !.dist = disk.tree]
  <1>1. \A s \in {"ToolGit", "ToolBun", "InspectCheckout", "SetOrigin", "ValidateTag"} :
          Effect(s) = disk
    BY Zenon DEF Effect
  <1>2. Effect("Clone") = [Bare("repo") EXCEPT !.known = remote]
    BY Zenon DEF Effect
  <1>3. ASSUME disk.kind = "repo" PROVE Effect("Fetch") = [disk EXCEPT !.known = remote]
    BY <1>3, Zenon DEF Effect
  <1>4. ASSUME disk.kind = "repo"
        PROVE  /\ Effect("Checkout") = [disk EXCEPT !.tree = proc.revision]
               /\ Effect("Reset") = [disk EXCEPT !.tree = proc.revision]
    BY <1>4, Zenon DEF Effect
  <1>5. ASSUME disk.kind = "repo" PROVE Effect("Clean") = [disk EXCEPT !.dist = 0]
    BY <1>5, Zenon DEF Effect, Cleaned
  <1>6. ASSUME disk.kind = "repo"
        PROVE  /\ Effect("DependencyCleanup") = [disk EXCEPT !.deps = 0]
               /\ Effect("BunInstall") = [disk EXCEPT !.deps = disk.tree]
    BY <1>6, Zenon DEF Effect
  <1>7. ASSUME disk.kind = "repo" PROVE Effect("BunBuild") = [disk EXCEPT !.dist = disk.tree]
    BY <1>7, Zenon DEF Effect
  <1>8. ASSUME disk.kind # "repo", NEW s \in Stages \ {"Clone"} PROVE Effect(s) = disk
    BY <1>8, Zenon DEF Effect
  <1> QED
    BY <1>1, <1>2, <1>3, <1>4, <1>5, <1>6, <1>7, <1>8

\* A path that holds a repository holds a checkout.
LEMMA RepoIsClone ==
    ASSUME DeployTypeOK, disk.kind = "repo"
    PROVE  disk \in Clones
  BY DEF DeployTypeOK, Bare

\* A failure leaves the stages whose results are relied on (Fail).
LEMMA FailStops ==
    ASSUME DeployTypeOK, NEW why, Fail(why)
    PROVE  /\ proc' \in [stage: {"recover", "stopped"}, attempt: {1, 2}, revision: Revisions]
           /\ proc'.stage \in {"recover", "stopped"}
           /\ proc'.stage = "recover" => proc'.attempt = 1
  BY DEF DeployTypeOK, Fail, Recovers

\* A stage other than the ones listed has established nothing.
LEMMA NothingEstablished ==
    ASSUME proc.stage \in {"ToolGit", "ToolBun", "Clone", "InspectCheckout", "stopped"}
    PROVE  Established
  BY DEF Established

\* Only a repository has contents (DeployTypeOK).
LEMMA NoRepoIsBare ==
    ASSUME DeployTypeOK, disk.kind # "repo"
    PROVE  disk.tree = 0 /\ disk.deps = 0 /\ disk.dist = 0
  BY DEF DeployTypeOK, Bare, Clones

\* A directory that is no checkout passes through the stages as it is (Trips).
LEMMA SucceedWithoutRepo ==
    ASSUME DeployInv, Succeed, disk.kind # "repo", proc.stage # "Clone"
    PROVE  DeployInv'
  <1> USE DEF Succeed
  <1>1. disk' = disk
    BY StageEffects
  <1>2. disk.tree = 0 /\ disk.deps = 0 /\ disk.dist = 0
    BY NoRepoIsBare DEF DeployInv
  <1>3. proc.stage = "InspectCheckout" => disk.kind = "directory"
    BY DEF Trips
  <1>4. /\ After(proc.stage) \in Stages
        /\ After(proc.stage) \in FromOrigin =>
              proc.stage \in FromOrigin \cup {"InspectCheckout"}
        /\ After(proc.stage) \in FromCheckout =>
              proc.stage \in FromCheckout \cup {"ResolveRevision"}
    BY StageOrder DEF Stages, LocalStages
  <1>5. DeployTypeOK'
    BY <1>1, <1>4 DEF DeployInv, DeployTypeOK
  <1>6. Established'
    BY <1>1, <1>2, <1>3, <1>4 DEF DeployInv, DeployTypeOK, Established, Stages, LocalStages
  <1> QED
    BY <1>5, <1>6 DEF DeployInv

\* Every successful stage passes on what the next one relies on (Succeed).
LEMMA SucceedKeeps ==
    ASSUME DeployInv, Succeed, disk.kind = "repo" \/ proc.stage = "Clone"
    PROVE  DeployInv'
  <1> USE DEF Succeed
  <1>1. CASE proc.stage \in {"ToolGit", "ToolBun"}
    BY <1>1, StageOrder, StageEffects
       DEF DeployInv, DeployTypeOK, Established, Stages, LocalStages
  <1>2. CASE proc.stage = "Clone"
    BY <1>2, StageOrder, StageEffects, WebDeployAssumption
       DEF DeployInv, DeployTypeOK, Established, Stages, LocalStages,
           Bare, Clones, Revisions
  <1>3. CASE proc.stage = "InspectCheckout"
    BY <1>3, StageOrder, StageEffects
       DEF DeployInv, DeployTypeOK, Established, Stages, LocalStages,
           Trips
  <1>4. CASE proc.stage = "SetOrigin"
    BY <1>4, StageOrder, StageEffects
       DEF DeployInv, DeployTypeOK, Established, Stages, LocalStages
  <1>5. CASE proc.stage = "Fetch"
    BY <1>5, StageOrder, StageEffects, RepoIsClone, WebDeployAssumption
       DEF DeployInv, DeployTypeOK, Established, Stages, LocalStages,
           Clones, Revisions
  <1>6. CASE proc.stage = "ValidateTag"
    BY <1>6, StageOrder, StageEffects
       DEF DeployInv, DeployTypeOK, Established, Stages, LocalStages
  <1>7. CASE proc.stage \in {"Checkout", "Reset"}
    BY <1>7, StageOrder, StageEffects, RepoIsClone, WebDeployAssumption
       DEF DeployInv, DeployTypeOK, Established, Stages, LocalStages,
           Clones, Revisions
  <1>8. CASE proc.stage = "Clean"
    BY <1>8, StageOrder, StageEffects, RepoIsClone, WebDeployAssumption
       DEF DeployInv, DeployTypeOK, Established, Stages, LocalStages,
           Clones, Revisions
  <1>9. CASE proc.stage = "DependencyCleanup"
    BY <1>9, StageOrder, StageEffects, RepoIsClone, WebDeployAssumption
       DEF DeployInv, DeployTypeOK, Established, Stages, LocalStages,
           Clones, Revisions
  <1>10. CASE proc.stage = "BunInstall"
    BY <1>10, StageOrder, StageEffects, RepoIsClone, WebDeployAssumption
       DEF DeployInv, DeployTypeOK, Established, Stages, LocalStages,
           Clones, Revisions
  <1>11. CASE proc.stage = "BunBuild"
    BY <1>11, StageOrder, StageEffects, RepoIsClone, WebDeployAssumption
       DEF DeployInv, DeployTypeOK, Established, Stages, LocalStages,
           Clones, Revisions
  <1> QED
    BY <1>1, <1>2, <1>3, <1>4, <1>5, <1>6, <1>7, <1>8, <1>9, <1>10, <1>11
       DEF Stages, LocalStages

\* The invariant holds where a preparation starts.
LEMMA InitDeployInv == DeployInit => DeployInv
  <1> SUFFICES ASSUME DeployInit PROVE DeployInv
    OBVIOUS
  <1>1. DeployTypeOK
    BY WebDeployAssumption DEF DeployInit, DeployTypeOK, Start, Bare, Revisions, Stages, Clones
  <1>2. Established
    BY NothingEstablished DEF DeployInit, Start
  <1> QED
    BY <1>1, <1>2 DEF DeployInv

\* Every step keeps it.
LEMMA NextDeployInv == DeployInv /\ [DeployNext]_deployVars => DeployInv'
  <1> SUFFICES ASSUME DeployInv, [DeployNext]_deployVars PROVE DeployInv'
    OBVIOUS
  <1> USE DEF DeployInv
  <1>1. CASE Succeed
    BY <1>1, SucceedKeeps, SucceedWithoutRepo
  <1>2. CASE ResolveRevision
    <2>1. PICK revision \in (IF disk.kind = "repo" THEN {disk.known} ELSE wanted..remote) :
             IF revision # 0
             THEN proc' = [proc EXCEPT !.stage = After(proc.stage), !.revision = revision]
                  /\ UNCHANGED cause
             ELSE Fail("missing")
      BY <1>2, Zenon DEF ResolveRevision
    <2>2. revision \in Revisions /\ revision >= wanted
      BY <1>2, <2>1, RepoIsClone, WebDeployAssumption
         DEF ResolveRevision, DeployTypeOK, Established, Clones, Revisions
    <2>3. CASE revision # 0
      BY <1>2, <2>1, <2>2, <2>3, StageOrder
         DEF ResolveRevision, DeployTypeOK, Established, Stages, LocalStages
    <2>4. CASE revision = 0
      <3>1. Fail("missing")
        BY <2>1, <2>4
      <3> QED
        BY <1>2, <3>1, FailStops DEF ResolveRevision, DeployTypeOK, Established
    <2> QED
      BY <2>3, <2>4
  <1>3. CASE VerifyOutput
    <2>1. CASE disk.dist # 0
      BY <1>3, <2>1, NoRepoIsBare
         DEF VerifyOutput, DeployTypeOK, Established, Stages, LocalStages
    <2>2. CASE disk.dist = 0
      BY <1>3, <2>2, FailStops DEF VerifyOutput, DeployTypeOK, Established
    <2> QED
      BY <2>1, <2>2
  <1>4. CASE Trip
    BY <1>4, FailStops DEF Trip, DeployTypeOK, Established
  <1>5. CASE remove_checkout
    <2>1. proc' = [proc EXCEPT !.stage = "Clone", !.attempt = proc.attempt + 1]
      BY <1>5, Zenon DEF remove_checkout, Recovered
    <2>2. proc.attempt = 1
      BY <1>5 DEF remove_checkout, Established
    <2>3. /\ disk' = Bare("absent")
          /\ UNCHANGED <<remote, fresh, enclosed, wanted, faults>>
      BY <1>5 DEF remove_checkout
    <2>4. DeployTypeOK'
      <3>1. proc' \in [stage: Stages \cup {"recover", "stopped", "serving"}, attempt: {1, 2},
                       revision: Revisions]
        <4>1. proc' = [proc EXCEPT !.stage = "Clone", !.attempt = 2]
          BY <2>1, <2>2
        <4>2. "Clone" \in Stages
          BY DEF Stages
        <4> QED
          BY <4>1, <4>2 DEF DeployTypeOK
      <3>2. disk' \in {Bare(kind) : kind \in {"absent", "file", "directory"}}
        BY <2>3
      <3> QED
        BY <2>3, <3>1, <3>2 DEF DeployTypeOK
    <2>5. proc'.stage = "Clone"
      BY <2>1 DEF DeployTypeOK
    <2> QED
      BY <2>4, <2>5 DEF Established
  <1>6. CASE FailAnyway
    BY <1>6, FailStops, WebDeployAssumption DEF FailAnyway, DeployTypeOK, Established
  <1>7. CASE BuildsNothing
    BY <1>7, StageOrder, WebDeployAssumption
       DEF BuildsNothing, DeployTypeOK, Established, Stages, LocalStages
  <1>8. CASE Crash
    <2>1. disk' \in Clones \cup {Bare(kind) : kind \in {"absent", "file", "directory"}}
      <3>1. CASE disk' = disk
        BY <3>1 DEF DeployTypeOK
      <3>2. CASE disk' \in {Bare("directory"), Bare("absent")}
        BY <3>2
      <3>3. CASE \E d \in Damages \cup {"none"} : disk' = [Bare("repo") EXCEPT !.damage = d]
        BY <3>3, WebDeployAssumption DEF Bare, Clones, Revisions
      <3>4. CASE disk.kind = "repo" /\ \E d \in Damages : disk' = [disk EXCEPT !.damage = d]
        BY <3>4, RepoIsClone DEF Clones
      <3> QED
        BY <1>8, <3>1, <3>2, <3>3, <3>4 DEF Crash, Torn
    <2> QED
      BY <1>8, <2>1, WebDeployAssumption
         DEF Crash, Start, DeployTypeOK, Established, Revisions
  <1>9. CASE Restart
    BY <1>9, WebDeployAssumption
       DEF Restart, Start, DeployTypeOK, Established, Revisions, Stages
  <1>10. CASE Publish
    BY <1>10, WebDeployAssumption
       DEF Publish, DeployTypeOK, Established
  <1>11. CASE UNCHANGED deployVars
    BY <1>11 DEF deployVars, DeployTypeOK, Established
  <1> QED
    BY <1>1, <1>2, <1>3, <1>4, <1>5, <1>6, <1>7, <1>8, <1>9, <1>10, <1>11 DEF DeployNext, Work

\* Type correctness of the preparation, whatever fails and wherever it dies.
THEOREM DeployTypeCorrect == DeploySpec => []DeployTypeOK
  <1>1. DeployInv => DeployTypeOK
    BY DEF DeployInv
  <1> QED
    BY <1>1, InitDeployInv, NextDeployInv, PTL DEF DeploySpec

\* A server that listens serves a build of the revision it resolved in this
\* start, with that revision's dependencies and not older than the remote was
\* when the start began (prepare), for any damage, any number of revisions,
\* failures and crashes.
THEOREM ServedIsResolved == DeploySpec => []ServesItsRevision
  <1>1. DeployInv => ServesItsRevision
    BY DEF DeployInv, Established, ServesItsRevision
  <1> QED
    BY <1>1, InitDeployInv, NextDeployInv, PTL DEF DeploySpec
-----------------------------------------------------------------------------
\* A failure that the code takes for a corrupt checkout (Kind).
Local(failure) ==
    /\ failure.why \notin {"tool", "storage", "network", "sources"}
    /\ failure.stage \in LocalStages \/ (failure.stage = "Fetch" /\ failure.why = "lock")

\* The recovery follows a failure of a command that works on the checkout, and
\* a clone is made where nothing is.
Removal ==
    /\ proc.stage = "recover" => Local(cause)
    /\ proc.stage = "Clone" => disk.kind = "absent"

\* Only such a failure leads to the recovery (run, Kind).
LEMMA FailRecovers ==
    ASSUME DeployTypeOK, NEW why, Fail(why),
           why \in {"damage", "lock"} \/ why \in Causes(proc.stage)
              \/ proc.stage \in {"ResolveRevision", "VerifyOutput"}
    PROVE  Removal'
  <1>1. proc'.stage \in {"recover", "stopped"}
    BY FailStops
  <1>2. proc'.stage = "recover" => Kind(proc.stage, why) = "LocalCheckout"
    BY DEF Fail, Recovers, DeployTypeOK
  <1>3. cause' = [stage |-> proc.stage, why |-> why]
    BY DEF Fail
  <1>4. Kind(proc.stage, why) = "LocalCheckout" => Local(cause')
    BY <1>3 DEF Kind, Causes, LocalStages, Local
  <1> QED
    BY <1>1, <1>2, <1>4 DEF Removal, Local

\* The steps of prepare keep it.
LEMMA NextRemoval == DeployInv /\ Removal /\ [DeployNext]_deployVars => Removal'
  <1> SUFFICES ASSUME DeployInv, Removal, [DeployNext]_deployVars PROVE Removal'
    OBVIOUS
  <1> USE DEF DeployInv
  <1>1. CASE Succeed
    <2>1. CASE proc.stage = "ToolBun"
      BY <1>1, <2>1, StageEffects DEF Succeed, After, FirstStage, DeployTypeOK, Removal
    <2>2. CASE proc.stage # "ToolBun"
      <3>1. After(proc.stage) \notin {"recover", "Clone"}
        BY <1>1, <2>2, StageOrder DEF Succeed, Stages, LocalStages
      <3> QED
        BY <1>1, <3>1 DEF Succeed, DeployTypeOK, Removal
    <2> QED
      BY <2>1, <2>2
  <1>2. CASE ResolveRevision
    <2>1. CASE Fail("missing")
      BY <1>2, <2>1, FailRecovers DEF ResolveRevision
    <2>2. CASE proc'.stage = After("ResolveRevision")
      BY <1>2, <2>2, StageOrder DEF Removal
    <2> QED
      BY <1>2, <2>1, <2>2 DEF ResolveRevision, DeployTypeOK
  <1>3. CASE VerifyOutput
    <2>1. CASE disk.dist # 0
      BY <1>3, <2>1 DEF VerifyOutput, DeployTypeOK, Removal
    <2>2. CASE disk.dist = 0
      BY <1>3, <2>2, FailRecovers DEF VerifyOutput
    <2> QED
      BY <2>1, <2>2
  <1>4. CASE Trip
    BY <1>4, FailRecovers DEF Trip
  <1>5. CASE remove_checkout
    BY <1>5 DEF remove_checkout, Recovered, DeployTypeOK, Removal, Bare
  <1>6. CASE FailAnyway
    BY <1>6, FailRecovers DEF FailAnyway
  <1>7. CASE BuildsNothing
    BY <1>7, StageOrder DEF BuildsNothing, DeployTypeOK, Removal
  <1>8. CASE Crash
    BY <1>8 DEF Crash, Start, Removal
  <1>9. CASE Restart
    BY <1>9 DEF Restart, Start, Removal
  <1>10. CASE Publish
    BY <1>10 DEF Publish, Removal
  <1>11. CASE UNCHANGED deployVars
    BY <1>11 DEF deployVars, Removal
  <1> QED
    BY <1>1, <1>2, <1>3, <1>4, <1>5, <1>6, <1>7, <1>8, <1>9, <1>10, <1>11 DEF DeployNext, Work

\* A step after which the path is empty is part of the recovery.
LEMMA StepRemoves ==
    ASSUME DeployInv, Removal, [DeployNext]_deployVars, disk.kind # "absent", disk'.kind = "absent"
    PROVE  proc.attempt = 1 /\ Local(cause)
  <1> USE DEF DeployInv
  <1>1. CASE disk' = disk
    BY <1>1
  <1>2. CASE Succeed
    <2>1. proc.stage # "Clone"
      BY <1>2 DEF Removal
    <2>2. disk'.kind = disk.kind
      <3>1. CASE proc.stage \in {"ToolGit", "ToolBun", "InspectCheckout", "SetOrigin", "ValidateTag"}
        BY <1>2, <3>1, StageEffects DEF Succeed
      <3>2. CASE proc.stage \in {"Fetch", "Checkout", "Reset", "Clean", "DependencyCleanup",
                                 "BunInstall", "BunBuild"}
        <4>1. CASE disk.kind = "repo"
          <5>1. disk \in Clones
            BY <4>1, RepoIsClone
          <5> QED
            BY <1>2, <3>2, <4>1, <5>1, StageEffects DEF Succeed, Clones
        <4>2. CASE disk.kind # "repo"
          BY <1>2, <2>1, <4>2, StageEffects DEF Succeed
        <4> QED
          BY <4>1, <4>2
      <3> QED
        BY <1>2, <2>1, <3>1, <3>2 DEF Succeed, Stages, LocalStages
    <2> QED
      BY <2>2
  <1>3. CASE remove_checkout
    BY <1>3 DEF remove_checkout, Removal, Established
  <1>4. CASE Crash
    <2>1. CASE proc.stage = "recover"
      BY <2>1 DEF Removal, Established
    <2>2. CASE proc.stage # "recover"
      <3>1. proc.stage # "Clone"
        BY DEF Removal
      <3>2. disk' = disk \/ (disk.kind = "repo" /\ \E d \in Damages : disk' = [disk EXCEPT !.damage = d])
        BY <1>4, <2>2, <3>1 DEF Crash, Torn
      <3> QED
        BY <3>2, RepoIsClone DEF Clones
    <2> QED
      BY <2>1, <2>2
  <1>5. CASE ResolveRevision \/ VerifyOutput \/ Trip \/ FailAnyway \/ BuildsNothing
             \/ Restart \/ Publish \/ UNCHANGED deployVars
    <2>1. disk' = disk
      BY <1>5, Zenon DEF ResolveRevision, VerifyOutput, Trip, FailAnyway, BuildsNothing, Restart,
         Publish, deployVars
    <2> QED
      BY <1>1, <2>1
  <1> QED
    BY <1>2, <1>3, <1>4, <1>5, Zenon DEF DeployNext, Work

\* A checkout is thrown away once in a start and only after a failure of a
\* command that works on it, for any damage and any number of failures and
\* crashes (run, prepare).
THEOREM RemovedForLocalFailure == DeploySpec => OnlyLocalFailuresRemove
  <1>1. DeployInit => Removal
    BY DEF DeployInit, Start, Removal
  <1>2. DeployInv /\ Removal /\ [DeployNext]_deployVars =>
           [disk.kind # "absent" /\ disk'.kind = "absent" =>
              proc.attempt = 1 /\ Local(cause)]_deployVars
    BY StepRemoves
  <1> QED
    BY <1>1, <1>2, InitDeployInv, NextDeployInv, NextRemoval, PTL DEF DeploySpec, OnlyLocalFailuresRemove, Local
=============================================================================

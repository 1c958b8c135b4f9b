-------------------------- MODULE RoomHistoryProofs --------------------------
(***************************************************************************)
(* The history of a room, proved for any number of accounts, sessions,     *)
(* messages and requests.                                                  *)
(*                                                                         *)
(* Base has the types and the order of the ids; it makes every change of   *)
(* the history one of four: a message is stored, one message is replaced   *)
(* in its place, some are erased in their places, all are dropped.  What   *)
(* the properties need beyond it is an invariant of its own each.          *)
(***************************************************************************)
EXTENDS RoomHistory, SequenceTheorems, FiniteSetTheorems, TLAPS

Previews == [url: Urls, version: Nat] \cup {None}
Message == [id: Nat, author: Users, name: Names \cup {None}, body: Body, edited: Nat,
            version: Nat, preview: Previews, reactions: SUBSET Names, deleted: BOOLEAN]
Task == [op: {"send", "edit", "request"}, id: Nat, url: Urls, edited: Nat, version: Nat]
Job == [op: Operations \cup {"none"},
        stage: {"idle", "speak", "store", "edit", "find", "count", "erase", "evict"},
        id: Nat, body: Body, at: Nat, name: Names \cup {None}, muted: BOOLEAN,
        choices: SUBSET Choices]

RoomOK ==
    /\ kind \in {"none", "classic", "community"}
    /\ silenced \subseteq Users /\ inRoom \subseteq Sessions
    /\ account \in [Users -> Names] /\ name \in [Users -> Names]
    /\ arrivals \in Nat /\ now \in Nat /\ now >= 1

\* The ids are consecutive and end with the last one given out.
LatestOK ==
    /\ history \in Seq(Message)
    /\ Len(history) <= MaxMessages /\ Len(history) <= arrivals
    /\ \A i \in 1..Len(history) : history[i].id = arrivals - Len(history) + i
    /\ \A i \in 1..Len(history) : history[i].edited <= now

\* What a handler holds in a stage that uses it: j was made before the n-th
\* message and the instant t.
Fit(j, n, t) ==
    /\ j.id <= n /\ j.at <= t
    /\ j.stage \in {"edit", "find", "count"} => j.id >= 1
    /\ j.stage = "edit" => j.at >= 1
    /\ j.op = "preview" => j.body.url \in Urls /\ ~j.body.sealed
    /\ j.op = "react" => j.id >= 1 /\ j.name \in Names

JobsOK == job \in [Sessions -> Job] /\ \A s \in Sessions : Fit(job[s], arrivals, now)

TasksOK == tasks \subseteq Task /\ \A t \in tasks : t.id \in 1..arrivals

Base == RoomOK /\ LatestOK /\ JobsOK /\ TasksOK
-----------------------------------------------------------------------------
\* The message with an id, and its only place.
LEMMA Found ==
    ASSUME LatestOK, arrivals \in Nat, NEW id, Stored(id)
    PROVE  \E k \in 1..Len(history) :
              /\ history[k].id = id /\ Msg(id) = history[k]
              /\ \A m : With(id, m) = [history EXCEPT ![k] = m]
<1>1. DOMAIN history = 1..Len(history) /\ Len(history) \in Nat
  BY DEF LatestOK
<1>2. PICK k : k \in Position(id) /\ k = CHOOSE i \in Position(id) : TRUE
  BY DEF Stored
<1>3. k \in 1..Len(history) /\ history[k].id = id
  BY <1>1, <1>2 DEF Position
<1>4. \A i \in 1..Len(history) : history[i].id = id => i = k
  BY <1>1, <1>3 DEF LatestOK
<1>5. Msg(id) = history[k]
  BY <1>2 DEF Msg
<1>6. \A m : With(id, m) = [history EXCEPT ![k] = m]
  BY <1>1, <1>3, <1>4 DEF With
<1> QED
  BY <1>3, <1>5, <1>6

\* What the handlers make of one message.
LEMMA EditedMessage ==
    ASSUME NEW m \in Message, NEW b \in Body, NEW a \in Nat
    PROVE  LET n == Edited(m, b, a)
           IN  /\ n \in Message /\ n.id = m.id /\ n.author = m.author
               /\ n.preview = None /\ n.edited = a /\ n.version = m.version + 1
               /\ n.deleted = m.deleted
<1>1. m.version + 1 \in Nat /\ None \in Previews
  BY DEF Message, Previews
<1>2. \A v \in Nat, p \in Previews :
        LET x == [m EXCEPT !.body = b, !.preview = p, !.edited = a, !.version = v]
        IN  /\ x \in Message /\ x.id = m.id /\ x.author = m.author
            /\ x.preview = p /\ x.edited = a /\ x.version = v /\ x.deleted = m.deleted
  BY DEF Message
<1> QED
  BY <1>1, <1>2 DEF Edited

LEMMA ClearedMessage ==
    ASSUME NEW m \in Message
    PROVE  /\ LET n == Tombstone(m)
              IN  /\ n \in Message /\ n.id = m.id /\ n.version = m.version /\ n.deleted
                  /\ n.body = Blank /\ n.preview = None /\ n.edited = 0
           /\ LET n == Erased(m)
              IN  /\ n \in Message /\ n.id = m.id /\ n.version = m.version /\ n.deleted
                  /\ n.body = Blank /\ n.preview = None /\ n.edited = m.edited
<1>1. Blank \in Body
  BY DEF Blank, Body
<1>2. LET n == Tombstone(m)
      IN  /\ n \in Message /\ n.id = m.id /\ n.version = m.version /\ n.deleted
          /\ n.body = Blank /\ n.preview = None /\ n.edited = 0
  BY <1>1 DEF Message, Tombstone, Previews
<1>3. LET n == Erased(m)
      IN  /\ n \in Message /\ n.id = m.id /\ n.version = m.version /\ n.deleted
          /\ n.body = Blank /\ n.preview = None /\ n.edited = m.edited
  BY <1>1 DEF Message, Erased, Previews
<1> QED
  BY <1>2, <1>3

LEMMA ToggledMessage ==
    ASSUME NEW m \in Message, NEW u \in Names
    PROVE  LET n == toggle_reaction_in_message(m, u)
           IN  /\ n \in Message /\ n.id = m.id /\ n.version = m.version
               /\ n.deleted = m.deleted /\ n.body = m.body /\ n.preview = m.preview
               /\ n.edited = m.edited
  BY DEF Message, toggle_reaction_in_message

LEMMA PreviewedMessage ==
    ASSUME NEW m \in Message, NEW p \in Previews
    PROVE  LET n == [m EXCEPT !.preview = p]
           IN  /\ n \in Message /\ n.id = m.id /\ n.version = m.version
               /\ n.deleted = m.deleted /\ n.body = m.body /\ n.preview = p
               /\ n.edited = m.edited
  BY DEF Message
-----------------------------------------------------------------------------
(***************************************************************************)
(* How the history changes.                                                *)
(***************************************************************************)
\* The message in place k becomes m.
Replaces(k, m) ==
    /\ k \in 1..Len(history) /\ m \in Message /\ m.id = history[k].id
    /\ m.edited <= now
    /\ history' = [history EXCEPT ![k] = m]

LEMMA Replaced ==
    ASSUME RoomOK, LatestOK, NEW k, NEW m, Replaces(k, m), UNCHANGED <<arrivals, now>>
    PROVE  /\ LatestOK'
           /\ Len(history') = Len(history)
           /\ \A i \in 1..Len(history) : history'[i] = IF i = k THEN m ELSE history[i]
<1>1. history \in Seq(Message) /\ k \in 1..Len(history) /\ m \in Message
  BY DEF LatestOK, Replaces
<1>2. /\ history' \in Seq(Message) /\ Len(history') = Len(history)
      /\ \A i \in 1..Len(history) : history'[i] = IF i = k THEN m ELSE history[i]
  BY <1>1, ExceptSeq DEF Replaces
<1> QED
  BY <1>1, <1>2 DEF LatestOK, Replaces, RoomOK

\* edit_message: a message that is there, not deleted and the author's own.
LEMMA EditStep ==
    ASSUME Base, NEW s \in Sessions, edit_message(s)
    PROVE  \/ UNCHANGED <<history, tasks, stamps>>
           \/ \E k \in 1..Len(history) :
                /\ ~history[k].deleted /\ history[k].author = UserOf[s]
                /\ Replaces(k, Edited(history[k], job[s].body, job[s].at)) /\ history[k].id = job[s].id
                /\ tasks' = tasks \cup PreviewTask("edit", job[s].id, job[s].body, job[s].at,
                                                   history[k].version + 1)
                /\ stamps' = stamps \cup {[id |-> job[s].id, at |-> job[s].at,
                                           version |-> history[k].version + 1]}
<1>1. LatestOK /\ arrivals \in Nat
  BY DEF Base, RoomOK
<1> DEFINE id == job[s].id
<1>2. CASE Stored(id) /\ ~Msg(id).deleted /\ is_message_author(Msg(id), UserOf[s], job[s].name)
  <2>1. PICK k \in 1..Len(history) : /\ history[k].id = id /\ Msg(id) = history[k]
                                     /\ \A m : With(id, m) = [history EXCEPT ![k] = m]
    BY <1>1, <1>2, Found
  <2>2. /\ history' = [history EXCEPT ![k] = Edited(history[k], job[s].body, job[s].at)]
        /\ tasks' = tasks \cup PreviewTask("edit", id, job[s].body, job[s].at,
                                           history[k].version + 1)
        /\ stamps' = stamps \cup {[id |-> id, at |-> job[s].at, version |-> history[k].version + 1]}
    BY <1>2, <2>1 DEF edit_message
  <2>3. job[s].body \in Body /\ job[s].at \in Nat /\ job[s].at <= now /\ history[k] \in Message
    <3>1. job[s] \in Job /\ job[s].at <= now
      BY DEF Base, JobsOK, Fit
    <3> QED
      BY <3>1, <1>1 DEF Job, LatestOK
  <2> DEFINE n == Edited(history[k], job[s].body, job[s].at)
  <2>4. n \in Message /\ n.id = history[k].id /\ n.edited = job[s].at
    BY <2>3, EditedMessage
  <2> QED
    BY <1>2, <2>1, <2>2, <2>3, <2>4 DEF Replaces, is_message_author
<1>3. CASE ~(Stored(id) /\ ~Msg(id).deleted /\ is_message_author(Msg(id), UserOf[s], job[s].name))
  BY <1>3 DEF edit_message
<1> QED
  BY <1>2, <1>3

LEMMA DeleteStep ==
    ASSUME Base, NEW s \in Sessions, delete_message(s)
    PROVE  \/ UNCHANGED history
           \/ \E k \in 1..Len(history) : ~history[k].deleted /\ Replaces(k, Tombstone(history[k]))
<1>1. LatestOK /\ arrivals \in Nat /\ now \in Nat
  BY DEF Base, RoomOK
<1>2. PICK id \in 1..arrivals :
         \/ UNCHANGED history
         \/ Stored(id) /\ ~Msg(id).deleted /\ history' = With(id, Tombstone(Msg(id)))
  BY DEF delete_message
<1>3. CASE Stored(id) /\ ~Msg(id).deleted /\ history' = With(id, Tombstone(Msg(id)))
  <2>1. PICK k \in 1..Len(history) : /\ history[k].id = id /\ Msg(id) = history[k]
                                     /\ \A m : With(id, m) = [history EXCEPT ![k] = m]
    BY <1>1, <1>3, Found
  <2>2. history[k] \in Message
    BY <1>1 DEF LatestOK
  <2>3. /\ Tombstone(history[k]) \in Message /\ Tombstone(history[k]).id = history[k].id
        /\ Tombstone(history[k]).edited = 0
    BY <2>2, ClearedMessage
  <2> QED
    BY <1>1, <1>3, <2>1, <2>3 DEF Replaces
<1> QED
  BY <1>2, <1>3

LEMMA ReactStep ==
    ASSUME Base, NEW s \in Sessions, update_message_reactions(s)
    PROVE  \/ UNCHANGED history
           \/ \E k \in 1..Len(history) :
                 Replaces(k, toggle_reaction_in_message(history[k], job[s].name))
<1>1. LatestOK /\ arrivals \in Nat
  BY DEF Base, RoomOK
<1> DEFINE id == job[s].id
<1>2. CASE Stored(id)
  <2>1. PICK k \in 1..Len(history) : /\ history[k].id = id /\ Msg(id) = history[k]
                                     /\ \A m : With(id, m) = [history EXCEPT ![k] = m]
    BY <1>1, <1>2, Found
  <2>2. history[k] \in Message /\ job[s].name \in Names /\ history[k].edited <= now
    BY <1>1 DEF LatestOK, Base, JobsOK, Fit, update_message_reactions, At
  <2> DEFINE m == toggle_reaction_in_message(history[k], job[s].name)
  <2>3. m \in Message /\ m.id = history[k].id /\ m.edited = history[k].edited
    BY <2>2, ToggledMessage
  <2>4. history' = [history EXCEPT ![k] = m]
    BY <1>2, <2>1 DEF update_message_reactions
  <2> QED
    BY <2>1, <2>2, <2>3, <2>4 DEF Replaces
<1> QED
  BY <1>2 DEF update_message_reactions

LEMMA FetchStep ==
    ASSUME Base, FetchPreview
    PROVE  \/ UNCHANGED history /\ tasks' \subseteq tasks
           \/ \E k \in 1..Len(history), t \in tasks :
                /\ tasks' \subseteq tasks /\ history[k].id = t.id /\ StillWanted(t, history[k])
                /\ [url |-> t.url, version |-> t.version] \in Previews
                /\ Replaces(k, [history[k] EXCEPT !.preview =
                                                   [url |-> t.url, version |-> t.version]])
<1>1. LatestOK /\ arrivals \in Nat
  BY DEF Base, RoomOK
<1>2. PICK t \in tasks :
         /\ tasks' = tasks \ {t}
         /\ \/ /\ Stored(t.id) /\ StillWanted(t, Msg(t.id))
               /\ history' = With(t.id, [Msg(t.id) EXCEPT
                                           !.preview = [url |-> t.url, version |-> t.version]])
            \/ UNCHANGED history
  BY DEF FetchPreview
<1>3. CASE /\ Stored(t.id) /\ StillWanted(t, Msg(t.id))
           /\ history' = With(t.id, [Msg(t.id) EXCEPT
                                       !.preview = [url |-> t.url, version |-> t.version]])
  <2>1. PICK k \in 1..Len(history) : /\ history[k].id = t.id /\ Msg(t.id) = history[k]
                                     /\ \A m : With(t.id, m) = [history EXCEPT ![k] = m]
    BY <1>1, <1>3, Found
  <2>2. history[k] \in Message /\ history[k].edited <= now
    BY <1>1 DEF LatestOK
  <2>3. [url |-> t.url, version |-> t.version] \in Previews
    BY DEF Base, TasksOK, Task, Previews
  <2> DEFINE m == [history[k] EXCEPT !.preview = [url |-> t.url, version |-> t.version]]
  <2>4. m \in Message /\ m.id = history[k].id /\ m.edited = history[k].edited
    BY <2>2, <2>3, PreviewedMessage
  <2>5. history' = [history EXCEPT ![k] = m] /\ StillWanted(t, history[k])
    BY <1>3, <2>1
  <2>6. Replaces(k, m)
    BY <2>1, <2>2, <2>4, <2>5 DEF Replaces
  <2> QED
    BY <1>2, <2>1, <2>3, <2>5, <2>6
<1> QED
  BY <1>2, <1>3

\* store_room_message: the new message is the last one, the others are kept or
\* dropped from the front.
LEMMA Drained ==
    ASSUME RoomOK, LatestOK, NEW m \in Message, m.id = arrivals + 1, m.edited = 0,
           history' = Drain(Append(history, m)), arrivals' = arrivals + 1, now' = now
    PROVE  /\ LatestOK'
           /\ \A j \in 1..Len(history') :
                 history'[j] = m \/ \E i \in 1..Len(history) : history'[j] = history[i]
<1> DEFINE h == Append(history, m)
           n == Len(history)
<1>1. /\ history \in Seq(Message) /\ n \in Nat /\ n <= MaxMessages /\ n <= arrivals
      /\ arrivals \in Nat /\ MaxMessages \in Nat /\ MaxMessages >= 1 /\ now \in Nat
  BY HistoryAssumption DEF RoomOK, LatestOK
<1>2. /\ h \in Seq(Message) /\ Len(h) = n + 1
      /\ \A i \in 1..n : h[i] = history[i]
      /\ h[n + 1] = m
  BY <1>1
<1>3. \A i \in 1..(n + 1) : h[i] \in Message /\ h[i].id = arrivals - n + i /\ h[i].edited <= now
  BY <1>1, <1>2 DEF LatestOK
<1> HIDE DEF h
<1>4. CASE n + 1 > MaxMessages
  <2>1. n = MaxMessages /\ history' = SubSeq(h, 2, n + 1)
    <3>1. n = MaxMessages /\ Len(h) > MaxMessages /\ Len(h) - MaxMessages + 1 = 2 /\ Len(h) = n + 1
      BY <1>1, <1>2, <1>4
    <3>2. history' = SubSeq(h, Len(h) - MaxMessages + 1, Len(h))
      BY <3>1 DEF Drain, h
    <3> QED
      BY <3>1, <3>2
  <2>2. /\ history' \in Seq(Message) /\ Len(history') = n
        /\ \A i \in 1..n : history'[i] = h[i + 1]
    <3>1. \A i \in 2..(n + 1) : h[i] \in Message
      BY <1>1, <1>3
    <3>2. 2 \in Int /\ n + 1 \in Int /\ 2 <= n + 1 /\ (n + 1) - 2 + 1 = n
      BY <1>1, <2>1
    <3>3. /\ SubSeq(h, 2, n + 1) \in Seq(Message)
          /\ Len(SubSeq(h, 2, n + 1)) = IF 2 <= n + 1 THEN (n + 1) - 2 + 1 ELSE 0
          /\ \A i \in 1..((n + 1) - 2 + 1) : SubSeq(h, 2, n + 1)[i] = h[2 + i - 1]
      BY <3>1, <3>2, SubSeqProperties
    <3>4. \A i \in 1..n : 2 + i - 1 = i + 1
      BY <1>1
    <3> QED
      BY <2>1, <3>2, <3>3, <3>4
  <2>3. \A i \in 1..n : /\ history'[i].id = (arrivals + 1) - n + i /\ history'[i].edited <= now
                        /\ i + 1 \in 1..(n + 1)
    <3> SUFFICES ASSUME NEW i \in 1..n
                 PROVE  /\ history'[i].id = (arrivals + 1) - n + i /\ history'[i].edited <= now
                        /\ i + 1 \in 1..(n + 1)
      OBVIOUS
    <3>1. i + 1 \in 1..(n + 1) /\ arrivals - n + (i + 1) = (arrivals + 1) - n + i
      BY <1>1
    <3>2. h[i + 1].id = arrivals - n + (i + 1) /\ h[i + 1].edited <= now
      BY <1>3, <3>1
    <3> QED
      BY <2>2, <3>1, <3>2
  <2>4. LatestOK'
    BY <1>1, <2>1, <2>2, <2>3 DEF LatestOK
  <2>5. \A j \in 1..n : j + 1 \in 1..n \/ j + 1 = n + 1
    BY <1>1
  <2> QED
    BY <1>2, <2>2, <2>4, <2>5
<1>5. CASE ~(n + 1 > MaxMessages)
  <2>1. history' = h
    <3>1. ~(Len(h) > MaxMessages)
      BY <1>2, <1>5
    <3> QED
      BY <3>1 DEF Drain, h
  <2>2. LatestOK'
    <3>1. \A i \in 1..(n + 1) : arrivals - n + i = (arrivals + 1) - (n + 1) + i
      BY <1>1
    <3>2. n + 1 <= MaxMessages /\ n + 1 <= arrivals + 1
      BY <1>1, <1>5
    <3>3. \A i \in 1..(n + 1) : /\ history'[i].id = (arrivals + 1) - (n + 1) + i
                                /\ history'[i].edited <= now
      BY <1>3, <2>1, <3>1
    <3>4. history' \in Seq(Message) /\ Len(history') = n + 1
      BY <1>2, <2>1
    <3> QED
      BY <3>2, <3>3, <3>4 DEF LatestOK
  <2>3. \A j \in 1..(n + 1) : j \in 1..n \/ j = n + 1
    BY <1>1
  <2> QED
    BY <1>2, <2>1, <2>2, <2>3
<1> QED
  BY <1>4, <1>5

LEMMA StoreStep ==
    ASSUME Base, NEW s \in Sessions, store_room_message(s)
    PROVE  /\ LatestOK'
           /\ \E m \in Message :
                /\ m.id = arrivals + 1 /\ m.version = 0 /\ m.edited = 0 /\ m.preview = None
                /\ ~m.deleted
                /\ tasks' = tasks \cup PreviewTask("send", m.id, m.body, 0, 0)
                /\ \A j \in 1..Len(history') :
                      history'[j] = m \/ \E i \in 1..Len(history) : history'[j] = history[i]
<1> DEFINE m == [id |-> arrivals + 1, author |-> UserOf[s], name |-> job[s].name,
                 body |-> job[s].body, edited |-> 0, version |-> 0, preview |-> None,
                 reactions |-> {}, deleted |-> FALSE]
<1>1. RoomOK /\ LatestOK /\ arrivals \in Nat /\ job[s] \in Job
  BY DEF Base, RoomOK, JobsOK
<1>2. m \in Message
  <2>1. UserOf[s] \in Users
    BY HistoryAssumption
  <2>2. job[s].name \in Names \cup {None} /\ job[s].body \in Body
    BY <1>1 DEF Job
  <2>3. arrivals + 1 \in Nat /\ None \in Previews
    BY <1>1 DEF Previews
  <2> QED
    BY <2>1, <2>2, <2>3 DEF Message
<1>3. /\ m.id = arrivals + 1 /\ m.version = 0 /\ m.edited = 0 /\ m.preview = None /\ ~m.deleted
  OBVIOUS
<1>4. /\ history' = Drain(Append(history, m)) /\ arrivals' = arrivals + 1 /\ now' = now
      /\ tasks' = tasks \cup PreviewTask("send", m.id, m.body, 0, 0)
  BY DEF store_room_message
<1> HIDE DEF m
<1> QED
  BY <1>1, <1>2, <1>3, <1>4, Drained

\* delete_user_messages_in_room: messages are erased in their places.
LEMMA EraseStep ==
    ASSUME Base, NEW s \in Sessions, delete_user_messages_in_room(s)
    PROVE  /\ LatestOK' /\ Len(history') = Len(history)
           /\ \A i \in 1..Len(history) :
                 history'[i] = history[i]
                 \/ (~history[i].deleted /\ history'[i] = Erased(history[i]))
<1>1. /\ history \in Seq(Message) /\ Len(history) \in Nat /\ DOMAIN history = 1..Len(history)
      /\ \A i \in 1..Len(history) : history[i] \in Message
  BY DEF Base, LatestOK
<1>2. history' = [i \in 1..Len(history) |->
                    IF ~history[i].deleted /\ history[i].name = job[s].name
                    THEN Erased(history[i]) ELSE history[i]]
  BY <1>1 DEF delete_user_messages_in_room
<1>3. \A i \in 1..Len(history) :
         /\ history'[i] \in Message
         /\ history'[i].id = history[i].id /\ history'[i].edited = history[i].edited
         /\ history'[i] = history[i] \/ (~history[i].deleted /\ history'[i] = Erased(history[i]))
  BY <1>1, <1>2, ClearedMessage
<1>4. history' \in [1..Len(history) -> Message]
  BY <1>2, <1>3
<1>5. history' \in Seq(Message) /\ Len(history') = Len(history)
  BY <1>1, <1>4
<1>6. UNCHANGED <<arrivals, now>>
  BY DEF delete_user_messages_in_room
<1> QED
  BY <1>3, <1>5, <1>6 DEF Base, LatestOK
-----------------------------------------------------------------------------
(***************************************************************************)
(* The handlers.                                                           *)
(***************************************************************************)
LEMMA Idle ==
    ASSUME RoomOK
    PROVE  IdleJob \in Job /\ Fit(IdleJob, arrivals, now) /\ Blank \in Body
<1>1. Blank \in Body
  BY DEF Blank, Body
<1>2. IdleJob \in Job
  BY <1>1 DEF IdleJob, Job
<1>3. Fit(IdleJob, arrivals, now)
  BY DEF RoomOK, Fit, IdleJob
<1> QED
  BY <1>1, <1>2, <1>3

\* One handler goes on, while messages arrive and time passes.
LEMMA OneJob ==
    ASSUME JobsOK, arrivals \in Nat, now \in Nat, arrivals' \in Nat, now' \in Nat,
           arrivals <= arrivals', now <= now',
           NEW s \in Sessions, NEW j \in Job, Fit(j, arrivals', now'),
           job' = [job EXCEPT ![s] = j]
    PROVE  JobsOK'
<1>1. /\ job' \in [Sessions -> Job] /\ job'[s] = j
      /\ \A x \in Sessions \ {s} : job'[x] = job[x]
  BY DEF JobsOK
<1>2. \A x \in Sessions : /\ job[x].id \in Nat /\ job[x].at \in Nat
                          /\ job[x].id <= arrivals' /\ job[x].at <= now'
  BY DEF JobsOK, Job, Fit
<1>3. \A x \in Sessions : Fit(job[x], arrivals', now')
  BY <1>2 DEF JobsOK, Fit
<1> QED
  BY <1>1, <1>3 DEF JobsOK

\* A request begins.
LEMMA Begun ==
    ASSUME Base, UNCHANGED <<arrivals, now>>, NEW s \in Sessions, NEW op, NEW j \in Job,
           Begin(s, op, j), j.id <= arrivals /\ j.at <= now,
           j.stage \in {"edit", "find", "count"} => j.id >= 1,
           j.stage = "edit" => j.at >= 1,
           op = "preview" => j.body.url \in Urls /\ ~j.body.sealed,
           op = "react" => j.id >= 1
    PROVE  JobsOK'
<1>1. /\ op \in Operations /\ UserOf[s] \in Users /\ name[UserOf[s]] \in Names
  BY HistoryAssumption DEF Begin, Base, RoomOK
<1> DEFINE c == ~can_speak(UserOf[s])
           x == [j EXCEPT !.op = op, !.muted = c, !.name = name[UserOf[s]]]
<1>2. c \in BOOLEAN
  BY DEF can_speak
<1>3. /\ x \in Job /\ x.id = j.id /\ x.at = j.at /\ x.stage = j.stage /\ x.body = j.body
      /\ x.op = op /\ x.name \in Names
  <2> HIDE DEF c
  <2> QED
    BY <1>1, <1>2 DEF Job
<1>4. Fit(x, arrivals, now)
  <2> HIDE DEF x
  <2> QED
    BY <1>3 DEF Fit
<1>5. job' = [job EXCEPT ![s] = x]
  BY DEF Begin
<1> HIDE DEF x
<1>6. /\ arrivals \in Nat /\ now \in Nat /\ arrivals' \in Nat /\ now' \in Nat
      /\ arrivals <= arrivals' /\ now <= now' /\ JobsOK
  BY DEF Base, RoomOK
<1>7. Fit(x, arrivals', now')
  BY <1>4
<1> QED
  BY <1>3, <1>5, <1>6, <1>7, OneJob

\* A handler returns, with or without a message stored.
LEMMA Returned ==
    ASSUME Base, NEW s \in Sessions, Return(s), now' = now,
           arrivals' = arrivals \/ arrivals' = arrivals + 1
    PROVE  JobsOK'
<1>1. /\ arrivals \in Nat /\ now \in Nat /\ arrivals' \in Nat /\ now' \in Nat
      /\ arrivals <= arrivals' /\ now <= now' /\ JobsOK
  BY DEF Base, RoomOK
<1>2. IdleJob \in Job /\ Fit(IdleJob, arrivals', now')
  BY <1>1, Idle DEF Base, Fit, IdleJob
<1>3. job' = [job EXCEPT ![s] = IdleJob]
  BY DEF Return
<1> QED
  BY <1>1, <1>2, <1>3, OneJob

\* A handler goes on to its next stage.
LEMMA Continued ==
    ASSUME Base, NEW s \in Sessions, NEW stage \in {"speak", "store", "count"},
           Continue(s, stage), UNCHANGED <<arrivals, now>>, stage = "count" => job[s].id >= 1
    PROVE  JobsOK'
<1> DEFINE j == [job[s] EXCEPT !.stage = stage]
<1>1. arrivals \in Nat /\ now \in Nat /\ job[s] \in Job /\ Fit(job[s], arrivals, now)
  BY DEF Base, RoomOK, JobsOK
<1>2. j \in Job /\ Fit(j, arrivals, now)
  BY <1>1 DEF Job, Fit
<1>3. job' = [job EXCEPT ![s] = j] /\ JobsOK /\ arrivals' \in Nat /\ now' \in Nat
      /\ arrivals <= arrivals' /\ now <= now'
  BY <1>1 DEF Continue, Base
<1>4. Fit(j, arrivals', now')
  BY <1>2
<1> HIDE DEF j
<1> QED
  BY <1>1, <1>2, <1>3, <1>4, OneJob

\* A preview task is for a message that has arrived.
LEMMA NewTasks ==
    ASSUME Base, arrivals' \in Nat, arrivals <= arrivals',
           NEW op \in {"send", "edit", "request"}, NEW id \in 1..arrivals', NEW body \in Body,
           NEW e \in Nat, NEW v \in Nat, tasks' \subseteq tasks \cup PreviewTask(op, id, body, e, v)
    PROVE  TasksOK'
<1>1. arrivals \in Nat /\ TasksOK
  BY DEF Base, RoomOK
<1>2. body.url # None => body.url \in Urls
  BY DEF Body
<1>3. \A t \in PreviewTask(op, id, body, e, v) : t \in Task /\ t.id = id
  BY <1>1, <1>2 DEF PreviewTask, Task
<1>4. \A t \in tasks : t \in Task /\ t.id \in 1..arrivals'
  BY <1>1 DEF TasksOK
<1> QED
  BY <1>3, <1>4 DEF TasksOK

LEMMA SameTasks ==
    ASSUME Base, arrivals' \in Nat, arrivals <= arrivals', tasks' \subseteq tasks
    PROVE  TasksOK'
<1>1. arrivals \in Nat /\ TasksOK
  BY DEF Base, RoomOK
<1> QED
  BY <1>1 DEF TasksOK

\* The requests whose first step takes up the message they are about.
LEMMA FirstSteps ==
    ASSUME Base, NEW s \in Sessions,
           \/ SendCheck(s) \/ EditCheck(s) \/ ReactCheck(s) \/ VoteCheck(s) \/ PreviewCheck(s)
           \/ leave_game(s) \/ join_game(s)
    PROVE  JobsOK'
<1>0. /\ UNCHANGED <<arrivals, now>> /\ arrivals \in Nat /\ now \in Nat /\ now >= 1
      /\ IdleJob \in Job /\ RoomOK
  BY Idle DEF SendCheck, EditCheck, ReactCheck, VoteCheck, PreviewCheck, leave_game, join_game,
              Base, RoomOK
<1>1. CASE SendCheck(s)
  <2>1. PICK body \in Body : Begin(s, "send", [IdleJob EXCEPT !.stage = "speak", !.body = body])
    BY <1>1 DEF SendCheck
  <2> DEFINE j == [IdleJob EXCEPT !.stage = "speak", !.body = body]
  <2>2. j \in Job /\ j.id = 0 /\ j.at = 0 /\ j.stage = "speak"
    BY <1>0 DEF Job, IdleJob
  <2> HIDE DEF j
  <2>3. Begin(s, "send", j)
    BY <2>1 DEF j
  <2> QED
    BY <1>0, <2>2, <2>3, Begun
<1>2. CASE EditCheck(s)
  <2>1. PICK id \in 1..arrivals, body \in Body :
           Begin(s, "edit", [IdleJob EXCEPT !.stage = "edit", !.id = id, !.body = body, !.at = now])
    BY <1>2 DEF EditCheck
  <2>0. id \in Nat /\ id <= arrivals /\ id >= 1
    BY <1>0
  <2> DEFINE j == [IdleJob EXCEPT !.stage = "edit", !.id = id, !.body = body, !.at = now]
  <2>2. j \in Job /\ j.id = id /\ j.at = now /\ j.stage = "edit"
    BY <1>0, <2>0 DEF Job, IdleJob
  <2> HIDE DEF j
  <2>3. Begin(s, "edit", j) /\ id <= arrivals /\ id >= 1 /\ now <= now
    BY <1>0, <2>0, <2>1 DEF j
  <2> QED
    BY <1>0, <2>2, <2>3, Begun
<1>3. CASE ReactCheck(s)
  <2>1. PICK id \in 1..arrivals :
           Begin(s, "react", [IdleJob EXCEPT !.stage = "find", !.id = id])
    BY <1>3 DEF ReactCheck
  <2>0. id \in Nat /\ id <= arrivals /\ id >= 1
    BY <1>0
  <2> DEFINE j == [IdleJob EXCEPT !.stage = "find", !.id = id]
  <2>2. j \in Job /\ j.id = id /\ j.at = 0 /\ j.stage = "find"
    BY <1>0, <2>0 DEF Job, IdleJob
  <2> HIDE DEF j
  <2>3. Begin(s, "react", j) /\ id <= arrivals /\ id >= 1
    BY <1>0, <2>0, <2>1 DEF j
  <2> QED
    BY <1>0, <2>2, <2>3, Begun
<1>4. CASE VoteCheck(s)
  <2>1. PICK id \in 1..arrivals, c \in SUBSET Choices \ {{}} :
           Begin(s, "vote", [IdleJob EXCEPT !.stage = "find", !.id = id, !.choices = c])
    BY <1>4 DEF VoteCheck
  <2>0. id \in Nat /\ id <= arrivals /\ id >= 1
    BY <1>0
  <2> DEFINE j == [IdleJob EXCEPT !.stage = "find", !.id = id, !.choices = c]
  <2>2. j \in Job /\ j.id = id /\ j.at = 0 /\ j.stage = "find"
    BY <1>0, <2>0 DEF Job, IdleJob
  <2> HIDE DEF j
  <2>3. Begin(s, "vote", j) /\ id <= arrivals /\ id >= 1
    BY <1>0, <2>0, <2>1 DEF j
  <2> QED
    BY <1>0, <2>2, <2>3, Begun
<1>5. CASE PreviewCheck(s)
  <2>1. PICK id \in 1..arrivals, u \in Urls :
           Begin(s, "preview", [IdleJob EXCEPT !.stage = "find", !.id = id,
                                               !.body = [url |-> u, sealed |-> FALSE]])
    BY <1>5 DEF PreviewCheck
  <2>0. id \in Nat /\ id <= arrivals /\ id >= 1
    BY <1>0
  <2> DEFINE b == [url |-> u, sealed |-> FALSE]
             j == [IdleJob EXCEPT !.stage = "find", !.id = id, !.body = b]
  <2>2. b \in Body /\ b.url \in Urls /\ ~b.sealed
    BY DEF Body
  <2>3. j \in Job /\ j.id = id /\ j.at = 0 /\ j.stage = "find" /\ j.body = b
    <3> HIDE DEF b
    <3> QED
      BY <1>0, <2>0, <2>2 DEF Job, IdleJob
  <2>4. Begin(s, "preview", j) /\ id <= arrivals /\ id >= 1
    BY <2>0, <2>1
  <2> HIDE DEF j, b
  <2> QED
    BY <1>0, <2>2, <2>3, <2>4, Begun
<1>6. CASE leave_game(s)
  <2>1. PICK stage \in {"idle", "erase"} : Begin(s, "leave", [IdleJob EXCEPT !.stage = stage])
    BY <1>6 DEF leave_game
  <2> DEFINE j == [IdleJob EXCEPT !.stage = stage]
  <2>2. j \in Job /\ j.id = 0 /\ j.at = 0 /\ j.stage = stage
    BY <1>0 DEF Job, IdleJob
  <2> HIDE DEF j
  <2>3. Begin(s, "leave", j)
    BY <2>1 DEF j
  <2> QED
    BY <1>0, <2>2, <2>3, Begun
<1>7. CASE join_game(s)
  <2>1. Begin(s, "join", IdleJob)
    BY <1>7 DEF join_game
  <2>2. IdleJob.id = 0 /\ IdleJob.at = 0 /\ IdleJob.stage = "idle"
    BY DEF IdleJob
  <2> QED
    BY <1>0, <2>1, <2>2, Begun
<1> QED
  BY <1>1, <1>2, <1>3, <1>4, <1>5, <1>6, <1>7

\* A sanction, or the room's deletion, takes the mark off handlers.
LEMMA Unmuted ==
    ASSUME Base, UNCHANGED <<arrivals, now>>, DOMAIN job' = Sessions,
           job' = [x \in Sessions |-> job'[x]],
           \A x \in Sessions : \/ job'[x] = job[x]
                               \/ job'[x] = [job[x] EXCEPT !.muted = FALSE]
                               \/ job'[x] = [IdleJob EXCEPT !.op = "delete_room", !.stage = "evict"]
    PROVE  JobsOK'
<1>1. /\ RoomOK /\ arrivals \in Nat /\ now \in Nat
      /\ \A x \in Sessions : job[x] \in Job /\ Fit(job[x], arrivals, now)
  BY DEF Base, RoomOK, JobsOK
<1>2. \A j \in Job : Fit(j, arrivals, now) =>
         [j EXCEPT !.muted = FALSE] \in Job /\ Fit([j EXCEPT !.muted = FALSE], arrivals, now)
  BY DEF Job, Fit
<1> DEFINE e == [IdleJob EXCEPT !.op = "delete_room", !.stage = "evict"]
<1>3. e \in Job /\ Fit(e, arrivals, now)
  BY <1>1, Idle DEF Job, Fit, IdleJob, Operations
<1>4. \A x \in Sessions : job'[x] \in Job /\ Fit(job'[x], arrivals, now)
  BY <1>1, <1>2, <1>3
<1> QED
  BY <1>4 DEF JobsOK

\* Steps of handlers and of the room that leave the messages alone.
LEMMA OtherSteps ==
    ASSUME Base,
           \/ \E s \in Sessions : \/ SendCheck(s) \/ EditCheck(s) \/ ReactCheck(s) \/ VoteCheck(s)
                                  \/ PreviewCheck(s) \/ leave_game(s) \/ join_game(s)
                                  \/ SpeakCheck(s) \/ ReactFind(s) \/ VoteFind(s) \/ vote_poll(s)
                                  \/ delete_room(s)
           \/ \E u \in Users : change_username(u) \/ RenameSessions(u) \/ Sanction(u)
           \/ Tick \/ UNCHANGED vars
    PROVE  UNCHANGED <<history, arrivals, tasks>> /\ Base'
<1>1. /\ UNCHANGED <<history, arrivals, tasks>>
      /\ arrivals \in Nat /\ now \in Nat /\ now >= 1 /\ now' \in Nat /\ now <= now' /\ now' >= 1
  <2>1. arrivals \in Nat /\ now \in Nat /\ now >= 1
    BY DEF Base, RoomOK
  <2>2. UNCHANGED <<history, arrivals, tasks>> /\ (now' = now \/ now' = now + 1)
    BY DEF SendCheck, EditCheck, ReactCheck, VoteCheck, PreviewCheck, leave_game, join_game,
           SpeakCheck, ReactFind, VoteFind, vote_poll, delete_room, change_username, RenameSessions,
           Sanction, Tick, vars
  <2> QED
    BY <2>1, <2>2
<1>2. LatestOK'
  <2>1. \A i \in 1..Len(history) : history[i].edited \in Nat
    <3>1. \A i \in 1..Len(history) : history[i] \in Message
      BY DEF Base, LatestOK
    <3> QED
      BY <3>1 DEF Message
  <2> QED
    BY <1>1, <2>1 DEF Base, LatestOK
<1>3. TasksOK'
  BY <1>1, SameTasks
<1>4. RoomOK'
  <2>1. kind' \in {"none", "classic", "community"} /\ silenced' \subseteq Users
        /\ inRoom' \subseteq Sessions
    BY DEF SendCheck, EditCheck, ReactCheck, VoteCheck, PreviewCheck, leave_game, join_game, SpeakCheck,
           ReactFind, VoteFind, vote_poll, delete_room, change_username, RenameSessions, Sanction,
           Tick, vars, Base, RoomOK
  <2>2. account' \in [Users -> Names] /\ name' \in [Users -> Names]
    BY DEF SendCheck, EditCheck, ReactCheck, VoteCheck, PreviewCheck, leave_game, join_game, SpeakCheck,
           ReactFind, VoteFind, vote_poll, delete_room, change_username, RenameSessions, Sanction,
           Tick, vars, Base, RoomOK
  <2> QED
    BY <1>1, <2>1, <2>2 DEF RoomOK
<1>5. JobsOK'
  <2>1. CASE UNCHANGED job
    <3>1. \A x \in Sessions : job[x].id \in Nat /\ job[x].at \in Nat
      BY DEF Base, JobsOK, Job
    <3> QED
      BY <1>1, <2>1, <3>1 DEF Base, JobsOK, Fit
  <2>2. ASSUME NEW s \in Sessions,
               \/ SendCheck(s) \/ EditCheck(s) \/ ReactCheck(s) \/ VoteCheck(s) \/ PreviewCheck(s)
               \/ leave_game(s) \/ join_game(s)
        PROVE  JobsOK'
    BY <2>2, FirstSteps
  <2>3. ASSUME NEW s \in Sessions, now' = now, Return(s) PROVE JobsOK'
    BY <1>1, <2>3, Returned
  <2>4. ASSUME NEW s \in Sessions, SpeakCheck(s) PROVE JobsOK'
    <3>1. CASE Continue(s, "store")
      BY <1>1, <2>4, <3>1, Continued DEF SpeakCheck
    <3>2. CASE Return(s)
      BY <2>3, <2>4, <3>2 DEF SpeakCheck
    <3>3. CASE job' = [job EXCEPT ![s] = [@ EXCEPT !.stage = "store", !.muted = FALSE]]
      <4> DEFINE j == [job[s] EXCEPT !.stage = "store", !.muted = FALSE]
      <4>1. job[s] \in Job /\ Fit(job[s], arrivals, now) /\ JobsOK /\ now' = now
        BY <2>4 DEF Base, JobsOK, SpeakCheck
      <4>2. j \in Job /\ Fit(j, arrivals, now)
        BY <4>1 DEF Job, Fit
      <4>3. job' = [job EXCEPT ![s] = j] /\ Fit(j, arrivals', now')
        BY <1>1, <3>3, <4>1, <4>2 DEF JobsOK
      <4>4. s \in Sessions /\ now <= now' /\ arrivals <= arrivals'
        BY <1>1, <2>4, <4>1
      <4> HIDE DEF j
      <4> QED
        BY <1>1, <4>1, <4>2, <4>3, <4>4, OneJob
    <3> QED
      BY <2>4, <3>1, <3>2, <3>3 DEF SpeakCheck
  <2>5. ASSUME NEW s \in Sessions, ReactFind(s) \/ VoteFind(s) PROVE JobsOK'
    <3>1. now' = now /\ job[s].id >= 1
      BY <2>5 DEF ReactFind, VoteFind, At, Base, JobsOK, Fit
    <3>2. Return(s) \/ Continue(s, "speak") \/ Continue(s, "count")
      BY <2>5 DEF ReactFind, VoteFind
    <3> QED
      BY <1>1, <2>3, <3>1, <3>2, Continued
  <2>6. ASSUME NEW s \in Sessions, delete_room(s) PROVE JobsOK'
    <3>1. job' = [x \in Sessions |->
                     IF x = s THEN [IdleJob EXCEPT !.op = "delete_room", !.stage = "evict"]
                              ELSE [job[x] EXCEPT !.muted = FALSE]]
          /\ now' = now
      BY <2>6 DEF delete_room
    <3>2. DOMAIN job' = Sessions /\ job' = [x \in Sessions |-> job'[x]]
      BY <3>1
    <3> QED
      BY <1>1, <3>1, <3>2, Unmuted
  <2>7. ASSUME NEW u \in Users, Sanction(u) PROVE JobsOK'
    <3>1. CASE UNCHANGED job
      BY <2>1, <3>1
    <3>2. CASE job' = [s \in Sessions |-> IF UserOf[s] = u THEN [job[s] EXCEPT !.muted = FALSE]
                                                           ELSE job[s]]
      <4>1. DOMAIN job' = Sessions /\ job' = [x \in Sessions |-> job'[x]] /\ now' = now
        BY <2>7, <3>2 DEF Sanction
      <4> QED
        BY <1>1, <3>2, <4>1, Unmuted
    <3> QED
      BY <2>7, <3>1, <3>2 DEF Sanction
  <2>8. \/ UNCHANGED job
        \/ \E s \in Sessions : \/ SendCheck(s) \/ EditCheck(s) \/ ReactCheck(s) \/ VoteCheck(s)
                               \/ PreviewCheck(s) \/ leave_game(s) \/ join_game(s)
        \/ \E s \in Sessions : SpeakCheck(s) \/ ReactFind(s) \/ VoteFind(s) \/ delete_room(s)
        \/ \E s \in Sessions : now' = now /\ Return(s)
        \/ \E u \in Users : Sanction(u)
    BY DEF vote_poll, change_username, RenameSessions, Tick, vars
  <2> QED
    BY <2>1, <2>2, <2>3, <2>4, <2>5, <2>6, <2>7, <2>8
<1> QED
  BY <1>1, <1>2, <1>3, <1>4, <1>5 DEF Base

\* Steps that change messages or preview tasks.
LEMMA MessageSteps ==
    ASSUME Base,
           \/ \E s \in Sessions : \/ store_room_message(s) \/ edit_message(s) \/ delete_message(s)
                                  \/ update_message_reactions(s) \/ request_link_preview(s)
                                  \/ delete_user_messages_in_room(s) \/ EvictAll(s)
           \/ FetchPreview
    PROVE  Base'
<1>1. RoomOK /\ LatestOK /\ JobsOK /\ TasksOK /\ arrivals \in Nat /\ now \in Nat
  BY DEF Base, RoomOK
<1>2. /\ UNCHANGED <<kind, silenced, account, name, now>> /\ inRoom' \subseteq Sessions
      /\ arrivals' = arrivals \/ arrivals' = arrivals + 1
  BY <1>1 DEF store_room_message, edit_message, delete_message, update_message_reactions,
     request_link_preview, delete_user_messages_in_room, EvictAll, FetchPreview, RoomOK
<1>3. RoomOK' /\ arrivals' \in Nat /\ arrivals <= arrivals'
  BY <1>1, <1>2 DEF RoomOK
<1>4. \A s \in Sessions : /\ job[s] \in Job /\ Fit(job[s], arrivals, now)
                          /\ job[s].id \in Nat /\ job[s].at \in Nat
  BY <1>1 DEF JobsOK, Job
<1>5. ASSUME UNCHANGED <<history, arrivals>> PROVE LatestOK'
  BY <1>1, <1>2, <1>5 DEF LatestOK
<1>6. ASSUME NEW s \in Sessions, store_room_message(s) PROVE Base'
  <2>1. JobsOK'
    BY <1>2, <1>6, Returned DEF store_room_message
  <2>2. PICK m \in Message : /\ m.id = arrivals + 1
                             /\ tasks' = tasks \cup PreviewTask("send", m.id, m.body, 0, 0)
    BY <1>6, StoreStep
  <2>3. m.body \in Body /\ m.id \in 1..arrivals'
    BY <1>1, <1>6, <2>2 DEF store_room_message, Message
  <2>4. TasksOK'
    BY <1>3, <2>2, <2>3, NewTasks
  <2> QED
    BY <1>3, <1>6, <2>1, <2>4, StoreStep DEF Base
<1>7. ASSUME NEW s \in Sessions, edit_message(s) PROVE Base'
  <2>1. JobsOK' /\ UNCHANGED <<arrivals, now>>
    BY <1>2, <1>7, Returned DEF edit_message
  <2>2. CASE UNCHANGED <<history, tasks>>
    BY <1>3, <1>5, <2>1, <2>2, SameTasks DEF Base
  <2>3. ASSUME NEW k \in 1..Len(history),
               Replaces(k, Edited(history[k], job[s].body, job[s].at)),
               tasks' = tasks \cup PreviewTask("edit", job[s].id, job[s].body, job[s].at,
                                               history[k].version + 1)
        PROVE  Base'
    <3>1. LatestOK'
      BY <1>1, <2>1, <2>3, Replaced
    <3>2. job[s].id \in 1..arrivals' /\ job[s].body \in Body /\ job[s].at \in Nat
      BY <1>3, <1>4, <1>7, <2>1 DEF edit_message, At, Fit, Job
    <3>3. history[k] \in Message
      BY <1>1, <2>3 DEF LatestOK
    <3>4. history[k].version + 1 \in Nat
      BY <3>3 DEF Message
    <3>5. TasksOK'
      BY <1>3, <2>3, <3>2, <3>4, NewTasks
    <3> QED
      BY <1>3, <2>1, <3>1, <3>5 DEF Base
  <2> QED
    BY <1>7, <2>2, <2>3, EditStep
<1>8. ASSUME NEW s \in Sessions, delete_message(s) PROVE Base'
  <2>1. UNCHANGED <<arrivals, now, tasks>>
    BY <1>8 DEF delete_message
  <2>2. JobsOK'
    <3>1. Begin(s, "delete", IdleJob)
      BY <1>8 DEF delete_message
    <3>2. IdleJob \in Job /\ IdleJob.id = 0 /\ IdleJob.at = 0 /\ IdleJob.stage = "idle"
      BY <1>1, Idle DEF IdleJob
    <3> QED
      BY <1>1, <1>8, <2>1, <3>1, <3>2, Begun
  <2>3. LatestOK'
    BY <1>1, <1>5, <1>8, <2>1, DeleteStep, Replaced
  <2> QED
    BY <1>3, <2>1, <2>2, <2>3, SameTasks DEF Base
<1>9. ASSUME NEW s \in Sessions, update_message_reactions(s) PROVE Base'
  <2>1. JobsOK' /\ UNCHANGED <<arrivals, now, tasks>>
    BY <1>2, <1>9, Returned DEF update_message_reactions
  <2>2. LatestOK'
    BY <1>1, <1>5, <1>9, <2>1, ReactStep, Replaced
  <2> QED
    BY <1>3, <2>1, <2>2, SameTasks DEF Base
<1>10. ASSUME NEW s \in Sessions, request_link_preview(s) PROVE Base'
  <2>1. JobsOK' /\ UNCHANGED <<arrivals, now, history>>
    BY <1>2, <1>10, Returned DEF request_link_preview
  <2>2. TasksOK'
    <3>1. CASE UNCHANGED tasks
      BY <1>3, <3>1, SameTasks
    <3>2. CASE /\ Stored(job[s].id)
               /\ tasks' = tasks \cup PreviewTask("request", job[s].id, job[s].body,
                                                  Msg(job[s].id).edited, Msg(job[s].id).version)
      <4>1. Msg(job[s].id) \in Message
        <5>1. PICK k \in 1..Len(history) : Msg(job[s].id) = history[k]
          BY <1>1, <3>2, Found
        <5> QED
          BY <1>1, <5>1 DEF LatestOK
      <4>2. Msg(job[s].id).edited \in Nat /\ Msg(job[s].id).version \in Nat
        BY <4>1 DEF Message
      <4>3. job[s].id \in 1..arrivals' /\ job[s].body \in Body
        BY <1>3, <1>4, <1>10, <2>1 DEF request_link_preview, At, Fit, Job
      <4> QED
        BY <1>3, <3>2, <4>2, <4>3, NewTasks
    <3> QED
      BY <1>10, <3>1, <3>2 DEF request_link_preview
  <2> QED
    BY <1>3, <1>5, <2>1, <2>2 DEF Base
<1>11. ASSUME NEW s \in Sessions, delete_user_messages_in_room(s) PROVE Base'
  <2>1. JobsOK' /\ UNCHANGED <<arrivals, now, tasks>>
    BY <1>2, <1>11, Returned DEF delete_user_messages_in_room
  <2> QED
    BY <1>3, <1>11, <2>1, EraseStep, SameTasks DEF Base
<1>12. ASSUME NEW s \in Sessions, EvictAll(s) PROVE Base'
  <2>1. JobsOK' /\ UNCHANGED <<arrivals, now, tasks>> /\ history' = <<>>
    BY <1>2, <1>12, Returned DEF EvictAll
  <2>2. LatestOK'
    BY <1>1, <2>1, HistoryAssumption DEF LatestOK
  <2> QED
    BY <1>3, <2>1, <2>2, SameTasks DEF Base
<1>13. CASE FetchPreview
  <2>1. UNCHANGED <<job, arrivals, now>> /\ tasks' \subseteq tasks
    BY <1>13 DEF FetchPreview
  <2>2. LatestOK'
    BY <1>1, <1>5, <1>13, <2>1, FetchStep, Replaced
  <2>3. JobsOK'
    BY <1>1, <2>1 DEF JobsOK
  <2> QED
    BY <1>3, <2>1, <2>2, <2>3, SameTasks DEF Base
<1> QED
  BY <1>6, <1>7, <1>8, <1>9, <1>10, <1>11, <1>12, <1>13

LEMMA BaseInit == Init => Base
<1> SUFFICES ASSUME Init PROVE Base
  OBVIOUS
<1>1. RoomOK
  BY HistoryAssumption DEF Init, RoomOK
<1>2. LatestOK
  BY HistoryAssumption DEF Init, LatestOK
<1>3. JobsOK
  BY <1>1, Idle DEF Init, JobsOK
<1>4. TasksOK
  BY DEF Init, TasksOK
<1> QED
  BY <1>1, <1>2, <1>3, <1>4 DEF Base

LEMMA BaseNext == Base /\ [Next]_vars => Base'
  BY MessageSteps, OtherSteps DEF Next, Messages, Membership

LEMMA BaseHolds == Spec => []Base
  BY BaseInit, BaseNext, PTL DEF Spec

\* The history of a room is the latest messages in the order they were stored,
\* without a gap, for any limit and any number of sessions (store_room_message).
THEOREM LatestKept == Spec => []HistoryIsLatest
<1>1. Base => HistoryIsLatest
  BY DEF Base, LatestOK, HistoryIsLatest
<1> QED
  BY <1>1, BaseHolds, PTL
-----------------------------------------------------------------------------
(***************************************************************************)
(* What becomes of one message in a step: the fact every property of the   *)
(* messages is proved from.                                                *)
(***************************************************************************)
Becomes(m, n) ==
    /\ n.id = m.id
    /\ \/ n = m
       \/ ~m.deleted /\ (n = Tombstone(m) \/ n = Erased(m))
       \/ \E u \in Names : n = toggle_reaction_in_message(m, u)
       \/ \E s \in Sessions :
             /\ At(s, "edit", "edit") /\ ~m.deleted /\ m.author = UserOf[s]
             /\ n = Edited(m, job[s].body, job[s].at)
             /\ [id |-> m.id, at |-> job[s].at, version |-> m.version + 1] \in stamps'
       \/ \E t \in tasks :
             /\ t.id = m.id /\ StillWanted(t, m)
             /\ n = [m EXCEPT !.preview = [url |-> t.url, version |-> t.version]]

Arrives(n) ==
    n.id = arrivals + 1 /\ n.version = 0 /\ n.edited = 0 /\ n.preview = None /\ ~n.deleted

\* Every message of the next state has arrived or comes from one of this state.
Traced ==
    \A j \in 1..Len(history') :
        \/ Arrives(history'[j])
        \/ \E i \in 1..Len(history) : Becomes(history[i], history'[j])

\* A message and what it becomes are in the same place of the order of ids.
LEMMA OneMessage ==
    ASSUME Base, NEW i \in 1..Len(history), NEW k \in 1..Len(history),
           history[i].id = history[k].id
    PROVE  i = k
<1>1. Len(history) \in Nat /\ arrivals \in Nat /\ i \in Int /\ k \in Int
  BY DEF Base, RoomOK, LatestOK
<1>2. /\ history[i].id = arrivals - Len(history) + i
      /\ history[k].id = arrivals - Len(history) + k
  BY DEF Base, LatestOK
<1>3. arrivals - Len(history) + i = arrivals - Len(history) + k
  BY <1>2
<1> QED
  BY <1>1, <1>3

LEMMA ReplacedTraced ==
    ASSUME Base, NEW k, NEW m, Replaces(k, m), UNCHANGED <<arrivals, now>>,
           Becomes(history[k], m)
    PROVE  Traced
<1>1. /\ Len(history') = Len(history)
      /\ \A i \in 1..Len(history) : history'[i] = IF i = k THEN m ELSE history[i]
  BY Replaced DEF Base
<1>2. \A i \in 1..Len(history) : Becomes(history[i], history'[i])
  BY <1>1 DEF Becomes
<1> QED
  BY <1>1, <1>2 DEF Traced

LEMMA SameTraced ==
    ASSUME UNCHANGED history
    PROVE  Traced
<1>1. \A i \in 1..Len(history) : Becomes(history[i], history'[i])
  BY DEF Becomes
<1> QED
  BY <1>1 DEF Traced

LEMMA Trace ==
    ASSUME Base, [Next]_vars
    PROVE  Traced
<1>1. /\ RoomOK /\ LatestOK /\ JobsOK
      /\ \A i \in 1..Len(history) : history[i] \in Message
  BY DEF Base, LatestOK
<1>2. ASSUME NEW s \in Sessions, store_room_message(s) PROVE Traced
  <2>1. PICK m \in Message :
           /\ m.id = arrivals + 1 /\ m.version = 0 /\ m.edited = 0 /\ m.preview = None
           /\ ~m.deleted
           /\ \A j \in 1..Len(history') :
                 history'[j] = m \/ \E i \in 1..Len(history) : history'[j] = history[i]
    BY <1>2, StoreStep
  <2>2. \A i \in 1..Len(history) : Becomes(history[i], history[i])
    BY DEF Becomes
  <2> QED
    BY <2>1, <2>2 DEF Traced, Arrives
<1>3. ASSUME NEW s \in Sessions, edit_message(s) PROVE Traced
  <2>1. UNCHANGED <<arrivals, now>> /\ At(s, "edit", "edit")
    BY <1>3 DEF edit_message
  <2>2. ASSUME NEW k \in 1..Len(history), ~history[k].deleted, history[k].author = UserOf[s],
               Replaces(k, Edited(history[k], job[s].body, job[s].at)),
               history[k].id = job[s].id,
               stamps' = stamps \cup {[id |-> job[s].id, at |-> job[s].at,
                                       version |-> history[k].version + 1]}
        PROVE  Traced
    <3>1. [id |-> history[k].id, at |-> job[s].at, version |-> history[k].version + 1] \in stamps'
      BY <2>2
    <3>2. Becomes(history[k], Edited(history[k], job[s].body, job[s].at))
      BY <1>3, <2>1, <2>2, <3>1 DEF Becomes, Replaces
    <3> QED
      BY <2>1, <2>2, <3>2, ReplacedTraced
  <2> QED
    BY <1>3, <2>2, EditStep, SameTraced
<1>4. ASSUME NEW s \in Sessions, delete_message(s) PROVE Traced
  <2>1. UNCHANGED <<arrivals, now>>
    BY <1>4 DEF delete_message
  <2>2. ASSUME NEW k \in 1..Len(history), ~history[k].deleted, Replaces(k, Tombstone(history[k]))
        PROVE  Traced
    <3>1. Becomes(history[k], Tombstone(history[k]))
      BY <2>2 DEF Becomes, Replaces
    <3> QED
      BY <2>1, <2>2, <3>1, ReplacedTraced
  <2> QED
    BY <1>4, <2>2, DeleteStep, SameTraced
<1>5. ASSUME NEW s \in Sessions, update_message_reactions(s) PROVE Traced
  <2>1. UNCHANGED <<arrivals, now>> /\ job[s].name \in Names
    BY <1>1, <1>5 DEF update_message_reactions, At, JobsOK, Fit
  <2>2. ASSUME NEW k \in 1..Len(history),
               Replaces(k, toggle_reaction_in_message(history[k], job[s].name))
        PROVE  Traced
    <3>1. Becomes(history[k], toggle_reaction_in_message(history[k], job[s].name))
      BY <2>1, <2>2 DEF Becomes, Replaces
    <3> QED
      BY <2>1, <2>2, <3>1, ReplacedTraced
  <2> QED
    BY <1>5, <2>2, ReactStep, SameTraced
<1>6. CASE FetchPreview
  <2>1. UNCHANGED <<arrivals, now>>
    BY <1>6 DEF FetchPreview
  <2>2. ASSUME NEW k \in 1..Len(history), NEW t \in tasks, history[k].id = t.id,
               StillWanted(t, history[k]),
               Replaces(k, [history[k] EXCEPT !.preview =
                                                [url |-> t.url, version |-> t.version]])
        PROVE  Traced
    <3>1. Becomes(history[k], [history[k] EXCEPT !.preview =
                                                [url |-> t.url, version |-> t.version]])
      BY <2>2 DEF Becomes, Replaces
    <3> QED
      BY <2>1, <2>2, <3>1, ReplacedTraced
  <2> QED
    BY <1>6, <2>2, FetchStep, SameTraced
<1>7. ASSUME NEW s \in Sessions, delete_user_messages_in_room(s) PROVE Traced
  <2>1. /\ Len(history') = Len(history)
        /\ \A i \in 1..Len(history) :
              history'[i] = history[i]
              \/ (~history[i].deleted /\ history'[i] = Erased(history[i]))
    BY <1>7, EraseStep
  <2>2. \A i \in 1..Len(history) : Erased(history[i]).id = history[i].id
    BY <1>1, ClearedMessage
  <2>3. \A i \in 1..Len(history) : Becomes(history[i], history'[i])
    BY <2>1, <2>2 DEF Becomes
  <2> QED
    BY <2>1, <2>3 DEF Traced
<1>8. ASSUME NEW s \in Sessions, EvictAll(s) PROVE Traced
  <2>1. Len(history') = 0
    BY <1>8 DEF EvictAll
  <2> QED
    BY <2>1 DEF Traced
<1>9. ASSUME NEW s \in Sessions, request_link_preview(s) PROVE Traced
  BY <1>9, SameTraced DEF request_link_preview
<1> QED
  BY <1>2, <1>3, <1>4, <1>5, <1>6, <1>7, <1>8, <1>9, OtherSteps, SameTraced
     DEF Next, Messages, Membership
-----------------------------------------------------------------------------
\* What a message holds once it is deleted.
BlankOK ==
    \A i \in 1..Len(history) :
        history[i].deleted => history[i].body = Blank /\ history[i].preview = None

\* How the parts of a message change with it.
LEMMA BecomesParts ==
    ASSUME Base, NEW m \in Message, NEW n, Becomes(m, n)
    PROVE  /\ m.deleted => n.deleted /\ n.body = m.body /\ n.preview = m.preview
           /\ n.deleted /\ ~m.deleted => n.body = Blank /\ n.preview = None
           /\ n.version # m.version =>
                 \E s \in Sessions : At(s, "edit", "edit") /\ UserOf[s] = m.author
<1>1. CASE n = m
  BY <1>1
<1>2. CASE ~m.deleted /\ (n = Tombstone(m) \/ n = Erased(m))
  BY <1>2, ClearedMessage
<1>3. ASSUME NEW u \in Names, n = toggle_reaction_in_message(m, u)
      PROVE  n.version = m.version /\ n.deleted = m.deleted /\ n.body = m.body
             /\ n.preview = m.preview
  BY <1>3, ToggledMessage
<1>4. ASSUME NEW s \in Sessions, At(s, "edit", "edit"), ~m.deleted, m.author = UserOf[s],
             n = Edited(m, job[s].body, job[s].at)
      PROVE  ~n.deleted /\ \E x \in Sessions : At(x, "edit", "edit") /\ UserOf[x] = m.author
  <2>1. job[s].body \in Body /\ job[s].at \in Nat
    BY DEF Base, JobsOK, Job
  <2> QED
    BY <1>4, <2>1, EditedMessage
<1>5. ASSUME NEW t \in tasks, StillWanted(t, m),
             n = [m EXCEPT !.preview = [url |-> t.url, version |-> t.version]]
      PROVE  ~m.deleted /\ ~n.deleted /\ n.version = m.version
  <2>1. [url |-> t.url, version |-> t.version] \in Previews
    BY DEF Base, TasksOK, Task, Previews
  <2> QED
    BY <1>5, <2>1, PreviewedMessage DEF StillWanted
<1> QED
  BY <1>1, <1>2, <1>3, <1>4, <1>5 DEF Becomes

LEMMA BlankStep == Base /\ BlankOK /\ [Next]_vars => BlankOK'
<1> SUFFICES ASSUME Base, BlankOK, [Next]_vars, NEW j \in 1..Len(history'), history'[j].deleted
             PROVE  history'[j].body = Blank /\ history'[j].preview = None
  BY DEF BlankOK
<1>1. PICK i \in 1..Len(history) : Becomes(history[i], history'[j])
  BY Trace DEF Traced, Arrives
<1>2. history[i] \in Message
  BY DEF Base, LatestOK
<1> QED
  BY <1>1, <1>2, BecomesParts DEF BlankOK

LEMMA BlankHolds == Spec => []BlankOK
<1>1. Init => BlankOK
  BY DEF Init, BlankOK
<1> QED
  BY <1>1, BlankStep, BaseHolds, PTL DEF Spec

\* A message of the next state with the id of one of this state comes from it.
LEMMA SameId ==
    ASSUME Base, [Next]_vars, NEW i \in DOMAIN history, NEW j \in DOMAIN history',
           history'[j].id = history[i].id
    PROVE  history[i] \in Message /\ Becomes(history[i], history'[j])
<1>1. i \in 1..Len(history) /\ j \in 1..Len(history')
  BY BaseNext DEF Base, LatestOK
<1>2. history[i].id <= arrivals /\ arrivals \in Nat /\ history[i] \in Message
  BY <1>1 DEF Base, LatestOK, RoomOK
<1>3. ~Arrives(history'[j])
  BY <1>2 DEF Arrives, Message
<1>4. PICK k \in 1..Len(history) : Becomes(history[k], history'[j])
  BY <1>1, <1>3, Trace DEF Traced
<1>5. k = i
  BY <1>1, <1>4, OneMessage DEF Becomes
<1> QED
  BY <1>2, <1>4, <1>5

\* Deleting is final, whatever edits, reactions, previews and erasures are
\* under way: a deleted message keeps no content and gets none (is_deleted in
\* edit_message and in the preview tasks).
THEOREM DeletionFinal == Spec => DeletedStaysBlank
<1>1. ASSUME Base, BlankOK, [Next]_vars, NEW i \in DOMAIN history, NEW j \in DOMAIN history',
             history[i].deleted, history'[j].id = history[i].id
      PROVE  history'[j].deleted /\ history'[j].body = Blank /\ history'[j].preview = None
  <2>1. history[i] \in Message /\ Becomes(history[i], history'[j])
    BY <1>1, SameId
  <2>2. history[i].body = Blank /\ history[i].preview = None
    BY <1>1 DEF Base, LatestOK, BlankOK
  <2> QED
    BY <1>1, <2>1, <2>2, BecomesParts
<1>2. Base /\ BlankOK /\ [Next]_vars =>
        [ \A i \in DOMAIN history, j \in DOMAIN history' :
            history[i].deleted /\ history'[j].id = history[i].id
              => history'[j].deleted /\ history'[j].body = Blank
                 /\ history'[j].preview = None ]_vars
  BY <1>1
<1> QED
  BY <1>2, BaseHolds, BlankHolds, PTL DEF Spec, DeletedStaysBlank

\* A message gets another text only from a handler of the account that wrote
\* it, whatever names were released and taken since (is_message_author).
THEOREM AuthorsEdit == Spec => OnlyAuthorEdits
<1>1. ASSUME Base, [Next]_vars, NEW i \in DOMAIN history, NEW j \in DOMAIN history',
             history'[j].id = history[i].id, history'[j].version # history[i].version
      PROVE  \E s \in Sessions : At(s, "edit", "edit") /\ UserOf[s] = history[i].author
  BY <1>1, SameId, BecomesParts
<1>2. Base /\ [Next]_vars =>
        [ \A i \in DOMAIN history, j \in DOMAIN history' :
            history'[j].id = history[i].id /\ history'[j].version # history[i].version
              => \E s \in Sessions : At(s, "edit", "edit") /\ UserOf[s] = history[i].author ]_vars
  BY <1>1
<1> QED
  BY <1>2, BaseHolds, PTL DEF Spec, OnlyAuthorEdits
-----------------------------------------------------------------------------
(***************************************************************************)
(* Link previews: every text of a message, and every task, goes back to an *)
(* edit that was recorded, so two of them with one edited_at are the same  *)
(* text or two edits of one millisecond.                                   *)
(***************************************************************************)
Stamped(S, id, at, v) ==
    (at = 0 /\ v = 0) \/ [id |-> id, at |-> at, version |-> v] \in S

Current(S, m) ==
    \/ m.preview.version = m.version
    \/ \E e, f \in S : e.id = m.id /\ f.id = e.id /\ e.at = f.at /\ e.version # f.version

StampsOK ==
    /\ \A e \in stamps : e.at # 0
    /\ \A i \in 1..Len(history) :
          ~history[i].deleted =>
              Stamped(stamps, history[i].id, history[i].edited, history[i].version)
    /\ \A t \in tasks : Stamped(stamps, t.id, t.edited, t.version)
    /\ \A i \in 1..Len(history) : history[i].preview # None => Current(stamps, history[i])

LEMMA Agree ==
    ASSUME StampsOK, NEW m \in Message, NEW t, Stamped(stamps, m.id, m.edited, m.version),
           Stamped(stamps, m.id, m.edited, t)
    PROVE  \/ t = m.version
           \/ \E e, f \in stamps : e.id = m.id /\ f.id = e.id /\ e.at = f.at
                                   /\ e.version # f.version
<1> DEFINE a == [id |-> m.id, at |-> m.edited, version |-> m.version]
           b == [id |-> m.id, at |-> m.edited, version |-> t]
<1>1. a \in stamps \/ b \in stamps => m.edited # 0
  BY DEF StampsOK
<1>2. CASE m.edited = 0
  BY <1>1, <1>2 DEF Stamped
<1>3. CASE m.edited # 0 /\ t # m.version
  <2>1. a \in stamps /\ b \in stamps
    BY <1>3 DEF Stamped
  <2>2. a.id = m.id /\ b.id = a.id /\ a.at = b.at /\ a.version # b.version
    BY <1>3
  <2> QED
    BY <2>1, <2>2
<1> QED
  BY <1>2, <1>3

\* The edits that are recorded, and where a new task has its text from.
LEMMA StampSteps ==
    ASSUME Base, [Next]_vars
    PROVE  /\ stamps \subseteq stamps'
           /\ \A e \in stamps' : e \in stamps \/ e.at # 0
           /\ \A t \in tasks' :
                 \/ t \in tasks
                 \/ t.edited = 0 /\ t.version = 0
                 \/ [id |-> t.id, at |-> t.edited, version |-> t.version] \in stamps'
                 \/ \E i \in 1..Len(history) :
                       /\ ~history[i].deleted /\ history[i].id = t.id
                       /\ history[i].edited = t.edited /\ history[i].version = t.version
<1>1. CASE UNCHANGED <<tasks, stamps>>
  BY <1>1
<1>2. ASSUME NEW s \in Sessions, store_room_message(s)
      PROVE  /\ stamps' = stamps
             /\ \A t \in tasks' : t \in tasks \/ (t.edited = 0 /\ t.version = 0)
  <2>1. PICK m \in Message : tasks' = tasks \cup PreviewTask("send", m.id, m.body, 0, 0)
    BY <1>2, StoreStep
  <2>2. stamps' = stamps
    BY <1>2 DEF store_room_message
  <2> QED
    BY <2>1, <2>2 DEF PreviewTask
<1>3. ASSUME NEW s \in Sessions, edit_message(s), ~UNCHANGED <<history, tasks, stamps>>
      PROVE  /\ stamps \subseteq stamps'
             /\ \A e \in stamps' : e \in stamps \/ e.at # 0
             /\ \A t \in tasks' :
                   \/ t \in tasks
                   \/ [id |-> t.id, at |-> t.edited, version |-> t.version] \in stamps'
  <2>1. PICK k \in 1..Len(history) :
           /\ tasks' = tasks \cup PreviewTask("edit", job[s].id, job[s].body, job[s].at,
                                              history[k].version + 1)
           /\ stamps' = stamps \cup {[id |-> job[s].id, at |-> job[s].at,
                                      version |-> history[k].version + 1]}
    BY <1>3, EditStep
  <2>2. job[s].at # 0
    <3>1. job[s].at \in Nat /\ job[s].at >= 1
      BY <1>3 DEF edit_message, At, Base, JobsOK, Job, Fit
    <3> QED
      BY <3>1
  <2>3. \A v, t : t \in PreviewTask("edit", job[s].id, job[s].body, job[s].at, v)
                    => t.id = job[s].id /\ t.edited = job[s].at /\ t.version = v
    BY DEF PreviewTask
  <2> QED
    BY <2>1, <2>2, <2>3
<1>4. ASSUME NEW s \in Sessions, request_link_preview(s), ~UNCHANGED tasks
      PROVE  /\ stamps' = stamps
             /\ \A t \in tasks' :
                   \/ t \in tasks
                   \/ \E i \in 1..Len(history) :
                         /\ ~history[i].deleted /\ history[i].id = t.id
                         /\ history[i].edited = t.edited /\ history[i].version = t.version
  <2> DEFINE id == job[s].id
  <2>1. /\ Stored(id) /\ ~Msg(id).deleted /\ stamps' = stamps
        /\ tasks' = tasks \cup PreviewTask("request", id, job[s].body, Msg(id).edited,
                                           Msg(id).version)
    BY <1>4 DEF request_link_preview
  <2>2. PICK k \in 1..Len(history) : history[k].id = id /\ Msg(id) = history[k]
    BY <2>1, Found DEF Base, RoomOK
  <2>3. \A e, v, t : t \in PreviewTask("request", id, job[s].body, e, v)
                       => t.id = id /\ t.edited = e /\ t.version = v
    BY DEF PreviewTask
  <2> QED
    BY <2>1, <2>2, <2>3
<1>5. CASE FetchPreview
  BY <1>5 DEF FetchPreview
<1>6. \/ UNCHANGED <<tasks, stamps>> \/ FetchPreview
      \/ \E s \in Sessions : store_room_message(s) \/ edit_message(s) \/ request_link_preview(s)
  BY DEF Next, Messages, Membership, SendCheck, SpeakCheck, EditCheck, delete_message, ReactCheck,
         ReactFind, update_message_reactions, VoteCheck, VoteFind, vote_poll, PreviewCheck,
         leave_game, delete_user_messages_in_room, join_game, delete_room, EvictAll,
         change_username, RenameSessions, Sanction, Tick, vars
<1>7. ASSUME NEW s \in Sessions, request_link_preview(s)
      PROVE  stamps' = stamps
  BY <1>7 DEF request_link_preview
<1> QED
  BY <1>1, <1>2, <1>3, <1>4, <1>5, <1>6, <1>7


\* What a message holds after a step is recorded, and its preview is current.
LEMMA BecomesStamped ==
    ASSUME Base, StampsOK, [Next]_vars, NEW m \in Message, NEW n, Becomes(m, n),
           ~m.deleted => Stamped(stamps, m.id, m.edited, m.version),
           m.preview # None => Current(stamps, m)
    PROVE  /\ ~n.deleted => Stamped(stamps', n.id, n.edited, n.version)
           /\ n.preview # None => Current(stamps', n)
<1>1. stamps \subseteq stamps' /\ n.id = m.id
  BY StampSteps DEF Becomes
<1>2. \A a, v : Stamped(stamps, m.id, a, v) => Stamped(stamps', m.id, a, v)
  BY <1>1 DEF Stamped
<1>3. Current(stamps, m) => Current(stamps', m)
  BY <1>1 DEF Current
<1>4. CASE n = m
  BY <1>2, <1>3, <1>4
<1>5. CASE ~m.deleted /\ (n = Tombstone(m) \/ n = Erased(m))
  BY <1>5, ClearedMessage
<1>6. ASSUME NEW u \in Names, n = toggle_reaction_in_message(m, u)
      PROVE  /\ ~n.deleted => Stamped(stamps', n.id, n.edited, n.version)
             /\ n.preview # None => Current(stamps', n)
  <2>1. /\ n.id = m.id /\ n.edited = m.edited /\ n.version = m.version
        /\ n.preview = m.preview /\ n.deleted = m.deleted
    BY <1>6, ToggledMessage
  <2> QED
    BY <1>2, <1>3, <2>1 DEF Current
<1>7. ASSUME NEW s \in Sessions,
             n = Edited(m, job[s].body, job[s].at),
             [id |-> m.id, at |-> job[s].at, version |-> m.version + 1] \in stamps'
      PROVE  n.preview = None /\ Stamped(stamps', n.id, n.edited, n.version)
  <2>1. job[s].body \in Body /\ job[s].at \in Nat
    BY DEF Base, JobsOK, Job
  <2>2. n.preview = None /\ n.edited = job[s].at /\ n.version = m.version + 1
    BY <1>7, <2>1, EditedMessage
  <2> QED
    BY <1>1, <1>7, <2>2 DEF Stamped
<1>8. ASSUME NEW t \in tasks, t.id = m.id, StillWanted(t, m),
             n = [m EXCEPT !.preview = [url |-> t.url, version |-> t.version]]
      PROVE  Stamped(stamps', n.id, n.edited, n.version) /\ Current(stamps', n)
  <2> DEFINE p == [url |-> t.url, version |-> t.version]
  <2>1. p \in Previews /\ p.version = t.version
    BY DEF Base, TasksOK, Task, Previews
  <2>2. n.preview = p /\ n.version = m.version /\ n.edited = m.edited
    <3> HIDE DEF p
    <3> QED
      BY <1>8, <2>1, PreviewedMessage DEF p
  <2>3. ~m.deleted /\ m.edited = t.edited
    BY <1>8 DEF StillWanted
  <2>4. Stamped(stamps, m.id, m.edited, m.version) /\ Stamped(stamps, m.id, m.edited, t.version)
    BY <1>8, <2>3 DEF StampsOK
  <2>5. Stamped(stamps', n.id, n.edited, n.version)
    BY <1>1, <1>2, <2>2, <2>4
  <2>6. \/ t.version = m.version
        \/ \E e, f \in stamps : e.id = m.id /\ f.id = e.id /\ e.at = f.at
                                /\ e.version # f.version
    BY <2>4, Agree
  <2>7. Current(stamps', n)
    BY <1>1, <2>1, <2>2, <2>6 DEF Current
  <2> QED
    BY <2>5, <2>7
<1> QED
  BY <1>4, <1>5, <1>6, <1>7, <1>8 DEF Becomes

LEMMA StampsNext == Base /\ StampsOK /\ [Next]_vars => StampsOK'
<1> SUFFICES ASSUME Base, StampsOK, [Next]_vars PROVE StampsOK'
  OBVIOUS
<1>1. stamps \subseteq stamps' /\ \A e \in stamps' : e.at # 0
  BY StampSteps DEF StampsOK
<1>2. \A t \in tasks' : Stamped(stamps', t.id, t.edited, t.version)
  <2> TAKE t \in tasks'
  <2>1. CASE t \in tasks
    BY <1>1, <2>1 DEF StampsOK, Stamped
  <2>2. ASSUME NEW i \in 1..Len(history), ~history[i].deleted, history[i].id = t.id,
               history[i].edited = t.edited, history[i].version = t.version
        PROVE  Stamped(stamps', t.id, t.edited, t.version)
    <3>1. Stamped(stamps, t.id, t.edited, t.version)
      BY <2>2 DEF StampsOK
    <3> QED
      BY <1>1, <3>1 DEF Stamped
  <2> QED
    BY <2>1, <2>2, StampSteps DEF Stamped
<1>3. \A j \in 1..Len(history') :
         /\ ~history'[j].deleted =>
              Stamped(stamps', history'[j].id, history'[j].edited, history'[j].version)
         /\ history'[j].preview # None => Current(stamps', history'[j])
  <2> TAKE j \in 1..Len(history')
  <2>1. CASE Arrives(history'[j])
    BY <2>1 DEF Arrives, Stamped
  <2>2. ASSUME NEW i \in 1..Len(history), Becomes(history[i], history'[j])
        PROVE  /\ ~history'[j].deleted =>
                    Stamped(stamps', history'[j].id, history'[j].edited, history'[j].version)
               /\ history'[j].preview # None => Current(stamps', history'[j])
    <3>1. history[i] \in Message
      BY <2>2 DEF Base, LatestOK
    <3>2. /\ ~history[i].deleted =>
                Stamped(stamps, history[i].id, history[i].edited, history[i].version)
          /\ history[i].preview # None => Current(stamps, history[i])
      BY <2>2 DEF StampsOK
    <3> QED
      BY <2>2, <3>1, <3>2, BecomesStamped
  <2> QED
    BY <2>1, <2>2, Trace DEF Traced
<1> QED
  BY <1>1, <1>2, <1>3 DEF StampsOK

\* A stored link preview is of the text the message has, for any number of
\* edits, previews under way and readers, unless two edits of the message fell
\* in one millisecond (edited_at, in the preview tasks of protocol.rs).
THEOREM PreviewsCurrent == Spec => []PreviewIsCurrent
<1>1. Init => StampsOK
  BY DEF Init, StampsOK
<1>2. Base /\ StampsOK => PreviewIsCurrent
  BY DEF Base, LatestOK, StampsOK, Current, PreviewIsCurrent
<1> QED
  BY <1>1, <1>2, StampsNext, BaseHolds, PTL DEF Spec
-----------------------------------------------------------------------------
\* A request is marked only while the record forbids its user to speak, and a
\* marked one does not reach its store.
MutedOK ==
    \A s \in Sessions :
        /\ job[s].muted => kind = "community" /\ UserOf[s] \in silenced
        /\ job[s].stage = "store" => ~job[s].muted

LEMMA MutedNext == Base /\ MutedOK /\ [Next]_vars => MutedOK'
<1> SUFFICES ASSUME Base, MutedOK, [Next]_vars PROVE MutedOK'
  OBVIOUS
<1>0. JobsOK /\ job \in [Sessions -> Job]
  BY DEF Base, JobsOK
<1>1. ASSUME NEW s \in Sessions, Return(s), UNCHANGED <<kind, silenced>> PROVE MutedOK'
  BY <1>0, <1>1 DEF Return, IdleJob, MutedOK
<1>2. ASSUME NEW s \in Sessions, NEW stage, stage # "store", Continue(s, stage),
             UNCHANGED <<kind, silenced>>
      PROVE  MutedOK'
  <2>1. \A x \in Sessions : job'[x].muted = job[x].muted
                            /\ (job'[x].stage = job[x].stage \/ job'[x].stage # "store")
    BY <1>0, <1>2 DEF Continue, Job
  <2> QED
    BY <1>2, <2>1 DEF MutedOK
<1>3. ASSUME NEW s \in Sessions, \A x \in Sessions : x # s => job'[x] = job[x],
             job'[s].muted = ~can_speak(UserOf[s]), job'[s].stage # "store",
             silenced' = silenced, kind = "community" => kind' = "community"
      PROVE  MutedOK'
  <2>1. ~can_speak(UserOf[s]) => kind = "community" /\ UserOf[s] \in silenced
    BY DEF can_speak
  <2> QED
    BY <1>3, <2>1 DEF MutedOK
<1>4. ASSUME NEW s \in Sessions,
             \/ SendCheck(s) \/ EditCheck(s) \/ ReactCheck(s) \/ VoteCheck(s) \/ PreviewCheck(s)
             \/ leave_game(s) \/ join_game(s) \/ delete_message(s)
      PROVE  MutedOK'
  <2>1. silenced' = silenced /\ (kind = "community" => kind' = "community")
    BY <1>4 DEF SendCheck, EditCheck, ReactCheck, VoteCheck, PreviewCheck, leave_game, join_game,
                delete_message
  <2> DEFINE c == ~can_speak(UserOf[s])
             n == name[UserOf[s]]
  <2>2. /\ \A x \in Sessions : x # s => job'[x] = job[x]
        /\ job'[s].muted = c /\ job'[s].stage # "store"
    <3>1. CASE SendCheck(s)
      <4>1. PICK b \in Body :
               job' = [job EXCEPT ![s] = [[IdleJob EXCEPT !.stage = "speak", !.body = b]
                                             EXCEPT !.op = "send", !.muted = c, !.name = n]]
        BY <3>1 DEF SendCheck, Begin
      <4> HIDE DEF c, n
      <4> QED
        BY <1>0, <1>4, <4>1 DEF IdleJob
    <3>2. CASE EditCheck(s)
      <4>1. PICK id \in 1..arrivals, b \in Body :
               job' = [job EXCEPT ![s] = [[IdleJob EXCEPT !.stage = "edit", !.id = id, !.body = b,
                                                          !.at = now]
                                             EXCEPT !.op = "edit", !.muted = c, !.name = n]]
        BY <3>2 DEF EditCheck, Begin
      <4> HIDE DEF c, n
      <4> QED
        BY <1>0, <1>4, <4>1 DEF IdleJob
    <3>3. CASE ReactCheck(s)
      <4>1. PICK id \in 1..arrivals :
               job' = [job EXCEPT ![s] = [[IdleJob EXCEPT !.stage = "find", !.id = id]
                                             EXCEPT !.op = "react", !.muted = c, !.name = n]]
        BY <3>3 DEF ReactCheck, Begin
      <4> HIDE DEF c, n
      <4> QED
        BY <1>0, <1>4, <4>1 DEF IdleJob
    <3>4. CASE VoteCheck(s)
      <4>1. PICK id \in 1..arrivals, v \in SUBSET Choices \ {{}} :
               job' = [job EXCEPT ![s] = [[IdleJob EXCEPT !.stage = "find", !.id = id, !.choices = v]
                                             EXCEPT !.op = "vote", !.muted = c, !.name = n]]
        BY <3>4 DEF VoteCheck, Begin
      <4> HIDE DEF c, n
      <4> QED
        BY <1>0, <1>4, <4>1 DEF IdleJob
    <3>5. CASE PreviewCheck(s)
      <4>1. PICK id \in 1..arrivals, u \in Urls :
               job' = [job EXCEPT ![s] = [[IdleJob EXCEPT !.stage = "find", !.id = id,
                                                          !.body = [url |-> u, sealed |-> FALSE]]
                                             EXCEPT !.op = "preview", !.muted = c, !.name = n]]
        BY <3>5 DEF PreviewCheck, Begin
      <4> HIDE DEF c, n
      <4> QED
        BY <1>0, <1>4, <4>1 DEF IdleJob
    <3>6. CASE leave_game(s)
      <4>1. PICK stage \in {"idle", "erase"} :
               job' = [job EXCEPT ![s] = [[IdleJob EXCEPT !.stage = stage]
                                             EXCEPT !.op = "leave", !.muted = c, !.name = n]]
        BY <3>6 DEF leave_game, Begin
      <4> HIDE DEF c, n
      <4> QED
        BY <1>0, <1>4, <4>1 DEF IdleJob
    <3>7. CASE join_game(s)
      <4>1. job' = [job EXCEPT ![s] = [IdleJob EXCEPT !.op = "join", !.muted = c, !.name = n]]
        BY <3>7 DEF join_game, Begin
      <4> HIDE DEF c, n
      <4> QED
        BY <1>0, <1>4, <4>1 DEF IdleJob
    <3>8. CASE delete_message(s)
      <4>1. job' = [job EXCEPT ![s] = [IdleJob EXCEPT !.op = "delete", !.muted = c, !.name = n]]
        BY <3>8 DEF delete_message, Begin
      <4> HIDE DEF c, n
      <4> QED
        BY <1>0, <1>4, <4>1 DEF IdleJob
    <3> QED
      BY <1>4, <3>1, <3>2, <3>3, <3>4, <3>5, <3>6, <3>7, <3>8
  <2> QED
    BY <1>3, <2>1, <2>2
<1>5. ASSUME NEW s \in Sessions, SpeakCheck(s) PROVE MutedOK'
  <2>1. UNCHANGED <<kind, silenced>>
    BY <1>5 DEF SpeakCheck
  <2>2. CASE can_speak(UserOf[s]) /\ Continue(s, "store")
    <3>1. ~job[s].muted
      BY <2>2 DEF MutedOK, can_speak
    <3>2. \A x \in Sessions : job'[x].muted = job[x].muted /\ (x # s => job'[x] = job[x])
      BY <1>0, <2>2 DEF Continue, Job
    <3> QED
      BY <2>1, <3>1, <3>2 DEF MutedOK
  <2>3. CASE Return(s)
    BY <1>1, <2>1, <2>3
  <2>4. CASE job' = [job EXCEPT ![s] = [@ EXCEPT !.stage = "store", !.muted = FALSE]]
    <3>1. ~job'[s].muted /\ \A x \in Sessions : x # s => job'[x] = job[x]
      BY <1>0, <2>4 DEF Job
    <3> QED
      BY <2>1, <3>1 DEF MutedOK
  <2> QED
    BY <1>5, <2>2, <2>3, <2>4 DEF SpeakCheck
<1>6. ASSUME NEW s \in Sessions, ReactFind(s) \/ VoteFind(s) PROVE MutedOK'
  <2>1. /\ UNCHANGED <<kind, silenced>>
        /\ Return(s) \/ Continue(s, "speak") \/ Continue(s, "count")
    BY <1>6 DEF ReactFind, VoteFind
  <2> QED
    BY <1>1, <1>2, <2>1
<1>7. ASSUME NEW s \in Sessions,
             \/ store_room_message(s) \/ edit_message(s) \/ update_message_reactions(s)
             \/ vote_poll(s) \/ request_link_preview(s) \/ delete_user_messages_in_room(s)
             \/ EvictAll(s)
      PROVE  MutedOK'
  <2>1. UNCHANGED <<kind, silenced>> /\ Return(s)
    BY <1>7 DEF store_room_message, edit_message, update_message_reactions, vote_poll,
                request_link_preview, delete_user_messages_in_room, EvictAll
  <2> QED
    BY <1>1, <2>1
<1>8. ASSUME NEW s \in Sessions, delete_room(s) PROVE MutedOK'
  <2>1. \A x \in Sessions : ~job'[x].muted
    BY <1>0, <1>8 DEF delete_room, IdleJob, Job
  <2> QED
    BY <2>1 DEF MutedOK
<1>9. ASSUME NEW u \in Users, Sanction(u) PROVE MutedOK'
  <2>1. kind' = kind
    BY <1>9 DEF Sanction
  <2>2. CASE silenced' = silenced \cup {u} /\ UNCHANGED job
    BY <2>1, <2>2 DEF MutedOK
  <2>3. CASE /\ silenced' = silenced \ {u}
             /\ job' = [s \in Sessions |-> IF UserOf[s] = u THEN [job[s] EXCEPT !.muted = FALSE]
                                                            ELSE job[s]]
    <3>1. \A s \in Sessions : IF UserOf[s] = u THEN ~job'[s].muted ELSE job'[s] = job[s]
      BY <1>0, <2>3 DEF Job
    <3> QED
      BY <2>1, <2>3, <3>1 DEF MutedOK
  <2> QED
    BY <1>9, <2>2, <2>3 DEF Sanction
<1>10. CASE UNCHANGED <<kind, silenced, job>>
  BY <1>10 DEF MutedOK
<1>11. (\E u \in Users : change_username(u) \/ RenameSessions(u)) \/ FetchPreview \/ Tick
       \/ UNCHANGED vars => UNCHANGED <<kind, silenced, job>>
  BY DEF change_username, RenameSessions, FetchPreview, Tick, vars
<1> QED
  BY <1>4, <1>5, <1>6, <1>7, <1>8, <1>9, <1>10, <1>11 DEF Next, Messages, Membership

\* A user silenced before its request began, and not released since, stores no
\* message and no reaction with it while the record can be read, for any
\* number of requests between (can_speak in send_chat_message and
\* toggle_message_reaction).
THEOREM SilenceKept == Spec => []SilencedStaySilent
<1>1. Init => MutedOK
  BY DEF Init, MutedOK, IdleJob
<1>2. MutedOK => SilencedStaySilent
  BY DEF MutedOK, SilencedStaySilent
<1> QED
  BY <1>1, <1>2, MutedNext, BaseHolds, PTL DEF Spec
-----------------------------------------------------------------------------
(***************************************************************************)
(* Polls: the tally of a message counts the acknowledged ballots for it.   *)
(***************************************************************************)
Ballot == [id: Nat, choices: SUBSET Choices]

Cast(b, id) == {i \in DOMAIN b : b[i].id = id}

\* The tally is that of the ballots b for the poll id.
Tallied(b, id, tally) ==
    /\ IsFiniteSet(tally.voters)
    /\ Cardinality(Cast(b, id)) = Cardinality(tally.voters)
    /\ tally.counts \in [Choices -> Nat]
    /\ \A c \in Choices :
          tally.counts[c] = Cardinality({i \in Cast(b, id) : c \in b[i].choices})

VotesOK ==
    /\ ballots \in Seq(Ballot)
    /\ \A i \in 1..Len(ballots) : ballots[i].id \in DOMAIN tallies
    /\ DOMAIN tallies \subseteq 1..arrivals
    /\ \A id \in DOMAIN tallies : Tallied(ballots, id, tallies[id])

\* A ballot for another poll counts nothing.
LEMMA OtherPoll ==
    ASSUME NEW b \in Seq(Ballot), NEW x \in Ballot, NEW id, x.id # id, NEW tally,
           Tallied(b, id, tally)
    PROVE  Tallied(Append(b, x), id, tally)
<1> DEFINE e == Append(b, x)
<1>1. /\ Len(b) \in Nat /\ DOMAIN b = 1..Len(b) /\ DOMAIN e = 1..(Len(b) + 1)
      /\ \A i \in 1..Len(b) : e[i] = b[i]
      /\ e[Len(b) + 1] = x
  OBVIOUS
<1> HIDE DEF e
<1>2. Cast(e, id) = Cast(b, id) /\ Cast(b, id) \subseteq 1..Len(b)
  BY <1>1 DEF Cast
<1>3. \A c \in Choices : {i \in Cast(e, id) : c \in e[i].choices}
                         = {i \in Cast(b, id) : c \in b[i].choices}
  BY <1>1, <1>2
<1>4. Tallied(e, id, tally)
  BY <1>2, <1>3 DEF Tallied
<1> QED
  BY <1>4 DEF e

\* A ballot of somebody who has not voted adds one voter and one to each
\* choice on it.
LEMMA OneBallot ==
    ASSUME NEW b \in Seq(Ballot), NEW x \in Ballot, NEW tally, Tallied(b, x.id, tally),
           NEW u, u \notin tally.voters
    PROVE  Tallied(Append(b, x), x.id, Counted(tally, u, x.choices))
<1> DEFINE e == Append(b, x)
           n == Len(b)
           id == x.id
           after == Counted(tally, u, x.choices)
<1>1. /\ n \in Nat /\ DOMAIN b = 1..n /\ DOMAIN e = 1..(n + 1)
      /\ \A i \in 1..n : e[i] = b[i]
      /\ e[n + 1] = x
  OBVIOUS
<1>2. /\ after.voters = tally.voters \cup {u}
      /\ after.counts = [c \in Choices |-> IF c \in x.choices THEN tally.counts[c] + 1
                                                              ELSE tally.counts[c]]
  BY DEF Counted
<1> HIDE DEF e, after
<1>3. Cast(b, id) \subseteq 1..n /\ n + 1 \notin 1..n /\ IsFiniteSet(1..n)
  <2>1. n + 1 \notin 1..n
    BY <1>1
  <2> QED
    BY <1>1, <2>1, FS_Interval DEF Cast
<1>4. Cast(e, id) = Cast(b, id) \cup {n + 1}
  <2>1. 1..(n + 1) = (1..n) \cup {n + 1}
    BY <1>1
  <2> QED
    BY <1>1, <2>1 DEF Cast
<1>5. IsFiniteSet(Cast(b, id)) /\ Cardinality(Cast(e, id)) = Cardinality(Cast(b, id)) + 1
  <2>1. IsFiniteSet(Cast(b, id))
    BY <1>3, FS_Subset
  <2> QED
    BY <1>3, <1>4, <2>1, FS_AddElement
<1>6. IsFiniteSet(after.voters) /\ Cardinality(after.voters) = Cardinality(tally.voters) + 1
  BY <1>2, FS_AddElement DEF Tallied
<1>7. ASSUME NEW c \in Choices
      PROVE  after.counts[c] = Cardinality({i \in Cast(e, id) : c \in e[i].choices})
  <2> DEFINE old == {i \in Cast(b, id) : c \in b[i].choices}
             new == {i \in Cast(e, id) : c \in e[i].choices}
  <2>1. old \subseteq 1..n /\ IsFiniteSet(old) /\ n + 1 \notin old
    BY <1>3, FS_Subset
  <2>2. tally.counts[c] = Cardinality(old)
    BY <1>7 DEF Tallied
  <2>3. CASE c \in x.choices
    <3>1. new = old \cup {n + 1}
      BY <1>1, <1>3, <1>4, <2>3
    <3>2. Cardinality(new) = Cardinality(old) + 1
      <4> HIDE DEF old, new
      <4> QED
        BY <2>1, <3>1, FS_AddElement
    <3>3. after.counts[c] = tally.counts[c] + 1
      BY <1>2, <1>7, <2>3
    <3> QED
      BY <2>2, <3>2, <3>3
  <2>4. CASE c \notin x.choices
    <3>1. new = old
      BY <1>1, <1>3, <1>4, <2>4
    <3>2. after.counts[c] = tally.counts[c]
      BY <1>2, <1>7, <2>4
    <3> QED
      BY <2>2, <3>1, <3>2
  <2> QED
    BY <2>3, <2>4
<1>8. after.counts \in [Choices -> Nat]
  <2>1. \A c \in Choices : tally.counts[c] \in Nat
    BY DEF Tallied
  <2> QED
    BY <1>2, <2>1
<1>9. Tallied(e, id, after)
  BY <1>5, <1>6, <1>7, <1>8 DEF Tallied
<1> QED
  BY <1>9 DEF e, after

LEMMA VotesNext == Base /\ VotesOK /\ [Next]_vars => VotesOK'
<1> SUFFICES ASSUME Base, VotesOK, [Next]_vars PROVE VotesOK'
  OBVIOUS
<1>1. arrivals \in Nat /\ (arrivals' = arrivals \/ arrivals' = arrivals + 1)
  BY DEF Base, RoomOK, Next, Messages, Membership, SendCheck, SpeakCheck, store_room_message,
         EditCheck, edit_message, delete_message, ReactCheck, ReactFind,
         update_message_reactions, VoteCheck, VoteFind, vote_poll, PreviewCheck,
         request_link_preview, leave_game, delete_user_messages_in_room, join_game, delete_room,
         EvictAll, change_username, RenameSessions, Sanction, FetchPreview, Tick, vars
<1>2. 1..arrivals \subseteq 1..arrivals'
  BY <1>1
<1>3. CASE UNCHANGED <<tallies, ballots>>
  BY <1>2, <1>3 DEF VotesOK
<1>4. ASSUME NEW s \in Sessions, vote_poll(s), ~UNCHANGED <<tallies, ballots>> PROVE VotesOK'
  <2> DEFINE id == job[s].id
             u == UserOf[s]
             tally == IF id \in DOMAIN tallies THEN tallies[id] ELSE NoTally
             x == [id |-> id, choices |-> job[s].choices]
  <2>1. /\ u \notin tally.voters /\ ballots' = Append(ballots, x)
        /\ tallies' = [i \in DOMAIN tallies \cup {id} |->
                         IF i = id THEN Counted(tally, u, x.choices) ELSE tallies[i]]
    BY <1>4 DEF vote_poll, AlreadyVoted
  <2>2. x \in Ballot /\ x.id = id /\ id \in 1..arrivals
    <3>1. job[s] \in Job /\ Fit(job[s], arrivals, now) /\ job[s].stage = "count"
      BY <1>4 DEF Base, JobsOK, vote_poll, At
    <3>2. id \in Nat /\ job[s].choices \in SUBSET Choices /\ id >= 1 /\ id <= arrivals
      BY <3>1 DEF Job, Fit
    <3> QED
      BY <1>1, <3>2 DEF Ballot
  <2>3. Tallied(ballots, id, tally)
    <3>1. CASE id \in DOMAIN tallies
      BY <3>1 DEF VotesOK
    <3>2. CASE id \notin DOMAIN tallies
      <4>1. Cast(ballots, id) = {}
        BY <3>2 DEF VotesOK, Cast
      <4>2. \A c \in Choices : {i \in Cast(ballots, id) : c \in ballots[i].choices} = {}
        BY <4>1
      <4>3. NoTally.voters = {} /\ NoTally.counts = [c \in Choices |-> 0]
        BY DEF NoTally
      <4>4. Tallied(ballots, id, NoTally)
        BY <4>1, <4>2, <4>3, FS_EmptySet DEF Tallied
      <4> QED
        BY <3>2, <4>4
    <3> QED
      BY <3>1, <3>2
  <2> HIDE DEF id, u, tally, x
  <2>4. Tallied(ballots', id, Counted(tally, u, x.choices))
    BY <2>1, <2>2, <2>3, OneBallot DEF VotesOK
  <2>5. \A i \in DOMAIN tallies : i # id => Tallied(ballots', i, tallies[i])
    BY <2>1, <2>2, OtherPoll DEF VotesOK
  <2>6. \A i \in DOMAIN tallies' : Tallied(ballots', i, tallies'[i])
    BY <2>1, <2>4, <2>5
  <2>7. /\ ballots' \in Seq(Ballot)
        /\ \A i \in 1..Len(ballots') : ballots'[i].id \in DOMAIN tallies'
    BY <2>1, <2>2 DEF VotesOK
  <2>8. DOMAIN tallies' \subseteq 1..arrivals'
    BY <1>2, <2>1, <2>2 DEF VotesOK
  <2> QED
    BY <2>6, <2>7, <2>8 DEF VotesOK
<1>5. UNCHANGED <<tallies, ballots>> \/ \E s \in Sessions : vote_poll(s)
  BY DEF Next, Messages, Membership, SendCheck, SpeakCheck, store_room_message,
         EditCheck, edit_message, delete_message, ReactCheck, ReactFind,
         update_message_reactions, VoteCheck, VoteFind, PreviewCheck,
         request_link_preview, leave_game, delete_user_messages_in_room, join_game, delete_room,
         EvictAll, change_username, RenameSessions, Sanction, FetchPreview, Tick, vars
<1> QED
  BY <1>3, <1>4, <1>5

LEMMA VotesInit == Init => VotesOK
<1> SUFFICES ASSUME Init PROVE VotesOK
  OBVIOUS
<1>1. ballots \in Seq(Ballot) /\ Len(ballots) = 0 /\ DOMAIN tallies = {}
  BY DEF Init
<1> QED
  BY <1>1 DEF VotesOK

\* Every account's vote is counted once, for any number of sessions voting at
\* a time: the tally of a poll is that of the acknowledged ballots, one for
\* each voter (vote_poll).
THEOREM VotesCountedOnce == Spec => []OneVotePerAccount
<1>1. VotesOK => OneVotePerAccount
  BY DEF VotesOK, Tallied, Cast, OneVotePerAccount
<1> QED
  BY <1>1, VotesInit, VotesNext, BaseHolds, PTL DEF Spec

\* The types of the room's state, for any number of accounts and requests.
THEOREM TypeCorrect == Spec => []TypeOK
<1>1. ASSUME Base, VotesOK PROVE TypeOK
  <2>1. /\ RoomOK /\ LatestOK /\ DOMAIN history = 1..Len(history) /\ Len(history) \in Nat
        /\ \A i \in 1..Len(history) : history[i] \in Message
    BY <1>1 DEF Base, LatestOK
  <2>2. ASSUME NEW i \in 1..Len(history)
        PROVE  /\ history[i].id \in 1..arrivals /\ history[i].body \in Body
               /\ history[i].edited \in 0..now /\ history[i].reactions \subseteq Names
    <3>1. /\ history[i].id \in Nat /\ history[i].edited \in Nat /\ history[i].body \in Body
          /\ history[i].reactions \subseteq Names
      BY <2>1, <2>2 DEF Message
    <3>2. history[i].edited <= now /\ history[i].id = arrivals - Len(history) + i
          /\ Len(history) <= arrivals /\ arrivals \in Nat /\ now \in Nat
      BY <2>1, <2>2 DEF LatestOK, RoomOK
    <3>3. history[i].id \in 1..arrivals
      BY <2>1, <2>2, <3>2
    <3> QED
      BY <3>1, <3>2, <3>3
  <2>3. \A t \in tasks : t.id \in 1..arrivals /\ t.url \in Urls
    BY <1>1 DEF Base, TasksOK, Task
  <2> QED
    BY <1>1, <2>1, <2>2, <2>3 DEF TypeOK, RoomOK, VotesOK
<1> QED
  BY <1>1, VotesInit, VotesNext, BaseHolds, PTL DEF Spec
=============================================================================

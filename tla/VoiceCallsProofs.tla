-------------------------- MODULE VoiceCallsProofs --------------------------
(***************************************************************************)
(* Proofs about VoiceCalls: its type invariant, that an account is in a    *)
(* call with one session at most, that callers are visible, both but for   *)
(* sessions that claim a call when they identify, and that joins are       *)
(* counted and a room's rules checked.                                     *)
(***************************************************************************)
EXTENDS VoiceCalls, TLAPS

\* The bodies of the call jobs are jobs.
LEMMA JobTypes ==
    /\ Idle \in Jobs
    /\ \A stage \in Stages, on, free, right \in BOOLEAN,
          r \in Rooms \cup {None}, u \in Users \cup {None} :
             stage \in {"idle", "limit", "voice", "media"} \/ r \in Rooms
                => Job(stage, on, r, u, free, right) \in Jobs
    /\ \A out \in SUBSET Sessions :
          Telling(out) \in Jobs
<1>1. Idle \in Jobs
  BY DEF Idle, Job, Telling, Jobs, Stages
<1>2. ASSUME NEW stage \in Stages, NEW on \in BOOLEAN, NEW r \in Rooms \cup {None},
             NEW u \in Users \cup {None}, NEW free \in BOOLEAN, NEW right \in BOOLEAN,
             stage \in {"idle", "limit", "voice", "media"} \/ r \in Rooms
      PROVE  Job(stage, on, r, u, free, right) \in Jobs
  BY <1>2 DEF Job, Jobs
<1>3. ASSUME NEW out \in SUBSET Sessions
      PROVE  Telling(out) \in Jobs
  BY DEF Idle, Job, Telling, Jobs, Stages
<1> QED
  BY <1>1, <1>2, <1>3

\* Jobs stay jobs when they go on and when their history changes.
LEMMA JobChanges ==
    ASSUME NEW j \in Jobs
    PROVE  /\ \A stage \in Stages :
                stage = "voice" \/ j.room \in Rooms => [j EXCEPT !.stage = stage] \in Jobs
           /\ [j EXCEPT !.out = TRUE] \in Jobs
           /\ [j EXCEPT !.right = TRUE] \in Jobs
<1> DEFINE Fields == [stage: Stages, on: BOOLEAN, room: Rooms \cup {None}, user: Users \cup {None},
                      free: BOOLEAN, news: SUBSET Sessions, out: BOOLEAN, right: BOOLEAN]
<1>1. j \in Fields /\ (j.stage \in {"access", "override", "mode", "allow"} => j.room \in Rooms)
  BY DEF Jobs
<1>2. ASSUME NEW stage \in Stages, stage = "voice" \/ j.room \in Rooms
      PROVE  [j EXCEPT !.stage = stage] \in Jobs
  <2>1. [j EXCEPT !.stage = stage] \in Fields
    BY <1>1
  <2>2. /\ [j EXCEPT !.stage = stage].stage = stage
        /\ [j EXCEPT !.stage = stage].room = j.room
    BY <1>1
  <2> QED
    BY <1>2, <2>1, <2>2 DEF Jobs
<1>3. [j EXCEPT !.out = TRUE] \in Jobs
  <2>1. [j EXCEPT !.out = TRUE] \in Fields
    BY <1>1
  <2>2. /\ [j EXCEPT !.out = TRUE].stage = j.stage
        /\ [j EXCEPT !.out = TRUE].room = j.room
    BY <1>1
  <2> QED
    BY <1>1, <2>1, <2>2 DEF Jobs
<1>4. [j EXCEPT !.right = TRUE] \in Jobs
  <2>1. [j EXCEPT !.right = TRUE] \in Fields
    BY <1>1
  <2>2. /\ [j EXCEPT !.right = TRUE].stage = j.stage
        /\ [j EXCEPT !.right = TRUE].room = j.room
    BY <1>1
  <2> QED
    BY <1>1, <2>1, <2>2 DEF Jobs
<1> QED
  BY <1>2, <1>3, <1>4

\* Sessions put out of a call are other sessions of the same known account.
LEMMA EvictedSiblings ==
    \A s, on : /\ Evicted(s, on) \subseteq online \ {s}
               /\ \A t \in Evicted(s, on) : user[t] = user[s] /\ user[s] # None
  BY DEF Evicted, Siblings

-----------------------------------------------------------------------------
\* The type invariant holds in every state of every behaviour: handlers
\* interleaved with disconnections leave nothing of a session behind.
THEOREM TypeCorrect == Spec => []TypeOK
<1>1. Init => TypeOK
  <2> SUFFICES ASSUME Init PROVE TypeOK
    OBVIOUS
  <2> QED
    BY CallAssumption, JobTypes DEF Init, TypeOK
<1>2. TypeOK /\ [Next]_vars => TypeOK'
  <2> SUFFICES ASSUME TypeOK, [Next]_vars PROVE TypeOK'
    OBVIOUS
  <2>1. ASSUME UNCHANGED vars PROVE TypeOK'
    BY <2>1 DEF vars, session, access, TypeOK
  <2>2. ASSUME NEW s \in Sessions, NEW j \in Jobs, Request(s), UNCHANGED <<session, access, claimed>>,
               job' = [job EXCEPT ![s] = j]
        PROVE  TypeOK'
    <3>1. budget' \in 0..MaxRequests
      BY <2>2, CallAssumption DEF Request, TypeOK
    <3>2. job' \in [Sessions -> Jobs]
      BY <2>2 DEF TypeOK
    <3> QED
      BY <2>2, <3>1, <3>2 DEF TypeOK, session, access
  <2>13. ASSUME NEW s \in Sessions, VoiceRequest(s) PROVE TypeOK'
    <3>1. PICK on \in BOOLEAN, r \in Rooms \cup {None}, stage \in Stages,
               free \in BOOLEAN, right \in BOOLEAN :
             /\ job' = [job EXCEPT ![s] = Job(stage, on, r, user[s], free, right)]
             /\ stage \in {"limit", "voice"} \/ r \in Rooms
      <4>1. PICK on \in BOOLEAN, r \in Rooms \cup {None} :
               job' = [job EXCEPT ![s] =
                  Job(IF ~on \/ already_in_voice(s) THEN Checks(r) ELSE "limit", on, r, user[s],
                      ~on \/ already_in_voice(s), r # None /\ OpenTo(user[s], r))]
        BY <2>13 DEF VoiceRequest
      <4>2. /\ Checks(r) \in Stages /\ "limit" \in Stages
            /\ Checks(r) = "voice" \/ r \in Rooms
        BY DEF Checks, Stages
      <4>3. (r # None /\ OpenTo(user[s], r)) \in BOOLEAN /\ (~on \/ already_in_voice(s)) \in BOOLEAN
        BY DEF OpenTo, already_in_voice
      <4> QED
        BY <4>1, <4>2, <4>3
    <3>2. user[s] \in Users \cup {None}
      BY DEF TypeOK
    <3>3. Job(stage, on, r, user[s], free, right) \in Jobs
      BY <3>1, <3>2, JobTypes
    <3> QED
      BY <2>2, <2>13, <3>1, <3>3 DEF VoiceRequest
  <2>14. ASSUME NEW s \in Sessions, MediaRequest(s) PROVE TypeOK'
    <3>1. PICK on \in BOOLEAN, r \in Rooms \cup {None} :
             job' = [job EXCEPT ![s] = Job("media", on, r, None, FALSE, FALSE)]
      BY <2>14 DEF MediaRequest
    <3>2. Job("media", on, r, None, FALSE, FALSE) \in Jobs
      BY JobTypes DEF Stages
    <3> QED
      BY <2>2, <2>14, <3>1, <3>2 DEF MediaRequest
  <2>15. ASSUME NEW s \in Sessions, ManageCalls(s) PROVE TypeOK'
    <3>1. PICK stage \in {"mode", "allow"}, on \in BOOLEAN, r \in rooms[s] :
             job' = [job EXCEPT ![s] = Job(stage, on, r, user[s], FALSE, FALSE)]
      BY <2>15 DEF ManageCalls
    <3>2. r \in Rooms /\ user[s] \in Users \cup {None} /\ stage \in Stages
      BY DEF TypeOK, Stages
    <3>3. Job(stage, on, r, user[s], FALSE, FALSE) \in Jobs
      BY <3>2, JobTypes
    <3> QED
      BY <2>2, <2>15, <3>1, <3>3 DEF ManageCalls
  <2>16. ASSUME NEW s \in Sessions, NEW stage \in Stages, Go(s, stage),
                stage = "voice" \/ job[s].room \in Rooms
         PROVE  job' \in [Sessions -> Jobs]
    <3>1. job[s] \in Jobs
      BY DEF TypeOK
    <3>2. [job[s] EXCEPT !.stage = stage] \in Jobs
      BY <2>16, <3>1, JobChanges
    <3>3. job' = [job EXCEPT ![s] = [job[s] EXCEPT !.stage = stage]]
      BY <2>16 DEF Go
    <3> QED
      BY <3>2, <3>3 DEF TypeOK
  <2>17. ASSUME NEW s \in Sessions, Return(s) PROVE job' \in [Sessions -> Jobs]
    BY <2>17, JobTypes DEF Return, TypeOK
  <2>18. ASSUME NEW s \in Sessions, rate_limit_hit(s) PROVE TypeOK'
    <3>1. JoinKey(s) \in Users \cup Sessions
      BY DEF JoinKey, TypeOK, Jobs
    <3>2. joins[JoinKey(s)] \in 0..JoinLimit
      BY <3>1 DEF TypeOK
    <3>3. PICK count \in 0..JoinLimit :
             \/ /\ count < JoinLimit
                /\ joins' = [joins EXCEPT ![JoinKey(s)] = count + 1]
                /\ Go(s, Checks(job[s].room))
             \/ joins' = [joins EXCEPT ![JoinKey(s)] = count] /\ Return(s)
      <4>1. PICK over \in BOOLEAN :
               IF (IF over THEN 0 ELSE joins[JoinKey(s)]) < JoinLimit
               THEN /\ joins' = [joins EXCEPT ![JoinKey(s)] =
                                     (IF over THEN 0 ELSE joins[JoinKey(s)]) + 1]
                    /\ Go(s, Checks(job[s].room))
               ELSE /\ joins' = [joins EXCEPT ![JoinKey(s)] =
                                     IF over THEN 0 ELSE joins[JoinKey(s)]]
                    /\ Return(s)
        BY <2>18 DEF rate_limit_hit
      <4>2. (IF over THEN 0 ELSE joins[JoinKey(s)]) \in 0..JoinLimit
        BY <3>2, CallAssumption
      <4> QED
        BY <4>1, <4>2
    <3>4. Checks(job[s].room) \in Stages /\ (Checks(job[s].room) = "voice" \/ job[s].room \in Rooms)
      BY DEF Checks, Stages, TypeOK, Jobs
    <3>5. job' \in [Sessions -> Jobs]
      BY <2>16, <2>17, <3>3, <3>4
    <3>6. joins' \in [Users \cup Sessions -> 0..JoinLimit]
      BY <3>1, <3>3, CallAssumption DEF TypeOK
    <3> QED
      BY <2>18, <3>5, <3>6 DEF rate_limit_hit, TypeOK, session
  <2>19. ASSUME NEW s \in Sessions, CheckAccess(s) PROVE TypeOK'
    <3>1. job' \in [Sessions -> Jobs]
      <4>0. job[s].room \in Rooms
        BY <2>19 DEF CheckAccess, At, TypeOK, Jobs
      <4>1. CASE Go(s, "override") \/ Go(s, "voice")
        BY <2>16, <4>0, <4>1 DEF Stages
      <4>2. CASE job' = [job EXCEPT ![s] = [stage |-> "voice", on |-> @.on, room |-> @.room,
                            user |-> @.user, free |-> @.free, news |-> {}, out |-> @.out,
                            right |-> TRUE]]
        BY <4>2 DEF TypeOK, Jobs, Stages
      <4> QED
        BY <2>19, <4>1, <4>2 DEF CheckAccess
    <3> QED
      BY <2>19, <3>1 DEF CheckAccess, TypeOK, session, access
  <2>20. ASSUME NEW s \in Sessions, CheckOverride(s) PROVE TypeOK'
    <3>1. job' \in [Sessions -> Jobs]
      BY <2>16, <2>17, <2>20 DEF CheckOverride, Stages
    <3>2. overrides' \subseteq Rooms
      BY <2>20 DEF CheckOverride, TypeOK
    <3> QED
      BY <2>20, <3>1, <3>2 DEF CheckOverride, TypeOK, session
  <2>21. \A s \in Sessions, yes \in BOOLEAN : Opened(s, yes) \in [Sessions -> Jobs]
    <3>1. Idle \in Jobs /\ \A t \in Sessions : job[t] \in Jobs /\ [job[t] EXCEPT !.right = TRUE] \in Jobs
      BY JobTypes, JobChanges DEF TypeOK
    <3> QED
      BY <3>1 DEF Opened
  <2>22. ASSUME NEW s \in Sessions, At(s, "mode") \/ At(s, "allow")
         PROVE  job[s].on \in BOOLEAN /\ job[s].room \in Rooms
    BY <2>22 DEF At, TypeOK, Jobs
  <2>23. ASSUME NEW s \in Sessions, set_calls_enabled(s) PROVE TypeOK'
    <3>1. job' \in [Sessions -> Jobs]
      BY <2>17, <2>21, <2>22, <2>23 DEF set_calls_enabled
    <3>2. closed' \subseteq Rooms
      BY <2>22, <2>23 DEF set_calls_enabled, TypeOK
    <3> QED
      BY <2>23, <3>1, <3>2 DEF set_calls_enabled, TypeOK, session
  <2>24. ASSUME NEW s \in Sessions, set_call_access(s) PROVE TypeOK'
    <3>1. job' \in [Sessions -> Jobs]
      BY <2>21, <2>22, <2>24 DEF set_call_access
    <3>2. overrides' \subseteq Rooms
      BY <2>22, <2>24 DEF set_call_access, TypeOK
    <3> QED
      BY <2>24, <3>1, <3>2 DEF set_call_access, TypeOK, session
  <2>3. ASSUME NEW s \in Sessions, update_voice_chat(s) PROVE TypeOK'
    <3>1. job[s] \in Jobs
      BY DEF TypeOK
    <3>2. job[s].on \in BOOLEAN /\ job[s].room \in Rooms \cup {None}
      BY <3>1 DEF Jobs
    <3> DEFINE out == Evicted(s, job[s].on)
    <3>3. /\ out \in SUBSET Sessions /\ out \subseteq online
          /\ Admitted(s) => s \in online
      BY EvictedSiblings DEF TypeOK, Admitted
    <3>4. job' \in [Sessions -> Jobs]
      <4>1. Telling(out) \in Jobs /\ Idle \in Jobs
        BY <3>3, JobTypes
      <4>2. job' = [t \in Sessions |->
                      IF t = s THEN IF Admitted(s) THEN Telling(out) ELSE Idle
                      ELSE IF t \in out /\ job[t] # Idle THEN [job[t] EXCEPT !.out = TRUE] ELSE job[t]]
        BY <2>3 DEF update_voice_chat
      <4>3. \A t \in Sessions : job[t] \in Jobs /\ [job[t] EXCEPT !.out = TRUE] \in Jobs
        BY JobChanges DEF TypeOK
      <4> HIDE DEF out
      <4> QED
        BY <4>1, <4>2, <4>3
    <3>5. /\ voice' = [t \in Sessions |->
                          IF t \in out THEN FALSE
                          ELSE IF t = s /\ Admitted(s) THEN job[s].on ELSE voice[t]]
          /\ call_room' = [t \in Sessions |->
                          IF t \in out THEN None
                          ELSE IF t = s /\ Admitted(s) THEN RoomOfCall(s) ELSE call_room[t]]
          /\ claimed' \subseteq claimed
          /\ UNCHANGED <<online, user, visible, rooms, access, budget>>
      BY <2>3 DEF update_voice_chat
    <3>6. RoomOfCall(s) \in Rooms \cup {None}
      BY <3>2 DEF RoomOfCall
    <3> HIDE DEF out
    <3>7. voice' \in [Sessions -> BOOLEAN] /\ call_room' \in [Sessions -> Rooms \cup {None}]
      BY <3>2, <3>5, <3>6 DEF TypeOK
    <3>8. \A t \in Sessions \ online : ~voice'[t]
      BY <3>3, <3>5 DEF TypeOK
    <3> QED
      BY <3>4, <3>5, <3>7, <3>8 DEF TypeOK, access
  <2>4. ASSUME NEW s \in Sessions, Announce(s) PROVE TypeOK'
    BY <2>4, <2>17 DEF Announce, TypeOK, session, access
  <2>5. ASSUME NEW s \in Sessions, update_call_media_state(s) PROVE TypeOK'
    <3>1. job[s] \in Jobs
      BY DEF TypeOK
    <3>2. job[s].on \in BOOLEAN /\ RoomOfCall(s) \in Rooms \cup {None}
      BY <3>1 DEF Jobs, RoomOfCall
    <3>3. /\ job' \in [Sessions -> Jobs]
          /\ claimed' \subseteq claimed
          /\ UNCHANGED <<online, user, visible, rooms, closed, overrides, joins, budget>>
      BY <2>5, <2>17 DEF update_call_media_state, access
    <3>4. CASE UNCHANGED <<voice, call_room>>
      BY <3>3, <3>4 DEF TypeOK
    <3>5. CASE /\ s \in online
               /\ voice' = [voice EXCEPT ![s] = job[s].on]
               /\ call_room' = [call_room EXCEPT ![s] = RoomOfCall(s)]
      BY <3>2, <3>3, <3>5 DEF TypeOK
    <3> QED
      BY <2>5, <3>4, <3>5 DEF update_call_media_state, Admitted
  <2>6. ASSUME NEW s \in Sessions, AtOnce(s)
        PROVE  /\ s \in online /\ UNCHANGED <<online, closed, overrides, joins, job>>
               /\ budget' \in 0..MaxRequests
    BY <2>6, CallAssumption DEF AtOnce, Request, TypeOK, access
  <2>7. ASSUME NEW s \in Sessions, update_client_settings(s) PROVE TypeOK'
    BY <2>6, <2>7 DEF update_client_settings, VoiceAfterStatus, TypeOK
  <2>8. ASSUME NEW s \in Sessions, identify_player(s) PROVE TypeOK'
    <3>1. PICK u \in Users, on \in BOOLEAN, claim \in BOOLEAN :
             /\ user' = [user EXCEPT ![s] = u]
             /\ visible' = [visible EXCEPT ![s] = on]
             /\ voice' = [voice EXCEPT ![s] = claim]
      BY <2>8 DEF identify_player
    <3>2. claimed' \subseteq Sessions
      BY <2>8 DEF identify_player, TypeOK
    <3>3. /\ s \in online /\ UNCHANGED <<online, closed, overrides, joins, job, rooms, call_room>>
          /\ budget' \in 0..MaxRequests
      BY <2>6, <2>8 DEF identify_player
    <3> QED
      BY <3>1, <3>2, <3>3 DEF TypeOK
  <2>9. ASSUME NEW s \in Sessions, join_game(s) PROVE TypeOK'
    BY <2>6, <2>9 DEF join_game, TypeOK
  <2>10. ASSUME NEW s \in Sessions, leave_game(s) PROVE TypeOK'
    BY <2>6, <2>10 DEF leave_game, TypeOK
  <2>11. ASSUME NEW s \in Sessions, remove_user_from_room(s) PROVE TypeOK'
    BY <2>6, <2>11 DEF remove_user_from_room, TypeOK
  <2>12. ASSUME NEW s \in Sessions, disconnect_player(s) PROVE TypeOK'
    BY <2>12 DEF disconnect_player, VoiceWithout, TypeOK, access
  <2> QED
    BY <2>1, <2>3, <2>4, <2>5, <2>7, <2>8, <2>9, <2>10, <2>11, <2>12, <2>13, <2>14, <2>15,
       <2>18, <2>19, <2>20, <2>23, <2>24 DEF Next
<1> QED
  BY <1>1, <1>2, PTL DEF Spec

-----------------------------------------------------------------------------
\* No step brings two sessions of an account into calls, unless one of them
\* claims to be in one.  A step either takes sessions out of calls only, or
\* brings one session in after it has put out, or found absent, all others of
\* the account; and who stays in a call keeps the mark of its claim.
LEMMA OneCallStep ==
    ASSUME TypeOK, OneCallPerAccount, [Next]_vars
    PROVE  OneCallPerAccount'
<1>1. ASSUME UNCHANGED <<user, voice, claimed>> PROVE OneCallPerAccount'
  BY <1>1 DEF OneCallPerAccount
<1>2. ASSUME UNCHANGED user,
             \A t \in Sessions : voice'[t] => voice[t] /\ (t \in claimed => t \in claimed')
      PROVE  OneCallPerAccount'
  BY <1>2 DEF OneCallPerAccount
<1>3. ASSUME NEW s \in Sessions, UNCHANGED user,
             \A t \in Sessions \ {s} :
                voice'[t] => voice[t] /\ t \notin Siblings(s) /\ (t \in claimed => t \in claimed')
      PROVE  OneCallPerAccount'
  <2>1. \A t \in Sessions \ online : user[t] = None
    BY DEF TypeOK
  <2>2. \A t \in Sessions \ {s} : voice'[t] => user[t] # user[s] \/ user[s] = None
    BY <1>3, <2>1 DEF Siblings
  <2> QED
    BY <1>3, <2>2 DEF OneCallPerAccount
<1>4. ASSUME NEW s \in Sessions, update_voice_chat(s) PROVE OneCallPerAccount'
  <2>1. /\ UNCHANGED user
        /\ voice' = [t \in Sessions |->
                          IF t \in Evicted(s, job[s].on) THEN FALSE
                          ELSE IF t = s /\ Admitted(s) THEN job[s].on ELSE voice[t]]
        /\ claimed' = claimed \ (Evicted(s, job[s].on) \cup {t \in {s} : Admitted(s)})
    BY <1>4 DEF update_voice_chat
  <2>2. CASE job[s].on
    <3>1. \A t \in Sessions \ {s} :
             voice'[t] => voice[t] /\ t \notin Siblings(s) /\ (t \in claimed => t \in claimed')
      BY <2>1, <2>2 DEF Evicted
    <3> QED
      BY <1>3, <2>1, <3>1
  <2>3. CASE ~job[s].on
    <3>1. \A t \in Sessions : voice'[t] => voice[t] /\ (t \in claimed => t \in claimed')
      BY <2>1, <2>3
    <3> QED
      BY <1>2, <2>1, <3>1
  <2> QED
    BY <2>2, <2>3
<1>5. ASSUME NEW s \in Sessions, update_call_media_state(s) PROVE OneCallPerAccount'
  <2>1. CASE UNCHANGED <<voice, claimed>>
    BY <1>1, <1>5, <2>1 DEF update_call_media_state
  <2>2. CASE /\ voice' = [voice EXCEPT ![s] = job[s].on] /\ ~duplicate_voice_session(s)
             /\ claimed' = claimed \ {s}
    <3>1. UNCHANGED user
      BY <1>5 DEF update_call_media_state
    <3>2. CASE job[s].on
      <4>1. \A t \in Sessions \ {s} :
               voice'[t] => voice[t] /\ t \notin Siblings(s) /\ (t \in claimed => t \in claimed')
        BY <2>2, <3>2 DEF duplicate_voice_session, TypeOK
      <4> QED
        BY <1>3, <3>1, <4>1
    <3>3. CASE ~job[s].on
      <4>1. \A t \in Sessions : voice'[t] => voice[t] /\ (t \in claimed => t \in claimed')
        BY <2>2, <3>3 DEF TypeOK
      <4> QED
        BY <1>2, <3>1, <4>1
    <3> QED
      BY <3>2, <3>3
  <2> QED
    BY <1>5, <2>1, <2>2 DEF update_call_media_state
<1>6. ASSUME NEW s \in Sessions, identify_player(s) PROVE OneCallPerAccount'
  <2>1. PICK u \in Users, claim \in BOOLEAN :
           /\ voice' = [voice EXCEPT ![s] = claim] /\ user' = [user EXCEPT ![s] = u]
           /\ claimed' = IF claim THEN claimed \cup {s} ELSE claimed \ {s}
    BY <1>6 DEF identify_player
  <2> QED
    BY <2>1 DEF OneCallPerAccount, TypeOK
<1>7. ASSUME NEW s \in Sessions, disconnect_player(s) PROVE OneCallPerAccount'
  BY <1>7 DEF disconnect_player, VoiceWithout, OneCallPerAccount, TypeOK
<1>8. ASSUME NEW s \in Sessions, update_client_settings(s) PROVE OneCallPerAccount'
  <2>1. UNCHANGED user /\ \A t \in Sessions : voice'[t] => voice[t] /\ (t \in claimed => t \in claimed')
    BY <1>8 DEF update_client_settings, VoiceAfterStatus, TypeOK
  <2> QED
    BY <1>2, <2>1
<1>9. ASSUME NEW s \in Sessions,
             \/ VoiceRequest(s) \/ rate_limit_hit(s) \/ CheckAccess(s) \/ CheckOverride(s)
             \/ MediaRequest(s) \/ ManageCalls(s) \/ set_calls_enabled(s) \/ set_call_access(s)
             \/ Announce(s) \/ join_game(s) \/ leave_game(s) \/ remove_user_from_room(s)
      PROVE  OneCallPerAccount'
  BY <1>1, <1>9 DEF VoiceRequest, rate_limit_hit, CheckAccess, CheckOverride, MediaRequest,
     ManageCalls, set_calls_enabled, set_call_access, Announce, join_game, leave_game,
     remove_user_from_room, session
<1>10. CASE UNCHANGED vars
  BY <1>1, <1>10 DEF vars, session
<1> QED
  BY <1>4, <1>5, <1>6, <1>7, <1>8, <1>9, <1>10 DEF Next

\* An account is in a call with one session at most, for any number of
\* accounts, sessions, rooms and requests, whatever clients identify with; but
\* for a session that is in its call by its own word in identify_player.
THEOREM OneCall == Spec => []OneCallPerAccount
<1>1. Init => OneCallPerAccount
  BY DEF Init, OneCallPerAccount
<1>2. TypeOK /\ OneCallPerAccount /\ [Next]_vars => OneCallPerAccount'
  BY OneCallStep
<1> QED
  BY <1>1, <1>2, TypeCorrect, PTL DEF Spec
-----------------------------------------------------------------------------
\* Who is in a call is visible, or claimed to be in one.
InCallVisible == \A s \in online : voice[s] => visible[s] \/ s \in claimed

LEMMA VisibleStep ==
    ASSUME TypeOK, InCallVisible, [Next]_vars
    PROVE  InCallVisible'
<1>1. ASSUME UNCHANGED <<online, visible>>,
             \A t \in online :
                voice'[t] => visible[t] \/ (voice[t] /\ (t \in claimed => t \in claimed'))
      PROVE  InCallVisible'
  BY <1>1 DEF InCallVisible
<1>2. ASSUME NEW s \in Sessions, update_voice_chat(s) PROVE InCallVisible'
  <2>1. \A t \in Sessions :
           voice'[t] => \/ voice[t] /\ (t \in claimed => t \in claimed')
                        \/ t = s /\ Admitted(s) /\ job[s].on
    <3>1. s \notin Evicted(s, job[s].on)
      BY EvictedSiblings
    <3> QED
      BY <1>2, <3>1 DEF update_voice_chat, TypeOK
  <2>2. Admitted(s) /\ job[s].on => visible[s]
    BY DEF Admitted
  <2> QED
    BY <1>1, <1>2, <2>1, <2>2 DEF update_voice_chat, TypeOK
<1>3. ASSUME NEW s \in Sessions, update_call_media_state(s) PROVE InCallVisible'
  <2>1. \A t \in Sessions :
           voice'[t] => \/ voice[t] /\ (t \in claimed => t \in claimed')
                        \/ t = s /\ Admitted(s) /\ job[s].on
    BY <1>3 DEF update_call_media_state, TypeOK
  <2>2. Admitted(s) /\ job[s].on => visible[s]
    BY DEF Admitted
  <2> QED
    BY <1>1, <1>3, <2>1, <2>2 DEF update_call_media_state, TypeOK
<1>4. ASSUME NEW s \in Sessions, update_client_settings(s) PROVE InCallVisible'
  <2>1. PICK on \in BOOLEAN : /\ visible' = [visible EXCEPT ![s] = on]
                             /\ voice' = [voice EXCEPT ![s] = on /\ voice[s]]
                             /\ claimed' = IF on THEN claimed ELSE claimed \ {s}
    BY <1>4 DEF update_client_settings, VoiceAfterStatus
  <2> QED
    BY <1>4, <2>1 DEF update_client_settings, AtOnce, InCallVisible, TypeOK
<1>5. ASSUME NEW s \in Sessions, identify_player(s) PROVE InCallVisible'
  <2>1. PICK on \in BOOLEAN, claim \in BOOLEAN :
           /\ visible' = [visible EXCEPT ![s] = on]
           /\ voice' = [voice EXCEPT ![s] = claim]
           /\ claimed' = IF claim THEN claimed \cup {s} ELSE claimed \ {s}
    BY <1>5 DEF identify_player
  <2> QED
    BY <1>5, <2>1 DEF identify_player, AtOnce, InCallVisible, TypeOK
<1>6. ASSUME NEW s \in Sessions, disconnect_player(s) PROVE InCallVisible'
  BY <1>6 DEF disconnect_player, VoiceWithout, InCallVisible, TypeOK
<1>7. ASSUME NEW s \in Sessions,
             \/ VoiceRequest(s) \/ rate_limit_hit(s) \/ CheckAccess(s) \/ CheckOverride(s)
             \/ MediaRequest(s) \/ ManageCalls(s) \/ set_calls_enabled(s) \/ set_call_access(s)
             \/ Announce(s) \/ join_game(s) \/ leave_game(s) \/ remove_user_from_room(s)
      PROVE  InCallVisible'
  <2>1. UNCHANGED <<online, visible, voice, claimed>>
    BY <1>7 DEF VoiceRequest, rate_limit_hit, CheckAccess, CheckOverride, MediaRequest,
       ManageCalls, set_calls_enabled, set_call_access, Announce, join_game, leave_game,
       remove_user_from_room, AtOnce, session
  <2> QED
    BY <1>1, <2>1
<1>8. CASE UNCHANGED vars
  BY <1>1, <1>8 DEF vars, session
<1> QED
  BY <1>2, <1>3, <1>4, <1>5, <1>6, <1>7, <1>8 DEF Next

\* Nobody is in a call, or reached by the signals of one, while invisible, for
\* any number of sessions, rooms and requests (update_voice_chat,
\* update_client_settings); but for a session that is in its call by its own
\* word in identify_player.
THEOREM VisibleCalls == Spec => []CallsAreVisible
<1>1. Init => InCallVisible
  BY DEF Init, InCallVisible
<1>2. TypeOK /\ InCallVisible /\ [Next]_vars => InCallVisible'
  BY VisibleStep
<1>3. InCallVisible => CallsAreVisible
  BY DEF InCallVisible, CallsAreVisible, SignalTargets, is_call_in_room
<1> QED
  BY <1>1, <1>2, <1>3, TypeCorrect, PTL DEF Spec
-----------------------------------------------------------------------------
\* A request to be in a call that was not counted is that of a session in a
\* call, or of one put out of it since.
CountedInv ==
    \A s \in online :
        job[s].stage \in {"limit", "access", "override", "voice"} /\ job[s].on /\ job[s].free
            => voice[s] \/ job[s].out

\* A request to be in the call of a room remembers that the room is open to it
\* now, and at its last stage that the room was.
AccessInv ==
    \A s \in Sessions :
        job[s].stage \in {"limit", "access", "override", "voice"} /\ job[s].on /\ job[s].room # None =>
            /\ OpenTo(job[s].user, job[s].room) => job[s].right
            /\ job[s].stage = "voice" => job[s].right

\* What a step may do to the handler of another session.
LEMMA OtherJobs ==
    ASSUME TypeOK, NEW s \in Sessions, NEW t \in Sessions, s # t,
           \/ VoiceRequest(s) \/ rate_limit_hit(s) \/ CheckAccess(s) \/ CheckOverride(s)
           \/ MediaRequest(s) \/ update_call_media_state(s) \/ ManageCalls(s) \/ Announce(s)
           \/ update_client_settings(s) \/ identify_player(s) \/ join_game(s) \/ leave_game(s)
           \/ remove_user_from_room(s) \/ disconnect_player(s)
    PROVE  job'[t] = job[t] /\ voice'[t] = voice[t] /\ call_room'[t] = call_room[t]
<1>1. /\ job \in [Sessions -> Jobs] /\ voice \in [Sessions -> BOOLEAN]
      /\ call_room \in [Sessions -> Rooms \cup {None}]
  BY DEF TypeOK
<1>2. CASE VoiceRequest(s) \/ MediaRequest(s) \/ ManageCalls(s)
  BY <1>1, <1>2 DEF VoiceRequest, MediaRequest, ManageCalls, session
<1>3. CASE rate_limit_hit(s) \/ CheckAccess(s) \/ CheckOverride(s) \/ Announce(s)
  BY <1>1, <1>3 DEF rate_limit_hit, CheckAccess, CheckOverride, Announce, Go, Return, session
<1>4. CASE update_call_media_state(s)
  BY <1>1, <1>4 DEF update_call_media_state, Return
<1>5. CASE update_client_settings(s) \/ identify_player(s) \/ join_game(s) \/ leave_game(s)
           \/ remove_user_from_room(s)
  BY <1>1, <1>5 DEF update_client_settings, identify_player, join_game, leave_game,
     remove_user_from_room, AtOnce
<1>6. CASE disconnect_player(s)
  BY <1>1, <1>6 DEF disconnect_player, VoiceWithout
<1> QED
  BY <1>2, <1>3, <1>4, <1>5, <1>6

\* The handlers after the write section of update_voice_chat.
LEMMA AfterVoice ==
    ASSUME TypeOK, NEW s \in Sessions, update_voice_chat(s)
    PROVE  /\ job'[s].stage \in {"announce", "idle"}
           /\ \A t \in Sessions \ {s} :
                 /\ job'[t].stage = job[t].stage /\ job'[t].on = job[t].on
                 /\ job'[t].free = job[t].free /\ job'[t].right = job[t].right
                 /\ job'[t].room = job[t].room /\ job'[t].user = job[t].user
                 /\ job[t].out => job'[t].out
                 /\ voice'[t] => voice[t] /\ call_room'[t] = call_room[t]
                 /\ voice[t] /\ job[t] # Idle => voice'[t] \/ job'[t].out
           /\ voice'[s] => \/ voice[s] /\ call_room'[s] = call_room[s]
                           \/ s \in online /\ job[s].on /\ call_room'[s] = job[s].room
<1>1. PICK out : /\ out = Evicted(s, job[s].on)
                 /\ voice' = [t \in Sessions |->
                          IF t \in out THEN FALSE
                          ELSE IF t = s /\ Admitted(s) THEN job[s].on ELSE voice[t]]
                 /\ call_room' = [t \in Sessions |->
                          IF t \in out THEN None
                          ELSE IF t = s /\ Admitted(s) THEN RoomOfCall(s) ELSE call_room[t]]
                 /\ job' = [t \in Sessions |->
                          IF t = s THEN IF Admitted(s) THEN Telling(out) ELSE Idle
                          ELSE IF t \in out /\ job[t] # Idle THEN [job[t] EXCEPT !.out = TRUE] ELSE job[t]]
  BY DEF update_voice_chat
<1>2. job'[s].stage \in {"announce", "idle"}
  BY <1>1 DEF Telling, Idle, Job
<1>3. ASSUME NEW t \in Sessions \ {s}
      PROVE  /\ job'[t].stage = job[t].stage /\ job'[t].on = job[t].on
             /\ job'[t].free = job[t].free /\ job'[t].right = job[t].right
             /\ job'[t].room = job[t].room /\ job'[t].user = job[t].user
             /\ job[t].out => job'[t].out
             /\ voice'[t] => voice[t] /\ call_room'[t] = call_room[t]
             /\ voice[t] /\ job[t] # Idle => voice'[t] \/ job'[t].out
  <2>1. job[t] \in Jobs
    BY DEF TypeOK
  <2>2. CASE job'[t] = job[t]
    BY <1>1, <2>2
  <2>3. CASE job'[t] = [job[t] EXCEPT !.out = TRUE] /\ t \in out
    BY <1>1, <2>1, <2>3 DEF Jobs
  <2>4. t \notin out \/ job[t] = Idle => job'[t] = job[t]
    BY <1>1
  <2>5. t \in out /\ job[t] # Idle => job'[t] = [job[t] EXCEPT !.out = TRUE]
    BY <1>1
  <2> QED
    BY <2>2, <2>3, <2>4, <2>5
<1>4. voice'[s] => \/ voice[s] /\ call_room'[s] = call_room[s]
                   \/ s \in online /\ job[s].on /\ call_room'[s] = job[s].room
  <2>1. s \notin out
    BY <1>1, EvictedSiblings
  <2>2. CASE Admitted(s)
    BY <1>1, <2>1, <2>2 DEF Admitted, RoomOfCall
  <2>3. CASE ~Admitted(s)
    BY <1>1, <2>1, <2>3
  <2> QED
    BY <2>2, <2>3
<1> QED
  BY <1>2, <1>3, <1>4

\* The handlers after a room was opened.
LEMMA AfterOpening ==
    ASSUME TypeOK, NEW s \in Sessions, NEW yes \in BOOLEAN, job' = Opened(s, yes)
    PROVE  /\ job'[s].stage = "idle"
           /\ \A t \in Sessions \ {s} :
                 /\ job'[t].stage = job[t].stage /\ job'[t].on = job[t].on
                 /\ job'[t].free = job[t].free /\ job'[t].out = job[t].out
                 /\ job'[t].room = job[t].room /\ job'[t].user = job[t].user
                 /\ job[t].right => job'[t].right
                 /\ yes /\ job[t].room = job[s].room => job'[t].right
<1>1. job'[s].stage = "idle"
  BY DEF Opened, Idle, Job
<1>2. ASSUME NEW t \in Sessions \ {s}
      PROVE  /\ job'[t].stage = job[t].stage /\ job'[t].on = job[t].on
             /\ job'[t].free = job[t].free /\ job'[t].out = job[t].out
             /\ job'[t].room = job[t].room /\ job'[t].user = job[t].user
             /\ job[t].right => job'[t].right
             /\ yes /\ job[t].room = job[s].room => job'[t].right
  <2>1. job[t] \in Jobs
    BY DEF TypeOK
  <2>2. CASE yes /\ job[t].room = job[s].room
    <3>1. job'[t] = [job[t] EXCEPT !.right = TRUE]
      BY <2>2 DEF Opened
    <3> QED
      BY <2>1, <3>1 DEF Jobs
  <2>3. CASE ~(yes /\ job[t].room = job[s].room)
    <3>1. job'[t] = job[t]
      BY <2>3 DEF Opened
    <3> QED
      BY <2>3, <3>1
  <2> QED
    BY <2>2, <2>3
<1> QED
  BY <1>1, <1>2

\* The handler of the session that takes a step, as far as the invariants
\* look at it: at rest, or at a stage it has reached by its checks.
LEMMA OwnJob ==
    ASSUME TypeOK, NEW s \in Sessions
    PROVE  /\ VoiceRequest(s) \/ MediaRequest(s) \/ ManageCalls(s) => UNCHANGED <<session, access>>
           /\ VoiceRequest(s) /\ job'[s].on => job'[s].free = voice[s]
           /\ VoiceRequest(s) /\ job'[s].on /\ job'[s].room # None =>
                 job'[s].right = OpenTo(job'[s].user, job'[s].room)
           /\ VoiceRequest(s) /\ job'[s].stage = "voice" => job'[s].room = None
           /\ MediaRequest(s) => job'[s].stage = "media"
           /\ ManageCalls(s) => job'[s].stage \in {"mode", "allow"}
           /\ \A stage \in Stages : Go(s, stage) =>
                 /\ job'[s].stage = stage /\ job'[s].on = job[s].on
                 /\ job'[s].free = job[s].free /\ job'[s].out = job[s].out
                 /\ job'[s].right = job[s].right
                 /\ job'[s].room = job[s].room /\ job'[s].user = job[s].user
           /\ Return(s) => job'[s].stage = "idle"
<1>1. job \in [Sessions -> Jobs] /\ job[s] \in Jobs /\ voice[s] \in BOOLEAN
  BY DEF TypeOK
<1>2. VoiceRequest(s) \/ MediaRequest(s) \/ ManageCalls(s) => UNCHANGED <<session, access>>
  BY DEF VoiceRequest, MediaRequest, ManageCalls
<1>3. ASSUME VoiceRequest(s), job'[s].on
      PROVE  /\ job'[s].free = voice[s]
             /\ job'[s].room # None => job'[s].right = OpenTo(job'[s].user, job'[s].room)
  <2>1. PICK on \in BOOLEAN, r \in Rooms \cup {None} :
           job' = [job EXCEPT ![s] =
                     Job(IF ~on \/ already_in_voice(s) THEN Checks(r) ELSE "limit", on, r, user[s],
                         ~on \/ already_in_voice(s), r # None /\ OpenTo(user[s], r))]
    BY <1>3 DEF VoiceRequest
  <2>2. job'[s] = Job(IF ~on \/ already_in_voice(s) THEN Checks(r) ELSE "limit", on, r, user[s],
                      ~on \/ already_in_voice(s), r # None /\ OpenTo(user[s], r))
    BY <1>1, <2>1
  <2>3. /\ job'[s].on = on /\ job'[s].room = r /\ job'[s].user = user[s]
        /\ job'[s].free = (~on \/ already_in_voice(s))
        /\ job'[s].right = (r # None /\ OpenTo(user[s], r))
    BY <2>2 DEF Job
  <2> QED
    BY <1>1, <1>3, <2>3 DEF already_in_voice, OpenTo
<1>8. ASSUME VoiceRequest(s), job'[s].stage = "voice" PROVE job'[s].room = None
  <2>1. PICK on \in BOOLEAN, r \in Rooms \cup {None} :
           job' = [job EXCEPT ![s] =
                     Job(IF ~on \/ already_in_voice(s) THEN Checks(r) ELSE "limit", on, r, user[s],
                         ~on \/ already_in_voice(s), r # None /\ OpenTo(user[s], r))]
    BY <1>8 DEF VoiceRequest
  <2>2. job'[s] = Job(IF ~on \/ already_in_voice(s) THEN Checks(r) ELSE "limit", on, r, user[s],
                      ~on \/ already_in_voice(s), r # None /\ OpenTo(user[s], r))
    BY <1>1, <2>1
  <2>3. /\ job'[s].stage = (IF ~on \/ already_in_voice(s) THEN Checks(r) ELSE "limit")
        /\ job'[s].room = r
    BY <2>2 DEF Job
  <2> QED
    BY <1>8, <2>3 DEF Checks
<1>4. MediaRequest(s) => job'[s].stage = "media"
  BY <1>1 DEF MediaRequest, Job
<1>5. ManageCalls(s) => job'[s].stage \in {"mode", "allow"}
  BY <1>1 DEF ManageCalls, Job
<1>6. ASSUME NEW stage \in Stages, Go(s, stage)
      PROVE  /\ job'[s].stage = stage /\ job'[s].on = job[s].on
             /\ job'[s].free = job[s].free /\ job'[s].out = job[s].out
             /\ job'[s].right = job[s].right
             /\ job'[s].room = job[s].room /\ job'[s].user = job[s].user
  <2>1. job'[s] = [job[s] EXCEPT !.stage = stage]
    BY <1>1, <1>6 DEF Go
  <2> QED
    BY <1>1, <2>1 DEF Jobs
<1>7. Return(s) => job'[s].stage = "idle"
  BY <1>1 DEF Return, Idle, Job
<1> QED
  BY <1>2, <1>3, <1>4, <1>5, <1>6, <1>7, <1>8

\* What a handler at work for a call can do next.
LEMMA CallStages ==
    ASSUME TypeOK, NEW s \in Sessions, rate_limit_hit(s) \/ CheckAccess(s) \/ CheckOverride(s)
    PROVE  /\ UNCHANGED session
           /\ \/ job'[s].stage = "idle"
              \/ /\ job'[s].on = job[s].on /\ job'[s].free = job[s].free /\ job'[s].out = job[s].out
                 /\ job'[s].room = job[s].room /\ job'[s].user = job[s].user
                 /\ job[s].right => job'[s].right
                 /\ job[s].stage \in {"limit", "access", "override"}
                 /\ job'[s].stage \in {"access", "override", "voice"}
                 /\ job'[s].stage = "voice" /\ job[s].on =>
                       \/ job[s].room = None \/ job'[s].right
                       \/ OpenTo(job[s].user, job[s].room)
<1>1. job \in [Sessions -> Jobs] /\ job[s] \in Jobs
  BY DEF TypeOK
<1>2. CASE rate_limit_hit(s)
  <2>1. Go(s, Checks(job[s].room)) \/ Return(s)
    BY <1>2 DEF rate_limit_hit
  <2>2. Checks(job[s].room) \in Stages
    BY DEF Checks, Stages
  <2>3. Checks(job[s].room) = "access" \/ (Checks(job[s].room) = "voice" /\ job[s].room = None)
    BY DEF Checks
  <2>4. UNCHANGED session /\ job[s].stage = "limit"
    BY <1>2 DEF rate_limit_hit, At
  <2> QED
    BY <2>1, <2>2, <2>3, <2>4, OwnJob
<1>3. CASE CheckAccess(s)
  <2>1. UNCHANGED session /\ job[s].stage = "access" /\ job[s].room \in Rooms
    BY <1>1, <1>3 DEF CheckAccess, At, Jobs
  <2>2. CASE Go(s, "override")
    BY <2>1, <2>2, OwnJob DEF Stages
  <2>3. CASE Go(s, "voice") /\ (job[s].on => ~Barred(s))
    <3>1. ~Barred(s) => OpenTo(job[s].user, job[s].room)
      BY DEF Barred, OpenTo
    <3> QED
      BY <2>1, <2>3, <3>1, OwnJob DEF Stages
  <2>4. CASE job' = [job EXCEPT ![s] = [stage |-> "voice", on |-> @.on, room |-> @.room,
                        user |-> @.user, free |-> @.free, news |-> {}, out |-> @.out, right |-> TRUE]]
    <3>1. job'[s] = [stage |-> "voice", on |-> job[s].on, room |-> job[s].room,
                     user |-> job[s].user, free |-> job[s].free, news |-> {}, out |-> job[s].out,
                     right |-> TRUE]
      BY <1>1, <2>4
    <3> QED
      BY <2>1, <3>1
  <2> QED
    BY <1>3, <2>2, <2>3, <2>4 DEF CheckAccess
<1>4. CASE CheckOverride(s)
  <2>1. UNCHANGED session /\ job[s].stage = "override"
    BY <1>4 DEF CheckOverride, At
  <2>2. \/ Go(s, "voice") /\ (job[s].on => job[s].room \in overrides)
        \/ Return(s)
    BY <1>4 DEF CheckOverride
  <2>3. job[s].room \in overrides => OpenTo(job[s].user, job[s].room)
    BY DEF OpenTo
  <2> QED
    BY <2>1, <2>2, <2>3, OwnJob DEF Stages
<1> QED
  BY <1>2, <1>3, <1>4

\* Every step keeps the uncounted requests those of sessions in calls or put
\* out of them.
LEMMA CountedStep ==
    ASSUME TypeOK, CountedInv, [Next]_vars
    PROVE  CountedInv'
<1> DEFINE Fine(t) == job[t].stage \in {"limit", "access", "override", "voice"} /\ job[t].on /\ job[t].free
                          => voice[t] \/ job[t].out
<1> SUFFICES ASSUME NEW t \in online' PROVE Fine(t)'
  BY DEF CountedInv
<1>1. CASE UNCHANGED vars
  BY <1>1 DEF CountedInv, vars, session
<1> SUFFICES ASSUME Next PROVE Fine(t)'
  BY <1>1
<1>2. PICK s \in Sessions :
        \/ VoiceRequest(s) \/ rate_limit_hit(s) \/ CheckAccess(s) \/ CheckOverride(s)
        \/ update_voice_chat(s) \/ Announce(s)
        \/ MediaRequest(s) \/ update_call_media_state(s)
        \/ ManageCalls(s) \/ set_calls_enabled(s) \/ set_call_access(s)
        \/ update_client_settings(s) \/ identify_player(s)
        \/ join_game(s) \/ leave_game(s) \/ remove_user_from_room(s)
        \/ disconnect_player(s)
  BY DEF Next
<1>3. t \in online /\ t \in Sessions
  BY <1>2 DEF VoiceRequest, rate_limit_hit, CheckAccess, CheckOverride, update_voice_chat, Announce,
     MediaRequest, update_call_media_state, ManageCalls, set_calls_enabled, set_call_access,
     update_client_settings, identify_player, join_game, leave_game, remove_user_from_room,
     disconnect_player, AtOnce, session, TypeOK
<1>4. Fine(t)
  BY <1>3 DEF CountedInv
<1>5. CASE update_voice_chat(s)
  <2>1. CASE t = s
    BY <1>5, <2>1, AfterVoice
  <2>2. CASE t # s
    <3>1. Idle.stage = "idle"
      BY DEF Idle, Job
    <3> QED
      BY <1>3, <1>4, <1>5, <2>2, <3>1, AfterVoice
  <2> QED
    BY <2>1, <2>2
<1>6. CASE set_calls_enabled(s) \/ set_call_access(s)
  <2>1. UNCHANGED voice /\ (job' = Opened(s, job[s].on) \/ Return(s))
    BY <1>6 DEF set_calls_enabled, set_call_access, session
  <2>2. job[s].on \in BOOLEAN /\ job \in [Sessions -> Jobs]
    BY DEF TypeOK, Jobs
  <2>3. CASE job' = Opened(s, job[s].on)
    BY <1>3, <1>4, <2>1, <2>2, <2>3, AfterOpening
  <2>4. CASE Return(s)
    <3>1. job'[s].stage = "idle"
      BY <2>4, OwnJob
    <3>2. t # s => job'[t] = job[t]
      BY <1>3, <2>2, <2>4 DEF Return
    <3> QED
      BY <1>4, <2>1, <3>1, <3>2
  <2> QED
    BY <2>1, <2>3, <2>4
<1>7. CASE ~update_voice_chat(s) /\ ~set_calls_enabled(s) /\ ~set_call_access(s) /\ t # s
  <2>1. job'[t] = job[t] /\ voice'[t] = voice[t]
    BY <1>2, <1>3, <1>7, OtherJobs
  <2> QED
    BY <1>4, <2>1
<1>8. CASE t = s /\ VoiceRequest(s)
  BY <1>8, OwnJob DEF session
<1>9. CASE t = s /\ (rate_limit_hit(s) \/ CheckAccess(s) \/ CheckOverride(s))
  BY <1>4, <1>9, CallStages DEF session
<1>10. CASE t = s /\ (MediaRequest(s) \/ ManageCalls(s))
  BY <1>10, OwnJob
<1>11. CASE t = s /\ (Announce(s) \/ update_call_media_state(s))
  BY <1>11, OwnJob DEF Announce, update_call_media_state
<1>12. CASE t = s /\ (update_client_settings(s) \/ identify_player(s) \/ join_game(s)
                      \/ leave_game(s) \/ remove_user_from_room(s))
  <2>1. job'[s].stage = "idle"
    BY <1>12 DEF update_client_settings, identify_player, join_game, leave_game,
       remove_user_from_room, AtOnce, Request, At
  <2> QED
    BY <1>12, <2>1
<1>13. CASE t = s /\ disconnect_player(s)
  BY <1>13 DEF disconnect_player
<1> QED
  BY <1>2, <1>5, <1>6, <1>7, <1>8, <1>9, <1>10, <1>11, <1>12, <1>13

\* Rooms are opened to somebody only by set_calls_enabled and set_call_access.
LEMMA OpeningSteps ==
    ASSUME TypeOK, NEW s \in Sessions, NEW u, NEW r,
           \/ VoiceRequest(s) \/ rate_limit_hit(s) \/ CheckAccess(s) \/ CheckOverride(s)
           \/ MediaRequest(s) \/ update_call_media_state(s) \/ ManageCalls(s) \/ Announce(s)
           \/ update_client_settings(s) \/ identify_player(s) \/ join_game(s) \/ leave_game(s)
           \/ remove_user_from_room(s) \/ disconnect_player(s) \/ update_voice_chat(s)
    PROVE  OpenTo(u, r)' => OpenTo(u, r)
<1>1. CASE CheckOverride(s)
  BY <1>1 DEF CheckOverride, OpenTo
<1>2. CASE rate_limit_hit(s)
  BY <1>2 DEF rate_limit_hit, OpenTo
<1>3. CASE ~CheckOverride(s) /\ ~rate_limit_hit(s)
  <2>1. UNCHANGED <<closed, overrides>>
    BY <1>3 DEF VoiceRequest, CheckAccess, MediaRequest, update_call_media_state, ManageCalls,
       Announce, update_client_settings, identify_player, join_game, leave_game,
       remove_user_from_room, disconnect_player, update_voice_chat, AtOnce, access
  <2> QED
    BY <2>1 DEF OpenTo
<1> QED
  BY <1>1, <1>2, <1>3

\* A request that set_calls_enabled or set_call_access opens its room to has
\* the right from then on.
LEMMA OpeningGrants ==
    ASSUME TypeOK, NEW s \in Sessions, NEW t \in Sessions \ {s}, NEW u,
           set_calls_enabled(s) \/ set_call_access(s)
    PROVE  /\ job'[s].stage = "idle"
           /\ job'[t].stage = job[t].stage /\ job'[t].on = job[t].on
           /\ job'[t].room = job[t].room /\ job'[t].user = job[t].user
           /\ job[t].right => job'[t].right
           /\ (\/ job[t].room \notin closed'
               \/ job[t].room \in overrides' \/ u \in Managers[job[t].room])
              => OpenTo(u, job[t].room) \/ job'[t].right
<1>1. job[s].on \in BOOLEAN /\ job \in [Sessions -> Jobs]
  BY DEF TypeOK, Jobs
<1>2. CASE Return(s) /\ UNCHANGED <<closed, overrides>>
  <2>1. job'[t] = job[t] /\ job'[s].stage = "idle"
    BY <1>1, <1>2, OwnJob DEF Return
  <2> QED
    BY <1>2, <2>1 DEF OpenTo
<1>3. CASE /\ job' = Opened(s, job[s].on)
           /\ \/ closed' \in {closed \ {job[s].room}, closed \cup {job[s].room}} /\ UNCHANGED overrides
              \/ overrides' \in {overrides \ {job[s].room}, overrides \cup {job[s].room}} /\ UNCHANGED closed
           /\ ~job[s].on => closed \subseteq closed' /\ overrides' \subseteq overrides
  <2>1. /\ job'[s].stage = "idle"
        /\ job'[t].stage = job[t].stage /\ job'[t].on = job[t].on
        /\ job'[t].room = job[t].room /\ job'[t].user = job[t].user
        /\ job[t].right => job'[t].right
        /\ job[s].on /\ job[t].room = job[s].room => job'[t].right
    BY <1>1, <1>3, AfterOpening
  <2>2. CASE job[s].on /\ job[t].room = job[s].room
    BY <2>1, <2>2
  <2>3. CASE ~job[s].on
    BY <1>3, <2>1, <2>3 DEF OpenTo
  <2>4. CASE job[t].room # job[s].room
    <3>1. /\ job[t].room \notin closed' => job[t].room \notin closed
          /\ job[t].room \in overrides' => job[t].room \in overrides
      BY <1>3, <2>4
    <3> QED
      BY <2>1, <3>1 DEF OpenTo
  <2> QED
    BY <2>2, <2>3, <2>4
<1>4. CASE set_calls_enabled(s)
  BY <1>2, <1>3, <1>4 DEF set_calls_enabled
<1>5. CASE set_call_access(s)
  BY <1>2, <1>3, <1>5 DEF set_call_access
<1> QED
  BY <1>4, <1>5

\* Every step keeps what requests remember of their room.
LEMMA AccessStep ==
    ASSUME TypeOK, AccessInv, [Next]_vars
    PROVE  AccessInv'
<1> DEFINE Fine(t) ==
        job[t].stage \in {"limit", "access", "override", "voice"} /\ job[t].on /\ job[t].room # None =>
            /\ OpenTo(job[t].user, job[t].room) => job[t].right
            /\ job[t].stage = "voice" => job[t].right
<1> SUFFICES ASSUME NEW t \in Sessions PROVE Fine(t)'
  BY DEF AccessInv
<1>1. Fine(t)
  BY DEF AccessInv
<1>2. CASE UNCHANGED vars
  BY <1>1, <1>2 DEF vars, access, OpenTo
<1> SUFFICES ASSUME Next PROVE Fine(t)'
  BY <1>2
<1>3. PICK s \in Sessions :
        \/ VoiceRequest(s) \/ rate_limit_hit(s) \/ CheckAccess(s) \/ CheckOverride(s)
        \/ update_voice_chat(s) \/ Announce(s)
        \/ MediaRequest(s) \/ update_call_media_state(s)
        \/ ManageCalls(s) \/ set_calls_enabled(s) \/ set_call_access(s)
        \/ update_client_settings(s) \/ identify_player(s)
        \/ join_game(s) \/ leave_game(s) \/ remove_user_from_room(s)
        \/ disconnect_player(s)
  BY DEF Next
<1>4. CASE set_calls_enabled(s) \/ set_call_access(s)
  <2>1. CASE t = s
    <3>1. job' = Opened(s, job[s].on) \/ Return(s)
      BY <1>4 DEF set_calls_enabled, set_call_access
    <3>2. job[s].on \in BOOLEAN
      BY DEF TypeOK, Jobs
    <3>3. job'[s].stage = "idle"
      BY <3>1, <3>2, AfterOpening, OwnJob
    <3> QED
      BY <2>1, <3>3
  <2>2. CASE t # s
    <3>1. /\ job'[t].stage = job[t].stage /\ job'[t].on = job[t].on
          /\ job'[t].room = job[t].room /\ job'[t].user = job[t].user
          /\ job[t].right => job'[t].right
          /\ (\/ job[t].room \notin closed'
              \/ job[t].room \in overrides' \/ job[t].user \in Managers[job[t].room])
             => OpenTo(job[t].user, job[t].room) \/ job'[t].right
      BY <1>4, <2>2, OpeningGrants
    <3> QED
      BY <1>1, <3>1 DEF OpenTo
  <2> QED
    BY <2>1, <2>2
<1>5. CASE ~set_calls_enabled(s) /\ ~set_call_access(s)
  <2>1. \A u, r : (r \notin closed' \/ r \in overrides' \/ u \in Managers[r])
                     => OpenTo(u, r)
    BY <1>3, <1>5, OpeningSteps DEF OpenTo
  <2>2. CASE t # s
    <3>1. /\ job'[t].stage = job[t].stage /\ job'[t].on = job[t].on
          /\ job'[t].right = job[t].right
          /\ job'[t].room = job[t].room /\ job'[t].user = job[t].user
      BY <1>3, <1>5, <2>2, OtherJobs, AfterVoice
    <3> QED
      BY <1>1, <2>1, <3>1 DEF OpenTo
  <2>3. CASE t = s /\ VoiceRequest(s)
    <3>1. /\ job'[s].on /\ job'[s].room # None => job'[s].right = OpenTo(job'[s].user, job'[s].room)
          /\ job'[s].stage = "voice" => job'[s].room = None
      BY <2>3, OwnJob
    <3> QED
      BY <2>1, <2>3, <3>1 DEF OpenTo
  <2>4. CASE t = s /\ (rate_limit_hit(s) \/ CheckAccess(s) \/ CheckOverride(s))
    BY <1>1, <2>1, <2>4, CallStages DEF OpenTo
  <2>5. CASE t = s /\ ~VoiceRequest(s) /\ ~rate_limit_hit(s) /\ ~CheckAccess(s) /\ ~CheckOverride(s)
                   /\ ~disconnect_player(s)
    <3>1. job'[s].stage \in {"idle", "announce", "media", "mode", "allow"}
      <4>1. CASE update_voice_chat(s)
        BY <4>1, AfterVoice
      <4>2. CASE Announce(s) \/ update_call_media_state(s)
        BY <4>2, OwnJob DEF Announce, update_call_media_state
      <4>3. CASE MediaRequest(s) \/ ManageCalls(s)
        BY <4>3, OwnJob
      <4>4. CASE update_client_settings(s) \/ identify_player(s) \/ join_game(s)
                 \/ leave_game(s) \/ remove_user_from_room(s)
        BY <4>4 DEF update_client_settings, identify_player, join_game, leave_game,
           remove_user_from_room, AtOnce, Request, At
      <4> QED
        BY <1>3, <1>5, <2>5, <4>1, <4>2, <4>3, <4>4
    <3> QED
      BY <2>5, <3>1
  <2>6. CASE t = s /\ disconnect_player(s)
    <3>1. job'[s] = job[s]
      BY <2>6 DEF disconnect_player
    <3> QED
      BY <1>1, <2>1, <2>6, <3>1 DEF OpenTo
  <2> QED
    BY <2>2, <2>3, <2>4, <2>5, <2>6
<1> QED
  BY <1>4, <1>5

\* Only the write section of update_voice_chat brings a session with an op 98
\* request into a call, or from one call into another.
LEMMA Entering ==
    ASSUME TypeOK, [Next]_vars, NEW s \in Sessions, At(s, "voice"), voice'[s],
           ~voice[s] \/ call_room'[s] # call_room[s]
    PROVE  s \in online /\ job[s].on /\ call_room'[s] = job[s].room
<1>1. Next
  BY DEF vars, session
<1>2. PICK t \in Sessions :
        \/ VoiceRequest(t) \/ rate_limit_hit(t) \/ CheckAccess(t) \/ CheckOverride(t)
        \/ update_voice_chat(t) \/ Announce(t)
        \/ MediaRequest(t) \/ update_call_media_state(t)
        \/ ManageCalls(t) \/ set_calls_enabled(t) \/ set_call_access(t)
        \/ update_client_settings(t) \/ identify_player(t)
        \/ join_game(t) \/ leave_game(t) \/ remove_user_from_room(t)
        \/ disconnect_player(t)
  BY <1>1 DEF Next
<1>3. CASE update_voice_chat(t)
  BY <1>3, AfterVoice
<1>4. CASE set_calls_enabled(t) \/ set_call_access(t)
  BY <1>4 DEF set_calls_enabled, set_call_access, session
<1>5. CASE ~update_voice_chat(t) /\ ~set_calls_enabled(t) /\ ~set_call_access(t)
  <2>1. t = s
    BY <1>2, <1>5, OtherJobs
  <2>2. voice \in [Sessions -> BOOLEAN] /\ call_room \in [Sessions -> Rooms \cup {None}]
    BY DEF TypeOK
  <2> QED
    BY <1>2, <1>5, <2>1, <2>2 DEF VoiceRequest, rate_limit_hit, CheckAccess, CheckOverride, Announce,
       MediaRequest, update_call_media_state, ManageCalls, update_client_settings, identify_player,
       join_game, leave_game, remove_user_from_room, disconnect_player, VoiceWithout, AtOnce,
       Request, At, session
<1> QED
  BY <1>3, <1>4, <1>5

\* A join counts against the limit of its account for any number of sessions,
\* rooms and requests; a session gets into a call uncounted only after another
\* session of the account put it out of one (update_voice_chat).
THEOREM JoinsCounted == Spec => JoinsAreLimited
<1>1. Init => CountedInv
  BY DEF Init, CountedInv, Idle, Job
<1>2. TypeOK /\ CountedInv /\ [Next]_vars => CountedInv'
  BY CountedStep
<1>3. TypeOK /\ CountedInv /\ [Next]_vars =>
        [\A s \in Sessions :
          At(s, "voice") /\ ~voice[s] /\ voice'[s] => ~job[s].free \/ job[s].out]_vars
  BY Entering DEF CountedInv, At
<1> QED
  BY <1>1, <1>2, <1>3, TypeCorrect, PTL DEF Spec, JoinsAreLimited

\* No op 98 that names a room brings a session, from no call or from another,
\* into the call of a room other than that one, or of one whose calls were
\* closed to it all the time its request was served, whatever the staff does
\* meanwhile, as long as the room's record can be read (update_voice_chat).
THEOREM RoomRulesHold == Spec => AccessHeld
<1>1. Init => AccessInv
  BY DEF Init, AccessInv, Idle, Job
<1>2. TypeOK /\ AccessInv /\ [Next]_vars => AccessInv'
  BY AccessStep
<1>3. TypeOK /\ AccessInv /\ [Next]_vars =>
        [\A s \in Sessions, r \in Rooms :
          At(s, "voice") /\ job[s].room # None /\ ~is_call_in_room(s, r) /\ is_call_in_room(s, r)'
            => r = job[s].room /\ job[s].right]_vars
  <2> SUFFICES ASSUME TypeOK, AccessInv, [Next]_vars, NEW s \in Sessions, NEW r \in Rooms,
                      At(s, "voice"), job[s].room # None,
                      ~is_call_in_room(s, r), is_call_in_room(s, r)'
               PROVE  r = job[s].room /\ job[s].right
    OBVIOUS
  <2>1. voice'[s] /\ call_room'[s] \in {None, r}
    BY DEF is_call_in_room
  <2>2. ~voice[s] \/ call_room'[s] # call_room[s]
    BY <2>1 DEF is_call_in_room
  <2>3. job[s].on /\ call_room'[s] = job[s].room
    BY <2>1, <2>2, Entering
  <2> QED
    BY <2>1, <2>3 DEF AccessInv, At
<1> QED
  BY <1>1, <1>2, <1>3, TypeCorrect, PTL DEF Spec, AccessHeld
=============================================================================

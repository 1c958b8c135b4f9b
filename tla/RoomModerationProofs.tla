------------------------ MODULE RoomModerationProofs ------------------------
(***************************************************************************)
(* Proofs about RoomModeration for any accounts, sessions, limits and      *)
(* bounds.  The first argument: a handler writes back a copy it derived    *)
(* from ONE row it read, so it is enough that every change a handler makes *)
(* to a sound record yields a sound record.  RecordInv therefore speaks of *)
(* the row and of all copies in flight; how stale a copy is does not       *)
(* matter.                                                                 *)
(*                                                                         *)
(* The second, for bans and ownership: what a handler has changed on its   *)
(* copy (HeldOK) is what happens to the row, while no UPSERT overwrites a  *)
(* concurrent one.                                                         *)
(***************************************************************************)
EXTENDS RoomModeration, FiniteSetTheorems, TLAPS

USE ModelAssumption

\* The set of holders of a role is finite, so its cardinality is a number.
LEMMA HoldersFinite ==
    ASSUME NEW roles \in [Users -> Roles], NEW role
    PROVE  /\ IsFiniteSet(HoldersOf(roles, role))
           /\ Cardinality(HoldersOf(roles, role)) \in Nat
<1>1. HoldersOf(roles, role) \subseteq Users
  BY DEF HoldersOf
<1>2. IsFiniteSet(HoldersOf(roles, role))
  BY <1>1, FS_Subset
<1> QED
  BY <1>2, FS_CardinalityType

\* Giving one user another role adds at most that user to a role's holders.
LEMMA HoldersGrow ==
    ASSUME NEW roles \in [Users -> Roles], NEW t \in Users, NEW new \in Roles, NEW role
    PROVE  LET H == HoldersOf(roles, role)
               G == HoldersOf([roles EXCEPT ![t] = new], role)
           IN  /\ new # role => Cardinality(G) <= Cardinality(H)
               /\ roles[t] = role => Cardinality(G) <= Cardinality(H)
               /\ Cardinality(G) <= Cardinality(H) + 1
<1> DEFINE H == HoldersOf(roles, role)
           G == HoldersOf([roles EXCEPT ![t] = new], role)
<1>1. IsFiniteSet(H) /\ Cardinality(H) \in Nat
  BY HoldersFinite
<1>2. G \subseteq H \cup {t}
  BY DEF HoldersOf
<1>3. IsFiniteSet(H \cup {t}) /\ Cardinality(H \cup {t}) <= Cardinality(H) + 1
  <2>1. IsFiniteSet(H \cup {t})
        /\ (Cardinality(H \cup {t}) = Cardinality(H)
            \/ Cardinality(H \cup {t}) = Cardinality(H) + 1)
    <3> HIDE DEF H
    <3> QED
      BY <1>1, FS_AddElement
  <2> QED
    BY <2>1, <1>1
<1>4. Cardinality(G) <= Cardinality(H) + 1
  <2>1. Cardinality(G) <= Cardinality(H \cup {t})
    BY <1>2, <1>3, FS_Subset
  <2>2. IsFiniteSet(G) /\ Cardinality(G) \in Nat
    BY <1>2, <1>3, FS_Subset, FS_CardinalityType
  <2>3. Cardinality(H \cup {t}) \in Nat
    BY <1>3, FS_CardinalityType
  <2> QED
    BY <2>1, <2>2, <2>3, <1>3, <1>1
<1>5. ASSUME new # role \/ roles[t] = role PROVE Cardinality(G) <= Cardinality(H)
  <2>1. G \subseteq H
    BY <1>5 DEF HoldersOf
  <2> QED
    BY <2>1, <1>1, FS_Subset
<1> QED
  BY <1>4, <1>5

-----------------------------------------------------------------------------
\* Records the handlers build from nothing.
LEMMA DefaultRoomOK ==
    /\ RecordOK(DefaultRoom) /\ RecordOK(NoRow)
    /\ \A u \in Users, perms \in SUBSET Permissions : RecordOK(FreshRoom(u, perms))
<1>1. ASSUME NEW role, role # "Member"
      PROVE  HoldersOf(DefaultRoom.roles, role) = {}
  BY <1>1 DEF HoldersOf, DefaultRoom
<1>2. DefaultRoom \in Rooms /\ NoRow \in Rooms
  BY DEF DefaultRoom, NoRow, Rooms, Kinds, Roles, Flags
<1>3. Cardinality({}) = 0
  BY FS_EmptySet
<1>4. RecordOK(DefaultRoom)
  <2>1. DefaultRoom.kind = "classic" /\ DefaultRoom.owner = None
    BY DEF DefaultRoom
  <2> QED
    <3>1. SoleAdministrator(DefaultRoom)
      <4>1. HoldersOf(DefaultRoom.roles, "Administrator") = {}
        BY <1>1, <2>1
      <4> QED
        BY <4>1, <2>1 DEF SoleAdministrator
    <3>2. WithinLimits(DefaultRoom)
      <4>1. /\ HoldersOf(DefaultRoom.roles, "Moderator") = {}
            /\ HoldersOf(DefaultRoom.roles, "SubAdministrator") = {}
        BY <1>1, <2>1
      <4> QED
        BY <4>1, <1>3, ModelAssumption DEF WithinLimits
    <3> QED
      BY <3>1, <3>2, <1>2 DEF RecordOK
<1>5. RecordOK(NoRow)
  <2>1. NoRow.kind = "none" /\ NoRow.owner = None /\ NoRow.roles = DefaultRoom.roles
    BY DEF DefaultRoom, NoRow
  <2> QED
    <3>1. SoleAdministrator(NoRow)
      <4>1. HoldersOf(NoRow.roles, "Administrator") = {}
        BY <1>1, <2>1
      <4> QED
        BY <4>1, <2>1 DEF SoleAdministrator
    <3>2. WithinLimits(NoRow)
      <4>1. /\ HoldersOf(NoRow.roles, "Moderator") = {}
            /\ HoldersOf(NoRow.roles, "SubAdministrator") = {}
        BY <1>1, <2>1
      <4> QED
        BY <4>1, <1>3, ModelAssumption DEF WithinLimits
    <3> QED
      BY <3>1, <3>2, <1>2 DEF RecordOK
<1>6. ASSUME NEW u \in Users, NEW perms \in SUBSET Permissions
      PROVE  RecordOK(FreshRoom(u, perms))
  <2> DEFINE f == FreshRoom(u, perms)
  <2>1. /\ f.kind = "community" /\ f.owner = u
        /\ f.roles = [x \in Users |-> IF x = u THEN "Administrator" ELSE "Member"]
    BY DEF FreshRoom, DefaultRoom
  <2>2. f \in Rooms
    BY DEF FreshRoom, DefaultRoom, Rooms, Kinds, Roles, Flags
  <2>3. /\ HoldersOf(f.roles, "Administrator") = {u}
        /\ HoldersOf(f.roles, "Moderator") = {}
        /\ HoldersOf(f.roles, "SubAdministrator") = {}
    BY <2>1 DEF HoldersOf
  <2> QED
    BY <2>1, <2>2, <2>3, <1>3 DEF RecordOK, SoleAdministrator, WithinLimits
<1> QED
  BY <1>4, <1>5, <1>6

\* Changing anything but kind, owner and roles keeps a record sound.
LEMMA FieldChangeOK ==
    ASSUME NEW r, RecordOK(r), NEW q \in Rooms,
           q.kind = r.kind, q.owner = r.owner, q.roles = r.roles
    PROVE  RecordOK(q)
BY DEF RecordOK, SoleAdministrator, WithinLimits

\* set_member_role keeps a record sound.
LEMMA RoleChangeOK ==
    ASSUME NEW r, RecordOK(r), r.kind = "community",
           NEW a \in Users, NEW t \in Users, NEW role \in Roles,
           RoleChangeAllowed(r, a, t, role)
    PROVE  RecordOK([r EXCEPT !.roles = [@ EXCEPT ![t] = role]])
<1> DEFINE q == [r EXCEPT !.roles = [@ EXCEPT ![t] = role]]
<1>0. r \in Rooms /\ r.roles \in [Users -> Roles]
  BY DEF RecordOK, Rooms
<1>1. q \in Rooms /\ q.kind = "community" /\ q.owner = r.owner
      /\ q.roles = [r.roles EXCEPT ![t] = role]
  BY <1>0 DEF Rooms
<1>2. r.owner \in Users /\ HoldersOf(r.roles, "Administrator") = {r.owner}
  BY DEF RecordOK, SoleAdministrator
<1>3. t # r.owner /\ role # "Administrator"
  BY DEF RoleChangeAllowed, role_in_room
<1>4. HoldersOf(q.roles, "Administrator") = {q.owner}
  BY <1>0, <1>1, <1>2, <1>3 DEF HoldersOf
<1>5. role_in_room(r, t) = r.roles[t]
  BY <1>3 DEF role_in_room
<1>6. ASSUME NEW x \in {"Moderator", "SubAdministrator"}, NEW n \in Nat,
             Cardinality(HoldersOf(r.roles, x)) <= n,
             role = x /\ r.roles[t] # x => Cardinality(HoldersOf(r.roles, x)) < n
      PROVE  Cardinality(HoldersOf(q.roles, x)) <= n
  <2>1. Cardinality(HoldersOf(r.roles, x)) \in Nat /\ Cardinality(HoldersOf(q.roles, x)) \in Nat
    BY <1>0, <1>1, HoldersFinite
  <2> QED
    BY <1>0, <1>1, <1>6, <2>1, HoldersGrow
<1>7. WithinLimits(q)
  BY <1>5, <1>6 DEF RecordOK, WithinLimits, RoleChangeAllowed, count_role
<1> QED
  BY <1>1, <1>2, <1>4, <1>7 DEF RecordOK, SoleAdministrator

\* transfer_ownership keeps a record sound.
LEMMA TransferOK ==
    ASSUME NEW r, RecordOK(r), r.kind = "community",
           NEW a \in Users, NEW t \in Users, TransferAllowed(r, a, t)
    PROVE  RecordOK(Transferred(r, a, t))
<1> DEFINE q == Transferred(r, a, t)
           up == [r.roles EXCEPT ![t] = "Administrator"]
<1>0. r \in Rooms /\ r.roles \in [Users -> Roles]
  BY DEF RecordOK, Rooms
<1>1. q \in Rooms /\ q.kind = "community" /\ q.owner = t
      /\ q.roles = [up EXCEPT ![a] = "SubAdministrator"]
  BY <1>0 DEF Rooms, Roles, Transferred
<1>2. r.owner = a /\ HoldersOf(r.roles, "Administrator") = {a}
  BY DEF RecordOK, SoleAdministrator, TransferAllowed
<1>3. t # a /\ r.roles[t] \in {"Moderator", "SubAdministrator"}
      /\ role_in_room(r, t) = r.roles[t]
  BY DEF TransferAllowed, role_in_room
<1>4. HoldersOf(q.roles, "Administrator") = {t}
  BY <1>0, <1>1, <1>2, <1>3 DEF HoldersOf
<1>5. up \in [Users -> Roles] /\ up[a] = "Administrator"
  BY <1>0, <1>2, <1>3 DEF Roles, HoldersOf
<1>6. Cardinality(HoldersOf(q.roles, "Moderator")) <= MaxModerators
  <2>1. Cardinality(HoldersOf(up, "Moderator")) <= Cardinality(HoldersOf(r.roles, "Moderator"))
    BY <1>0, HoldersGrow DEF Roles
  <2>2. Cardinality(HoldersOf(q.roles, "Moderator")) <= Cardinality(HoldersOf(up, "Moderator"))
    BY <1>1, <1>5, HoldersGrow DEF Roles
  <2>3. /\ Cardinality(HoldersOf(up, "Moderator")) \in Nat
        /\ Cardinality(HoldersOf(q.roles, "Moderator")) \in Nat
        /\ Cardinality(HoldersOf(r.roles, "Moderator")) \in Nat
    BY <1>0, <1>1, <1>5, HoldersFinite DEF Rooms
  <2> QED
    BY <2>1, <2>2, <2>3 DEF RecordOK, WithinLimits
<1>7. Cardinality(HoldersOf(q.roles, "SubAdministrator")) <= MaxSubAdmins
  <2> DEFINE H == HoldersOf(r.roles, "SubAdministrator")
             U == HoldersOf(up, "SubAdministrator")
             G == HoldersOf(q.roles, "SubAdministrator")
  <2>1. /\ Cardinality(H) \in Nat /\ Cardinality(U) \in Nat /\ Cardinality(G) \in Nat
        /\ IsFiniteSet(H)
    BY <1>0, <1>1, <1>5, HoldersFinite DEF Rooms
  <2>2. Cardinality(U) <= Cardinality(H) /\ Cardinality(G) <= Cardinality(U) + 1
    BY <1>0, <1>1, <1>5, HoldersGrow DEF Roles
  <2>3. Cardinality(H) <= MaxSubAdmins
    BY DEF RecordOK, WithinLimits
  <2>4. CASE r.roles[t] = "SubAdministrator"
    <3>1. U = H \ {t} /\ t \in H
      BY <1>0, <2>4 DEF HoldersOf
    <3>2. Cardinality(U) = Cardinality(H) - 1
      BY <3>1, <2>1, FS_RemoveElement
    <3> QED
      BY <3>2, <2>1, <2>2, <2>3
  <2>5. CASE r.roles[t] # "SubAdministrator"
    <3>1. Cardinality(H) < MaxSubAdmins
      BY <1>3, <2>5 DEF TransferAllowed, count_role
    <3> QED
      BY <3>1, <2>1, <2>2
  <2> QED
    BY <2>4, <2>5
<1> QED
  BY <1>1, <1>4, <1>6, <1>7 DEF RecordOK, SoleAdministrator, WithinLimits
-----------------------------------------------------------------------------
(***************************************************************************)
(* How the handlers update their own state.                                *)
(***************************************************************************)
JobsOK == job \in [Sessions -> Jobs] /\ \A s \in Sessions : RecordOK(job[s].snap)

\* Giving one session a well-formed job keeps all jobs well-formed.
LEMMA JobStep ==
    ASSUME JobsOK, NEW s \in Sessions, NEW j \in Jobs, RecordOK(j.snap),
           job' = [job EXCEPT ![s] = j]
    PROVE  JobsOK'
<1>1. job' \in [Sessions -> Jobs]
  BY DEF JobsOK
<1>2. ASSUME NEW x \in Sessions PROVE RecordOK(job'[x].snap)
  <2>1. CASE x = s
    BY <2>1 DEF JobsOK
  <2>2. CASE x # s
    BY <2>2 DEF JobsOK
  <2> QED
    BY <2>1, <2>2
<1> QED
  BY <1>1, <1>2 DEF JobsOK

\* The job of a session that runs no handler is well-formed.
LEMMA IdleJobOK == IdleJob \in Jobs /\ RecordOK(IdleJob.snap)
<1>1. NoRow \in Rooms
  BY DefaultRoomOK DEF RecordOK
<1> QED
  BY <1>1, DefaultRoomOK DEF IdleJob, Jobs, Operations, Stages

\* A handler that returns leaves well-formed jobs.
LEMMA ReturnStep ==
    ASSUME JobsOK, NEW s \in Sessions, Return(s)
    PROVE  JobsOK'
BY IdleJobOK, JobStep DEF Return

\* A handler that goes on to another await leaves well-formed jobs.
LEMMA ContinueStep ==
    ASSUME JobsOK, NEW s \in Sessions, NEW stage \in Stages, Continue(s, stage)
    PROVE  JobsOK'
<1> DEFINE j == [job[s] EXCEPT !.stage = stage]
<1>1. j \in Jobs /\ j.snap = job[s].snap
  BY DEF JobsOK, Jobs
<1>2. job' = [job EXCEPT ![s] = j]
  BY DEF Continue
<1>3. RecordOK(j.snap)
  BY <1>1 DEF JobsOK
<1> HIDE DEF j
<1> QED
  BY <1>1, <1>2, <1>3, JobStep

\* A handler that takes up a sound copy of the record leaves well-formed jobs.
LEMMA HoldStep ==
    ASSUME JobsOK, NEW s \in Sessions, NEW stage \in Stages,
           NEW t \in Users \cup {None}, NEW r \in Rooms, NEW changed,
           RecordOK(changed), Hold(s, stage, t, r, changed)
    PROVE  JobsOK'
<1> DEFINE j == [job[s] EXCEPT !.stage = stage, !.target = t, !.snap = changed, !.base = r]
<1>0. changed \in Rooms
  BY DEF RecordOK
<1>1. j \in Jobs /\ j.snap = changed
  BY <1>0 DEF JobsOK, Jobs
<1>2. job' = [job EXCEPT ![s] = j]
  BY DEF Hold
<1>3. RecordOK(j.snap)
  BY <1>1
<1> HIDE DEF j
<1> QED
  BY <1>1, <1>2, <1>3, JobStep

\* A session that starts a handler leaves well-formed jobs.
LEMMA BeginStep ==
    ASSUME JobsOK, NEW s \in Sessions, NEW op \in Operations, NEW stage \in Stages,
           Begin(s, op, stage)
    PROVE  JobsOK'
<1> DEFINE j == [IdleJob EXCEPT !.op = op, !.stage = stage]
<1>1. j \in Jobs /\ j.snap = IdleJob.snap
  BY IdleJobOK DEF Jobs
<1>2. job' = [job EXCEPT ![s] = j]
  BY DEF Begin
<1>3. RecordOK(j.snap)
  BY <1>1, IdleJobOK
<1> HIDE DEF j
<1> QED
  BY <1>1, <1>2, <1>3, JobStep

\* What a handler reads, from the table or from a failed statement, is sound.
LEMMA ReadOK ==
    ASSUME RecordOK(row), NEW r \in {row, NoRow}
    PROVE  RecordOK(r) /\ r \in Rooms
BY DefaultRoomOK DEF RecordOK

\* The shape of every role-checked handler: refuse, or hold a sound copy.
LEMMA CheckedStep ==
    ASSUME JobsOK, NEW s \in Sessions, NEW r \in Rooms, NEW allowed,
           NEW stage \in Stages, NEW t \in Users \cup {None}, NEW changed,
           r.kind = "community" /\ allowed => RecordOK(changed),
           Refuse(s, r, allowed) \/ Grant(s, r, allowed, stage, t, changed)
    PROVE  JobsOK'
<1>1. CASE Refuse(s, r, allowed)
  BY <1>1, ReturnStep DEF Refuse
<1>2. CASE Grant(s, r, allowed, stage, t, changed)
  BY <1>2, HoldStep DEF Grant
<1> QED
  BY <1>1, <1>2

-----------------------------------------------------------------------------
(***************************************************************************)
(* Every action preserves RowOK, JobsOK and RestOK, the three parts of     *)
(* RecordInv.                                                              *)
(***************************************************************************)
RowOK == RecordOK(row)

RestOK ==
    /\ online \subseteq Sessions /\ inRoom \subseteq online
    /\ budget \in 0..MaxRequests /\ faults \in 0..MaxDbFaults
    /\ overwrote \in BOOLEAN /\ sentence \subseteq Users \cup {None}
    /\ user_id \in [Sessions -> Users] /\ slipped \subseteq Sessions

\* The three parts of the inductive invariant the steps below treat apart.
LEMMA InvParts == RecordInv <=> RowOK /\ JobsOK /\ RestOK
BY DEF RecordInv, RowOK, JobsOK, RestOK, TypeOK, RecordOK

\* A step that only reads the row leaves everything but the job alone.
LEMMA SelectFrame ==
    ASSUME RowOK, RestOK, NEW r, Select(r),
           UNCHANGED <<row, online, user_id, inRoom, budget, overwrote, sentence, slipped>>
    PROVE  RowOK' /\ RestOK'
<1>1. faults' \in 0..MaxDbFaults
  BY DEF Select, MayFail, RestOK
<1> QED
  BY <1>1 DEF RowOK, RestOK

\* The read of a role-checked handler leaves everything but the job alone.
LEMMA LoadFrame ==
    ASSUME RowOK, RestOK, NEW s, NEW op, NEW r, Load(s, op, r)
    PROVE  RowOK' /\ RestOK'
BY SelectFrame DEF Load

\* The reading and checking steps of the moderation handlers.
LEMMA ModerationPreserves ==
    ASSUME RowOK, JobsOK, RestOK, NEW s \in Sessions, Moderation(s)
    PROVE  RowOK' /\ JobsOK' /\ RestOK'
<1> DEFINE Goal == RowOK' /\ JobsOK' /\ RestOK'
<1>u. user_id[s] \in Users
  BY DEF RestOK
<1>s. {"store", "remove", "names", "reload", "load", "delete"} \subseteq Stages
  BY DEF Stages
<1>r. ASSUME NEW r \in {row, NoRow} PROVE RecordOK(r) /\ r \in Rooms
  BY ReadOK DEF RowOK
<1>1. CASE Request(s)
  <2>1. PICK op \in ModerationOps : Begin(s, op, "load")
    BY <1>1 DEF Request
  <2>2. op \in Operations
    BY DEF Operations
  <2>3. JobsOK'
    BY <2>1, <2>2, <1>s, BeginStep
  <2>4. RowOK' /\ RestOK'
    BY <1>1, <2>1 DEF Request, Begin, RowOK, RestOK
  <2> QED
    BY <2>3, <2>4
<1>2. CASE set_member_role(s)
  <2>1. PICK r \in {row, NoRow}, t \in Users, role \in Roles :
          LET allowed == RoleChangeAllowed(r, user_id[s], t, role)
          IN  /\ Load(s, "set_member_role", r)
              /\ \/ Refuse(s, r, allowed)
                 \/ Grant(s, r, allowed, "store", t, [r EXCEPT !.roles = [@ EXCEPT ![t] = role]])
    BY <1>2 DEF set_member_role
  <2>2. r.kind = "community" /\ RoleChangeAllowed(r, user_id[s], t, role)
          => RecordOK([r EXCEPT !.roles = [@ EXCEPT ![t] = role]])
    BY <1>r, <1>u, RoleChangeOK
  <2>3. JobsOK'
    BY <2>1, <2>2, <1>r, <1>s, CheckedStep
  <2> QED
    BY <2>1, <2>3, LoadFrame
<1>3. CASE ban_member(s)
  <2>1. PICK r \in {row, NoRow}, t \in Users :
          LET allowed == t # user_id[s] /\ Moderates(r, user_id[s], t, "Ban")
          IN  /\ Load(s, "ban_member", r)
              /\ \/ Refuse(s, r, allowed)
                 \/ Grant(s, r, allowed, "store", t, [r EXCEPT !.banned = @ \cup {t}])
    BY <1>3 DEF ban_member
  <2>2. RecordOK([r EXCEPT !.banned = @ \cup {t}])
    BY <1>r, FieldChangeOK DEF Rooms
  <2>3. JobsOK'
    BY <2>1, <2>2, <1>r, <1>s, CheckedStep
  <2> QED
    BY <2>1, <2>3, LoadFrame
<1>4. CASE unban_member(s)
  <2>1. PICK r \in {row, NoRow}, t \in Users :
          LET allowed == Manages(r, user_id[s])
          IN  /\ Load(s, "unban_member", r)
              /\ \/ Refuse(s, r, allowed)
                 \/ Grant(s, r, allowed, "store", t, [r EXCEPT !.banned = @ \ {t}])
    BY <1>4 DEF unban_member
  <2>2. RecordOK([r EXCEPT !.banned = @ \ {t}])
    BY <1>r, FieldChangeOK DEF Rooms
  <2>3. JobsOK'
    BY <2>1, <2>2, <1>r, <1>s, CheckedStep
  <2> QED
    BY <2>1, <2>3, LoadFrame
<1>5. CASE kick_member(s)
  <2>1. PICK r \in {row, NoRow}, t \in Users :
          LET allowed == t # user_id[s] /\ Moderates(r, user_id[s], t, "Kick")
          IN  /\ Load(s, "kick_member", r)
              /\ \/ Refuse(s, r, allowed)
                 \/ Grant(s, r, allowed, "remove", t, r)
    BY <1>5 DEF kick_member
  <2>2. JobsOK'
    BY <2>1, <1>r, <1>s, CheckedStep
  <2> QED
    BY <2>1, <2>2, LoadFrame
<1>6. CASE timeout_member(s)
  <2>1. PICK r \in {row, NoRow}, t \in Users :
          LET allowed == t # user_id[s] /\ Moderates(r, user_id[s], t, "Mute")
          IN  /\ Load(s, "timeout_member", r)
              /\ \/ Refuse(s, r, allowed)
                 \/ Grant(s, r, allowed, "store", t, [r EXCEPT !.timeouts = @ \cup {t}])
    BY <1>6 DEF timeout_member
  <2>2. RecordOK([r EXCEPT !.timeouts = @ \cup {t}])
    BY <1>r, FieldChangeOK DEF Rooms
  <2>3. JobsOK'
    BY <2>1, <2>2, <1>r, <1>s, CheckedStep
  <2> QED
    BY <2>1, <2>3, LoadFrame
<1>7. CASE unmute_member(s)
  <2>1. PICK r \in {row, NoRow}, t \in Users :
          LET allowed == Moderates(r, user_id[s], t, "Mute")
          IN  /\ Load(s, "unmute_member", r)
              /\ \/ Refuse(s, r, allowed)
                 \/ Grant(s, r, allowed, "store", t, [r EXCEPT !.timeouts = @ \ {t}])
    BY <1>7 DEF unmute_member
  <2>2. RecordOK([r EXCEPT !.timeouts = @ \ {t}])
    BY <1>r, FieldChangeOK DEF Rooms
  <2>3. JobsOK'
    BY <2>1, <2>2, <1>r, <1>s, CheckedStep
  <2> QED
    BY <2>1, <2>3, LoadFrame
<1>8. CASE transfer_ownership(s)
  <2>1. PICK r \in {row, NoRow}, t \in Users :
          LET allowed == TransferAllowed(r, user_id[s], t)
          IN  /\ Load(s, "transfer_ownership", r)
              /\ \/ Refuse(s, r, allowed)
                 \/ Grant(s, r, allowed, "store", t, Transferred(r, user_id[s], t))
    BY <1>8 DEF transfer_ownership
  <2>2. r.kind = "community" /\ TransferAllowed(r, user_id[s], t)
          => RecordOK(Transferred(r, user_id[s], t))
    BY <1>r, <1>u, TransferOK
  <2>3. JobsOK'
    BY <2>1, <2>2, <1>r, <1>s, CheckedStep
  <2> QED
    BY <2>1, <2>3, LoadFrame
<1>9. CASE set_flag(s)
  <2>1. PICK r \in {row, NoRow}, f \in Flags, on \in BOOLEAN, op \in Operations :
          LET allowed == Manages(r, user_id[s])
          IN  /\ Load(s, op, r)
              /\ \/ Refuse(s, r, allowed)
                 \/ Grant(s, r, allowed, "store", None,
                          [r EXCEPT !.flags = IF on THEN @ \cup {f} ELSE @ \ {f}])
    BY <1>9 DEF set_flag, Operations, ModerationOps
  <2>2. RecordOK([r EXCEPT !.flags = IF on THEN @ \cup {f} ELSE @ \ {f}])
    BY <1>r, FieldChangeOK DEF Rooms
  <2>3. JobsOK'
    BY <2>1, <2>2, <1>r, <1>s, CheckedStep
  <2> QED
    BY <2>1, <2>3, LoadFrame
<1>10. CASE set_moderator_permissions(s)
  <2>1. PICK r \in {row, NoRow}, perms \in SUBSET Permissions :
          LET allowed == Manages(r, user_id[s])
          IN  /\ Load(s, "set_moderator_permissions", r)
              /\ \/ Refuse(s, r, allowed)
                 \/ Grant(s, r, allowed, "store", None, [r EXCEPT !.mod_permissions = perms])
    BY <1>10 DEF set_moderator_permissions
  <2>2. RecordOK([r EXCEPT !.mod_permissions = perms])
    BY <1>r, FieldChangeOK DEF Rooms
  <2>3. JobsOK'
    BY <2>1, <2>2, <1>r, <1>s, CheckedStep
  <2> QED
    BY <2>1, <2>3, LoadFrame
<1>11. CASE update_room_description(s)
  <2>1. PICK r \in {row, NoRow} :
          LET allowed == Manages(r, user_id[s])
          IN  /\ Load(s, "update_room_description", r)
              /\ \/ Refuse(s, r, allowed)
                 \/ Grant(s, r, allowed, "store", None, r)
    BY <1>11 DEF update_room_description
  <2>2. JobsOK'
    BY <2>1, <1>r, <1>s, CheckedStep
  <2> QED
    BY <2>1, <2>2, LoadFrame
<1>12. CASE update_room_title(s)
  <2>1. PICK r \in {row, NoRow} :
          Load(s, "update_room_title", r) /\ (Return(s) \/ Continue(s, "names"))
    BY <1>12 DEF update_room_title
  <2>2. JobsOK'
    BY <2>1, <1>s, ReturnStep, ContinueStep
  <2> QED
    BY <2>1, <2>2, LoadFrame
<1>13. CASE upload_room_icon(s)
  <2>1. PICK r \in {row, NoRow} :
          Load(s, "upload_room_icon", r) /\ (Return(s) \/ Continue(s, "reload"))
    BY <1>13 DEF upload_room_icon
  <2>2. JobsOK'
    BY <2>1, <1>s, ReturnStep, ContinueStep
  <2> QED
    BY <2>1, <2>2, LoadFrame
<1>14. CASE set_room_icon(s)
  <2>1. PICK r \in {row, NoRow} :
          /\ Select(r)
          /\ Hold(s, "store", None, r, IF r.kind = "none" THEN DefaultRoom ELSE r)
          /\ UNCHANGED <<row, online, user_id, inRoom, budget, overwrote, sentence, slipped>>
    BY <1>14 DEF set_room_icon
  <2>2. RecordOK(IF r.kind = "none" THEN DefaultRoom ELSE r)
    BY <1>r, DefaultRoomOK
  <2>3. JobsOK'
    BY <2>1, <2>2, <1>r, <1>s, HoldStep
  <2> QED
    BY <2>1, <2>3, SelectFrame
<1>15. CASE delete_room_op(s)
  <2>1. PICK r \in {row, NoRow} :
          LET allowed == r.owner = user_id[s] \/ user_id[s] \in ServerAdmins
          IN  /\ Load(s, "delete_room_op", r)
              /\ \/ Refuse(s, r, allowed)
                 \/ Grant(s, r, allowed, "delete", None, r)
    BY <1>15 DEF delete_room_op
  <2>2. JobsOK'
    BY <2>1, <1>r, <1>s, CheckedStep
  <2> QED
    BY <2>1, <2>2, LoadFrame
<1> QED
  BY <1>1, <1>2, <1>3, <1>4, <1>5, <1>6, <1>7, <1>8, <1>9, <1>10, <1>11, <1>12,
     <1>13, <1>14, <1>15 DEF Moderation, Check

\* The steps that write, synchronise or delete the stored record.
LEMMA PersistencePreserves ==
    ASSUME RowOK, JobsOK, RestOK, NEW s \in Sessions, Persistence(s)
    PROVE  RowOK' /\ JobsOK' /\ RestOK'
<1>j. job[s] \in Jobs /\ RecordOK(job[s].snap)
  BY DEF JobsOK
<1>t. job[s].target \in Users \cup {None} /\ job[s].names \subseteq Users
      /\ job[s].snap \in Rooms /\ job[s].op \in Operations
  BY <1>j DEF Jobs
<1>s. {"store", "remove", "names", "syncload", "syncstore", "evict", "idle"} \subseteq Stages
  BY DEF Stages
<1>w. ASSUME WriteFails PROVE faults' \in 0..MaxDbFaults
  BY <1>w DEF WriteFails, MayFail, RestOK
<1>1. CASE Store(s)
  <2>1. CASE Upsert(s)
             /\ (Return(s) \/ Continue(s, AfterStore(job[s].op)))
             /\ (sentence' = CASE job[s].op = "ban_member" -> sentence \cup {job[s].target}
                               [] job[s].op = "unban_member" -> sentence \ {job[s].target}
                               [] OTHER -> sentence)
             /\ faults' = faults /\ UNCHANGED <<online, user_id, inRoom, budget, slipped>>
    <3>1. RowOK'
      BY <2>1, <1>j DEF Upsert, RowOK
    <3>2. AfterStore(job[s].op) \in Stages
      BY <1>s DEF AfterStore
    <3>3. JobsOK'
      BY <2>1, <3>2, ReturnStep, ContinueStep
    <3>5. sentence' \subseteq Users \cup {None}
      BY <2>1, <1>t DEF RestOK
    <3>6. overwrote' \in BOOLEAN
      BY <2>1, Zenon DEF Upsert, RestOK
    <3> QED
      BY <2>1, <3>1, <3>3, <3>5, <3>6 DEF RestOK
  <2>2. CASE WriteFails /\ Return(s) /\ UNCHANGED <<row, overwrote, sentence, online, user_id, inRoom, budget, slipped>>
    BY <2>2, <1>w, ReturnStep DEF RestOK, RowOK
  <2> QED
    BY <1>1, <2>1, <2>2 DEF Store
<1>2. CASE remove_user_from_room(s)
  <2>1. JobsOK'
    BY <1>2, <1>s, ContinueStep DEF remove_user_from_room
  <2> QED
    BY <1>2, <2>1 DEF remove_user_from_room, RowOK, RestOK
<1>3. CASE SyncNames(s)
  <2> DEFINE j == [job[s] EXCEPT !.names = room_usernames, !.stage = "syncload"]
  <2>1. room_usernames \subseteq Users
    BY DEF room_usernames, RestOK
  <2>2. j \in Jobs /\ j.snap = job[s].snap
    BY <2>1, <1>j, <1>s DEF Jobs
  <2>3. job' = [job EXCEPT ![s] = j]
    BY <1>3 DEF SyncNames
  <2>4. RecordOK(j.snap)
    BY <2>2, <1>j
  <2>5. JobsOK'
    <3> HIDE DEF j
    <3> QED
      BY <2>2, <2>3, <2>4, JobStep
  <2> QED
    BY <1>3, <2>5 DEF SyncNames, RowOK, RestOK
<1>4. CASE SyncLoad(s)
  <2>1. PICK r \in {row, NoRow} :
          /\ Select(r)
          /\ Hold(s, "syncstore", job[s].target, r,
                  [(IF r.kind = "none" THEN DefaultRoom ELSE r) EXCEPT !.members = job[s].names])
    BY <1>4 DEF SyncLoad
  <2> DEFINE d == IF r.kind = "none" THEN DefaultRoom ELSE r
             c == [d EXCEPT !.members = job[s].names]
  <2>2. RecordOK(r) /\ r \in Rooms
    BY ReadOK DEF RowOK
  <2>3. RecordOK(d)
    BY <2>2, DefaultRoomOK
  <2>4. RecordOK(c)
    <3> HIDE DEF d
    <3>1. c \in Rooms /\ c.kind = d.kind /\ c.owner = d.owner /\ c.roles = d.roles
      BY <2>3, <1>t DEF RecordOK, Rooms
    <3> QED
      BY <2>3, <3>1, FieldChangeOK
  <2>5. Hold(s, "syncstore", job[s].target, r, c)
    BY <2>1
  <2>6. JobsOK'
    <3> HIDE DEF c
    <3> QED
      BY <2>2, <2>4, <2>5, <1>t, <1>s, HoldStep
  <2> QED
    BY <1>4, <2>1, <2>6, SelectFrame DEF SyncLoad
<1>5. CASE SyncStore(s)
  <2>1. CASE /\ Upsert(s)
             /\ Hold(s, "store", None, job[s].snap, job[s].snap) \/ Return(s)
             /\ faults' = faults /\ UNCHANGED <<online, user_id, inRoom, budget, sentence, slipped>>
    <3>1. RowOK'
      BY <2>1, <1>j DEF Upsert, RowOK
    <3>2. JobsOK'
      BY <2>1, <1>j, <1>t, <1>s, ReturnStep, HoldStep
    <3>3. overwrote' \in BOOLEAN
      BY <2>1, Zenon DEF Upsert, RestOK
    <3> QED
      BY <2>1, <3>1, <3>2, <3>3 DEF RestOK
  <2>2. CASE WriteFails /\ Return(s) /\ UNCHANGED <<row, overwrote, sentence, online, user_id, inRoom, budget, slipped>>
    BY <2>2, <1>w, ReturnStep DEF RestOK, RowOK
  <2> QED
    BY <1>5, <2>1, <2>2 DEF SyncStore
<1>6. CASE delete_room(s)
  <2>1. CASE row' = NoRow /\ sentence' = {} /\ Continue(s, "evict") /\ faults' = faults
             /\ UNCHANGED <<online, user_id, inRoom, budget, overwrote, slipped>>
    <3>1. JobsOK'
      BY <2>1, <1>s, ContinueStep
    <3>2. RowOK'
      BY <2>1, DefaultRoomOK DEF RowOK
    <3> QED
      BY <2>1, <3>1, <3>2 DEF RestOK
  <2>2. CASE WriteFails /\ Return(s) /\ UNCHANGED <<row, overwrote, sentence, online, user_id, inRoom, budget, slipped>>
    BY <2>2, <1>w, ReturnStep DEF RestOK, RowOK
  <2> QED
    BY <1>6, <2>1, <2>2 DEF delete_room
<1>7. CASE EvictAll(s)
  <2>1. JobsOK'
    BY <1>7, ReturnStep DEF EvictAll
  <2> QED
    BY <1>7, <2>1 DEF EvictAll, RowOK, RestOK
<1> QED
  BY <1>1, <1>2, <1>3, <1>4, <1>5, <1>6, <1>7 DEF Persistence

\* Creating, joining, leaving and disconnecting.
LEMMA MembershipPreserves ==
    ASSUME RowOK, JobsOK, RestOK, NEW s \in Sessions, Membership(s)
    PROVE  RowOK' /\ JobsOK' /\ RestOK'
<1>u. user_id[s] \in Users
  BY DEF RestOK
<1>j. job[s] \in Jobs /\ RecordOK(job[s].snap)
  BY DEF JobsOK
<1>s. /\ {"load", "store", "insert", "banload", "unjoin", "names", "idle"} \subseteq Stages
      /\ {"create_room", "join_game", "leave_game", "disconnect"} \subseteq Operations
  BY DEF Stages, Operations
<1>w. ASSUME WriteFails PROVE faults' \in 0..MaxDbFaults
  BY <1>w DEF WriteFails, MayFail, RestOK
<1>b. ASSUME NEW op, NEW stage, Begin(s, op, stage)
      PROVE  /\ RowOK' /\ budget' \in 0..MaxRequests /\ faults' = faults /\ s \in online
             /\ overwrote' = overwrote /\ sentence' = sentence /\ user_id' = user_id
  BY <1>b DEF Begin, RowOK, RestOK
<1>1. CASE create_room(s)
  <2>1. JobsOK'
    BY <1>1, <1>s, BeginStep DEF create_room
  <2> QED
    BY <1>1, <1>b, <2>1 DEF create_room, RestOK
<1>2. CASE CreateCheck(s)
  <2>1. PICK r \in {row, NoRow}, perms \in SUBSET Permissions :
          /\ Load(s, "create_room", r)
          /\ \/ Return(s)
             \/ Hold(s, "insert", None, FreshRoom(user_id[s], perms), FreshRoom(user_id[s], perms))
    BY <1>2 DEF CreateCheck
  <2> DEFINE f == FreshRoom(user_id[s], perms)
  <2>2. RecordOK(f) /\ f \in Rooms
    BY <1>u, DefaultRoomOK DEF RecordOK
  <2>3. JobsOK'
    <3>1. Return(s) \/ Hold(s, "insert", None, f, f)
      BY <2>1
    <3> HIDE DEF f
    <3> QED
      BY <3>1, <2>2, <1>s, ReturnStep, HoldStep
  <2> QED
    BY <2>1, <2>3, LoadFrame
<1>3. CASE create_room_if_absent(s)
  <2>1. JobsOK'
    BY <1>3, <1>s, ReturnStep, ContinueStep DEF create_room_if_absent
  <2>2. RowOK'
    BY <1>3, <1>j DEF create_room_if_absent, RowOK
  <2>3. faults' \in 0..MaxDbFaults /\ sentence' \subseteq Users \cup {None}
    BY <1>3, <1>w DEF create_room_if_absent, RestOK
  <2> QED
    BY <1>3, <2>1, <2>2, <2>3 DEF create_room_if_absent, RestOK
<1>4. CASE join_game(s)
  <2>1. JobsOK'
    BY <1>4, <1>s, BeginStep DEF join_game
  <2> QED
    BY <1>4, <1>b, <2>1 DEF join_game, RestOK
<1>5. CASE JoinBanCheck(s)
  <2>1. PICK r \in {row, NoRow} :
          Select(r) /\ (Continue(s, "unjoin") \/ Continue(s, "names"))
    BY <1>5 DEF JoinBanCheck
  <2>2. JobsOK'
    BY <2>1, <1>s, ContinueStep
  <2> QED
    BY <1>5, <2>1, <2>2, SelectFrame DEF JoinBanCheck
<1>6. CASE JoinUndo(s)
  <2>1. JobsOK'
    BY <1>6, ReturnStep DEF JoinUndo
  <2> QED
    BY <1>6, <2>1 DEF JoinUndo, RowOK, RestOK
<1>7. CASE leave_game(s)
  <2>1. JobsOK'
    BY <1>7, <1>s, BeginStep DEF leave_game
  <2> QED
    BY <1>7, <1>b, <2>1 DEF leave_game, RestOK
<1>8. CASE disconnect_player(s)
  <2>1. PICK stage \in {"names", "idle"} : Begin(s, "disconnect", stage)
    BY <1>8 DEF disconnect_player
  <2>2. JobsOK'
    BY <2>1, <1>s, BeginStep
  <2> QED
    BY <1>8, <1>b, <2>1, <2>2 DEF disconnect_player, RestOK
<1>9. CASE identify_player(s)
  <2>1. PICK u \in Users : user_id' = [user_id EXCEPT ![s] = u]
    BY <1>9 DEF identify_player
  <2>2. user_id' \in [Sessions -> Users] /\ slipped' \subseteq Sessions
    BY <1>9, <2>1 DEF identify_player, RestOK
  <2> QED
    BY <1>9, <2>2 DEF identify_player, RowOK, JobsOK, RestOK
<1> QED
  BY <1>1, <1>2, <1>3, <1>4, <1>5, <1>6, <1>7, <1>8, <1>9 DEF Membership

-----------------------------------------------------------------------------
\* The room the behaviours start from satisfies the inductive invariant.
LEMMA InitEstablishes == Init => RecordInv
<1> SUFFICES ASSUME Init PROVE RecordInv
  OBVIOUS
<1>1. RowOK
  <2> DEFINE f == FreshRoom(Founder, Permissions)
  <2>1. RecordOK(f) /\ f.kind = "community" /\ f.owner = Founder
    BY DefaultRoomOK, StaffAssumption DEF FreshRoom, DefaultRoom
  <2>2. {user_id[s] : s \in inRoom} \subseteq Users
    BY DEF Init
  <2>3. /\ row \in Rooms /\ row.kind = "community" /\ row.owner = Founder /\ row.roles = Staff
    <3> HIDE DEF f
    <3>1. row = [f EXCEPT !.roles = Staff, !.members = {user_id[s] : s \in inRoom}]
      BY DEF Init, f
    <3> QED
      BY <3>1, <2>1, <2>2, StaffAssumption DEF RecordOK, Rooms
  <2> QED
    BY <2>3, StaffAssumption DEF RowOK, RecordOK, SoleAdministrator, WithinLimits
<1>2. JobsOK
  BY IdleJobOK DEF Init, JobsOK
<1>3. RestOK
  <2>1. budget \in 0..MaxRequests /\ faults \in 0..MaxDbFaults
    BY DEF Init
  <2>2. overwrote \in BOOLEAN
    BY Zenon DEF Init
  <2>3. /\ online \subseteq Sessions /\ inRoom \subseteq online
        /\ sentence \subseteq Users \cup {None} /\ slipped \subseteq Sessions
    BY Zenon DEF Init
  <2>4. user_id \in [Sessions -> Users]
    BY DEF Init
  <2> QED
    BY <2>1, <2>2, <2>3, <2>4 DEF RestOK
<1> QED
  BY <1>1, <1>2, <1>3, InvParts

\* Every step preserves the inductive invariant.
LEMMA NextPreserves == RecordInv /\ [Next]_vars => RecordInv'
<1> SUFFICES ASSUME RowOK, JobsOK, RestOK, [Next]_vars
             PROVE  RowOK' /\ JobsOK' /\ RestOK'
  BY InvParts DEF RecordInv, RowOK, JobsOK, RestOK, TypeOK, RecordOK
<1>1. ASSUME NEW s \in Sessions, Moderation(s) \/ Persistence(s) \/ Membership(s)
      PROVE  RowOK' /\ JobsOK' /\ RestOK'
  BY <1>1, ModerationPreserves, PersistencePreserves, MembershipPreserves
<1>2. CASE UNCHANGED vars
  BY <1>2 DEF vars, RowOK, JobsOK, RestOK
<1> QED
  BY <1>1, <1>2 DEF Next

\* Type correctness of the specification.
THEOREM TypeCorrect == Spec => []TypeOK
<1>1. RecordInv => TypeOK
  BY DEF RecordInv
<1> QED
  BY <1>1, InitEstablishes, NextPreserves, PTL DEF Spec

\* The stored record of a community room always names one owner, who is its
\* only administrator, whatever the handlers' interleaving and whichever SQL
\* statements fail (transfer_ownership, set_member_role, create_room,
\* sync_room_record, delete_room_op).
THEOREM OwnershipSound == Spec => []OwnerIsSoleAdministrator
<1>1. RecordInv => OwnerIsSoleAdministrator
  BY DEF RecordInv, RecordOK, OwnerIsSoleAdministrator
<1> QED
  BY <1>1, InitEstablishes, NextPreserves, PTL DEF Spec

\* The stored record never has more moderators or sub-administrators than the
\* limits that set_member_role and transfer_ownership check on their copies.
THEOREM LimitsRespected == Spec => []StaffWithinLimits
<1>1. RecordInv => StaffWithinLimits
  BY DEF RecordInv, RecordOK, StaffWithinLimits
<1> QED
  BY <1>1, InitEstablishes, NextPreserves, PTL DEF Spec
-----------------------------------------------------------------------------
(***************************************************************************)
(* Bans and ownership.  While no UPSERT overwrites a concurrent one, a     *)
(* handler writes back a copy of the row that is still stored; what it     *)
(* changed on it is enough to know what happens to the row.                *)
(***************************************************************************)
\* What the handler of a session of u changed on its copy: only a ban bans,
\* and only its target; only the owner's transfer changes the owner.
Derives(j, u) ==
    /\ j.stage \in {"store", "syncstore"} =>
          /\ j.snap.kind = "community" => j.base.kind = "community"
          /\ j.snap.banned \subseteq
                j.base.banned \cup (IF j.op = "ban_member" /\ j.stage = "store" THEN {j.target} ELSE {})
          /\ \/ j.snap.kind # "community" \/ j.snap.owner = j.base.owner
             \/ /\ j.op = "transfer_ownership" /\ j.stage = "store"
                /\ j.base.owner = u /\ j.snap.owner = j.target
                /\ j.snap.roles[u] = "SubAdministrator"
    /\ j.stage = "insert" => j.snap = j.base /\ j.snap.banned = {}

HeldOK == \A s \in Sessions : Derives(job[s], user_id[s])

\* The same of the handlers after a step, for the accounts before it.
HeldNext == \A s \in Sessions : Derives(job'[s], user_id[s])

\* The step of one session, seen by the copies.
LEMMA OneJob ==
    ASSUME JobsOK, HeldOK, NEW s \in Sessions, NEW j, job' = [job EXCEPT ![s] = j],
           Derives(j, user_id[s])
    PROVE  HeldNext
<1>1. job'[s] = j /\ \A x \in Sessions \ {s} : job'[x] = job[x]
  BY DEF JobsOK
<1> QED
  BY <1>1 DEF HeldOK, HeldNext

\* A handler that returns, or that goes on to a statement that writes no copy.
LEMMA GoesOn ==
    ASSUME JobsOK, HeldOK, NEW s \in Sessions, NEW stage, stage \notin {"store", "syncstore", "insert"},
           Return(s) \/ Continue(s, stage) \/ \E op : Begin(s, op, stage)
    PROVE  HeldNext
<1>1. CASE Return(s)
  <2>1. Derives(IdleJob, user_id[s])
    BY DEF Derives, IdleJob
  <2> QED
    BY <1>1, <2>1, OneJob DEF Return
<1>2. CASE Continue(s, stage)
  <2> DEFINE j == [job[s] EXCEPT !.stage = stage]
  <2>1. j.stage = stage
    BY DEF JobsOK, Jobs
  <2>2. Derives(j, user_id[s])
    BY <2>1 DEF Derives
  <2>3. job' = [job EXCEPT ![s] = j]
    BY <1>2 DEF Continue
  <2> HIDE DEF j
  <2> QED
    BY <2>2, <2>3, OneJob
<1>3. ASSUME NEW op, Begin(s, op, stage) PROVE HeldNext
  <2> DEFINE j == [IdleJob EXCEPT !.op = op, !.stage = stage]
  <2>1. j.stage = stage
    BY DEF IdleJob
  <2>2. Derives(j, user_id[s])
    BY <2>1 DEF Derives
  <2>3. job' = [job EXCEPT ![s] = j]
    BY <1>3 DEF Begin
  <2> HIDE DEF j
  <2> QED
    BY <2>2, <2>3, OneJob
<1> QED
  BY <1>1, <1>2, <1>3

\* A handler that takes up a changed copy.
LEMMA TakesUp ==
    ASSUME JobsOK, HeldOK, NEW s \in Sessions, NEW stage, NEW t, NEW r, NEW changed,
           Hold(s, stage, t, r, changed),
           \A j : /\ j.op = job[s].op /\ j.stage = stage /\ j.target = t
                  /\ j.snap = changed /\ j.base = r
                  => Derives(j, user_id[s])
    PROVE  HeldNext
<1> DEFINE j == [job[s] EXCEPT !.stage = stage, !.target = t, !.snap = changed, !.base = r]
<1>1. /\ j.op = job[s].op /\ j.stage = stage /\ j.target = t
      /\ j.snap = changed /\ j.base = r
  BY DEF JobsOK, Jobs
<1>2. job' = [job EXCEPT ![s] = j]
  BY DEF Hold
<1> HIDE DEF j
<1>3. Derives(j, user_id[s])
  BY <1>1
<1> QED
  BY <1>2, <1>3, OneJob

\* A handler that changes neither owner nor kind, and bans nobody.
LEMMA TakesUpPlain ==
    ASSUME JobsOK, HeldOK, NEW s \in Sessions, NEW stage, stage # "insert", NEW t, NEW r, NEW changed,
           Hold(s, stage, t, r, changed),
           changed.kind = "community" => r.kind = "community" /\ changed.owner = r.owner,
           changed.banned \subseteq r.banned
    PROVE  HeldNext
<1>1. ASSUME NEW j, j.op = job[s].op, j.stage = stage, j.target = t,
             j.snap = changed, j.base = r
      PROVE  Derives(j, user_id[s])
  BY <1>1 DEF Derives
<1> QED
  BY <1>1, TakesUp

\* The shape of every role-checked handler, with a copy that stays plain.
LEMMA ChecksPlain ==
    ASSUME JobsOK, HeldOK, NEW s \in Sessions, NEW stage, stage # "insert", NEW t, NEW r, NEW allowed,
           NEW changed, Refuse(s, r, allowed) \/ Grant(s, r, allowed, stage, t, changed),
           changed.kind = r.kind, changed.owner = r.owner, changed.banned \subseteq r.banned
    PROVE  HeldNext
<1>1. CASE Refuse(s, r, allowed)
  BY <1>1, GoesOn DEF Refuse
<1>2. CASE Hold(s, stage, t, r, changed)
  BY <1>2, TakesUpPlain
<1> QED
  BY <1>1, <1>2 DEF Grant

LEMMA ModerationHolds ==
    ASSUME RowOK, JobsOK, RestOK, HeldOK, NEW s \in Sessions, Moderation(s)
    PROVE  HeldNext
<1>r. \A r \in {row, NoRow} : r \in Rooms
  BY ReadOK DEF RowOK
<1>1. CASE Request(s)
  BY <1>1, GoesOn DEF Request
<1>2. CASE set_member_role(s)
  <2>1. PICK r \in {row, NoRow}, t \in Users, role \in Roles : \E allowed :
          LET changed == [r EXCEPT !.roles = [@ EXCEPT ![t] = role]]
          IN  Refuse(s, r, allowed) \/ Grant(s, r, allowed, "store", t, changed)
    BY <1>2 DEF set_member_role
  <2> DEFINE changed == [r EXCEPT !.roles = [@ EXCEPT ![t] = role]]
  <2>2. changed.kind = r.kind /\ changed.owner = r.owner /\ changed.banned = r.banned
    BY <1>r DEF Rooms
  <2> HIDE DEF changed
  <2> QED
    BY <2>1, <2>2, ChecksPlain DEF changed
<1>3. CASE ban_member(s)
  <2>1. PICK r \in {row, NoRow}, t \in Users : \E allowed :
          /\ At(s, "ban_member", "load")
          /\ \/ Refuse(s, r, allowed)
             \/ Hold(s, "store", t, r, [r EXCEPT !.banned = @ \cup {t}])
    BY <1>3 DEF ban_member, Load, Grant
  <2>2. CASE \E allowed : Refuse(s, r, allowed)
    BY <2>2, GoesOn DEF Refuse
  <2>3. CASE Hold(s, "store", t, r, [r EXCEPT !.banned = @ \cup {t}])
    <3> DEFINE changed == [r EXCEPT !.banned = @ \cup {t}]
    <3>1. /\ changed.kind = r.kind /\ changed.owner = r.owner
          /\ changed.banned = r.banned \cup {t} /\ job[s].op = "ban_member"
      BY <1>r, <2>1 DEF Rooms, At
    <3> HIDE DEF changed
    <3>2. ASSUME NEW j, j.op = job[s].op, j.stage = "store", j.target = t,
                 j.snap = changed, j.base = r
          PROVE  Derives(j, user_id[s])
      BY <3>1, <3>2 DEF Derives
    <3> QED
      BY <2>3, <3>2, TakesUp DEF changed
  <2> QED
    BY <2>1, <2>2, <2>3
<1>4. CASE unban_member(s)
  <2>1. PICK r \in {row, NoRow}, t \in Users : \E allowed :
          LET changed == [r EXCEPT !.banned = @ \ {t}]
          IN  Refuse(s, r, allowed) \/ Grant(s, r, allowed, "store", t, changed)
    BY <1>4 DEF unban_member
  <2> DEFINE changed == [r EXCEPT !.banned = @ \ {t}]
  <2>2. changed.kind = r.kind /\ changed.owner = r.owner /\ changed.banned \subseteq r.banned
    BY <1>r DEF Rooms
  <2> HIDE DEF changed
  <2> QED
    BY <2>1, <2>2, ChecksPlain DEF changed
<1>5. CASE kick_member(s)
  <2>1. PICK r \in {row, NoRow}, t \in Users : \E allowed :
          Refuse(s, r, allowed) \/ Grant(s, r, allowed, "remove", t, r)
    BY <1>5 DEF kick_member
  <2> QED
    BY <2>1, ChecksPlain
<1>6. CASE timeout_member(s)
  <2>1. PICK r \in {row, NoRow}, t \in Users : \E allowed :
          LET changed == [r EXCEPT !.timeouts = @ \cup {t}]
          IN  Refuse(s, r, allowed) \/ Grant(s, r, allowed, "store", t, changed)
    BY <1>6 DEF timeout_member
  <2> DEFINE changed == [r EXCEPT !.timeouts = @ \cup {t}]
  <2>2. changed.kind = r.kind /\ changed.owner = r.owner /\ changed.banned = r.banned
    BY <1>r DEF Rooms
  <2> HIDE DEF changed
  <2> QED
    BY <2>1, <2>2, ChecksPlain DEF changed
<1>13. CASE unmute_member(s)
  <2>1. PICK r \in {row, NoRow}, t \in Users : \E allowed :
          LET changed == [r EXCEPT !.timeouts = @ \ {t}]
          IN  Refuse(s, r, allowed) \/ Grant(s, r, allowed, "store", t, changed)
    BY <1>13 DEF unmute_member
  <2> DEFINE changed == [r EXCEPT !.timeouts = @ \ {t}]
  <2>2. changed.kind = r.kind /\ changed.owner = r.owner /\ changed.banned = r.banned
    BY <1>r DEF Rooms
  <2> HIDE DEF changed
  <2> QED
    BY <2>1, <2>2, ChecksPlain DEF changed
<1>7. CASE transfer_ownership(s)
  <2>1. PICK r \in {row, NoRow}, t \in Users :
          /\ At(s, "transfer_ownership", "load")
          /\ \/ Return(s)
             \/ /\ TransferAllowed(r, user_id[s], t)
                /\ Hold(s, "store", t, r, Transferred(r, user_id[s], t))
    BY <1>7 DEF transfer_ownership, Load, Grant, Refuse
  <2>2. CASE Return(s)
    BY <2>2, GoesOn
  <2>3. CASE /\ TransferAllowed(r, user_id[s], t)
             /\ Hold(s, "store", t, r, Transferred(r, user_id[s], t))
    <3> DEFINE changed == Transferred(r, user_id[s], t)
    <3>1. r \in Rooms /\ r.owner = user_id[s] /\ user_id[s] \in Users /\ r.roles \in [Users -> Roles]
      BY <1>r, <2>3 DEF TransferAllowed, Rooms, RestOK
    <3>2. /\ changed.kind = r.kind /\ changed.owner = t /\ changed.banned = r.banned
          /\ changed.roles[user_id[s]] = "SubAdministrator"
      BY <3>1 DEF Transferred, Rooms
    <3>3. job[s].op = "transfer_ownership"
      BY <2>1 DEF At
    <3> HIDE DEF changed
    <3>4. ASSUME NEW j, j.op = job[s].op, j.stage = "store", j.target = t,
                 j.snap = changed, j.base = r
          PROVE  Derives(j, user_id[s])
      BY <3>1, <3>2, <3>3, <3>4 DEF Derives
    <3> QED
      BY <2>3, <3>4, TakesUp DEF changed
  <2> QED
    BY <2>1, <2>2, <2>3
<1>8. CASE set_flag(s)
  <2>1. PICK r \in {row, NoRow}, f \in Flags, on \in BOOLEAN : \E allowed :
          LET changed == [r EXCEPT !.flags = IF on THEN @ \cup {f} ELSE @ \ {f}]
          IN  Refuse(s, r, allowed) \/ Grant(s, r, allowed, "store", None, changed)
    BY <1>8 DEF set_flag
  <2> DEFINE changed == [r EXCEPT !.flags = IF on THEN @ \cup {f} ELSE @ \ {f}]
  <2>2. changed.kind = r.kind /\ changed.owner = r.owner /\ changed.banned = r.banned
    BY <1>r DEF Rooms
  <2> HIDE DEF changed
  <2> QED
    BY <2>1, <2>2, ChecksPlain DEF changed
<1>9. CASE set_moderator_permissions(s)
  <2>1. PICK r \in {row, NoRow}, perms \in SUBSET Permissions : \E allowed :
          LET changed == [r EXCEPT !.mod_permissions = perms]
          IN  Refuse(s, r, allowed) \/ Grant(s, r, allowed, "store", None, changed)
    BY <1>9 DEF set_moderator_permissions
  <2> DEFINE changed == [r EXCEPT !.mod_permissions = perms]
  <2>2. changed.kind = r.kind /\ changed.owner = r.owner /\ changed.banned = r.banned
    BY <1>r DEF Rooms
  <2> HIDE DEF changed
  <2> QED
    BY <2>1, <2>2, ChecksPlain DEF changed
<1>10. CASE update_room_description(s) \/ delete_room_op(s)
  <2>1. CASE update_room_description(s)
    <3>1. PICK r \in {row, NoRow} : \E allowed :
            Refuse(s, r, allowed) \/ Grant(s, r, allowed, "store", None, r)
      BY <2>1 DEF update_room_description
    <3> QED
      BY <3>1, ChecksPlain
  <2>2. CASE delete_room_op(s)
    <3>1. PICK r \in {row, NoRow} : \E allowed :
            Refuse(s, r, allowed) \/ Grant(s, r, allowed, "delete", None, r)
      BY <2>2 DEF delete_room_op
    <3> QED
      BY <3>1, ChecksPlain
  <2> QED
    BY <1>10, <2>1, <2>2
<1>11. CASE update_room_title(s) \/ upload_room_icon(s)
  BY <1>11, GoesOn DEF update_room_title, upload_room_icon
<1>12. CASE set_room_icon(s)
  <2>1. PICK r \in {row, NoRow} : Hold(s, "store", None, r, IF r.kind = "none" THEN DefaultRoom ELSE r)
    BY <1>12 DEF set_room_icon
  <2> DEFINE changed == IF r.kind = "none" THEN DefaultRoom ELSE r
  <2>2. /\ changed.kind = "community" => r.kind = "community" /\ changed.owner = r.owner
        /\ changed.banned \subseteq r.banned
    BY DEF DefaultRoom
  <2> HIDE DEF changed
  <2> QED
    BY <2>1, <2>2, TakesUpPlain DEF changed
<1> QED
  BY <1>1, <1>2, <1>3, <1>4, <1>5, <1>6, <1>7, <1>8, <1>9, <1>10, <1>11, <1>12,
     <1>13 DEF Moderation, Check

LEMMA PersistenceHolds ==
    ASSUME RowOK, JobsOK, HeldOK, NEW s \in Sessions, Persistence(s)
    PROVE  HeldNext
<1>1. CASE Return(s)
  BY <1>1, GoesOn
<1>2. CASE Store(s) \/ remove_user_from_room(s) \/ delete_room(s) \/ EvictAll(s)
  <2>1. CASE Store(s)
    <3>1. Return(s) \/ Continue(s, AfterStore(job[s].op))
      BY <2>1 DEF Store
    <3>2. AfterStore(job[s].op) \notin {"store", "syncstore", "insert"}
      BY DEF AfterStore
    <3> QED
      BY <3>1, <3>2, GoesOn
  <2>2. CASE remove_user_from_room(s) \/ delete_room(s) \/ EvictAll(s)
    <3>1. Return(s) \/ Continue(s, "names") \/ Continue(s, "evict")
      BY <2>2 DEF remove_user_from_room, delete_room, EvictAll
    <3> QED
      BY <3>1, GoesOn
  <2> QED
    BY <1>2, <2>1, <2>2
<1>3. CASE SyncNames(s)
  <2> DEFINE j == [job[s] EXCEPT !.names = room_usernames, !.stage = "syncload"]
  <2>1. j.stage = "syncload"
    BY DEF JobsOK, Jobs
  <2>2. Derives(j, user_id[s])
    BY <2>1 DEF Derives
  <2>3. job' = [job EXCEPT ![s] = j]
    BY <1>3 DEF SyncNames
  <2> HIDE DEF j
  <2> QED
    BY <2>2, <2>3, OneJob
<1>4. CASE SyncLoad(s)
  <2>1. PICK r \in {row, NoRow} :
          Hold(s, "syncstore", job[s].target, r,
               [(IF r.kind = "none" THEN DefaultRoom ELSE r) EXCEPT !.members = job[s].names])
    BY <1>4 DEF SyncLoad
  <2> DEFINE d == IF r.kind = "none" THEN DefaultRoom ELSE r
             changed == [d EXCEPT !.members = job[s].names]
  <2>2. d \in Rooms
    BY ReadOK, DefaultRoomOK DEF RowOK, RecordOK
  <2>3. changed.kind = d.kind /\ changed.owner = d.owner /\ changed.banned = d.banned
    BY <2>2 DEF Rooms
  <2>4. /\ changed.kind = "community" => r.kind = "community" /\ changed.owner = r.owner
        /\ changed.banned \subseteq r.banned
    BY <2>3 DEF DefaultRoom
  <2>5. Hold(s, "syncstore", job[s].target, r, changed)
    BY <2>1
  <2> HIDE DEF changed
  <2> QED
    BY <2>4, <2>5, TakesUpPlain
<1>5. CASE SyncStore(s)
  <2>1. Return(s) \/ Hold(s, "store", None, job[s].snap, job[s].snap)
    BY <1>5 DEF SyncStore
  <2> QED
    BY <1>1, <2>1, TakesUpPlain
<1> QED
  BY <1>2, <1>3, <1>4, <1>5 DEF Persistence

LEMMA MembershipHolds ==
    ASSUME RowOK, JobsOK, HeldOK, NEW s \in Sessions, Membership(s), ~identify_player(s)
    PROVE  HeldNext
<1>1. CASE CreateCheck(s)
  <2>1. PICK perms : \/ Return(s)
                     \/ Hold(s, "insert", None, FreshRoom(user_id[s], perms), FreshRoom(user_id[s], perms))
    BY <1>1 DEF CreateCheck
  <2> DEFINE f == FreshRoom(user_id[s], perms)
  <2>2. f.banned = {}
    BY DEF FreshRoom, DefaultRoom
  <2> HIDE DEF f
  <2>3. ASSUME NEW j, j.stage = "insert", j.snap = f, j.base = f PROVE Derives(j, user_id[s])
    BY <2>2, <2>3 DEF Derives
  <2> QED
    BY <2>1, <2>3, TakesUp, GoesOn DEF f
<1>2. CASE create_room_if_absent(s)
  <2>1. job[s].stage = "insert" /\ (Return(s) \/ Continue(s, "store"))
    BY <1>2 DEF create_room_if_absent
  <2>2. CASE Continue(s, "store")
    <3> DEFINE j == [job[s] EXCEPT !.stage = "store"]
    <3>1. j.stage = "store" /\ j.snap = job[s].snap /\ j.base = job[s].base
      BY DEF JobsOK, Jobs
    <3>2. job[s].snap = job[s].base
      BY <2>1 DEF HeldOK, Derives
    <3>3. job' = [job EXCEPT ![s] = j]
      BY <2>2 DEF Continue
    <3> HIDE DEF j
    <3>4. Derives(j, user_id[s])
      BY <3>1, <3>2 DEF Derives
    <3> QED
      BY <3>3, <3>4, OneJob
  <2> QED
    BY <2>1, <2>2, GoesOn
<1>3. CASE create_room(s) \/ join_game(s) \/ leave_game(s) \/ disconnect_player(s)
  BY <1>3, GoesOn DEF create_room, join_game, leave_game, disconnect_player
<1>4. CASE JoinBanCheck(s) \/ JoinUndo(s)
  <2>1. PICK stage \in {"unjoin", "names"} : Return(s) \/ Continue(s, stage)
    BY <1>4 DEF JoinBanCheck, JoinUndo
  <2> QED
    BY <2>1, GoesOn
<1> QED
  BY <1>1, <1>2, <1>3, <1>4 DEF Membership
-----------------------------------------------------------------------------
\* An UPSERT that overwrites nobody's writes back what its handler changed on
\* the row.
LEMMA Writes ==
    ASSUME JobsOK, HeldOK, RestOK, NEW s \in Sessions, Upsert(s), ~overwrote',
           job[s].stage \in {"store", "syncstore"}, row'.kind = "community"
    PROVE  /\ ~overwrote /\ row.kind = "community"
           /\ row'.banned \subseteq
                row.banned \cup (IF At(s, "ban_member", "store") THEN {job[s].target} ELSE {})
           /\ \/ row'.owner = row.owner
              \/ /\ At(s, "transfer_ownership", "store") /\ user_id[s] = row.owner
                 /\ row'.owner = job[s].target /\ row'.roles[row.owner] = "SubAdministrator"
<1>1. row = job[s].base /\ row' = job[s].snap /\ ~overwrote
  BY DEF Upsert
<1> QED
  BY <1>1 DEF HeldOK, Derives, At

\* A session of a banned user whose removal is still to come.
GoingOut(s) ==
    \/ job[s].stage \in {"banload", "unjoin"}
    \/ \E x \in Sessions : At(x, "ban_member", "remove") /\ job[x].target = user_id[s]

LEMMA StaysGoingOut ==
    ASSUME JobsOK, NEW s \in Sessions, NEW x \in Sessions, GoingOut(x),
           \A y \in Sessions \ {s} : job'[y] = job[y], user_id' = user_id,
           job[s].stage \notin {"banload", "unjoin", "remove"}
    PROVE  GoingOut(x)'
  BY DEF GoingOut, At

\* The steps that write no row, let nobody in and undo no join.
LEMMA BanStaysQuiet ==
    ASSUME JobsOK, BanExpels, NEW s \in Sessions, row' = row, inRoom' \subseteq inRoom,
           inRoom \subseteq Sessions,
           overwrote => overwrote', faults \in Nat, faults' \in {faults, faults + 1},
           \A y \in Sessions \ {s} : job'[y] = job[y],
           user_id' = user_id, slipped' = slipped,
           job[s].stage \notin {"banload", "unjoin", "remove"}
    PROVE  BanExpels'
<1> SUFFICES ASSUME ~overwrote', faults' = 0, row.kind = "community",
                    NEW x \in inRoom' \ slipped', user_id[x] \in row.banned
             PROVE  GoingOut(x)'
  BY DEF BanExpels, GoingOut, At
<1>1. ~overwrote /\ faults = 0 /\ x \in inRoom \ slipped /\ x \in Sessions
  OBVIOUS
<1>2. GoingOut(x)
  BY <1>1 DEF BanExpels, GoingOut
<1> QED
  BY <1>1, <1>2, StaysGoingOut

\* What every job change is: the job of one session.
LEMMA OthersKept ==
    ASSUME JobsOK, NEW s \in Sessions, NEW j, job' = [job EXCEPT ![s] = j]
    PROVE  \A y \in Sessions \ {s} : job'[y] = job[y]
  BY DEF JobsOK

LEMMA Kept ==
    ASSUME JobsOK, NEW s \in Sessions,
           \/ Return(s) \/ \E stage : Continue(s, stage)
           \/ \E stage, t, r, changed : Hold(s, stage, t, r, changed)
           \/ \E op, stage : Begin(s, op, stage)
    PROVE  \A y \in Sessions \ {s} : job'[y] = job[y]
  BY OthersKept DEF Return, Continue, Hold, Begin

LEMMA ModerationQuiet ==
    ASSUME NEW s \in Sessions, Moderation(s)
    PROVE  /\ row' = row /\ inRoom' = inRoom /\ overwrote' = overwrote
           /\ user_id' = user_id /\ slipped' = slipped
           /\ faults' \in {faults, faults + 1}
           /\ job[s].stage \in {"idle", "load", "reload"}
           /\ \/ Return(s) \/ \E stage : Continue(s, stage)
              \/ \E stage, t, r, changed : Hold(s, stage, t, r, changed)
              \/ \E op, stage : Begin(s, op, stage)
<1>1. CASE Request(s)
  BY <1>1 DEF Request, Begin
<1>2. ASSUME NEW op, NEW r, Load(s, op, r)
      PROVE  /\ row' = row /\ inRoom' = inRoom /\ overwrote' = overwrote
             /\ user_id' = user_id /\ slipped' = slipped
             /\ faults' \in {faults, faults + 1} /\ job[s].stage = "load"
  BY <1>2 DEF Load, Select, At
<1>3. CASE set_room_icon(s)
  BY <1>3 DEF set_room_icon, Select, At
<1>4. CASE set_member_role(s) \/ ban_member(s) \/ unban_member(s) \/ kick_member(s)
  BY <1>2, <1>4 DEF set_member_role, ban_member, unban_member, kick_member, Refuse, Grant
<1>5. CASE timeout_member(s) \/ unmute_member(s) \/ transfer_ownership(s)
  BY <1>2, <1>5 DEF timeout_member, unmute_member, transfer_ownership, Refuse, Grant
<1>6. CASE set_flag(s) \/ set_moderator_permissions(s) \/ update_room_description(s)
  BY <1>2, <1>6 DEF set_flag, set_moderator_permissions, update_room_description, Refuse, Grant
<1>7. CASE update_room_title(s) \/ upload_room_icon(s) \/ delete_room_op(s)
  BY <1>2, <1>7 DEF update_room_title, upload_room_icon, delete_room_op, Refuse, Grant
<1> QED
  BY <1>1, <1>3, <1>4, <1>5, <1>6, <1>7 DEF Moderation, Check

LEMMA BanByPersistence ==
    ASSUME JobsOK, HeldOK, RestOK, BanExpels, NEW s \in Sessions, Persistence(s)
    PROVE  BanExpels'
<1>1. /\ inRoom \subseteq Sessions /\ faults \in Nat
      /\ job[s] \in Jobs
  BY DEF RestOK, JobsOK
<1>2. ASSUME WriteFails PROVE BanExpels'
  <2>1. faults' # 0
    BY <1>1, <1>2 DEF WriteFails
  <2> QED
    BY <2>1 DEF BanExpels
<1>3. CASE Store(s) \/ SyncStore(s)
  <2> SUFFICES ASSUME ~overwrote', faults' = 0, row'.kind = "community",
                      NEW x \in inRoom' \ slipped', user_id'[x] \in row'.banned
               PROVE  GoingOut(x)'
    BY DEF BanExpels, GoingOut, At
  <2>1. CASE ~WriteFails
    <3>1. /\ Upsert(s) /\ inRoom' = inRoom /\ faults' = faults
          /\ user_id' = user_id /\ slipped' = slipped
          /\ job[s].stage \in {"store", "syncstore"}
          /\ \/ Return(s) \/ \E stage : Continue(s, stage)
             \/ \E stage, t, r, changed : Hold(s, stage, t, r, changed)
      BY <1>3, <2>1 DEF Store, SyncStore
    <3>2. \A y \in Sessions \ {s} : job'[y] = job[y]
      BY <3>1, Kept
    <3>3. x \in Sessions /\ ~overwrote /\ row.kind = "community"
      BY <1>1, <3>1, Writes
    <3>4. CASE user_id[x] \in row.banned
      <4>1. GoingOut(x)
        BY <3>1, <3>3, <3>4 DEF BanExpels, GoingOut
      <4> QED
        BY <3>1, <3>2, <3>3, <4>1, StaysGoingOut
    <3>5. CASE user_id[x] \notin row.banned
      <4>1. At(s, "ban_member", "store") /\ user_id[x] = job[s].target
        BY <3>1, <3>5, Writes
      <4>2. Continue(s, "remove")
        BY <1>3, <2>1, <4>1 DEF Store, SyncStore, At, AfterStore
      <4>3. /\ job'[s].op = "ban_member" /\ job'[s].stage = "remove"
            /\ job'[s].target = job[s].target
        BY <1>1, <4>1, <4>2 DEF Continue, JobsOK, Jobs, At
      <4> QED
        BY <3>1, <4>1, <4>3 DEF GoingOut, At
    <3> QED
      BY <3>4, <3>5
  <2> QED
    BY <1>1, <2>1 DEF WriteFails
<1>4. CASE remove_user_from_room(s)
  <2> SUFFICES ASSUME ~overwrote', faults' = 0, row'.kind = "community",
                      NEW x \in inRoom' \ slipped', user_id'[x] \in row'.banned
               PROVE  GoingOut(x)'
    BY DEF BanExpels, GoingOut, At
  <2>1. /\ row' = row /\ overwrote' = overwrote /\ faults' = faults
        /\ user_id' = user_id /\ slipped' = slipped
        /\ x \in inRoom \ slipped /\ user_id[x] # job[s].target /\ job[s].stage = "remove"
    BY <1>4 DEF remove_user_from_room
  <2>2. \A y \in Sessions \ {s} : job'[y] = job[y]
    BY <1>4, Kept DEF remove_user_from_room
  <2>3. GoingOut(x)
    BY <2>1 DEF BanExpels, GoingOut
  <2>4. x \in Sessions
    BY <1>1, <2>1
  <2> QED
    BY <2>1, <2>2, <2>3, <2>4 DEF GoingOut, At
<1>5. CASE SyncNames(s) \/ SyncLoad(s)
  <2>1. /\ row' = row /\ inRoom' = inRoom /\ overwrote' = overwrote
        /\ user_id' = user_id /\ slipped' = slipped
        /\ faults' \in {faults, faults + 1} /\ job[s].stage \in {"names", "syncload"}
    BY <1>5 DEF SyncNames, SyncLoad, Select
  <2>2. \A y \in Sessions \ {s} : job'[y] = job[y]
    <3>1. CASE SyncNames(s)
      <4>1. job' = [job EXCEPT ![s] = [job[s] EXCEPT !.names = room_usernames, !.stage = "syncload"]]
        BY <3>1 DEF SyncNames
      <4> QED
        BY <4>1, OthersKept
    <3>2. CASE SyncLoad(s)
      BY <3>2, Kept DEF SyncLoad
    <3> QED
      BY <1>5, <3>1, <3>2
  <2> QED
    BY <1>1, <2>1, <2>2, BanStaysQuiet
<1>6. CASE delete_room(s) /\ ~WriteFails
  <2>1. row'.kind = "none"
    BY <1>6 DEF delete_room, NoRow, DefaultRoom
  <2> QED
    BY <2>1 DEF BanExpels
<1>7. CASE EvictAll(s)
  BY <1>7 DEF EvictAll, BanExpels
<1> QED
  BY <1>2, <1>3, <1>4, <1>5, <1>6, <1>7 DEF Persistence, delete_room

LEMMA BanByMembership ==
    ASSUME JobsOK, HeldOK, RestOK, BanExpels, NEW s \in Sessions, Membership(s)
    PROVE  BanExpels'
<1>1. inRoom \subseteq Sessions /\ faults \in Nat /\ job[s] \in Jobs
  BY DEF RestOK, JobsOK
<1>2. ASSUME \/ Return(s) \/ \E stage : Continue(s, stage)
             \/ \E stage, t, r, changed : Hold(s, stage, t, r, changed)
             \/ \E op, stage : Begin(s, op, stage),
             row' = row, inRoom' \subseteq inRoom, overwrote' = overwrote,
             user_id' = user_id, slipped' = slipped,
             faults' \in {faults, faults + 1},
             job[s].stage \notin {"banload", "unjoin", "remove"}
      PROVE  BanExpels'
  BY <1>1, <1>2, Kept, BanStaysQuiet
<1>3. CASE create_room(s) \/ leave_game(s) \/ disconnect_player(s)
  BY <1>2, <1>3 DEF create_room, leave_game, disconnect_player, Begin
<1>4. CASE CreateCheck(s)
  BY <1>2, <1>4 DEF CreateCheck, Load, Select, At
<1>5. CASE create_room_if_absent(s)
  <2>1. CASE row' = row
    BY <1>2, <1>5, <2>1 DEF create_room_if_absent, WriteFails
  <2>2. CASE row' = job[s].snap
    <3>1. row'.banned = {}
      BY <1>5, <2>2 DEF create_room_if_absent, HeldOK, Derives
    <3> QED
      BY <3>1 DEF BanExpels
  <2> QED
    BY <1>5, <2>1, <2>2 DEF create_room_if_absent
<1>6. CASE join_game(s) \/ JoinBanCheck(s) \/ JoinUndo(s)
  <2> SUFFICES ASSUME ~overwrote', faults' = 0, row'.kind = "community",
                      NEW x \in inRoom' \ slipped', user_id'[x] \in row'.banned
               PROVE  GoingOut(x)'
    BY DEF BanExpels, GoingOut, At
  <2>1. /\ row' = row /\ overwrote' = overwrote /\ faults = 0
        /\ job[s].stage # "remove"
        /\ x \in Sessions /\ user_id' = user_id
        /\ x # s => x \in inRoom \ slipped
    BY <1>1, <1>6 DEF join_game, JoinBanCheck, JoinUndo, Begin, Select
  <2>2. \A y \in Sessions \ {s} : job'[y] = job[y]
    BY <1>6, Kept DEF join_game, JoinBanCheck, JoinUndo
  <2>3. CASE x # s
    <3>1. GoingOut(x)
      BY <2>1, <2>3 DEF BanExpels, GoingOut
    <3> QED
      BY <2>1, <2>2, <2>3, <3>1 DEF GoingOut, At
  <2>4. CASE x = s
    <3>1. ~JoinUndo(s)
      BY <2>4 DEF JoinUndo
    <3>2. CASE join_game(s)
      <4>1. job'[s].stage = "banload"
        BY <3>2 DEF join_game, Begin, IdleJob, JobsOK
      <4> QED
        BY <2>4, <4>1 DEF GoingOut
    <3>3. CASE JoinBanCheck(s)
      <4>1. PICK r \in {row, NoRow} :
               /\ Select(r)
               /\ IF r.kind = "community" /\ user_id[s] \in r.banned
                  THEN Continue(s, "unjoin") ELSE Continue(s, "names")
        BY <3>3 DEF JoinBanCheck
      <4>2. r = row
        BY <1>1, <4>1 DEF Select
      <4>3. Continue(s, "unjoin")
        BY <2>1, <2>4, <4>1, <4>2
      <4>4. job'[s].stage = "unjoin"
        BY <1>1, <4>3 DEF Continue, JobsOK, Jobs
      <4> QED
        BY <2>4, <4>4 DEF GoingOut
    <3> QED
      BY <1>6, <3>1, <3>2, <3>3
  <2> QED
    BY <2>3, <2>4
<1>7. CASE identify_player(s)
  <2> SUFFICES ASSUME ~overwrote', faults' = 0, row'.kind = "community",
                      NEW x \in inRoom' \ slipped', user_id'[x] \in row'.banned
               PROVE  GoingOut(x)'
    BY DEF BanExpels, GoingOut, At
  <2>1. PICK u \in Users :
          /\ user_id' = [user_id EXCEPT ![s] = u]
          /\ slipped' = IF s \in inRoom /\ u \in row.banned THEN slipped \cup {s}
                                                            ELSE slipped \ {s}
    BY <1>7 DEF identify_player
  <2>2. /\ row' = row /\ inRoom' = inRoom /\ job' = job /\ overwrote' = overwrote
        /\ faults' = faults
    BY <1>7 DEF identify_player
  <2>3. user_id'[s] = u /\ \A y \in Sessions \ {s} : user_id'[y] = user_id[y]
    BY <2>1 DEF RestOK
  <2>4. x # s
    BY <2>1, <2>2, <2>3
  <2>5. x \in Sessions /\ x \in inRoom \ slipped /\ user_id[x] \in row.banned
    BY <1>1, <2>1, <2>2, <2>3, <2>4
  <2>6. GoingOut(x)
    BY <2>2, <2>5 DEF BanExpels, GoingOut
  <2> QED
    BY <2>2, <2>3, <2>4, <2>5, <2>6 DEF GoingOut, At
<1> QED
  BY <1>3, <1>4, <1>5, <1>6, <1>7 DEF Membership

\* An account that replaces another does so while its session's handler is
\* idle, and an idle handler holds no copy.
LEMMA IdentifyHolds ==
    ASSUME JobsOK, HeldOK, RestOK, NEW s \in Sessions, identify_player(s)
    PROVE  HeldOK'
<1>1. PICK u \in Users : user_id' = [user_id EXCEPT ![s] = u]
  BY DEF identify_player
<1>2. job' = job /\ job[s].stage = "idle"
  BY DEF identify_player
<1>3. \A y \in Sessions \ {s} : user_id'[y] = user_id[y]
  BY <1>1 DEF RestOK
<1>4. Derives(job[s], user_id'[s])
  BY <1>2 DEF Derives
<1> QED
  BY <1>2, <1>3, <1>4 DEF HeldOK

\* Every other step leaves the accounts alone.
LEMMA AccountsKept ==
    ASSUME NEW s \in Sessions, Persistence(s) \/ Membership(s), ~identify_player(s)
    PROVE  user_id' = user_id
<1>1. CASE Persistence(s)
  BY <1>1 DEF Persistence, Store, remove_user_from_room, SyncNames, SyncLoad, SyncStore,
              delete_room, EvictAll
<1>2. CASE Membership(s)
  BY <1>2 DEF Membership, create_room, CreateCheck, Load, create_room_if_absent, join_game,
              JoinBanCheck, JoinUndo, leave_game, disconnect_player, Begin
<1> QED
  BY <1>1, <1>2

\* What the handlers hold, and what a ban does, in every step.
LEMMA BanSteps ==
    ASSUME RecordInv, HeldOK, BanExpels, [Next]_vars
    PROVE  HeldOK' /\ BanExpels'
<1>1. RowOK /\ JobsOK /\ RestOK
  BY InvParts
<1>2. ASSUME NEW s \in Sessions, Moderation(s) PROVE HeldOK' /\ BanExpels'
  <2>1. inRoom \subseteq Sessions /\ faults \in Nat
    BY <1>1 DEF RestOK
  <2>2. \A y \in Sessions \ {s} : job'[y] = job[y]
    BY <1>1, <1>2, ModerationQuiet, Kept
  <2>3. BanExpels'
    BY <1>1, <1>2, <2>1, <2>2, ModerationQuiet, BanStaysQuiet
  <2> QED
    BY <1>1, <1>2, <2>3, ModerationHolds, ModerationQuiet DEF HeldOK, HeldNext
<1>3. ASSUME NEW s \in Sessions, Persistence(s) \/ Membership(s) PROVE HeldOK' /\ BanExpels'
  <2>1. BanExpels'
    BY <1>1, <1>3, BanByPersistence, BanByMembership
  <2>2. CASE ~identify_player(s)
    <3>1. HeldNext
      BY <1>1, <1>3, <2>2, PersistenceHolds, MembershipHolds
    <3> QED
      BY <1>3, <2>1, <2>2, <3>1, AccountsKept DEF HeldOK, HeldNext
  <2> QED
    BY <1>1, <2>1, <2>2, IdentifyHolds
<1>4. CASE UNCHANGED vars
  BY <1>4 DEF vars, HeldOK, BanExpels, At
<1> QED
  BY <1>2, <1>3, <1>4 DEF Next

\* Nothing is held, and nobody is banned, when a room is opened.
LEMMA BanBegins ==
    ASSUME Init
    PROVE  HeldOK /\ BanExpels
<1>1. \A s \in Sessions : job[s] = IdleJob
  BY DEF Init
<1>2. HeldOK
  BY <1>1 DEF HeldOK, Derives, IdleJob
<1>3. row.banned = {}
  BY DEF Init, FreshRoom, DefaultRoom
<1> QED
  BY <1>2, <1>3 DEF BanExpels

\* A banned user is out: for any accounts, sessions and limits, while no UPSERT
\* has overwritten a concurrent one and no statement failed, a session of a
\* banned user is in the room only while its join has still to undo itself or
\* the ban has still to remove it, or because it was in the room when it
\* identified anew as that user (ban_member, join_game, identify_player).
THEOREM BansExpel == Spec => []BanExpels
<1>1. Init => RecordInv /\ HeldOK /\ BanExpels
  BY InitEstablishes, BanBegins
<1>2. RecordInv /\ HeldOK /\ BanExpels /\ [Next]_vars => (RecordInv /\ HeldOK /\ BanExpels)'
  BY NextPreserves, BanSteps
<1> QED
  BY <1>1, <1>2, PTL DEF Spec

\* Which steps change the row, and how the owner changes with it.
LEMMA OwnerMoves ==
    ASSUME RecordInv, HeldOK, NEW s \in Sessions, Moderation(s) \/ Persistence(s) \/ Membership(s),
           row.kind = "community", row'.kind = "community", row'.owner # row.owner, ~overwrote'
    PROVE  /\ At(s, "transfer_ownership", "store") /\ user_id[s] = row.owner
           /\ row'.owner = job[s].target /\ row'.roles[row.owner] = "SubAdministrator"
<1>1. RowOK /\ JobsOK /\ RestOK
  BY InvParts
<1>2. ~Moderation(s)
  BY ModerationQuiet
<1>3. ~Membership(s)
  BY DEF Membership, create_room, CreateCheck, Load, create_room_if_absent, join_game, JoinBanCheck,
         JoinUndo, leave_game, disconnect_player, identify_player, Begin
<1>4. Upsert(s) /\ job[s].stage \in {"store", "syncstore"}
  <2>1. CASE delete_room(s)
    BY <2>1 DEF delete_room, NoRow, DefaultRoom
  <2> QED
    BY <1>2, <1>3, <2>1 DEF Persistence, Store, SyncStore, remove_user_from_room, SyncNames,
                            SyncLoad, EvictAll
<1> QED
  BY <1>1, <1>4, Writes

\* Ownership moves only by the owner's own hand, for any accounts, sessions and
\* limits and whichever statements fail: unless an UPSERT has overwritten a
\* concurrent one, the owner changes only by a transfer of the owner, who keeps
\* a sub-administrator role (transfer_ownership).
THEOREM OwnershipMoves == Spec => OwnershipMovesByTransfer
<1>1. Init => RecordInv /\ HeldOK /\ BanExpels
  BY InitEstablishes, BanBegins
<1>2. RecordInv /\ HeldOK /\ BanExpels /\ [Next]_vars => (RecordInv /\ HeldOK /\ BanExpels)'
  BY NextPreserves, BanSteps
<1>3. RecordInv /\ HeldOK /\ [Next]_vars =>
         [ row.kind = "community" /\ row'.kind = "community" /\ row'.owner # row.owner
             /\ ~overwrote'
           => \E s \in Sessions :
                 /\ At(s, "transfer_ownership", "store") /\ user_id[s] = row.owner
                 /\ row'.owner = job[s].target
                 /\ row'.roles[row.owner] = "SubAdministrator" ]_vars
  BY OwnerMoves DEF Next, vars
<1> QED
  BY <1>1, <1>2, <1>3, PTL DEF Spec, OwnershipMovesByTransfer
=============================================================================

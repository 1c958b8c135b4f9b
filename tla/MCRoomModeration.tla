-------------------------- MODULE MCRoomModeration --------------------------
(* Instances of RoomModeration for TLC.  Accounts: the owner "o", the
   sub-administrator "a" and the plain user "b", one session each.        *)
EXTENDS RoomModeration, TLC

MCUserOf == "so" :> "o" @@ "sa" :> "a" @@ "sb" :> "b"

MCStaff == "o" :> "Administrator" @@ "a" :> "SubAdministrator" @@ "b" :> "Member"

\* Only the owner is on the staff, so that only one session can ban.
MCOwnerAlone == "o" :> "Administrator" @@ "a" :> "Member" @@ "b" :> "Member"
=============================================================================

--------------------------- MODULE MCRoomHistory ---------------------------
(* Instances of RoomHistory for TLC.  Account "u1" owns the room and has two
   sessions; "u2" is a plain member.                                       *)
EXTENDS RoomHistory, TLC

CONSTANTS s1, s2, s3

MCUserOf == s1 :> "u1" @@ s2 :> "u1" @@ s3 :> "u2"

\* The two sessions of "u1" are interchangeable.
Symmetry == Permutations({s1, s2})
MCFirstName == "u1" :> "ann" @@ "u2" :> "bob"
MCRole == "u1" :> "Administrator" @@ "u2" :> "Member"
=============================================================================

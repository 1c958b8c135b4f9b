---------------------------- MODULE MCVoiceCalls ----------------------------
(* Instances of VoiceCalls for TLC: three sessions of the accounts "a" and
   "b", who manages the room "r".                                          *)
EXTENDS VoiceCalls, TLC

MCManagers == "r" :> {"b"} @@ "q" :> {}

Symmetry == Permutations(Sessions)
=============================================================================

--------------------------- MODULE MCAccountData ---------------------------
(* Instances of AccountData for TLC: accounts 1 and 2 with two sessions and
   one, a row 3 that does not decode, and account 4 that registers.  Look-ups
   meet every change that concerns the cache; the profile requests, the blob,
   the prekeys and blocks, and the listing each meet what they interact with. *)
EXTENDS AccountData, TLC

MCUserOf == "a1" :> 1 @@ "a2" :> 1 @@ "b1" :> 2
MCCreated == 1 :> 5 @@ 2 :> 5 @@ 3 :> 6 @@ 4 :> 7
MCFirstName == 1 :> 10 @@ 2 :> 20 @@ 3 :> 30 @@ 4 :> 15

\* By id, by a name the account has or may get, and by the id of an account
\* that is not there with the name of one that is.
MCLookUps == {<<1, None>>, <<None, 10>>, <<None, 15>>, <<4, 10>>}

Scenario(kinds, users, lookups, others, clock, listing) ==
    [kinds |-> kinds, users |-> users, lookups |-> lookups, others |-> others,
     clock |-> clock, browse |-> listing]

MCScenarios ==
    {Scenario({"lookup", "rename", "badges", "delete", "erase", "purge", "upload"}, {1}, 2, 1, 1, FALSE),
     Scenario({"lookup", "settings"}, {1}, 2, 1, 1, FALSE),
     Scenario({"lookup", "rename", "badges", "erase"}, {1}, 1, 2, 0, FALSE),
     Scenario({"settings", "identify", "upload", "leave"}, {1}, 0, 3, 0, FALSE),
     Scenario({"upload", "identify", "delete"}, {1}, 0, 2, 0, FALSE),
     Scenario({"put_blob", "delete"}, {1}, 0, 3, 0, FALSE),
     Scenario({"publish", "blocks", "erase"}, {1}, 0, 3, 0, FALSE),
     Scenario({"rename", "register", "erase"}, Users, 0, 2, 0, TRUE)}

Symmetry == Permutations(Requests)
=============================================================================

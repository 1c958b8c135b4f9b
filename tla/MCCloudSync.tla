---------------------------- MODULE MCCloudSync ----------------------------
(* Instance of CloudSync for TLC: three connections that take ids of their own
   or of one another.  Presence, the accounts a session changes and the relay
   meet the end of a session. *)
EXTENDS CloudSync, TLC

Scenario(kinds, n, ended) == [kinds |-> kinds, sent |-> n, ended |-> ended]

MCScenarios == {Scenario({"identify", "peers"}, 4, 1),
                Scenario({"identify", "peers", "settings"}, 4, 0),
                Scenario({"identify", "peers", "relay"}, 4, 0),
                Scenario({"identify", "relay"}, 3, 1)}

Symmetry == Permutations(Sessions) \cup Permutations(Clients) \cup Permutations(Users)
=============================================================================

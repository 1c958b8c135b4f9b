---------------------------- MODULE MCWebDeploy ----------------------------
(* Instance of WebDeploy for TLC: damage at every stage that works on the checkout. *)
EXTENDS WebDeploy

MCDamages == LocalStages \cup {"lock", "Fetch", "ResolveRevision"}
=============================================================================

----------------------------- MODULE MCAccounts -----------------------------
(* Instance of Accounts for TLC: one account, whose sessions and sockets    *)
(* are interchangeable.                                                     *)
EXTENDS Accounts, TLC

Symmetry == Permutations(Tokens) \cup Permutations(Sockets) \cup Permutations(Requests)
=============================================================================

---------------------------- MODULE MCAbuseGate -----------------------------
(* The gates for TLC: a redemption and two uses of its token over a restart
   and the life times of everything issued; the same with deposits; and
   redemptions, registrations and logins that combine the parts of two
   challenges, the redemptions up to the last instant of the first.        *)
EXTENDS AbuseGate, TLC

MCScenarios ==
    {[kinds |-> {"redeem", "with_token"}, scopes |-> {"login"},
      requests |-> 3, challenges |-> 1, clock |-> 4, boots |-> 1],
     [kinds |-> {"redeem", "with_token", "deposit"}, scopes |-> {"phantom", "login"},
      requests |-> 3, challenges |-> 1, clock |-> 3, boots |-> 0],
     [kinds |-> {"redeem"}, scopes |-> {"login"},
      requests |-> 2, challenges |-> 2, clock |-> 2, boots |-> 0],
     [kinds |-> {"register", "login"}, scopes |-> {"login"},
      requests |-> 2, challenges |-> 2, clock |-> 1, boots |-> 0]}

Symmetry == Permutations(Requests) \cup Permutations(Challenges)
=============================================================================

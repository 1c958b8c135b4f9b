\* The scenarios of MCAbuseGate, two of its life times shorter than the clock.
CONSTANTS
    Requests = {r1, r2, r3}
    Challenges = {c1, c2}
    None = None
    Scenarios <- MCScenarios
    Users = {"u"}
    Scopes = {"phantom", "login"}
    Window = 1
    Back = 1
    NullifierTtl = 3
    ChallengeTtl = 2
    TokenTtl = 2
    Day = 2
    StoreCap = 0
    LockWait = 1
    MaxClock = 4
SPECIFICATION Spec
SYMMETRY Symmetry
INVARIANTS NullifierOnce GrantsPaidOnce PunctualRedeemed KeyOnce
CHECK_DEADLOCK FALSE

\* Two requests of any kind on an account with up to three sessions, against a
\* socket that identifies, sends messages and goes.
CONSTANTS
    Users = {u1}
    Tokens = {t1, t2, t3}
    Sockets = {s1}
    Requests = {r1, r2}
    Kinds = {"register", "login", "recover", "logout", "delete", "erase", "purge",
             "ban", "disable", "unban", "enable"}
    Every = 2
    Delay = 1
    MaxClock = 3
    None = None
SPECIFICATION Spec
SYMMETRY Symmetry
INVARIANTS BarTakesEffect RevocationReachesSockets ResetEndsSessions
CHECK_DEADLOCK FALSE

\* Three connections of two accounts, two client ids, queues of two messages.
CONSTANTS
    Users = {u, v}
    Clients = {c, d}
    Sessions = {s1, s2, s3}
    MaxSessions = 3
    QueueCap = 2
    Scenarios <- MCScenarios
    None = None
SPECIFICATION Spec
SYMMETRY Symmetry
INVARIANTS KnowsMesh
PROPERTIES FramesInSequence
CHECK_DEADLOCK FALSE

\* The connections are used up, and workers end with their connection.
CONSTANTS
    Workers = {w1, w2}
    MaxNumber = 4
    MaxConnections = 2
    None = None
SPECIFICATION Spec
INVARIANTS
    ObjectKeepsSocket
CHECK_DEADLOCK FALSE

SPECIFICATION Spec
CONSTANTS
    Sockets = {s1, s2}
    Users = {u1, u2}
    Codes = {c1}
    Hosts = {u1}
    RoomHubs = {h1, h2}
    MaxJoins = 1
    None = None
INVARIANTS ServedIsInTheRoom
CHECK_DEADLOCK FALSE

SPECIFICATION Spec
CONSTANTS
    Sockets = {s1}
    Users = {u1}
    Codes = {c1, c2}
    Hosts = {u1}
    RoomHubs = {h1, h2}
    MaxJoins = 2
    None = None
PROPERTIES SweepsOnlySilent
CHECK_DEADLOCK FALSE

SPECIFICATION FairSpec
CONSTANTS
    Sockets = {s1, s2}
    Users = {u1}
    Codes = {c1}
    Hosts = {u1}
    RoomHubs = {h1}
    MaxJoins = 1
    None = None
PROPERTIES DeadConnsLeave EmptyRoomsGo
CHECK_DEADLOCK FALSE

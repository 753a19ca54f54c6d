SPECIFICATION Spec
CONSTANTS
    Users = {host, player}
    Host = host
    Room = room
    RoomHubs = {r1}
    Characters = {c1, c2}
    RoundIds = {i1, i2}
    Conn = {h1, h2, p1}
    UserOf <- UserOf21
    Hosting = {h1, h2}
    None = None
    host = host
    player = player
    h1 = h1
    h2 = h2
    p1 = p1
SYMMETRY Symmetry
INVARIANTS TypeOK OnlyOthersCards StayersHaveTheirCards AnswerIsTrue
CHECK_DEADLOCK FALSE

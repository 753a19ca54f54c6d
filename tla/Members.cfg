SPECIFICATION Spec
CONSTANTS
    Codes = {c1, c2}
    u1 = u1
    u2 = u2
    s1 = s1
    s2 = s2
    Users = {u1, u2}
    Sockets = {s1, s2}
    UserOf <- OneSocketEach
    Deltas = {1}
    MinScore = 0
    MaxScore = 1
    Targets = {u2}
    None = None
SYMMETRY Symmetry
INVARIANTS TypeOK AnsweredRoomIsReady WrongScoreIsCorrected
PROPERTIES ScoresOnlyByHost

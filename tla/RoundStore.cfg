SPECIFICATION FairSpec
CONSTANTS
    Rooms = {r1, r2}
    Users = {u1, u2}
    Packs = {p1, p2}
    Characters = {c1, c2}
    RoundIds = {i1, i2}
    Workers = {w1, w2}
    p1 = p1
    p2 = p2
    c1 = c1
    c2 = c2
    PackOf <- PackOf2
    Selections <- OneOrBoth
    None = None
INVARIANTS TypeOK LocksExclude OpenRoundIsCurrent NoRepeatsInRoom UsedIsDealt
PROPERTIES HistoryIsFinal NotEnoughIsNotOwn ImplementsLedger CallReturns

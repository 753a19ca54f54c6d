SPECIFICATION Spec
CONSTANTS
    Franchises = {f1, f2}
    Names = {n1, n2, n3}
    Slugs = {s1, s2, m1}
    Collections = {c1}
    Requests = {q1, q2}
    f1 = f1
    f2 = f2
    n1 = n1
    n2 = n2
    n3 = n3
    s1 = s1
    s2 = s2
    m1 = m1
    c1 = c1
    SlugOf <- SlugOf5
    NamesOf <- NamesOf2
    PacksOf <- PacksOf1
    Lists <- ListsOf
    MaxRuns = 2
    MaxClock = 1
    None = None
SYMMETRY Symmetry
INVARIANTS TypeOK SelectionIsRecent ImportIsTheFile
CHECK_DEADLOCK FALSE

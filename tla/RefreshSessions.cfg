SPECIFICATION Spec
CONSTANTS
    Tokens = {t1, t2, t3, t4}
    Users = {u1, u2}
    Requests = {q1, q2, q3}
    None = None
SYMMETRY Symmetry
INVARIANTS TypeOK OneLiveSession CookieIsTheSession
PROPERTIES ImplementsChain

SPECIFICATION Spec
CONSTANTS
    Senders = {s1, s2}
    Cap = 1
    MaxSends = 2
INVARIANTS SendNeverPanics
CHECK_DEADLOCK FALSE

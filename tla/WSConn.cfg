SPECIFICATION FairSpec
CONSTANTS
    Senders = {s1, s2}
    Cap = 2
    MaxSends = 3
INVARIANTS TypeOK InOrder LossIsBounded ParkedOnlyWhenFull
PROPERTIES SendReturns CloseEndsWriter ImplementsMailbox
CHECK_DEADLOCK FALSE

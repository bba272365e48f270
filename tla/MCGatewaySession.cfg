SPECIFICATION FairSpec
CONSTANTS
    s1 = s1
    s2 = s2
    None = None
    Offers = {s1, s2}
    Cancels = {1}
    CancelOffset <- OneBack
    MaxMessages = 2
    MaxTime = 1
INVARIANTS TypeOK WireInOrder OnlyThePresentRelays
PROPERTIES SessionsEnd
CHECK_DEADLOCK FALSE

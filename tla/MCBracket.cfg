SPECIFICATION Spec
CONSTANTS
    Branches = 2
    Subscribed = {1}
    Stamps = {1, 3}
    Cancels = {2}
    MaxInputs = 2
    MaxCancels = 1
    None = None
INVARIANTS RegionInv NothingIsLost
PROPERTIES KeepsGroups
CHECK_DEADLOCK FALSE

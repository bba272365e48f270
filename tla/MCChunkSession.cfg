SPECIFICATION FairSpec
CONSTANTS
    Stamps = {1, 3}
    Cancels = {2}
    Infinity = 9
    Sessions = {"pipelined", "blocking", "passthrough"}
    MaxStreams = 2
    MaxInputs = 2
    MaxControls = 2
    Kill = Kill
    None = None
INVARIANT SlotInv
PROPERTIES KeepsEnvelopes NodeReturns
CHECK_DEADLOCK FALSE

SPECIFICATION FairJointSpec
CONSTANTS
    NumStreams = 2
    Extend = {1}
    Continuous = {2}
    Anchor = 2
    Modes = {"longest", "shortest", "anchor"}
    Arguments <- MCArguments
    Cancels = {3}
    TeardownStamp = 9
    MaxTurns = 2
    MaxInputs = 2
    MaxChunks <- MCChunks
    MaxControls = 1
    Kill = Kill
    None = None
INVARIANT PumpInv
PROPERTIES KeepsZip AllReturn
CHECK_DEADLOCK FALSE

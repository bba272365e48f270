SPECIFICATION FairSpec
CONSTANTS
    N = 2
    Emitters = {1}
    Signals <- MCSignals
    Catches <- MCCatches
    Passes <- MCPasses
    Emits <- MCEmits
    Edges <- MCEdges
    Bound <- MCTight
    Addressees <- MCAddressees
    Events <- MCEvents
    Stamps = {2}
    Epsilon = 1
    Infinity = 9
    MaxSubmitted = 2
    MaxOut = 1
PROPERTIES TeardownCompletes
CHECK_DEADLOCK FALSE

SPECIFICATION FairSpec
CONSTANTS
    N = 2
    Emitters = {1}
    Signals <- MCOneSignal
    Catches <- MCCatches
    Passes <- MCOnePasses
    Emits <- MCOneEmits
    Edges <- MCEdges
    Bound <- MCUnbounded
    Addressees = {1}
    Events <- MCEvents
    Stamps <- MCStamps
    Epsilon = 1
    Infinity = 9
    MaxSubmitted = 2
    MaxOut = 1
INVARIANTS TypeOK WorkIsFresh VoidedBeforeKilled
PROPERTIES KeepsTurnOrder OnlyVoidedIsDropped CancelTakesEffect TeardownCompletes
CHECK_DEADLOCK FALSE

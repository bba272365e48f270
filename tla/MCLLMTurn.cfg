SPECIFICATION Spec
CONSTANTS
    Stamps = {1, 3}
    Cancels = {2}
    Infinity = 9
    UsesTools = TRUE
    LoopNum = 2
    HistoryLength = 3
    MaxTurns = 2
    MaxItems = 2
    MaxControls = 2
    None = None
INVARIANTS TypeOK NothingSentIsForgotten MarkerEndsItsTurn
PROPERTIES KeepsTranscript
CHECK_DEADLOCK FALSE

SPECIFICATION FairSpec
CONSTANTS
    Stamps <- MCStamps
    Cancels = {2}
    Acks = {1, 2}
    Infinity <- MCInfinity
    None = None
    Kinds = {"low", "normal", "priced"}
    MaxMessages = 3
    MaxControls = 2
    RingSize = 2
    MaxBatch = 1
    MinBatch = 2
    MaxBuffer = 2
    Interval = 1
    MaxWait = 1
    IdleTalk = 1
    PlaybackTimeout = 1
INVARIANT BufferInv
PROPERTIES ReleasesAreFresh EveryMessageLeaves
CHECK_DEADLOCK FALSE

SPECIFICATION FairVoiceSpec
CONSTANTS
    RingSize = 6
    StreamChunk = 2
    Nil = Nil
    ChunkLen = 2
    Gaps <- MCGaps
    SignalStamps = {3, 4, 5}
    CancelStamps = {3, 6}
    ManualStart <- MCManualStart
    ManualEnd <- MCManualEnd
    AutoStart <- MCAutoStart
    AutoEnd <- MCAutoEnd
    StreamModes = {TRUE, FALSE}
    MaxChunks = 4
    MaxSignals = 3
    MaxFaults = 2
INVARIANTS VoiceTypes SegmentIsExact DetectorAgrees
PROPERTIES SessionsEnd
CHECK_DEADLOCK FALSE

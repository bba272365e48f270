SPECIFICATION LanesSpec
CONSTANTS
    Lanes = {"audio", "video", "data"}
    PerGroup <- MCPerGroup
    Beats = 30
    MaxWaiting = 2
INVARIANT LanesStayTogether

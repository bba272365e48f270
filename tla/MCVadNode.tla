------------------------------- MODULE MCVadNode -------------------------------
EXTENDS VadNode

MCGaps == {0, 1}
MCManualStart == -2
MCManualEnd == -1
MCAutoStart == -3
MCAutoEnd == 1

================================================================================

---------------------------- MODULE MCDanmakuBuffer ----------------------------
EXTENDS DanmakuBuffer

MCStamps == 1..2
MCInfinity == 9

================================================================================

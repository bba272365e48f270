-------------------------- MODULE MCGatewaySession ---------------------------
(* Two offers; the first direct message is a cancel and goes back in time.   *)
EXTENDS GatewaySession

CONSTANTS s1, s2

OneBack == -1
===============================================================================

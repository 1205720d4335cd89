---------------------------- MODULE MCVmcpBridge ----------------------------
(* Instance: two requests of up to two calls, each of which can be sent.     *)
EXTENDS VmcpBridge
CONSTANTS r1, r2
BridgeRequests == {r1, r2}
=============================================================================

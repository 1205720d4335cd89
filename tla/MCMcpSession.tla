----------------------------- MODULE MCMcpSession -----------------------------
(* A small instance of McpSession: two callers share one rejection, and    *)
(* one shakes hands while the other waits; no symmetry, for the liveness.  *)
EXTENDS McpSession

CONSTANTS c1, c2
==============================================================================

---------------------------- MODULE MCProxyPool ------------------------------
(***************************************************************************)
(* Two goroutines, a pool of two proxies and SMILE_MCP_RETRIES=0, so that    *)
(* only the length of the pool makes a call try again.                       *)
(***************************************************************************)
EXTENDS ProxyPoolProps

CONSTANTS c1, c2
=============================================================================

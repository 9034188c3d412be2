---------------------------- MODULE MCBroadcast ------------------------------
(***************************************************************************)
(* Two pages and two publishers with channels of two slots.                 *)
(***************************************************************************)
EXTENDS BroadcastProps

CONSTANTS w1, w2, p1, p2
=============================================================================

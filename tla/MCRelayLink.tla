---------------------------- MODULE MCRelayLink ----------------------------
(* Two meets, a board of two parts, and as many threads as presses need.   *)
EXTENDS RelayLink
=============================================================================

------------------------- MODULE MCWebSocketClient -------------------------
(***************************************************************************)
(* Two subscriptions of one connection, named for TLC by model values.     *)
(***************************************************************************)
EXTENDS WebSocketClient

CONSTANTS s1, s2

=============================================================================

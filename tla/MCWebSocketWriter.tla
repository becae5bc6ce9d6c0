-------------------------- MODULE MCWebSocketWriter --------------------------
(* The instance of WebSocketWriter for TLC.                                *)
EXTENDS WebSocketWriter
=============================================================================

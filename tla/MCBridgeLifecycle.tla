------------------------- MODULE MCBridgeLifecycle -------------------------
(* Instances of BridgeLifecycle for TLC; its bounds are numbers of the cfg. *)
EXTENDS BridgeLifecycle
=============================================================================

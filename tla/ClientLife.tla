------------------------------ MODULE ClientLife ------------------------------
(***************************************************************************)
(* What the parts that publish may rely on about the MQTT client of one    *)
(* BridgeCoordinator: it is exposed only while the bridge still listens to *)
(* HA, greeted before it is served, and forgotten only after its link has  *)
(* broken or by a stop that has ended the listening.  BridgeLifecycle      *)
(* implements it; StateStream takes its connection from it.                *)
(***************************************************************************)

VARIABLES
    phase,    \* off; ready: the client is exposed; served: it was greeted
    up,       \* the link of the exposed client works
    listening \* HA's events are listened to

vars == <<phase, up, listening>>

Init == phase = "off" /\ up = FALSE /\ listening = TRUE

(* The link may have broken unnoticed: the first catalog of a coordinator  *)
(* is not acknowledged.                                                    *)
Exposed ==
    /\ phase = "off" /\ listening
    /\ phase' = "ready" /\ up' \in BOOLEAN
    /\ UNCHANGED listening

Greeted ==
    /\ phase = "ready" /\ phase' = "served"
    /\ UNCHANGED <<up, listening>>

LinkBreaks ==
    /\ up /\ up' = FALSE
    /\ UNCHANGED <<phase, listening>>

Disconnected ==
    /\ phase = "served" /\ ~up
    /\ phase' = "off"
    /\ UNCHANGED <<up, listening>>

StopListening ==
    /\ listening /\ listening' = FALSE
    /\ UNCHANGED <<phase, up>>

(* The stop ends the tasks of the bridge, whatever the client was doing.   *)
StopCompletes ==
    /\ ~listening
    /\ phase' = "off" /\ up' = FALSE
    /\ UNCHANGED listening

Next ==
    \/ Exposed \/ Greeted \/ LinkBreaks \/ Disconnected
    \/ StopListening \/ StopCompletes

Spec == Init /\ [][Next]_vars
=============================================================================

--------------------------- MODULE BridgeLifecycle ---------------------------
(***************************************************************************)
(* The life of one BridgeCoordinator (coordinator.py): the loop that       *)
(* connects to the MQTT broker, announces the bridge, serves and           *)
(* reconnects; the tasks that belong to a connection; the retained         *)
(* presence and catalog; unloading, and the clean-up before a reload that  *)
(* renames the bridge.                                                     *)
(*                                                                         *)
(* A publish is handed to the socket synchronously and then awaited.  The  *)
(* broker keeps what is handed to a link that is up, in that order; what   *)
(* is handed to a broken link is lost.  Broker and HA Core are external.   *)
(***************************************************************************)
EXTENDS Naturals

CONSTANTS
    MaxDrops,    \* bound on failed connections and broken links
    MaxChanges   \* bound on changes of the device registry

ASSUME DropBound == MaxDrops \in Nat
ASSUME ChangeBound == MaxChanges \in Nat

VARIABLES
    loop,      \* where _mqtt_loop is suspended
    after,     \* where the loop goes once it has cleaned up
    cancelled, \* the loop's task was asked to end
    link,      \* the MQTT link is up
    held,      \* _connected_client is set
    ready,     \* _mqtt_client is set
    connected, \* mqtt_connected
    started,   \* HA has started
    attempted, \* _initial_snapshot_attempted
    running,   \* tasks of the connection: heartbeat, replay, snapshot
    refresh,   \* the task that refreshes the catalog
    pending,   \* _catalog_refresh_pending
    listening, \* registry changes are listened to
    stale,     \* the registry changed since the last catalog was handed over
    refused,   \* the catalog of its last change was too large to refresh (history)
    stop,      \* progress of reload preparation and of async_stop
    stopping,  \* _stopping
    skip,      \* _skip_offline_presence
    presence,  \* retained presence of the bridge's topic at the broker
    catalog,   \* a catalog is retained at the bridge's topic
    heard,     \* last farewell handed to a working link (history)
    drops,     \* broken links so far
    changes    \* registry changes so far

client == <<link, held, ready, connected>>
tasks == <<attempted, running, refresh, pending, listening>>
ending == <<stop, stopping, skip, heard>>
broker == <<presence, catalog, stale, refused>>
counts == <<drops, changes>>
vars == <<loop, after, cancelled, client, started, tasks, ending, broker, counts>>

-----------------------------------------------------------------------------
Helpers == {"heartbeat", "replay", "snapshot"}

(* Awaits during which the loop notices that the link is broken.           *)
Awaiting == {"subscribing", "announcing", "cataloging", "retracting", "serving"}
Loops == Awaiting \cup {"top", "connecting", "waiting", "greeting", "parked",
                        "cleanup", "backoff", "ended"}
Connected == Awaiting \cup {"waiting", "greeting", "parked"}

Init ==
    /\ loop = "top"
    /\ after = "backoff"
    /\ cancelled = FALSE
    /\ link = FALSE /\ held = FALSE /\ ready = FALSE /\ connected = FALSE
    /\ started \in BOOLEAN
    /\ attempted = FALSE
    /\ running = {}
    /\ refresh = "off" /\ pending = FALSE /\ listening = TRUE
    /\ stale = FALSE /\ refused = FALSE
    /\ stop = "none" /\ stopping = FALSE /\ skip = FALSE /\ heard = "none"
    \* what an earlier life of the bridge left at the broker
    /\ presence \in {"none", "online", "offline"}
    /\ catalog \in BOOLEAN
    /\ drops = 0 /\ changes = 0

-----------------------------------------------------------------------------
(* Retained messages handed to the socket.                                 *)

(* Variant with a bug: online presence is also announced while stopping.   *)
OnlineRegardless == TRUE

(* _publish_presence says nothing when asked for "online" while stopping.  *)
MayAnnounce == ~stopping

HandOnline ==
    presence' = IF link /\ MayAnnounce THEN "online" ELSE presence
HandOffline == presence' = IF link THEN "offline" ELSE presence

(* The catalog is built from the registry of the moment.                   *)
HandCatalog ==
    /\ catalog' = (catalog \/ link)
    /\ stale' = (stale /\ ~link)

(* Variant with a bug: only the first connection publishes the catalog.    *)
CatalogOnce == ~attempted

(* The catalog is published on every connection.                           *)
CatalogDue == TRUE

-----------------------------------------------------------------------------
(* The loop: _mqtt_loop and _connect_and_serve.                            *)

(* Variant with a bug: the clients are forgotten by the clean-up, later.   *)
LeaveExposed(next) ==
    /\ loop' = "cleanup"
    /\ after' = next
    /\ link' = FALSE
    /\ UNCHANGED <<held, ready>>

(* Leaving _connect_and_serve closes the socket; the clients are forgotten *)
(* and the tasks of the connection are ended before the loop goes on.      *)
Leave(next) ==
    /\ loop' = "cleanup"
    /\ after' = next
    /\ link' = FALSE /\ held' = FALSE /\ ready' = FALSE

Dial ==
    /\ loop = "top" /\ ~cancelled
    /\ IF stopping THEN loop' = "ended" ELSE loop' = "connecting"
    /\ UNCHANGED <<after, cancelled, client, started, tasks, ending, broker, counts>>

(* The configuration is unusable: without a host the loop tries again, an  *)
(* invalid one ends it.                                                    *)
Unusable(next) ==
    /\ loop = "connecting" /\ drops < MaxDrops
    /\ drops' = drops + 1
    /\ Leave(next)
    /\ connected' = FALSE
    /\ UNCHANGED <<cancelled, started, tasks, ending, broker, changes>>

Connects ==
    /\ loop = "connecting" /\ ~cancelled
    /\ loop' = "subscribing"
    /\ link' = TRUE /\ held' = TRUE
    /\ UNCHANGED <<after, cancelled, ready, connected, started, tasks, ending,
                   broker, counts>>

Subscribed ==
    /\ loop = "subscribing" /\ link /\ ~cancelled
    /\ HandOnline
    /\ loop' = "announcing"
    /\ UNCHANGED <<after, cancelled, client, started, tasks, ending, catalog,
                   stale, refused, counts>>

Announced ==
    /\ loop = "announcing" /\ link /\ ~cancelled
    /\ loop' = "waiting"
    /\ UNCHANGED <<after, cancelled, client, started, tasks, ending, broker, counts>>

(* HA has started: the registry is complete.                               *)
PublishCatalog ==
    /\ loop = "waiting" /\ started /\ ~cancelled
    /\ IF CatalogDue THEN HandCatalog ELSE UNCHANGED <<catalog, stale>>
    /\ loop' = "cataloging"
    /\ UNCHANGED <<after, cancelled, client, started, tasks, ending, presence,
                   refused, counts>>

(* Presence or catalog exceed the packet budget: online is retracted, and  *)
(* the loop ends once the broker has acknowledged that.                    *)
TooLarge ==
    /\ \/ loop = "subscribing" /\ link /\ ~stopping
       \/ loop = "waiting" /\ started
    /\ ~cancelled
    /\ HandOffline
    /\ connected' = FALSE
    /\ loop' = "retracting"
    /\ UNCHANGED <<after, cancelled, link, held, ready, started, tasks, ending,
                   catalog, stale, refused, counts>>

Retracted ==
    /\ loop = "retracting" /\ link /\ ~cancelled
    /\ Leave("ended")
    /\ UNCHANGED <<cancelled, connected, started, tasks, ending, broker, counts>>

(* The contract of the connection stands: the client is exposed, unless    *)
(* the bridge is stopping: then it waits for _stop_complete, so that the   *)
(* socket stays open for the farewell, and is cancelled there.             *)
Cataloged ==
    /\ loop = "cataloging" /\ ~cancelled
    /\ link \/ ~attempted   \* the first catalog is not acknowledged (QoS 0)
    /\ IF stopping
       THEN loop' = "parked" /\ UNCHANGED <<ready, connected, presence>>
       ELSE /\ loop' = "greeting"
            /\ ready' = TRUE /\ connected' = TRUE
            /\ HandOnline
    /\ UNCHANGED <<after, cancelled, link, held, started, tasks, ending, catalog,
                   stale, refused, counts>>

(* One task at a time refreshes the catalog, and only while ready.         *)
StartRefreshIfReady(p) ==
    refresh' = IF p /\ ready /\ connected /\ refresh = "off" THEN "sleeping" ELSE refresh

(* Readiness was announced, or that failed without being noticed.          *)
Greeted ==
    /\ loop = "greeting" /\ ~cancelled
    /\ loop' = "serving"
    /\ running' = {"heartbeat", "replay"}
                    \cup (IF attempted THEN running ELSE running \cup {"snapshot"})
    /\ attempted' = TRUE
    /\ StartRefreshIfReady(pending)
    /\ UNCHANGED <<after, cancelled, client, started, pending, listening, ending,
                   broker, counts>>

(* MqttError or a failed publish: back off and try again.  Any other       *)
(* exception ends the loop.                                                *)
Disconnected(next) ==
    /\ loop \in Awaiting /\ ~link
    /\ Leave(next)
    /\ connected' = FALSE
    /\ UNCHANGED <<cancelled, started, tasks, ending, broker, counts>>

(* Variant with a bug: the heartbeat survives its connection.              *)
KeepHeartbeat == {"replay", "snapshot"}

(* What the clean-up of a connection ends, besides the catalog refresh.    *)
Retired == Helpers

CleanedUp ==
    /\ loop = "cleanup"
    /\ running' = running \ Retired
    /\ refresh' = "off" /\ pending' = FALSE
    /\ loop' = IF cancelled THEN "ended" ELSE after
    /\ UNCHANGED <<after, cancelled, client, started, attempted, listening, ending,
                   broker, counts>>

Retry ==
    /\ loop = "backoff" /\ ~cancelled
    /\ loop' = "top"
    /\ UNCHANGED <<after, cancelled, client, started, tasks, ending, broker, counts>>

(* The task is cancelled where it waits.                                   *)
LoopCancelled ==
    /\ cancelled /\ loop \notin {"ended", "cleanup"}
    /\ Leave("ended")
    /\ UNCHANGED <<cancelled, connected, started, tasks, ending, broker, counts>>

-----------------------------------------------------------------------------
(* Home Assistant, the broker and the tasks beside the loop.               *)

HaStarts ==
    /\ ~started
    /\ started' = TRUE
    /\ UNCHANGED <<loop, after, cancelled, client, tasks, ending, broker, counts>>

(* The link breaks; a broker that restarted has lost what it retained.     *)
LinkBreaks ==
    /\ link /\ drops < MaxDrops
    /\ drops' = drops + 1
    /\ link' = FALSE
    /\ \/ UNCHANGED <<presence, catalog>>
       \/ presence' = "none" /\ catalog' = FALSE
    /\ UNCHANGED <<loop, after, cancelled, held, ready, connected, started, tasks,
                   ending, stale, refused, changes>>

Beat ==
    /\ "heartbeat" \in running /\ ready
    /\ HandOnline
    /\ UNCHANGED <<loop, after, cancelled, client, started, tasks, ending, catalog,
                   stale, refused, counts>>

(* The replay of the recorder and the snapshot end by themselves.          *)
HelperEnds ==
    /\ \E h \in {"replay", "snapshot"} \cap running : running' = running \ {h}
    /\ UNCHANGED <<loop, after, cancelled, client, started, attempted, refresh,
                   pending, listening, ending, broker, counts>>

(* _on_device_registry_changed, when the change concerns the catalog.      *)
RegistryChanges ==
    /\ changes < MaxChanges
    /\ changes' = changes + 1
    /\ stale' = TRUE /\ refused' = FALSE
    /\ pending' = (pending \/ listening)
    /\ StartRefreshIfReady(listening)
    /\ UNCHANGED <<loop, after, cancelled, client, started, attempted, running,
                   listening, ending, presence, catalog, drops>>

(* _refresh_catalog_metadata has slept: it claims every change so far      *)
(* before it publishes, or gives up without a client.  A catalog beyond    *)
(* the packet budget is never handed over, and nothing tries again before  *)
(* the next change or connection.                                          *)
RefreshWakes ==
    /\ refresh = "sleeping"
    /\ \/ /\ ready /\ connected
          /\ refresh' = "sending" /\ pending' = FALSE
          /\ HandCatalog /\ UNCHANGED refused
       \/ /\ ready /\ connected
          /\ refresh' = "off" /\ pending' = FALSE
          /\ refused' = TRUE /\ UNCHANGED <<catalog, stale>>
       \/ /\ ~(ready /\ connected)
          /\ refresh' = "off"
          /\ UNCHANGED <<pending, catalog, stale, refused>>
    /\ UNCHANGED <<loop, after, cancelled, client, started, attempted, running,
                   listening, ending, presence, counts>>

(* Variant with a bug: a change that arrives during the publish waits for  *)
(* the next change.                                                        *)
OneRound == "off"

(* A change that arrived during the publish is served by another round.    *)
NextRound == IF pending THEN "sleeping" ELSE "off"

(* Acknowledged, or failed and logged.                                     *)
RefreshSent ==
    /\ refresh = "sending"
    /\ refresh' = NextRound
    /\ UNCHANGED <<loop, after, cancelled, client, started, attempted, running,
                   pending, listening, ending, broker, counts>>

-----------------------------------------------------------------------------
(* Reload and unload: async_prepare_for_reload and async_stop.             *)

Stages == {"none", "preparing", "prepared", "quieting", "offlining", "gathering", "done"}

(* The options changed.  When they rename the bridge, the old presence and *)
(* the old catalog are cleared through the socket, if there is one.        *)
PrepareReload(renamed) ==
    /\ stop = "none"
    /\ stopping' = TRUE
    /\ skip' = renamed
    /\ stop' = IF renamed /\ held THEN "preparing" ELSE "prepared"
    /\ IF renamed /\ link
       THEN presence' = "none" /\ catalog' = FALSE /\ heard' = "cleared"
       ELSE UNCHANGED <<presence, catalog, heard>>
    /\ UNCHANGED <<loop, after, cancelled, client, started, tasks, stale, refused,
                   counts>>

(* Both were acknowledged, failed, or the deadline of the reload passed.   *)
ClearsDone ==
    /\ stop = "preparing"
    /\ stop' = "prepared"
    /\ UNCHANGED <<loop, after, cancelled, client, started, tasks, stopping, skip,
                   heard, broker, counts>>

(* async_stop begins: a reload, an unload, a removal or the shutdown job.  *)
Unload ==
    /\ stop \in {"none", "prepared"}
    /\ stop' = "quieting"
    /\ stopping' = TRUE
    /\ listening' = FALSE /\ pending' = FALSE /\ refresh' = "off"
    /\ UNCHANGED <<loop, after, cancelled, client, started, attempted, running, skip,
                   heard, broker, counts>>

(* The heartbeat has ended, and the farewell is handed to the socket.      *)
Quieted ==
    /\ stop = "quieting"
    /\ stop' = "offlining"
    /\ running' = running \ {"heartbeat"}
    /\ IF skip
       THEN UNCHANGED <<presence, heard>>
       ELSE /\ HandOffline
            /\ heard' = IF link THEN "offline" ELSE heard
    /\ UNCHANGED <<loop, after, cancelled, client, started, attempted, refresh,
                   pending, listening, stopping, skip, catalog, stale, refused,
                   counts>>

CancelTasks ==
    /\ cancelled' = TRUE
    /\ running' = {} /\ refresh' = "off"

(* The farewell was acknowledged or failed: every task is cancelled.       *)
Offlined ==
    /\ stop = "offlining"
    /\ stop' = "gathering"
    /\ CancelTasks
    /\ UNCHANGED <<loop, after, client, started, attempted, pending, listening,
                   stopping, skip, heard, broker, counts>>

(* async_stop forgets the clients and completes.                           *)
Complete ==
    /\ stop' = "done"
    /\ held' = FALSE /\ ready' = FALSE /\ connected' = FALSE
    /\ skip' = FALSE
    /\ UNCHANGED <<loop, after, link, started, attempted, pending, listening,
                   stopping, heard, broker, counts>>

Gathered ==
    /\ stop = "gathering" /\ loop = "ended"
    /\ Complete
    /\ UNCHANGED <<cancelled, running, refresh>>

(* Variant with a bug: the farewell is waited for without a deadline.      *)
WaitForever == FALSE

(* Whatever async_stop waits for, it waits no longer than its deadline.    *)
DeadlinePasses == stop \in {"quieting", "offlining", "gathering"}

TimedOut ==
    /\ DeadlinePasses
    /\ Complete
    /\ CancelTasks

-----------------------------------------------------------------------------
LoopStep ==
    \/ Dial \/ Connects \/ Subscribed \/ Announced \/ PublishCatalog \/ Retracted
    \/ Cataloged \/ Greeted \/ Disconnected("backoff") \/ CleanedUp \/ Retry
    \/ LoopCancelled

Next ==
    \/ LoopStep
    \/ TooLarge
    \/ Disconnected("ended")
    \/ \E next \in {"backoff", "ended"} : Unusable(next)
    \/ HaStarts \/ LinkBreaks \/ Beat \/ HelperEnds
    \/ RegistryChanges \/ RefreshWakes \/ RefreshSent
    \/ \E renamed \in BOOLEAN : PrepareReload(renamed)
    \/ ClearsDone \/ Unload \/ Quieted \/ Offlined \/ Gathered \/ TimedOut

Spec == Init /\ [][Next]_vars

(* asyncio runs every task that is ready, timers go off, HA starts, and a  *)
(* reload that was prepared goes on to unload.  The broker need not        *)
(* acknowledge the farewell: nothing is assumed of Offlined.               *)
Fairness ==
    /\ WF_vars(LoopStep)
    /\ WF_vars(HaStarts)
    /\ WF_vars(RefreshWakes)
    /\ WF_vars(RefreshSent)
    /\ WF_vars(ClearsDone)
    /\ WF_vars(stop = "prepared" /\ Unload)
    /\ WF_vars(Gathered)
    /\ WF_vars(TimedOut)

FairSpec == Spec /\ Fairness

-----------------------------------------------------------------------------
(* Every variable keeps to its values, the clients are only held while the *)
(* loop is inside a connection, and readiness presupposes a held client.   *)
TypeOK ==
    /\ loop \in Loops /\ after \in {"backoff", "ended"}
    /\ {cancelled, link, held, ready, connected, started, attempted, pending,
        listening, stale, refused, stopping, skip, catalog} \subseteq BOOLEAN
    /\ running \subseteq Helpers
    /\ refresh \in {"off", "sleeping", "sending"}
    /\ stop \in Stages
    /\ presence \in {"none", "online", "offline"}
    /\ heard \in {"none", "offline", "cleared"}
    /\ drops \in 0..MaxDrops /\ changes \in 0..MaxChanges
    /\ link \/ held => loop \in Connected
    /\ ready => held

(* A client is exposed as ready only on a connection whose contract holds: *)
(* the broker retains online presence and the catalog, also after a broker *)
(* restart wiped both (the comment in _connect_and_serve, lines 877-886).  *)
ReadyMeansAnnounced ==
    ready /\ link /\ ~stopping => presence = "online" /\ catalog

(* Once the bridge has said its farewell over a working link, nothing it   *)
(* does (a connection being set up, the heartbeat, the greeting) declares  *)
(* it online again (_publish_presence 1771, _async_graceful_stop 621-622). *)
FarewellIsLast == heard # "none" => presence # "online"

(* No task of a connection lives on into the next attempt: an old client   *)
(* is never published to while the loop dials again or has ended.          *)
NothingOutlivesConnection ==
    loop \in {"top", "connecting", "backoff", "ended"} => running = {} /\ refresh = "off"

(* After a reload that renames the bridge has cleared the old retained     *)
(* topics over a working link and the old bridge has stopped, no catalog   *)
(* is retained at the old topic (README.md: the old presence and the old   *)
(* catalog are cleared together when the bridge id changes).  The code may *)
(* break this: see the findings.                                           *)
OldCatalogStaysCleared ==
    stop = "done" /\ loop = "ended" /\ heard = "cleared" => ~catalog

(* The loop, the reload and the stop together keep to ClientLife.  From    *)
(* the instant async_stop cancels the tasks the client counts as gone,     *)
(* although _mqtt_client is only cleared by the clean-up of the loop.      *)
Exposure == ready /\ ~cancelled

Life == INSTANCE ClientLife WITH
    phase <- IF ~Exposure THEN "off" ELSE IF loop = "greeting" THEN "ready" ELSE "served",
    up <- link /\ Exposure

(* Every run of the lifecycle is a run of ClientLife: the client is not    *)
(* exposed once the bridge has stopped listening, and not forgotten while  *)
(* its link works and nobody stops (_connect_and_serve, async_stop).       *)
ImplementsClientLife == Life!Spec

(* A change of the registry reaches the retained catalog, through the      *)
(* refresh task or the next connection, unless the bridge stops, its loop  *)
(* has ended for good, or the catalog has outgrown the packet budget: a    *)
(* refresh that is too large is logged and forgotten                       *)
(* (_refresh_catalog_metadata 490-495).                                    *)
CatalogCatchesUp == stale ~> (~stale \/ refused \/ stopping \/ loop = "ended")

(* A stop completes, with the loop and every task ended, even if the       *)
(* broker never acknowledges the farewell.                                 *)
StopEnds == stop # "none" ~> (stop = "done" /\ loop = "ended" /\ running = {})
=============================================================================

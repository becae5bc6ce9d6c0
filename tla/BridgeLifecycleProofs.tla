------------------------ MODULE BridgeLifecycleProofs ------------------------
(* Proofs about BridgeLifecycle for any number of broken links and of      *)
(* registry changes.                                                       *)
EXTENDS BridgeLifecycle, TLAPS

(* A bridge stops from the first step of a reload or an unload on, and     *)
(* listens until async_stop begins.                                        *)
StopInv ==
    /\ stop # "none" <=> stopping
    /\ heard # "none" => stopping
    /\ listening <=> stop \in {"none", "preparing", "prepared"}

(* A client is held throughout a connection, unless async_stop has already *)
(* forgotten it, and exposed only once the contract was announced.         *)
ClientInv ==
    /\ loop \in Connected => held \/ stopping
    /\ ready => loop \in {"greeting", "serving"}
    /\ loop = "cataloging" /\ link /\ ~stopping => catalog

LifeInv ==
    /\ TypeOK /\ StopInv /\ ClientInv
    /\ ReadyMeansAnnounced /\ FarewellIsLast /\ NothingOutlivesConnection

LEMMA InitLife == Init => LifeInv
  <1> SUFFICES ASSUME Init PROVE LifeInv
    OBVIOUS
  <1>1. drops \in 0..MaxDrops /\ changes \in 0..MaxChanges
    BY DropBound, ChangeBound DEF Init
  <1>2. TypeOK
    BY <1>1 DEF Init, TypeOK, Loops, Awaiting, Connected, Stages, Helpers
  <1>3. StopInv /\ ClientInv /\ ReadyMeansAnnounced /\ FarewellIsLast
        /\ NothingOutlivesConnection
    BY DEF Init, StopInv, ClientInv, ReadyMeansAnnounced, FarewellIsLast,
           NothingOutlivesConnection, Connected, Awaiting
  <1>4. QED
    BY <1>2, <1>3 DEF LifeInv

(* Every step keeps the invariant.                                         *)
LEMMA StepLife == LifeInv /\ [Next]_vars => LifeInv'
  <1> SUFFICES ASSUME LifeInv, [Next]_vars PROVE LifeInv'
    OBVIOUS
  <1> USE DropBound, ChangeBound
      DEF LifeInv, TypeOK, StopInv, ClientInv, ReadyMeansAnnounced, FarewellIsLast,
          NothingOutlivesConnection, Loops, Awaiting, Connected, Stages, Helpers,
          client, tasks, ending, broker, counts
  <1>1. CASE Dial
    BY <1>1 DEF Dial
  <1>2. ASSUME NEW next \in {"backoff", "ended"}, Unusable(next) PROVE LifeInv'
    <2>1. drops' \in 0..MaxDrops
      BY <1>2 DEF Unusable
    <2>2. TypeOK'
      BY <1>2, <2>1 DEF Unusable, Leave
    <2>3. QED
      BY <1>2, <2>2 DEF Unusable, Leave
  <1>3. CASE Connects
    BY <1>3 DEF Connects
  <1>4. CASE Subscribed
    BY <1>4 DEF Subscribed, HandOnline, MayAnnounce
  <1>5. CASE Announced
    BY <1>5 DEF Announced
  <1>6. CASE PublishCatalog
    BY <1>6 DEF PublishCatalog, CatalogDue, HandCatalog
  <1>7. CASE TooLarge
    BY <1>7 DEF TooLarge, HandOffline
  <1>8. CASE Retracted
    BY <1>8 DEF Retracted, Leave
  <1>9. CASE Cataloged
    <2>1. CASE stopping
      BY <1>9, <2>1 DEF Cataloged
    <2>2. CASE ~stopping
      <3>1. held /\ presence' = IF link THEN "online" ELSE presence
        BY <1>9, <2>2 DEF Cataloged, HandOnline, MayAnnounce
      <3>2. TypeOK'
        BY <1>9, <2>2, <3>1 DEF Cataloged
      <3>3. QED
        BY <1>9, <2>2, <3>1, <3>2 DEF Cataloged
    <2>3. QED
      BY <2>1, <2>2
  <1>10. CASE Greeted
    BY <1>10 DEF Greeted, StartRefreshIfReady
  <1>11. ASSUME NEW next \in {"backoff", "ended"}, Disconnected(next) PROVE LifeInv'
    BY <1>11 DEF Disconnected, Leave
  <1>12. CASE CleanedUp
    BY <1>12 DEF CleanedUp, Retired
  <1>13. CASE Retry
    BY <1>13 DEF Retry
  <1>14. CASE LoopCancelled
    BY <1>14 DEF LoopCancelled, Leave
  <1>15. CASE HaStarts
    BY <1>15 DEF HaStarts
  <1>16. CASE LinkBreaks
    <2>1. drops' \in 0..MaxDrops
      BY <1>16 DEF LinkBreaks
    <2>2. presence' \in {"none", presence} /\ catalog' \in BOOLEAN
      BY <1>16 DEF LinkBreaks
    <2>3. TypeOK'
      <3>1. presence' \in {"none", "online", "offline"}
        BY <2>2
      <3>2. /\ link' = FALSE
            /\ UNCHANGED <<loop, after, cancelled, held, ready, connected, started,
                           tasks, ending, stale, refused, changes>>
        BY <1>16 DEF LinkBreaks
      <3>3. {cancelled, link, held, ready, connected, started, attempted, pending,
             listening, stale, refused, stopping, skip, catalog}' \subseteq BOOLEAN
        BY <2>2, <3>2
      <3>4. QED
        BY <2>1, <3>1, <3>2, <3>3
    <2>4. QED
      BY <1>16, <2>2, <2>3 DEF LinkBreaks
  <1>17. CASE Beat
    BY <1>17 DEF Beat, HandOnline, MayAnnounce
  <1>18. CASE HelperEnds
    BY <1>18 DEF HelperEnds
  <1>19. CASE RegistryChanges
    <2>1. /\ changes' = changes + 1 /\ changes < MaxChanges
          /\ stale' = TRUE /\ refused' = FALSE /\ pending' = (pending \/ listening)
          /\ UNCHANGED <<loop, after, cancelled, client, started, attempted, running,
                         listening, ending, presence, catalog, drops>>
      BY <1>19 DEF RegistryChanges
    <2>2. refresh' = refresh \/ (refresh' = "sleeping" /\ ready)
      BY <1>19 DEF RegistryChanges, StartRefreshIfReady
    <2>3. {pending, stale, refused}' \subseteq BOOLEAN
      BY <2>1
    <2>4. changes' \in 0..MaxChanges
      BY <2>1
    <2>5. TypeOK'
      BY <2>1, <2>2, <2>3, <2>4
    <2>6. QED
      BY <2>1, <2>2, <2>5
  <1>20. CASE RefreshWakes
    <2>1. /\ refresh' = "off" \/ (refresh' = "sending" /\ ready)
          /\ UNCHANGED <<loop, after, cancelled, client, started, attempted, running,
                         listening, ending, presence, counts>>
      BY <1>20 DEF RefreshWakes
    <2>2. /\ (pending' = FALSE) \/ (pending' = pending)
          /\ (refused' = TRUE) \/ (refused' = refused)
      BY <1>20 DEF RefreshWakes
    <2>3. \/ catalog' = (catalog \/ link) /\ stale' = (stale /\ ~link)
          \/ catalog' = catalog /\ stale' = stale
      BY <1>20 DEF RefreshWakes, HandCatalog
    <2>4. {pending, refused, catalog, stale}' \subseteq BOOLEAN
      BY <2>2, <2>3
    <2>5. TypeOK'
      BY <2>1, <2>4
    <2>6. QED
      BY <2>1, <2>3, <2>5
  <1>21. CASE RefreshSent
    BY <1>21 DEF RefreshSent, NextRound
  <1>22. ASSUME NEW renamed \in BOOLEAN, PrepareReload(renamed) PROVE LifeInv'
    BY <1>22 DEF PrepareReload
  <1>23. CASE ClearsDone
    BY <1>23 DEF ClearsDone
  <1>24. CASE Unload
    BY <1>24 DEF Unload
  <1>25. CASE Quieted
    BY <1>25 DEF Quieted, HandOffline
  <1>26. CASE Offlined
    BY <1>26 DEF Offlined, CancelTasks
  <1>27. CASE Gathered
    BY <1>27 DEF Gathered, Complete
  <1>28. CASE TimedOut
    BY <1>28 DEF TimedOut, DeadlinePasses, Complete, CancelTasks
  <1>29. CASE UNCHANGED vars
    BY <1>29 DEF vars
  <1>30. QED
    BY <1>1, <1>2, <1>3, <1>4, <1>5, <1>6, <1>7, <1>8, <1>9, <1>10, <1>11, <1>12,
       <1>13, <1>14, <1>15, <1>16, <1>17, <1>18, <1>19, <1>20, <1>21, <1>22, <1>23,
       <1>24, <1>25, <1>26, <1>27, <1>28, <1>29 DEF Next, LoopStep

LEMMA AlwaysLife == Spec => []LifeInv
  BY InitLife, StepLife, PTL DEF Spec

(* Clients are held inside a connection only, and readiness presupposes a  *)
(* held one, for every instance (_connect_and_serve, async_stop).          *)
THEOREM TypeCorrect == Spec => []TypeOK
  <1>1. LifeInv => TypeOK
    BY DEF LifeInv
  <1>2. QED
    BY <1>1, AlwaysLife, PTL

(* Readiness is only ever exposed on an announced connection, also after   *)
(* any number of broker restarts (_connect_and_serve).                     *)
THEOREM ReadyIsAnnounced == Spec => []ReadyMeansAnnounced
  <1>1. LifeInv => ReadyMeansAnnounced
    BY DEF LifeInv
  <1>2. QED
    BY <1>1, AlwaysLife, PTL

(* Nothing declares a bridge online after its farewell, however many       *)
(* connections were set up before (_publish_presence, async_stop).         *)
THEOREM FarewellStaysLast == Spec => []FarewellIsLast
  <1>1. LifeInv => FarewellIsLast
    BY DEF LifeInv
  <1>2. QED
    BY <1>1, AlwaysLife, PTL

(* No helper task outlives its connection, however often it breaks         *)
(* (_mqtt_loop, _connect_and_serve).                                       *)
THEOREM ConnectionOutlivesItsTasks == Spec => []NothingOutlivesConnection
  <1>1. LifeInv => NothingOutlivesConnection
    BY DEF LifeInv
  <1>2. QED
    BY <1>1, AlwaysLife, PTL

------------------------------------------------------------------------------
(* A step that changes neither the exposure, its stage, the link of an     *)
(* exposed client nor the listening is invisible.                          *)
LEMMA Invisible ==
    ASSUME ~Exposure \/ (UNCHANGED <<loop, link>>), UNCHANGED <<Exposure, listening>>
    PROVE  UNCHANGED Life!vars
  BY DEF Life!vars

(* Every step of the lifecycle is a step of ClientLife or none.            *)
LEMMA StepIsLifes == LifeInv /\ [Next]_vars => [Life!Next]_(Life!vars)
  <1> SUFFICES ASSUME LifeInv, [Next]_vars PROVE [Life!Next]_(Life!vars)
    OBVIOUS
  <1> USE DEF client, tasks, ending, broker, counts, Exposure
  <1>t. /\ {cancelled, link, ready, listening} \subseteq BOOLEAN
        /\ ready => loop \in {"greeting", "serving"}
        /\ stop # "none" <=> stopping
        /\ listening <=> stop \in {"none", "preparing", "prepared"}
    BY DEF LifeInv, TypeOK, StopInv, ClientInv
  <1>1. CASE Cataloged
    <2>1. CASE stopping
      BY <1>1, <2>1, <1>t, Invisible DEF Cataloged
    <2>2. CASE ~stopping
      <3>1. /\ loop = "cataloging" /\ ~cancelled /\ ~ready /\ listening
            /\ loop' = "greeting" /\ ready' = TRUE
            /\ UNCHANGED <<cancelled, link, listening>>
        BY <1>1, <2>2, <1>t DEF Cataloged
      <3>2. Life!Exposed
        BY <3>1, <1>t DEF Life!Exposed
      <3>3. QED
        BY <3>2 DEF Life!Next
    <2>3. QED
      BY <2>1, <2>2
  <1>2. CASE Greeted
    <2>1. /\ loop = "greeting" /\ loop' = "serving"
          /\ UNCHANGED <<cancelled, link, ready, listening>>
      BY <1>2 DEF Greeted
    <2>2. CASE Exposure
      BY <2>1, <2>2 DEF Life!Greeted, Life!Next
    <2>3. CASE ~Exposure
      BY <2>1, <2>3, Invisible
    <2>4. QED
      BY <2>2, <2>3
  <1>3. ASSUME NEW next \in {"backoff", "ended"}, Disconnected(next)
        PROVE  [Life!Next]_(Life!vars)
    <2>1. /\ loop # "greeting" /\ link = FALSE /\ link' = FALSE /\ ready' = FALSE
          /\ UNCHANGED <<cancelled, listening>>
      BY <1>3, <1>t DEF Disconnected, Leave, Awaiting
    <2>2. CASE Exposure
      BY <2>1, <2>2 DEF Life!Disconnected, Life!Next
    <2>3. CASE ~Exposure
      BY <2>1, <2>3, Invisible
    <2>4. QED
      BY <2>2, <2>3
  <1>4. CASE LinkBreaks
    <2>1. link /\ link' = FALSE /\ UNCHANGED <<loop, cancelled, ready, listening>>
      BY <1>4 DEF LinkBreaks
    <2>2. CASE Exposure
      BY <2>1, <2>2 DEF Life!LinkBreaks, Life!Next
    <2>3. CASE ~Exposure
      BY <2>1, <2>3, Invisible
    <2>4. QED
      BY <2>2, <2>3
  <1>5. CASE Unload
    <2>1. listening /\ listening' = FALSE /\ UNCHANGED <<loop, cancelled, link, ready>>
      BY <1>5, <1>t DEF Unload
    <2>2. QED
      BY <2>1 DEF Life!StopListening, Life!Next
  <1>6. CASE Offlined \/ Gathered \/ TimedOut
    <2>1. ~listening /\ UNCHANGED listening /\ (cancelled' = TRUE \/ ready' = FALSE)
      BY <1>6, <1>t DEF Offlined, Gathered, TimedOut, DeadlinePasses, Complete, CancelTasks
    <2>2. Exposure' = FALSE
      BY <2>1
    <2> HIDE DEF Exposure
    <2>3. (link /\ Exposure)' = FALSE
      BY <2>2
    <2>4. (IF ~Exposure THEN "off" ELSE IF loop = "greeting" THEN "ready" ELSE "served")'
            = "off"
      BY <2>2
    <2>5. Life!StopCompletes
      BY <2>1, <2>3, <2>4, Zenon DEF Life!StopCompletes
    <2>6. QED
      BY <2>5 DEF Life!Next
  <1>7. CASE LoopCancelled
    BY <1>7, <1>t, Invisible DEF LoopCancelled, Leave
  <1>8. CASE \/ Dial \/ Connects \/ Subscribed \/ Announced \/ PublishCatalog
             \/ Retracted \/ CleanedUp \/ Retry \/ TooLarge
             \/ \E next \in {"backoff", "ended"} : Unusable(next)
    <2>1. loop \notin {"greeting", "serving"} /\ UNCHANGED <<cancelled, listening>>
          /\ ready' \in {ready, FALSE}
      BY <1>8 DEF Dial, Connects, Subscribed, Announced, PublishCatalog, Retracted,
                  CleanedUp, Retry, TooLarge, Unusable, Leave
    <2>2. QED
      BY <2>1, <1>t, Invisible
  <1>9. CASE \/ HaStarts \/ Beat \/ HelperEnds \/ RegistryChanges \/ RefreshWakes
             \/ RefreshSent \/ ClearsDone \/ Quieted \/ UNCHANGED vars
             \/ \E renamed \in BOOLEAN : PrepareReload(renamed)
    <2>1. UNCHANGED <<loop, cancelled, link, ready, listening>>
      BY <1>9 DEF HaStarts, Beat, HelperEnds, RegistryChanges, RefreshWakes, RefreshSent,
                  ClearsDone, Quieted, PrepareReload, vars
    <2>2. QED
      BY <2>1, Invisible
  <1>10. QED
    BY <1>1, <1>2, <1>3, <1>4, <1>5, <1>6, <1>7, <1>8, <1>9 DEF Next, LoopStep

(* The lifecycle implements ClientLife: whatever links, reloads and stops  *)
(* do, what StateStream takes from ClientLife is what the loop does        *)
(* (_mqtt_loop, _connect_and_serve, async_stop).                           *)
THEOREM LifecycleKeepsClientLife == Spec => ImplementsClientLife
  <1>1. Init => Life!Init
    BY DEF Init, Life!Init, Exposure
  <1>2. QED
    BY <1>1, StepIsLifes, AlwaysLife, PTL DEF Spec, ImplementsClientLife, Life!Spec
=============================================================================

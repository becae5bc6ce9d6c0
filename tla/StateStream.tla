----------------------------- MODULE StateStream -----------------------------
(***************************************************************************)
(* Live state events of one BridgeCoordinator (coordinator.py): the        *)
(* bounded backlog that coalesces the events of an entity, the one worker  *)
(* that drains it while the MQTT client is ready, and what a publish meets *)
(* after its awaits: another connection, a grant that changed.             *)
(*                                                                         *)
(* An event is handed to the socket of the client that was current when it *)
(* was taken; the broker receives, in order, what a working link is        *)
(* handed.  Broker and HA Core are external.                               *)
(***************************************************************************)
EXTENDS Naturals, Sequences, FiniteSets, SequencesExt

CONSTANTS
    Entities,    \* entities the bridge may publish
    Transient,   \* those of the event and button domains
    MaxPending,  \* MAX_PENDING_STATE_EVENTS
    MaxEvents,   \* bound on the events HA fires
    MaxBreaks,   \* bound on broken links
    MaxRegrants  \* bound on changes of the device grant

ASSUME TransientAreEntities == Transient \subseteq Entities
ASSUME BacklogBound == MaxPending \in Nat \ {0}
ASSUME StreamBounds == MaxEvents \in Nat /\ MaxBreaks \in Nat /\ MaxRegrants \in Nat

VARIABLES
    arrived,   \* events accepted so far, in order (history)
    reading,   \* the last state change of each entity, 0 before the first
    queue,     \* _pending_state_events, in insertion order
    worker,    \* where _state_worker is; "cancelled": a stop has ended it
    taken,     \* the event the worker has popped and publishes
    lost,      \* events the bridge counted as dropped or failed
    withdrawn, \* events discarded with their grant, which nothing counts (history)
    sent,      \* events the broker has received, in order (history)
    conn,      \* off; ready: the client is exposed; served: it was greeted
    epoch,     \* number of the connection
    up,        \* the link of the connection works
    granted,   \* entities the device grant allows
    listening, \* state changes are listened to
    regrants   \* changes of the grant so far

backlog == <<queue, worker, taken, lost, withdrawn>>
link == <<conn, epoch, up>>
vars == <<arrived, reading, backlog, sent, link, granted, listening, regrants>>

-----------------------------------------------------------------------------
(* An event is numbered by its arrival; it carries the reading of its      *)
(* entity, and "display" events repeat one instead of reporting a change.  *)
Kinds == {"state", "display"}
Events == [entity : Entities, reading : 0..MaxEvents, kind : Kinds, at : 1..MaxEvents]
Numbers(events) == {event.at : event \in ToSet(events)}

Ready == conn # "off"

Init ==
    /\ arrived = <<>> /\ sent = <<>>
    /\ reading = [e \in Entities |-> 0]
    /\ queue = <<>> /\ worker = "off" /\ taken = <<>>
    /\ lost = {} /\ withdrawn = {}
    /\ conn = "off" /\ epoch = 0 /\ up = FALSE
    /\ granted = Entities /\ listening = TRUE /\ regrants = 0

-----------------------------------------------------------------------------
(* The backlog.                                                            *)

(* Every state change of an event or button entity has a key of its own.   *)
OwnKey(event) == event.entity \in Transient /\ event.kind = "state"
SameKey(old, new) == ~OwnKey(old) /\ ~OwnKey(new) /\ old.entity = new.entity

(* Variant with a bug: the newer event takes the place of the older one.   *)
EnqueueInPlace(q, new) ==
    IF \E i \in DOMAIN q : SameKey(q[i], new)
    THEN [i \in DOMAIN q |-> IF SameKey(q[i], new) THEN new ELSE q[i]]
    ELSE Append(q, new)

(* Variant with a bug: occurrences of one button are coalesced as well.    *)
EnqueueByEntity(q, new) ==
    Append(SelectSeq(q, LAMBDA old : old.entity # new.entity), new)

(* The backlog is a dict: no two of its events have one key.               *)
PopKey(q, new) ==
    IF \E i \in DOMAIN q : SameKey(q[i], new)
    THEN RemoveAt(q, CHOOSE i \in DOMAIN q : SameKey(q[i], new))
    ELSE q

(* The newest event of a key replaces the older one, at the end.           *)
Enqueue(q, new) == Append(PopKey(q, new), new)

(* Variant with a bug: the limit is checked before the insertion.          *)
TrimLate(q) == IF Len(q) > MaxPending + 1 THEN Tail(q) ELSE q

(* The globally oldest events are dropped when the backlog overflows.      *)
Trim(q) == IF Len(q) > MaxPending THEN SubSeq(q, Len(q) - MaxPending + 1, Len(q)) ELSE q

(* _start_state_worker_if_ready                                            *)
StartWorker(q, ready) ==
    worker' = IF q # <<>> /\ ready /\ worker = "off" THEN "looping" ELSE worker

(* _on_state_changed: an event of an entity outside the grant is ignored   *)
(* (and left out of the model: it changes nothing the bridge keeps).       *)
Accept(event) ==
    /\ listening /\ event.entity \in granted
    /\ LET longer == Enqueue(queue, event)
       IN /\ queue' = Trim(longer)
          /\ lost' = lost \cup (Numbers(longer) \ Numbers(Trim(longer)))
          /\ StartWorker(queue', Ready)
    /\ arrived' = Append(arrived, event)
    /\ UNCHANGED <<taken, withdrawn, sent, link, granted, listening, regrants>>

NextNumber == Len(arrived) + 1

StateChanges(e) ==
    /\ Len(arrived) < MaxEvents
    /\ reading' = [reading EXCEPT ![e] = NextNumber]
    /\ Accept([entity |-> e, reading |-> NextNumber, kind |-> "state", at |-> NextNumber])

(* _on_display_metadata_changed queues the entity's current reading again. *)
DisplayChanges(e) ==
    /\ Len(arrived) < MaxEvents
    /\ e \notin Transient
    /\ Accept([entity |-> e, reading |-> reading[e], kind |-> "display", at |-> NextNumber])
    /\ UNCHANGED reading

-----------------------------------------------------------------------------
(* _state_worker and _publish_state_from_event.                            *)

(* The worker returns when the backlog is empty or the client is gone.     *)
Rest ==
    /\ worker = "looping" /\ (queue = <<>> \/ ~Ready)
    /\ worker' = "off"
    /\ UNCHANGED <<arrived, reading, queue, taken, lost, withdrawn, sent, link,
                   granted, listening, regrants>>

(* The oldest event is popped, for the client of the moment; one whose     *)
(* entity left the grant meanwhile is discarded.                           *)
Take ==
    /\ worker = "looping" /\ queue # <<>> /\ Ready
    /\ queue' = Tail(queue)
    /\ IF Head(queue).entity \in granted
       THEN /\ taken' = <<[event |-> Head(queue), epoch |-> epoch]>>
            /\ worker' = "preparing"
            /\ UNCHANGED withdrawn
       ELSE /\ withdrawn' = withdrawn \cup {Head(queue).at}
            /\ UNCHANGED <<taken, worker>>
    /\ UNCHANGED <<arrived, reading, lost, sent, link, granted, listening, regrants>>

(* Variant with a bug: what was granted when the event was taken stands.   *)
StillGrantedAsTaken(e) == TRUE

(* The grant is checked again once the display resources were loaded.      *)
StillGranted(e) == e \in granted

Publish ==
    /\ worker = "preparing"
    /\ LET event == taken[1].event
       IN /\ StillGranted(event.entity)
          /\ up /\ taken[1].epoch = epoch
          /\ sent' = Append(sent, event)
    /\ worker' = "publishing"
    /\ UNCHANGED <<arrived, reading, queue, taken, lost, withdrawn, link, granted,
                   listening, regrants>>

(* The grant changed, the packet is too large, the client it was taken for *)
(* is gone, or the acknowledgement does not come: counted, never retried.  *)
PublishFails ==
    /\ worker \in {"preparing", "publishing"}
    /\ lost' = lost \cup {taken[1].event.at}
    /\ taken' = <<>>
    /\ worker' = "looping"
    /\ UNCHANGED <<arrived, reading, queue, withdrawn, sent, link, granted,
                   listening, regrants>>

Acknowledged ==
    /\ worker = "publishing" /\ up /\ taken[1].epoch = epoch
    /\ taken' = <<>>
    /\ worker' = "looping"
    /\ UNCHANGED <<arrived, reading, queue, lost, withdrawn, sent, link, granted,
                   listening, regrants>>

-----------------------------------------------------------------------------
(* The connection, the grant and the stop: the steps of ClientLife, which  *)
(* BridgeLifecycle implements, with what they do to the stream.            *)

Life == INSTANCE ClientLife WITH phase <- conn

BecomesReady ==
    /\ epoch =< MaxBreaks
    /\ Life!Exposed
    /\ epoch' = epoch + 1
    /\ UNCHANGED <<arrived, reading, backlog, sent, granted, regrants>>

(* Variant with a bug: only new events start the worker.                   *)
GreetOnly(q) == UNCHANGED worker

(* A backlog from before the connection starts the worker, too.            *)
GreetBacklog(q) == StartWorker(q, TRUE)

Greeted ==
    /\ Life!Greeted
    /\ GreetBacklog(queue)
    /\ UNCHANGED <<arrived, reading, queue, taken, lost, withdrawn, epoch, sent,
                   granted, regrants>>

LinkBreaks ==
    /\ Life!LinkBreaks
    /\ UNCHANGED <<arrived, reading, backlog, sent, epoch, granted, regrants>>

(* The loop noticed: the clients are forgotten; the worker is left alone.  *)
Disconnected ==
    /\ Life!Disconnected
    /\ UNCHANGED <<arrived, reading, backlog, sent, epoch, granted, regrants>>

Regrant(e) ==
    /\ regrants < MaxRegrants
    /\ regrants' = regrants + 1
    /\ granted' = IF e \in granted THEN granted \ {e} ELSE granted \cup {e}
    /\ UNCHANGED <<arrived, reading, backlog, sent, link, listening>>

(* async_stop first stops listening, and at the end cancels the worker and *)
(* clears the backlog; the worker goes on in between.  What waits and what *)
(* is in hand by then is given up, and nothing counts it.                  *)
StopListening ==
    /\ Life!StopListening
    /\ UNCHANGED <<arrived, reading, backlog, sent, epoch, granted, regrants>>

StopCompletes ==
    /\ Life!StopCompletes
    /\ queue' = <<>> /\ worker' = "cancelled" /\ taken' = <<>>
    /\ UNCHANGED <<arrived, reading, lost, withdrawn, sent, epoch, granted, regrants>>

-----------------------------------------------------------------------------
WorkerStep == Rest \/ Take \/ Publish \/ PublishFails \/ Acknowledged

Next ==
    \/ \E e \in Entities : StateChanges(e) \/ DisplayChanges(e) \/ Regrant(e)
    \/ WorkerStep
    \/ BecomesReady \/ Greeted \/ LinkBreaks \/ Disconnected
    \/ StopListening \/ StopCompletes

Spec == Init /\ [][Next]_vars

(* asyncio runs the worker and the loop whenever they can go on, and every *)
(* publish is acknowledged or times out.                                   *)
Fairness == WF_vars(WorkerStep) /\ WF_vars(Greeted)

FairSpec == Spec /\ Fairness

-----------------------------------------------------------------------------
(* Every variable keeps to its values, the backlog to its limit, and an    *)
(* event is in the worker's hands exactly while it is being published.     *)
TypeOK ==
    /\ {queue, arrived, sent} \subseteq Seq(Events)
    /\ Len(queue) =< MaxPending
    /\ reading \in [Entities -> 0..MaxEvents]
    /\ worker \in {"off", "looping", "preparing", "publishing", "cancelled"}
    /\ (taken # <<>>) = (worker \in {"preparing", "publishing"})
    /\ lost \cup withdrawn \subseteq 1..MaxEvents
    /\ conn \in {"off", "ready", "served"} /\ epoch \in 0..(MaxBreaks + 1)
    /\ {up, listening} \subseteq BOOLEAN
    /\ granted \subseteq Entities /\ regrants \in 0..MaxRegrants

InHands == IF worker = "preparing" THEN <<taken[1].event>> ELSE <<>>
Stream == sent \o InHands \o queue

(* What was received, is being published and waits forms one sequence in   *)
(* order of arrival: the broker sees the changes in order across every     *)
(* reconnection, and an overflow drops the globally oldest event           *)
(* (_trim_pending_state_events).                                           *)
StreamInOrder ==
    \A i, j \in DOMAIN Stream : i < j => Stream[i].at < Stream[j].at

(* An accepted event is received, under way, counted as dropped or failed, *)
(* withdrawn with its grant, or superseded by a later event of its entity; *)
(* no occurrence at an event or button entity is ever superseded           *)
(* (EVENTS_SPEC, line 250).  Only the end of a stop gives events up        *)
(* without a trace, those that wait and the one in hand (async_stop 574).  *)
NothingLostSilently ==
    worker # "cancelled" => \A i \in DOMAIN arrived :
        \/ i \in Numbers(Stream) \cup lost \cup withdrawn
        \/ \E j \in DOMAIN arrived : i < j /\ SameKey(arrived[i], arrived[j])

(* No state of an entity outside the device grant is handed to the broker, *)
(* also when the grant changes while the event waits or is prepared.       *)
OnlyGrantedIsPublished ==
    [][sent' # sent => Last(sent').entity \in granted]_vars

(* The backlog drains for as long as the client is ready.                  *)
BacklogDrains == (queue # <<>> /\ Ready) ~> (queue = <<>> \/ ~Ready)

(* A display_metadata message only repeats a reading: it never is the one  *)
(* that brings a state change nobody else has reported, received, counted  *)
(* as lost or withdrawn (EVENTS_SPEC, line 230).  The code may break this: *)
(* see the findings.                                                       *)
DisplayOnlyRepeats ==
    \A i \in DOMAIN sent : sent[i].kind = "display" =>
        sent[i].reading \in {0} \cup lost \cup withdrawn
            \cup {sent[j].reading : j \in {k \in 1..i : sent[k].kind = "state"}}
=============================================================================

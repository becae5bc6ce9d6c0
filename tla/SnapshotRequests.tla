--------------------------- MODULE SnapshotRequests ---------------------------
(***************************************************************************)
(* Read requests of one BridgeCoordinator (coordinator.py): the admission  *)
(* of command handlers, the one snapshot slot, the snapshot stream with    *)
(* its receipts and their cache, the aggregated GET /api/states, a GET     *)
(* that echoes one entity, and the catalog query, while the device grant   *)
(* is edited and connections are replaced.                                 *)
(*                                                                         *)
(* A grant is the set of entities it allows and stands for its fingerprint *)
(* too.  Every publish hands its message to the socket at once and then    *)
(* waits; a link that is down refuses it.  Handlers hold the client of the *)
(* connection, which replaces it only after they have all been retired.    *)
(***************************************************************************)
EXTENDS Naturals, Sequences, FiniteSets

CONSTANTS
    Handlers,            \* MAX_INFLIGHT_COMMANDS task slots
    Msgs,                \* message ids of requests
    Entities,            \* entities in HA's state machine
    Grants,              \* the grants the user may configure
    MaxSnapshotEntities, \* MAX_SNAPSHOT_ENTITIES
    MaxReplies,          \* receipts kept by _snapshot_replies (64)
    None,                \* no request, entity or receipt
    MaxCommands,         \* bound on the commands that arrive
    MaxBreaks,           \* bound on broken links
    MaxRegrants          \* bound on edits of the grant

Outcomes == {"complete", "partial", "failed"}

(* A reply of the cache stands for its two receipts, accepted and finished. *)
ReplyRecord == [msg : Msgs, scope : Grants, outcome : Outcomes]

ASSUME GrantsAllowEntities == Grants # {} /\ Grants \subseteq SUBSET Entities
ASSUME NoneIsNoName ==
    /\ None \notin Msgs \union Entities
    /\ None \notin [client : Nat, msg : Msgs] \union [client : Nat, scope : Grants]
    /\ None \notin ReplyRecord
ASSUME SnapshotBounds ==
    /\ MaxSnapshotEntities \in Nat /\ MaxReplies \in Nat \ {0}
    /\ MaxCommands \in Nat /\ MaxBreaks \in Nat /\ MaxRegrants \in Nat

VARIABLES
    task,     \* the handler in each slot
    request,  \* _snapshot_request
    replies,  \* _snapshot_replies, oldest first
    cacheOf,  \* _snapshot_client and _snapshot_scope_fingerprint
    conn,     \* number of the connection, which names its client
    up,       \* its link works
    grant,    \* the device grant
    wire,     \* what this connection's consumer was handed of snapshots (history)
    last,     \* the message the last step has handed, if any (history)
    commands, \* commands that arrived so far
    regrants  \* edits of the grant so far

slot == <<request, replies, cacheOf>>
history == <<wire, last>>
vars == <<task, slot, conn, up, grant, history, commands, regrants>>

-----------------------------------------------------------------------------
(* "snapshot" is /api/seenzus/states/snapshot, "states" is /api/states,    *)
(* "entity" is /api/states/<entity>, "catalog" the device catalog.         *)
Paths == {"snapshot", "states", "entity", "catalog"}
SnapshotPaths == {"snapshot", "states"}
TaskRecord ==
    [pc : {"accepting", "replaying", "reading", "answering", "cataloging",
           "streaming", "displaying", "ending", "refused"},
     path : Paths, msg : Msgs \union {None}, scope : Grants,
     left : SUBSET Entities, \* entities to publish yet
     at : Entities \union {None}, \* the entity whose display resources load
     omitted : BOOLEAN,      \* a state was too large
     results : Nat,          \* results handed for this command
     reply : ReplyRecord \union {None}]

Idle == [pc |-> "idle"]
Nothing == [kind |-> "none", data |-> {}]
Working == {h \in Handlers : task[h] # Idle}

Handler(path, msg, pc) ==
    [pc |-> pc, path |-> path, msg |-> msg, scope |-> grant, left |-> {},
     at |-> None, omitted |-> FALSE, results |-> 0, reply |-> None]

Receipts ==
    [kind : {"accepted"}, msg : Msgs, scope : Grants, outcome : {None}]
    \union [kind : {"finished"}, msg : Msgs, scope : Grants, outcome : Outcomes]
States == [kind : {"state"}, msg : Msgs, entity : Entities]

Accepted(msg, scope) ==
    [kind |-> "accepted", msg |-> msg, scope |-> scope, outcome |-> None]
Finished(r) ==
    [kind |-> "finished", msg |-> r.msg, scope |-> r.scope, outcome |-> r.outcome]

TypeOK ==
    /\ task \in [Handlers -> TaskRecord \union {Idle}]
    /\ request \in [client : 1..MaxBreaks + 1, msg : Msgs] \union {None}
    /\ replies \in Seq(ReplyRecord) /\ Len(replies) <= MaxReplies
    /\ \A i, j \in DOMAIN replies : replies[i].msg = replies[j].msg => i = j
    /\ cacheOf \in [client : 1..MaxBreaks + 1, scope : Grants] \union {None}
    /\ conn \in 1..MaxBreaks + 1 /\ up \in BOOLEAN /\ grant \in Grants
    /\ wire \subseteq Receipts \union States
    /\ last \in [kind : {"none", "whole", "part"}, data : SUBSET Entities]
    /\ commands \in 0..MaxCommands /\ regrants \in 0..MaxRegrants

Init ==
    /\ task = [h \in Handlers |-> Idle]
    /\ request = None /\ replies = <<>> /\ cacheOf = None
    /\ conn = 1 /\ up = TRUE /\ grant \in Grants
    /\ wire = {} /\ last = Nothing
    /\ commands = 0 /\ regrants = 0

-----------------------------------------------------------------------------
(* Publishing: what is handed to a link that is up, and the waits after it. *)

Hand(evidence) == wire' = IF up THEN wire \union evidence ELSE wire
Describe(kind, data) ==
    last' = IF up THEN [kind |-> kind, data |-> data] ELSE Nothing
NothingHanded == last' = Nothing /\ UNCHANGED wire

(* Handler h goes on as t, having published a result.                      *)
Tell(h, t) ==
    task' = [task EXCEPT ![h] = [t EXCEPT !.results = IF up THEN @ + 1 ELSE @]]

(* A result that cannot carry its data says so: the caller goes without,   *)
(* _publish_result returns False to those that require it in full.         *)
TellNothing(h, t) == Tell(h, t) /\ NothingHanded

(* Variant with a bug: the grant is not looked at again after an await.    *)
StillScopedAsBefore(t) == TRUE

StillScoped(t) == t.scope = grant

-----------------------------------------------------------------------------
(* The slot and the cache.                                                 *)

(* Variant with a bug: every handler of a snapshot path releases the slot. *)
HoldsByPath(t) == t # Idle /\ t.path \in SnapshotPaths
(* Variant with a bug: a receipt that was not accepted keeps the slot.     *)
HoldsOnceAccepted(t) ==
    /\ t # Idle /\ t.path \in SnapshotPaths
    /\ t.pc \notin {"refused", "replaying", "accepting"}

(* Refused and replaying handlers return before the try of the handler.    *)
Holds(t) ==
    /\ t # Idle /\ t.path \in SnapshotPaths
    /\ t.pc \notin {"refused", "replaying"}

Release(h) == request' = IF Holds(task[h]) THEN None ELSE request

Mine(msg) == [client |-> conn, msg |-> msg]
Owner == [client |-> conn, scope |-> grant]

(* Variant with a bug: receipts outlive their connection.                  *)
CacheOfGrant == IF cacheOf # None /\ cacheOf.scope = grant THEN replies ELSE <<>>

(* Receipts of another client or another grant are forgotten.              *)
Cache == IF cacheOf = Owner THEN replies ELSE <<>>

(* Variant with a bug: the limit is checked before the insertion.          *)
RememberLate(r) == Append(IF Len(replies) > MaxReplies THEN Tail(replies) ELSE replies, r)

Remember(r) ==
    LET kept == Append(replies, r)
    IN IF Len(kept) > MaxReplies THEN Tail(kept) ELSE kept

-----------------------------------------------------------------------------
(* A command arrives and its handler runs up to its first await.           *)

Arrive(h) ==
    /\ up /\ task[h] = Idle /\ commands < MaxCommands
    /\ commands' = commands + 1
    /\ UNCHANGED <<conn, up, grant, regrants>>

Overloaded ==
    /\ up /\ Working = Handlers /\ commands < MaxCommands
    /\ commands' = commands + 1
    /\ NothingHanded /\ UNCHANGED <<task, slot, conn, up, grant, regrants>>

(* snapshot_in_progress; a repetition of the request in flight says nothing. *)
Busy(h, path, msg) ==
    /\ Arrive(h) /\ path \in SnapshotPaths
    /\ request # None /\ request # Mine(msg)
    /\ TellNothing(h, Handler(path, msg, "refused"))
    /\ UNCHANGED slot

Repeated(h, path, msg) ==
    /\ Arrive(h) /\ path \in SnapshotPaths /\ request = Mine(msg)
    /\ NothingHanded /\ UNCHANGED <<task, slot>>

(* A finished request is answered from the cache, without its states.      *)
Replay(h, msg) ==
    /\ Arrive(h) /\ request = None
    /\ cacheOf' = Owner /\ replies' = Cache
    /\ \E i \in DOMAIN Cache :
        /\ Cache[i].msg = msg
        /\ Tell(h, [Handler("snapshot", msg, "replaying") EXCEPT !.reply = Cache[i]])
        /\ Hand({Accepted(msg, Cache[i].scope)})
        /\ Describe("whole", Cache[i].scope)
    /\ UNCHANGED request

Begin(h, msg) ==
    /\ Arrive(h) /\ request = None
    /\ request' = Mine(msg) /\ cacheOf' = Owner /\ replies' = Cache

(* The states are captured before the first await; the receipt comes first. *)
StartStream(h, msg) ==
    /\ Begin(h, msg) /\ \A i \in DOMAIN Cache : Cache[i].msg # msg
    /\ Cardinality(grant) <= MaxSnapshotEntities
    /\ Tell(h, [Handler("snapshot", msg, "accepting") EXCEPT !.left = grant])
    /\ Hand({Accepted(msg, grant)}) /\ Describe("whole", grant)

ScopeTooLarge(h, msg) ==
    /\ Begin(h, msg) /\ \A i \in DOMAIN Cache : Cache[i].msg # msg
    /\ Cardinality(grant) > MaxSnapshotEntities
    /\ TellNothing(h, Handler("snapshot", msg, "ending"))

ReadAll(h, msg) ==
    /\ Begin(h, msg)
    /\ task' = [task EXCEPT ![h] = Handler("states", msg, "reading")]
    /\ NothingHanded

(* dispatch answers 404 to an entity outside the grant, and touches nothing. *)
ReadOne(h, e) ==
    /\ Arrive(h) /\ UNCHANGED slot
    /\ IF e \in grant
       THEN /\ task' = [task EXCEPT ![h] = [Handler("entity", None, "reading") EXCEPT !.at = e]]
            /\ NothingHanded
       ELSE TellNothing(h, Handler("entity", None, "ending"))

ReadCatalog(h) ==
    /\ Arrive(h) /\ UNCHANGED slot
    /\ \/ Tell(h, Handler("catalog", None, "cataloging"))
          /\ Describe("whole", grant) /\ UNCHANGED wire
       \/ TellNothing(h, Handler("catalog", None, "cataloging"))

-----------------------------------------------------------------------------
(* The handler goes on after an await.                                     *)

Turn(h, pcs) == task[h].pc \in pcs /\ UNCHANGED <<conn, up, grant, commands, regrants>>

Go(h, t) == task' = [task EXCEPT ![h] = t] /\ NothingHanded /\ UNCHANGED slot

(* What only the loop needs is dropped.                                    *)
Closing(h, pc) ==
    [task[h] EXCEPT !.pc = pc, !.left = {}, !.at = None, !.omitted = FALSE, !.reply = None]

End(h) ==
    /\ task' = [task EXCEPT ![h] = Idle] /\ Release(h)
    /\ NothingHanded /\ UNCHANGED <<replies, cacheOf>>

(* The last result was acknowledged, or _publish_result gave up on it.     *)
Ends(h) == Turn(h, {"ending", "refused"}) /\ End(h)

(* The second receipt of a replay follows whatever became of the first.    *)
ReplaySecond(h) ==
    /\ Turn(h, {"replaying"})
    /\ Tell(h, Closing(h, "refused"))
    /\ Hand({Finished(task[h].reply)}) /\ last' = Nothing /\ UNCHANGED slot

(* Nothing follows a result whose publish failed.  (Receipts always fit.)  *)
GivesUp(h) == Turn(h, {"accepting", "answering", "cataloging"}) /\ End(h)

Streams(h) ==
    /\ Turn(h, {"accepting"}) /\ up
    /\ Go(h, [task[h] EXCEPT !.pc = "streaming"])

(* dispatch has read under the grant of the command; the grant is compared *)
(* again before the result leaves.                                         *)
Answer(h) ==
    /\ Turn(h, {"reading"}) /\ StillScoped(task[h])
    /\ Tell(h, [task[h] EXCEPT !.pc = "answering"])
    /\ IF task[h].path = "states"
       THEN Describe("whole", task[h].scope)
       ELSE Describe("part", {task[h].at})
    /\ UNCHANGED <<slot, wire>>

(* response_too_large stands in for the data.                              *)
AnswerTooLarge(h) ==
    /\ Turn(h, {"reading"}) /\ StillScoped(task[h])
    /\ TellNothing(h, [task[h] EXCEPT !.pc = "answering"]) /\ UNCHANGED slot

(* device_grant_changed, or the exception HA raised.                       *)
AnswerError(h) ==
    /\ Turn(h, {"reading"})
    /\ TellNothing(h, Closing(h, "ending")) /\ UNCHANGED slot

(* The states follow the result, each read when its turn comes.            *)
Echoes(h) ==
    /\ Turn(h, {"answering"}) /\ up
    /\ Go(h, [task[h] EXCEPT !.pc = "streaming", !.at = None,
                !.left = IF task[h].path = "states" THEN Entities ELSE {task[h].at}])

(* The retained catalog repeats the one of the result.                     *)
Catalogs(h) ==
    /\ Turn(h, {"cataloging"}) /\ up /\ StillScoped(task[h])
    /\ task' = [task EXCEPT ![h].pc = "ending"]
    /\ Describe("whole", task[h].scope) /\ UNCHANGED <<slot, wire>>

-----------------------------------------------------------------------------
(* The loop over the states: of a snapshot stream, whose scope is fixed,   *)
(* or of the echo of a result.                                             *)

Snapshot(h) == task[h].path = "snapshot"

(* Variant with a bug: a stream that fails ends without its receipt.       *)
FinishIfPublished(h, outcome) ==
    IF outcome = "failed" THEN End(h)
    ELSE LET r == [msg |-> task[h].msg, scope |-> task[h].scope, outcome |-> outcome]
         IN /\ replies' = Remember(r) /\ UNCHANGED <<request, cacheOf>>
            /\ Tell(h, Closing(h, "ending"))
            /\ Hand({Finished(r)}) /\ last' = Nothing

(* The receipt is kept for repetitions before it is published.             *)
Finish(h, outcome) ==
    LET r == [msg |-> task[h].msg, scope |-> task[h].scope, outcome |-> outcome]
    IN /\ replies' = Remember(r) /\ UNCHANGED <<request, cacheOf>>
       /\ Tell(h, Closing(h, "ending"))
       /\ Hand({Finished(r)}) /\ last' = Nothing

Finishes(h) ==
    /\ Turn(h, {"streaming"}) /\ task[h].left = {}
    /\ IF Snapshot(h)
       THEN Finish(h, IF task[h].omitted THEN "partial" ELSE "complete")
       ELSE End(h)

Loads(h, e) ==
    /\ Turn(h, {"streaming"}) /\ e \in task[h].left
    /\ IF Snapshot(h) THEN StillScoped(task[h]) ELSE e \in grant
    /\ Go(h, [task[h] EXCEPT !.pc = "displaying", !.at = e])

(* An echo passes over what the grant excludes by now, a stream fails.     *)
Skips(h, e) ==
    /\ Turn(h, {"streaming"}) /\ ~Snapshot(h) /\ e \in task[h].left \ grant
    /\ Go(h, [task[h] EXCEPT !.left = @ \ {e}])

LosesGrant(h) ==
    /\ Turn(h, {"streaming"}) /\ Snapshot(h)
    /\ task[h].left # {} /\ ~StillScoped(task[h])
    /\ Finish(h, "failed")

(* The display resources are there: the entity must still be granted.      *)
Shows(h) ==
    LET e == task[h].at
    IN /\ Turn(h, {"displaying"}) /\ up /\ e \in grant
       /\ task' = [task EXCEPT ![h].pc = "streaming", ![h].left = @ \ {e}, ![h].at = None]
       /\ Describe("part", {e})
       /\ wire' = IF Snapshot(h)
                  THEN wire \union {[kind |-> "state", msg |-> task[h].msg, entity |-> e]}
                  ELSE wire
       /\ UNCHANGED slot

(* One state is too large: a batch goes on without it, the echo of one     *)
(* entity ends.                                                            *)
Omits(h) ==
    LET e == task[h].at
    IN /\ Turn(h, {"displaying"}) /\ e \in grant
       /\ IF task[h].path = "entity" THEN End(h)
          ELSE Go(h, [task[h] EXCEPT !.pc = "streaming", !.left = @ \ {e},
                        !.at = None, !.omitted = TRUE])

(* _publish_state_object raises PermissionError: the echo has an error     *)
(* result of its own.                                                      *)
Revoked(h) ==
    /\ Turn(h, {"displaying"}) /\ task[h].at \notin grant
    /\ IF Snapshot(h) THEN Finish(h, "failed")
       ELSE TellNothing(h, Closing(h, "ending")) /\ UNCHANGED slot

(* A publish raises, or the deadline of the stream passes.                 *)
Fails(h) ==
    /\ Turn(h, {"streaming", "displaying"})
    /\ IF Snapshot(h) THEN Finish(h, "failed") ELSE End(h)

-----------------------------------------------------------------------------
(* Around the handlers.                                                    *)

LinkBreaks ==
    /\ up /\ conn <= MaxBreaks /\ up' = FALSE
    /\ NothingHanded /\ UNCHANGED <<task, slot, conn, grant, commands, regrants>>

(* The loop retires the handlers of the old client, then connects again.   *)
Disconnected ==
    /\ ~up /\ up' = TRUE /\ conn' = conn + 1
    /\ task' = [h \in Handlers |-> Idle]
    /\ request' = IF \E h \in Handlers : Holds(task[h]) THEN None ELSE request
    /\ wire' = {} /\ last' = Nothing
    /\ UNCHANGED <<replies, cacheOf, grant, commands, regrants>>

Regrant ==
    /\ regrants < MaxRegrants /\ regrants' = regrants + 1
    /\ grant' \in Grants \ {grant}
    /\ NothingHanded /\ UNCHANGED <<task, slot, conn, up, commands>>

Receive(h, msg) ==
    \/ \E path \in SnapshotPaths : Busy(h, path, msg) \/ Repeated(h, path, msg)
    \/ Replay(h, msg) \/ StartStream(h, msg) \/ ScopeTooLarge(h, msg)
    \/ ReadAll(h, msg)

Step(h) ==
    \/ Ends(h) \/ ReplaySecond(h) \/ GivesUp(h) \/ Streams(h)
    \/ Answer(h) \/ AnswerTooLarge(h) \/ AnswerError(h) \/ Echoes(h) \/ Catalogs(h)
    \/ Finishes(h) \/ LosesGrant(h) \/ Shows(h) \/ Omits(h) \/ Revoked(h) \/ Fails(h)
    \/ \E e \in Entities : Loads(h, e) \/ Skips(h, e)

Next ==
    \/ \E h \in Handlers, msg \in Msgs : Receive(h, msg)
    \/ \E h \in Handlers, e \in Entities : ReadOne(h, e)
    \/ \E h \in Handlers : ReadCatalog(h)
    \/ \E h \in Handlers : Step(h)
    \/ Overloaded \/ LinkBreaks \/ Disconnected \/ Regrant

Spec == Init /\ [][Next]_vars

-----------------------------------------------------------------------------
(* Properties.                                                             *)

(* Never do two requested snapshots stream at once, through refusals,      *)
(* repetitions, replays and retired connections (_snapshot_request).       *)
Streaming == {h \in Handlers : task[h] # Idle /\ task[h].path \in SnapshotPaths
                                /\ task[h].pc \in {"streaming", "displaying"}}
OneStreamAtATime == Cardinality(Streaming) <= 1

(* A completion is proof: a consumer that was handed "complete" on this    *)
(* connection was handed, on the same connection, the accepted receipt of  *)
(* that scope and every state of it, also when receipts were replayed.     *)
CompleteIsWhole ==
    \A r \in wire : (r.kind = "finished" /\ r.outcome = "complete") =>
        /\ Accepted(r.msg, r.scope) \in wire
        /\ \A e \in r.scope : [kind |-> "state", msg |-> r.msg, entity |-> e] \in wire

(* What describes a grant leaves the bridge under the grant in force: an   *)
(* accepted receipt, an aggregated result or a catalog describes exactly   *)
(* that grant, a state is of an entity it allows.  A finished receipt may  *)
(* leave after the grant has changed (1225-1259), and a replayed one       *)
(* follows the accepted one without another look at the grant (1102-1103); *)
(* it then repeats the scope of an accepted receipt of its request that    *)
(* was handed before on the same connection, and names no other.           *)
HandedUnderGrant ==
    [][ /\ last'.kind = "whole" => last'.data = grant
        /\ last'.kind = "part" => last'.data \subseteq grant
        /\ \A r \in wire' \ wire :
              r.kind = "finished" => Accepted(r.msg, r.scope) \in wire ]_vars

(* The slot is taken only while a handler is at work that will release it: *)
(* no refusal, failure, replay or lost connection leaves it behind, which  *)
(* would answer every later snapshot with snapshot_in_progress.            *)
SlotIsHeld == request # None => \E h \in Handlers : Holds(task[h])

(* A stream that has begun does not end without a finished receipt while   *)
(* its link works, whether it completes, loses its grant or fails.         *)
BegunIsFinished ==
    [][\A h \in Streaming :
        (task[h].path = "snapshot" /\ h \notin Streaming' /\ up) =>
            \E r \in wire' : r.kind = "finished" /\ r.msg = task[h].msg
                             /\ r.scope = task[h].scope]_vars

(* An ordinary command has one result.  COMPACT_READS_V1 says so; a grant  *)
(* that is withdrawn during the echo of a result adds an error result.     *)
OneResultPerCommand ==
    \A h \in Handlers : task[h] # Idle /\ task[h].path # "snapshot" => task[h].results <= 1
=============================================================================

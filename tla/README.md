# Verification of the seenzus MQTT bridge

The seenzus bridge is a Home Assistant (HA) integration
(`custom_components/seenzus_bridge`) that pairs a house with the seenzus
backend, keeps an MQTT connection, streams states, announces itself by retained
presence and catalog, and executes commands. It is one asyncio program: nothing
runs in parallel, everything interleaves at `await`, and what is awaited (the
broker, HA's disk, HA's services, the backend's HTTP API) may fail, be late, be
cancelled, or be cut off by a restart. The modules below model that control and
leave out wording, formatting and payloads.

All paths are relative to `src/`; `coordinator.py` and the like are in
`src/custom_components/seenzus_bridge/`.

## 1. Inventory

| Component | State | Operations | Interacts with |
|---|---|---|---|
| Operation ledger, `operation_store.py` | rows in memory, rows in `.storage`, `_lock`, `_owned_claims` | `claim`, `mark_dispatched`, `complete`, `_load`, `_save` | called by `_handle_v2_command` around one HA call |
| Deferred pairing commit, `pairing_commit.py` | journal in memory and on disk, its lock, the commit task of an entry, orphan passes | `async_record`, `async_resolve`, `async_schedule_commit`, `_async_commit`, `_async_refused`, `async_resolve_orphans` | config entry, flows, backend |
| Config and options flows, `config_flow.py`, `quick_pair.py` | flow attributes, one pairing slot, parked flows, records of finished flows, entry watchers | claim the slot, exchange the code, journal, finish, remove, watch the entry | journal, HA's flow manager, browser and app callbacks |
| Pairing HTTP client, `pairing_bootstrap.py` | none | create session, status, exchange, `finalize_web_pairing` | backend |
| Bridge lifecycle, `coordinator.py`, `__init__.py`, `bridge_protocol.py` | loop, clients, helper tasks, `_stopping`, `_stop_complete`, retained presence and catalog | `async_start`, `_mqtt_loop`, `_connect_and_serve`, `_publish_presence`, catalog refresh, `async_prepare_for_reload`, `async_stop` | broker, HA start, device registry |
| Live state stream, `coordinator.py` | `_pending_state_events`, worker, drop counter | `_on_state_changed`, `_trim_pending_state_events`, `_state_worker` | HA event bus, grant, broker |
| Snapshots and command admission, `coordinator.py`, `ha_dispatcher.py` | `_command_tasks`, `_snapshot_request`, `_snapshot_replies` with their client and grant | `_schedule_message`, `_handle_v2_command`, `_publish_snapshot_stream`, `_publish_all_states`, `_publish_result` | grant, broker |
| History replay, startup snapshot | one task each | `_run_history_replay`, `_run_initial_snapshot` | recorder, broker |
| Device grant, `device_access.py` | two sets of ids in the entry | `allows`, `fingerprint`, filters | every publisher |
| Command dispatcher, `ha_dispatcher.py` | none | maps paths to HA calls | HA |
| Device catalog, `catalog.py`, `entity_filters.py` | none | builds one document | registries |
| MQTT transport, `mqtt_io_guard.py`, `mqtt_transport.py`, `mqtt_settings.py`, `mqtt_requirements.py` | registrations of a socket, queue of control replies, what is left of a frame | guards one WebSocket connection of Paho, validates settings | Paho, aiomqtt's connect thread |
| Topics, `bridge_protocol.py` | none | names, what a rename must clear | lifecycle |
| Sensors and texts, `sensor.py`, `sensor_display.py`, `dev_override.py` | none of their own | views and translations | HA |

What is hard: a crash between two of several writes with different owners
(journal, entry in memory, entry on disk, backend; claim, fence, HA call,
answer); a flow that a dialog, a callback and an unattended task may all resume;
a connect thread that outlives its waiter, and sends that TLS cuts; a grant that is edited while something awaits; handlers and helper
tasks that hold a client the loop has replaced; one slot, one lock and two
bounded buffers that must not be left taken, or lose the wrong thing; lost answers and
repeated requests. `PROJECT.json` lists these hazards line by line with the
properties that catch them.

What makes each component correct, in a sentence: a keyed command reaches HA at
most once and every answer is genuine; backend and HA keep the previous
connection unless both reach the new one; one flow rotates credentials at a time,
and the user is told of a success only when there is one; the peer of a
WebSocket reads whole frames, and what is queued for it leaves; a ready bridge is announced and
nothing of it outlives its connection; the state stream is ordered, and until a
stop what it loses is counted; one snapshot streams at a time, and its completion
proves a whole snapshot; no state, result, catalog or accepted receipt leaves the
bridge under a grant that is gone.

## 2. Modules

```
OperationLedger ----refines----> OperationPromise        (INSTANCE ... WITH)
   |-- MCOperationLedger         |-- OperationLedgerProofs <-- OperationAnswersProofs
PairingCommit      -- MCPairingCommit,     PairingCommitInvariant <-- PairingCommitProofs
QuickPair          -- MCQuickPair,         QuickPairProofs
BridgeLifecycle ----refines----> ClientLife <----takes its connection from---- StateStream
   |-- MCBridgeLifecycle, BridgeLifecycleProofs       MCStateStream, StateStreamProofs --|
SnapshotRequests   -- MCSnapshotRequests,  SnapshotRequestsProofs
WebSocketWriter    -- MCWebSocketWriter,   WebSocketWriterProofs
```

In each module one action is one synchronous stretch of code between two awaits
(or one decision of the environment), with everything the stretch writes. Small
operators with a comment "Variant with a bug" are deliberately wrong
versions of the definition below them; no specification uses them. They show
that each property can be violated by a plausible mistake. `PROJECT.json` maps
every definition to its lines.

### OperationLedger, OperationPromise

`rows`, `disk`, `owned`, `loaded`, `lock` are the store; `pc`, `msg`, `reply`
the handlers; `called` and `answer` the history of HA calls. `Claim`,
`MarkDispatched`, `Complete` take the lock and start a save; `WriteLands` is the
write; `ClaimSaved`, `Dispatch`, `CompleteSaved` go on after it, `SaveRaises`
does not. `Cancel` is `_stop_connection_commands`, `Restart` a crash or a
reload, `Damage` an unreadable row (kept as `Frozen` by `_load`), `ChangeGrant`
an edit of the grant. `OperationPromise` states what the operator documentation
promises of a key, with one variable per idea (fate, recorded answer, sent,
verdict) and no lock, memory or handlers; the ledger refines it through its rows
on disk.

Abstractions: a save that returned has been written (HA's `Store` swallowing
its own write errors lies outside `src/`); a save that raised or was cancelled
may or may not have been written, but is not written later; a failed publish of
the reply is a client that ignores it; an old and a new store on one file,
after a clean-up that timed out, is not modelled. A handler cancelled after its
claim leaves the key owned, so that retries are answered `request_in_progress`
until a reload: the model shows it, no document promises otherwise.

### PairingCommit

The backend (`back`, `active`, `loose`: a commit that outlives its sender), the
flows, the journal in memory (`journal`) and on disk (`file`) behind a FIFO lock,
the entry in memory (`entry`) and on disk (`saved`), the commit task and the
orphan passes. The backend and HA's delayed save are external; commit and cancel
are idempotent, may go unanswered, and a candidate may expire.

Abstractions: one entry, created at most once; pairings are serialised by
`_claim_pairing_slot`; a connection is named by the session it came from; title,
unique id and options travel with the connection; a cancel that is late looks
like an expiry; background passes are bounded by `Background`; attempts of a
request are not counted; failures of HA to set an entry up are not modelled.

### QuickPair

The browser pairing that config and options flows share. `flow` is what HA shows
of each flow, whether it is parked, and its handshake; `slot` is
`pairing_flow_owner`, `tries` the current callback state, `record`
`quick_pair_completed_states`, `watching` the entry watchers, `kept` the entry as
HA holds it. A *visit* is one task that drives a flow: a request of the dialog, a
callback of the browser or of the app, or `_resume_if_unattended`. `Start` claims
the slot, `CallbackArrives` begins the exchange, `ExchangeAnswered` and
`Journaled` go on after it, `Finish` (run by `DialogFinishes`,
`UnattendedWakes` and the app's callback) is `_finish_quick_pair_once`,
`CommitRegisters`, `CommitEnds` and `CommitRaises` are HA's finish of the flow,
`Cleanup` is `_cleanup_abandoned_finish`, `WatcherSees` is
`_watch_pairing_entry`. A user may `Cancel`, a request may be `Cut`. It covers
what precedes PairingCommit, whose flows start at the exchange.

Abstractions: one request at a time submits a form of a flow; the awaits of
identity and presets are one step; callbacks that are only refused (400, 410,
202) change nothing; a callback takes its payload in the step in which it
arrives; the form for scope, devices, environment or a manual pairing is one
form; what becomes of the candidate is PairingCommit's; a restart ends all flows
and is Init again; the limits of 16 remembered states and callbacks are not
reached; ids of removed flows left on the list of parked ones are not read again.
Polling a legacy session status needs a finish without a result and without an
error, which `TypeOK` shows not to occur.

What the model shows, and its properties except by name:
(a) the guard that keeps a dialog from timing a flow out falls before the
candidate is journaled (`config_flow.py:1027`, awaited at 1035), so a dialog may
do so in between (`hurried`);
(b) a request cut off in an exchange leaves its flow neither parked nor worked on
until HA or the user removes it, and other pairings are answered
`pairing_in_progress` meanwhile (`cut`);
(c) a user who cancels while HA commits frees the slot, and another rotation may
start while the first entry is still being saved;
(d) a callback whose exchange failed while its flow is still in progress is
answered with the page of a handled callback (`quick_pair.py:170`, 218), in the
browser as in the app, while HA shows the form. `assured` and `SuccessIsProven`
count only the answers given after a flow has ended.

### BridgeLifecycle

The loop (`loop`, `after`), the link and the two clients (`held`, `ready`), helper
tasks (`running`, `refresh`), the stop (`stop`, `stopping`, `skip`) and what the
broker retains (`presence`, `catalog`, `heard`). What is handed to a link that is
up reaches the broker in that order; a broken link loses it, and a broker that restarts
may forget what it retained. The broker need not ever acknowledge the farewell.
`Unload` may come at any time, with or without a preceding reload.

A refresh of the catalog that exceeds the packet budget is logged and forgotten
(`coordinator.py:490-495`, 1281-1284): the link stays up and nothing tries again
before the next registry change or connection. `RefreshWakes` has that outcome,
and the history variable `refused` keeps it until the next change;
`CatalogCatchesUp` promises nothing of such a change.
`docs/MQTT_BRIDGE_EVENTS_SPEC.zh-CN.md:344` promises the republication without
that exception, and names the reconnect as the recovery.

`ClientLife` is what the parts that publish may rely on, in three variables: is a
client exposed and greeted, does its link work, does the bridge listen. The
lifecycle refines it; from the instant a stop cancels the tasks, the client
counts as gone. StateStream's steps of the connection and of the stop are those
of ClientLife with what they do to the stream: it meets every connection the
lifecycle is proved to make. That `_cancel_runtime_tasks` ends worker and loop in
one stretch is read from the code.

Note on documents: `docs/MQTT_BRIDGE_EVENTS_SPEC.zh-CN.md:40` says the old
catalog is not cleared on a rename while `README.md:554` and
`bridge_protocol.py:85-98` clear both; the finding takes the latter two.

### StateStream

The backlog (`queue`; a dict in insertion order, so a key has at most one event,
which `PopKey` takes out before the new one is appended), the worker and the event in its hands (`taken`, with the
connection it was taken for), the connection, the grant, and as history what
`arrived`, was `sent`, was `lost` and counted (by the drop counter or as
`state_publish_failed`), and was `withdrawn`: an event whose entity had left the
grant by the time it was taken is discarded (`coordinator.py:1749`) and counted
nowhere. Sensors coalesce by entity, occurrences at buttons and events never do.
Events of entities outside the grant are ignored by the code and left out. The
end of a stop clears the backlog and cancels the worker, perhaps in mid-publish
(574, 605-616), without counting any of it: the worker is then `cancelled`, and
`NothingLostSilently` speaks of the time before.

### SnapshotRequests

`task` holds the handlers in `MAX_INFLIGHT_COMMANDS` slots, `request` is
`_snapshot_request`, `replies` and `cacheOf` are `_snapshot_replies` and the
client and grant they belong to; `wire` and `last` are history: what this
connection's consumer was handed of snapshots, and what the last step handed. A
command arrives and runs to its first await in one step; every publish hands
its message at once and the wait for its acknowledgement is a stage.

Abstractions: a grant is the set of entities it allows and stands for its
fingerprint (entities do not move between devices while a request runs; the real fingerprint
covers ids only); all handlers of a connection are retired before the next
one (those that outlive the three seconds of clean-up are not modelled);
receipts fit a packet, aggregated results and states may not;
`GET /api/states/` with a trailing slash, which streams all states although it
is answered 404 and is no snapshot request, is not among the inputs.

### WebSocketWriter

The guard of `mqtt_io_guard.py` around one connection: the connect worker, a
thread that runs between any two steps of the loop and inside `guarded_write`;
the registrations it queues by `call_soon_threadsafe` (`callbacks`, taken by
`Install` and `ReadyOfStale`); reader, writer and Paho's `_registered_write`
(`wanted`); Paho's packets, the rest of the frame in its `_sendbuffer`
(`buffer`), the waiting control replies (`controls`); and as history the bytes
on the `wire`. `WriteReady` enters `guarded_write`; `SendReplyFirst`,
`SendBinary`, `PacketsEnd`, `Flush` and `GuardedWriteEnds` are its steps, one
send each, and every send may take any number of the bytes it is offered, none
included. `ConnectTimesOut` and `RetireConnection` may come at any time.

Abstractions: Paho and aiomqtt are external; masks, opcodes, payloads and MQTT
acknowledgements are left out; all frames have one size; a failing send of a
control reply leaves the socket to its owner. The broker is assumed to send no
control frame before it has received CONNECT. Without that assumption TLC finds
a lost registration: the worker asks for write readiness after the loop has
already written its packet, `install_writer` finds nothing to write, and Paho,
whose `_registered_write` stays true, never asks again.

## 3. Runs

| Run | Instance and bounds | Shows |
|---|---|---|
| `ledger` | 2 handlers, 2 keys in one file, 2 requests, 2 grants, 2 answers | at most one dispatch, write-ahead fence, genuine answers, exclusive claims, durable tombstones, grant re-checked, refinement of `OperationPromise`; every command ends |
| `pairing` | 2 pairings, 1 background pass, 1 restart, outages and journal write errors | journaled before saved, recoverable after any restart but the one of the finding, refusals restore, backend switches only to saved candidates; a carried candidate is resolved |
| `pairing_restart` | 1 pairing, 1 restart | finding: a restored connection lost by a restart |
| `pairing_abandoned` | 1 pairing | finding: a candidate nobody cancels |
| `lifecycle` | 2 broken links or failed attempts, 2 registry changes | readiness means announced, the farewell is last, no task outlives its connection, the catalog catches up unless it is too large, a stop ends |
| `lifecycle_rename` | no broken link | finding: old catalog published again behind its clean-up |
| `stream` | sensor and button, backlog of 2, 3 events, 1 reconnect, 1 grant change | order, what is lost before a stop ends is counted, withdrawn or superseded, only granted entities, the backlog drains |
| `stream_display` | 4 events | finding: a display event replaces a state change |
| `snapshots` | 2 slots, 3 commands, 2 message ids, 3 entities, grants of 1, 2 and 3 entities against a limit of 2, a cache of 1, 1 reconnect, 1 grant change; symmetry of slots and ids | single flight, slot always released, completion is proof, nothing but finished receipts leaves under an old grant, and those repeat an accepted one, begun streams are finished |
| `snapshots_second_result` | 1 command, 1 grant change | finding: two results for one command |
| `quick_pair` | 2 flows, one of which tries twice, 2 visits, 1 request cut off | one rotation at a time, no flow waits with the slot closed, success is announced when it is proven and then for certain; a finish is reached |
| `websocket_writer` | 4 packets, 4 control replies, a queue of 2, frames of 3 bytes | no registration outlives its socket, whole frames in order; writes drain |

Why the bounds are enough to be interesting: two messages meet on one key,
or on the lock with two keys in one file, and the second may be a retry after a
dispatch, an answer, a damaged row or a restart (three messages of one key were also
checked once); two
pairings are the re-pairing of an entry whose own candidate is unresolved (three
pairings without restarts and disk faults were also checked once); a backlog of
two with three events overflows, and overflows differently for a sensor and a
button (four events were also checked once); three snapshot commands are one in
flight, one refused and one that finds a wrongly released slot, and a cache of
one evicts; two broken links are a reconnect and a reconnect of the reconnect; two
visits are a callback and the dialog that resume one flow, or two flows that
compete for the slot; a frame of three bytes can be cut twice, and a queue of two
replies fills. Systems whose bounds stop them, or that are unloaded, rest at the
end: those runs do not check deadlock. The ledger's run does; there a restart is
always possible, and what it shows of progress is `EveryCommandEnds`.

`HandedUnderGrant`, `GrantGuardsAnswers`, `TombstonesPersist`,
`RefusalRestoresWhatWasKept`, `SwitchesOnlyToSaved`, `OnlyGrantedIsPublished`
and `BegunIsFinished` are action properties; the rest are invariants, or
liveness properties named below. That a snapshot slot is freed, and a begun stream finished,
were also checked as liveness with two commands; the runs keep their safety
forms, which allow three.

### Fairness

asyncio runs every task that is ready and timers go off: weak fairness of each
component's own steps. `asyncio.Lock` wakes waiters in FIFO order, so a handler of
the ledger that is enabled again and again gets its turn: strong fairness of
`Progress`. HA writes its entries. The commit is retried for ever
(`pairing_commit.py:271-275`), and one of the attempts is assumed to be
answered: strong fairness of `CommitAnswered`, and of the cancel the
task sends. Requests of a flow have timeouts and HA's setup of an entry ends:
weak fairness of the flows' `Ready`. The connect thread and the loop run on, and
the owner of a lost or cancelled connection retires it; the peer of the socket
need only read on, so that a send that is tried again and again is at last taken:
strong fairness of `Takes`. Nothing is assumed of the environment's events (commands, grant edits, registry
changes, broken links), nor of the acknowledgement of the farewell: `StopEnds`
rests on the deadline. Liveness properties: `EveryCommandEnds`,
`CarriedIsResolved`, `CatalogCatchesUp`, `StopEnds`, `BacklogDrains`,
`FinishIsReached`, `WritesDrain` and, as a finding, `AbandonedIsCancelled`.

## 4. Findings

The five `violation` runs are disagreements between the code and its own text,
quoted in `PROJECT.json`:

1. `KeptAcrossRestarts`: restoring a refused candidate's options reloads the
   entry, and the next orphan pass removes the record before HA has saved them.
2. `AbandonedIsCancelled`: a flow removed while it journals starts no orphan pass.
3. `OldCatalogStaysCleared`: between the clean-up for a rename and the
   cancellation of the loop the catalog may be published to the old topic.
4. `DisplayOnlyRepeats`: a display-metadata event coalesces with a waiting state
   change, which then is only ever reported as display metadata.
5. `OneResultPerCommand`: a grant withdrawn while the states that follow an
   answered command load their display resources adds a second, failing result.

## 5. Proofs

For every value of the constants, by the TLA+ proof system:

| Theorem | States |
|---|---|
| `OperationLedgerProofs!TypeCorrect` | `Spec => []TypeOK` |
| `OperationLedgerProofs!DispatchAtMostOnce` | `Spec => []AtMostOneDispatch` |
| `OperationLedgerProofs!FenceIsWrittenAhead` | `Spec => []WriteAhead` |
| `OperationLedgerProofs!ClaimsStayExclusive` | `Spec => []ClaimsAreExclusive` |
| `OperationLedgerProofs!AnswersKeepToTheGrant` | `Spec => GrantGuardsAnswers` |
| `OperationLedgerProofs!TombstonesAreDurable` | `Spec => TombstonesPersist` |
| `OperationAnswersProofs!EveryAnswerIsGenuine` | `Spec => []AnswersAreGenuine` |
| `OperationAnswersProofs!LedgerKeepsItsPromise` | `Spec => ImplementsPromise` |
| `PairingCommitProofs!TypeCorrect` | `Spec => []TypeOK` |
| `PairingCommitProofs!RecordPrecedesSave` | `Spec => []JournaledBeforeSaved` |
| `PairingCommitProofs!RecoveryIsPossible` | `Spec => []Recoverable` |
| `PairingCommitProofs!RefusalsRestore` | `Spec => RefusalRestoresWhatWasKept` |
| `PairingCommitProofs!BackendFollowsDisk` | `Spec => SwitchesOnlyToSaved` |
| `QuickPairProofs!TypeCorrect` | `Spec => []TypeOK` |
| `QuickPairProofs!OneRotation` | `Spec => []RotationIsExclusive` |
| `QuickPairProofs!SlotIsAttended` | `Spec => []SlotIsNotAbandoned` |
| `QuickPairProofs!SuccessIsEarned` | `Spec => []SuccessIsProven` |
| `SnapshotRequestsProofs!TypeCorrect` | `Spec => []TypeOK` |
| `SnapshotRequestsProofs!SnapshotsAreSingleFlight` | `Spec => []OneStreamAtATime` |
| `SnapshotRequestsProofs!SlotHasItsHolder` | `Spec => []SlotIsHeld` |
| `SnapshotRequestsProofs!CompletionIsProof` | `Spec => []CompleteIsWhole` |
| `SnapshotRequestsProofs!NothingLeavesUngranted` | `Spec => HandedUnderGrant` |
| `SnapshotRequestsProofs!EveryStreamIsFinished` | `Spec => BegunIsFinished` |
| `BridgeLifecycleProofs!TypeCorrect` | `Spec => []TypeOK` |
| `BridgeLifecycleProofs!ReadyIsAnnounced` | `Spec => []ReadyMeansAnnounced` |
| `BridgeLifecycleProofs!FarewellStaysLast` | `Spec => []FarewellIsLast` |
| `BridgeLifecycleProofs!ConnectionOutlivesItsTasks` | `Spec => []NothingOutlivesConnection` |
| `BridgeLifecycleProofs!LifecycleKeepsClientLife` | `Spec => ImplementsClientLife` |
| `StateStreamProofs!TypeCorrect` | `Spec => []TypeOK` |
| `StateStreamProofs!StreamStaysInOrder` | `Spec => []StreamInOrder` |
| `StateStreamProofs!NothingIsLostSilently` | `Spec => []NothingLostSilently` |
| `StateStreamProofs!OnlyGrantedIsEverPublished` | `Spec => OnlyGrantedIsPublished` |
| `WebSocketWriterProofs!TypeCorrect` | `Spec => []TypeOK` |
| `WebSocketWriterProofs!NoWishIsLost` | `Spec => []NothingIsForgotten` |
| `WebSocketWriterProofs!FramesStayWhole` | `Spec => []FramesAreWhole` |

Assumptions: `None` differs from every name, the unrestricted grant is a grant,
grants allow existing entities, bounds are numbers, and the list of pairings names
a session once (the backend issues a session to one flow). TLC evaluates them.

*Ledger.* `AtMostOneDispatch` is not inductive: nothing in it says why a second
handler cannot reach `Dispatch`. `IInv` adds that the lock is held exactly
during a save and a landed write is the table (`LockInv`), that whoever works on a key
works on a loaded table (`LoadedInv`), what the row looks like at each stage
(`RowInv`), that a dispatched key is fenced on disk and in a loaded memory
(`FenceInv`: the step that matters is a load, which keeps fences by `Parse`), and
that a live handler is alone with its key (`WorkingAlone`). The proof has one
step per action. Tombstones need one more invariant, `DiskInv`: the table in
memory keeps every row of the disk, and a row frozen there stays frozen, so that
whatever write lands keeps them too.

*Answers.* A published answer is genuine because of three invariants: HA's answer
to a handler is there once the handler goes on and never before (`HeardInv`),
every answer recorded in memory or on disk was given to a dispatch of its key
and fingerprint (`RecordedInv`), and so was every answer published (`RepliedInv`).
They last because no step rewrites the history of a dispatch. The ledger
implements the promise: a row changes on disk only by a step that `DiskInv`
allows, and since there is at most one dispatch of a key, the verdict recorded
for it is the answer to that one.

*Pairing.* That a candidate the backend could still commit has its record on disk
while an entry carries it needs `RecordInv` (the record of such a candidate is not
taken back from the file, and a flow goes on to the entry only with one on disk),
`KnownInv` (nothing refers to a candidate before it is issued), `MarkersInv` (what
a refusal would restore is decided) and `OutcomeInv` (only a decided candidate is
resolved). Six lemmas first say what a step may do to the backend, the flows, the
journal, the entry, the commit task and the passes (`StepMoves`); each invariant
follows from those.

That HA can always recover rests on *chains* (`PairingCommitInvariant`): below a
connection lie the candidates that its record waits for, each linked to the one
before it, and the first restores the connection in use, unless one of them was
committed: then the latest committed one is in use. A chain also holds every candidate that a request may
still commit. `ChainInv` says that the saved entry, the entry in memory and a
candidate about to be paired each have a chain, or are in use themselves, both
by the journal in memory and by its file, since a write of either may be cut off
at any instant. How a chain changes is said once by `ChainExtends` (a candidate is
recorded on top), `ChainResolves` (one is resolved and its successors learn
of it), `ChainCommits` (the backend commits one) and `ChainCarriesOver`. The
commit of a candidate keeps every chain because it is the latest one that may
be committed (`AnchorInv`). The
other invariants say that nothing knows a candidate before its flow hands it over
(`FreshInv`), that flows record in order (`OrderInv`), that records refer to
what is journaled, in both books (`LinkInv`, `AcrossInv`), and that the
commit task and the passes act on what is still so although they waited
(`TaskInv`, `VerdictInv`, `PassInv`, `LeavingInv`). After a restart that met the
saved entry stranded, the case of finding 1, `ChainInv` is given up (`struck`) and
the rest still holds. `Recoverable` and both action properties follow: a
candidate that waits for nothing and is not committed is alone on its chain.

*Quick pair.* The invariants hold together. `VisitInv`: a flow has one callback in
flight and asks for one session at a time. `SlotInv`: a flow that has asked
for a session holds the slot for as long as it is in progress, because whoever claims
the slot ends its old owner. `StageInv`: an exchange happens at an external step that
is not parked, a commit by the owner of a finish whose record is of the flow's
current state. Exclusive rotation follows: two visits at work would be of the flow
that holds the slot, and its step tells which of them may be. `AttendedInv` names
for each step of a flow that is not parked the task that will take it further.
`ProofInv` ties each record to the histories: a removal recorded was the
finishing task's, a confirmation was of a loaded entry, and a finished flow whose
entry is not loaded yet is watched. The flows `hurried` by a dialog are the
exception in the proof as in the property.

*Snapshots.* `SlotInv` says that exactly one handler holds a taken slot,
`FreshInv` that its message has no receipt in the cache, `FieldInv` which fields
a stage uses, `LinkInv` that a broken link leaves a connection to come. For
completion, `WholeInv` says that a live stream that omitted nothing has handed every state it no
longer has to send, and that the cache and a replay in progress, while they
belong to this connection, hold only receipts whose evidence this connection was handed.
`ScopeInv` says that the cache belongs to the grant of the stream under way and keeps
only replies of its own grant: an accepted receipt that is replayed describes the
grant in force. A finished receipt is not compared with the grant again, neither at
the end of a stream (1225-1259) nor after the wait in a replay (1102-1103), and may
leave under a newer one. For those `HandedUnderGrant` says that the accepted receipt
of the same request and scope went before on the same connection; `WholeInv` keeps
that evidence for whatever outcome a live stream or a replay in progress will report.

*Lifecycle.* The three invariants are proved together, with `StopInv` (a stop in
progress is what `stopping` says, and a farewell is heard only then) and
`ClientInv` (a client is held throughout a connection unless a stop has forgotten
it, is exposed only in the last two stages of the loop, and past the catalog's
stage the catalog is there). `ClientLife` is implemented step by step under that
invariant: a client is exposed only while the bridge listens because `StopInv`
also says that a bridge that is not stopping listens, and the steps of the loop
before it exposes a client, or after its task was cancelled, are stutters. This
refinement is a theorem only; TLC agreed with it on the instance of `lifecycle`,
and refutes it when the loop does not look at `_stopping` again after the catalog.

*Stream.* `HandsInv` says that the worker's hands are full exactly while it
publishes, `NumberInv` that events are numbered by their arrival and no number
occurs twice, `OrderInv` that what was sent, is in hand and waits is one
increasing sequence, `KeptInv` that every arrived event is in it, counted,
withdrawn, or superseded by a later one of its key, until the end of a stop has
cancelled the worker, which no step undoes. The lemmas say what popping,
appending and trimming keep of a sequence.

*Writer.* That no wish to write is forgotten needs `EarlyInv` (what the worker
has not done yet), `OpenInv` (what belongs to an open socket), `AskInv` (a
request Paho holds has a registration that is queued or installed) and `OwnedInv`
(a socket of a retired connection has a callback that will close it). Frames stay
whole by `NumbersInv` (packets and replies are numbered in order), `SentInv` (what
was sent is older than what waits), `BegunInv` (at most one frame is begun, and
its rest is what the buffer or the first reply holds), `WireInv` and `LastInv`
(the wire ends where that rest begins).

Only model-checked: `EveryCommandEnds`, `CarriedIsResolved`, `CatalogCatchesUp`,
`StopEnds`, `BacklogDrains`, `FinishIsReached` and `WritesDrain`. They are
liveness properties, and liveness and `ENABLED` are out of this prover's reach, as is
induction over data and recursion. Every invariant and every action property of
the passing runs is proved.

## 6. Not modelled

The catalog document, attribute and body filtering, redaction, topic names,
settings validation, TLS contexts, texts and sensors are pure functions or I/O. Of
the transport only the WebSocket guard has state of its own. History replay and
startup snapshot repeat readings best-effort and appear as helper tasks only. Of
the flows the manual pairing, the choice of scope, devices and environment, the
origin page and diagnostics are forms and texts. Commands beyond
`MAX_INFLIGHT_COMMANDS` are dropped without an answer by design
(`coordinator.py:1008`); the action is there, no property is about it.

## 7. Plan

Modelled in the order ledger, pairing, lifecycle, stream, snapshots, quick-pair
flow, WebSocket writer (most costly failure first), each with its proofs. Left:

1. Composition: a handler's lifetime in the lifecycle (retired with its
   connection) is an assumption of SnapshotRequests and OperationLedger;
   `ClientLife` could carry it too.
   QuickPair and PairingCommit share the exchange and the journal write, and
   could be composed there.

--------------------------- MODULE OperationLedger ---------------------------
(***************************************************************************)
(* The operation ledger of the bridge (operation_store.py) together with   *)
(* the part of the command handler that drives it (_handle_v2_command in   *)
(* coordinator.py).                                                        *)
(*                                                                         *)
(* A command may carry an operation key.  Before the command is handed to  *)
(* Home Assistant (HA) its key is claimed and then fenced as "dispatched"  *)
(* in a file of HA's .storage; after HA answered, the answer is recorded.  *)
(* The ledger has a copy of its rows in memory and one on disk, one        *)
(* asyncio.Lock, and a set of keys claimed in this life of the process.    *)
(* Handlers of different messages interleave at every await.               *)
(***************************************************************************)
EXTENDS FiniteSets

CONSTANTS
    Handlers,      \* command messages delivered, each with its handler task
    Keys,          \* operation keys
    Requests,      \* method, path and body of a command
    Scopes,        \* fingerprints of the device grant (DeviceAccess)
    Unrestricted,  \* the grant of a bridge whose scope is "all"
    Results,       \* answers HA may give to a dispatch
    None           \* absence of a key, a fingerprint, a result or a handler

ASSUME NoneIsNothing == None \notin Handlers \cup Keys \cup Requests
                                     \cup Scopes \cup Results
ASSUME UnrestrictedIsScope == Unrestricted \in Scopes

VARIABLES
    loaded,  \* the rows were read from disk in this life of the process
    rows,    \* Keys -> Row: PersistentOperationStore._rows
    disk,    \* Keys -> Row: the file seenzus_bridge.operations.<entry_id>
    owned,   \* PersistentOperationStore._owned_claims
    lock,    \* the handler holding PersistentOperationStore._lock, or None
    landed,  \* the write of the save in progress has reached the disk
    scope,   \* the grant in force
    pc,      \* Handlers -> where the handler is suspended
    msg,     \* Handlers -> what it was sent, and the grant at its start
    called,  \* handlers that have handed their command to HA (history)
    answer,  \* Handlers -> what HA answered (history)
    reply    \* Handlers -> the result message published

store == <<loaded, rows, owned>>
vars == <<loaded, rows, disk, owned, lock, landed, scope, pc, msg, called,
          answer, reply>>

-----------------------------------------------------------------------------
Fingerprints == [req : Requests, access : Scopes \cup {None}]
NoFp == [req |-> None, access |-> None]

Statuses == {"absent", "claimed", "dispatched", "completed", "unknown"}
RowsOf(statuses) == [status : statuses, fp : Fingerprints \cup {NoFp},
                     result : Results \cup {None}]
NoRow == [status |-> "absent", fp |-> NoFp, result |-> None]
Frozen == [status |-> "unknown", fp |-> NoFp, result |-> None]
Garbled == [status |-> "garbled", fp |-> NoFp, result |-> None]

Message == [key : Keys \cup {None}, req : Requests, scope : Scopes]
NoMessage == [key |-> None, req |-> None, scope |-> None]

Reply == [kind : {"none", "result", "conflict", "pending", "unknown",
                  "grant_changed", "error"},
          result : Results \cup {None}]
Say(kind) == [kind |-> kind, result |-> None]
Answer(r) == [kind |-> "result", result |-> r]

Saving == {"claimSave", "markSave", "completeSave"}
Stages == {"idle", "claim", "claimSave", "mark", "markSave", "dispatching",
           "complete", "completeSave", "done"}

(* Variant with a bug: the grant is left out of the fingerprint.           *)
FingerprintWithoutGrant(m) == [req |-> m.req, access |-> None]

(* The fingerprint of a command covers the grant only on a restricted      *)
(* bridge.                                                                 *)
Fingerprint(m) ==
    [req |-> m.req,
     access |-> IF m.scope = Unrestricted THEN None ELSE m.scope]

KeyOf(h) == msg[h].key
FpOf(h) == Fingerprint(msg[h])

(* Variant with a bug: the grant is taken for unchanged.                   *)
GrantAssumed(h) == TRUE

(* The grant of now is compared with the one read when the command came.   *)
GrantHolds(h) == msg[h].scope = scope

(* Variants with a bug: an unreadable row is skipped; it is taken as is.   *)
ParseSkipping(row) ==
    IF row.status \in {"claimed", "dispatched", "completed"} THEN row ELSE NoRow
ParseTrusting(row) == row

(* _load: a persisted row without a readable fingerprint or with a status  *)
(* that is not one of the three live ones is frozen.                       *)
Parse(row) ==
    IF row.status = "absent" THEN NoRow
    ELSE IF row.fp = NoFp \/ row.status \notin {"claimed", "dispatched", "completed"}
         THEN Frozen ELSE row
Table == IF loaded THEN rows ELSE [k \in Keys |-> Parse(disk[k])]

Init ==
    /\ loaded = FALSE
    /\ rows = [k \in Keys |-> NoRow]
    /\ disk = [k \in Keys |-> NoRow]
    /\ owned = {}
    /\ lock = None
    /\ landed = FALSE
    /\ scope \in Scopes
    /\ pc = [h \in Handlers |-> "idle"]
    /\ msg = [h \in Handlers |-> NoMessage]
    /\ called = {}
    /\ answer = [h \in Handlers |-> None]
    /\ reply = [h \in Handlers |-> Say("none")]

-----------------------------------------------------------------------------
(* Steps that several actions end with.                                    *)

Goto(h, stage) == pc' = [pc EXCEPT ![h] = stage]
Finish(h, r) == Goto(h, "done") /\ reply' = [reply EXCEPT ![h] = r]

(* The handler that holds the lock leaves its "async with".                *)
Release == lock' = None /\ landed' = FALSE

(* Variant with a bug: a cancelled handler keeps the lock.                 *)
KeepLock(h) == UNCHANGED <<lock, landed>>

(* A cancelled handler leaves the "async with" if it is inside.            *)
LetGo(h) == IF lock = h THEN Release ELSE UNCHANGED <<lock, landed>>

(* Variant with a bug: the save is not awaited.                            *)
SaveForgotten(h) == lock = h

(* async_save returns once the write is on disk.                           *)
SaveReturns(h) == lock = h /\ landed

(* A command without an operation key goes to HA at once; one with a key   *)
(* goes to the ledger.  The grant is read before the first await.          *)
Arrive(h, k, q) ==
    /\ pc[h] = "idle"
    /\ msg' = [msg EXCEPT ![h] = [key |-> k, req |-> q, scope |-> scope]]
    /\ IF k = None
       THEN Goto(h, "dispatching") /\ called' = called \cup {h}
       ELSE Goto(h, "claim") /\ UNCHANGED called
    /\ UNCHANGED <<store, disk, lock, landed, scope, answer, reply>>

(* Variants with a bug: a claim that is owned is taken over as well; so is *)
(* a key that was dispatched before a restart.                             *)
ClaimableThoughOwned(row, k, fp) ==
    \/ row.status = "absent"
    \/ row.status = "claimed" /\ row.fp = fp
ClaimableThoughDispatched(row, k, fp) ==
    \/ row.status = "absent"
    \/ row.status \in {"claimed", "dispatched"} /\ row.fp = fp /\ k \notin owned

(* claim: a fresh key, or a claim this process does not own, is taken and  *)
(* saved under the lock.                                                   *)
Claimable(row, k, fp) ==
    \/ row.status = "absent"
    \/ row.status = "claimed" /\ row.fp = fp /\ k \notin owned

Claim(h) ==
    /\ pc[h] = "claim"
    /\ lock = None
    /\ Claimable(Table[KeyOf(h)], KeyOf(h), FpOf(h))
    /\ rows' = [Table EXCEPT ![KeyOf(h)] =
                  [status |-> "claimed", fp |-> FpOf(h), result |-> None]]
    /\ loaded' = TRUE
    /\ owned' = owned \cup {KeyOf(h)}
    /\ lock' = h
    /\ Goto(h, "claimSave")
    /\ UNCHANGED <<disk, landed, scope, msg, called, answer, reply>>

(* What claim answers without touching the row, as the message that the    *)
(* handler publishes for it.                                               *)
Verdict(row, fp) ==
    IF row.status = "unknown" THEN Say("unknown")
    ELSE IF row.fp # fp THEN Say("conflict")
    ELSE IF row.status = "completed" THEN Answer(row.result)
    ELSE IF row.status = "dispatched" THEN Say("unknown")
    ELSE Say("pending")

ClaimRefused(h) ==
    /\ pc[h] = "claim"
    /\ lock = None
    /\ ~Claimable(Table[KeyOf(h)], KeyOf(h), FpOf(h))
    /\ rows' = Table
    /\ loaded' = TRUE
    /\ Finish(h, IF GrantHolds(h)
                 THEN Verdict(Table[KeyOf(h)], FpOf(h))
                 ELSE Say("grant_changed"))
    /\ UNCHANGED <<owned, disk, lock, landed, scope, msg, called, answer>>

(* Reading the file failed: the handler answers with the error.            *)
LoadFails(h) ==
    /\ pc[h] = "claim"
    /\ lock = None
    /\ ~loaded
    /\ Finish(h, Say("error"))
    /\ UNCHANGED <<store, disk, lock, landed, scope, msg, called, answer>>

(* The write of a save reaches the disk, all rows at once.                 *)
WriteLands(h) ==
    /\ lock = h
    /\ ~landed
    /\ disk' = rows
    /\ landed' = TRUE
    /\ UNCHANGED <<store, lock, scope, pc, msg, called, answer, reply>>

ClaimSaved(h) ==
    /\ pc[h] = "claimSave"
    /\ SaveReturns(h)
    /\ Release
    /\ IF GrantHolds(h)
       THEN Goto(h, "mark") /\ UNCHANGED reply
       ELSE Finish(h, Say("grant_changed"))
    /\ UNCHANGED <<store, disk, scope, msg, called, answer>>

(* A save that raises may have reached the disk or not.  Only claim gives  *)
(* its ownership up again.                                                 *)
SaveRaises(h) ==
    /\ pc[h] \in Saving
    /\ Release
    /\ owned' = IF pc[h] = "claimSave" THEN owned \ {KeyOf(h)} ELSE owned
    /\ Finish(h, Say("error"))
    /\ UNCHANGED <<loaded, rows, disk, scope, msg, called, answer>>

(* mark_dispatched: the fence is raised in memory, then saved.             *)
MarkDispatched(h) ==
    /\ pc[h] = "mark"
    /\ lock = None
    /\ IF rows[KeyOf(h)].fp = FpOf(h) /\ rows[KeyOf(h)].status = "claimed"
       THEN /\ rows' = [rows EXCEPT ![KeyOf(h)].status = "dispatched"]
            /\ owned' = owned \ {KeyOf(h)}
            /\ lock' = h
            /\ Goto(h, "markSave")
            /\ UNCHANGED reply
       ELSE /\ Finish(h, Say("unknown"))
            /\ UNCHANGED <<rows, owned, lock>>
    /\ UNCHANGED <<loaded, disk, landed, scope, msg, called, answer>>

(* The fence is on disk.  Without a further await the grant is checked and *)
(* the command handed to HA.                                               *)
Dispatch(h) ==
    /\ pc[h] = "markSave"
    /\ SaveReturns(h)
    /\ Release
    /\ IF GrantHolds(h)
       THEN /\ called' = called \cup {h}
            /\ Goto(h, "dispatching")
            /\ UNCHANGED reply
       ELSE /\ Finish(h, Say("grant_changed"))
            /\ UNCHANGED called
    /\ UNCHANGED <<store, disk, scope, msg, answer>>

(* HA answers.  The answer of a command without a key is published at      *)
(* once, that of a keyed one is recorded first.                            *)
HaAnswers(h, r) ==
    /\ pc[h] = "dispatching"
    /\ answer' = [answer EXCEPT ![h] = r]
    /\ IF ~GrantHolds(h) THEN Finish(h, Say("grant_changed"))
       ELSE IF KeyOf(h) = None THEN Finish(h, Answer(r))
       ELSE Goto(h, "complete") /\ UNCHANGED reply
    /\ UNCHANGED <<store, disk, lock, landed, scope, msg, called>>

HaRaises(h) ==
    /\ pc[h] = "dispatching"
    /\ Finish(h, Say("error"))
    /\ UNCHANGED <<store, disk, lock, landed, scope, msg, called, answer>>

Complete(h) ==
    /\ pc[h] = "complete"
    /\ lock = None
    /\ IF rows[KeyOf(h)].fp = FpOf(h) /\ rows[KeyOf(h)].status = "dispatched"
       THEN /\ rows' = [rows EXCEPT ![KeyOf(h)] =
                          [@ EXCEPT !.status = "completed", !.result = answer[h]]]
            /\ owned' = owned \ {KeyOf(h)}
            /\ lock' = h
            /\ Goto(h, "completeSave")
            /\ UNCHANGED reply
       ELSE /\ Finish(h, Say("unknown"))
            /\ UNCHANGED <<rows, owned, lock>>
    /\ UNCHANGED <<loaded, disk, landed, scope, msg, called, answer>>

CompleteSaved(h) ==
    /\ pc[h] = "completeSave"
    /\ SaveReturns(h)
    /\ Release
    /\ Finish(h, IF GrantHolds(h) THEN Answer(answer[h]) ELSE Say("grant_changed"))
    /\ UNCHANGED <<store, disk, scope, msg, called, answer>>

-----------------------------------------------------------------------------
(* The connection is lost: _stop_connection_commands cancels the handler   *)
(* at the await where it is suspended.  CancelledError is no Exception, so *)
(* a cancelled claim keeps its ownership.                                  *)
Cancel(h) ==
    /\ pc[h] \notin {"idle", "done"}
    /\ Goto(h, "done")
    /\ LetGo(h)
    /\ UNCHANGED <<store, disk, scope, msg, called, answer, reply>>

(* The process dies, or the entry is reloaded with a new coordinator and a *)
(* new store: memory is gone, the disk is not.                             *)
Restart ==
    /\ loaded' = FALSE
    /\ rows' = [k \in Keys |-> NoRow]
    /\ owned' = {}
    /\ Release
    /\ pc' = [h \in Handlers |-> IF pc[h] = "idle" THEN "idle" ELSE "done"]
    /\ UNCHANGED <<disk, scope, msg, called, answer, reply>>

(* A row of the file is damaged before the store reads it.                 *)
Damage(k) ==
    /\ ~loaded
    /\ disk[k].status # "absent"
    /\ disk' = [disk EXCEPT ![k] = Garbled]
    /\ UNCHANGED <<store, lock, landed, scope, pc, msg, called, answer, reply>>

(* The user edits the device grant, or a granted device changes.           *)
ChangeGrant(s) ==
    /\ scope' = s
    /\ UNCHANGED <<store, disk, lock, landed, pc, msg, called, answer, reply>>

-----------------------------------------------------------------------------
(* What handler h does by itself once its command has arrived.             *)
Progress(h) ==
    \/ Claim(h) \/ ClaimRefused(h) \/ LoadFails(h)
    \/ WriteLands(h) \/ ClaimSaved(h) \/ SaveRaises(h)
    \/ MarkDispatched(h) \/ Dispatch(h)
    \/ \E r \in Results : HaAnswers(h, r)
    \/ HaRaises(h)
    \/ Complete(h) \/ CompleteSaved(h)

Next ==
    \/ \E h \in Handlers, k \in Keys \cup {None}, q \in Requests : Arrive(h, k, q)
    \/ \E h \in Handlers : Progress(h) \/ Cancel(h)
    \/ Restart
    \/ \E k \in Keys : Damage(k)
    \/ \E s \in Scopes : ChangeGrant(s)

Spec == Init /\ [][Next]_vars

(* Asyncio runs every ready task, asyncio.Lock wakes its waiters in FIFO   *)
(* order (hence strong fairness), a file write ends, and HA ends every     *)
(* service call.  Nothing obliges commands to arrive or grants to change.  *)
Fairness == \A h \in Handlers : SF_vars(Progress(h))
FairSpec == Spec /\ Fairness

-----------------------------------------------------------------------------
(* Every variable keeps to its values; a loaded table holds no row that    *)
(* _load should have frozen.                                               *)
TypeOK ==
    /\ loaded \in BOOLEAN
    /\ rows \in [Keys -> RowsOf(Statuses)]
    /\ disk \in [Keys -> RowsOf(Statuses \cup {"garbled"})]
    /\ owned \in SUBSET Keys
    /\ lock \in Handlers \cup {None}
    /\ landed \in BOOLEAN
    /\ scope \in Scopes
    /\ pc \in [Handlers -> Stages]
    /\ msg \in [Handlers -> Message \cup {NoMessage}]
    /\ called \in SUBSET Handlers
    /\ answer \in [Handlers -> Results \cup {None}]
    /\ reply \in [Handlers -> Reply]

Keyed(h) == KeyOf(h) # None
Fenced(row) == row.status \in {"dispatched", "completed", "unknown", "garbled"}

(* No operation key reaches HA twice, whatever is retried, reordered,      *)
(* cancelled or restarted (README, "operationKey").                        *)
AtMostOneDispatch ==
    \A g, h \in called : Keyed(g) /\ KeyOf(g) = KeyOf(h) => g = h

(* From the moment a keyed command is handed to HA on, the disk says that  *)
(* its key may have crossed the device boundary: a crash at any later      *)
(* instant leaves nothing that load could take for a free claim.           *)
WriteAhead == \A h \in called : Keyed(h) => Fenced(disk[KeyOf(h)])

(* A keyed answer, original or replayed, is what HA answered to the one    *)
(* dispatch of that key, for the same request under the same grant.        *)
AnswersAreGenuine ==
    \A h \in Handlers : reply[h].kind = "result" /\ Keyed(h) =>
        \E g \in called : /\ KeyOf(g) = KeyOf(h)
                          /\ msg[g].req = msg[h].req
                          /\ msg[g].scope = msg[h].scope
                          /\ answer[g] = reply[h].result

(* Keys owned by this coordinator are still in the pre-dispatch window     *)
(* (operation_store.py:36-38), and a live handler past its claim is alone  *)
(* with its key.                                                           *)
Working == Stages \ {"idle", "claim", "done"}
ClaimsAreExclusive ==
    /\ \A k \in owned : /\ rows[k].status = "claimed"
                        /\ \A h \in called : KeyOf(h) # k
    /\ \A g, h \in Handlers :
          /\ Keyed(g) /\ KeyOf(g) = KeyOf(h)
          /\ pc[g] \in Working /\ pc[h] \in Working
          => g = h

(* Tombstones are durable: on disk a fenced key never becomes free or      *)
(* merely claimed again, and a recorded answer never changes, unless the   *)
(* file itself is damaged.                                                 *)
TombstonesPersist ==
    [][\A k \in Keys :
          /\ Fenced(disk[k]) => Fenced(disk'[k])
          /\ disk[k].status = "completed"
               => disk'[k] = disk[k] \/ disk'[k] \in {Frozen, Garbled}]_vars

(* What HA answered is published only while the grant is the one the       *)
(* command was accepted under, however long saving the answer took.        *)
GrantGuardsAnswers ==
    [][\A h \in Handlers :
          reply[h].kind # "result" /\ reply'[h].kind = "result"
             => msg[h].scope = scope]_vars

(* Every command that arrived is eventually dealt with: no failing save    *)
(* and no cancellation leaves the lock held against the others.            *)
EveryCommandEnds == \A h \in Handlers : pc[h] = "claim" ~> pc[h] = "done"

(* The ledger implements OperationPromise: the durable rows are the fates, *)
(* and the handler that dispatched a key holds HA's verdict about it.      *)
Fate(row) ==
    CASE row.status \in {"absent", "claimed"} -> "open"
      [] row.status = "dispatched" -> "fenced"
      [] row.status = "completed" -> "settled"
      [] OTHER -> "frozen"
Recorded(row) == IF Fate(row) = "settled" THEN row.result ELSE None
Verdicts(k) == {answer[h] : h \in {g \in called : KeyOf(g) = k}} \ {None}
VerdictOn(k) == IF Verdicts(k) = {} THEN None ELSE CHOOSE r \in Verdicts(k) : TRUE

Promise == INSTANCE OperationPromise WITH
    fate <- [k \in Keys |-> Fate(disk[k])],
    recorded <- [k \in Keys |-> Recorded(disk[k])],
    sent <- {k \in Keys : \E h \in called : KeyOf(h) = k},
    verdict <- [k \in Keys |-> VerdictOn(k)]

(* Every run of the ledger is a run of the promise.                        *)
ImplementsPromise == Promise!Spec
=============================================================================

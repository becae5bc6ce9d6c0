------------------------------ MODULE QuickPair ------------------------------
(* The browser pairing of config_flow.py (_QuickPairFlowMixin, shared by   *)
(* the config flow and the options flow) and quick_pair.py: flows that     *)
(* compete for the slot of credential rotation, the HTTP callback that     *)
(* resumes a flow, the dialog and the unattended task that may resume the  *)
(* same flow, the one finish that hands an entry to Home Assistant, and    *)
(* the proof on which the user is told that the pairing succeeded.         *)
(* A visit is one task that drives a flow: a request of the dialog, a      *)
(* callback of the browser or of the app, or the unattended task.  What    *)
(* happens between two awaits of a visit is one action.                    *)
EXTENDS Naturals, FiniteSets

CONSTANTS
    Flows,      \* config and options flows
    Visits,     \* tasks that drive flows
    MaxTries,   \* bound: how often each flow asks for a pairing session
    MaxCuts,    \* bound: flows of which a request is cut off, once each
    None

ASSUME PairAssumption ==
    /\ None \notin Flows \cup Visits
    /\ "ended" \notin Visits \cup {None}
    /\ MaxTries \in [Flows -> Nat] /\ MaxCuts \in Nat

VARIABLES
    flow,       \* [Flows -> flow objects]: the step Home Assistant shows, whether the
                \* flow is among pairing_parked_flows, and its handshake
    slot,       \* pairing_flow_owner
    tries,      \* [Flows -> Nat]: the flow's current callback state, a fresh one per try
    visit,      \* [Visits -> tasks]; try is the callback state a callback carries
    record,     \* [Flows -> records]: quick_pair_completed_states
    watching,   \* flows with an entry watcher (quick_pair_entry_watchers)
    kept,       \* [Flows -> Entries]: the entry Home Assistant holds of the flow
    told,       \* flows whose success was announced in a notification
    assured,    \* flows whose callback was answered with success once they had ended
    wasLoaded,  \* history: flows whose entry was loaded at some time
    finished,   \* history: flows removed by the task that finished them
    cut,        \* history: flows of which a request was cut off
    hurried     \* history: flows timed out by a dialog while their candidate was journaled

proof == <<record, watching, told, assured>>
past == <<wasLoaded, finished, cut, hurried>>
vars == <<flow, slot, tries, visit, proof, kept, past>>

Steps == {"form", "external", "done", "gone"}
Entries == {"none", "registered", "loaded", "retry", "dropped"}
Callbacks == {"browser", "app"}
Stages == {"off", "starting", "exchanging", "journaling", "committing",
           "waiting", "asleep"}

NoVisit == [pc |-> "off", kind |-> "dialog", flow |-> None, try |-> 0]
NoRecord == [try |-> 0, removed |-> FALSE, confirmed |-> FALSE]
NewFlow == [step |-> "form", parked |-> FALSE, busy |-> FALSE, result |-> FALSE,
            error |-> "none", owner |-> None]

(* A flow Home Assistant has removed; what is left of its object, and its  *)
(* place among the parked ones, is not read again.                         *)
Over == [NewFlow EXCEPT !.step = "gone"]

Init ==
    /\ flow = [f \in Flows |-> NewFlow]
    /\ slot = None
    /\ tries = [f \in Flows |-> 0]
    /\ visit = [v \in Visits |-> NoVisit]
    /\ record = [f \in Flows |-> NoRecord]
    /\ kept = [f \in Flows |-> "none"]
    /\ watching = {} /\ told = {} /\ assured = {}
    /\ wasLoaded = {} /\ finished = {} /\ cut = {} /\ hurried = {}

InProgress(f) == flow[f].step # "gone"

(* A task of its own for the next visit: which one is of no consequence.   *)
Begins(v) ==
    /\ visit[v] = NoVisit
    /\ v = CHOOSE u \in Visits : visit[u] = NoVisit

(* The callback request that holds the guard of a flow.                    *)
InFlight(f) == \E v \in Visits : /\ visit[v].flow = f
                                 /\ visit[v].kind \in Callbacks
                                 /\ visit[v].pc # "off"

(* The record of callback state s of flow f.                               *)
RecordOf(f, s) == IF record[f].try = s THEN record[f] ELSE NoRecord

(* Variant with a bug: an entry that is registered counts as a proof.      *)
ConfirmedOnceSaved(r, e) ==
    r.removed /\ e \in {"registered", "loaded", "retry"}

(* _quick_pair_has_pending_entry, _confirm_quick_pair_completed and        *)
(* _quick_pair_was_completed, of record r while the entry is in state e.   *)
HasPendingEntry(r, e) == r.removed /\ e \in {"registered", "loaded", "retry"}

Confirmed(r, e) == r.removed /\ e = "loaded"

WasCompleted(r, e) == r.removed /\ (r.confirmed \/ Confirmed(r, e))

------------------------------------------------------------------------------
(* The slot: one pairing rotates credentials at a time.                    *)

(* _claim_pairing_slot: the slot is free, the flow's own, or its owner has *)
(* ended or waits for a user, and is then aborted.                         *)
MayClaim(f) ==
    \A o \in Flows \ {f} : slot = o => ~InProgress(o) \/ flow[o].parked

(* The flows once f has claimed the slot and is left as h.                 *)
Claimed(f, h) ==
    [o \in Flows |-> IF o = f THEN h ELSE IF o = slot THEN Over ELSE flow[o]]

(* async_step_seamless: the form is sent.  A flow that claims the slot     *)
(* takes a new callback state, forgets the last attempt and asks for a     *)
(* session.  A flow that is listed as parked remains so.                   *)
Start(v, f) ==
    /\ Begins(v)
    /\ flow[f].step = "form"
    /\ tries[f] < MaxTries[f]
    /\ ~\E u \in Visits : visit[u].flow = f /\ visit[u].pc = "starting"
    /\ MayClaim(f)
    /\ slot' = f
    /\ flow' = Claimed(f, [flow[f] EXCEPT !.result = FALSE, !.error = "none"])
    /\ tries' = [tries EXCEPT ![f] = @ + 1]
    /\ visit' = [visit EXCEPT ![v] = [NoVisit EXCEPT !.pc = "starting", !.flow = f]]
    /\ UNCHANGED <<proof, kept, past>>

(* Variant with a bug: a form shown again keeps other pairings out.        *)
FormOnly(h) == [h EXCEPT !.step = "form"]

(* _reshow_seamless_form and async_step_environment: a form that waits for *)
(* the user is parked.                                                     *)
FormOf(h) == [h EXCEPT !.step = "form", !.parked = TRUE]

(* The slot is taken (pairing_in_progress): the form is shown again.       *)
StartRefused(f) ==
    /\ flow[f].step = "form"
    /\ ~MayClaim(f)
    /\ flow' = [flow EXCEPT ![f] = FormOf(@)]
    /\ UNCHANGED <<slot, tries, visit, proof, kept, past>>

(* The slot is claimed, and the request ends without a session: the        *)
(* instance has no identity, or the environment is configured already.     *)
StartEnds(f) ==
    /\ flow[f].step = "form"
    /\ MayClaim(f)
    /\ slot' = f
    /\ \E h \in {FormOf(flow[f]), Over} : flow' = Claimed(f, h)
    /\ UNCHANGED <<tries, visit, proof, kept, past>>

(* create_web_pairing_session returned: the external step is shown, parked *)
(* for the browser, or the form again.  Home Assistant ignores the step of *)
(* a flow it has removed.                                                  *)
SessionAnswered(v) ==
    /\ visit[v].pc = "starting"
    /\ LET f == visit[v].flow
       IN IF InProgress(f)
          THEN \E step \in {"external", "form"} :
                  flow' = [flow EXCEPT ![f].step = step, ![f].parked = TRUE]
          ELSE UNCHANGED flow
    /\ visit' = [visit EXCEPT ![v] = NoVisit]
    /\ UNCHANGED <<slot, tries, proof, kept, past>>

------------------------------------------------------------------------------
(* async_step_seamless_finish, run by visit v, whose task is w, for a flow *)
(* whose object is h.                                                      *)

(* Variant with a bug: every task that finishes the flow creates an entry. *)
MayCreateAgain(h) == TRUE

(* Core is handed one CREATE_ENTRY per flow: a second task waits for the   *)
(* first.                                                                  *)
MayCreate(h) == h.owner = None

Creates(v, w, h) ==
    /\ h.error = "none" /\ MayCreate(h)
    /\ flow' = [flow EXCEPT ![w.flow] = [h EXCEPT !.step = "done", !.parked = FALSE,
                                                 !.owner = v]]
    /\ record' = [record EXCEPT ![w.flow] = [NoRecord EXCEPT !.try = tries[w.flow]]]
    /\ visit' = [visit EXCEPT ![v] = [w EXCEPT !.pc = "committing"]]

WaitsForOwner(v, w, h) ==
    /\ h.error = "none" /\ ~MayCreate(h)
    /\ flow' = [flow EXCEPT ![w.flow] = [h EXCEPT !.step = "done", !.parked = FALSE]]
    /\ visit' = [visit EXCEPT ![v] = [w EXCEPT !.pc = "waiting"]]
    /\ UNCHANGED record

(* The finish shows an error, _entry_data_or_reshow refuses the answer, or *)
(* the flow is aborted: the environment is configured already, or the      *)
(* callback left the flow without a session.                               *)
GivesUp(v, w, h) ==
    /\ h.error = "none" => MayCreate(h)
    /\ \/ h.error # "taken" /\ flow' = [flow EXCEPT ![w.flow] = FormOf(h)]
       \/ flow' = [flow EXCEPT ![w.flow] = Over]
    /\ visit' = [visit EXCEPT ![v] = NoVisit]
    /\ UNCHANGED record

Finish(v, w, h) ==
    /\ Creates(v, w, h) \/ WaitsForOwner(v, w, h) \/ GivesUp(v, w, h)
    /\ UNCHANGED <<slot, tries, watching, told, assured, kept, past>>

------------------------------------------------------------------------------
(* The callback view and async_step_seamless_authorize.                    *)

(* Variant with a bug: the browser's flow is left to the dialog alone.     *)
DeliveredToDialog(v, w, h) ==
    IF w.kind = "app" THEN Finish(v, w, h)
    ELSE /\ flow' = [flow EXCEPT ![w.flow] = [h EXCEPT !.step = "done"]]
         /\ visit' = [visit EXCEPT ![v] = NoVisit]
         /\ UNCHANGED <<slot, tries, proof, kept, past>>

(* The authorization step ends and leaves the flow as h.  The app's        *)
(* callback runs the finish itself (_drive_flow_to_terminal_state); the    *)
(* browser's leaves it to the dialog and, after a grace period, to the     *)
(* unattended task.                                                        *)
Delivered(v, w, h) ==
    IF w.kind = "app" THEN Finish(v, w, h)
    ELSE /\ flow' = [flow EXCEPT ![w.flow] = [h EXCEPT !.step = "done"]]
         /\ visit' = [visit EXCEPT ![v] = [NoVisit EXCEPT !.pc = "asleep",
                                       !.kind = "unattended", !.flow = w.flow]]
         /\ UNCHANGED <<slot, tries, proof, kept, past>>

(* A callback whose flow was removed meanwhile is answered by what is      *)
(* proven of its state.                                                    *)
Answered(w, r) ==
    LET success == w.kind \in Callbacks /\ WasCompleted(r, kept[w.flow])
    IN /\ assured' = IF success THEN assured \cup {w.flow} ELSE assured
       /\ record' = IF success THEN [record EXCEPT ![w.flow] = [r EXCEPT !.confirmed = TRUE]]
                    ELSE record

Leaves(v) ==
    /\ visit' = [visit EXCEPT ![v] = NoVisit]
    /\ Answered(visit[v], RecordOf(visit[v].flow, visit[v].try))

(* The authorization step takes the flow off the list of parked ones.      *)
Taken(h) == [h EXCEPT !.parked = FALSE]

(* A callback with the flow's current state, while no other is in flight   *)
(* and the flow waits at its external step.  A code is exchanged; a denied *)
(* or unusable one ends the step at once.                                  *)
CallbackArrives(v, f, kind) ==
    /\ Begins(v)
    /\ flow[f].step = "external"
    /\ ~InFlight(f)
    /\ RecordOf(f, tries[f]) = NoRecord
    /\ LET w == [pc |-> "exchanging", kind |-> kind, flow |-> f, try |-> tries[f]]
       IN \/ /\ flow' = [flow EXCEPT ![f] = [Taken(@) EXCEPT !.busy = TRUE]]
             /\ visit' = [visit EXCEPT ![v] = w]
             /\ UNCHANGED <<slot, tries, proof, kept, past>>
          \/ \E error \in {"failed", "taken"} :
                Delivered(v, w, [Taken(flow[f]) EXCEPT !.error = error])

(* A callback repeated after the flow has ended is answered by the proof.  *)
CallbackRepeated(f) ==
    /\ ~InProgress(f)
    /\ ~InFlight(f)
    /\ tries[f] > 0
    /\ WasCompleted(RecordOf(f, tries[f]), kept[f])
    /\ assured' = assured \cup {f}
    /\ record' = [record EXCEPT ![f].confirmed = TRUE]
    /\ UNCHANGED <<flow, slot, tries, visit, watching, told, kept, past>>

(* The exchange returned.  A candidate goes to the journal; the guard that *)
(* keeps a dialog from timing the flow out is down from here on.           *)
ExchangeAnswered(v) ==
    /\ visit[v].pc = "exchanging"
    /\ InProgress(visit[v].flow)
    /\ LET f == visit[v].flow
           h == [flow[f] EXCEPT !.busy = FALSE]
       IN \/ /\ flow' = [flow EXCEPT ![f] = h]
             /\ visit' = [visit EXCEPT ![v].pc = "journaling"]
             /\ UNCHANGED <<slot, tries, proof, kept, past>>
          \/ Delivered(v, visit[v], [h EXCEPT !.error = "failed"])

(* The flow was removed while the code was exchanged: the candidate is     *)
(* released (PairingCommit).                                               *)
ExchangeReleased(v) ==
    /\ visit[v].pc = "exchanging"
    /\ ~InProgress(visit[v].flow)
    /\ Leaves(v)
    /\ UNCHANGED <<flow, slot, tries, watching, told, kept, past>>

(* Variant with a bug: a candidate that was not journaled is no error.     *)
ReceivedQuietly(h, saved) == [h EXCEPT !.result = saved, !.error = "none"]

(* _journal_candidate returned.                                            *)
Received(h, saved) ==
    IF saved THEN [h EXCEPT !.result = TRUE, !.error = "none"]
             ELSE [h EXCEPT !.error = "failed"]

Journaled(v) ==
    /\ visit[v].pc = "journaling"
    /\ LET f == visit[v].flow
       IN IF InProgress(f)
          THEN \E saved \in BOOLEAN :
                  Delivered(v, visit[v], Received(flow[f], saved))
          ELSE /\ Leaves(v)
               /\ UNCHANGED <<flow, slot, tries, watching, told, kept, past>>

------------------------------------------------------------------------------
(* The dialog and the unattended task.                                     *)

(* The dialog configures the flow at its external step.  While the code is *)
(* exchanged it sees the same step again; otherwise the step has timed out.*)
DialogTimesOut(f) ==
    /\ flow[f].step = "external"
    /\ ~flow[f].busy
    /\ flow' = [flow EXCEPT ![f].step = "done", ![f].error = "failed"]
    /\ hurried' = IF \E v \in Visits : visit[v].flow = f /\ visit[v].pc = "journaling"
                  THEN hurried \cup {f} ELSE hurried
    /\ UNCHANGED <<slot, tries, visit, proof, kept, wasLoaded, finished, cut>>

DialogFinishes(v, f) ==
    /\ Begins(v)
    /\ flow[f].step = "done"
    /\ Finish(v, [NoVisit EXCEPT !.flow = f], flow[f])

(* _resume_if_unattended: a flow that is still at its finish has no dialog.*)
UnattendedWakes(v) ==
    /\ visit[v].pc = "asleep"
    /\ IF flow[visit[v].flow].step = "done"
       THEN Finish(v, visit[v], flow[visit[v].flow])
       ELSE /\ visit' = [visit EXCEPT ![v] = NoVisit]
            /\ UNCHANGED <<flow, slot, tries, proof, kept, past>>

(* The user closes the dialog or deletes the flow, also while Core saves.  *)
Cancel(f) ==
    /\ InProgress(f)
    /\ flow' = [flow EXCEPT ![f] = Over]
    /\ UNCHANGED <<slot, tries, visit, proof, kept, past>>

------------------------------------------------------------------------------
(* Core finishes a flow, and what becomes of the entry.                    *)

(* Core registers the entry before it awaits its setup.                    *)
CommitRegisters(v) ==
    /\ visit[v].pc = "committing"
    /\ kept[visit[v].flow] = "none"
    /\ kept' = [kept EXCEPT ![visit[v].flow] = "registered"]
    /\ UNCHANGED <<flow, slot, tries, visit, proof, past>>

(* _watch_pairing_entry, changed: each change of an entry's state is seen  *)
(* by the watcher, which ends once the pairing is confirmed or the entry   *)
(* is not the expected one any more.                                       *)
WatcherSees(f, e) ==
    LET seen == f \in watching
        success == seen /\ Confirmed(record[f], e)
    IN /\ record' = IF success THEN [record EXCEPT ![f].confirmed = TRUE] ELSE record
       /\ told' = IF success THEN told \cup {f} ELSE told
       /\ watching' = IF seen /\ (success \/ ~HasPendingEntry(record[f], e))
                      THEN watching \ {f} ELSE watching

EntryBecomes(f, e) ==
    /\ kept' = [kept EXCEPT ![f] = e]
    /\ WatcherSees(f, e)
    /\ wasLoaded' = IF e = "loaded" THEN wasLoaded \cup {f} ELSE wasLoaded
    /\ UNCHANGED <<flow, slot, tries, visit, assured, finished, cut, hurried>>

SetupEnds(f) ==
    /\ kept[f] = "registered"
    /\ \E e \in {"loaded", "retry"} : EntryBecomes(f, e)

(* The entry is reloaded, retried after an outage, paired again or removed.*)
EntryChanges(f) ==
    /\ kept[f] \in {"loaded", "retry"}
    /\ \E e \in {"loaded", "retry", "dropped"} \ {kept[f]} : EntryBecomes(f, e)

(* async_remove, run by task v: only a removal by the task that finished   *)
(* the flow proves that Core kept the pairing.                             *)
RemovedBy(v, f, r) == IF flow[f].owner = v THEN [r EXCEPT !.removed = TRUE] ELSE r

(* The task that finishes the flow ends, and the flow object with it only  *)
(* if it was removed.                                                      *)
OwnerEnds(h) == IF h = Over THEN Over ELSE [h EXCEPT !.owner = "ended"]

(* Core's finish returns.  Of a flow in progress it removes the flow and   *)
(* announces the success, or watches an entry that is not loaded yet.      *)
CommitEnds(v) ==
    /\ visit[v].pc = "committing"
    /\ LET f == visit[v].flow
           r == RemovedBy(v, f, RecordOf(f, tries[f]))
           success == Confirmed(r, kept[f])
       IN /\ kept[f] \notin {"none", "registered"}
          /\ visit' = [visit EXCEPT ![v] = NoVisit]
          /\ IF InProgress(f)
             THEN /\ flow' = [flow EXCEPT ![f] = Over]
                  /\ finished' = finished \cup {f}
                  /\ told' = IF success THEN told \cup {f} ELSE told
                  /\ watching' = IF ~success /\ HasPendingEntry(r, kept[f])
                                 THEN watching \cup {f} ELSE watching
                  /\ assured' = IF success /\ visit[v].kind \in Callbacks
                                THEN assured \cup {f} ELSE assured
                  /\ record' = IF RecordOf(f, tries[f]) = NoRecord THEN record
                               ELSE [record EXCEPT ![f] = [r EXCEPT !.confirmed = success]]
             ELSE /\ Answered(visit[v], RecordOf(f, visit[v].try))
                  /\ UNCHANGED <<flow, finished, told, watching>>
    /\ UNCHANGED <<slot, tries, kept, wasLoaded, cut, hurried>>

(* Core's finish raises before it registered an entry.                     *)
CommitRaises(v) ==
    /\ visit[v].pc = "committing"
    /\ kept[visit[v].flow] = "none"
    /\ flow' = [flow EXCEPT ![visit[v].flow] = OwnerEnds(@)]
    /\ visit' = [visit EXCEPT ![v] = NoVisit]
    /\ UNCHANGED <<slot, tries, proof, kept, past>>

(* _cleanup_abandoned_finish, the done callback of the finishing task.     *)
Cleanup(f) ==
    /\ flow[f].owner = "ended"
    /\ flow' = [flow EXCEPT ![f] = Over]
    /\ UNCHANGED <<slot, tries, visit, proof, kept, past>>

(* A second finish wakes: the flow was removed, or the first task ended    *)
(* without removing it.                                                    *)
WaitEnds(v) ==
    /\ visit[v].pc = "waiting"
    /\ LET f == visit[v].flow
       IN /\ ~InProgress(f) \/ flow[f].owner = "ended"
          /\ flow' = [flow EXCEPT ![f] = Over]
          /\ Leaves(v)
    /\ UNCHANGED <<slot, tries, watching, told, kept, past>>

(* A request is cut off.  The finish it owned has ended with it.           *)
Cut(v) ==
    /\ visit[v].pc \notin {"off", "asleep"}
    /\ visit[v].kind # "unattended"
    /\ visit[v].flow \notin cut
    /\ Cardinality(cut) < MaxCuts
    /\ LET f == visit[v].flow
           h == flow[f]
       IN /\ cut' = cut \cup {f}
          /\ flow' = [flow EXCEPT ![f] =
                        IF visit[v].pc = "committing" THEN OwnerEnds(h)
                        ELSE [h EXCEPT !.busy = h.busy /\ visit[v].pc # "exchanging"]]
    /\ visit' = [visit EXCEPT ![v] = NoVisit]
    /\ UNCHANGED <<slot, tries, proof, kept, wasLoaded, finished, hurried>>

------------------------------------------------------------------------------
Proceeds(v) ==
    \/ SessionAnswered(v) \/ ExchangeAnswered(v) \/ ExchangeReleased(v)
    \/ Journaled(v) \/ UnattendedWakes(v) \/ CommitRegisters(v)
    \/ CommitEnds(v) \/ CommitRaises(v) \/ WaitEnds(v)

Next ==
    \/ \E v \in Visits : Proceeds(v) \/ Cut(v)
    \/ \E v \in Visits, f \in Flows :
          \/ Start(v, f) \/ DialogFinishes(v, f)
          \/ \E kind \in Callbacks : CallbackArrives(v, f, kind)
    \/ \E f \in Flows :
          \/ StartRefused(f) \/ StartEnds(f) \/ CallbackRepeated(f)
          \/ DialogTimesOut(f) \/ Cancel(f) \/ Cleanup(f)
          \/ SetupEnds(f) \/ EntryChanges(f)

Spec == Init /\ [][Next]_vars

(* The event loop does not rest while a task can run on: every request has *)
(* a timeout, and Core's setup of an entry ends.  Users, the browser and   *)
(* the dialog owe nothing.                                                 *)
Ready == \/ \E v \in Visits : Proceeds(v)
         \/ \E f \in Flows : SetupEnds(f) \/ Cleanup(f)

FairSpec == Spec /\ WF_vars(Ready)

------------------------------------------------------------------------------
Tasks == [pc : Stages, kind : {"dialog", "unattended"} \cup Callbacks,
          flow : Flows \cup {None}, try : Nat]
FlowObjects == [step : Steps, parked : BOOLEAN, busy : BOOLEAN,
                result : BOOLEAN, error : {"none", "failed", "taken"},
                owner : Visits \cup {None, "ended"}]
Records == [try : Nat, removed : BOOLEAN, confirmed : BOOLEAN]

(* Types.  A flow at its finish has a result or an error to show (the      *)
(* polling of a legacy session status is not reached), a flow is busy      *)
(* exactly while its code is exchanged, and the owner of a finish is a     *)
(* task that commits it.                                                   *)
TypeOK ==
    /\ flow \in [Flows -> FlowObjects]
    /\ slot \in Flows \cup {None}
    /\ tries \in [Flows -> Nat]
    /\ visit \in [Visits -> Tasks]
    /\ record \in [Flows -> Records]
    /\ kept \in [Flows -> Entries]
    /\ \A s \in {watching, told, assured, wasLoaded, finished, cut, hurried} :
          s \subseteq Flows
    /\ \A f \in Flows :
          /\ flow[f].step = "done" => flow[f].result \/ flow[f].error # "none"
          /\ flow[f].busy <=> /\ InProgress(f)
                              /\ \E v \in Visits : /\ visit[v].flow = f
                                                  /\ visit[v].pc = "exchanging"
          /\ flow[f].owner \in Visits =>
                /\ visit[flow[f].owner].flow = f
                /\ visit[flow[f].owner].pc = "committing"

(* Visits that hold credentials of a flow in progress: from the exchange   *)
(* of the code until HA has kept the entry.                                *)
Rotating == {v \in Visits : /\ visit[v].pc \in {"exchanging", "journaling", "committing"}
                            /\ InProgress(visit[v].flow)
                            /\ visit[v].flow \notin hurried}

(* At most one visit rotates credentials, its flow owns the slot, and no   *)
(* other pairing may take it over (_claim_pairing_slot,                    *)
(* _finish_quick_pair_once).  A flow a dialog timed out while its          *)
(* candidate was journaled is excepted.                                    *)
RotationIsExclusive ==
    \A v \in Rotating :
        /\ slot = visit[v].flow /\ ~flow[slot].parked
        /\ Rotating = {v}

(* A flow that keeps other pairings out is being worked on, or its clean-up*)
(* is due: no flow waits for a user with the slot closed.  A flow of which *)
(* a request was cut off is excepted.                                      *)
SlotIsNotAbandoned ==
    \A f \in Flows :
        slot = f /\ InProgress(f) /\ ~flow[f].parked /\ f \notin cut =>
            \/ \E v \in Visits : visit[v].flow = f
            \/ flow[f].owner = "ended"

(* The user is told of a success only when the task that finished the flow *)
(* removed it and its entry has been loaded, whoever cancels, repeats or   *)
(* waits; and then is told, also when the entry loads long after.          *)
SuccessIsProven ==
    /\ told \cup assured \subseteq finished \cap wasLoaded
    /\ \A f \in finished \ hurried : kept[f] = "loaded" => f \in told

(* A flow that holds its credentials leaves the finishing step: HA keeps   *)
(* the entry, shows why not, or removes the flow, also when no dialog is   *)
(* left to resume it.                                                      *)
FinishIsReached ==
    \A f \in Flows :
        flow[f].step = "done" /\ flow[f].result /\ flow[f].error = "none"
            ~> flow[f].step # "done"
=============================================================================

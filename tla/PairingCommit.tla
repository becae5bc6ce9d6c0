---------------------------- MODULE PairingCommit ----------------------------
(***************************************************************************)
(* Two-phase pairing on the Home Assistant side (pairing_commit.py) with   *)
(* the parts of config_flow.py and __init__.py that drive it.              *)
(*                                                                         *)
(* The backend issues a candidate credential to a pairing flow; the flow   *)
(* journals it, then saves it in the config entry.  A task of the loaded   *)
(* entry commits the candidate once HA's own file carries it; orphan       *)
(* passes cancel candidates no entry carries.  There is one entry, which   *)
(* is created at most once; its connection is named by the session it came *)
(* from.  Home Assistant Core and the backend are outside the repository.  *)
(***************************************************************************)
EXTENDS Naturals, Sequences

CONSTANTS
    Pairings,    \* the pairing sessions, in the order they are started
    Background,  \* bound: orphan passes running on their own at a time
    None,        \* absence of a connection, a session or a lock holder
    MaxCrashes,  \* bound on the restarts of HA
    Outages,     \* requests to the backend may stay unanswered
    DiskFaults   \* saving the journal may raise

Sessions == {Pairings[i] : i \in DOMAIN Pairings}
Earlier(s, t) == \E i, j \in DOMAIN Pairings :
                    i < j /\ Pairings[i] = s /\ Pairings[j] = t

Settled == {"manual", "paired"}   \* connections without a journal record
Unsaved == {"absent", "gone"}     \* no entry yet, and removed for good
Connections == Sessions \cup Settled

ASSUME PairingsAreDistinct ==
    /\ DOMAIN Pairings \subseteq Nat
    /\ \A i, j \in DOMAIN Pairings : Pairings[i] = Pairings[j] => i = j
ASSUME PassesAreDistinct == Background \cap {"removal", "commit"} = {}
ASSUME NoneIsNoSession == None \notin Connections \cup Unsaved
ASSUME SessionsAreFresh == Sessions \cap (Settled \cup Unsaved) = {}
ASSUME CrashBound == MaxCrashes \in Nat
ASSUME FaultsAreSwitches == Outages \in BOOLEAN /\ DiskFaults \in BOOLEAN

VARIABLES
    back,     \* Sessions -> the backend's record of the candidate
    active,   \* the connection whose credential the backend honours
    loose,    \* candidates with a commit request whose sender is gone
    flow,     \* Sessions -> progress of the flow that pairs the session
    gone,     \* flows removed by HA while their code still runs
    journal,  \* Sessions -> Marker: PairingJournal._data
    file,     \* Sessions -> Marker: the file of PairingJournal
    lock,     \* who is saving the journal, under its lock
    entry,    \* the connection of the entry in HA's memory
    saved,    \* the connection of the entry in core.config_entries
    reload,   \* the entry changed and its reload is due
    leaving,  \* the entry is being removed
    task,     \* the commit task of the loaded entry
    pass,     \* Passes -> the orphan passes
    crashes,  \* restarts so far
    struck    \* a restart met the saved entry stranded (history)

backend == <<back, active, loose>>
flows == <<flow, gone>>
books == <<journal, file, lock>>
core == <<entry, saved, reload, leaving>>
past == <<crashes, struck>>
vars == <<backend, flows, books, core, task, pass, past>>

-----------------------------------------------------------------------------
Marker == [previous : Connections \cup {None}, pending : Sessions \cup {None},
           pendingPrevious : Connections \cup {None}]
NoMarker == [previous |-> None, pending |-> None, pendingPrevious |-> "absent"]
Journaled(j) == {s \in Sessions : j[s] # NoMarker}

(* Orphan passes run in the background when a flow ended or the            *)
(* integration was set up, when the entry is removed, and inline in the    *)
(* commit task.                                                            *)
Passes == Background \cup {"removal", "commit"}
NoPass == [pc |-> "off", todo |-> {}, cur |-> None, committed |-> FALSE]
NewPass == [NoPass EXCEPT !.pc = "list"]
Spawned == \E b \in Background :
              pass[b].pc = "off" /\ pass' = [pass EXCEPT ![b] = NewPass]

NoTask == [pc |-> "off", session |-> None, marker |-> NoMarker, then |-> "off"]
NewTask == [NoTask EXCEPT !.pc = "start"]

Present == entry \in Connections
Alive(s) == flow[s] \notin {"idle", "closed"} /\ s \notin gone

(* Variant with a bug: the current connection is taken for the committed   *)
(* one although its own candidate is still open.                           *)
RecordIgnoringPending(j) ==
    [previous |-> IF Present THEN entry ELSE None, pending |-> None,
     pendingPrevious |-> None]

(* async_record: what a refusal of a candidate recorded now has to         *)
(* restore.  While the entry's own candidate is open, both are kept.       *)
RecordFor(j) ==
    IF ~Present
    THEN [previous |-> None, pending |-> None, pendingPrevious |-> None]
    ELSE IF entry \in Journaled(j)
    THEN [previous |-> j[entry].previous, pending |-> entry, pendingPrevious |-> entry]
    ELSE [previous |-> entry, pending |-> None, pendingPrevious |-> None]

(* Variant with a bug: a successor is not told that what it waits for is   *)
(* resolved.                                                               *)
ResolvedQuietly(j, s, committed) == [j EXCEPT ![s] = NoMarker]

(* async_resolve: s leaves the journal, and candidates recorded on top of  *)
(* it learn what to restore.                                               *)
Resolved(j, s, committed) ==
    [t \in Sessions |->
        IF t = s THEN NoMarker
        ELSE IF j[t].pending # s THEN j[t]
        ELSE IF committed
        THEN [previous |-> j[t].pendingPrevious, pending |-> None,
              pendingPrevious |-> None]
        ELSE [previous |-> j[s].previous, pending |-> j[s].pending,
              pendingPrevious |-> j[s].pendingPrevious]]

Init ==
    /\ back = [s \in Sessions |-> "none"]
    /\ entry \in {"absent"} \cup Settled
    /\ saved = entry
    /\ active = IF Present THEN entry ELSE None
    /\ loose = {}
    /\ flow = [s \in Sessions |-> "idle"]
    /\ gone = {}
    /\ journal = [s \in Sessions |-> NoMarker]
    /\ file = journal
    /\ lock = None
    /\ reload = FALSE
    /\ leaving = FALSE
    /\ task = NoTask
    /\ pass = [p \in Passes |-> NoPass]
    /\ crashes = 0
    /\ struck = FALSE

-----------------------------------------------------------------------------
(* The backend (external).  A commit or a cancel is answered from the      *)
(* candidate's record; both are idempotent.                                *)

Effect(act, s) ==
    IF back[s] # "issued" THEN UNCHANGED <<back, active>>
    ELSE IF act = "commit"
    THEN back' = [back EXCEPT ![s] = "committed"] /\ active' = s
    ELSE back' = [back EXCEPT ![s] = "dead"] /\ UNCHANGED active

(* An unconfirmed candidate expires.                                       *)
Expire(s) ==
    /\ back[s] = "issued"
    /\ back' = [back EXCEPT ![s] = "dead"]
    /\ UNCHANGED <<active, loose, flows, books, core, task, pass, past>>

(* A commit whose sender was cancelled or killed arrives after all.  A     *)
(* cancel that does looks like an expiry.                                  *)
LateCommit(s) ==
    /\ s \in loose
    /\ loose' = loose \ {s}
    /\ Effect("commit", s)
    /\ UNCHANGED <<flows, books, core, task, pass, past>>

-----------------------------------------------------------------------------
(* The pairing flow.  _claim_pairing_slot lets one flow pair at a time.    *)

MayStart(s) == \A t \in Sessions : /\ ~Alive(t)
                                   /\ Earlier(t, s) => flow[t] # "idle"

Exchange(s) ==
    /\ flow[s] = "idle"
    /\ entry # "gone" /\ ~leaving
    /\ MayStart(s)
    /\ back' = [back EXCEPT ![s] = "issued"]
    /\ flow' = [flow EXCEPT ![s] = "exchanged"]
    /\ UNCHANGED <<active, loose, gone, books, core, task, pass, past>>

(* The exchange ends without a journaled candidate: its answer is lost, or *)
(* the flow was removed meanwhile and the candidate is released.           *)
ExchangeWasted(s) ==
    /\ flow[s] = "idle"
    /\ entry # "gone" /\ ~leaving
    /\ MayStart(s)
    /\ back' = [back EXCEPT ![s] = "issued"]
    /\ flow' = [flow EXCEPT ![s] = "closed"]
    /\ UNCHANGED <<active, loose, gone, books, core, task, pass, past>>

(* The lock of the journal is granted in FIFO order.                       *)
Record(s) ==
    /\ flow[s] = "exchanged"
    /\ lock = None
    /\ \A t \in Sessions : Earlier(t, s) => flow[t] # "exchanged"
    /\ journal' = [journal EXCEPT ![s] = RecordFor(journal)]
    /\ lock' = s
    /\ flow' = [flow EXCEPT ![s] = "recording"]
    /\ UNCHANGED <<backend, gone, file, core, task, pass, past>>

Recorded(s) ==
    /\ flow[s] = "recording"
    /\ file' = journal
    /\ lock' = None
    /\ flow' = [flow EXCEPT ![s] = IF s \in gone THEN "closed" ELSE "ready"]
    /\ gone' = gone \ {s}
    /\ UNCHANGED <<backend, journal, core, task, pass, past>>

(* Variant with a bug: the flow goes on without a record.                  *)
UnrecordedGoesOn == "ready"

(* The journal cannot be written: the candidate is released and the form   *)
(* shown again; nothing but closing it is left.                            *)
Unrecorded == "reshown"

RecordFails(s) ==
    /\ DiskFaults
    /\ flow[s] = "recording"
    /\ lock' = None
    /\ flow' = [flow EXCEPT ![s] = IF s \in gone THEN "closed" ELSE Unrecorded]
    /\ gone' = gone \ {s}
    /\ UNCHANGED <<backend, journal, file, core, task, pass, past>>

(* The dialog is closed, or HA aborts the flow.  Only a flow that knows it *)
(* journaled a candidate starts an orphan pass (async_remove).             *)
Abort(s) ==
    /\ Alive(s)
    /\ IF flow[s] \in {"exchanged", "recording"}
       THEN gone' = gone \cup {s} /\ UNCHANGED flow
       ELSE flow' = [flow EXCEPT ![s] = "closed"] /\ UNCHANGED gone
    /\ IF flow[s] \in {"ready", "adding"} THEN Spawned ELSE UNCHANGED pass
    /\ UNCHANGED <<backend, books, core, task, past>>

(* A re-pair overwrites the entry's options and ends its flow at once; the *)
(* changed entry is reloaded.                                              *)
Repair(s) ==
    /\ flow[s] = "ready"
    /\ Present /\ ~leaving
    /\ entry' = s
    /\ reload' = TRUE
    /\ flow' = [flow EXCEPT ![s] = "closed"]
    /\ Spawned
    /\ UNCHANGED <<backend, gone, books, saved, leaving, task, past>>

(* A first pairing adds the entry, which is set up before the flow ends.   *)
AddEntry(s) ==
    /\ flow[s] = "ready"
    /\ entry = "absent"
    /\ entry' = s
    /\ task' = NewTask
    /\ flow' = [flow EXCEPT ![s] = "adding"]
    /\ UNCHANGED <<backend, gone, books, saved, reload, leaving, pass, past>>

Added(s) ==
    /\ flow[s] = "adding"
    /\ flow' = [flow EXCEPT ![s] = "closed"]
    /\ Spawned
    /\ UNCHANGED <<backend, gone, books, core, task, past>>

-----------------------------------------------------------------------------
(* HA Core (external): delayed write of the entry, reload, removal.        *)

Save ==
    /\ saved # entry
    /\ saved' = entry
    /\ UNCHANGED <<backend, flows, books, entry, reload, leaving, task, pass, past>>

(* The commit request the task has sent and not yet had answered.          *)
Underway == IF task.pc = "commit" THEN {task.session} ELSE {}

(* Unloading cancels the commit task wherever it waits, with the orphan    *)
(* pass it runs inline; a save it was doing may have reached the disk.     *)
CancelTask ==
    /\ loose' = loose \cup Underway
    /\ IF lock \in {"task", "commit"}
       THEN lock' = None /\ file' \in {file, journal}
       ELSE UNCHANGED <<lock, file>>

(* async_schedule_commit: an entry without a session needs no task.        *)
Scheduled(conn) == IF conn \in {"manual", "absent", "gone"} THEN NoTask ELSE NewTask

Reload ==
    /\ reload /\ Present
    /\ reload' = FALSE
    /\ CancelTask
    /\ task' = Scheduled(entry)
    /\ pass' = [pass EXCEPT !["commit"] = NoPass]
    /\ UNCHANGED <<back, active, flows, journal, entry, saved, leaving, past>>

(* Removing the entry unloads it and calls async_remove_entry, which       *)
(* starts a pass; only then Core drops the entry.                          *)
Remove ==
    /\ Present /\ ~leaving
    /\ leaving' = TRUE
    /\ reload' = FALSE
    /\ CancelTask
    /\ task' = NoTask
    /\ pass' = [pass EXCEPT !["commit"] = NoPass, !["removal"] = NewPass]
    /\ UNCHANGED <<back, active, flows, journal, entry, saved, past>>

Drop ==
    /\ leaving
    /\ leaving' = FALSE
    /\ entry' = "gone"
    /\ UNCHANGED <<backend, flows, books, saved, reload, task, pass, past>>

-----------------------------------------------------------------------------
(* Orphan passes: async_resolve_orphans and async_cancel_candidate.        *)

(* Variant with a bug: a pass does not ask whether the flow still runs.    *)
OrphanThoughFlowAlive(p, s) ==
    entry # s \/ (p = "removal" /\ leaving)

Orphan(p, s) ==
    /\ entry # s \/ (p = "removal" /\ leaving)
    /\ ~Alive(s)

(* The pass goes on with those of its list that are left: it cancels the   *)
(* first orphan, in the order of recording, or ends.  The commit task goes *)
(* on where it called the pass.                                            *)
GoesOn(p, todo) ==
    \/ \E s \in todo :
          /\ Orphan(p, s)
          /\ \A t \in todo : Earlier(t, s) => ~Orphan(p, t)
          /\ pass' = [pass EXCEPT ![p] =
                        [pc |-> "cancel", todo |-> {t \in todo : Earlier(s, t)},
                         cur |-> s, committed |-> FALSE]]
          /\ UNCHANGED task
    \/ /\ \A s \in todo : ~Orphan(p, s)
       /\ pass' = [pass EXCEPT ![p] = NoPass]
       /\ task' = IF p # "commit" THEN task
                  ELSE IF task.then = "off" THEN NoTask
                  ELSE [task EXCEPT !.pc = task.then, !.then = "off"]

PassLists(p) ==
    /\ pass[p].pc = "list"
    /\ lock = None
    /\ GoesOn(p, Journaled(journal))
    /\ UNCHANGED <<backend, flows, books, core, past>>

CancelAnswered(p) ==
    /\ pass[p].pc = "cancel"
    /\ Effect("cancel", pass[p].cur)
    /\ pass' = [pass EXCEPT ![p].pc = "answered",
                            ![p].committed = back[pass[p].cur] = "committed"]
    /\ UNCHANGED <<loose, flows, books, core, task, past>>

(* No final answer to the last of the attempts: the record is left for     *)
(* another pass.  An earlier attempt that had its effect unanswered looks  *)
(* like an expiry.                                                         *)
CancelUnanswered(p) ==
    /\ Outages
    /\ pass[p].pc = "cancel"
    /\ Effect("cancel", pass[p].cur) \/ UNCHANGED <<back, active>>
    /\ GoesOn(p, pass[p].todo)
    /\ UNCHANGED <<loose, flows, books, core, past>>

PassResolves(p) ==
    /\ pass[p].pc = "answered"
    /\ lock = None
    /\ IF pass[p].cur \in Journaled(journal)
       THEN /\ journal' = Resolved(journal, pass[p].cur, pass[p].committed)
            /\ lock' = p
            /\ pass' = [pass EXCEPT ![p].pc = "saving"]
            /\ UNCHANGED task
       ELSE GoesOn(p, pass[p].todo) /\ UNCHANGED <<journal, lock>>
    /\ UNCHANGED <<backend, flows, file, core, past>>

PassSaved(p) ==
    /\ pass[p].pc = "saving"
    /\ file' = journal
    /\ lock' = None
    /\ GoesOn(p, pass[p].todo)
    /\ UNCHANGED <<backend, flows, journal, core, past>>

(* A save that raises ends the pass, and the commit task that ran it.      *)
PassSaveRaises(p) ==
    /\ DiskFaults
    /\ pass[p].pc = "saving"
    /\ lock' = None
    /\ pass' = [pass EXCEPT ![p] = NoPass]
    /\ task' = IF p = "commit" THEN NoTask ELSE task
    /\ UNCHANGED <<backend, flows, journal, file, core, past>>

-----------------------------------------------------------------------------
(* The commit task of the loaded entry: _async_commit.                     *)

(* A candidate that is not journaled needs no commit; orphans are released *)
(* instead.  Otherwise the loop is entered with the record at hand.        *)
TaskStarts ==
    /\ task.pc = "start"
    /\ lock = None
    /\ IF entry \in Journaled(journal)
       THEN /\ task' = [task EXCEPT !.pc = "poll", !.session = entry,
                                 !.marker = journal[entry]]
            /\ UNCHANGED pass
       ELSE /\ task' = [task EXCEPT !.pc = "passing"]
            /\ pass' = [pass EXCEPT !["commit"] = NewPass]
    /\ UNCHANGED <<backend, flows, books, core, past>>

(* The record is read; an entry that no longer carries the session leaves  *)
(* it to an orphan pass.                                                   *)
TaskReads ==
    /\ task.pc = "loop"
    /\ lock = None
    /\ IF task.session \notin Journaled(journal)
       THEN task' = NoTask /\ UNCHANGED pass
       ELSE IF entry # task.session
       THEN /\ task' = [task EXCEPT !.pc = "passing"]
            /\ pass' = [pass EXCEPT !["commit"] = NewPass]
       ELSE /\ task' = [task EXCEPT !.pc = "poll", !.marker = journal[task.session]]
            /\ UNCHANGED pass
    /\ UNCHANGED <<backend, flows, books, core, past>>

(* Variant with a bug: the entry in memory is taken for the saved one.     *)
InMemory(s) == entry = s

(* _async_entry_saved: HA's own file carries the session.                  *)
OnDisk(s) == saved = s

TaskPolls ==
    /\ task.pc = "poll"
    /\ IF ~OnDisk(task.session)
       THEN task' = [task EXCEPT !.pc = "loop"] /\ UNCHANGED pass
       ELSE IF task.marker.pending # None
       THEN /\ task' = [task EXCEPT !.pc = "passing", !.then = "loop"]
            /\ pass' = [pass EXCEPT !["commit"] = NewPass]
       ELSE task' = [task EXCEPT !.pc = "commit"] /\ UNCHANGED pass
    /\ UNCHANGED <<backend, flows, books, core, past>>

CommitAnswered ==
    /\ task.pc = "commit"
    /\ Effect("commit", task.session)
    /\ task' = [task EXCEPT !.pc = IF back[task.session] = "dead"
                                   THEN "refused" ELSE "won"]
    /\ UNCHANGED <<loose, flows, books, core, pass, past>>

(* No final answer: an outage, a lost response, a rollout.                 *)
CommitUnanswered ==
    /\ Outages
    /\ task.pc = "commit"
    /\ Effect("commit", task.session) \/ UNCHANGED <<back, active>>
    /\ task' = [task EXCEPT !.pc = "loop"]
    /\ UNCHANGED <<loose, flows, books, core, pass, past>>

(* Variant with a bug: a first pairing is taken for a re-pair.             *)
AlwaysARepair == FALSE

(* A new entry has no connection to go back to.                            *)
NothingToRestore == task.marker.previous = None

(* The outcome is recorded: committed, or refused with nothing to restore. *)
TaskResolves ==
    /\ \/ task.pc = "won"
       \/ task.pc = "refused" /\ NothingToRestore
    /\ lock = None
    /\ IF task.session \in Journaled(journal)
       THEN /\ journal' = Resolved(journal, task.session, task.pc = "won")
            /\ lock' = "task"
            /\ task' = [task EXCEPT !.pc = "saving"]
       ELSE task' = NoTask /\ UNCHANGED <<journal, lock>>
    /\ UNCHANGED <<backend, flows, file, core, pass, past>>

TaskSaved ==
    /\ task.pc = "saving"
    /\ file' = journal
    /\ lock' = None
    /\ task' = NoTask
    /\ UNCHANGED <<backend, flows, journal, core, pass, past>>

TaskSaveRaises ==
    /\ DiskFaults
    /\ task.pc = "saving"
    /\ lock' = None
    /\ task' = NoTask
    /\ UNCHANGED <<backend, flows, journal, file, core, pass, past>>

(* Variant with a bug: a refusal overwrites what was paired meanwhile.     *)
RestoresRegardless == TRUE

(* _async_refused restores only the entry that still carries the session.  *)
Restores == entry = task.session

(* The refused candidate's record stays; restoring reloads the entry.      *)
Refused ==
    /\ task.pc = "refused"
    /\ ~NothingToRestore
    /\ IF Restores
       THEN entry' = task.marker.previous /\ reload' = TRUE
       ELSE UNCHANGED <<entry, reload>>
    /\ task' = NoTask
    /\ UNCHANGED <<backend, flows, books, saved, leaving, pass, past>>

-----------------------------------------------------------------------------
(* The saved entry carries a dead candidate without a record from which    *)
(* its previous connection could be restored, while HA's memory has gone   *)
(* on to another connection or is dropping the entry.                      *)
Stranded == /\ saved \in Sessions
            /\ back[saved] = "dead"
            /\ saved \notin Journaled(file)
            /\ entry # saved \/ leaving

(* HA dies and starts again: what is on disk is what there is.  async_setup*)
(* starts an orphan pass, the entry its commit task.                       *)
Crash ==
    /\ crashes < MaxCrashes
    /\ crashes' = crashes + 1
    /\ struck' = (struck \/ Stranded)
    /\ entry' = saved
    /\ journal' = file
    /\ lock' = None
    /\ reload' = FALSE
    /\ leaving' = FALSE
    /\ flow' = [s \in Sessions |-> IF flow[s] = "idle" THEN "idle" ELSE "closed"]
    /\ gone' = {}
    /\ loose' = loose \cup Underway
    /\ task' = Scheduled(saved)
    /\ \E b \in Background :
          pass' = [p \in Passes |-> IF p = b THEN NewPass ELSE NoPass]
    /\ UNCHANGED <<back, active, file, saved>>

(* What a worker does by itself, apart from waiting for the backend.       *)
PassProceeds(p) == PassLists(p) \/ PassResolves(p) \/ PassSaved(p)
TaskProceeds == TaskStarts \/ TaskReads \/ TaskPolls \/ TaskResolves
                \/ TaskSaved \/ Refused

FlowStep(s) == Record(s) \/ Recorded(s) \/ RecordFails(s) \/ Added(s)

Next ==
    \/ \E s \in Sessions : \/ Expire(s) \/ LateCommit(s) \/ Exchange(s) \/ ExchangeWasted(s)
                           \/ FlowStep(s) \/ Abort(s) \/ Repair(s) \/ AddEntry(s)
    \/ Save \/ Reload \/ Remove \/ Drop \/ Crash
    \/ \E p \in Passes : \/ PassProceeds(p) \/ CancelAnswered(p)
                         \/ CancelUnanswered(p) \/ PassSaveRaises(p)
    \/ TaskProceeds \/ CommitAnswered \/ CommitUnanswered \/ TaskSaveRaises

Spec == Init /\ [][Next]_vars

(* Ready tasks run, requests end, and HA writes its entries.  The journal  *)
(* is saved only finitely often, so that weak fairness brings its lock to  *)
(* every waiter.  The commit task repeats its requests for ever: one of    *)
(* them is answered.                                                       *)
Fairness ==
    /\ WF_vars(Save) /\ WF_vars(Reload) /\ WF_vars(Drop)
    /\ \A s \in Sessions : WF_vars(FlowStep(s))
    /\ WF_vars(TaskProceeds) /\ SF_vars(CommitAnswered)
    /\ \A p \in Passes : WF_vars(\/ PassProceeds(p)
                                  \/ CancelAnswered(p) \/ CancelUnanswered(p))
    /\ SF_vars(CancelAnswered("commit"))
FairSpec == Spec /\ Fairness

-----------------------------------------------------------------------------
PassStages == {"off", "list", "cancel", "answered", "saving"}
TaskStages == {"off", "start", "loop", "poll", "passing", "commit", "won",
               "refused", "saving"}

(* Every variable keeps to its values; the commit task resolves or         *)
(* restores only with the record it has read.                              *)
TypeOK ==
    /\ back \in [Sessions -> {"none", "issued", "committed", "dead"}]
    /\ active \in Connections \cup {None}
    /\ loose \in SUBSET Sessions
    /\ flow \in [Sessions -> {"idle", "exchanged", "recording", "ready",
                              "reshown", "adding", "closed"}]
    /\ gone \in SUBSET Sessions
    /\ journal \in [Sessions -> Marker \cup {NoMarker}]
    /\ file \in [Sessions -> Marker \cup {NoMarker}]
    /\ lock \in Passes \cup Sessions \cup {"task", None}
    /\ entry \in Connections \cup Unsaved
    /\ saved \in Connections \cup Unsaved
    /\ reload \in BOOLEAN /\ leaving \in BOOLEAN
    /\ task \in [pc : TaskStages, session : Sessions \cup {None},
                 marker : Marker \cup {NoMarker}, then : {"off", "loop"}]
    /\ pass \in [Passes -> [pc : PassStages, todo : SUBSET Sessions,
                            cur : Sessions \cup {None}, committed : BOOLEAN]]
    /\ crashes \in 0..MaxCrashes
    /\ struck \in BOOLEAN

(* A candidate is journaled on disk before any entry that uses it can be   *)
(* saved, and its record stays there for as long as the backend could      *)
(* still commit it (pairing_commit.py:3-7).                                *)
JournaledBeforeSaved ==
    \A s \in Sessions : back[s] = "issued" =>
        /\ saved = s => s \in Journaled(file)
        /\ entry = s => s \in Journaled(journal) \cap Journaled(file)

(* Whatever was lost, repeated or cancelled on the way, what is on disk    *)
(* leads HA back to the connection the backend honours: the saved entry    *)
(* uses it, or carries a recorded candidate whose refusal restores it.     *)
(* Left out: a saved entry that is stranded, and what follows a restart at *)
(* such an instant.                                                        *)
Restorable(j, conn) ==
    /\ conn \in Journaled(j)
    /\ j[conn].pending = None /\ back[conn] # "committed"
        => j[conn].previous = active
Recoverable ==
    \/ struck \/ Stranded \/ active = None \/ saved \in Unsaved
    \/ saved = active
    \/ Restorable(file, saved)

(* Both sides keep the previous state unless both reach the new one, also  *)
(* across restarts (pairing_commit.py:15-16): what a restart finds on disk *)
(* leads to the connection the backend honours, unless the user had just   *)
(* removed the entry.                                                      *)
KeptAcrossRestarts ==
    [][crashes' # crashes =>
          \/ active = None \/ leaving \/ "gone" \in {entry, saved}
          \/ saved = active \/ Restorable(file, saved)]_vars

(* A refusal gives the entry the connection the backend kept, however      *)
(* often the entry was re-paired before, and never undoes a newer pairing. *)
RefusalRestoresWhatWasKept ==
    [][\A s \in Sessions :
          /\ entry = s /\ entry' # s /\ entry' \in Connections
          /\ flow' = flow /\ crashes' = crashes
          => \/ struck
             \/ back[s] = "dead" /\ (active = None \/ entry' = active)]_vars

(* The backend switches only to a candidate that HA's file carries, or     *)
(* carried until a newer candidate that waits for it, or a removal, was    *)
(* saved, again unless the saved entry is stranded.                        *)
SwitchesOnlyToSaved ==
    [][active' # active =>
          \/ saved = active'
          \/ {saved, active'} \subseteq Journaled(file) /\ file[saved].pending # None
          \/ saved = "gone" \/ Stranded \/ struck]_vars

(* A write of the journal raised or was cut off, and none followed.        *)
Torn == lock = None /\ journal # file

(* A candidate the entry carries is committed or given up, whatever        *)
(* requests stay unanswered and across a restart, unless the user pairs    *)
(* again or removes the entry first, or the journal could not be written:  *)
(* then the commit task dies with its inline pass.                         *)
CarriedIsResolved ==
    \A s \in Sessions :
        entry = s /\ s \in Journaled(journal)
            ~> entry # s \/ s \notin Journaled(journal) \/ Torn

(* A journaled candidate that no entry carries and whose flow has ended is *)
(* cancelled (pairing_commit.py:12).                                       *)
AbandonedIsCancelled ==
    \A s \in Sessions :
        s \in Journaled(journal) /\ entry # s /\ ~Alive(s)
            ~> s \notin Journaled(journal) \/ back[s] # "issued"
=============================================================================

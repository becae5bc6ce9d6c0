------------------------- MODULE PairingCommitProofs -------------------------
(***************************************************************************)
(* Proofs about PairingCommit for every list of pairings, every number of  *)
(* background passes and restarts, and any outages and journal faults.     *)
(***************************************************************************)
EXTENDS PairingCommitInvariant, TLAPS

(* Decided, after a step.                                                  *)
DecidedNext(s) == back'[s] \in {"committed", "dead"}

-----------------------------------------------------------------------------
(* Types of what the steps write.                                          *)
LEMMA NoMarkerIsEmpty ==
    /\ NoMarker \notin Marker
    /\ None \notin Connections \cup Unsaved
    /\ Sessions \subseteq Connections
  <1>1. "absent" \notin Connections \cup {None}
    BY NoneIsNoSession, SessionsAreFresh DEF Connections, Settled, Unsaved
  <1>2. QED
    BY <1>1, NoneIsNoSession DEF NoMarker, Marker, Connections

LEMMA MarkerParts ==
    ASSUME NEW m \in Marker \cup {NoMarker}
    PROVE  /\ m.previous \in Connections \cup {None}
           /\ m.pending \in Sessions \cup {None}
           /\ m # NoMarker => m.pendingPrevious \in Connections \cup {None}
  BY DEF Marker, NoMarker

LEMMA RecordType ==
    ASSUME TypeOK
    PROVE  RecordFor(journal) \in Marker
  <1>1. Sessions \subseteq Connections
    BY NoMarkerIsEmpty
  <1>2. CASE ~Present
    BY <1>2 DEF RecordFor, Marker
  <1>3. CASE Present /\ entry \in Journaled(journal)
    <2>1. entry \in Sessions /\ journal[entry] \in Marker \cup {NoMarker}
      BY <1>3 DEF Journaled, TypeOK
    <2>2. journal[entry].previous \in Connections \cup {None}
      BY <2>1, MarkerParts
    <2>3. QED
      BY <1>1, <1>3, <2>1, <2>2 DEF RecordFor, Marker
  <1>4. CASE Present /\ entry \notin Journaled(journal)
    BY <1>4 DEF RecordFor, Marker, Present
  <1>5. QED
    BY <1>2, <1>3, <1>4

LEMMA ResolvedType ==
    ASSUME TypeOK, NEW s \in Journaled(journal), NEW committed \in BOOLEAN
    PROVE  Resolved(journal, s, committed) \in [Sessions -> Marker \cup {NoMarker}]
  <1>1. s \in Sessions /\ journal[s] \in Marker
    BY DEF Journaled, TypeOK
  <1>2. ASSUME NEW t \in Sessions, journal[t].pending = s
        PROVE  journal[t] \in Marker
    <2>1. None # s
      BY <1>1, NoneIsNoSession DEF Connections
    <2>2. journal[t] # NoMarker
      BY <1>2, <2>1 DEF NoMarker
    <2>3. QED
      BY <2>2 DEF TypeOK
  <1>3. ASSUME NEW t \in Sessions
        PROVE  Resolved(journal, s, committed)[t] \in Marker \cup {NoMarker}
    <2>1. CASE t = s \/ journal[t].pending # s
      BY <2>1 DEF Resolved, TypeOK
    <2>2. CASE t # s /\ journal[t].pending = s
      <3>1. journal[t] \in Marker
        BY <1>2, <2>2
      <3>2. Resolved(journal, s, committed)[t] =
              IF committed
              THEN [previous |-> journal[t].pendingPrevious, pending |-> None,
                    pendingPrevious |-> None]
              ELSE [previous |-> journal[s].previous, pending |-> journal[s].pending,
                    pendingPrevious |-> journal[s].pendingPrevious]
        BY <2>2 DEF Resolved
      <3>3. QED
        BY <1>1, <3>1, <3>2 DEF Marker
    <2>3. QED
      BY <2>1, <2>2
  <1>4. QED
    BY <1>3 DEF Resolved

LEMMA EffectType ==
    ASSUME TypeOK, NEW act, NEW s \in Sessions, Effect(act, s)
    PROVE  /\ back' \in [Sessions -> {"none", "issued", "committed", "dead"}]
           /\ active' \in Connections \cup {None}
           /\ \A t \in Sessions :
                 \/ back'[t] = back[t]
                 \/ back[t] = "issued" /\ DecidedNext(t)
           /\ back[s] # "none" => DecidedNext(s)
  <1>1. CASE back[s] # "issued"
    BY <1>1 DEF Effect, TypeOK, DecidedNext
  <1>2. CASE back[s] = "issued" /\ act = "commit"
    BY <1>2, NoMarkerIsEmpty DEF Effect, TypeOK, DecidedNext
  <1>3. CASE back[s] = "issued" /\ act # "commit"
    BY <1>3 DEF Effect, TypeOK, DecidedNext
  <1>4. QED
    BY <1>1, <1>2, <1>3

TaskSet == [pc : TaskStages, session : Sessions \cup {None},
            marker : Marker \cup {NoMarker}, then : {"off", "loop"}]
WalkSet == [pc : PassStages, todo : SUBSET Sessions,
            cur : Sessions \cup {None}, committed : BOOLEAN]

(* A fresh task, a fresh pass.                                             *)
LEMMA FreshTypes ==
    /\ NoTask \in TaskSet /\ NewTask \in TaskSet
    /\ NoPass \in WalkSet /\ NewPass \in WalkSet
    /\ "commit" \in Passes /\ "removal" \in Passes
    /\ Works(NoTask) /\ Works(NewTask) /\ Walks(NoPass) /\ Walks(NewPass)
  BY DEF NoTask, NewTask, NoPass, NewPass, TaskSet, WalkSet, TaskStages, PassStages,
         Passes, Works, Walks

-----------------------------------------------------------------------------
(* What a step may do to the commit task, and to a pass.                   *)
TaskMoves ==
    /\ task' \in TaskSet /\ Works(task')
    /\ task'.session \in {task.session, None, entry}
    /\ \/ task'.marker \in {task.marker, NoMarker}
       \/ \E s \in Sessions : task'.marker = journal[s]
    /\ task'.pc \in {"won", "refused"} =>
          task' = task \/ DecidedNext(task'.session)

PassFits(q) ==
    /\ pass'[q] \in WalkSet /\ Walks(pass'[q])
    /\ pass'[q].cur \in {pass[q].cur, None} \cup pass[q].todo \cup Journaled(journal)
    /\ pass'[q].todo \subseteq pass[q].todo \cup Journaled(journal)
    /\ pass'[q].pc = "answered" => pass'[q] = pass[q] \/ DecidedNext(pass'[q].cur)
PassMoves ==
    /\ pass' = [q \in Passes |-> pass'[q]]
    /\ \A q \in Passes : PassFits(q)

LEMMA TaskSteps ==
    ASSUME TypeInv
    PROVE  /\ task' \in {task, NoTask, NewTask} => TaskMoves
           /\ task' = [task EXCEPT !.pc = task.then, !.then = "off"]
                 /\ task.then = "loop" => TaskMoves
  <1> USE DEF TypeInv, WorkInv
  <1>1. task \in TaskSet
    BY DEF TypeOK, TaskSet
  <1>2. CASE task' \in {task, NoTask, NewTask}
    BY <1>1, <1>2, FreshTypes DEF TaskMoves, NoTask, NewTask
  <1>3. CASE task' = [task EXCEPT !.pc = task.then, !.then = "off"] /\ task.then = "loop"
    <2>1. /\ task'.pc = "loop" /\ task'.then = "off"
          /\ task'.session = task.session /\ task'.marker = task.marker
          /\ task' \in TaskSet
      BY <1>1, <1>3 DEF TaskSet, TaskStages
    <2>2. task.session \in Sessions
      BY <1>3 DEF Works
    <2>3. QED
      BY <2>1, <2>2 DEF TaskMoves, Works
  <1>4. QED
    BY <1>2, <1>3

LEMMA KeptPass ==
    ASSUME TypeInv, NEW q \in Passes, pass'[q] \in {pass[q], NoPass, NewPass}
    PROVE  PassFits(q)
  <1>1. pass[q] \in WalkSet /\ Walks(pass[q])
    BY DEF TypeInv, TypeOK, WalkSet, WorkInv
  <1>2. \A w \in {NoPass, NewPass} :
           w.pc \in {"off", "list"} /\ w.cur = None /\ w.todo = {}
    BY DEF NoPass, NewPass
  <1>3. CASE pass'[q] = pass[q]
    BY <1>1, <1>3 DEF PassFits
  <1>4. CASE pass'[q] \in {NoPass, NewPass}
    BY <1>2, <1>4, FreshTypes DEF PassFits
  <1>5. QED
    BY <1>3, <1>4

LEMMA KeptPasses ==
    ASSUME TypeInv, pass' = [q \in Passes |-> pass'[q]],
           \A q \in Passes : pass'[q] \in {pass[q], NoPass, NewPass}
    PROVE  PassMoves
  BY KeptPass DEF PassMoves

LEMMA GoesOnMoves ==
    ASSUME TypeInv, NEW p \in Passes, NEW todo \in SUBSET Sessions,
           todo \subseteq pass[p].todo \cup Journaled(journal), GoesOn(p, todo)
    PROVE  TaskMoves /\ PassMoves
  <1>t. pass \in [Passes -> WalkSet] /\ task \in TaskSet
    BY DEF TypeInv, TypeOK, WalkSet, TaskSet
  <1>1. ASSUME NEW s \in todo,
               pass' = [pass EXCEPT ![p] =
                        [pc |-> "cancel", todo |-> {t \in todo : Earlier(s, t)},
                         cur |-> s, committed |-> FALSE]],
               UNCHANGED task
        PROVE  TaskMoves /\ PassMoves
    <2>1. TaskMoves
      BY <1>1, TaskSteps
    <2>2. PassFits(p)
      BY <1>t, <1>1 DEF PassFits, WalkSet, PassStages, Walks
    <2>3. ASSUME NEW q \in Passes, q # p
          PROVE  PassFits(q)
      BY <1>t, <1>1, <2>3, KeptPass
    <2>4. pass' = [q \in Passes |-> pass'[q]]
      BY <1>t, <1>1
    <2>5. QED
      BY <2>1, <2>2, <2>3, <2>4 DEF PassMoves
  <1>2. ASSUME pass' = [pass EXCEPT ![p] = NoPass],
               task' = IF p # "commit" THEN task
                       ELSE IF task.then = "off" THEN NoTask
                       ELSE [task EXCEPT !.pc = task.then, !.then = "off"]
        PROVE  TaskMoves /\ PassMoves
    <2>1. \/ task' \in {task, NoTask}
          \/ task' = [task EXCEPT !.pc = task.then, !.then = "off"] /\ task.then = "loop"
      BY <1>t, <1>2 DEF TaskSet
    <2>2. TaskMoves
      BY <2>1, TaskSteps
    <2>3. PassMoves
      BY <1>t, <1>2, KeptPasses
    <2>4. QED
      BY <2>2, <2>3
  <1>3. QED
    BY <1>1, <1>2 DEF GoesOn

(* Nothing is known to a worker that the backend does not know.            *)
LEMMA StepWorkers ==
    ASSUME TypeInv, KnownInv, [Next]_vars
    PROVE  TaskMoves /\ PassMoves
  <1>t. pass \in [Passes -> WalkSet] /\ task \in TaskSet /\ TypeOK
    BY DEF TypeInv, TypeOK, WalkSet, TaskSet
  <1>w. Works(task) /\ \A p \in Passes : Walks(pass[p])
    BY DEF TypeInv, WorkInv
  <1>j. Journaled(journal) \in SUBSET Sessions
    BY DEF Journaled
  <1>k. UNCHANGED pass => PassMoves
    BY <1>t, KeptPasses
  <1>1. ASSUME \/ \E s \in Sessions : \/ Expire(s) \/ LateCommit(s) \/ Exchange(s)
                                      \/ ExchangeWasted(s) \/ FlowStep(s) \/ Abort(s)
                                      \/ Repair(s) \/ AddEntry(s)
               \/ Save \/ Drop \/ UNCHANGED vars
        PROVE  TaskMoves /\ PassMoves
    <2>1. task' \in {task, NewTask}
      BY <1>1 DEF Expire, LateCommit, Exchange, ExchangeWasted, FlowStep, Record, Recorded,
                  RecordFails, Added, Abort, Repair, AddEntry, Save, Drop, vars
    <2>2. Spawned \/ UNCHANGED pass
      BY <1>1 DEF Expire, LateCommit, Exchange, ExchangeWasted, FlowStep, Record, Recorded,
                  RecordFails, Added, Abort, Repair, AddEntry, Save, Drop, vars
    <2>3. Spawned => PassMoves
      BY <1>t, KeptPasses DEF Spawned, Passes
    <2>4. QED
      BY <1>k, <2>1, <2>2, <2>3, TaskSteps
  <1>2. ASSUME Reload \/ Remove \/ Crash
        PROVE  TaskMoves /\ PassMoves
    <2>1. task' \in {NoTask, NewTask}
      BY <1>2 DEF Reload, Remove, Crash, Scheduled
    <2>2. PassMoves
      <3>1. CASE Reload
        BY <1>t, <3>1, KeptPasses DEF Reload
      <3>2. CASE Remove
        BY <1>t, <3>2, KeptPasses DEF Remove
      <3>3. CASE Crash
        BY <1>t, <3>3, KeptPasses DEF Crash
      <3>4. QED
        BY <1>2, <3>1, <3>2, <3>3
    <2>3. QED
      BY <2>1, <2>2, TaskSteps
  <1>3. ASSUME NEW p \in Passes, PassLists(p) \/ CancelUnanswered(p) \/ PassSaved(p)
        PROVE  TaskMoves /\ PassMoves
    <2>1. pass[p].todo \in SUBSET Sessions
      BY <1>t DEF WalkSet
    <2>2. GoesOn(p, Journaled(journal)) \/ GoesOn(p, pass[p].todo)
      BY <1>3 DEF PassLists, CancelUnanswered, PassSaved
    <2>3. QED
      BY <1>j, <2>1, <2>2, GoesOnMoves
  <1>4. ASSUME NEW p \in Passes, CancelAnswered(p)
        PROVE  TaskMoves /\ PassMoves
    <2>1. /\ pass[p] \in WalkSet /\ pass[p].cur \in Sessions
          /\ Effect("cancel", pass[p].cur) /\ UNCHANGED task
      BY <1>t, <1>w, <1>4 DEF CancelAnswered, Walks
    <2>2. DecidedNext(pass[p].cur)
      BY <1>t, <2>1, EffectType DEF KnownInv
    <2>3. /\ pass'[p].cur = pass[p].cur /\ pass'[p].todo = pass[p].todo
          /\ pass'[p].pc = "answered" /\ pass'[p] \in WalkSet
      BY <1>t, <1>4, <2>1 DEF CancelAnswered, WalkSet, PassStages
    <2>4. PassFits(p)
      BY <2>1, <2>2, <2>3 DEF PassFits, Walks
    <2>5. ASSUME NEW q \in Passes, q # p
          PROVE  PassFits(q)
      BY <1>t, <1>4, <2>5, KeptPass DEF CancelAnswered
    <2>6. pass' = [q \in Passes |-> pass'[q]]
      BY <1>t, <1>4 DEF CancelAnswered
    <2>7. QED
      BY <2>1, <2>4, <2>5, <2>6, TaskSteps DEF PassMoves
  <1>5. ASSUME NEW p \in Passes, PassResolves(p)
        PROVE  TaskMoves /\ PassMoves
    <2>1. CASE pass[p].cur \in Journaled(journal)
      <3>1. pass' = [pass EXCEPT ![p].pc = "saving"] /\ UNCHANGED task
        BY <1>5, <2>1 DEF PassResolves
      <3>2. pass[p] \in WalkSet /\ pass[p].cur \in Sessions
        BY <1>t, <1>j, <2>1
      <3>3. /\ pass'[p].cur = pass[p].cur /\ pass'[p].todo = pass[p].todo
            /\ pass'[p].pc = "saving" /\ pass'[p] \in WalkSet
        BY <1>t, <3>1, <3>2 DEF WalkSet, PassStages
      <3>4. PassFits(p)
        BY <3>2, <3>3 DEF PassFits, Walks
      <3>5. ASSUME NEW q \in Passes, q # p
            PROVE  PassFits(q)
        BY <1>t, <3>1, <3>5, KeptPass
      <3>6. pass' = [q \in Passes |-> pass'[q]]
        BY <1>t, <3>1
      <3>7. QED
        BY <3>1, <3>4, <3>5, <3>6, TaskSteps DEF PassMoves
    <2>2. CASE pass[p].cur \notin Journaled(journal)
      <3>1. GoesOn(p, pass[p].todo) /\ pass[p].todo \in SUBSET Sessions
        BY <1>t, <1>5, <2>2 DEF PassResolves, WalkSet
      <3>2. QED
        BY <3>1, GoesOnMoves
    <2>3. QED
      BY <2>1, <2>2
  <1>6. ASSUME NEW p \in Passes, PassSaveRaises(p)
        PROVE  TaskMoves /\ PassMoves
    <2>1. task' \in {task, NoTask} /\ pass' = [pass EXCEPT ![p] = NoPass]
      BY <1>6 DEF PassSaveRaises
    <2>2. QED
      BY <1>t, <2>1, KeptPasses, TaskSteps
  <1>7. ASSUME TaskProceeds \/ CommitAnswered \/ CommitUnanswered \/ TaskSaveRaises
        PROVE  TaskMoves /\ PassMoves
    <2>1. PassMoves
      <3>1. UNCHANGED pass \/ pass' = [pass EXCEPT !["commit"] = NewPass]
        BY <1>7 DEF TaskProceeds, TaskStarts, TaskReads, TaskPolls, TaskResolves, TaskSaved,
                    Refused, CommitAnswered, CommitUnanswered, TaskSaveRaises
      <3>2. QED
        BY <1>k, <1>t, <3>1, KeptPasses
    <2>2. ASSUME TaskStarts
          PROVE  TaskMoves
      <3>1. CASE entry \in Journaled(journal)
        <4>1. entry \in Sessions /\ journal[entry] \in Marker \cup {NoMarker}
          BY <1>t, <1>j, <3>1 DEF TypeOK
        <4>2. task' = [task EXCEPT !.pc = "poll", !.session = entry,
                                   !.marker = journal[entry]]
          BY <2>2, <3>1 DEF TaskStarts
        <4>3. /\ task'.pc = "poll" /\ task'.session = entry /\ task'.marker = journal[entry]
              /\ task'.then = task.then /\ task' \in TaskSet
          BY <1>t, <4>1, <4>2 DEF TaskSet, TaskStages
        <4>4. QED
          BY <4>1, <4>3 DEF TaskMoves, Works
      <3>2. CASE entry \notin Journaled(journal)
        <4>1. /\ task'.pc = "passing" /\ task'.session = task.session
              /\ task'.marker = task.marker /\ task'.then = task.then /\ task' \in TaskSet
          BY <1>t, <2>2, <3>2 DEF TaskStarts, TaskSet, TaskStages
        <4>2. QED
          BY <1>w, <4>1 DEF TaskMoves, Works
      <3>3. QED
        BY <3>1, <3>2
    <2>3. ASSUME TaskReads
          PROVE  TaskMoves
      <3>0. task.session \in Sessions
        BY <1>w, <2>3 DEF TaskReads, Works
      <3>1. CASE task' = NoTask
        BY <3>1, TaskSteps
      <3>2. CASE task' = [task EXCEPT !.pc = "passing"]
        <4>1. /\ task'.pc = "passing" /\ task'.session = task.session
              /\ task'.marker = task.marker /\ task'.then = task.then /\ task' \in TaskSet
          BY <1>t, <3>2 DEF TaskSet, TaskStages
        <4>2. QED
          BY <3>0, <4>1 DEF TaskMoves, Works
      <3>3. CASE task' = [task EXCEPT !.pc = "poll", !.marker = journal[task.session]]
        <4>1. /\ task'.pc = "poll" /\ task'.session = task.session
              /\ task'.marker = journal[task.session] /\ task'.then = task.then
              /\ task' \in TaskSet
          BY <1>t, <3>0, <3>3 DEF TaskSet, TaskStages, TypeOK
        <4>2. QED
          BY <3>0, <4>1 DEF TaskMoves, Works
      <3>4. QED
        BY <2>3, <3>1, <3>2, <3>3 DEF TaskReads
    <2>4. ASSUME TaskPolls \/ CommitUnanswered
          PROVE  TaskMoves
      <3>0. task.session \in Sessions
        BY <1>w, <2>4 DEF TaskPolls, CommitUnanswered, Works
      <3>1. /\ task'.session = task.session /\ task'.marker = task.marker
            /\ task'.pc \in {"loop", "passing", "commit"} /\ task' \in TaskSet
        BY <1>t, <2>4 DEF TaskPolls, CommitUnanswered, TaskSet, TaskStages
      <3>2. QED
        BY <3>0, <3>1 DEF TaskMoves, Works
    <2>5. ASSUME CommitAnswered
          PROVE  TaskMoves
      <3>0. task.session \in Sessions
        BY <1>w, <2>5 DEF CommitAnswered, Works
      <3>1. DecidedNext(task.session)
        BY <1>t, <2>5, <3>0, EffectType DEF KnownInv, CommitAnswered
      <3>2. /\ task'.session = task.session /\ task'.marker = task.marker
            /\ task' \in TaskSet
        BY <1>t, <2>5 DEF CommitAnswered, TaskSet, TaskStages
      <3>3. QED
        BY <3>0, <3>1, <3>2 DEF TaskMoves, Works
    <2>6. ASSUME TaskResolves
          PROVE  TaskMoves
      <3>0. task.session \in Sessions
        BY <1>w, <2>6 DEF TaskResolves, Works
      <3>1. CASE task' = NoTask
        BY <3>1, TaskSteps
      <3>2. CASE task' = [task EXCEPT !.pc = "saving"]
        <4>1. /\ task'.session = task.session /\ task'.marker = task.marker
              /\ task'.pc = "saving" /\ task' \in TaskSet
          BY <1>t, <3>2 DEF TaskSet, TaskStages
        <4>2. QED
          BY <3>0, <4>1 DEF TaskMoves, Works
      <3>3. QED
        BY <2>6, <3>1, <3>2 DEF TaskResolves
    <2>7. ASSUME TaskSaved \/ Refused \/ TaskSaveRaises
          PROVE  TaskMoves
      <3>1. task' = NoTask
        BY <2>7 DEF TaskSaved, Refused, TaskSaveRaises
      <3>2. QED
        BY <3>1, TaskSteps
    <2>8. QED
      BY <1>7, <2>1, <2>2, <2>3, <2>4, <2>5, <2>6, <2>7 DEF TaskProceeds
  <1>8. QED
    BY <1>1, <1>2, <1>3, <1>4, <1>5, <1>6, <1>7 DEF Next, PassProceeds

-----------------------------------------------------------------------------
(* What a step may do to the backend: a candidate is issued to a flow that *)
(* starts, and is decided once.                                            *)
Issues(t) ==
    /\ back'[t] = "issued" /\ flow[t] = "idle" /\ flow'[t] \in {"exchanged", "closed"}
    /\ UNCHANGED <<journal, file, entry, saved>>
BackMoves ==
    /\ back' \in [Sessions -> {"none", "issued", "committed", "dead"}]
    /\ active' \in Connections \cup {None} /\ loose' \in SUBSET Sessions
    /\ \A t \in Sessions : \/ back'[t] = back[t]
                           \/ back[t] = "issued" /\ DecidedNext(t)
                           \/ Issues(t)

LEMMA StepBack == TypeInv /\ [Next]_vars => BackMoves
  <1> SUFFICES ASSUME TypeInv, [Next]_vars PROVE BackMoves
    OBVIOUS
  <1>t. TypeOK
    BY DEF TypeInv
  <1>u. Underway \subseteq Sessions
    BY DEF TypeInv, WorkInv, Works, Underway
  <1>k. UNCHANGED backend => BackMoves
    BY <1>t DEF backend, BackMoves, TypeOK
  <1>e. ASSUME NEW act, NEW s \in Sessions, Effect(act, s), loose' \in SUBSET Sessions
        PROVE  BackMoves
    BY <1>t, <1>e, EffectType DEF BackMoves
  <1>1. ASSUME NEW s \in Sessions, Expire(s)
        PROVE  BackMoves
    BY <1>t, <1>1 DEF Expire, BackMoves, TypeOK, DecidedNext
  <1>2. ASSUME NEW s \in Sessions, LateCommit(s)
        PROVE  BackMoves
    BY <1>t, <1>e, <1>2 DEF LateCommit, TypeOK
  <1>3. ASSUME NEW s \in Sessions, Exchange(s) \/ ExchangeWasted(s)
        PROVE  BackMoves
    <2>1. /\ back' = [back EXCEPT ![s] = "issued"] /\ UNCHANGED <<active, loose>>
          /\ flow[s] = "idle" /\ flow'[s] \in {"exchanged", "closed"}
          /\ UNCHANGED <<journal, file, entry, saved>>
      BY <1>t, <1>3 DEF Exchange, ExchangeWasted, TypeOK, books, core
    <2>2. QED
      BY <1>t, <2>1 DEF BackMoves, Issues, TypeOK
  <1>4. ASSUME \/ \E s \in Sessions : FlowStep(s) \/ Abort(s) \/ Repair(s) \/ AddEntry(s)
               \/ Save \/ Drop \/ UNCHANGED vars
        PROVE  BackMoves
    BY <1>k, <1>4 DEF FlowStep, Record, Recorded, RecordFails, Added, Abort, Repair,
                      AddEntry, Save, Drop, vars
  <1>5. ASSUME Reload \/ Remove \/ Crash
        PROVE  BackMoves
    <2>1. UNCHANGED <<back, active>> /\ loose' = loose \cup Underway
      BY <1>5 DEF Reload, Remove, Crash, CancelTask
    <2>2. QED
      BY <1>t, <1>u, <2>1 DEF BackMoves, TypeOK
  <1>6. ASSUME NEW p \in Passes, CancelAnswered(p) \/ CancelUnanswered(p)
        PROVE  BackMoves
    <2>1. pass[p].cur \in Sessions /\ loose' \in SUBSET Sessions
      BY <1>t, <1>6 DEF CancelAnswered, CancelUnanswered, TypeInv, WorkInv, Walks, TypeOK
    <2>2. Effect("cancel", pass[p].cur) \/ UNCHANGED backend
      BY <1>6 DEF CancelAnswered, CancelUnanswered, backend
    <2>3. QED
      BY <1>e, <1>k, <2>1, <2>2
  <1>7. ASSUME CommitAnswered \/ CommitUnanswered
        PROVE  BackMoves
    <2>1. task.session \in Sessions /\ loose' \in SUBSET Sessions
      BY <1>t, <1>7 DEF CommitAnswered, CommitUnanswered, TypeInv, WorkInv, Works, TypeOK
    <2>2. Effect("commit", task.session) \/ UNCHANGED backend
      BY <1>7 DEF CommitAnswered, CommitUnanswered, backend
    <2>3. QED
      BY <1>e, <1>k, <2>1, <2>2
  <1>8. ASSUME \/ \E p \in Passes : PassProceeds(p) \/ PassSaveRaises(p)
               \/ TaskProceeds \/ TaskSaveRaises
        PROVE  BackMoves
    BY <1>k, <1>8 DEF PassProceeds, PassLists, PassResolves, PassSaved, PassSaveRaises,
                      TaskProceeds, TaskStarts, TaskReads, TaskPolls, TaskResolves,
                      TaskSaved, Refused, TaskSaveRaises
  <1>9. QED
    BY <1>1, <1>2, <1>3, <1>4, <1>5, <1>6, <1>7, <1>8 DEF Next

(* What a step may do to the flows.                                        *)
FlowMoves ==
    /\ flow' \in [Sessions -> {"idle", "exchanged", "recording", "ready",
                               "reshown", "adding", "closed"}]
    /\ gone' \in SUBSET Sessions
    /\ \A t \in Sessions :
          \/ flow'[t] = flow[t]
          \/ flow[t] = "idle" /\ flow'[t] \in {"exchanged", "closed"} /\ back'[t] = "issued"
          \/ /\ flow[t] = "exchanged" /\ flow'[t] = "recording"
             /\ journal' = [journal EXCEPT ![t] = RecordFor(journal)]
          \/ /\ flow[t] = "recording" /\ flow'[t] = "ready"
             /\ file' = journal /\ UNCHANGED journal
          \/ flow[t] = "ready" /\ flow'[t] = "adding"
          \/ flow[t] # "idle" /\ flow'[t] \in {"closed", "reshown"}

LEMMA StepFlow == TypeInv /\ [Next]_vars => FlowMoves
  <1> SUFFICES ASSUME TypeInv, [Next]_vars PROVE FlowMoves
    OBVIOUS
  <1>t. TypeOK
    BY DEF TypeInv
  <1>k. UNCHANGED flows => FlowMoves
    BY <1>t DEF flows, FlowMoves, TypeOK
  <1>1. ASSUME NEW s \in Sessions, Exchange(s) \/ ExchangeWasted(s)
        PROVE  FlowMoves
    BY <1>t, <1>1 DEF Exchange, ExchangeWasted, FlowMoves, TypeOK
  <1>2. ASSUME NEW s \in Sessions, Record(s)
        PROVE  FlowMoves
    BY <1>t, <1>2 DEF Record, FlowMoves, TypeOK
  <1>3. ASSUME NEW s \in Sessions, Recorded(s)
        PROVE  FlowMoves
    BY <1>t, <1>3 DEF Recorded, FlowMoves, TypeOK
  <1>4. ASSUME NEW s \in Sessions, RecordFails(s)
        PROVE  FlowMoves
    BY <1>t, <1>4 DEF RecordFails, FlowMoves, TypeOK, Unrecorded
  <1>5. ASSUME NEW s \in Sessions, Abort(s) \/ Repair(s) \/ AddEntry(s) \/ Added(s)
        PROVE  FlowMoves
    <2>1. \/ UNCHANGED flow
          \/ flow[s] # "idle" /\ flow' = [flow EXCEPT ![s] = "closed"]
          \/ flow[s] = "ready" /\ flow' = [flow EXCEPT ![s] = "adding"]
      BY <1>5 DEF Abort, Alive, Repair, AddEntry, Added
    <2>2. gone' \in SUBSET Sessions
      BY <1>t, <1>5 DEF Abort, Repair, AddEntry, Added, TypeOK
    <2>3. QED
      BY <1>t, <2>1, <2>2 DEF FlowMoves, TypeOK
  <1>6. ASSUME Crash
        PROVE  FlowMoves
    BY <1>t, <1>6 DEF Crash, FlowMoves, TypeOK
  <1>7. ASSUME \/ \E s \in Sessions : Expire(s) \/ LateCommit(s)
               \/ Save \/ Reload \/ Remove \/ Drop \/ UNCHANGED vars
               \/ \E p \in Passes : \/ PassProceeds(p) \/ CancelAnswered(p)
                                    \/ CancelUnanswered(p) \/ PassSaveRaises(p)
               \/ TaskProceeds \/ CommitAnswered \/ CommitUnanswered \/ TaskSaveRaises
        PROVE  FlowMoves
    <2>1. UNCHANGED flows
      BY <1>7 DEF Expire, LateCommit, Save, Reload, Remove, Drop, vars, flows,
                  PassProceeds, PassLists, PassResolves, PassSaved, PassSaveRaises,
                  CancelAnswered, CancelUnanswered, TaskProceeds, TaskStarts, TaskReads,
                  TaskPolls, TaskResolves, TaskSaved, Refused, TaskSaveRaises,
                  CommitAnswered, CommitUnanswered
    <2>2. QED
      BY <1>k, <2>1
  <1>8. QED
    BY <1>1, <1>2, <1>3, <1>4, <1>5, <1>6, <1>7 DEF Next, FlowStep

(* What a step may do to the journal and its file: what is resolved is     *)
(* decided, and only a restart takes back what was not written.            *)
Records(t) ==
    /\ flow[t] = "exchanged"
    /\ journal' = [journal EXCEPT ![t] = RecordFor(journal)]
    /\ UNCHANGED <<file, back, entry, saved>>
Resolves(u) ==
    /\ u \in Journaled(journal) /\ Decided(u)
    /\ \E c \in BOOLEAN : journal' = Resolved(journal, u, c)
    /\ UNCHANGED <<file, back, entry, saved>>
Restarts ==
    /\ journal' = file /\ entry' = saved /\ UNCHANGED <<file, back, saved>>
    /\ \A t \in Sessions : flow'[t] \in {"idle", "closed"}
BooksMoves ==
    /\ journal' \in [Sessions -> Marker \cup {NoMarker}]
    /\ file' \in [Sessions -> Marker \cup {NoMarker}]
    /\ lock' \in Passes \cup Sessions \cup {"task", None}
    /\ \/ UNCHANGED journal /\ file' \in {file, journal}
       \/ \E t \in Sessions : Records(t) \/ Resolves(t)
       \/ Restarts

LEMMA StepBooks == TypeInv /\ OutcomeInv /\ [Next]_vars => BooksMoves
  <1> SUFFICES ASSUME TypeInv, OutcomeInv, [Next]_vars PROVE BooksMoves
    OBVIOUS
  <1>t. TypeOK
    BY DEF TypeInv
  <1>k. ASSUME UNCHANGED journal, file' \in {file, journal}, lock' \in {lock, None}
        PROVE  BooksMoves
    BY <1>t, <1>k DEF BooksMoves, TypeOK
  <1>1. ASSUME NEW s \in Sessions, Record(s)
        PROVE  BooksMoves
    <2>1. Records(s) /\ lock' = s
      BY <1>1 DEF Record, Records, backend, core
    <2>2. journal' \in [Sessions -> Marker \cup {NoMarker}]
      BY <1>t, <2>1, RecordType DEF Records, TypeOK
    <2>3. QED
      BY <1>t, <2>1, <2>2 DEF BooksMoves, Records, TypeOK
  <1>2. ASSUME NEW u \in Journaled(journal), Decided(u), NEW c \in BOOLEAN,
               journal' = Resolved(journal, u, c), UNCHANGED <<file, back, entry, saved>>,
               lock' \in Passes \cup {"task"}
        PROVE  BooksMoves
    <2>1. journal' \in [Sessions -> Marker \cup {NoMarker}]
      BY <1>t, <1>2, ResolvedType
    <2>2. Resolves(u) /\ u \in Sessions
      BY <1>2 DEF Resolves, Journaled
    <2>3. QED
      BY <1>t, <1>2, <2>1, <2>2 DEF BooksMoves, TypeOK
  <1>3. ASSUME NEW p \in Passes, PassResolves(p)
        PROVE  BooksMoves
    <2>1. CASE pass[p].cur \in Journaled(journal)
      <3>1. /\ journal' = Resolved(journal, pass[p].cur, pass[p].committed)
            /\ lock' = p /\ UNCHANGED <<file, back, entry, saved>>
        BY <1>3, <2>1 DEF PassResolves, backend, core
      <3>2. Decided(pass[p].cur) /\ pass[p].committed \in BOOLEAN
        BY <1>t, <1>3 DEF PassResolves, OutcomeInv, TypeOK
      <3>3. QED
        BY <1>2, <2>1, <3>1, <3>2
    <2>2. CASE pass[p].cur \notin Journaled(journal)
      BY <1>k, <1>3, <2>2 DEF PassResolves
    <2>3. QED
      BY <2>1, <2>2
  <1>4. ASSUME TaskResolves
        PROVE  BooksMoves
    <2>1. CASE task.session \in Journaled(journal)
      <3>1. /\ journal' = Resolved(journal, task.session, task.pc = "won")
            /\ lock' = "task" /\ UNCHANGED <<file, back, entry, saved>>
        BY <1>4, <2>1 DEF TaskResolves, backend, core
      <3>2. Decided(task.session) /\ (task.pc = "won") \in BOOLEAN
        BY <1>4 DEF TaskResolves, OutcomeInv
      <3>3. QED
        BY <1>2, <2>1, <3>1, <3>2
    <2>2. CASE task.session \notin Journaled(journal)
      BY <1>k, <1>4, <2>2 DEF TaskResolves
    <2>3. QED
      BY <2>1, <2>2
  <1>5. ASSUME Reload \/ Remove
        PROVE  BooksMoves
    <2>1. CancelTask /\ UNCHANGED journal
      BY <1>5 DEF Reload, Remove
    <2>2. QED
      BY <1>k, <2>1 DEF CancelTask
  <1>6. ASSUME Crash
        PROVE  BooksMoves
    <2>1. Restarts /\ lock' = None
      BY <1>t, <1>6 DEF Crash, Restarts, TypeOK
    <2>2. QED
      BY <1>t, <2>1 DEF BooksMoves, Restarts, TypeOK
  <1>7. ASSUME \/ \E s \in Sessions : \/ Expire(s) \/ LateCommit(s) \/ Exchange(s)
                                      \/ ExchangeWasted(s) \/ Recorded(s) \/ RecordFails(s)
                                      \/ Added(s) \/ Abort(s) \/ Repair(s) \/ AddEntry(s)
               \/ Save \/ Drop \/ UNCHANGED vars
               \/ \E p \in Passes : \/ PassLists(p) \/ PassSaved(p) \/ CancelAnswered(p)
                                    \/ CancelUnanswered(p) \/ PassSaveRaises(p)
               \/ TaskStarts \/ TaskReads \/ TaskPolls \/ TaskSaved \/ Refused
               \/ CommitAnswered \/ CommitUnanswered \/ TaskSaveRaises
        PROVE  BooksMoves
    <2>1. UNCHANGED journal /\ file' \in {file, journal} /\ lock' \in {lock, None}
      BY <1>7 DEF Expire, LateCommit, Exchange, ExchangeWasted, Recorded, RecordFails,
                  Added, Abort, Repair, AddEntry, Save, Drop, vars, books, PassLists,
                  PassSaved, CancelAnswered, CancelUnanswered, PassSaveRaises, TaskStarts,
                  TaskReads, TaskPolls, TaskSaved, Refused, CommitAnswered,
                  CommitUnanswered, TaskSaveRaises
    <2>2. QED
      BY <1>k, <2>1
  <1>8. QED
    BY <1>1, <1>3, <1>4, <1>5, <1>6, <1>7
    DEF Next, FlowStep, PassProceeds, TaskProceeds

(* What a step may do to the entry: it takes the candidate of a flow that  *)
(* is ready, or what is restored for a refused one, or what a restart      *)
(* finds saved.                                                            *)
CoreMoves ==
    /\ entry' \in Connections \cup Unsaved /\ saved' \in Connections \cup Unsaved
    /\ reload' \in BOOLEAN /\ leaving' \in BOOLEAN
    /\ \/ UNCHANGED saved
       \/ saved' = entry /\ UNCHANGED <<entry, journal, file, back>>
    /\ \/ UNCHANGED entry
       \/ entry' \notin Sessions
       \/ flow[entry'] = "ready" /\ UNCHANGED <<journal, file, back>>
       \/ Decided(entry') /\ UNCHANGED <<journal, file, back>>
       \/ Restarts

LEMMA StepCore == TypeInv /\ MarkersInv /\ [Next]_vars => CoreMoves
  <1> SUFFICES ASSUME TypeInv, MarkersInv, [Next]_vars PROVE CoreMoves
    OBVIOUS
  <1>t. TypeOK
    BY DEF TypeInv
  <1>k. UNCHANGED core => CoreMoves
    BY <1>t DEF core, CoreMoves, TypeOK
  <1>1. ASSUME NEW s \in Sessions, Repair(s) \/ AddEntry(s)
        PROVE  CoreMoves
    <2>1. /\ entry' = s /\ flow[s] = "ready" /\ UNCHANGED <<journal, file, back, saved, leaving>>
          /\ reload' \in {reload, TRUE}
      BY <1>1 DEF Repair, AddEntry, backend, books
    <2>2. QED
      BY <1>t, <2>1, NoMarkerIsEmpty DEF CoreMoves, TypeOK
  <1>2. ASSUME Save
        PROVE  CoreMoves
    BY <1>t, <1>2 DEF Save, CoreMoves, TypeOK, backend, books
  <1>3. ASSUME Reload \/ Remove
        PROVE  CoreMoves
    BY <1>t, <1>3 DEF Reload, Remove, CoreMoves, TypeOK
  <1>4. ASSUME Drop
        PROVE  CoreMoves
    <2>1. "gone" \notin Sessions /\ "gone" \in Unsaved
      BY SessionsAreFresh DEF Unsaved
    <2>2. QED
      BY <1>t, <1>4, <2>1 DEF Drop, CoreMoves, TypeOK
  <1>5. ASSUME Crash
        PROVE  CoreMoves
    <2>1. Restarts
      BY <1>t, <1>5 DEF Crash, Restarts, TypeOK
    <2>2. QED
      BY <1>t, <1>5, <2>1 DEF Crash, CoreMoves, TypeOK
  <1>6. ASSUME Refused
        PROVE  CoreMoves
    <2>1. CASE Restores
      <3>1. /\ entry' = task.marker.previous /\ reload' = TRUE
            /\ UNCHANGED <<saved, leaving, journal, file, back>>
        BY <1>6, <2>1 DEF Refused, backend, books
      <3>2. entry' \in Connections
        <4>1. task.marker \in Marker \cup {NoMarker}
          BY <1>t DEF TypeOK
        <4>2. task.marker.previous # None
          BY <1>6 DEF Refused, NothingToRestore
        <4>3. QED
          BY <3>1, <4>1, <4>2, MarkerParts
      <3>3. entry' \in Sessions => Decided(entry')
        BY <3>1 DEF MarkersInv, MarkerFits
      <3>4. QED
        BY <1>t, <3>1, <3>2, <3>3 DEF CoreMoves, TypeOK
    <2>2. CASE ~Restores
      BY <1>k, <1>6, <2>2 DEF Refused, core
    <2>3. QED
      BY <2>1, <2>2
  <1>7. ASSUME \/ \E s \in Sessions : \/ Expire(s) \/ LateCommit(s) \/ Exchange(s)
                                      \/ ExchangeWasted(s) \/ FlowStep(s) \/ Abort(s)
               \/ UNCHANGED vars
               \/ \E p \in Passes : \/ PassProceeds(p) \/ CancelAnswered(p)
                                    \/ CancelUnanswered(p) \/ PassSaveRaises(p)
               \/ TaskStarts \/ TaskReads \/ TaskPolls \/ TaskResolves \/ TaskSaved
               \/ CommitAnswered \/ CommitUnanswered \/ TaskSaveRaises
        PROVE  CoreMoves
    <2>1. UNCHANGED core
      BY <1>7 DEF Expire, LateCommit, Exchange, ExchangeWasted, FlowStep, Record, Recorded,
                  RecordFails, Added, Abort, vars, PassProceeds, PassLists, PassResolves,
                  PassSaved, PassSaveRaises, CancelAnswered, CancelUnanswered, TaskStarts,
                  TaskReads, TaskPolls, TaskResolves, TaskSaved, TaskSaveRaises,
                  CommitAnswered, CommitUnanswered
    <2>2. QED
      BY <1>k, <2>1
  <1>8. QED
    BY <1>1, <1>2, <1>3, <1>4, <1>5, <1>6, <1>7 DEF Next, TaskProceeds

LEMMA InitType == Init => TypeInv
  <1> SUFFICES ASSUME Init PROVE TypeInv
    OBVIOUS
  <1>1. TypeOK
    <2>1. task \in TaskSet /\ pass \in [Passes -> WalkSet]
      BY FreshTypes DEF Init
    <2>2. entry \in Connections \cup Unsaved
      BY DEF Init, Connections, Unsaved
    <2>3. active \in Connections \cup {None} /\ crashes \in 0..MaxCrashes
      BY CrashBound DEF Init, Present
    <2>4. QED
      BY <2>1, <2>2, <2>3 DEF Init, TypeOK, TaskSet, WalkSet
  <1>2. WorkInv
    BY FreshTypes DEF Init, WorkInv
  <1>3. QED
    BY <1>1, <1>2 DEF TypeInv

-----------------------------------------------------------------------------
(* What stays in the journal, and what gets into it.                       *)
LEMMA ResolvedKeeps ==
    ASSUME TypeOK, NEW u \in Journaled(journal), NEW c \in BOOLEAN, NEW t \in Sessions
    PROVE  t \in Journaled(Resolved(journal, u, c)) <=> t \in Journaled(journal) /\ t # u
  <1>1. u \in Sessions /\ journal[u] \in Marker /\ None # u
    BY NoneIsNoSession DEF Journaled, TypeOK, Connections
  <1>2. CASE t = u \/ journal[t].pending # u
    BY <1>2 DEF Resolved, Journaled
  <1>3. CASE t # u /\ journal[t].pending = u
    <2>1. journal[t] # NoMarker
      BY <1>1, <1>3 DEF NoMarker
    <2>2. journal[t] \in Marker
      BY <2>1 DEF TypeOK
    <2>3. Resolved(journal, u, c)[t] \in Marker
      <3>1. Resolved(journal, u, c)[t] =
              IF c
              THEN [previous |-> journal[t].pendingPrevious, pending |-> None,
                    pendingPrevious |-> None]
              ELSE [previous |-> journal[u].previous, pending |-> journal[u].pending,
                    pendingPrevious |-> journal[u].pendingPrevious]
        BY <1>3 DEF Resolved
      <3>2. QED
        BY <1>1, <2>2, <3>1 DEF Marker
    <2>4. QED
      BY <1>3, <2>1, <2>3, NoMarkerIsEmpty DEF Journaled
  <1>4. QED
    BY <1>2, <1>3

LEMMA BooksKeep ==
    ASSUME TypeOK, BooksMoves, NEW s \in Sessions
    PROVE  /\ s \in Journaled(journal') =>
                 s \in Journaled(journal) \cup Journaled(file) \/ flow[s] = "exchanged"
           /\ s \in Journaled(file') => s \in Journaled(journal) \cup Journaled(file)
           /\ s \in Journaled(journal) /\ ~Decided(s) =>
                 s \in Journaled(journal') \/ Restarts
  <1>1. CASE UNCHANGED journal /\ file' \in {file, journal}
    BY <1>1
  <1>2. ASSUME NEW t \in Sessions, Records(t)
        PROVE  /\ s \in Journaled(journal) => s \in Journaled(journal')
               /\ s \in Journaled(journal') => s \in Journaled(journal) \/ s = t
    BY <1>2, RecordType, NoMarkerIsEmpty DEF Records, Journaled, TypeOK
  <1>3. ASSUME NEW t \in Sessions, Resolves(t)
        PROVE  s \in Journaled(journal') <=> s \in Journaled(journal) /\ s # t
    BY <1>3, ResolvedKeeps DEF Resolves
  <1>4. CASE \E t \in Sessions : Records(t)
    BY <1>2, <1>4 DEF Records
  <1>5. CASE \E t \in Sessions : Resolves(t)
    BY <1>3, <1>5 DEF Resolves
  <1>6. CASE Restarts
    BY <1>6 DEF Restarts
  <1>7. QED
    BY <1>1, <1>4, <1>5, <1>6 DEF BooksMoves

(* All that a step may do.                                                 *)
Moves == /\ BackMoves /\ FlowMoves /\ BooksMoves /\ CoreMoves
         /\ TaskMoves /\ PassMoves
LEMMA StepMoves == PairInv /\ [Next]_vars => Moves
  BY StepBack, StepFlow, StepBooks, StepCore, StepWorkers DEF PairInv, Moves

LEMMA StepType == PairInv /\ [Next]_vars => TypeInv'
  <1> SUFFICES ASSUME PairInv, [Next]_vars PROVE TypeInv'
    OBVIOUS
  <1>1. Moves /\ TypeOK
    BY StepMoves DEF PairInv, TypeInv
  <1>2. crashes' \in 0..MaxCrashes /\ struck' \in BOOLEAN
    <2>1. CASE Crash
      BY <1>1, <2>1, CrashBound DEF Crash, TypeOK
    <2>2. CASE ~Crash
      <3>1. UNCHANGED past
        BY <2>2 DEF Next, Expire, LateCommit, Exchange, ExchangeWasted, FlowStep, Record,
                    Recorded, RecordFails, Added, Abort, Repair, AddEntry, Save, Reload,
                    Remove, Drop, PassProceeds, PassLists, PassResolves, PassSaved,
                    CancelAnswered, CancelUnanswered, PassSaveRaises, TaskProceeds,
                    TaskStarts, TaskReads, TaskPolls, TaskResolves, TaskSaved, Refused,
                    CommitAnswered, CommitUnanswered, TaskSaveRaises, vars
      <3>2. QED
        BY <1>1, <3>1 DEF past, TypeOK
    <2>3. QED
      BY <2>1, <2>2
  <1>3. pass' \in [Passes -> WalkSet] /\ task' \in TaskSet /\ WorkInv'
    BY <1>1 DEF Moves, PassMoves, PassFits, TaskMoves, WorkInv
  <1>4. TypeOK'
    BY <1>1, <1>2, <1>3 DEF Moves, BackMoves, FlowMoves, BooksMoves, CoreMoves, TypeOK,
                            TaskSet, WalkSet
  <1>5. QED
    BY <1>3, <1>4 DEF TypeInv

LEMMA StepKnown == PairInv /\ [Next]_vars => KnownInv'
  <1> SUFFICES ASSUME PairInv, [Next]_vars PROVE KnownInv'
    OBVIOUS
  <1> USE DEF PairInv
  <1>1. Moves /\ TypeOK
    BY StepMoves DEF TypeInv
  <1>2. ASSUME NEW s \in Sessions
        PROVE  /\ flow'[s] = "idle" <=> back'[s] = "none"
               /\ back[s] # "none" => back'[s] # "none"
    BY <1>1 DEF Moves, BackMoves, FlowMoves, Issues, DecidedNext, KnownInv
  <1>3. ASSUME NEW s \in Sessions, s \in {entry', saved', task'.session}
        PROVE  back[s] # "none"
    <2>1. CASE s = entry'
      BY <1>1, <1>3, <2>1 DEF Moves, CoreMoves, Restarts, Decided, KnownInv
    <2>2. CASE s = saved'
      BY <1>1, <1>3, <2>2 DEF Moves, CoreMoves, KnownInv
    <2>3. CASE s = task'.session
      BY <1>1, <1>3, <2>3, NoneIsNoSession DEF Moves, TaskMoves, KnownInv, Connections
    <2>4. QED
      BY <1>3, <2>1, <2>2, <2>3
  <1>4. ASSUME NEW s \in Sessions, s \in Journaled(journal') \cup Journaled(file')
        PROVE  back[s] # "none"
    <2>1. s \in Journaled(journal) \cup Journaled(file) \/ flow[s] = "exchanged"
      BY <1>1, <1>4, BooksKeep DEF Moves
    <2>2. QED
      BY <2>1 DEF KnownInv
  <1>5. ASSUME NEW s \in Sessions, NEW p \in Passes, s = pass'[p].cur \/ s \in pass'[p].todo
        PROVE  back[s] # "none"
    <2>1. s \in {pass[p].cur} \cup pass[p].todo \cup Journaled(journal)
      BY <1>1, <1>5, NoneIsNoSession DEF Moves, PassMoves, PassFits, Connections
    <2>2. QED
      BY <2>1 DEF KnownInv
  <1>6. QED
    BY <1>2, <1>3, <1>4, <1>5 DEF KnownInv, Journaled

LEMMA StepRecord == PairInv /\ [Next]_vars => RecordInv' /\ JournaledBeforeSaved'
  <1> SUFFICES ASSUME PairInv, [Next]_vars, NEW s \in Sessions, back'[s] = "issued"
               PROVE  /\ s \in Journaled(file') => s \in Journaled(journal')
                      /\ flow'[s] = "recording" => s \in Journaled(journal')
                      /\ flow'[s] \in {"ready", "adding"} => s \in Journaled(file')
                      /\ saved' = s => s \in Journaled(file')
                      /\ entry' = s => s \in Journaled(journal') \cap Journaled(file')
    BY DEF RecordInv, JournaledBeforeSaved, Journaled
  <1> USE DEF PairInv
  <1>1. Moves /\ TypeOK
    BY StepMoves DEF TypeInv
  <1>2. CASE Issues(s)
    <2>1. back[s] = "none"
      BY <1>2 DEF Issues, KnownInv
    <2>2. QED
      BY <1>2, <2>1 DEF Issues, KnownInv
  <1>3. CASE ~Issues(s)
    <2>1. back[s] = "issued"
      BY <1>1, <1>3 DEF Moves, BackMoves, DecidedNext
    <2>2. ~Decided(s)
      BY <2>1 DEF Decided
    <2>3. s \in Journaled(journal) => s \in Journaled(journal') \/ Restarts
      BY <1>1, <2>2, BooksKeep DEF Moves
    <2>4. s \in Journaled(file) => s \in Journaled(journal)
      BY <2>1 DEF RecordInv
    <2>5. /\ s \in Journaled(file') => s \in Journaled(journal)
          /\ s \in Journaled(file) => s \in Journaled(file')
      BY <1>1, <2>4 DEF Moves, BooksMoves, Records, Resolves, Restarts
    <2>6. s \in Journaled(file') => s \in Journaled(journal')
      BY <2>3, <2>5 DEF Restarts
    <2>7. flow'[s] = "recording" => s \in Journaled(journal')
      <3>1. CASE flow'[s] = flow[s]
        BY <2>1, <2>3, <3>1 DEF RecordInv, Restarts
      <3>2. CASE flow[s] = "exchanged" /\ journal' = [journal EXCEPT ![s] = RecordFor(journal)]
        BY <1>1, <3>2, RecordType, NoMarkerIsEmpty DEF Journaled, TypeOK
      <3>3. QED
        BY <1>1, <3>1, <3>2 DEF Moves, FlowMoves
    <2>8. flow'[s] \in {"ready", "adding"} => s \in Journaled(file')
      BY <1>1, <2>1, <2>5 DEF Moves, FlowMoves, RecordInv
    <2>9. saved' = s => s \in Journaled(file')
      BY <1>1, <2>1, <2>5 DEF Moves, CoreMoves, JournaledBeforeSaved
    <2>10. entry' = s => s \in Journaled(file')
      BY <1>1, <2>1, <2>2, <2>5 DEF Moves, CoreMoves, JournaledBeforeSaved, RecordInv, Restarts
    <2>11. QED
      BY <2>6, <2>7, <2>8, <2>9, <2>10
  <1>4. QED
    BY <1>2, <1>3

(* Decided candidates stay so, and a record that is made or taken over     *)
(* fits.                                                                   *)
LEMMA StepMarkers == PairInv /\ [Next]_vars => MarkersInv' /\ OutcomeInv'
  <1> SUFFICES ASSUME PairInv, [Next]_vars PROVE MarkersInv' /\ OutcomeInv'
    OBVIOUS
  <1> USE DEF PairInv
  <1>1. Moves /\ TypeOK
    BY StepMoves DEF TypeInv
  <1>2. ASSUME NEW t \in Sessions, Decided(t)
        PROVE  DecidedNext(t)
    BY <1>1, <1>2 DEF Moves, BackMoves, Issues, Decided, DecidedNext, KnownInv
  <1>3. ASSUME NEW m, MarkerFits(m)
        PROVE  MarkerFits(m)'
    BY <1>2, <1>3 DEF MarkerFits, Decided, DecidedNext
  <1>4. MarkerFits(NoMarker)
    BY NoneIsNoSession DEF MarkerFits, NoMarker, Connections
  <1>5. MarkerFits(RecordFor(journal))
    <2>1. CASE ~Present
      BY <2>1, NoneIsNoSession DEF RecordFor, MarkerFits, Connections
    <2>2. CASE Present /\ entry \in Journaled(journal)
      <3>1. MarkerFits(journal[entry])
        BY <2>2 DEF MarkersInv, Journaled
      <3>2. QED
        BY <2>2, <3>1 DEF RecordFor, MarkerFits
    <2>3. CASE Present /\ entry \notin Journaled(journal)
      <3>1. entry \in Sessions => Decided(entry)
        BY <1>1, <2>3 DEF JournaledBeforeSaved, KnownInv, Decided, TypeOK
      <3>2. QED
        BY <2>3, <3>1 DEF RecordFor, MarkerFits
    <2>4. QED
      BY <2>1, <2>2, <2>3
  <1>6. ASSUME NEW u \in Journaled(journal), Decided(u), NEW c \in BOOLEAN, NEW t \in Sessions
        PROVE  MarkerFits(Resolved(journal, u, c)[t])
    <2>1. /\ u \in Sessions /\ None # u
          /\ MarkerFits(journal[u]) /\ MarkerFits(journal[t])
      BY NoneIsNoSession DEF MarkersInv, Journaled, Connections
    <2>2. CASE t = u
      BY <1>4, <2>2 DEF Resolved
    <2>3. CASE t # u /\ journal[t].pending # u
      BY <2>1, <2>3 DEF Resolved
    <2>4. CASE t # u /\ journal[t].pending = u /\ c
      BY <1>6, <2>1, <2>4 DEF Resolved, MarkerFits
    <2>5. CASE t # u /\ journal[t].pending = u /\ ~c
      BY <2>1, <2>5 DEF Resolved, MarkerFits
    <2>6. QED
      BY <2>2, <2>3, <2>4, <2>5
  <1>7. ASSUME NEW t \in Sessions
        PROVE  MarkerFits(journal'[t]) /\ MarkerFits(file'[t])
    <2>0. MarkerFits(journal[t]) /\ MarkerFits(file[t])
      BY DEF MarkersInv
    <2>1. CASE UNCHANGED journal /\ file' \in {file, journal}
      BY <2>0, <2>1
    <2>2. ASSUME NEW s \in Sessions, Records(s)
          PROVE  MarkerFits(journal'[t]) /\ MarkerFits(file'[t])
      BY <1>1, <1>5, <2>0, <2>2 DEF Records, TypeOK
    <2>3. ASSUME NEW s \in Sessions, Resolves(s)
          PROVE  MarkerFits(journal'[t]) /\ MarkerFits(file'[t])
      BY <1>6, <2>0, <2>3 DEF Resolves
    <2>4. CASE Restarts
      BY <2>0, <2>4 DEF Restarts
    <2>5. QED
      BY <1>1, <2>1, <2>2, <2>3, <2>4 DEF Moves, BooksMoves
  <1>8. MarkerFits(task'.marker)
    BY <1>1, <1>4 DEF Moves, TaskMoves, MarkersInv
  <1>9. MarkersInv'
    BY <1>3, <1>7, <1>8 DEF MarkersInv
  <1>10. OutcomeInv'
    <2>1. task'.pc \in {"won", "refused"} => DecidedNext(task'.session)
      <3>1. CASE task' = task /\ task.pc \in {"won", "refused"}
        BY <1>2, <3>1 DEF OutcomeInv, TypeInv, WorkInv, Works
      <3>2. QED
        BY <1>1, <3>1 DEF Moves, TaskMoves
    <2>2. ASSUME NEW p \in Passes, pass'[p].pc = "answered"
          PROVE  DecidedNext(pass'[p].cur)
      <3>1. CASE pass'[p] = pass[p]
        BY <1>2, <2>2, <3>1 DEF OutcomeInv, TypeInv, WorkInv, Walks
      <3>2. QED
        BY <1>1, <2>2, <3>1 DEF Moves, PassMoves, PassFits
    <2>3. QED
      BY <2>1, <2>2 DEF OutcomeInv, Decided, DecidedNext
  <1>11. QED
    BY <1>9, <1>10

-----------------------------------------------------------------------------
LEMMA InitPairInv == Init => PairInv
  <1> SUFFICES ASSUME Init PROVE PairInv
    OBVIOUS
  <1>1. TypeInv
    BY InitType
  <1>2. /\ entry \notin Sessions /\ saved \notin Sessions
        /\ Journaled(journal) = {} /\ Journaled(file) = {}
    BY SessionsAreFresh DEF Init, Settled, Unsaved, Journaled
  <1>3. KnownInv
    BY <1>2, NoneIsNoSession DEF Init, KnownInv, NoTask, NoPass, Connections
  <1>4. MarkersInv
    BY NoneIsNoSession DEF Init, MarkersInv, MarkerFits, NoTask, NoMarker, Connections
  <1>5. OutcomeInv /\ RecordInv /\ JournaledBeforeSaved
    BY <1>2 DEF Init, OutcomeInv, RecordInv, JournaledBeforeSaved, NoTask, NoPass
  <1>6. QED
    BY <1>1, <1>3, <1>4, <1>5 DEF PairInv

LEMMA PairInvHolds == Spec => []PairInv
  <1>1. PairInv /\ [Next]_vars => PairInv'
    BY StepType, StepKnown, StepRecord, StepMarkers DEF PairInv
  <1>2. QED
    BY <1>1, InitPairInv, PTL DEF Spec

(* Every variable keeps to its values (pairing_commit.py, PairingJournal   *)
(* and the commit task).                                                   *)
THEOREM TypeCorrect == Spec => []TypeOK
  <1>1. PairInv => TypeOK
    BY DEF PairInv, TypeInv
  <1>2. QED
    BY <1>1, PairInvHolds, PTL

(* A candidate that the backend could still commit is journaled on disk    *)
(* before an entry that uses it can be saved, and stays there              *)
(* (pairing_commit.py:3-7), whatever is aborted, lost or restarted.        *)
THEOREM RecordPrecedesSave == Spec => []JournaledBeforeSaved
  <1>1. PairInv => JournaledBeforeSaved
    BY DEF PairInv
  <1>2. QED
    BY <1>1, PairInvHolds, PTL

-----------------------------------------------------------------------------
(* The sessions are listed in the order they are started.                  *)
LEMMA EarlierOrder ==
    /\ \A s, t : Earlier(s, t) => s \in Sessions /\ t \in Sessions /\ ~Earlier(t, s)
    /\ \A s, t, u : Earlier(s, t) /\ Earlier(t, u) => Earlier(s, u)
    /\ \A s, t \in Sessions : s = t \/ Earlier(s, t) \/ Earlier(t, s)
  <1>1. ASSUME NEW s, NEW t, Earlier(s, t)
        PROVE  s \in Sessions /\ t \in Sessions /\ ~Earlier(t, s)
    <2>1. PICK i, j \in DOMAIN Pairings : i < j /\ Pairings[i] = s /\ Pairings[j] = t
      BY <1>1 DEF Earlier
    <2>2. ASSUME NEW k \in DOMAIN Pairings, NEW l \in DOMAIN Pairings,
                 k < l, Pairings[k] = t, Pairings[l] = s
          PROVE  FALSE
      <3>1. k = j /\ l = i
        BY <2>1, <2>2, PairingsAreDistinct
      <3>2. i \in Nat /\ j \in Nat
        BY PairingsAreDistinct
      <3>3. QED
        BY <2>1, <2>2, <3>1, <3>2
    <2>3. QED
      BY <2>1, <2>2 DEF Earlier, Sessions
  <1>2. ASSUME NEW s, NEW t, NEW u, Earlier(s, t), Earlier(t, u)
        PROVE  Earlier(s, u)
    <2>1. PICK i, j \in DOMAIN Pairings : i < j /\ Pairings[i] = s /\ Pairings[j] = t
      BY <1>2 DEF Earlier
    <2>2. PICK k, l \in DOMAIN Pairings : k < l /\ Pairings[k] = t /\ Pairings[l] = u
      BY <1>2 DEF Earlier
    <2>3. j = k /\ i \in Nat /\ j \in Nat /\ l \in Nat
      BY <2>1, <2>2, PairingsAreDistinct
    <2>4. i < l
      BY <2>1, <2>2, <2>3
    <2>5. QED
      BY <2>1, <2>2, <2>4 DEF Earlier
  <1>3. ASSUME NEW s \in Sessions, NEW t \in Sessions
        PROVE  s = t \/ Earlier(s, t) \/ Earlier(t, s)
    <2>1. PICK i, j \in DOMAIN Pairings : Pairings[i] = s /\ Pairings[j] = t
      BY DEF Sessions
    <2>2. i \in Nat /\ j \in Nat
      BY PairingsAreDistinct
    <2>3. i = j \/ i < j \/ j < i
      BY <2>2
    <2>4. QED
      BY <2>1, <2>3 DEF Earlier
  <1>4. QED
    BY <1>1, <1>2, <1>3

(* A chain depends only on the records in it, and on which of them the     *)
(* backend has committed.                                                  *)
LEMMA ChainCarriesOver ==
    ASSUME NEW b, NEW a, NEW j, NEW c, NEW A, NEW K, Chain(b, a, j, c, A, K),
           NEW b2, NEW j2, NEW A2,
           \A t \in K : (b2[t] = "committed") = (b[t] = "committed"),
           \A t \in K : j2[t] = j[t],
           A2 \subseteq A
    PROVE  Chain(b2, a, j2, c, A2, K)
  <1>1. \A s : Overtaken(b2, K, s) <=> Overtaken(b, K, s)
    BY DEF Overtaken
  <1>2. \A t \in K : Linked(j2, K, t) <=> Linked(j, K, t)
    BY DEF Linked
  <1>3. QED
    BY <1>1, <1>2 DEF Chain

(* The backend commits a candidate of the chain: it is the latest one.     *)
LEMMA ChainCommits ==
    ASSUME NEW b \in [Sessions -> {"none", "issued", "committed", "dead"}],
           NEW a, NEW j, NEW c, NEW A, NEW K \in SUBSET Sessions, Chain(b, a, j, c, A, K),
           NEW s \in A, s \in Sessions,
           NEW A2 \in SUBSET A, s \notin A2, \A t \in A2 : ~Earlier(t, s)
    PROVE  Chain([b EXCEPT ![s] = "committed"], s, j, c, A2, K)
  <1> DEFINE d == [b EXCEPT ![s] = "committed"]
  <1>1. /\ d[s] = "committed" /\ \A t \in K : t # s => d[t] = b[t]
        /\ s \in K /\ ~Overtaken(b, K, s)
    BY DEF Chain
  <1> HIDE DEF d
  <1>2. \A t \in K : d[t] = "committed" <=> b[t] = "committed" \/ t = s
    BY <1>1
  <1>3. ASSUME NEW t \in K, d[t] = "committed"
        PROVE  t = s \/ Overtaken(d, K, t)
    <2>1. t = s \/ Earlier(s, t) \/ Earlier(t, s)
      BY EarlierOrder
    <2>2. ~Earlier(s, t) \/ t = s
      BY <1>1, <1>2, <1>3 DEF Overtaken
    <2>3. QED
      BY <1>1, <2>1, <2>2 DEF Overtaken
  <1>4. ASSUME NEW t \in A2
        PROVE  t \in K /\ ~Overtaken(d, K, t)
    BY <1>2, <1>4 DEF Chain, Overtaken
  <1>5. \A t \in K : d[t] = "committed" \/ Linked(j, K, t)
    BY <1>2 DEF Chain
  <1>6. \A t \in K : t = c \/ Earlier(t, c)
    BY DEF Chain
  <1>7. c \in K
    BY DEF Chain
  <1>8. Chain(d, s, j, c, A2, K)
    BY <1>1, <1>3, <1>4, <1>5, <1>6, <1>7 DEF Chain
  <1>9. QED
    BY <1>8 DEF d

(* The chain of a committed connection: it is the one in use.              *)
LEMMA ChainTop ==
    ASSUME NEW b, NEW a, NEW j, NEW c, NEW A, NEW K, Chain(b, a, j, c, A, K),
           b[c] = "committed", \A s \in A : b[s] = "issued"
    PROVE  c = a /\ A = {}
  <1>1. ~Overtaken(b, K, c)
    BY EarlierOrder DEF Chain, Overtaken
  <1>2. \A s \in A : FALSE
    BY DEF Chain, Overtaken
  <1>3. QED
    BY <1>1, <1>2 DEF Chain

(* The chain of a candidate that waits for no other one.                   *)
LEMMA ChainAlone ==
    ASSUME NEW b, NEW a, NEW j, NEW c, NEW A, NEW K, Chain(b, a, j, c, A, K),
           b[c] # "committed", j[c].pending = None
    PROVE  K = {c} /\ A \subseteq {c} /\ (j[c].previous = a \/ a = None)
  <1>1. \A t \in K : t = c
    BY EarlierOrder DEF Chain, Linked
  <1>2. QED
    BY <1>1 DEF Chain

(* A candidate recorded on top of the entry's open one extends the chain.  *)
LEMMA ChainExtends ==
    ASSUME NEW b, NEW a, NEW j, NEW e, NEW A, NEW K, Chain(b, a, j, e, A, K),
           NEW f \in Sessions, \A t \in K : Earlier(t, f), b[f] # "committed",
           NEW j2, \A t \in K : j2[t] = j[t], j2[f].pending = e, e # None
    PROVE  Chain(b, a, j2, f, A \cup {e}, K \cup {f})
  <1> DEFINE L == K \cup {f}
  <1>1. f \notin K /\ e \in K /\ \A t \in K : t = e \/ Earlier(t, e)
    BY EarlierOrder DEF Chain
  <1>2. \A s : Overtaken(b, L, s) <=> Overtaken(b, K, s)
    BY DEF Overtaken
  <1>3. ASSUME NEW t \in K
        PROVE  b[t] = "committed" \/ Linked(j2, L, t)
    <2>1. b[t] = "committed" \/ Linked(j, K, t)
      BY DEF Chain
    <2>2. Earlier(t, f) /\ ~Earlier(f, t) /\ j2[t] = j[t]
      BY EarlierOrder
    <2>3. QED
      BY <2>1, <2>2 DEF Linked
  <1>4. Linked(j2, L, f)
    BY <1>1, EarlierOrder DEF Linked
  <1>5. ~Overtaken(b, L, e)
    BY <1>1, <1>2, EarlierOrder DEF Overtaken
  <1>6. ASSUME NEW t \in L, j2[t].pending = None
        PROVE  j2[t].previous = a \/ a = None \/ \E u \in L : b[u] = "committed"
    BY <1>6 DEF Chain
  <1>7. ASSUME NEW t \in L, b[t] = "committed"
        PROVE  t = a \/ Overtaken(b, L, t)
    BY <1>2, <1>7 DEF Chain
  <1>8. ASSUME NEW s \in A \cup {e}
        PROVE  s \in L /\ ~Overtaken(b, L, s)
    BY <1>1, <1>2, <1>5, <1>8 DEF Chain
  <1> HIDE DEF L
  <1>9. f \in L /\ \A t \in L : t = f \/ Earlier(t, f)
    BY DEF L
  <1>10. \A t \in L : b[t] = "committed" \/ Linked(j2, L, t)
    BY <1>3, <1>4 DEF L
  <1>11. Chain(b, a, j2, f, A \cup {e}, L)
    BY <1>6, <1>7, <1>8, <1>9, <1>10 DEF Chain
  <1>12. QED
    BY <1>11 DEF L

(* A candidate of the chain other than its top is resolved: the chain goes *)
(* on without it, and without all below it when it was committed.          *)
LEMMA ChainResolves ==
    ASSUME TypeOK, MarkersInv, NEW u \in Journaled(journal), Decided(u),
           NEW c, c # u, NEW A, \A s \in A : back[s] = "issued",
           Sound(back, active, journal, c, A)
    PROVE  Sound(back, active, Resolved(journal, u, back[u] = "committed"), c, A)
  <1> DEFINE R == Resolved(journal, u, back[u] = "committed")
  <1>1. PICK K \in SUBSET Journaled(journal) : Chain(back, active, journal, c, A, K)
    BY DEF Sound
  <1>2. u \in Sessions /\ K \in SUBSET Sessions /\ u # None
    BY NoneIsNoSession DEF Journaled, Connections
  <1>3. ASSUME NEW t \in K, t # u
        PROVE  /\ t \in Journaled(R)
               /\ journal[t].pending # u => R[t] = journal[t]
               /\ journal[t].pending = u /\ back[u] = "committed" =>
                     R[t].pending = None /\ R[t].previous = u
               /\ journal[t].pending = u /\ back[u] # "committed" =>
                     R[t].pending = journal[u].pending /\ R[t].previous = journal[u].previous
    <2>1. t \in Journaled(R)
      BY <1>2, <1>3, ResolvedKeeps
    <2>2. MarkerFits(journal[t]) /\ t \in Sessions
      BY <1>2 DEF MarkersInv
    <2>3. QED
      BY <1>2, <1>3, <2>1, <2>2 DEF Resolved, MarkerFits
  <1> HIDE DEF R
  <1>c. /\ c \in K /\ \A t \in K : t = c \/ Earlier(t, c)
        /\ \A t \in K : back[t] = "committed" \/ Linked(journal, K, t)
        /\ \A t \in K : back[t] = "committed" => t = active \/ Overtaken(back, K, t)
        /\ \A t \in K : journal[t].pending = None =>
              \/ journal[t].previous = active \/ active = None
              \/ \E v \in K : back[v] = "committed"
        /\ \A s \in A : s \in K /\ ~Overtaken(back, K, s)
    BY <1>1 DEF Chain
  <1>4. CASE u \notin K
    <2>1. ASSUME NEW t \in K
          PROVE  back[t] = "committed" \/ R[t] = journal[t]
      BY <1>2, <1>3, <1>4, <1>c DEF Linked
    <2>2. \A t \in K : back[t] = "committed" \/ Linked(R, K, t)
      BY <1>c, <2>1 DEF Linked
    <2>3. \A t \in K : R[t].pending = None =>
              \/ R[t].previous = active \/ active = None
              \/ \E v \in K : back[v] = "committed"
      BY <1>c, <2>1
    <2>4. K \in SUBSET Journaled(R)
      BY <1>3, <1>4
    <2>5. QED
      BY <1>c, <2>2, <2>3, <2>4 DEF Sound, Chain, R
  <1>5. CASE u \in K /\ back[u] # "committed"
    <2> DEFINE L == K \ {u}
    <2>1. L \in SUBSET Journaled(R)
      BY <1>3
    <2>2. \A s : Overtaken(back, L, s) <=> Overtaken(back, K, s)
      BY <1>5 DEF Overtaken
    <2>3. Linked(journal, K, u)
      BY <1>5, <1>c
    <2>4. ASSUME NEW t \in L, back[t] # "committed"
          PROVE  Linked(R, L, t)
      <3>1. Linked(journal, K, t) /\ t \in K /\ t # u
        BY <1>c, <2>4
      <3>2. CASE journal[t].pending # u
        BY <1>3, <3>1, <3>2 DEF Linked
      <3>3. CASE journal[t].pending = u
        <4>1. /\ Earlier(u, t) /\ R[t].pending = journal[u].pending
              /\ \A v \in K : Earlier(v, t) => v = u \/ Earlier(v, u)
          BY <1>2, <1>3, <1>5, <3>1, <3>3 DEF Linked
        <4>2. CASE journal[u].pending = None
          <5>1. \A v \in K : v = u \/ Earlier(u, v)
            BY <2>3, <4>2 DEF Linked
          <5>2. \A v \in L : v = t \/ Earlier(t, v)
            BY <1>2, <4>1, <5>1, EarlierOrder
          <5>3. QED
            BY <4>1, <4>2, <5>2 DEF Linked
        <4>3. CASE journal[u].pending # None
          <5> DEFINE q == journal[u].pending
          <5>1. /\ q \in K /\ Earlier(q, u)
                /\ \A v \in K : Earlier(v, u) => v = q \/ Earlier(v, q)
            BY <2>3, <4>3 DEF Linked
          <5>2. q \in L /\ Earlier(q, t)
            BY <4>1, <5>1, EarlierOrder
          <5>3. \A v \in L : Earlier(v, t) => v = q \/ Earlier(v, q)
            BY <4>1, <5>1
          <5>4. QED
            BY <4>1, <4>3, <5>2, <5>3 DEF Linked
        <4>4. QED
          BY <4>2, <4>3
      <3>4. QED
        BY <3>2, <3>3
    <2>5. ASSUME NEW t \in L, R[t].pending = None
          PROVE  \/ R[t].previous = active \/ active = None
                 \/ \E v \in L : back[v] = "committed"
      BY <1>3, <1>5, <1>c, <2>5
    <2>6. c \in L /\ \A t \in L : t = c \/ Earlier(t, c)
      BY <1>c
    <2>7. \A t \in L : back[t] = "committed" => t = active \/ Overtaken(back, L, t)
      BY <1>c, <2>2
    <2>8. \A s \in A : s \in L /\ ~Overtaken(back, L, s)
      BY <1>c, <2>2 DEF Decided
    <2> HIDE DEF L
    <2>9. Chain(back, active, R, c, A, L)
      BY <2>4, <2>5, <2>6, <2>7, <2>8 DEF Chain
    <2>10. QED
      BY <2>1, <2>9 DEF Sound, R
  <1>6. CASE u \in K /\ back[u] = "committed"
    <2> DEFINE L == {v \in K : Earlier(u, v)}
    <2>0. u \notin L /\ L \subseteq K
      BY EarlierOrder
    <2>1. L \in SUBSET Journaled(R)
      BY <1>3, <2>0
    <2>2. \A s \in L : Overtaken(back, L, s) <=> Overtaken(back, K, s)
      BY EarlierOrder DEF Overtaken
    <2>3. ASSUME NEW t \in L, back[t] # "committed"
          PROVE  /\ Linked(R, L, t)
                 /\ R[t].pending = None => R[t].previous = u
      <3>1. Linked(journal, K, t) /\ t \in K /\ t # u /\ Earlier(u, t) /\ ~Earlier(t, u)
        BY <1>c, <2>0, <2>3, EarlierOrder
      <3>2. journal[t].pending # None
        BY <1>6, <3>1 DEF Linked
      <3> DEFINE q == journal[t].pending
      <3>3. /\ q \in K /\ Earlier(q, t)
            /\ \A v \in K : Earlier(v, t) => v = q \/ Earlier(v, q)
        BY <3>1, <3>2 DEF Linked
      <3>4. CASE q = u
        <4>1. R[t].pending = None /\ R[t].previous = u
          BY <1>3, <1>6, <3>1, <3>4
        <4>2. \A v \in L : v = t \/ Earlier(t, v)
          BY <1>2, <3>1, <3>3, <3>4, EarlierOrder
        <4>3. QED
          BY <4>1, <4>2 DEF Linked
      <3>5. CASE q # u
        <4>1. R[t].pending = q
          BY <1>3, <3>1, <3>5
        <4>2. q \in L
          BY <1>6, <3>1, <3>3, <3>5
        <4>3. Linked(R, L, t)
          BY <3>2, <3>3, <4>1, <4>2 DEF Linked
        <4>4. QED
          BY <3>2, <4>1, <4>3
      <3>6. QED
        BY <3>4, <3>5
    <2>4. u = active \/ \E v \in L : back[v] = "committed"
      BY <1>6, <1>c DEF Overtaken
    <2>5. ASSUME NEW t \in L, R[t].pending = None
          PROVE  \/ R[t].previous = active \/ active = None
                 \/ \E v \in L : back[v] = "committed"
      BY <2>3, <2>4, <2>5
    <2>6. c \in L /\ \A t \in L : t = c \/ Earlier(t, c)
      BY <1>6, <1>c
    <2>7. \A t \in L : back[t] = "committed" => t = active \/ Overtaken(back, L, t)
      BY <1>c, <2>2, <2>0
    <2>8. ASSUME NEW s \in A
          PROVE  s \in L /\ ~Overtaken(back, L, s)
      <3>1. s \in K /\ ~Overtaken(back, K, s) /\ s # u
        BY <1>6, <1>c
      <3>2. s \in L
        BY <1>2, <1>6, <3>1, EarlierOrder DEF Overtaken
      <3>3. QED
        BY <2>2, <3>1, <3>2
    <2> HIDE DEF L
    <2>9. Chain(back, active, R, c, A, L)
      BY <2>3, <2>5, <2>6, <2>7, <2>8 DEF Chain
    <2>10. QED
      BY <2>1, <2>9 DEF Sound, R
  <1>7. QED
    BY <1>4, <1>5, <1>6

-----------------------------------------------------------------------------
(* What a step may do to the backend, in full: a candidate dies, is        *)
(* committed by a request that was sent for it, or is issued.              *)
Dies(s) == /\ back[s] = "issued" /\ back' = [back EXCEPT ![s] = "dead"]
           /\ UNCHANGED <<active, flow>>
Commits(s) == /\ s \in Committable /\ back' = [back EXCEPT ![s] = "committed"]
              /\ active' = s /\ UNCHANGED flow
Starts(s) == /\ flow[s] = "idle" /\ MayStart(s)
             /\ back' = [back EXCEPT ![s] = "issued"]
             /\ flow' \in {[flow EXCEPT ![s] = "exchanged"], [flow EXCEPT ![s] = "closed"]}
             /\ UNCHANGED <<active, task, pass>>
Turns == /\ loose' \subseteq loose \cup Underway
         /\ \/ UNCHANGED <<back, active>>
            \/ /\ UNCHANGED <<journal, file, entry, saved, reload, leaving, gone, past>>
               /\ loose' \subseteq loose
               /\ \E s \in Sessions : Dies(s) \/ Commits(s) \/ Starts(s)

(* A request that was sent turns the backend.                              *)
LEMMA EffectTurns ==
    ASSUME TypeOK, NEW s \in Sessions, NEW act \in {"commit", "cancel"}, Effect(act, s),
           act = "commit" => back[s] # "issued" \/ s \in Committable, UNCHANGED flow
    PROVE  UNCHANGED <<back, active>> \/ Dies(s) \/ Commits(s)
  BY DEF Effect, Dies, Commits

(* Every step turns the backend in one of these ways, or leaves it.        *)
LEMMA StepTurns == TypeInv /\ [Next]_vars => Turns
  <1> SUFFICES ASSUME TypeInv, [Next]_vars PROVE Turns
    OBVIOUS
  <1>t. TypeOK
    BY DEF TypeInv
  <1>k. ASSUME UNCHANGED <<back, active>>, loose' \subseteq loose \cup Underway PROVE Turns
    BY <1>k DEF Turns
  <1>1. ASSUME NEW s \in Sessions, Expire(s) PROVE Turns
    <2>1. Dies(s) /\ UNCHANGED <<loose, journal, file, entry, saved, reload, leaving, gone, past>>
      BY <1>1 DEF Expire, Dies, flows, books, core
    <2>2. QED
      BY <2>1 DEF Turns
  <1>2. ASSUME NEW s \in Sessions, LateCommit(s) PROVE Turns
    <2>1. /\ Effect("commit", s) /\ loose' \subseteq loose /\ UNCHANGED flow
          /\ UNCHANGED <<journal, file, entry, saved, reload, leaving, gone, past>>
      BY <1>2 DEF LateCommit, flows, books, core
    <2>2. back[s] # "issued" \/ s \in Committable
      BY <1>2 DEF LateCommit, Committable
    <2>3. QED
      BY <1>t, <2>1, <2>2, EffectTurns DEF Turns
  <1>3. ASSUME NEW s \in Sessions, Exchange(s) \/ ExchangeWasted(s) PROVE Turns
    <2>1. /\ Starts(s) /\ UNCHANGED loose
          /\ UNCHANGED <<journal, file, entry, saved, reload, leaving, gone, past>>
      BY <1>3 DEF Exchange, ExchangeWasted, Starts, books, core
    <2>2. QED
      BY <2>1 DEF Turns
  <1>4. ASSUME NEW p \in Passes, CancelAnswered(p) \/ CancelUnanswered(p) PROVE Turns
    <2>1. pass[p].cur \in Sessions
      BY <1>4 DEF CancelAnswered, CancelUnanswered, TypeInv, WorkInv, Walks
    <2>2. /\ UNCHANGED <<loose, flow, journal, file, entry, saved, reload, leaving, gone, past>>
          /\ Effect("cancel", pass[p].cur) \/ UNCHANGED <<back, active>>
      BY <1>4 DEF CancelAnswered, CancelUnanswered, flows, books, core
    <2>3. QED
      BY <1>t, <2>1, <2>2, EffectTurns DEF Turns
  <1>5. ASSUME CommitAnswered \/ CommitUnanswered PROVE Turns
    <2>1. task.session \in Sessions /\ task.pc = "commit"
      BY <1>5 DEF CommitAnswered, CommitUnanswered, TypeInv, WorkInv, Works
    <2>2. /\ UNCHANGED <<loose, flow, journal, file, entry, saved, reload, leaving, gone, past>>
          /\ Effect("commit", task.session) \/ UNCHANGED <<back, active>>
      BY <1>5 DEF CommitAnswered, CommitUnanswered, flows, books, core
    <2>3. back[task.session] # "issued" \/ task.session \in Committable
      BY <2>1 DEF Committable
    <2>4. QED
      BY <1>t, <2>1, <2>2, <2>3, EffectTurns DEF Turns
  <1>6. ASSUME \/ \E s \in Sessions : FlowStep(s) \/ Abort(s) \/ Repair(s) \/ AddEntry(s)
               \/ Save \/ Drop \/ UNCHANGED vars
               \/ \E p \in Passes : PassProceeds(p) \/ PassSaveRaises(p)
               \/ TaskProceeds \/ TaskSaveRaises
        PROVE  Turns
    <2>1. UNCHANGED backend
      BY <1>6 DEF FlowStep, Record, Recorded, RecordFails, Added, Abort, Repair,
                  AddEntry, Save, Drop, vars, PassProceeds, PassLists, PassResolves, PassSaved,
                  PassSaveRaises, TaskProceeds, TaskStarts, TaskReads, TaskPolls, TaskResolves,
                  TaskSaved, Refused, TaskSaveRaises
    <2>2. QED
      BY <1>k, <2>1 DEF backend
  <1>7. ASSUME Reload \/ Remove \/ Crash PROVE Turns
    <2>1. UNCHANGED <<back, active>> /\ loose' = loose \cup Underway
      BY <1>7 DEF Reload, Remove, Crash, CancelTask
    <2>2. QED
      BY <1>k, <2>1
  <1>8. QED
    BY <1>1, <1>2, <1>3, <1>4, <1>5, <1>6, <1>7 DEF Next

(* The connection in use is committed, and one is in use once any was.     *)
LEMMA StepBackInv == PairInv /\ BackInv /\ [Next]_vars => BackInv'
  <1> SUFFICES ASSUME PairInv, BackInv, [Next]_vars PROVE BackInv'
    OBVIOUS
  <1>1. Turns /\ TypeOK /\ KnownInv
    BY StepTurns DEF PairInv, TypeInv
  <1>2. CASE UNCHANGED <<back, active>>
    BY <1>2 DEF BackInv
  <1>3. ASSUME NEW s \in Sessions, Dies(s) \/ Commits(s) \/ Starts(s)
        PROVE  BackInv'
    <2>1. s # None
      BY NoneIsNoSession DEF Connections
    <2>2. flow[s] = "idle" => back[s] = "none"
      BY <1>1 DEF KnownInv
    <2>3. QED
      BY <1>1, <1>3, <2>1, <2>2 DEF BackInv, Dies, Commits, Starts, Committable, TypeOK
  <1>4. QED
    BY <1>1, <1>2, <1>3 DEF Turns

(* What a step may do to the workers, in full: the task reads the record   *)
(* of the entry, sends a commit, has it answered, or leaves these stages;  *)
(* a pass picks an orphan, has its cancel answered, or leaves these stages.*)
Quiet == UNCHANGED <<backend, flows, books, core, past>>
Reads == /\ entry \in Journaled(journal) /\ task'.pc = "poll"
         /\ task'.session = entry /\ task'.marker = journal[entry]
         /\ Quiet /\ UNCHANGED pass
Sends == /\ task.pc = "poll" /\ task'.pc = "commit"
         /\ task'.session = task.session /\ task'.marker = task.marker
         /\ saved = task.session /\ task.marker.pending = None
         /\ Quiet /\ UNCHANGED pass
TaskTurns ==
    \/ task' = task \/ task'.pc \notin {"poll", "commit", "won", "refused"}
    \/ Reads \/ Sends \/ CommitAnswered
Picks(p) == /\ pass'[p].pc = "cancel" /\ pass'[p].cur \in Sessions
            /\ Orphan(p, pass'[p].cur)
            /\ UNCHANGED <<flows, entry, leaving, journal>>
PassTurns ==
    \A p \in Passes : \/ pass'[p] = pass[p] \/ pass'[p].pc \notin {"cancel", "answered"}
                      \/ Picks(p) \/ CancelAnswered(p)

(* A pass that goes on picks an orphan, or ends.                           *)
LEMMA GoesOnTurns ==
    ASSUME TypeInv, NEW p \in Passes, NEW todo \in SUBSET Sessions, GoesOn(p, todo),
           UNCHANGED <<flows, entry, leaving, journal>>
    PROVE  TaskTurns /\ PassTurns
  <1>t. pass \in [Passes -> WalkSet] /\ task \in TaskSet
    BY DEF TypeInv, TypeOK, WalkSet, TaskSet
  <1>1. ASSUME NEW s \in todo, Orphan(p, s), UNCHANGED task,
               pass' = [pass EXCEPT ![p] =
                        [pc |-> "cancel", todo |-> {t \in todo : Earlier(s, t)},
                         cur |-> s, committed |-> FALSE]]
        PROVE  TaskTurns /\ PassTurns
    <2>1. pass'[p].pc = "cancel" /\ pass'[p].cur = s
      BY <1>t, <1>1
    <2>2. \A q \in Passes : q # p => pass'[q] = pass[q]
      BY <1>t, <1>1
    <2>3. Picks(p)
      BY <1>1, <2>1 DEF Picks
    <2>4. QED
      BY <1>1, <2>2, <2>3 DEF TaskTurns, PassTurns
  <1>2. ASSUME pass' = [pass EXCEPT ![p] = NoPass],
               task' = IF p # "commit" THEN task
                       ELSE IF task.then = "off" THEN NoTask
                       ELSE [task EXCEPT !.pc = task.then, !.then = "off"]
        PROVE  TaskTurns /\ PassTurns
    <2>1. task' = task \/ task'.pc \in {"off", "loop"}
      BY <1>t, <1>2 DEF TaskSet, NoTask
    <2>2. \A q \in Passes : pass'[q] = pass[q] \/ pass'[q].pc = "off"
      BY <1>t, <1>2 DEF NoPass
    <2>3. QED
      BY <2>1, <2>2 DEF TaskTurns, PassTurns
  <1>3. QED
    BY <1>1, <1>2 DEF GoesOn

(* Every step turns the workers in one of these ways.                      *)
LEMMA StepWorkTurns == TypeInv /\ [Next]_vars => TaskTurns /\ PassTurns
  <1> SUFFICES ASSUME TypeInv, [Next]_vars PROVE TaskTurns /\ PassTurns
    OBVIOUS
  <1>t. pass \in [Passes -> WalkSet] /\ task \in TaskSet /\ TypeOK
    BY DEF TypeInv, TypeOK, WalkSet, TaskSet
  <1>w. Works(task) /\ \A p \in Passes : Walks(pass[p])
    BY DEF TypeInv, WorkInv
  <1>f. /\ NoPass.pc = "off" /\ NewPass.pc = "list" /\ NoTask.pc = "off" /\ NewTask.pc = "start"
        /\ NoTask.then = "off"
    BY DEF NoPass, NewPass, NoTask, NewTask
  <1>p. ASSUME \A p \in Passes : pass'[p] \in {pass[p], NoPass, NewPass}
               \/ pass'[p].pc \notin {"cancel", "answered"}
        PROVE  PassTurns
    BY <1>p, <1>f DEF PassTurns
  <1>1. ASSUME \/ \E s \in Sessions : \/ Expire(s) \/ LateCommit(s) \/ Exchange(s)
                                      \/ ExchangeWasted(s) \/ FlowStep(s) \/ Abort(s)
                                      \/ Repair(s) \/ AddEntry(s)
               \/ Save \/ Drop \/ UNCHANGED vars
        PROVE  TaskTurns /\ PassTurns
    <2>1. task' \in {task, NewTask} /\ (Spawned \/ UNCHANGED pass)
      BY <1>1 DEF Expire, LateCommit, Exchange, ExchangeWasted, FlowStep, Record, Recorded,
                  RecordFails, Added, Abort, Repair, AddEntry, Save, Drop, vars
    <2>2. \A p \in Passes : pass'[p] \in {pass[p], NewPass}
      BY <1>t, <2>1 DEF Spawned
    <2>3. QED
      BY <1>f, <1>p, <2>1, <2>2 DEF TaskTurns
  <1>2. ASSUME Reload \/ Remove \/ Crash
        PROVE  TaskTurns /\ PassTurns
    <2>1. task' \in {NoTask, NewTask}
      BY <1>2 DEF Reload, Remove, Crash, Scheduled
    <2>2. \A p \in Passes : pass'[p] \in {pass[p], NoPass, NewPass}
      BY <1>t, <1>2 DEF Reload, Remove, Crash
    <2>3. QED
      BY <1>f, <1>p, <2>1, <2>2 DEF TaskTurns
  <1>3. ASSUME NEW p \in Passes, PassLists(p) \/ CancelUnanswered(p) \/ PassSaved(p)
        PROVE  TaskTurns /\ PassTurns
    <2>1. /\ pass[p].todo \in SUBSET Sessions /\ Journaled(journal) \in SUBSET Sessions
          /\ GoesOn(p, Journaled(journal)) \/ GoesOn(p, pass[p].todo)
          /\ UNCHANGED <<flows, entry, leaving, journal>>
      BY <1>t, <1>3 DEF PassLists, CancelUnanswered, PassSaved, WalkSet, Journaled, core, books
    <2>2. QED
      BY <2>1, GoesOnTurns
  <1>4. ASSUME NEW p \in Passes, CancelAnswered(p)
        PROVE  TaskTurns /\ PassTurns
    <2>1. UNCHANGED task /\ \A q \in Passes : q # p => pass'[q] = pass[q]
      BY <1>t, <1>4 DEF CancelAnswered
    <2>2. QED
      BY <1>4, <2>1 DEF TaskTurns, PassTurns
  <1>5. ASSUME NEW p \in Passes, PassResolves(p)
        PROVE  TaskTurns /\ PassTurns
    <2>1. CASE pass[p].cur \in Journaled(journal)
      <3>1. pass' = [pass EXCEPT ![p].pc = "saving"] /\ UNCHANGED task
        BY <1>5, <2>1 DEF PassResolves
      <3>2. \A q \in Passes : pass'[q] = pass[q] \/ pass'[q].pc = "saving"
        BY <1>t, <3>1 DEF WalkSet
      <3>3. QED
        BY <1>p, <3>1, <3>2 DEF TaskTurns
    <2>2. CASE pass[p].cur \notin Journaled(journal)
      <3>1. /\ GoesOn(p, pass[p].todo) /\ pass[p].todo \in SUBSET Sessions
            /\ UNCHANGED <<flows, entry, leaving, journal>>
        BY <1>t, <1>5, <2>2 DEF PassResolves, WalkSet, core
      <3>2. QED
        BY <3>1, GoesOnTurns
    <2>3. QED
      BY <2>1, <2>2
  <1>6. ASSUME NEW p \in Passes, PassSaveRaises(p)
        PROVE  TaskTurns /\ PassTurns
    <2>1. task' \in {task, NoTask} /\ \A q \in Passes : pass'[q] \in {pass[q], NoPass}
      BY <1>t, <1>6 DEF PassSaveRaises
    <2>2. QED
      BY <1>f, <1>p, <2>1 DEF TaskTurns
  <1>7. ASSUME TaskProceeds \/ CommitAnswered \/ CommitUnanswered \/ TaskSaveRaises
        PROVE  TaskTurns /\ PassTurns
    <2>1. \A p \in Passes : pass'[p] \in {pass[p], NewPass}
      BY <1>t, <1>7 DEF TaskProceeds, TaskStarts, TaskReads, TaskPolls, TaskResolves, TaskSaved,
                  Refused, CommitAnswered, CommitUnanswered, TaskSaveRaises
    <2>2. ASSUME TaskStarts
          PROVE  TaskTurns
      BY <1>t, <2>2 DEF TaskStarts, TaskTurns, Reads, Quiet, TaskSet
    <2>3. ASSUME TaskReads
          PROVE  TaskTurns
      BY <1>t, <1>f, <2>3 DEF TaskReads, TaskTurns, Reads, Quiet, TaskSet
    <2>4. ASSUME TaskPolls
          PROVE  TaskTurns
      BY <1>t, <2>4 DEF TaskPolls, TaskTurns, Sends, Quiet, TaskSet, OnDisk
    <2>5. ASSUME CommitUnanswered \/ TaskResolves \/ TaskSaved \/ Refused \/ TaskSaveRaises
          PROVE  TaskTurns
      BY <1>t, <1>f, <2>5 DEF CommitUnanswered, TaskResolves, TaskSaved, Refused,
                              TaskSaveRaises, TaskTurns, TaskSet
    <2>6. QED
      BY <1>7, <1>p, <2>1, <2>2, <2>3, <2>4, <2>5 DEF TaskProceeds, TaskTurns
  <1>8. QED
    BY <1>1, <1>2, <1>3, <1>4, <1>5, <1>6, <1>7 DEF Next, PassProceeds

(* Verdicts that were read are true.                                       *)
LEMMA StepVerdict == PairInv /\ VerdictInv /\ [Next]_vars => VerdictInv'
  <1> SUFFICES ASSUME PairInv, VerdictInv, [Next]_vars PROVE VerdictInv'
    OBVIOUS
  <1>1. Turns /\ TypeOK /\ KnownInv /\ OutcomeInv /\ WorkInv
    BY StepTurns DEF PairInv, TypeInv
  <1>2. ASSUME NEW s \in Sessions, back[s] \in {"committed", "dead"}
        PROVE  back'[s] = back[s]
    BY <1>1, <1>2 DEF Turns, Dies, Commits, Starts, Committable, TypeOK, KnownInv
  <1>3. ASSUME task' = task \/ task'.pc \notin {"won", "refused"}
        PROVE  /\ task'.pc = "won" => back'[task'.session] = "committed"
               /\ task'.pc = "refused" => back'[task'.session] = "dead"
    BY <1>1, <1>2, <1>3 DEF VerdictInv, WorkInv, Works
  <1>4. ASSUME NEW p \in Passes, pass'[p] = pass[p] \/ pass'[p].pc # "answered"
        PROVE  pass'[p].pc = "answered" => back'[pass'[p].cur] =
                   (IF pass'[p].committed THEN "committed" ELSE "dead")
    BY <1>1, <1>2, <1>4 DEF VerdictInv, WorkInv, Walks
  <1>5. CASE CommitAnswered
    <2>1. /\ task.session \in Sessions /\ UNCHANGED pass
          /\ back[task.session] # "none"
      BY <1>1, <1>5 DEF CommitAnswered, WorkInv, Works, KnownInv
    <2>2. /\ task'.session = task.session
          /\ task'.pc = IF back[task.session] = "dead" THEN "refused" ELSE "won"
      BY <1>1, <1>5 DEF CommitAnswered, TypeOK
    <2>3. /\ back[task.session] = "dead" => back'[task.session] = "dead"
          /\ back[task.session] # "dead" => back'[task.session] = "committed"
      BY <1>1, <1>5, <2>1 DEF CommitAnswered, Effect, TypeOK
    <2>4. QED
      BY <1>4, <2>1, <2>2, <2>3 DEF VerdictInv
  <1>6. ASSUME NEW p \in Passes, CancelAnswered(p)
        PROVE  VerdictInv'
    <2>1. /\ pass[p].cur \in Sessions /\ UNCHANGED task
          /\ back[pass[p].cur] # "none"
      BY <1>1, <1>6 DEF CancelAnswered, WorkInv, Walks, KnownInv
    <2>2. /\ pass'[p].cur = pass[p].cur
          /\ pass'[p].committed = (back[pass[p].cur] = "committed")
          /\ \A q \in Passes : q # p => pass'[q] = pass[q]
      BY <1>1, <1>6 DEF CancelAnswered, TypeOK
    <2>3. /\ back[pass[p].cur] = "committed" => back'[pass[p].cur] = "committed"
          /\ back[pass[p].cur] # "committed" => back'[pass[p].cur] = "dead"
      BY <1>1, <1>6, <2>1 DEF CancelAnswered, Effect, TypeOK
    <2>4. back'[pass'[p].cur] = (IF pass'[p].committed THEN "committed" ELSE "dead")
      BY <2>2, <2>3
    <2>5. QED
      BY <1>3, <1>4, <2>1, <2>2, <2>4 DEF VerdictInv
  <1>7. ASSUME task' = task \/ task'.pc \notin {"won", "refused"},
               \A p \in Passes : pass'[p] = pass[p] \/ pass'[p].pc # "answered"
        PROVE  VerdictInv'
    BY <1>3, <1>4, <1>7 DEF VerdictInv
  <1>8. TaskTurns /\ PassTurns
    BY StepWorkTurns DEF PairInv
  <1>9. CASE ~CommitAnswered /\ ~(\E p \in Passes : CancelAnswered(p))
    <2>1. task' = task \/ task'.pc \notin {"won", "refused"}
      BY <1>8, <1>9 DEF TaskTurns, Reads, Sends
    <2>2. \A p \in Passes : pass'[p] = pass[p] \/ pass'[p].pc # "answered"
      BY <1>8, <1>9 DEF PassTurns, Picks
    <2>3. QED
      BY <1>7, <2>1, <2>2
  <1>10. QED
    BY <1>5, <1>6, <1>9

(* Which steps change the flows, the journal, and the entry.               *)
Pairs(s) == \/ Exchange(s) \/ ExchangeWasted(s) \/ FlowStep(s) \/ Abort(s)
            \/ Repair(s) \/ AddEntry(s)
FlowCases == UNCHANGED flows \/ Crash \/ \E s \in Sessions : Pairs(s)

Settling(u) == \/ \E p \in Passes : pass[p].pc = "answered" /\ pass[p].cur = u /\ UNCHANGED task
               \/ /\ task.pc = "won" \/ (task.pc = "refused" /\ NothingToRestore)
                  /\ task.session = u /\ task'.pc = "saving"
ResolvesTruly(u) ==
    /\ u \in Journaled(journal) /\ Decided(u) /\ Settling(u)
    /\ journal' = Resolved(journal, u, back[u] = "committed")
    /\ UNCHANGED <<backend, flows, file, core, past>>
BookCases ==
    \/ UNCHANGED journal /\ file' \in {file, journal}
    \/ \E s \in Sessions : Record(s) \/ ResolvesTruly(s)
    \/ Crash

EntryCases ==
    \/ UNCHANGED <<entry, saved, leaving>>
    \/ \E s \in Sessions : Repair(s) \/ AddEntry(s)
    \/ Save \/ Remove \/ Drop \/ Refused \/ Crash

(* Every step is one of these, for the flows, the books and the entry.     *)
LEMMA StepCases ==
    TypeInv /\ OutcomeInv /\ VerdictInv /\ [Next]_vars => FlowCases /\ BookCases /\ EntryCases
  <1> SUFFICES ASSUME TypeInv, OutcomeInv, VerdictInv, [Next]_vars
               PROVE  FlowCases /\ BookCases /\ EntryCases
    OBVIOUS
  <1>t. TypeOK
    BY DEF TypeInv
  <1>1. ASSUME NEW s \in Sessions, Expire(s) \/ LateCommit(s)
        PROVE  FlowCases /\ BookCases /\ EntryCases
    BY <1>1 DEF Expire, LateCommit, FlowCases, BookCases, EntryCases, books, core
  <1>2. ASSUME NEW s \in Sessions, Pairs(s)
        PROVE  FlowCases /\ BookCases /\ EntryCases
    <2>1. FlowCases
      BY <1>2 DEF FlowCases
    <2>2. BookCases
      BY <1>2 DEF Pairs, BookCases, Exchange, ExchangeWasted, FlowStep, Recorded, RecordFails,
                  Added, Abort, Repair, AddEntry, books
    <2>3. EntryCases
      BY <1>2 DEF Pairs, EntryCases, Exchange, ExchangeWasted, FlowStep, Record, Recorded,
                  RecordFails, Added, Abort, core
    <2>4. QED
      BY <2>1, <2>2, <2>3
  <1>3. CASE Save \/ Drop \/ UNCHANGED vars
    BY <1>3 DEF Save, Drop, vars, FlowCases, BookCases, EntryCases, books, core
  <1>4. CASE Reload \/ Remove
    BY <1>4 DEF Reload, Remove, CancelTask, FlowCases, BookCases, EntryCases
  <1>5. CASE Crash
    BY <1>5 DEF FlowCases, BookCases, EntryCases
  <1>6. ASSUME NEW p \in Passes, PassResolves(p)
        PROVE  FlowCases /\ BookCases /\ EntryCases
    <2>1. UNCHANGED <<backend, flows, file, core, past>>
      BY <1>6 DEF PassResolves
    <2>2. CASE pass[p].cur \in Journaled(journal)
      <3> DEFINE u == pass[p].cur
      <3>1. /\ pass[p].pc = "answered" /\ UNCHANGED task /\ u \in Sessions
            /\ journal' = Resolved(journal, u, pass[p].committed)
        BY <1>6, <2>2 DEF PassResolves, Journaled
      <3>2. Decided(u) /\ pass[p].committed = (back[u] = "committed")
        BY <1>t, <3>1 DEF OutcomeInv, VerdictInv, TypeOK
      <3>3. ResolvesTruly(u)
        BY <2>1, <2>2, <3>1, <3>2 DEF ResolvesTruly, Settling
      <3>4. QED
        BY <2>1, <3>1, <3>3 DEF FlowCases, BookCases, EntryCases, core
    <2>3. CASE pass[p].cur \notin Journaled(journal)
      BY <1>6, <2>1, <2>3 DEF PassResolves, FlowCases, BookCases, EntryCases, core
    <2>4. QED
      BY <2>2, <2>3
  <1>7. CASE TaskResolves
    <2>1. UNCHANGED <<backend, flows, file, core, past>>
      BY <1>7 DEF TaskResolves
    <2>2. CASE task.session \in Journaled(journal)
      <3> DEFINE u == task.session
      <3>0. /\ journal' = Resolved(journal, u, task.pc = "won")
            /\ task' = [task EXCEPT !.pc = "saving"]
        BY <1>7, <2>2, Zenon DEF TaskResolves
      <3>1. task.pc = "won" \/ (task.pc = "refused" /\ NothingToRestore)
        BY <1>7, Zenon DEF TaskResolves
      <3>1a. u \in Sessions
        BY <2>2 DEF Journaled
      <3>2. task'.pc = "saving"
        BY <1>t, <3>0 DEF TypeOK
      <3>3. Decided(u) /\ (task.pc = "won") = (back[u] = "committed")
        BY <3>1 DEF OutcomeInv, VerdictInv
      <3>4. ResolvesTruly(u)
        BY <2>1, <2>2, <3>0, <3>1, <3>2, <3>3 DEF ResolvesTruly, Settling
      <3>5. QED
        BY <2>1, <3>1a, <3>4 DEF FlowCases, BookCases, EntryCases, core
    <2>3. CASE task.session \notin Journaled(journal)
      BY <1>7, <2>1, <2>3 DEF TaskResolves, FlowCases, BookCases, EntryCases, core
    <2>4. QED
      BY <2>2, <2>3
  <1>8. CASE Refused
    BY <1>8 DEF Refused, FlowCases, BookCases, EntryCases, books
  <1>9. CASE \/ \E p \in Passes : \/ PassLists(p) \/ PassSaved(p) \/ CancelAnswered(p)
                                  \/ CancelUnanswered(p) \/ PassSaveRaises(p)
             \/ TaskStarts \/ TaskReads \/ TaskPolls \/ TaskSaved
             \/ CommitAnswered \/ CommitUnanswered \/ TaskSaveRaises
    <2>1. /\ UNCHANGED flows /\ UNCHANGED core
          /\ UNCHANGED journal /\ file' \in {file, journal}
      BY <1>9 DEF PassLists, PassSaved, CancelAnswered, CancelUnanswered, PassSaveRaises,
                  TaskStarts, TaskReads, TaskPolls, TaskSaved, CommitAnswered,
                  CommitUnanswered, TaskSaveRaises, books
    <2>2. QED
      BY <2>1 DEF FlowCases, BookCases, EntryCases, core
  <1>10. QED
    BY <1>1, <1>2, <1>3, <1>4, <1>5, <1>6, <1>7, <1>8, <1>9
    DEF Next, Pairs, PassProceeds, TaskProceeds

-----------------------------------------------------------------------------
(* One flow pairs at a time, and a flow that is ready is not removed.      *)
LEMMA StepSlot == TypeInv /\ FlowCases /\ SlotInv => SlotInv'
  <1> SUFFICES ASSUME TypeOK, FlowCases, SlotInv PROVE SlotInv'
    BY DEF TypeInv
  <1>1. CASE UNCHANGED flows
    BY <1>1 DEF flows, SlotInv, Alive
  <1>2. CASE Crash
    BY <1>2 DEF Crash, SlotInv, Alive
  <1>3. ASSUME NEW s \in Sessions, Exchange(s) \/ ExchangeWasted(s)
        PROVE  SlotInv'
    BY <1>3 DEF Exchange, ExchangeWasted, MayStart, SlotInv, Alive, TypeOK
  <1>4. ASSUME NEW s \in Sessions, FlowStep(s) \/ Repair(s) \/ AddEntry(s)
        PROVE  SlotInv'
    BY <1>4 DEF FlowStep, Record, Recorded, RecordFails, Added, Repair, AddEntry, SlotInv,
                Alive, TypeOK, Unrecorded
  <1>5. ASSUME NEW s \in Sessions, Abort(s)
        PROVE  SlotInv'
    BY <1>5 DEF Abort, SlotInv, Alive, TypeOK
  <1>6. QED
    BY <1>1, <1>2, <1>3, <1>4, <1>5 DEF FlowCases, Pairs

(* Flows start, and record their candidates, in order.                     *)
LEMMA StepOrder ==
    ASSUME PairInv, FlowCases, BookCases, OrderInv
    PROVE  OrderInv'
  <1>t. TypeOK /\ KnownInv
    BY DEF PairInv, TypeInv
  <1>1. ASSUME NEW s \in Sessions, flow[s] # "idle" PROVE flow'[s] # "idle"
    BY <1>1, <1>t DEF FlowCases, Pairs, flows, Crash, Exchange, ExchangeWasted, FlowStep, Record,
                Recorded, RecordFails, Added, Abort, Repair, AddEntry, TypeOK, Unrecorded
  <1>2. ASSUME NEW s \in Sessions, flow[s] = "idle", flow'[s] # "idle"
        PROVE  Exchange(s) \/ ExchangeWasted(s)
    BY <1>2, <1>t DEF FlowCases, Pairs, flows, Crash, Exchange, ExchangeWasted, FlowStep, Record,
                Recorded, RecordFails, Added, Abort, Repair, AddEntry, TypeOK, Alive
  <1>3. ASSUME NEW s \in Sessions, NEW t \in Sessions, flow'[s] # "idle", Earlier(t, s)
        PROVE  flow'[t] # "idle"
    <2>1. flow[t] # "idle"
      BY <1>2, <1>3 DEF OrderInv, Exchange, ExchangeWasted, MayStart
    <2>2. QED
      BY <1>1, <2>1
  <1>4. ASSUME NEW f \in Sessions, flow'[f] = "exchanged",
               NEW s \in Journaled(journal') \cup Journaled(file')
        PROVE  Earlier(s, f)
    <2>0. s \in Sessions
      BY DEF Journaled
    <2>1. ~Crash
      BY <1>4 DEF Crash
    <2>2. CASE s \in Journaled(journal) \cup Journaled(file)
      <3>1. CASE flow[f] = "exchanged"
        BY <2>2, <3>1 DEF OrderInv
      <3>2. CASE flow[f] # "exchanged"
        <4>1. flow[f] = "idle"
          BY <1>4, <1>t, <2>1, <3>2 DEF FlowCases, Pairs, flows, Exchange, ExchangeWasted,
                FlowStep, Record, Recorded, RecordFails, Added, Abort, Repair, AddEntry,
                TypeOK, Unrecorded
        <4>2. flow[s] # "idle" /\ s # f
          BY <1>t, <2>0, <2>2, <4>1 DEF KnownInv
        <4>3. ~Earlier(f, s)
          BY <2>0, <4>1, <4>2 DEF OrderInv
        <4>4. QED
          BY <2>0, <4>2, <4>3, EarlierOrder
      <3>3. QED
        BY <3>1, <3>2
    <2>3. CASE s \notin Journaled(journal) \cup Journaled(file)
      <3>1. PICK x \in Sessions : Record(x) \/ ResolvesTruly(x)
        BY <1>4, <2>1, <2>3 DEF BookCases
      <3>2. ~ResolvesTruly(x)
        BY <1>4, <1>t, <2>0, <2>3, ResolvedKeeps DEF ResolvesTruly
      <3>3. Record(x)
        BY <3>1, <3>2
      <3>4. s = x
        BY <1>4, <1>t, <2>0, <2>3, <3>3 DEF Record, Journaled, TypeOK
      <3>5. flow[f] = "exchanged" /\ f # x
        BY <1>4, <1>t, <3>3 DEF Record, TypeOK
      <3>6. ~Earlier(f, x)
        BY <3>3, <3>5 DEF Record
      <3>7. QED
        BY <3>4, <3>5, <3>6, EarlierOrder
    <2>4. QED
      BY <2>2, <2>3
  <1>5. QED
    BY <1>3, <1>4 DEF OrderInv

(* What resolving u writes to the other records.                           *)
LEMMA ResolvedFields ==
    ASSUME TypeOK, MarkersInv, NEW u \in Journaled(journal), NEW c \in BOOLEAN,
           NEW t \in Sessions, t # u
    PROVE  LET r == Resolved(journal, u, c)[t] IN
           \/ journal[t].pending # u /\ r = journal[t]
           \/ journal[t].pending = u /\ c /\ r.pending = None /\ r.previous = u
           \/ /\ journal[t].pending = u /\ ~c
              /\ r.pending = journal[u].pending /\ r.previous = journal[u].previous
  <1>1. u \in Sessions /\ u # None /\ MarkerFits(journal[t])
    BY NoneIsNoSession DEF Journaled, Connections, MarkersInv
  <1>2. QED
    BY <1>1 DEF Resolved, MarkerFits

(* What async_record writes.                                               *)
LEMMA RecordFields ==
    ASSUME TypeOK, NEW s \in Sessions, Record(s)
    PROVE  /\ \A t \in Sessions : t # s => journal'[t] = journal[t]
           /\ \/ /\ entry \notin Connections
                 /\ journal'[s].previous = None /\ journal'[s].pending = None
              \/ /\ entry \in Journaled(journal)
                 /\ journal'[s].previous = journal[entry].previous
                 /\ journal'[s].pending = entry
              \/ /\ entry \in Connections /\ entry \notin Journaled(journal)
                 /\ journal'[s].previous = entry /\ journal'[s].pending = None
           /\ Journaled(journal') = Journaled(journal) \cup {s}
  <1>1. journal' = [journal EXCEPT ![s] = RecordFor(journal)]
    BY DEF Record
  <1>2. journal'[s] = RecordFor(journal) /\ \A t \in Sessions : t # s => journal'[t] = journal[t]
    BY <1>1 DEF TypeOK
  <1>3. journal'[s] # NoMarker
    BY <1>2, RecordType, NoMarkerIsEmpty
  <1>4. Journaled(journal') = Journaled(journal) \cup {s}
    BY <1>2, <1>3 DEF Journaled
  <1>5. QED
    BY <1>2, <1>4 DEF RecordFor, Present

(* A flow that has not handed its candidate to the entry had it nowhere    *)
(* else before.                                                            *)
LEMMA StepFresh ==
    ASSUME PairInv, FreshInv, Turns, TaskMoves, FlowCases, BookCases, EntryCases
    PROVE  FreshInv'
  <1>t. TypeOK /\ KnownInv /\ MarkersInv
    BY DEF PairInv, TypeInv
  <1> SUFFICES ASSUME NEW f \in Sessions, flow'[f] \in Early PROVE Fresh(f)'
    BY DEF FreshInv
  <1>1. /\ flow[f] \in Early
        /\ flow'[f] \in {"idle", "exchanged"} => flow[f] \in {"idle", "exchanged"}
    <2>1. flow[f] = "idle" \/ flow'[f] = flow[f] \/ flow[f] \in {"exchanged", "recording", "ready"}
      BY <1>t DEF FlowCases, Pairs, flows, Crash, Exchange, ExchangeWasted, FlowStep, Record,
                  Recorded, RecordFails, Added, Abort, Repair, AddEntry, TypeOK, Unrecorded, Early
    <2>2. flow'[f] \in {"idle", "exchanged"} => flow[f] \in {"idle", "exchanged"}
      BY <1>t DEF FlowCases, Pairs, flows, Crash, Exchange, ExchangeWasted, FlowStep, Record,
                  Recorded, RecordFails, Added, Abort, Repair, AddEntry, TypeOK, Unrecorded, Early
    <2>3. QED
      BY <2>1, <2>2 DEF Early
  <1>2. Fresh(f) /\ f # None
    BY <1>1, NoneIsNoSession DEF FreshInv, Connections
  <1>3. back'[f] # "committed"
    BY <1>2, <1>t DEF Turns, Dies, Commits, Starts, Committable, Fresh, TypeOK
  <1>4. f \notin loose'
    BY <1>2 DEF Turns, Underway, Fresh
  <1>5. f \notin {entry', saved'}
    <2>1. CASE UNCHANGED <<entry, saved, leaving>> \/ Save \/ Remove \/ Crash
      BY <1>2, <2>1 DEF Fresh, Save, Remove, Crash
    <2>2. CASE Drop
      BY <1>2, <2>2, SessionsAreFresh DEF Fresh, Drop, Unsaved
    <2>3. CASE Refused
      BY <1>2, <2>3 DEF Fresh, Refused, Avoids
    <2>4. ASSUME NEW s \in Sessions, Repair(s) \/ AddEntry(s)
          PROVE  f \notin {entry', saved'}
      <3>1. /\ entry' = s /\ saved' = saved /\ flow'[s] \in {"closed", "adding"}
        BY <2>4, <1>t DEF Repair, AddEntry, TypeOK
      <3>2. QED
        BY <1>2, <3>1 DEF Fresh, Early
    <2>5. QED
      BY <2>1, <2>2, <2>3, <2>4 DEF EntryCases
  <1>6. f # task'.session
    BY <1>2 DEF TaskMoves, Fresh
  <1>7. Avoids(NoMarker, f)
    BY <1>2 DEF Avoids, NoMarker
  <1>8. Avoids(task'.marker, f)
    BY <1>2, <1>7 DEF TaskMoves, Fresh
  <1>9. ASSUME NEW s \in Sessions
        PROVE  Avoids(journal'[s], f) /\ Avoids(file'[s], f)
    <2>1. CASE (UNCHANGED journal /\ file' \in {file, journal}) \/ Crash
      BY <1>2, <2>1 DEF Fresh, Crash
    <2>2. ASSUME NEW x \in Sessions, Record(x)
          PROVE  Avoids(journal'[s], f) /\ Avoids(file'[s], f)
      <3>1. CASE s # x
        BY <1>t, <1>2, <2>2, <3>1, RecordFields DEF Fresh, Record
      <3>2. CASE s = x
        <4>1. entry \in Journaled(journal) => entry \in Sessions
          BY DEF Journaled
        <4>2. QED
          BY <1>t, <1>2, <2>2, <3>2, <4>1, RecordFields DEF Fresh, Record, Avoids
      <3>3. QED
        BY <3>1, <3>2
    <2>3. ASSUME NEW u \in Sessions, ResolvesTruly(u)
          PROVE  Avoids(journal'[s], f) /\ Avoids(file'[s], f)
      <3>1. /\ u \in Journaled(journal) /\ UNCHANGED file
            /\ journal' = Resolved(journal, u, back[u] = "committed")
        BY <2>3 DEF ResolvesTruly
      <3>2. CASE s = u
        BY <1>2, <1>7, <3>1, <3>2 DEF Resolved, Fresh
      <3>3. CASE s # u
        <4>1. \/ journal'[s] = journal[s]
              \/ journal'[s].pending = None /\ journal'[s].previous = u /\ journal[s].pending = u
              \/ /\ journal'[s].pending = journal[u].pending
                 /\ journal'[s].previous = journal[u].previous
          BY <1>t, <3>1, <3>3, ResolvedFields
        <4>2. Avoids(journal[s], f) /\ Avoids(journal[u], f) /\ Avoids(file[s], f)
          BY <1>2 DEF Fresh
        <4>3. QED
          BY <1>2, <3>1, <4>1, <4>2 DEF Avoids
      <3>4. QED
        BY <3>2, <3>3
    <2>4. QED
      BY <2>1, <2>2, <2>3 DEF BookCases
  <1>10. ASSUME flow'[f] \in {"idle", "exchanged"}
         PROVE  f \notin Journaled(journal') \cup Journaled(file')
    <2>1. flow[f] \in {"idle", "exchanged"} /\ f \notin Journaled(journal) \cup Journaled(file)
      BY <1>1, <1>2, <1>10 DEF Fresh
    <2>2. CASE (UNCHANGED journal /\ file' \in {file, journal}) \/ Crash
      BY <2>1, <2>2 DEF Crash
    <2>3. ASSUME NEW x \in Sessions, Record(x)
          PROVE  f \notin Journaled(journal') \cup Journaled(file')
      <3>1. f # x /\ UNCHANGED file
        BY <1>10, <1>t, <2>3 DEF Record, TypeOK
      <3>2. QED
        BY <1>t, <2>1, <2>3, <3>1, RecordFields
    <2>4. ASSUME NEW u \in Sessions, ResolvesTruly(u)
          PROVE  f \notin Journaled(journal') \cup Journaled(file')
      BY <1>t, <2>1, <2>4, ResolvedKeeps DEF ResolvesTruly
    <2>5. QED
      BY <2>2, <2>3, <2>4 DEF BookCases
  <1>11. QED
    BY <1>3, <1>4, <1>5, <1>6, <1>8, <1>9, <1>10 DEF Fresh

(* A committed candidate stays committed.                                  *)
LEMMA CommittedStays ==
    ASSUME TypeOK, KnownInv, Turns, NEW s \in Sessions, back[s] = "committed"
    PROVE  back'[s] = "committed"
  BY DEF Turns, Dies, Commits, Starts, Committable, TypeOK, KnownInv

(* A record refers to older ones that are journaled, and does not restore  *)
(* a connection that is journaled itself.                                  *)
LEMMA StepLink ==
    ASSUME PairInv, LinkInv, OrderInv, FreshInv, BookCases
    PROVE  LinkInv'
  <1>t. TypeOK /\ MarkersInv
    BY DEF PairInv, TypeInv
  <1>1. CASE (UNCHANGED journal /\ file' \in {file, journal}) \/ Crash
    BY <1>1 DEF LinkInv, LinkOK, PreviousOK, Journaled, Crash
  <1>2. ASSUME NEW x \in Sessions, Record(x)
        PROVE  LinkInv'
    <2>1. /\ flow[x] = "exchanged" /\ Fresh(x) /\ UNCHANGED file
      BY <1>2 DEF Record, FreshInv, Early
    <2>2. ASSUME NEW t \in Sessions, journal'[t].pending # None
          PROVE  journal'[t].pending \in Journaled(journal') /\ Earlier(journal'[t].pending, t)
      <3>1. CASE t # x
        BY <1>t, <1>2, <2>2, <3>1, RecordFields DEF LinkInv, LinkOK
      <3>2. CASE t = x
        BY <1>t, <1>2, <2>1, <2>2, <3>2, RecordFields DEF OrderInv
      <3>3. QED
        BY <3>1, <3>2
    <2>3. ASSUME NEW t \in Journaled(journal')
          PROVE  journal'[t].previous \notin Journaled(journal')
      <3>0. t \in Sessions /\ x # None /\ None \notin Sessions
        BY NoneIsNoSession DEF Journaled, Connections
      <3>1. CASE t # x
        <4>1. /\ journal'[t] = journal[t] /\ t \in Journaled(journal)
              /\ Journaled(journal') = Journaled(journal) \cup {x}
          BY <1>t, <1>2, <3>0, <3>1, RecordFields
        <4>2. journal[t].previous # x
          BY <2>1, <3>0 DEF Fresh, Avoids
        <4>3. QED
          BY <4>1, <4>2 DEF LinkInv, PreviousOK
      <3>2. CASE t = x
        <4>1. /\ Journaled(journal') = Journaled(journal) \cup {x}
              /\ \/ journal'[x].previous = None
                 \/ /\ entry \in Journaled(journal)
                    /\ journal'[x].previous = journal[entry].previous
                 \/ entry \notin Journaled(journal) /\ journal'[x].previous = entry
          BY <1>t, <1>2, RecordFields
        <4>2. entry # x /\ (entry \in Journaled(journal) => journal[entry].previous # x)
          BY <2>1 DEF Fresh, Avoids, Journaled
        <4>3. None \notin Journaled(journal)
          BY <3>0 DEF Journaled
        <4>4. QED
          BY <3>0, <3>2, <4>1, <4>2, <4>3 DEF LinkInv, PreviousOK
      <3>3. QED
        BY <3>1, <3>2
    <2>4. QED
      BY <2>1, <2>2, <2>3 DEF LinkInv, LinkOK, PreviousOK, Journaled
  <1>3. ASSUME NEW u \in Sessions, ResolvesTruly(u)
        PROVE  LinkInv'
    <2>1. /\ u \in Journaled(journal) /\ UNCHANGED file
          /\ journal' = Resolved(journal, u, back[u] = "committed")
      BY <1>3 DEF ResolvesTruly
    <2>2. \A t \in Sessions : t \in Journaled(journal') <=> t \in Journaled(journal) /\ t # u
      BY <1>t, <2>1, ResolvedKeeps
    <2>3. ASSUME NEW t \in Sessions, t # u
          PROVE  \/ journal[t].pending # u /\ journal'[t] = journal[t]
                 \/ journal'[t].pending = None /\ journal'[t].previous = u
                 \/ /\ journal[t].pending = u
                    /\ journal'[t].pending = journal[u].pending
                    /\ journal'[t].previous = journal[u].previous
      BY <1>t, <2>1, <2>3, ResolvedFields
    <2>4. journal'[u] = NoMarker
      BY <2>1 DEF Resolved
    <2>5. ASSUME NEW t \in Sessions, journal'[t].pending # None
          PROVE  journal'[t].pending \in Journaled(journal') /\ Earlier(journal'[t].pending, t)
      <3>1. t # u
        BY <2>4, <2>5 DEF NoMarker
      <3>2. CASE journal[t].pending # u /\ journal'[t] = journal[t]
        BY <2>2, <2>5, <3>2 DEF LinkInv, LinkOK, Journaled
      <3>3. CASE journal[t].pending = u /\ journal'[t].pending = journal[u].pending
        <4>1. /\ u # None /\ Earlier(u, t)
              /\ journal[u].pending \in Journaled(journal) /\ Earlier(journal[u].pending, u)
          BY <2>5, <3>3, NoneIsNoSession DEF LinkInv, LinkOK, Connections
        <4>2. QED
          BY <2>2, <3>3, <4>1, EarlierOrder
      <3>4. QED
        BY <2>3, <2>5, <3>1, <3>2, <3>3
    <2>6. ASSUME NEW t \in Journaled(journal')
          PROVE  journal'[t].previous \notin Journaled(journal')
      <3>1. t \in Sessions /\ t \in Journaled(journal) /\ t # u
        BY <2>2 DEF Journaled
      <3>2. /\ journal[t].previous \notin Journaled(journal)
            /\ journal[u].previous \notin Journaled(journal)
        BY <2>1, <3>1 DEF LinkInv, PreviousOK
      <3>3. Journaled(journal') = Journaled(journal) \ {u}
        BY <2>2 DEF Journaled
      <3>4. QED
        BY <2>3, <3>1, <3>2, <3>3
    <2>7. QED
      BY <2>1, <2>5, <2>6 DEF LinkInv, LinkOK, PreviousOK, Journaled
  <1>4. QED
    BY <1>1, <1>2, <1>3 DEF BookCases

(* The records on disk that the journal has too are as good as those in    *)
(* the journal.                                                            *)
LEMMA StepAcross ==
    ASSUME PairInv, LinkInv', AcrossInv, FreshInv, Turns, BookCases
    PROVE  AcrossInv'
  <1>t. TypeOK /\ MarkersInv /\ KnownInv
    BY DEF PairInv, TypeInv
  <1>1. CASE UNCHANGED <<journal, file>>
    <2>1. ASSUME NEW t \in Journaled(journal) \cap Journaled(file)
          PROVE  /\ journal[t].pending # None => journal[t].pending \in Journaled(file)
                 /\ journal[t].previous \in Journaled(file) =>
                       back'[journal[t].previous] = "committed"
      BY <1>t, CommittedStays DEF AcrossInv, Journaled
    <2>2. QED
      BY <1>1, <2>1 DEF AcrossInv, Journaled
  <1>2. CASE journal' = file'
    BY <1>2 DEF AcrossInv, LinkInv, LinkOK, PreviousOK, Journaled
  <1>3. ASSUME NEW x \in Sessions, Record(x)
        PROVE  AcrossInv'
    <2>1. Fresh(x) /\ UNCHANGED <<file, back>>
      BY <1>3 DEF Record, FreshInv, Early, backend
    <2>2. x \notin Journaled(file)
      BY <1>3, <2>1 DEF Fresh, Record
    <2>3. \A t \in Journaled(journal') \cap Journaled(file) :
             t \in Journaled(journal) /\ journal'[t] = journal[t]
      BY <1>t, <1>3, <2>2, RecordFields DEF Journaled
    <2>4. QED
      BY <2>1, <2>3 DEF AcrossInv, Journaled
  <1>4. ASSUME NEW u \in Sessions, ResolvesTruly(u)
        PROVE  AcrossInv'
    <2>1. /\ u \in Journaled(journal) /\ UNCHANGED <<file, back>>
          /\ journal' = Resolved(journal, u, back[u] = "committed")
      BY <1>4 DEF ResolvesTruly, backend
    <2>2. \A t \in Sessions : t \in Journaled(journal') <=> t \in Journaled(journal) /\ t # u
      BY <1>t, <2>1, ResolvedKeeps
    <2>3. ASSUME NEW t \in Journaled(journal') \cap Journaled(file)
          PROVE  /\ journal'[t].pending # None => journal'[t].pending \in Journaled(file)
                 /\ journal'[t].previous \in Journaled(file) =>
                       back[journal'[t].previous] = "committed"
      <3>1. t \in Sessions /\ t \in Journaled(journal) /\ t # u /\ t \in Journaled(file)
        BY <2>2 DEF Journaled
      <3>2. \/ journal[t].pending # u /\ journal'[t] = journal[t]
            \/ /\ journal[t].pending = u /\ back[u] = "committed"
               /\ journal'[t].pending = None /\ journal'[t].previous = u
            \/ /\ journal[t].pending = u
               /\ journal'[t].pending = journal[u].pending
               /\ journal'[t].previous = journal[u].previous
        BY <1>t, <2>1, <3>1, ResolvedFields
      <3>3. u # None
        BY NoneIsNoSession DEF Connections
      <3>4. CASE journal[t].pending # u /\ journal'[t] = journal[t]
        BY <3>1, <3>4 DEF AcrossInv
      <3>5. CASE journal[t].pending = u
        <4>1. u \in Journaled(file)
          BY <3>1, <3>3, <3>5 DEF AcrossInv
        <4>2. /\ journal[u].pending # None => journal[u].pending \in Journaled(file)
              /\ journal[u].previous \in Journaled(file) =>
                    back[journal[u].previous] = "committed"
          BY <2>1, <4>1 DEF AcrossInv
        <4>3. QED
          BY <3>2, <3>5, <4>2
      <3>6. QED
        BY <3>2, <3>4, <3>5
    <2>4. QED
      BY <2>1, <2>3 DEF AcrossInv, Journaled
  <1>5. QED
    BY <1>1, <1>2, <1>3, <1>4 DEF BookCases, Crash

(* An entry that is being removed has no task, and none comes.             *)
LEMMA StepLeaving == TypeInv /\ LeavingInv /\ EntryCases /\ [Next]_vars => LeavingInv'
  <1> SUFFICES ASSUME TypeInv, LeavingInv, EntryCases, [Next]_vars, leaving' = TRUE
               PROVE  LeavingInv'
    BY DEF LeavingInv, EntryCases, Remove, Repair, AddEntry, Save, Drop, Refused, Crash
  <1>t. TypeOK /\ pass \in [Passes -> WalkSet] /\ "commit" \in Passes /\ "removal" \in Passes
    BY FreshTypes DEF TypeInv, TypeOK, WalkSet
  <1>1. CASE Remove
    BY <1>1, <1>t DEF Remove, LeavingInv, Present, NoTask, NewPass, NoPass
  <1>2. CASE ~Remove
    <2>1. leaving = TRUE
      BY <1>2 DEF EntryCases, Repair, AddEntry, Save, Drop, Refused, Crash
    <2>2. Present /\ ~reload /\ task.pc = "off" /\ pass["commit"].pc = "off"
      BY <2>1 DEF LeavingInv
    <2>3. /\ ~Reload /\ ~TaskProceeds /\ ~CommitAnswered /\ ~CommitUnanswered
          /\ ~TaskSaveRaises /\ ~Drop /\ ~Crash
          /\ \A s \in Sessions : ~Repair(s) /\ ~AddEntry(s)
      <3>1. ~Drop /\ ~Crash /\ ~Reload
        BY <2>2 DEF Drop, Crash, Reload
      <3>2. ~TaskStarts /\ ~TaskReads /\ ~TaskPolls /\ ~TaskResolves /\ ~TaskSaved
            /\ ~Refused
        BY <2>2 DEF TaskStarts, TaskReads, TaskPolls, TaskResolves, TaskSaved, Refused
      <3>3. ~CommitAnswered /\ ~CommitUnanswered /\ ~TaskSaveRaises
        BY <2>2 DEF CommitAnswered, CommitUnanswered, TaskSaveRaises
      <3>4. entry # "absent"
        BY <2>2, SessionsAreFresh DEF Present, Connections, Settled, Unsaved
      <3>5. \A s \in Sessions : ~Repair(s) /\ ~AddEntry(s)
        BY <2>1, <3>4 DEF Repair, AddEntry
      <3>6. QED
        BY <3>1, <3>2, <3>3, <3>5 DEF TaskProceeds
    <2>4. UNCHANGED <<entry, reload, task>> /\ pass'["commit"] = pass["commit"]
      <3>1. ASSUME NEW s \in Sessions, \/ Expire(s) \/ LateCommit(s) \/ Exchange(s)
                                        \/ ExchangeWasted(s) \/ FlowStep(s) \/ Abort(s)
            PROVE  UNCHANGED <<entry, reload, task>> /\ (Spawned \/ UNCHANGED pass)
        BY <3>1 DEF Expire, LateCommit, Exchange, ExchangeWasted, FlowStep, Record, Recorded,
                    RecordFails, Added, Abort, core
      <3>2. Spawned => pass'["commit"] = pass["commit"]
        BY <1>t, PassesAreDistinct DEF Spawned
      <3>3. CASE Save \/ UNCHANGED vars
        BY <3>3 DEF Save, vars, core
      <3>4. ASSUME NEW p \in Passes, \/ PassProceeds(p) \/ CancelAnswered(p)
                                      \/ CancelUnanswered(p) \/ PassSaveRaises(p)
            PROVE  UNCHANGED <<entry, reload, task>> /\ pass'["commit"] = pass["commit"]
        <4>1. p # "commit" /\ UNCHANGED <<entry, reload>>
          BY <2>2, <3>4 DEF PassProceeds, PassLists, PassResolves, PassSaved, CancelAnswered,
                            CancelUnanswered, PassSaveRaises, core
        <4>2. \/ GoesOn(p, Journaled(journal)) \/ GoesOn(p, pass[p].todo)
              \/ UNCHANGED task /\ \A q \in Passes : q # p => pass'[q] = pass[q]
          BY <1>t, <3>4, <4>1
          DEF PassProceeds, PassLists, PassResolves, PassSaved, CancelAnswered,
              CancelUnanswered, PassSaveRaises
        <4>3. ASSUME NEW todo, GoesOn(p, todo)
              PROVE  UNCHANGED task /\ \A q \in Passes : q # p => pass'[q] = pass[q]
          BY <1>t, <4>1, <4>3 DEF GoesOn
        <4>4. QED
          BY <1>t, <4>1, <4>2, <4>3
      <3>5. QED
        BY <1>2, <2>3, <3>1, <3>2, <3>3, <3>4 DEF Next, TaskProceeds
    <2>5. QED
      BY <2>2, <2>4 DEF LeavingInv, Present
  <1>3. QED
    BY <1>1, <1>2

(* The task works with the record as it is, once that waits for nothing,   *)
(* and what the entry carries is not resolved beside it.                   *)
LEMMA StepTaskInv ==
    ASSUME PairInv, TaskInv, PassInv, FreshInv, LeavingInv, TaskTurns, BookCases, EntryCases
    PROVE  TaskInv'
  <1>t. TypeOK /\ MarkersInv /\ WorkInv
    BY DEF PairInv, TypeInv
  <1>1. CASE Reads
    <2>1. UNCHANGED <<journal, entry>>
      BY <1>1 DEF Reads, Quiet, books, core
    <2>2. QED
      BY <1>1, <2>1 DEF Reads, TaskInv, Journaled
  <1>2. CASE Sends
    <2>1. UNCHANGED <<journal, entry>>
      BY <1>2 DEF Sends, Quiet, books, core
    <2>2. QED
      BY <1>2, <2>1 DEF Sends, TaskInv, Journaled
  <1>3. CASE CommitAnswered
    <2>1. /\ UNCHANGED <<journal, entry>> /\ task.pc = "commit"
          /\ task'.session = task.session /\ task'.marker = task.marker
      BY <1>t, <1>3 DEF CommitAnswered, books, core, TypeOK
    <2>2. QED
      BY <2>1 DEF TaskInv, Journaled
  <1>4. ASSUME task' = task, task.pc \in {"poll", "commit", "won", "refused"}
        PROVE  TaskInv'
    <2> DEFINE s == task.session
    <2>0. ~Crash /\ ~leaving /\ s \in Sessions /\ s # None
      BY <1>4, <1>t, NoneIsNoSession
      DEF Crash, Scheduled, NoTask, NewTask, LeavingInv, WorkInv, Works, Connections
    <2>1. ASSUME s \in Journaled(journal'), task.marker.pending = None
          PROVE  journal'[s] = task.marker
      <3>1. CASE UNCHANGED journal
        BY <1>4, <2>1, <3>1 DEF TaskInv
      <3>2. ASSUME NEW x \in Sessions, Record(x)
            PROVE  journal'[s] = task.marker
        <4>1. x # s
          BY <3>2 DEF Record, FreshInv, Fresh, Early
        <4>2. QED
          BY <1>4, <1>t, <2>0, <2>1, <3>2, <4>1, RecordFields DEF TaskInv
      <3>3. ASSUME NEW u \in Sessions, ResolvesTruly(u)
            PROVE  journal'[s] = task.marker
        <4>1. s \in Journaled(journal) /\ s # u
          BY <1>t, <2>0, <2>1, <3>3, ResolvedKeeps DEF ResolvesTruly
        <4>2. journal[s].pending # u
          BY <1>4, <2>0, <2>1, <4>1, NoneIsNoSession DEF TaskInv, Connections
        <4>3. QED
          BY <1>4, <2>0, <2>1, <3>3, <4>1, <4>2 DEF ResolvesTruly, Resolved, TaskInv
      <3>4. QED
        BY <2>0, <3>1, <3>2, <3>3 DEF BookCases
    <2>2. ASSUME entry' = s
          PROVE  s \in Journaled(journal')
      <3>1. UNCHANGED entry
        <4>1. ~Drop /\ ~Refused
          BY <1>4, <2>0, NoneIsNoSession DEF Drop, Refused, NoTask, Connections
        <4>2. \A x \in Sessions : ~Repair(x) /\ ~AddEntry(x)
          BY <2>2 DEF Repair, AddEntry, FreshInv, Fresh, Early
        <4>3. QED
          BY <2>0, <4>1, <4>2 DEF EntryCases, Save, Remove
      <3>2. s \in Journaled(journal)
        BY <1>4, <2>2, <3>1 DEF TaskInv
      <3>3. ASSUME NEW u \in Sessions, ResolvesTruly(u)
            PROVE  u # s
        BY <1>4, <2>0, <2>2, <3>1, <3>2, <3>3 DEF ResolvesTruly, Settling, PassInv
      <3>4. QED
        BY <1>t, <2>0, <3>2, <3>3, RecordFields, ResolvedKeeps DEF BookCases, ResolvesTruly
    <2>3. QED
      BY <1>4, <2>1, <2>2 DEF TaskInv
  <1>5. CASE task'.pc \notin {"poll", "commit", "won", "refused"}
    BY <1>5 DEF TaskInv
  <1>6. QED
    BY <1>1, <1>2, <1>3, <1>4, <1>5 DEF TaskTurns

(* What a pass cancels has no flow, and no entry that carries its record.  *)
LEMMA StepPassInv ==
    ASSUME PairInv, PassInv, LinkInv, FreshInv, SlotInv, TaskInv, PassTurns,
           FlowCases, BookCases, EntryCases
    PROVE  PassInv'
  <1>t. TypeOK /\ KnownInv /\ WorkInv
    BY DEF PairInv, TypeInv
  <1> DEFINE AliveNext(s) == flow'[s] \notin {"idle", "closed"} /\ s \notin gone'
  <1> SUFFICES ASSUME NEW p \in Passes, pass'[p].pc \in {"cancel", "answered"}
               PROVE  /\ ~AliveNext(pass'[p].cur)
                      /\ pass'[p].cur \in Journaled(journal') =>
                            entry' # pass'[p].cur \/ leaving'
    BY DEF PassInv, Alive, Journaled
  <1>1. CASE Picks(p)
    <2>1. UNCHANGED <<flow, gone, entry, leaving, journal>>
      BY <1>1 DEF Picks, flows
    <2>2. QED
      BY <1>1, <2>1 DEF Picks, Orphan, Alive
  <1>2. CASE CancelAnswered(p)
    <2>1. /\ UNCHANGED <<flow, gone, entry, leaving, journal>>
          /\ pass'[p].cur = pass[p].cur /\ pass[p].pc = "cancel"
      BY <1>2, <1>t DEF CancelAnswered, flows, core, books, TypeOK
    <2>2. QED
      BY <2>1 DEF PassInv, Alive
  <1>3. CASE pass'[p] = pass[p]
    <2> DEFINE s == pass[p].cur
    <2>0. /\ s \in Sessions /\ ~Alive(s) /\ flow[s] # "idle" /\ ~Crash
          /\ s \in Journaled(journal) => entry # s \/ leaving
      <3>1. pass[p].pc \in {"cancel", "answered"}
        BY <1>3
      <3>2. s \in Sessions /\ back[s] # "none"
        BY <1>t, <3>1 DEF WorkInv, Walks, KnownInv
      <3>3. ~Crash
        BY <1>3, <3>1 DEF Crash, NewPass, NoPass
      <3>4. QED
        BY <1>t, <3>1, <3>2, <3>3 DEF PassInv, KnownInv
    <2> HIDE DEF s
    <2>1. ~AliveNext(s)
      BY <1>t, <2>0 DEF Alive, FlowCases, Pairs, flows, Exchange, ExchangeWasted,
            FlowStep, Record, Recorded, RecordFails, Added, Abort, Repair, AddEntry, TypeOK
    <2>2. ASSUME s \in Journaled(journal')
          PROVE  entry' # s \/ leaving'
      <3>1. CASE s \in Journaled(journal)
        <4>1. CASE UNCHANGED <<entry, saved, leaving>> \/ Save \/ Remove
          BY <2>0, <3>1, <4>1 DEF Save, Remove
        <4>2. CASE Drop
          BY <2>0, <4>2, SessionsAreFresh DEF Drop, Unsaved
        <4>3. ASSUME NEW x \in Sessions, Repair(x) \/ AddEntry(x)
              PROVE  entry' # s
          BY <2>0, <4>3 DEF Repair, AddEntry, Alive, SlotInv
        <4>4. CASE Refused /\ entry = task.session
          <5>1. /\ entry' = task.marker.previous /\ task.pc = "refused"
            BY <4>4 DEF Refused, Restores
          <5>2. entry \in Journaled(journal) /\ journal[entry] = task.marker
            BY <4>4, <5>1 DEF TaskInv
          <5>3. entry' \notin Journaled(journal)
            BY <5>1, <5>2 DEF LinkInv, PreviousOK
          <5>4. QED
            BY <3>1, <5>3
        <4>5. CASE Refused /\ entry # task.session
          BY <2>0, <3>1, <4>5 DEF Refused, Restores
        <4>6. QED
          BY <2>0, <4>1, <4>2, <4>3, <4>4, <4>5 DEF EntryCases
      <3>2. CASE s \notin Journaled(journal)
        <4>1. PICK x \in Sessions : Record(x)
          BY <1>t, <2>0, <2>2, <3>2, ResolvedKeeps DEF BookCases, ResolvesTruly
        <4>2. x = s
          BY <1>t, <2>0, <2>2, <3>2, <4>1, RecordFields
        <4>3. QED
          BY <2>0, <4>1, <4>2 DEF Record, FreshInv, Fresh, Early, core
      <3>3. QED
        BY <3>1, <3>2
    <2>3. QED
      BY <1>3, <2>1, <2>2 DEF s
  <1>4. QED
    BY <1>1, <1>2, <1>3 DEF PassTurns

-----------------------------------------------------------------------------
(* What is fine stays so while the backend commits nothing more, the       *)
(* records stay, and no candidate more must be kept.                       *)
LEMMA SoundCarriesOver ==
    ASSUME NEW b, NEW a, NEW j, NEW c, NEW A, Sound(b, a, j, c, A),
           NEW b2, NEW j2, NEW A2,
           \A t \in Sessions : (b2[t] = "committed") = (b[t] = "committed"),
           \A t \in Journaled(j) : t \in Journaled(j2) /\ j2[t] = j[t],
           A2 \subseteq A
    PROVE  Sound(b2, a, j2, c, A2)
  <1>1. PICK K \in SUBSET Journaled(j) : Chain(b, a, j, c, A, K)
    BY DEF Sound
  <1>2. \A t \in K : /\ (b2[t] = "committed") = (b[t] = "committed")
                     /\ j2[t] = j[t]
    BY DEF Journaled
  <1>3. Chain(b2, a, j2, c, A2, K)
    BY <1>1, <1>2, ChainCarriesOver
  <1>4. K \in SUBSET Journaled(j2)
    OBVIOUS
  <1>5. QED
    BY <1>3, <1>4 DEF Sound

(* Less to keep is kept as well.                                           *)
LEMMA FineShrinks ==
    ASSUME NEW b, NEW a, NEW j, NEW c, NEW A, NEW A2 \in SUBSET A
    PROVE  /\ Sound(b, a, j, c, A) => Sound(b, a, j, c, A2)
           /\ Fine(b, a, j, c, A) => Fine(b, a, j, c, A2)
  <1>1. Sound(b, a, j, c, A) => Sound(b, a, j, c, A2)
    BY SoundCarriesOver
  <1>2. QED
    BY <1>1 DEF Fine, Settles

(* The connection on top of a chain is one of those that it keeps.         *)
LEMMA SoundTop ==
    ASSUME NEW b, NEW a, NEW j, NEW c, NEW A, Sound(b, a, j, c, A)
    PROVE  /\ c \in Journaled(j) /\ Sound(b, a, j, c, A \cup {c})
           /\ \A s \in A : s \in Journaled(j) /\ ~Earlier(c, s)
  <1>1. PICK K \in SUBSET Journaled(j) : Chain(b, a, j, c, A, K)
    BY DEF Sound
  <1>2. /\ c \in K /\ ~Overtaken(b, K, c)
        /\ \A s \in A : s \in K /\ ~Earlier(c, s)
    BY <1>1, EarlierOrder DEF Chain, Overtaken
  <1>3. Chain(b, a, j, c, A \cup {c}, K)
    BY <1>1, <1>2 DEF Chain
  <1>4. QED
    BY <1>2, <1>3 DEF Sound

(* One turn of the backend.                                                *)
LEMMA FineTurns ==
    ASSUME TypeOK, NEW s \in Sessions, Dies(s) \/ Commits(s) \/ Starts(s), back[s] # "committed",
           NEW j, NEW c, NEW A, NEW A2 \in SUBSET A, \A t \in A2 : back'[t] = "issued",
           Commits(s) => s \in A /\ \A t \in A2 : ~Earlier(t, s)
    PROVE  /\ Sound(back, active, j, c, A) => Sound(back', active', j, c, A2)
           /\ Fine(back, active, j, c, A) => Fine(back', active', j, c, A2)
  <1>1. CASE Dies(s) \/ Starts(s)
    <2>1. active' = active /\ \A t \in Sessions : (back'[t] = "committed") = (back[t] = "committed")
      BY <1>1 DEF Dies, Starts, TypeOK
    <2>2. Sound(back, active, j, c, A) => Sound(back', active', j, c, A2)
      BY <2>1, SoundCarriesOver
    <2>3. QED
      BY <2>1, <2>2 DEF Fine, Settles
  <1>2. CASE Commits(s)
    <2>1. /\ back' = [back EXCEPT ![s] = "committed"] /\ active' = s /\ back'[s] = "committed"
          /\ back \in [Sessions -> {"none", "issued", "committed", "dead"}]
      BY <1>2 DEF Commits, TypeOK
    <2>2. s \in A /\ s \notin A2 /\ \A t \in A2 : ~Earlier(t, s)
      BY <1>2, <2>1
    <2>3. ASSUME Sound(back, active, j, c, A)
          PROVE  Sound(back', active', j, c, A2)
      <3>1. PICK K \in SUBSET Journaled(j) : Chain(back, active, j, c, A, K)
        BY <2>3 DEF Sound
      <3>2. K \in SUBSET Sessions
        BY DEF Journaled
      <3>3. Chain(back', active', j, c, A2, K)
        BY <2>1, <2>2, <3>1, <3>2, ChainCommits
      <3>4. QED
        BY <3>3 DEF Sound
    <2>4. QED
      BY <2>2, <2>3 DEF Fine, Settles
  <1>3. QED
    BY <1>1, <1>2

-----------------------------------------------------------------------------
(* What a request may still commit, and what the task is about to send.    *)
LEMMA AnchorTypes ==
    /\ Committable \subseteq Carried /\ Carried \subseteq Pending /\ Pending \subseteq Sessions
    /\ \A s \in Pending : back[s] = "issued"
  BY DEF Committable, Carried, Pending

(* A step adds to them only what HA has saved, or what the entry carries.  *)
LEMMA AnchorTurns ==
    ASSUME PairInv, FreshInv, Turns, TaskTurns
    PROVE  /\ \/ Committable' \subseteq Committable
              \/ Sends /\ Committable' \subseteq Committable \cup {saved}
           /\ \/ Carried' \subseteq Carried
              \/ Reads /\ Carried' \subseteq Carried \cup {entry}
           /\ \A s \in Carried' : back[s] = "issued" /\ back'[s] = "issued"
  <1>t. TypeOK /\ KnownInv /\ WorkInv
    BY DEF PairInv, TypeInv
  <1>1. ASSUME NEW s \in Sessions, back'[s] = "issued", back[s] # "issued"
        PROVE  s \notin loose' /\ (s # task'.session \/ task'.pc \notin {"poll", "commit"})
    <2>1. Starts(s)
      BY <1>1, <1>t DEF Turns, Dies, Commits, Starts, TypeOK
    <2>2. Fresh(s)
      BY <2>1 DEF Starts, FreshInv, Early
    <2>3. QED
      BY <1>1, <2>1, <2>2 DEF Turns, Starts, Fresh, Underway
  <1>2. ASSUME NEW s \in Sessions, s \in Committable'
        PROVE  back[s] = "issued" /\ (s \in Committable \/ (Sends /\ s = saved))
    <2>1. back[s] = "issued" /\ back'[s] = "issued"
      BY <1>1, <1>2 DEF Committable
    <2>2. s \in loose' \/ (task'.pc = "commit" /\ task'.session = s)
      BY <1>2 DEF Committable
    <2>3. CASE s \in loose'
      BY <2>1, <2>3 DEF Turns, Underway, Committable
    <2>4. CASE task'.pc = "commit" /\ task'.session = s
      BY <1>t, <2>1, <2>4 DEF TaskTurns, Reads, Sends, CommitAnswered, Committable, TypeOK
    <2>5. QED
      BY <2>1, <2>2, <2>3, <2>4
  <1>3. ASSUME NEW s \in Sessions, s \in Carried'
        PROVE  /\ back[s] = "issued" /\ back'[s] = "issued"
               /\ s \in Carried \/ (Reads /\ s = entry)
    <2>1. back[s] = "issued" /\ back'[s] = "issued"
      BY <1>1, <1>3 DEF Carried, Committable
    <2>2. CASE s \in Committable'
      BY <1>2, <2>1, <2>2 DEF Carried, Sends
    <2>3. CASE task'.pc \in {"poll", "commit"} /\ task'.session = s
      BY <1>t, <2>1, <2>3 DEF TaskTurns, Reads, Sends, CommitAnswered, Carried, TypeOK
    <2>4. QED
      BY <1>3, <2>1, <2>2, <2>3 DEF Carried
  <1>4. Committable' \subseteq Sessions /\ Carried' \subseteq Sessions
    BY DEF Carried, Committable
  <1>5. QED
    BY <1>2, <1>3, <1>4

(* An open candidate that the entry or HA's file carries is on top of its  *)
(* chain, in the journal and on disk.                                      *)
LEMMA OpenIsSound ==
    ASSUME PairInv, ChainInv
    PROVE  /\ entry \in Sessions /\ back[entry] = "issued" =>
                 /\ Sound(back, active, journal, entry, Carried)
                 /\ Sound(back, active, file, entry, Carried)
                 /\ \A s \in Carried : ~Earlier(entry, s)
           /\ saved \in Sessions /\ back[saved] = "issued" =>
                 /\ Sound(back, active, journal, saved, Committable)
                 /\ Sound(back, active, file, saved, Committable)
  <1>1. ASSUME entry \in Sessions, back[entry] = "issued"
        PROVE  /\ Sound(back, active, journal, entry, Carried)
               /\ Sound(back, active, file, entry, Carried)
    <2>1. entry \in Journaled(journal) /\ entry \in Journaled(file) /\ entry # "gone"
      BY <1>1, SessionsAreFresh DEF PairInv, JournaledBeforeSaved, Unsaved
    <2>2. QED
      BY <2>1 DEF ChainInv, EntryInv, EntryOK, Fine, Settles, Lost
  <1>2. ASSUME saved \in Sessions, back[saved] = "issued"
        PROVE  /\ Sound(back, active, journal, saved, Committable)
               /\ Sound(back, active, file, saved, Committable)
    <2>1. saved \in Journaled(journal) /\ saved \in Journaled(file) /\ saved # "gone"
      BY <1>2, SessionsAreFresh DEF PairInv, JournaledBeforeSaved, RecordInv, Unsaved
    <2>2. QED
      BY <2>1 DEF ChainInv, SavedInv, SavedOK, Fine, Settles, Lost
  <1>3. QED
    BY <1>1, <1>2, SoundTop

(* A turn of the backend.                                                  *)
LEMMA ChainAtTurns ==
    ASSUME PairInv, ChainInv, FreshInv, Turns, TaskTurns,
           NEW s \in Sessions, Dies(s) \/ Commits(s) \/ Starts(s),
           UNCHANGED <<journal, file, entry, saved, leaving, gone>>
    PROVE  ChainInv'
  <1>t. TypeOK /\ KnownInv
    BY DEF PairInv, TypeInv
  <1>0. back[s] \in {"none", "issued"} /\ back' # back
    BY <1>t DEF Dies, Commits, Starts, Committable, KnownInv, TypeOK
  <1>1. /\ Committable' \subseteq Committable /\ Carried' \subseteq Carried
        /\ \A t \in Carried' : back'[t] = "issued"
    BY <1>0, AnchorTurns DEF Reads, Sends, Quiet, backend
  <1>2. /\ Committable' \subseteq Carried' /\ \A t \in Pending' : back'[t] = "issued"
        /\ Committable \subseteq Carried /\ Carried \subseteq Pending
    BY AnchorTypes DEF Committable, Carried, Pending
  <1>3. Pending' \subseteq Pending
    <2>1. ASSUME entry \in Sessions, back'[entry] = "issued", back[entry] # "issued"
          PROVE  FALSE
      <3>1. Starts(s) /\ s = entry
        BY <2>1, <1>t DEF Dies, Commits, Starts, TypeOK
      <3>2. QED
        BY <3>1 DEF Starts, FreshInv, Fresh, Early
    <2>2. QED
      BY <1>1, <2>1 DEF Pending
  <1>4. Commits(s) => /\ s \in Committable
                      /\ \A t \in Pending' : ~Earlier(t, s)
    <2>1. ASSUME Commits(s), NEW t \in Pending'
          PROVE  ~Earlier(t, s)
      <3>1. s \in Committable /\ s \in Carried
        BY <1>2, <2>1 DEF Commits
      <3>2. CASE t \in Carried
        BY <3>1, <3>2 DEF ChainInv, AnchorInv
      <3>3. CASE t \notin Carried
        <4>1. t = entry /\ entry \in Sessions /\ back[entry] = "issued"
          BY <1>3, <3>3 DEF Pending
        <4>2. QED
          BY <3>1, <4>1, OpenIsSound
      <3>4. QED
        BY <3>2, <3>3
    <2>2. QED
      BY <2>1 DEF Commits
  <1>5. ASSUME NEW j
        PROVE  /\ SavedOK(j) => \/ Fine(back', active', j, saved, Committable')
                                \/ Lost(back', j, saved) /\ (leaving \/ entry # saved)
               /\ EntryOK(j) => \/ Fine(back', active', j, entry, Carried')
                                \/ Lost(back', j, entry) /\ leaving
               /\ \A f \in Sessions : Sound(back, active, j, f, Pending) =>
                     Sound(back', active', j, f, Pending')
    <2>1. \A c : Lost(back, j, c) => Lost(back', j, c)
      BY <1>t, <1>0 DEF Lost, Dies, Commits, Starts, TypeOK
    <2>2. Fine(back, active, j, saved, Committable) => Fine(back', active', j, saved, Committable')
      BY <1>t, <1>0, <1>1, <1>2, <1>3, <1>4, FineTurns DEF Carried, Pending
    <2>3. Fine(back, active, j, entry, Carried) => Fine(back', active', j, entry, Carried')
      BY <1>t, <1>0, <1>1, <1>2, <1>3, <1>4, FineTurns DEF Carried, Pending
    <2>4. \A f \in Sessions : Sound(back, active, j, f, Pending) =>
              Sound(back', active', j, f, Pending')
      BY <1>t, <1>0, <1>1, <1>2, <1>3, <1>4, FineTurns
    <2>5. QED
      BY <2>1, <2>2, <2>3, <2>4 DEF SavedOK, EntryOK
  <1>6. \A f \in Sessions : flow'[f] \in {"recording", "ready"} => flow'[f] = flow[f]
    BY <1>t DEF Dies, Commits, Starts, TypeOK
  <1>7. SavedInv' /\ EntryInv'
    BY <1>5 DEF ChainInv, SavedInv, EntryInv, SavedOK, EntryOK
  <1>8. FlowInv'
    BY <1>5, <1>6 DEF ChainInv, FlowInv, FlowOK
  <1>9. AnchorInv'
    BY <1>1 DEF ChainInv, AnchorInv
  <1>10. QED
    BY <1>7, <1>8, <1>9 DEF ChainInv

(* Flows that come to a record on disk.                                    *)
FlowsStay ==
    \A f \in Sessions :
        /\ flow'[f] = "recording" /\ f \notin gone' => flow[f] = "recording" /\ f \notin gone
        /\ flow'[f] = "ready" => \/ flow[f] = "ready"
                                 \/ flow[f] = "recording" /\ f \notin gone /\ file' = journal

(* Nothing that matters changes, but that the journal may be saved, and    *)
(* that the task looks at another record.                                  *)
LEMMA ChainAtRest ==
    ASSUME PairInv, ChainInv, FreshInv, TaskInv, Turns, TaskTurns, FlowsStay,
           UNCHANGED <<back, active, journal, entry, saved>>, file' \in {file, journal},
           leaving => leaving'
    PROVE  ChainInv'
  <1>t. TypeOK /\ RecordInv
    BY DEF PairInv, TypeInv
  <1>1. /\ \/ Committable' \subseteq Committable
           \/ Sends /\ Committable' \subseteq Committable \cup {saved}
        /\ \/ Carried' \subseteq Carried
           \/ Reads /\ Carried' \subseteq Carried \cup {entry}
        /\ \A s \in Carried' : back[s] = "issued"
        /\ Committable' \subseteq Carried' /\ Committable \subseteq Carried
        /\ Carried' \subseteq Sessions
    BY AnchorTurns, AnchorTypes DEF Committable, Carried
  <1>2. ASSUME NEW j \in {journal, file}
        PROVE  Fine(back, active, j, saved, Committable) =>
                  Fine(back, active, j, saved, Committable')
    <2>1. CASE Committable' \subseteq Committable
      BY <2>1, FineShrinks
    <2>2. CASE Committable' \subseteq Committable \cup {saved} /\ saved \in Committable'
      <3>1. saved \in Sessions /\ back[saved] = "issued"
        BY <1>1, <2>2
      <3>2. Sound(back, active, j, saved, Committable \cup {saved})
        BY <3>1, OpenIsSound, SoundTop
      <3>3. QED
        BY <2>2, <3>2, FineShrinks DEF Fine
    <2>3. QED
      BY <1>1, <2>1, <2>2
  <1>3. ASSUME NEW j \in {journal, file}
        PROVE  Fine(back, active, j, entry, Carried) =>
                  Fine(back, active, j, entry, Carried')
    <2>1. CASE Carried' \subseteq Carried
      BY <2>1, FineShrinks
    <2>2. CASE Carried' \subseteq Carried \cup {entry} /\ entry \in Carried'
      <3>1. entry \in Sessions /\ back[entry] = "issued"
        BY <1>1, <2>2
      <3>2. Sound(back, active, j, entry, Carried \cup {entry})
        BY <3>1, OpenIsSound, SoundTop
      <3>3. QED
        BY <2>2, <3>2, FineShrinks DEF Fine
    <2>3. QED
      BY <1>1, <2>1, <2>2
  <1>4. Pending' \subseteq Pending
    BY <1>1 DEF Pending
  <1>5. SavedInv'
    BY <1>2 DEF ChainInv, SavedInv, SavedOK, Lost
  <1>6. EntryInv'
    BY <1>3 DEF ChainInv, EntryInv, EntryOK, Lost
  <1>7. FlowInv'
    <2>1. ASSUME NEW f \in Sessions, FlowOK(f)
          PROVE  FlowOK(f)'
      BY <1>4, <2>1, FineShrinks DEF FlowOK, FlowsStay
    <2>2. QED
      BY <2>1 DEF ChainInv, FlowInv
  <1>8. AnchorInv'
    <2>1. CASE Committable' \subseteq Committable
      <3>1. ASSUME NEW s \in Committable, NEW t \in Carried'
            PROVE  ~Earlier(t, s)
        <4>1. CASE t \in Carried
          BY <4>1 DEF ChainInv, AnchorInv
        <4>2. CASE t \notin Carried
          BY <1>1, <4>2, OpenIsSound
        <4>3. QED
          BY <4>1, <4>2
      <3>2. QED
        BY <2>1, <3>1 DEF AnchorInv
    <2>2. CASE Sends /\ Committable' \subseteq Committable \cup {saved} /\ saved \in Committable'
      <3>1. saved \in Sessions /\ back[saved] = "issued"
        BY <1>1, <2>2
      <3>2. saved \in Journaled(journal) /\ journal[saved].pending = None
        BY <2>2, <3>1, OpenIsSound, SoundTop DEF Sends, TaskInv
      <3>3. PICK K \in SUBSET Journaled(journal) :
                Chain(back, active, journal, saved, Committable, K)
        BY <3>1, OpenIsSound DEF Sound
      <3>4. Committable \subseteq {saved}
        BY <3>1, <3>2, <3>3, ChainAlone
      <3>5. Carried' \subseteq {saved}
        BY <2>2, <3>4 DEF Carried, Sends
      <3>6. QED
        BY <1>1, <3>5, EarlierOrder DEF AnchorInv
    <2>3. QED
      BY <1>1, <2>1, <2>2
  <1>9. QED
    BY <1>5, <1>6, <1>7, <1>8 DEF ChainInv

(* What the task may still commit does not grow.                           *)
LEMMA AnchorsShrink ==
    ASSUME UNCHANGED back, loose' \subseteq loose \cup Underway,
           task' = task \/ task'.pc \notin {"poll", "commit"}
    PROVE  /\ Committable' \subseteq Committable /\ Carried' \subseteq Carried
           /\ \A s \in Carried' : back[s] = "issued"
  BY DEF Committable, Carried, Underway

(* What is fine stays fine when nothing about it changes.                  *)
LEMMA OKStays ==
    ASSUME UNCHANGED <<back, active>>, Committable' \subseteq Committable,
           Carried' \subseteq Carried, NEW j
    PROVE  /\ saved' = saved /\ SavedOK(j) =>
                 \/ Fine(back', active', j, saved', Committable')
                 \/ Lost(back', j, saved) /\ (leaving \/ entry # saved)
           /\ entry' = entry /\ EntryOK(j) =>
                 \/ Fine(back', active', j, entry', Carried')
                 \/ Lost(back', j, entry) /\ leaving
           /\ EntryOK(j) =>
                 \/ Fine(back', active', j, entry, Committable')
                 \/ Lost(back', j, entry) /\ leaving
  <1>1. Committable' \subseteq Carried
    BY DEF Committable, Carried
  <1>2. QED
    BY <1>1, FineShrinks DEF SavedOK, EntryOK

(* HA writes the entry.                                                    *)
LEMMA ChainAtSave == ChainInv /\ Save => ChainInv'
  <1> SUFFICES ASSUME ChainInv, Save PROVE ChainInv'
    OBVIOUS
  <1>1. /\ UNCHANGED <<back, active, loose, flow, gone, journal, file, entry, leaving, task>>
        /\ saved' = entry
    BY DEF Save, backend, flows, books
  <1>2. /\ Committable' = Committable /\ Carried' = Carried /\ Pending' = Pending
    BY <1>1 DEF Committable, Carried, Pending
  <1>3. SavedInv' /\ EntryInv'
    BY <1>1, <1>2, OKStays DEF ChainInv, SavedInv, EntryInv, SavedOK, EntryOK
  <1>4. FlowInv' /\ AnchorInv'
    BY <1>1, <1>2 DEF ChainInv, FlowInv, FlowOK, AnchorInv
  <1>5. QED
    BY <1>3, <1>4 DEF ChainInv

(* Core drops the entry.                                                   *)
LEMMA ChainAtDrop == ChainInv /\ Drop => ChainInv'
  <1> SUFFICES ASSUME ChainInv, Drop PROVE ChainInv'
    OBVIOUS
  <1>1. /\ UNCHANGED <<back, active, loose, flow, gone, journal, file, saved, task>>
        /\ entry' = "gone" /\ leaving
    BY DEF Drop, backend, flows, books
  <1>2. Committable' = Committable /\ Carried' = Carried
    BY <1>1 DEF Committable, Carried
  <1>3. EntryInv'
    BY <1>1 DEF EntryInv, EntryOK, Fine
  <1>4. SavedInv'
    BY <1>1, <1>2, SessionsAreFresh DEF ChainInv, SavedInv, SavedOK, Lost, Unsaved
  <1>5. FlowInv' /\ AnchorInv'
    BY <1>1, <1>2 DEF ChainInv, FlowInv, AnchorInv
  <1>6. QED
    BY <1>3, <1>4, <1>5 DEF ChainInv

(* A ready candidate gets into the entry.                                  *)
LEMMA ChainAtPairing ==
    ASSUME PairInv, ChainInv, FiledInv, FreshInv, SlotInv, LeavingInv,
           NEW s \in Sessions, Repair(s) \/ AddEntry(s)
    PROVE  ChainInv' /\ FiledInv'
  <1>t. TypeOK
    BY DEF PairInv, TypeInv
  <1>1. /\ UNCHANGED <<back, active, loose, gone, journal, file, saved, leaving>>
        /\ entry' = s /\ task' \in {task, NewTask} /\ flow[s] = "ready"
        /\ flow' \in {[flow EXCEPT ![s] = "closed"], [flow EXCEPT ![s] = "adding"]}
    BY DEF Repair, AddEntry, backend, books
  <1>2. ~leaving /\ entry # "gone"
    BY SessionsAreFresh DEF Repair, AddEntry, LeavingInv, Present, Connections, Settled, Unsaved
  <1>3. Committable' \subseteq Committable /\ Carried' \subseteq Carried
    BY <1>1, AnchorsShrink DEF NewTask, NoTask
  <1>4. Fresh(s)
    BY <1>1 DEF FreshInv, Early
  <1>5. /\ Sound(back, active, journal, s, Pending)
        /\ Sound(back, active, file, s, Pending)
    BY <1>1, <1>2 DEF ChainInv, FlowInv, FlowOK
  <1>6. EntryInv'
    <2>1. Carried' \subseteq Pending
      BY <1>3 DEF Pending
    <2>2. QED
      BY <1>1, <1>5, <2>1, FineShrinks DEF EntryInv, EntryOK, Fine
  <1>7. SavedInv'
    <2>1. ASSUME NEW j, SavedOK(j)
          PROVE  \/ Fine(back', active', j, saved', Committable')
                 \/ Lost(back', j, saved') /\ (leaving' \/ entry' # saved')
      BY <1>1, <1>3, <1>4, <2>1, OKStays DEF Fresh
    <2>2. QED
      BY <1>1, <2>1 DEF ChainInv, SavedInv, SavedOK
  <1>8. FlowInv'
    <2>1. ASSUME NEW f \in Sessions, f # s, flow[f] \in {"recording", "ready"}
          PROVE  f \in gone /\ flow[f] = "recording"
      BY <1>1, <2>1 DEF SlotInv, Alive
    <2>2. \A f \in Sessions : FlowOK(f)'
      BY <1>t, <1>1, <2>1 DEF FlowOK, TypeOK
    <2>3. QED
      BY <2>2 DEF FlowInv
  <1>9. AnchorInv'
    BY <1>3 DEF ChainInv, AnchorInv
  <1>10. FiledInv'
    BY <1>1, <1>5, SoundTop DEF FiledInv
  <1>11. QED
    BY <1>6, <1>7, <1>8, <1>9, <1>10 DEF ChainInv

(* A restart that does not meet the saved entry stranded.                  *)
LEMMA ChainAtCrash ==
    ASSUME PairInv, ChainInv, Crash, ~struck'
    PROVE  ChainInv' /\ FiledInv'
  <1>1. /\ UNCHANGED <<back, active, file, saved>> /\ loose' = loose \cup Underway
        /\ journal' = file /\ entry' = saved /\ leaving' = FALSE /\ ~Stranded
        /\ task' \in {NoTask, NewTask}
        /\ \A f \in Sessions : flow'[f] \in {"idle", "closed"}
    BY DEF Crash, Scheduled, PairInv, TypeInv, TypeOK
  <1>2. /\ Committable' \subseteq Committable /\ Carried' \subseteq Committable
        /\ Committable' \subseteq Carried
    BY <1>1 DEF Committable, Carried, Underway, NoTask, NewTask
  <1>3. Fine(back, active, file, saved, Committable)
    BY <1>1 DEF ChainInv, SavedInv, SavedOK, Lost, Stranded
  <1>4. /\ Fine(back, active, file, saved, Committable')
        /\ Fine(back, active, file, saved, Carried')
    BY <1>2, <1>3, FineShrinks
  <1>5. SavedInv' /\ EntryInv'
    BY <1>1, <1>4 DEF SavedInv, SavedOK, EntryInv, EntryOK
  <1>6. FlowInv'
    BY <1>1 DEF FlowInv, FlowOK
  <1>7. AnchorInv'
    BY <1>2 DEF ChainInv, AnchorInv, Carried
  <1>8. FiledInv'
    BY <1>1 DEF FiledInv
  <1>9. QED
    BY <1>5, <1>6, <1>7, <1>8 DEF ChainInv

(* A refused candidate that waited for nothing is on top of its chain      *)
(* alone: what it replaced is the connection in use, and no commit is left.*)
LEMMA RefusedAlone ==
    ASSUME PairInv, ChainInv, VerdictInv, TaskInv, LeavingInv,
           task.pc = "refused", entry = task.session
    PROVE  /\ entry \in Journaled(journal) /\ journal[entry] = task.marker
           /\ task.marker.previous = active \/ active = None
           /\ Carried = {} /\ Committable = {} /\ ~leaving /\ back[entry] = "dead"
  <1>1. /\ entry \in Journaled(journal) /\ task.marker.pending = None
        /\ journal[entry] = task.marker /\ back[entry] = "dead" /\ ~leaving
        /\ entry \in Sessions
    BY DEF TaskInv, VerdictInv, LeavingInv, Journaled
  <1>2. entry # "gone"
    BY <1>1, SessionsAreFresh DEF Unsaved
  <1>3. Sound(back, active, journal, entry, Carried)
    BY <1>1, <1>2 DEF ChainInv, EntryInv, EntryOK, Fine, Settles, Lost
  <1>4. PICK K \in SUBSET Journaled(journal) : Chain(back, active, journal, entry, Carried, K)
    BY <1>3 DEF Sound
  <1>5. Carried \subseteq {entry} /\ (journal[entry].previous = active \/ active = None)
    BY <1>1, <1>4, ChainAlone
  <1>6. Carried = {} /\ Committable \subseteq Carried
    BY <1>1, <1>5, AnchorTypes
  <1>7. QED
    BY <1>1, <1>5, <1>6

(* A refusal restores the previous connection.                             *)
LEMMA ChainAtRefused ==
    ASSUME PairInv, ChainInv, FiledInv, BackInv, VerdictInv, TaskInv, LeavingInv, LinkInv,
           AcrossInv, Refused
    PROVE  ChainInv' /\ FiledInv'
  <1>t. TypeOK /\ MarkersInv
    BY DEF PairInv, TypeInv
  <1>1. /\ UNCHANGED <<back, active, loose, flow, gone, journal, file, saved, leaving>>
        /\ task.pc = "refused" /\ task.marker.previous # None /\ task' = NoTask
    BY DEF Refused, NothingToRestore, backend, flows, books
  <1>2. /\ Committable' \subseteq Committable /\ Carried' \subseteq Carried
        /\ \A s \in Carried' : back[s] = "issued"
    BY <1>1, AnchorsShrink DEF NoTask
  <1>3. CASE entry # task.session
    <2>1. UNCHANGED entry
      BY <1>3 DEF Refused, Restores
    <2>2. Pending' \subseteq Pending
      BY <1>1, <1>2, <2>1 DEF Pending
    <2>3. SavedInv' /\ EntryInv'
      BY <1>1, <1>2, <2>1, OKStays DEF ChainInv, SavedInv, EntryInv, SavedOK, EntryOK
    <2>4. \A f \in Sessions : FlowOK(f) => FlowOK(f)'
      BY <1>1, <2>2, FineShrinks DEF FlowOK
    <2>5. FlowInv' /\ AnchorInv' /\ FiledInv'
      BY <1>1, <1>2, <2>1, <2>4 DEF ChainInv, FlowInv, AnchorInv, FiledInv
    <2>6. QED
      BY <2>3, <2>5 DEF ChainInv
  <1>4. CASE entry = task.session
    <2> DEFINE p == task.marker.previous
    <2>1. entry' = p
      BY <1>4 DEF Refused, Restores
    <2>2. /\ entry \in Journaled(journal) /\ journal[entry] = task.marker
          /\ p = active \/ active = None
          /\ Carried = {} /\ Committable = {} /\ ~leaving /\ back[entry] = "dead"
      BY <1>1, <1>4, RefusedAlone
    <2>3. p \notin Journaled(journal) /\ entry \in Journaled(file)
      BY <2>2 DEF LinkInv, PreviousOK, FiledInv
    <2>4. /\ p \in Journaled(file) => back[p] = "committed"
          /\ p \in Sessions => Decided(p)
      BY <1>t, <2>2, <2>3 DEF AcrossInv, MarkersInv, MarkerFits
    <2> HIDE DEF p
    <2>5. Carried' = {} /\ Committable' = {}
      BY <1>2, <2>2
    <2>6. Fine(back, active, journal, p, {})
      BY <2>2, <2>3 DEF Fine, Settles
    <2>7. Fine(back, active, file, p, {})
      <3>1. CASE p \notin Journaled(file)
        BY <2>2, <3>1 DEF Fine, Settles
      <3>2. CASE p \in Journaled(file)
        <4>1. p \in Sessions /\ back[p] = "committed" /\ p = active
          BY <2>2, <2>4, <3>2 DEF BackInv, Journaled
        <4>2. Chain(back, active, file, p, {}, {p})
          BY <4>1 DEF Chain
        <4>3. QED
          BY <3>2, <4>2 DEF Fine, Sound
      <3>3. QED
        BY <3>1, <3>2
    <2>8. EntryInv'
      BY <1>1, <2>1, <2>5, <2>6, <2>7 DEF EntryInv, EntryOK
    <2>9. SavedInv'
      <3>1. ASSUME NEW j, SavedOK(j)
            PROVE  \/ Fine(back', active', j, saved', Committable')
                   \/ Lost(back', j, saved') /\ (leaving' \/ entry' # saved')
        <4>1. CASE Fine(back, active, j, saved, Committable)
          BY <1>1, <2>2, <2>5, <4>1
        <4>2. CASE Lost(back, j, saved) /\ p # saved
          BY <1>1, <2>1, <4>2
        <4>3. CASE Lost(back, j, saved) /\ p = saved
          <5>1. active = None
            BY <2>2, <4>3 DEF Lost, BackInv
          <5>2. QED
            BY <1>1, <2>5, <4>3, <5>1 DEF Lost, Fine, Settles
        <4>4. QED
          BY <3>1, <4>1, <4>2, <4>3 DEF SavedOK
      <3>2. QED
        BY <1>1, <3>1 DEF ChainInv, SavedInv, SavedOK
    <2>10. Pending' \subseteq Pending
      BY <1>1, <2>1, <2>4, <2>5 DEF Pending, Decided
    <2>11. \A f \in Sessions : FlowOK(f) => FlowOK(f)'
      BY <1>1, <2>10, FineShrinks DEF FlowOK
    <2>12. entry # "gone"
      BY <2>2, SessionsAreFresh DEF Journaled, Unsaved
    <2>13. FlowInv' /\ AnchorInv' /\ FiledInv'
      BY <1>1, <2>1, <2>2, <2>3, <2>5, <2>11, <2>12 DEF ChainInv, FlowInv, AnchorInv, FiledInv
    <2>14. QED
      BY <2>8, <2>9, <2>13 DEF ChainInv
  <1>5. QED
    BY <1>3, <1>4

(* A candidate is recorded on top of what the entry carries.               *)
LEMMA ChainAtRecord ==
    ASSUME PairInv, ChainInv, FiledInv, FreshInv, OrderInv, NEW x \in Sessions, Record(x)
    PROVE  ChainInv' /\ FiledInv'
  <1>t. TypeOK
    BY DEF PairInv, TypeInv
  <1>1. /\ UNCHANGED <<back, active, loose, gone, file, entry, saved, leaving, task>>
        /\ flow[x] = "exchanged" /\ flow' = [flow EXCEPT ![x] = "recording"]
    BY DEF Record, backend, core
  <1>2. /\ Fresh(x) /\ x \notin Journaled(journal) /\ x \notin {entry, saved}
        /\ back[x] # "committed"
    BY <1>1 DEF FreshInv, Early, Fresh
  <1>3. /\ Journaled(journal') = Journaled(journal) \cup {x}
        /\ \A t \in Sessions : t # x => journal'[t] = journal[t]
    BY <1>t, RecordFields
  <1>4. Committable' = Committable /\ Carried' = Carried /\ Pending' = Pending
    BY <1>1 DEF Committable, Carried, Pending
  <1>5. ASSUME NEW c, c # x, NEW A
        PROVE  /\ Sound(back, active, journal, c, A) => Sound(back, active, journal', c, A)
               /\ Fine(back, active, journal, c, A) => Fine(back, active, journal', c, A)
               /\ Lost(back, journal, c) => Lost(back, journal', c)
    <2>1. \A t \in Journaled(journal) : t \in Journaled(journal') /\ journal'[t] = journal[t]
      BY <1>2, <1>3 DEF Journaled
    <2>2. Sound(back, active, journal, c, A) => Sound(back, active, journal', c, A)
      BY <2>1, SoundCarriesOver
    <2>3. QED
      BY <1>3, <1>5, <2>2 DEF Fine, Settles, Lost
  <1>6. SavedInv' /\ EntryInv'
    BY <1>1, <1>2, <1>4, <1>5 DEF ChainInv, SavedInv, SavedOK, EntryInv, EntryOK
  <1>7. ASSUME ~leaving, entry # "gone"
        PROVE  Sound(back, active, journal', x, Pending)
    <2>1. \/ Settles(active, journal, entry, Carried)
          \/ Sound(back, active, journal, entry, Carried)
      BY <1>7 DEF ChainInv, EntryInv, EntryOK, Fine
    <2>2. entry \in Journaled(journal) => entry \in Sessions
      BY DEF Journaled
    <2>3. x \in Journaled(journal')
      BY <1>3
    <2>4. CASE entry \in Journaled(journal)
      <3>1. PICK K \in SUBSET Journaled(journal) :
                Chain(back, active, journal, entry, Carried, K)
        BY <2>1, <2>4 DEF Settles, Sound
      <3>2. \A t \in K : Earlier(t, x)
        BY <1>1, <3>1 DEF OrderInv
      <3>3. journal'[x].pending = entry /\ entry # None /\ \A t \in K : journal'[t] = journal[t]
        BY <1>t, <1>2, <1>3, <2>2, <2>4, <3>1, RecordFields, NoneIsNoSession
        DEF Connections, Journaled
      <3>4. Chain(back, active, journal', x, Carried \cup {entry}, K \cup {x})
        BY <1>2, <3>1, <3>2, <3>3, ChainExtends
      <3>5. Sound(back, active, journal', x, Carried \cup {entry})
        BY <1>3, <3>4 DEF Sound
      <3>6. Pending \subseteq Carried \cup {entry}
        BY DEF Pending
      <3>7. QED
        BY <3>5, <3>6, FineShrinks
    <2>5. CASE entry \notin Journaled(journal)
      <3>1. (entry = active \/ active = None) /\ Carried = {}
        BY <2>1, <2>5, SoundTop DEF Settles
      <3>2. Pending = {}
        BY <2>5, <3>1 DEF Pending, PairInv, JournaledBeforeSaved
      <3>3. journal'[x].pending = None /\ (journal'[x].previous = active \/ active = None)
        BY <1>t, <2>5, <3>1, RecordFields DEF TypeOK
      <3>4. Chain(back, active, journal', x, {}, {x})
        BY <1>2, <3>3 DEF Chain, Linked
      <3>5. QED
        BY <2>3, <3>2, <3>4 DEF Sound
    <2>6. QED
      BY <2>4, <2>5
  <1>8. FlowInv'
    <2>1. ASSUME NEW f \in Sessions, FlowOK(f), ~leaving, entry # "gone"
          PROVE  FlowOK(f)'
      <3>1. CASE f = x
        BY <1>t, <1>1, <1>4, <1>7, <2>1, <3>1 DEF FlowOK, TypeOK
      <3>2. CASE f # x
        BY <1>t, <1>1, <1>4, <1>5, <2>1, <3>2 DEF FlowOK, TypeOK
      <3>3. QED
        BY <3>1, <3>2
    <2>2. QED
      BY <1>1, <2>1 DEF ChainInv, FlowInv
  <1>9. AnchorInv' /\ FiledInv'
    BY <1>1, <1>2, <1>3, <1>4 DEF ChainInv, AnchorInv, FiledInv
  <1>10. QED
    BY <1>6, <1>8, <1>9 DEF ChainInv

(* A candidate is resolved as the backend has decided.                     *)
LEMMA ChainAtResolve ==
    ASSUME PairInv, ChainInv, FiledInv, FreshInv, SlotInv, VerdictInv, TaskInv, PassInv,
           LeavingInv, NEW u \in Sessions, ResolvesTruly(u)
    PROVE  ChainInv' /\ FiledInv'
  <1>t. TypeOK /\ MarkersInv
    BY DEF PairInv, TypeInv
  <1>1. /\ UNCHANGED <<back, active, loose, flow, gone, file, entry, saved, leaving>>
        /\ u \in Journaled(journal) /\ Decided(u) /\ Settling(u)
        /\ journal' = Resolved(journal, u, back[u] = "committed")
    BY DEF ResolvesTruly, backend, flows, core
  <1>2. /\ Journaled(journal') \subseteq Journaled(journal) /\ u \notin Journaled(journal')
    <2>1. \A t \in Sessions : t \in Journaled(journal') <=> t \in Journaled(journal) /\ t # u
      BY <1>t, <1>1, ResolvedKeeps
    <2>2. QED
      BY <2>1 DEF Journaled
  <1>3. /\ Committable' \subseteq Committable /\ Carried' \subseteq Carried
        /\ \A s \in Carried' : back[s] = "issued"
    BY <1>1, AnchorsShrink DEF Settling
  <1>4. /\ Committable' \subseteq Carried' /\ Pending' \subseteq Pending
        /\ \A s \in Pending' : back[s] = "issued"
    BY <1>1, <1>3 DEF Committable, Carried, Pending
  <1>5. ASSUME NEW c, c # u, NEW A, \A s \in A : back[s] = "issued"
        PROVE  /\ Sound(back, active, journal, c, A) => Sound(back, active, journal', c, A)
               /\ Fine(back, active, journal, c, A) => Fine(back, active, journal', c, A)
    <2>1. Sound(back, active, journal, c, A) => Sound(back, active, journal', c, A)
      BY <1>t, <1>1, <1>5, ChainResolves
    <2>2. QED
      BY <1>2, <2>1 DEF Fine, Settles
  <1>6. \A c : Lost(back, journal, c) => Lost(back, journal', c)
    BY <1>2 DEF Lost
  <1>7. ASSUME NEW A, \A s \in A : back[s] = "issued", Fine(back, active, journal, u, A),
               back[u] = "committed"
        PROVE  Fine(back, active, journal', u, A)
    <2>1. u # "gone" /\ ~Settles(active, journal, u, A)
      BY <1>1, SessionsAreFresh DEF Unsaved, Settles
    <2>2. PICK K \in SUBSET Journaled(journal) : Chain(back, active, journal, u, A, K)
      BY <1>7, <2>1 DEF Fine, Sound
    <2>3. u = active /\ A = {}
      BY <1>7, <2>2, ChainTop
    <2>4. QED
      BY <1>2, <2>3 DEF Fine, Settles
  <1>8. ASSUME back[u] = "dead", entry = u, ~leaving
        PROVE  /\ Settles(active, journal', u, Carried')
               /\ Settles(active, journal', u, Committable')
    <2>1. ASSUME NEW p \in Passes, pass[p].pc = "answered", pass[p].cur = u
          PROVE  FALSE
      BY <1>1, <1>8, <2>1 DEF PassInv
    <2>2. task.pc = "refused" /\ NothingToRestore /\ entry = task.session
      BY <1>1, <1>8, <2>1 DEF Settling, VerdictInv
    <2>3. active = None /\ Carried = {}
      BY <2>2, RefusedAlone DEF NothingToRestore
    <2>4. QED
      BY <1>2, <1>3, <1>4, <2>3 DEF Settles
  <1>9. ASSUME NEW c, NEW A, NEW A2 \in SUBSET A, \A s \in A2 : back[s] = "issued",
               Fine(back, active, journal, c, A)
        PROVE  \/ Fine(back, active, journal', c, A2)
               \/ c = u /\ back[u] = "dead" /\ Lost(back, journal', c)
    <2>1. Fine(back, active, journal, c, A2)
      BY <1>9, FineShrinks
    <2>2. CASE c # u
      BY <1>5, <1>9, <2>1, <2>2
    <2>3. CASE c = u /\ back[u] = "committed"
      BY <1>7, <1>9, <2>1, <2>3
    <2>4. CASE c = u /\ back[u] = "dead"
      BY <1>2, <2>4 DEF Lost
    <2>5. QED
      BY <1>1, <2>2, <2>3, <2>4 DEF Decided
  <1>10. SavedOK(journal)'
    <2>1. \/ Fine(back, active, journal', saved, Committable')
          \/ saved = u /\ back[u] = "dead" /\ Lost(back, journal', saved)
          \/ Lost(back, journal', saved) /\ (leaving \/ entry # saved)
      BY <1>3, <1>4, <1>6, <1>9 DEF ChainInv, SavedInv, SavedOK
    <2>2. QED
      BY <1>1, <1>8, <2>1 DEF SavedOK, Fine
  <1>11. EntryOK(journal)'
    <2>1. \/ Fine(back, active, journal', entry, Carried')
          \/ entry = u /\ back[u] = "dead" /\ Lost(back, journal', entry)
          \/ Lost(back, journal', entry) /\ leaving
      BY <1>3, <1>4, <1>6, <1>9 DEF ChainInv, EntryInv, EntryOK
    <2>2. QED
      BY <1>1, <1>8, <2>1 DEF EntryOK, Fine
  <1>12. SavedOK(file)' /\ EntryOK(file)'
    BY <1>1, <1>3, OKStays DEF ChainInv, SavedInv, EntryInv, SavedOK, EntryOK
  <1>13. FlowInv'
    <2>1. ASSUME NEW f \in Sessions, FlowOK(f),
                 flow[f] = "ready" \/ (flow[f] = "recording" /\ f \notin gone)
          PROVE  f # u
      <3>1. Fresh(f) /\ Alive(f)
        BY <2>1 DEF FreshInv, SlotInv, Early, Alive
      <3>2. QED
        BY <1>1, <3>1 DEF Settling, PassInv, Fresh
    <2>2. ASSUME NEW f \in Sessions, FlowOK(f)
          PROVE  FlowOK(f)'
      <3>1. Sound(back, active, journal, f, Pending) /\ f # u =>
                Sound(back, active, journal', f, Pending')
        BY <1>4, <1>5, FineShrinks
      <3>2. Sound(back, active, file, f, Pending) => Sound(back, active, file, f, Pending')
        BY <1>4, FineShrinks
      <3>3. QED
        BY <1>1, <2>1, <2>2, <3>1, <3>2 DEF FlowOK
    <2>3. QED
      BY <1>1, <2>2 DEF ChainInv, FlowInv
  <1>14. AnchorInv' /\ FiledInv'
    BY <1>1, <1>2, <1>3 DEF ChainInv, AnchorInv, FiledInv
  <1>15. QED
    BY <1>10, <1>11, <1>12, <1>13, <1>14 DEF ChainInv, SavedInv, EntryInv

(* Flows get no further but by saving the journal.                         *)
LEMMA StepFlows ==
    ASSUME TypeOK, FlowCases, ~Crash, \A x \in Sessions : ~Record(x)
    PROVE  FlowsStay
  <1>1. CASE UNCHANGED flows
    BY <1>1 DEF flows, FlowsStay
  <1>2. ASSUME NEW s \in Sessions, Pairs(s)
        PROVE  FlowsStay
    BY <1>2 DEF Pairs, Exchange, ExchangeWasted, FlowStep, Recorded, RecordFails, Added, Abort,
                Repair, AddEntry, FlowsStay, TypeOK, Unrecorded
  <1>3. QED
    BY <1>1, <1>2 DEF FlowCases

(* The step that preserves the rest of the invariant, part by part.        *)
LEMMA StepSide == PairInv /\ SideInv /\ [Next]_vars => SideInv'
  <1> SUFFICES ASSUME PairInv, SideInv, [Next]_vars PROVE SideInv'
    OBVIOUS
  <1>0. TypeInv /\ OutcomeInv
    BY DEF PairInv
  <1>1. /\ Turns /\ TaskTurns /\ PassTurns /\ TaskMoves
        /\ FlowCases /\ BookCases /\ EntryCases
    BY <1>0, StepTurns, StepWorkTurns, StepMoves, StepCases DEF SideInv, Moves
  <1>2. BackInv' /\ VerdictInv'
    BY StepBackInv, StepVerdict DEF SideInv
  <1>3. FreshInv' /\ OrderInv' /\ SlotInv'
    BY <1>0, <1>1, StepFresh, StepOrder, StepSlot DEF SideInv
  <1>4. LinkInv' /\ AcrossInv'
    BY <1>1, StepLink, StepAcross DEF SideInv
  <1>5. LeavingInv' /\ TaskInv' /\ PassInv'
    BY <1>0, <1>1, StepLeaving, StepTaskInv, StepPassInv DEF SideInv
  <1>6. QED
    BY <1>2, <1>3, <1>4, <1>5 DEF SideInv

(* The step that preserves the chains, one case per step that matters.     *)
LEMMA StepKept == PairInv /\ SideInv /\ KeptInv /\ [Next]_vars => KeptInv'
  <1> SUFFICES ASSUME PairInv, SideInv, KeptInv, [Next]_vars, ~struck'
               PROVE  ChainInv' /\ FiledInv'
    BY DEF KeptInv
  <1>0. TypeInv /\ OutcomeInv /\ TypeOK
    BY DEF PairInv, TypeInv
  <1>1. /\ Turns /\ TaskTurns /\ FlowCases /\ BookCases /\ EntryCases
    BY <1>0, StepTurns, StepWorkTurns, StepCases DEF SideInv
  <1>2. struck' = struck \/ Crash
    BY DEF Next, vars, past, Expire, LateCommit, Exchange, ExchangeWasted, FlowStep, Record,
           Recorded, RecordFails, Added, Abort, Repair, AddEntry, Save, Reload, Remove, Drop,
           PassProceeds, PassLists, PassResolves, PassSaved, CancelAnswered, CancelUnanswered,
           PassSaveRaises, TaskProceeds, TaskStarts, TaskReads, TaskPolls, TaskResolves,
           TaskSaved, Refused, CommitAnswered, CommitUnanswered, TaskSaveRaises
  <1>3. ChainInv /\ FiledInv
    BY <1>2 DEF Crash, KeptInv
  <1>4. CASE Crash
    BY <1>3, <1>4, ChainAtCrash
  <1>5. ASSUME NEW s \in Sessions, Record(s) \/ ResolvesTruly(s) \/ Repair(s) \/ AddEntry(s)
        PROVE  ChainInv' /\ FiledInv'
    BY <1>3, <1>5, ChainAtRecord, ChainAtResolve, ChainAtPairing DEF SideInv
  <1>6. CASE Save
    BY <1>3, <1>6, ChainAtSave DEF Save, books, FiledInv
  <1>7. CASE Drop
    <2>1. "gone" \notin Sessions
      BY SessionsAreFresh DEF Unsaved
    <2>2. QED
      BY <1>3, <1>7, <2>1, ChainAtDrop DEF Drop, FiledInv, Journaled
  <1>8. CASE Refused
    BY <1>3, <1>8, ChainAtRefused DEF SideInv
  <1>9. CASE /\ ~Crash /\ ~Save /\ ~Drop /\ ~Refused
             /\ \A s \in Sessions : ~(Record(s) \/ ResolvesTruly(s) \/ Repair(s) \/ AddEntry(s))
    <2>1. UNCHANGED journal /\ file' \in {file, journal}
      BY <1>1, <1>9 DEF BookCases
    <2>2. UNCHANGED <<entry, saved>> /\ (leaving => leaving')
      BY <1>1, <1>9 DEF EntryCases, Remove
    <2>3. FlowsStay
      BY <1>0, <1>1, <1>9, StepFlows
    <2>4. FiledInv'
      BY <1>3, <2>1, <2>2 DEF FiledInv
    <2>5. CASE UNCHANGED <<back, active>>
      BY <1>1, <1>3, <2>1, <2>2, <2>3, <2>4, <2>5, ChainAtRest DEF SideInv
    <2>6. ASSUME NEW s \in Sessions, Dies(s) \/ Commits(s) \/ Starts(s),
                 UNCHANGED <<journal, file, entry, saved, reload, leaving, gone, past>>
          PROVE  ChainInv'
      BY <1>1, <1>3, <2>6, ChainAtTurns DEF SideInv
    <2>7. QED
      BY <1>1, <2>4, <2>5, <2>6 DEF Turns
  <1>10. QED
    BY <1>4, <1>5, <1>6, <1>7, <1>8, <1>9

(* At first nothing is paired, and the entry uses the connection in use.   *)
LEMMA InitIInv == Init => IInv
  <1> SUFFICES ASSUME Init PROVE SideInv /\ ChainInv /\ FiledInv
    BY InitPairInv DEF IInv, KeptInv
  <1>t. PairInv
    BY InitPairInv
  <1>1. /\ entry \notin Sessions /\ saved = entry /\ entry \in {"absent"} \cup Settled
        /\ Journaled(journal) = {} /\ Journaled(file) = {} /\ file = journal
        /\ journal = [s \in Sessions |-> NoMarker]
    BY SessionsAreFresh DEF Init, Settled, Unsaved, Journaled
  <1>2. /\ active = (IF entry \in Connections THEN entry ELSE None)
        /\ back = [s \in Sessions |-> "none"] /\ loose = {}
        /\ flow = [s \in Sessions |-> "idle"] /\ gone = {} /\ ~leaving
        /\ task = NoTask /\ pass = [p \in Passes |-> NoPass]
    BY DEF Init, Present
  <1>3. NoTask.pc = "off" /\ NoTask.session = None /\ NoPass.pc = "off" /\ NoTask.marker = NoMarker
        /\ NoMarker.previous = None /\ NoMarker.pending = None
    BY DEF NoTask, NoPass, NoMarker
  <1>4. None \notin Sessions /\ entry # None
    BY NoneIsNoSession DEF Connections, Unsaved, Settled, Init
  <1>5. BackInv
    BY <1>1, <1>2, <1>4 DEF BackInv
  <1>6. VerdictInv /\ TaskInv /\ PassInv /\ LeavingInv
    BY <1>2, <1>3 DEF VerdictInv, TaskInv, PassInv, LeavingInv
  <1>7. FreshInv
    BY <1>1, <1>2, <1>3, <1>4 DEF FreshInv, Fresh, Avoids
  <1>8. OrderInv /\ SlotInv
    BY <1>1, <1>2 DEF OrderInv, SlotInv, Alive
  <1>9. LinkInv /\ AcrossInv /\ FiledInv
    BY <1>1, <1>3 DEF LinkInv, LinkOK, PreviousOK, AcrossInv, FiledInv
  <1>10. Carried = {} /\ Committable = {}
    BY <1>2 DEF Carried, Committable
  <1>11. Fine(back, active, journal, entry, {})
    <2>1. entry \in Connections \/ active = None
      BY <1>2
    <2>2. QED
      BY <1>1, <1>2, <2>1 DEF Fine, Settles
  <1>12. SavedInv /\ EntryInv
    BY <1>1, <1>10, <1>11 DEF SavedInv, SavedOK, EntryInv, EntryOK
  <1>13. FlowInv /\ AnchorInv
    BY <1>2, <1>10 DEF FlowInv, FlowOK, AnchorInv
  <1>14. QED
    BY <1>5, <1>6, <1>7, <1>8, <1>9, <1>12, <1>13 DEF SideInv, ChainInv

(* The invariant holds of every reachable state.                           *)
LEMMA IInvHolds == Spec => []IInv
  <1>1. PairInv /\ [Next]_vars => PairInv'
    BY StepType, StepKnown, StepRecord, StepMarkers DEF PairInv
  <1>2. IInv /\ [Next]_vars => IInv'
    BY <1>1, StepSide, StepKept DEF IInv
  <1>3. QED
    BY <1>2, InitIInv, PTL DEF Spec

-----------------------------------------------------------------------------
(* A saved entry that leads to the connection in use is recoverable.       *)
LEMMA FineIsRecoverable ==
    ASSUME IInv, ~struck, ~Stranded
    PROVE  \/ active = None \/ saved = "gone" \/ saved = active \/ Restorable(file, saved)
  <1>1. Fine(back, active, file, saved, Committable)
    BY DEF IInv, KeptInv, ChainInv, SavedInv, SavedOK, Lost, Stranded
  <1>2. CASE saved = "gone" \/ Settles(active, file, saved, Committable)
    BY <1>2 DEF Settles
  <1>3. ASSUME Sound(back, active, file, saved, Committable),
               file[saved].pending = None, back[saved] # "committed"
        PROVE  file[saved].previous = active \/ active = None
    <2>1. PICK K \in SUBSET Journaled(file) : Chain(back, active, file, saved, Committable, K)
      BY <1>3 DEF Sound
    <2>2. QED
      BY <1>3, <2>1, ChainAlone
  <1>4. Sound(back, active, file, saved, Committable) => saved \in Journaled(file)
    BY SoundTop
  <1>5. QED
    BY <1>1, <1>2, <1>3, <1>4 DEF Fine, Restorable

(* What is on disk leads HA back to the connection the backend honours.    *)
THEOREM RecoveryIsPossible == Spec => []Recoverable
  <1>1. IInv => Recoverable
    BY FineIsRecoverable DEF Recoverable, Unsaved
  <1>2. QED
    BY <1>1, IInvHolds, PTL

(* A refusal gives the entry the connection the backend kept, and never    *)
(* undoes a newer pairing (pairing_commit.py, _async_refused).             *)
THEOREM RefusalsRestore == Spec => RefusalRestoresWhatWasKept
  <1> DEFINE Restored(s) ==
          /\ entry = s /\ entry' # s /\ entry' \in Connections
          /\ flow' = flow /\ crashes' = crashes
          => \/ struck
             \/ back[s] = "dead" /\ (active = None \/ entry' = active)
  <1>1. ASSUME IInv, [Next]_vars, NEW s \in Sessions PROVE Restored(s)
    <2> SUFFICES ASSUME entry = s, entry' # s, entry' \in Connections,
                        flow' = flow, crashes' = crashes, ~struck
                 PROVE  back[s] = "dead" /\ (active = None \/ entry' = active)
      OBVIOUS
    <2>0. PairInv /\ TypeInv /\ OutcomeInv /\ TypeOK /\ SideInv /\ ChainInv
      BY <1>1 DEF IInv, KeptInv, PairInv, TypeInv
    <2>1. EntryCases
      BY <1>1, <2>0, StepCases DEF SideInv
    <2>2. \A x \in Sessions : ~Repair(x) /\ ~AddEntry(x)
      BY <2>0 DEF Repair, AddEntry, TypeOK
    <2>3. ~Drop
      BY SessionsAreFresh DEF Drop, Connections, Settled, Unsaved
    <2>4. ~Crash
      BY <2>0 DEF Crash, TypeOK
    <2>5. Refused
      BY <2>1, <2>2, <2>3, <2>4 DEF EntryCases, Save, Remove
    <2>6. task.pc = "refused" /\ entry = task.session /\ entry' = task.marker.previous
      BY <2>5 DEF Refused, Restores
    <2>7. QED
      BY <2>0, <2>6, RefusedAlone DEF SideInv
  <1>2. IInv /\ [Next]_vars => [\A s \in Sessions : Restored(s)]_vars
    BY <1>1
  <1>3. QED
    BY <1>2, IInvHolds, PTL DEF Spec, RefusalRestoresWhatWasKept

(* The backend switches only to a candidate that HA's file carries, or     *)
(* carried until a newer one that waits for it, or a removal, was saved    *)
(* (pairing_commit.py, _async_entry_saved before the commit request).      *)
THEOREM BackendFollowsDisk == Spec => SwitchesOnlyToSaved
  <1> DEFINE Follows ==
          active' # active =>
          \/ saved = active'
          \/ {saved, active'} \subseteq Journaled(file) /\ file[saved].pending # None
          \/ saved = "gone" \/ Stranded \/ struck
  <1>1. ASSUME IInv, [Next]_vars PROVE Follows
    <2> SUFFICES ASSUME active' # active, saved # active', saved # "gone", ~Stranded, ~struck
                 PROVE  {saved, active'} \subseteq Journaled(file) /\ file[saved].pending # None
      OBVIOUS
    <2>0. PairInv /\ TypeInv /\ ChainInv
      BY <1>1 DEF IInv, KeptInv, PairInv
    <2>1. PICK s \in Sessions : Commits(s)
      BY <1>1, <2>0, StepTurns DEF Turns, Dies, Starts
    <2>2. s \in Committable /\ active' = s
      BY <2>1 DEF Commits
    <2>3. Sound(back, active, file, saved, Committable)
      BY <2>0, <2>2 DEF ChainInv, SavedInv, SavedOK, Lost, Stranded, Fine, Settles
    <2>4. PICK K \in SUBSET Journaled(file) : Chain(back, active, file, saved, Committable, K)
      BY <2>3 DEF Sound
    <2>5. saved \in K /\ s \in K /\ Earlier(s, saved) /\ back[saved] # "committed"
      BY <2>2, <2>4 DEF Chain, Overtaken
    <2>6. file[saved].pending # None
      BY <2>2, <2>4, <2>5, ChainAlone
    <2>7. QED
      BY <2>2, <2>5, <2>6
  <1>2. IInv /\ [Next]_vars => [Follows]_vars
    BY <1>1
  <1>3. QED
    BY <1>2, IInvHolds, PTL DEF Spec, SwitchesOnlyToSaved
=============================================================================

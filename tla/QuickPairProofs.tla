--------------------------- MODULE QuickPairProofs ---------------------------
(***************************************************************************)
(* Proofs about QuickPair for any number of flows and visits, any retries  *)
(* and any requests cut off.                                               *)
(***************************************************************************)
EXTENDS QuickPair, TLAPS

At(v, f, pcs) == visit[v].flow = f /\ visit[v].pc \in pcs

(* A visit belongs to a flow, which has at most one callback in flight and *)
(* asks for at most one session at a time.                                 *)
VisitInv ==
    /\ \A v \in Visits : visit[v].pc = "off" => visit[v] = NoVisit
    /\ \A v \in Visits : visit[v].pc # "off" => visit[v].flow \in Flows
    /\ \A v \in Visits : visit[v].pc \in {"exchanging", "journaling"} =>
                            visit[v].kind \in Callbacks
    /\ \A u, v \in Visits :
          /\ visit[u].pc # "off" /\ visit[v].pc # "off" /\ visit[u].flow = visit[v].flow
          /\ \/ visit[u].kind \in Callbacks /\ visit[v].kind \in Callbacks
             \/ visit[u].pc = "starting" /\ visit[v].pc = "starting"
          => u = v

(* What is left of a flow that was removed is not told from any other.     *)
GoneInv == \A f \in Flows : ~InProgress(f) => flow[f] = Over

(* A flow that left its form, or that a visit works on, has asked for a    *)
(* session, and nobody has taken its slot over while it is in progress.    *)
Engaged(f) == \/ flow[f].step \in {"external", "done"}
              \/ \E v \in Visits : visit[v].flow = f
SlotInv == \A f \in Flows :
    /\ Engaged(f) => tries[f] > 0
    /\ InProgress(f) /\ tries[f] > 0 => slot = f

(* Where a flow stands while a visit is at work on it.                     *)
StageInv ==
    \A v \in Visits : \A f \in Flows : visit[v].flow = f /\ InProgress(f) =>
        /\ visit[v].pc = "starting" =>
              /\ flow[f].step # "external"
              /\ f \notin hurried => flow[f].step = "form"
        /\ \/ visit[v].pc = "exchanging"
           \/ visit[v].pc = "journaling" /\ f \notin hurried
           => flow[f].step = "external" /\ ~flow[f].parked
        /\ visit[v].pc = "committing" =>
              /\ flow[f].owner = v
              /\ f \notin hurried =>
                    /\ flow[f].step = "done" /\ flow[f].error = "none" /\ ~flow[f].parked
                    /\ record[f].try = tries[f]

(* Who will park or end a flow that keeps others out.                      *)
Attended(f) ==
    \/ flow[f].owner = "ended"
    \/ flow[f].step = "form" /\ \E v \in Visits : At(v, f, {"starting"})
    \/ flow[f].step = "external" /\ \E v \in Visits : At(v, f, {"exchanging", "journaling"})
    \/ flow[f].step = "done" /\ \E v \in Visits :
          At(v, f, {"journaling", "committing", "waiting", "asleep"})
AttendedInv ==
    \A f \in Flows : slot = f /\ InProgress(f) /\ ~flow[f].parked /\ f \notin cut
                        => Attended(f)

(* What the records prove.                                                 *)
ProofInv ==
    \A f \in Flows :
        /\ record[f].removed => f \in finished
        /\ record[f].confirmed => f \in wasLoaded
        /\ kept[f] = "loaded" => f \in wasLoaded
        /\ f \in finished => ~InProgress(f)
        /\ f \in told \cup assured => f \in finished \cap wasLoaded
        /\ f \in finished \ hurried =>
              /\ kept[f] \in {"loaded", "retry", "dropped"}
              /\ \/ f \in told \/ kept[f] = "dropped"
                 \/ kept[f] = "retry" /\ f \in watching /\ record[f].removed

PairInv == /\ TypeOK /\ VisitInv /\ GoneInv /\ SlotInv /\ StageInv
           /\ AttendedInv /\ ProofInv

-----------------------------------------------------------------------------
(* What the finish is run on: a flow in progress, by a task that was not   *)
(* at work or held the credentials of that flow.                           *)
Finishes(v, w, h, f) ==
    /\ v \in Visits /\ f \in Flows /\ w \in Tasks /\ h \in FlowObjects
    /\ w.flow = f
    /\ flow[f].step \in {"form", "external", "done"} /\ h.step = flow[f].step
    /\ h.step = "form" => f \in hurried /\ visit[v] = w
    /\ h.owner = flow[f].owner /\ ~h.busy
    /\ h.step = "done" /\ f \notin hurried => h = flow[f]
    /\ h.error = "none" => h.result
    /\ \A u \in Visits \ {v} : visit[u].flow = f => visit[u].pc # "exchanging"
    /\ \/ visit[v] = NoVisit /\ (w.kind \in Callbacks => ~InFlight(f))
       \/ visit[v] = w /\ w.pc \in {"exchanging", "journaling", "asleep"}
    /\ h.step = "external" => w.kind \in Callbacks

LEMMA OthersStandBack ==
    ASSUME PairInv, NEW v, NEW w, NEW h, NEW f, Finishes(v, w, h, f),
           NEW u \in Visits \ {v}, visit[u].flow = f, f \notin hurried
    PROVE  /\ visit[u].pc \notin {"starting", "exchanging", "journaling"}
           /\ visit[u].pc = "committing" =>
                 /\ flow[f].owner = u /\ h = flow[f]
                 /\ flow[f].step = "done" /\ flow[f].error = "none" /\ ~flow[f].parked
  <1>1. InProgress(f) /\ f \in Flows /\ v \in Visits
    BY DEF Finishes, InProgress
  <1>2. /\ visit[u].pc = "starting" => flow[f].step = "form"
        /\ visit[u].pc = "journaling" => flow[f].step = "external"
        /\ visit[u].pc = "committing" =>
              /\ flow[f].owner = u /\ flow[f].step = "done"
              /\ flow[f].error = "none" /\ ~flow[f].parked
    BY <1>1 DEF PairInv, StageInv
  <1>3. ASSUME visit[u].pc = "journaling" PROVE FALSE
    <2>1. w.kind \in Callbacks
      BY <1>2, <1>3 DEF Finishes
    <2>2. visit[u].kind \in Callbacks
      BY <1>3 DEF PairInv, VisitInv
    <2>3. visit[v] = w /\ w.pc # "off" /\ w.flow = f
      BY <1>3, <2>1, <2>2 DEF Finishes, InFlight
    <2>4. QED
      BY <1>1, <1>3, <2>1, <2>2, <2>3 DEF PairInv, VisitInv
  <1>4. QED
    BY <1>2, <1>3 DEF Finishes

LEMMA CreatesKeeps ==
    ASSUME PairInv, NEW v, NEW w, NEW h, NEW f, Finishes(v, w, h, f),
           Creates(v, w, h),
           UNCHANGED <<slot, tries, watching, told, assured, kept, past>>
    PROVE  PairInv'
  <1> DEFINE h1 == [h EXCEPT !.step = "done", !.parked = FALSE, !.owner = v]
             w1 == [w EXCEPT !.pc = "committing"]
             r1 == [NoRecord EXCEPT !.try = tries[f]]
  <1>1. /\ v \in Visits /\ f \in Flows
        /\ flow' = [flow EXCEPT ![f] = h1]
        /\ visit' = [visit EXCEPT ![v] = w1]
        /\ record' = [record EXCEPT ![f] = r1]
    BY DEF Creates, Finishes
  <1>2. h1 \in FlowObjects /\ w1 \in Tasks /\ r1 \in Records
    BY DEF Creates, Finishes, FlowObjects, Steps, Tasks, Stages, Records, NoRecord, PairInv,
           TypeOK
  <1>3. /\ h1.step = "done" /\ ~h1.parked /\ h1.owner = v /\ ~h1.busy
        /\ h1.error = "none" /\ h1.result
    BY DEF Creates, Finishes, FlowObjects
  <1>4. w1.pc = "committing" /\ w1.flow = f /\ w1.kind = w.kind
    BY DEF Finishes, Tasks
  <1>5. r1.try = tries[f] /\ ~r1.removed /\ ~r1.confirmed
    BY DEF NoRecord
  <1>6. flow[f].owner = None
    BY DEF Creates, MayCreate, Finishes
  <1> HIDE DEF h1, w1, r1
  <1>7. TypeOK'
    BY <1>1, <1>2, <1>3, <1>4, PairAssumption
       DEF PairInv, TypeOK, past, InProgress, Finishes, NoVisit
  <1>8. VisitInv'
    BY <1>1, <1>2, <1>3, <1>4
       DEF PairInv, TypeOK, VisitInv, Finishes, NoVisit, InFlight, Callbacks
  <1>9. GoneInv'
    BY <1>1, <1>3 DEF PairInv, TypeOK, GoneInv, InProgress
  <1>10. SlotInv'
    BY <1>1, <1>2, <1>3, <1>4
       DEF PairInv, TypeOK, SlotInv, Finishes, InProgress, Engaged
  <1>11. StageInv'
    <2>1. ASSUME NEW u \in Visits \ {v}, visit[u].flow = f, f \notin hurried
          PROVE  visit[u].pc \notin {"starting", "exchanging", "journaling", "committing"}
      BY <1>6, <2>1, OthersStandBack, PairAssumption
    <2>2. hurried' = hurried
      BY DEF past
    <2>3. flow'[f] = h1 /\ \A g \in Flows \ {f} : flow'[g] = flow[g] /\ record'[g] = record[g]
      BY <1>1 DEF PairInv, TypeOK
    <2>4. visit'[v] = w1 /\ \A u \in Visits \ {v} : visit'[u] = visit[u]
      BY <1>1 DEF PairInv, TypeOK
    <2>5. record'[f].try = tries'[f]
      BY <1>1, <1>5 DEF PairInv, TypeOK
    <2>6. QED
      BY <1>1, <1>3, <1>4, <1>6, <2>1, <2>2, <2>3, <2>4, <2>5, PairAssumption
         DEF PairInv, StageInv, InProgress, Finishes
  <1>12. AttendedInv'
    BY <1>1, <1>2, <1>3, <1>4
       DEF PairInv, TypeOK, AttendedInv, Attended, Finishes, InProgress, past, At, NoVisit
  <1>13. ProofInv'
    BY <1>1, <1>2, <1>3, <1>4, <1>5
       DEF PairInv, TypeOK, ProofInv, Finishes, InProgress, past
  <1>14. QED
    BY <1>7, <1>8, <1>9, <1>10, <1>11, <1>12, <1>13 DEF PairInv

(* A task that leaves a flow at its finish, or shows its form again: what  *)
(* it writes into the flow and into itself.                                *)
LEMMA WaitsKeeps ==
    ASSUME PairInv, NEW v, NEW w, NEW h, NEW f, Finishes(v, w, h, f),
           NEW pc \in {"waiting", "asleep"}, NEW w1 \in Tasks,
           w1.pc = pc, w1.flow = f, w1.kind = w.kind \/ w1.kind = "unattended",
           NEW h1 \in FlowObjects, h1.step = "done", h1.parked => h.parked, ~h1.busy,
           h1.error = h.error, h1.result = h.result, h1.owner = h.owner,
           flow' = [flow EXCEPT ![f] = h1],
           visit' = [visit EXCEPT ![v] = w1],
           UNCHANGED <<slot, tries, proof, kept, past>>
    PROVE  PairInv'
  <1>1. v \in Visits /\ f \in Flows
    BY DEF Finishes
  <1>2. TypeOK'
    BY <1>1, PairAssumption
       DEF PairInv, TypeOK, past, proof, InProgress, Finishes, NoVisit
  <1>3. VisitInv'
    BY <1>1 DEF PairInv, TypeOK, VisitInv, Finishes, NoVisit, InFlight, Callbacks
  <1>4. GoneInv'
    BY <1>1 DEF PairInv, TypeOK, GoneInv, InProgress
  <1>5. SlotInv'
    BY <1>1 DEF PairInv, TypeOK, SlotInv, Finishes, InProgress, Engaged
  <1>6. StageInv'
    <2>1. ASSUME NEW u \in Visits \ {v}, visit[u].flow = f, f \notin hurried
          PROVE  /\ visit[u].pc \notin {"starting", "exchanging", "journaling"}
                 /\ visit[u].pc = "committing" => /\ flow[f].owner = u
                                                  /\ h.error = "none" /\ ~h.parked
      BY <2>1, OthersStandBack
    <2>2. ASSUME NEW u \in Visits \ {v}, visit[u].flow = f, visit[u].pc = "committing"
          PROVE  /\ flow[f].owner = u
                 /\ f \notin hurried => record[f].try = tries[f]
      BY <1>1, <2>2 DEF PairInv, StageInv, InProgress, Finishes
    <2>3. flow'[f] = h1 /\ \A g \in Flows \ {f} : flow'[g] = flow[g]
      BY <1>1 DEF PairInv, TypeOK
    <2>4. visit'[v] = w1 /\ \A u \in Visits \ {v} : visit'[u] = visit[u]
      BY <1>1 DEF PairInv, TypeOK
    <2>5. hurried' = hurried /\ record' = record
      BY DEF past, proof
    <2>6. \A u \in Visits \ {v} : visit[u].flow = f => visit[u].pc # "exchanging"
      BY DEF Finishes
    <2>7. h.owner = flow[f].owner
      BY DEF Finishes
    <2>8. QED
      BY <1>1, <2>1, <2>2, <2>3, <2>4, <2>5, <2>6, <2>7
         DEF PairInv, StageInv, InProgress
  <1>7. AttendedInv'
    BY <1>1
       DEF PairInv, TypeOK, AttendedInv, Attended, Finishes, InProgress, past, At, NoVisit
  <1>8. ProofInv'
    BY <1>1 DEF PairInv, TypeOK, ProofInv, Finishes, InProgress, past, proof
  <1>9. QED
    BY <1>2, <1>3, <1>4, <1>5, <1>6, <1>7, <1>8 DEF PairInv

LEMMA GivesUpKeeps ==
    ASSUME PairInv, NEW v, NEW w, NEW h, NEW f, Finishes(v, w, h, f),
           GivesUp(v, w, h),
           UNCHANGED <<slot, tries, watching, told, assured, kept, past>>
    PROVE  PairInv'
  <1>1. PICK h1 \in {FormOf(h), Over} : flow' = [flow EXCEPT ![f] = h1]
    BY DEF GivesUp, Finishes
  <1>2. v \in Visits /\ f \in Flows /\ visit' = [visit EXCEPT ![v] = NoVisit]
    BY DEF GivesUp, Finishes
  <1>3. h1 \in FlowObjects /\ NoVisit \in Tasks
    BY <1>1
       DEF Finishes, FlowObjects, FormOf, Over, NewFlow, NoVisit, Tasks, Stages, Steps
  <1>4. \/ h1 = Over /\ h1.step = "gone" /\ h1.owner = None
        \/ h1.step = "form" /\ h1.parked /\ h1.owner = flow[f].owner
    BY <1>1 DEF FormOf, Over, NewFlow, Finishes, FlowObjects
  <1>5. ~h1.busy /\ h1.step # "done" /\ record' = record
    BY <1>1 DEF FormOf, Over, NewFlow, Finishes, FlowObjects, GivesUp
  <1>6. NoVisit.pc = "off" /\ NoVisit.flow = None
    BY DEF NoVisit
  <1> HIDE DEF NoVisit
  <1>7. TypeOK'
    BY <1>1, <1>2, <1>3, <1>4, <1>5, <1>6, PairAssumption
       DEF PairInv, TypeOK, past, InProgress, Finishes
  <1>8. VisitInv'
    BY <1>1, <1>2, <1>6 DEF PairInv, TypeOK, VisitInv
  <1>9. GoneInv'
    BY <1>1, <1>2, <1>4 DEF PairInv, TypeOK, GoneInv, InProgress
  <1>10. SlotInv'
    BY <1>1, <1>2, <1>3, <1>4, <1>5, <1>6, PairAssumption
       DEF PairInv, TypeOK, SlotInv, Finishes, InProgress, Engaged
  <1>11. StageInv'
    <2>1. ASSUME NEW u \in Visits \ {v}, visit[u].flow = f, f \notin hurried
          PROVE  visit[u].pc \notin {"exchanging", "journaling", "committing"}
      <3>1. h.error = "none" => flow[f].owner = None
        BY DEF GivesUp, MayCreate, Finishes
      <3>2. QED
        BY <2>1, <3>1, OthersStandBack, PairAssumption
    <2>2. ASSUME NEW u \in Visits \ {v}, visit[u].flow = f, visit[u].pc = "committing"
          PROVE  flow[f].owner = u
      BY <1>2, <2>2 DEF PairInv, StageInv, InProgress, Finishes
    <2>3. flow'[f] = h1 /\ \A g \in Flows \ {f} : flow'[g] = flow[g]
      BY <1>1, <1>2 DEF PairInv, TypeOK
    <2>4. visit'[v] = NoVisit /\ \A u \in Visits \ {v} : visit'[u] = visit[u]
      BY <1>2 DEF PairInv, TypeOK
    <2>5. /\ hurried' = hurried
          /\ \A u \in Visits \ {v} : visit[u].flow = f => visit[u].pc # "exchanging"
      BY DEF past, Finishes
    <2>6. QED
      BY <1>2, <1>4, <1>5, <1>6, <2>1, <2>2, <2>3, <2>4, <2>5
         DEF PairInv, StageInv, InProgress
  <1>12. AttendedInv'
    BY <1>1, <1>2, <1>3, <1>4, <1>6
       DEF PairInv, TypeOK, AttendedInv, Attended, Finishes, InProgress, past, At
  <1>13. ProofInv'
    BY <1>1, <1>2, <1>4, <1>5 DEF PairInv, TypeOK, ProofInv, Finishes, InProgress, past
  <1>14. QED
    BY <1>7, <1>8, <1>9, <1>10, <1>11, <1>12, <1>13 DEF PairInv

LEMMA FinishKeeps ==
    ASSUME PairInv, NEW v, NEW w, NEW h, NEW f, Finishes(v, w, h, f), Finish(v, w, h)
    PROVE  PairInv'
  <1>1. UNCHANGED <<slot, tries, watching, told, assured, kept, past>>
    BY DEF Finish
  <1>2. CASE Creates(v, w, h)
    BY <1>1, <1>2, CreatesKeeps
  <1>3. CASE WaitsForOwner(v, w, h)
    <2> DEFINE h1 == [h EXCEPT !.step = "done", !.parked = FALSE]
               w1 == [w EXCEPT !.pc = "waiting"]
    <2>1. flow' = [flow EXCEPT ![f] = h1] /\ visit' = [visit EXCEPT ![v] = w1]
      BY <1>3 DEF WaitsForOwner, Finishes
    <2>2. /\ h1 \in FlowObjects /\ w1 \in Tasks
          /\ h1.step = "done" /\ ~h1.parked /\ ~h1.busy /\ h1.error = h.error
          /\ h1.result = h.result /\ h1.owner = h.owner
          /\ w1.pc = "waiting" /\ w1.flow = f /\ w1.kind = w.kind
      BY DEF Finishes, FlowObjects, Tasks, Steps, Stages
    <2>3. UNCHANGED <<slot, tries, proof, kept, past>>
      BY <1>1, <1>3 DEF WaitsForOwner, proof
    <2> HIDE DEF h1, w1
    <2>4. QED
      BY <2>1, <2>2, <2>3, WaitsKeeps
  <1>4. CASE GivesUp(v, w, h)
    BY <1>1, <1>4, GivesUpKeeps
  <1>5. QED
    BY <1>2, <1>3, <1>4 DEF Finish

LEMMA DeliveredKeeps ==
    ASSUME PairInv, NEW v, NEW w, NEW h, NEW f, Finishes(v, w, h, f), Delivered(v, w, h)
    PROVE  PairInv'
  <1>1. CASE w.kind = "app"
    BY <1>1, FinishKeeps DEF Delivered
  <1>2. CASE w.kind # "app"
    <2> DEFINE h1 == [h EXCEPT !.step = "done"]
               w1 == [NoVisit EXCEPT !.pc = "asleep", !.kind = "unattended", !.flow = f]
    <2>1. /\ flow' = [flow EXCEPT ![f] = h1] /\ visit' = [visit EXCEPT ![v] = w1]
          /\ UNCHANGED <<slot, tries, proof, kept, past>>
      BY <1>2 DEF Delivered, Finishes
    <2>2. /\ h1 \in FlowObjects /\ w1 \in Tasks
          /\ h1.step = "done" /\ (h1.parked => h.parked) /\ ~h1.busy /\ h1.error = h.error
          /\ h1.result = h.result /\ h1.owner = h.owner
          /\ w1.pc = "asleep" /\ w1.flow = f /\ w1.kind = "unattended"
      BY DEF Finishes, FlowObjects, Tasks, Steps, Stages, NoVisit
    <2> HIDE DEF h1, w1
    <2>3. QED
      BY <2>1, <2>2, WaitsKeeps
  <1>3. QED
    BY <1>1, <1>2

-----------------------------------------------------------------------------
(* Shapes of the objects the steps write.                                  *)
LEMMA Written ==
    /\ NoVisit \in Tasks /\ NoVisit.pc = "off" /\ NoVisit.flow = None
    /\ NoVisit.kind \notin Callbacks
    /\ Over \in FlowObjects /\ Over.step = "gone" /\ Over.owner = None
    /\ ~Over.busy /\ ~Over.parked
  BY DEF NoVisit, Tasks, Stages, Callbacks, Over, NewFlow, FlowObjects, Steps

LEMMA WrittenForm ==
    ASSUME NEW h \in FlowObjects
    PROVE  /\ FormOf(h) \in FlowObjects /\ FormOf(h).step = "form" /\ FormOf(h).parked
           /\ FormOf(h).owner = h.owner /\ FormOf(h).busy = h.busy
  BY DEF FlowObjects, Steps, FormOf

LEMMA WrittenOwner ==
    ASSUME NEW h \in FlowObjects
    PROVE  \/ h = Over /\ OwnerEnds(h) = Over
           \/ /\ OwnerEnds(h) \in FlowObjects /\ OwnerEnds(h).owner = "ended"
              /\ OwnerEnds(h).step = h.step /\ OwnerEnds(h).parked = h.parked
              /\ OwnerEnds(h).busy = h.busy /\ OwnerEnds(h).error = h.error
              /\ OwnerEnds(h).result = h.result
  BY DEF FlowObjects, OwnerEnds

(* A visit that was free has none of a flow's facts.                       *)
LEMMA FreeVisit ==
    ASSUME PairInv, NEW v \in Visits, Begins(v)
    PROVE  visit[v] = NoVisit /\ visit[v].pc = "off" /\ visit[v].flow = None
  BY Written DEF Begins

(* The old owner of a claimed slot is over; every other flow is as it was. *)
LEMMA ClaimedFlows ==
    ASSUME PairInv, NEW f \in Flows, NEW h \in FlowObjects, flow' = Claimed(f, h)
    PROVE  /\ flow' \in [Flows -> FlowObjects] /\ flow'[f] = h
           /\ \A g \in Flows \ {f} :
                 /\ g = slot => flow'[g] = Over
                 /\ g # slot => flow'[g] = flow[g]
  BY Written DEF Claimed, PairInv, TypeOK

LEMMA StartKeeps ==
    ASSUME PairInv, NEW v \in Visits, NEW f \in Flows, Start(v, f)
    PROVE  PairInv'
  <1> DEFINE h1 == [flow[f] EXCEPT !.result = FALSE, !.error = "none"]
             w1 == [NoVisit EXCEPT !.pc = "starting", !.flow = f]
  <1>1. /\ flow' = Claimed(f, h1) /\ visit' = [visit EXCEPT ![v] = w1]
        /\ slot' = f /\ tries' = [tries EXCEPT ![f] = @ + 1]
        /\ UNCHANGED <<proof, kept, past>> /\ flow[f].step = "form"
        /\ ~\E u \in Visits : visit[u].flow = f /\ visit[u].pc = "starting"
    BY DEF Start
  <1>2. h1 \in FlowObjects /\ h1.step = "form" /\ h1.owner = flow[f].owner /\ h1.busy = flow[f].busy
        /\ h1.parked = flow[f].parked
    <2>1. flow[f] \in FlowObjects
      BY DEF PairInv, TypeOK
    <2>2. QED
      BY <1>1, <2>1 DEF FlowObjects, Steps
  <1>3. w1 \in Tasks /\ w1.pc = "starting" /\ w1.flow = f /\ w1.kind \notin Callbacks
    BY DEF NoVisit, Tasks, Stages, Callbacks
  <1> HIDE DEF h1, w1
  <1>4. /\ flow' \in [Flows -> FlowObjects] /\ flow'[f] = h1
        /\ \A g \in Flows \ {f} :
              /\ g = slot => flow'[g] = Over
              /\ g # slot => flow'[g] = flow[g]
    BY <1>1, <1>2, ClaimedFlows
  <1>5. visit[v] = NoVisit /\ visit[v].pc = "off" /\ visit[v].flow = None
    BY FreeVisit DEF Start
  <1>6. TypeOK'
    <2>1. tries' \in [Flows -> Nat] /\ visit' \in [Visits -> Tasks]
      BY <1>1, <1>3 DEF PairInv, TypeOK
    <2>2. UNCHANGED <<record, kept, watching, told, assured, wasLoaded, finished, cut, hurried>>
      BY <1>1 DEF proof, past
    <2>3. visit'[v] = w1 /\ \A u \in Visits \ {v} : visit'[u] = visit[u]
      BY <1>1 DEF PairInv, TypeOK
    <2>4. h1.step # "done" /\ ~h1.busy
      BY <1>1, <1>2 DEF PairInv, TypeOK, StageInv, InProgress
    <2>5. ASSUME NEW g \in Flows
          PROVE  /\ flow'[g].step = "done" => flow'[g].result \/ flow'[g].error # "none"
                 /\ flow'[g].busy <=> /\ flow'[g].step # "gone"
                                      /\ \E u \in Visits : /\ visit'[u].flow = g
                                                           /\ visit'[u].pc = "exchanging"
                 /\ flow'[g].owner \in Visits =>
                       /\ visit'[flow'[g].owner].flow = g
                       /\ visit'[flow'[g].owner].pc = "committing"
      <3>1. CASE g = f
        BY <1>1, <1>2, <1>3, <1>4, <1>5, <2>3, <2>4, <3>1
           DEF PairInv, TypeOK, InProgress
      <3>2. CASE g # f /\ g = slot
        BY <1>4, <2>5, <3>2, Written, PairAssumption
      <3>3. CASE g # f /\ g # slot
        BY <1>3, <1>4, <1>5, <2>3, <2>5, <3>3 DEF PairInv, TypeOK, InProgress
      <3>4. QED
        BY <3>1, <3>2, <3>3
    <2>6. QED
      BY <1>1, <1>4, <2>1, <2>2, <2>5 DEF PairInv, TypeOK, InProgress
  <1>7. VisitInv'
    BY <1>1, <1>2, <1>3, <1>4, <1>5, Written, PairAssumption
       DEF PairInv, TypeOK, VisitInv
  <1>8. GoneInv'
    BY <1>1, <1>2, <1>3, <1>4, <1>5, Written, PairAssumption
       DEF PairInv, TypeOK, GoneInv, InProgress
  <1>9. SlotInv'
    BY <1>1, <1>2, <1>3, <1>4, <1>5, Written, PairAssumption
       DEF PairInv, TypeOK, SlotInv, InProgress, Engaged
  <1>10. StageInv'
    BY <1>1, <1>2, <1>3, <1>4, <1>5, Written, PairAssumption
       DEF PairInv, TypeOK, StageInv, VisitInv, InProgress, past, proof
  <1>11. AttendedInv'
    BY <1>1, <1>2, <1>3, <1>4, <1>5, Written, PairAssumption
       DEF PairInv, TypeOK, AttendedInv, VisitInv, Attended, InProgress, past, At
  <1>12. ProofInv'
    BY <1>1, <1>2, <1>3, <1>4, <1>5, Written, PairAssumption
       DEF PairInv, TypeOK, ProofInv, InProgress, past, proof
  <1>13. QED
    BY <1>6, <1>7, <1>8, <1>9, <1>10, <1>11, <1>12 DEF PairInv

LEMMA StartEndsKeeps ==
    ASSUME PairInv, NEW f \in Flows, StartEnds(f)
    PROVE  PairInv'
  <1>1. PICK h1 \in {FormOf(flow[f]), Over} : flow' = Claimed(f, h1)
    BY DEF StartEnds
  <1>2. slot' = f /\ UNCHANGED <<tries, visit, proof, kept, past>> /\ flow[f].step = "form"
    BY DEF StartEnds
  <1>3. /\ h1 \in FlowObjects
        /\ \/ h1.step = "form" /\ h1.parked /\ h1.owner = flow[f].owner
              /\ h1.busy = flow[f].busy
           \/ h1 = Over
    BY <1>1, Written, WrittenForm DEF PairInv, TypeOK
  <1>4. /\ flow' \in [Flows -> FlowObjects] /\ flow'[f] = h1
        /\ \A g \in Flows \ {f} :
              /\ g = slot => flow'[g] = Over
              /\ g # slot => flow'[g] = flow[g]
    BY <1>1, <1>3, ClaimedFlows
  <1>5. TypeOK'
    BY <1>2, <1>3, <1>4, Written, PairAssumption
       DEF PairInv, TypeOK, past, proof, InProgress
  <1>6. VisitInv'
    BY <1>2, <1>3, <1>4, Written, PairAssumption
       DEF PairInv, TypeOK, VisitInv
  <1>7. GoneInv'
    BY <1>2, <1>3, <1>4, Written, PairAssumption
       DEF PairInv, TypeOK, GoneInv, InProgress
  <1>8. SlotInv'
    BY <1>2, <1>3, <1>4, Written, PairAssumption
       DEF PairInv, TypeOK, SlotInv, InProgress, Engaged
  <1>9. StageInv'
    BY <1>2, <1>3, <1>4, Written, PairAssumption
       DEF PairInv, TypeOK, StageInv, VisitInv, InProgress, past, proof
  <1>10. AttendedInv'
    BY <1>2, <1>3, <1>4, Written, PairAssumption
       DEF PairInv, TypeOK, AttendedInv, VisitInv, Attended, InProgress, past, At
  <1>11. ProofInv'
    BY <1>2, <1>3, <1>4, Written, PairAssumption
       DEF PairInv, TypeOK, ProofInv, InProgress, past, proof
  <1>12. QED
    BY <1>5, <1>6, <1>7, <1>8, <1>9, <1>10, <1>11 DEF PairInv

LEMMA StartRefusedKeeps ==
    ASSUME PairInv, NEW f \in Flows, StartRefused(f)
    PROVE  PairInv'
  <1>1. /\ flow' = [flow EXCEPT ![f] = FormOf(flow[f])] /\ flow[f].step = "form"
        /\ UNCHANGED <<slot, tries, visit, proof, kept, past>>
    BY DEF StartRefused
  <1>2. /\ FormOf(flow[f]) \in FlowObjects /\ FormOf(flow[f]).step = "form"
        /\ FormOf(flow[f]).parked /\ FormOf(flow[f]).owner = flow[f].owner
        /\ FormOf(flow[f]).busy = flow[f].busy
    BY WrittenForm DEF PairInv, TypeOK
  <1>3. TypeOK'
    BY <1>1, <1>2
       DEF PairInv, TypeOK, past, proof, InProgress
  <1>4. VisitInv'
    BY <1>1, <1>2
       DEF PairInv, TypeOK, VisitInv
  <1>5. GoneInv'
    BY <1>1, <1>2
       DEF PairInv, TypeOK, GoneInv, InProgress
  <1>6. SlotInv'
    BY <1>1, <1>2
       DEF PairInv, TypeOK, SlotInv, InProgress, Engaged
  <1>7. StageInv'
    BY <1>1, <1>2
       DEF PairInv, TypeOK, StageInv, VisitInv, InProgress, past, proof
  <1>8. AttendedInv'
    BY <1>1, <1>2
       DEF PairInv, TypeOK, AttendedInv, VisitInv, Attended, InProgress, past, At
  <1>9. ProofInv'
    BY <1>1, <1>2
       DEF PairInv, TypeOK, ProofInv, InProgress, past, proof
  <1>10. QED
    BY <1>3, <1>4, <1>5, <1>6, <1>7, <1>8, <1>9 DEF PairInv

LEMMA SessionAnsweredKeeps ==
    ASSUME PairInv, NEW v \in Visits, SessionAnswered(v)
    PROVE  PairInv'
  <1> DEFINE f == visit[v].flow
  <1>1. f \in Flows /\ visit[v].pc = "starting"
    BY DEF SessionAnswered, PairInv, VisitInv
  <1>2. visit' = [visit EXCEPT ![v] = NoVisit] /\ UNCHANGED <<slot, tries, proof, kept, past>>
    BY DEF SessionAnswered
  <1>3. PICK h1 \in FlowObjects :
          /\ flow' = [flow EXCEPT ![f] = h1]
          /\ \/ h1 = flow[f] /\ h1 = Over
             \/ /\ h1.step \in {"external", "form"} /\ h1.parked /\ InProgress(f)
                /\ h1.owner = flow[f].owner /\ h1.busy = flow[f].busy
    <2>1. CASE ~InProgress(f)
      BY <1>1, <2>1 DEF SessionAnswered, PairInv, TypeOK, GoneInv
    <2>2. CASE InProgress(f)
      <3>1. PICK step \in {"external", "form"} :
              flow' = [flow EXCEPT ![f].step = step, ![f].parked = TRUE]
        BY <2>2 DEF SessionAnswered
      <3>2. flow' = [flow EXCEPT ![f] = [flow[f] EXCEPT !.step = step, !.parked = TRUE]]
        BY <1>1, <3>1 DEF PairInv, TypeOK
      <3>3. flow[f] \in FlowObjects
        BY <1>1 DEF PairInv, TypeOK
      <3>4. [flow[f] EXCEPT !.step = step, !.parked = TRUE] \in FlowObjects
        BY <3>1, <3>3 DEF FlowObjects, Steps
      <3>5. QED
        BY <2>2, <3>2, <3>3, <3>4 DEF FlowObjects
    <2>3. QED
      BY <2>1, <2>2
  <1> HIDE DEF f
  <1>4. TypeOK'
    BY <1>1, <1>2, <1>3, Written, PairAssumption
       DEF PairInv, TypeOK, past, proof, InProgress, f
  <1>5. VisitInv'
    BY <1>1, <1>2, <1>3, Written, PairAssumption
       DEF PairInv, TypeOK, VisitInv, f
  <1>6. GoneInv'
    BY <1>1, <1>2, <1>3, Written, PairAssumption
       DEF PairInv, TypeOK, GoneInv, InProgress, f
  <1>7. SlotInv'
    BY <1>1, <1>2, <1>3, Written, PairAssumption
       DEF PairInv, TypeOK, SlotInv, InProgress, Engaged, f
  <1>8. StageInv'
    BY <1>1, <1>2, <1>3, Written, PairAssumption
       DEF PairInv, TypeOK, StageInv, VisitInv, InProgress, past, proof, f
  <1>9. AttendedInv'
    BY <1>1, <1>2, <1>3, Written, PairAssumption
       DEF PairInv, TypeOK, AttendedInv, VisitInv, Attended, InProgress, past, At, f
  <1>10. ProofInv'
    BY <1>1, <1>2, <1>3, Written, PairAssumption
       DEF PairInv, TypeOK, ProofInv, InProgress, past, proof, f
  <1>11. QED
    BY <1>4, <1>5, <1>6, <1>7, <1>8, <1>9, <1>10 DEF PairInv

(* A flow is removed, by its user or by the clean-up.                      *)
LEMMA RemovalKeeps ==
    ASSUME PairInv, NEW f \in Flows,
           flow' = [flow EXCEPT ![f] = Over],
           UNCHANGED <<slot, tries, visit, proof, kept, past>>
    PROVE  PairInv'
  <1>1. TypeOK'
    BY Written, PairAssumption
       DEF PairInv, TypeOK, past, proof, InProgress
  <1>2. VisitInv'
    BY Written, PairAssumption
       DEF PairInv, TypeOK, VisitInv
  <1>3. GoneInv'
    BY Written, PairAssumption
       DEF PairInv, TypeOK, GoneInv, InProgress
  <1>4. SlotInv'
    BY Written, PairAssumption
       DEF PairInv, TypeOK, SlotInv, InProgress, Engaged
  <1>5. StageInv'
    BY Written, PairAssumption
       DEF PairInv, TypeOK, StageInv, VisitInv, InProgress, past, proof
  <1>6. AttendedInv'
    BY Written, PairAssumption
       DEF PairInv, TypeOK, AttendedInv, VisitInv, Attended, InProgress, past, At
  <1>7. ProofInv'
    BY Written, PairAssumption
       DEF PairInv, TypeOK, ProofInv, InProgress, past, proof
  <1>8. QED
    BY <1>1, <1>2, <1>3, <1>4, <1>5, <1>6, <1>7 DEF PairInv

(* A flow has one callback in flight, and an exchange is a callback's.     *)
LEMMA OneCallback ==
    ASSUME PairInv, NEW u \in Visits, NEW v \in Visits, u # v,
           visit[u].flow = visit[v].flow,
           visit[v].pc \in {"exchanging", "journaling"}
    PROVE  visit[u].pc \notin {"exchanging", "journaling"}
  BY DEF PairInv, VisitInv

-----------------------------------------------------------------------------
(* What the answer to a callback leaves of the record.                     *)
LEMMA RepliedKeepsProof ==
    ASSUME PairInv, NEW f \in Flows, NEW r, NEW s, r = RecordOf(f, s),
           \/ UNCHANGED <<record, assured>>
           \/ /\ WasCompleted(r, kept[f])
              /\ assured' = assured \cup {f}
              /\ record' = [record EXCEPT ![f] = [r EXCEPT !.confirmed = TRUE]],
           UNCHANGED <<watching, told, kept, past>>,
           \A g \in Flows : flow'[g] = flow[g] \/ flow'[g] = Over
    PROVE  /\ record' \in [Flows -> Records] /\ assured' \subseteq Flows
           /\ \A g \in Flows : record'[g].try = record[g].try
           /\ ProofInv'
  <1>1. CASE UNCHANGED <<record, assured>>
    BY <1>1, Written DEF PairInv, TypeOK, ProofInv, InProgress, past
  <1>2. CASE /\ WasCompleted(r, kept[f])
             /\ assured' = assured \cup {f}
             /\ record' = [record EXCEPT ![f] = [r EXCEPT !.confirmed = TRUE]]
    <2>1. r = record[f] /\ r.removed /\ f \in finished \cap wasLoaded
      BY <1>2 DEF RecordOf, NoRecord, WasCompleted, Confirmed, PairInv, ProofInv
    <2>2. [r EXCEPT !.confirmed = TRUE] \in Records
      <3>1. record[f] \in Records
        BY DEF PairInv, TypeOK
      <3>2. QED
        BY <2>1, <3>1 DEF Records
    <2>3. record' \in [Flows -> Records] /\ \A g \in Flows \ {f} : record'[g] = record[g]
      BY <1>2, <2>2 DEF PairInv, TypeOK
    <2>4. record'[f].try = record[f].try /\ record'[f].removed
      BY <1>2, <2>1 DEF PairInv, TypeOK, Records
    <2>5. \A g \in Flows : ~InProgress(g) => ~InProgress(g)'
      BY Written DEF InProgress
    <2>6. UNCHANGED <<watching, told, kept, wasLoaded, finished, hurried>>
      BY DEF past
    <2>7. ProofInv'
      BY <1>2, <2>1, <2>3, <2>4, <2>5, <2>6 DEF PairInv, ProofInv
    <2>8. QED
      BY <1>2, <2>3, <2>4, <2>7 DEF PairInv, TypeOK
  <1>3. QED
    BY <1>1, <1>2

LEMMA CallbackRepeatedKeeps ==
    ASSUME PairInv, NEW f \in Flows, CallbackRepeated(f)
    PROVE  PairInv'
  <1>1. /\ WasCompleted(RecordOf(f, tries[f]), kept[f])
        /\ assured' = assured \cup {f} /\ record' = [record EXCEPT ![f].confirmed = TRUE]
        /\ UNCHANGED <<flow, slot, tries, visit, watching, told, kept, past>>
    BY DEF CallbackRepeated
  <1>2. RecordOf(f, tries[f]) = record[f]
    BY <1>1 DEF RecordOf, NoRecord, WasCompleted
  <1>3. record' = [record EXCEPT ![f] = [record[f] EXCEPT !.confirmed = TRUE]]
    BY <1>1 DEF PairInv, TypeOK
  <1>4. /\ record' \in [Flows -> Records] /\ assured' \subseteq Flows
        /\ \A g \in Flows : record'[g].try = record[g].try
        /\ ProofInv'
    <2>1. \A g \in Flows : flow'[g] = flow[g] \/ flow'[g] = Over
      BY <1>1
    <2>2. QED
      BY <1>1, <1>2, <1>3, <2>1, RepliedKeepsProof
  <1>5. TypeOK'
    BY <1>1, <1>4
       DEF PairInv, TypeOK, past, proof, InProgress
  <1>6. VisitInv'
    BY <1>1, <1>4
       DEF PairInv, TypeOK, VisitInv
  <1>7. GoneInv'
    BY <1>1, <1>4
       DEF PairInv, TypeOK, GoneInv, InProgress
  <1>8. SlotInv'
    BY <1>1, <1>4
       DEF PairInv, TypeOK, SlotInv, InProgress, Engaged
  <1>9. StageInv'
    BY <1>1, <1>4
       DEF PairInv, TypeOK, StageInv, VisitInv, InProgress, past, proof
  <1>10. AttendedInv'
    BY <1>1, <1>4
       DEF PairInv, TypeOK, AttendedInv, VisitInv, Attended, InProgress, past, At
  <1>11. ProofInv'
    BY <1>4
  <1>12. QED
    BY <1>5, <1>6, <1>7, <1>8, <1>9, <1>10, <1>11 DEF PairInv

(* A visit ends whose flow is removed, or that found nothing to do.        *)
LEMMA DropKeeps ==
    ASSUME PairInv, NEW v \in Visits, NEW f \in Flows, visit[v].flow = f,
           \/ flow' = flow /\ (InProgress(f) => visit[v].pc = "asleep" /\ flow[f].step # "done")
           \/ flow' = [flow EXCEPT ![f] = Over],
           visit' = [visit EXCEPT ![v] = NoVisit],
           record' \in [Flows -> Records], assured' \subseteq Flows,
           \A g \in Flows : record'[g].try = record[g].try,
           ProofInv',
           UNCHANGED <<slot, tries, watching, told, kept, past>>
    PROVE  PairInv'
  <1>1. PICK h1 \in FlowObjects :
          /\ flow' = [flow EXCEPT ![f] = h1]
          /\ \/ h1 = Over
             \/ /\ h1 = flow[f] /\ visit[v].pc = "asleep" /\ flow[f].step # "done"
    BY Written DEF PairInv, TypeOK, GoneInv
  <1>2. TypeOK'
    BY <1>1, Written, PairAssumption
       DEF PairInv, TypeOK, past, proof, InProgress
  <1>3. VisitInv'
    BY <1>1, Written, PairAssumption
       DEF PairInv, TypeOK, VisitInv
  <1>4. GoneInv'
    BY <1>1, Written, PairAssumption
       DEF PairInv, TypeOK, GoneInv, InProgress
  <1>5. SlotInv'
    BY <1>1, Written, PairAssumption
       DEF PairInv, TypeOK, SlotInv, InProgress, Engaged
  <1>6. StageInv'
    BY <1>1, Written, PairAssumption
       DEF PairInv, TypeOK, StageInv, VisitInv, InProgress, past, proof
  <1>7. AttendedInv'
    BY <1>1, Written, PairAssumption
       DEF PairInv, TypeOK, AttendedInv, VisitInv, Attended, InProgress, past, At
  <1>8. ProofInv'
    OBVIOUS
  <1>9. QED
    BY <1>2, <1>3, <1>4, <1>5, <1>6, <1>7, <1>8 DEF PairInv

LEMMA LeavesKeeps ==
    ASSUME PairInv, NEW v \in Visits, NEW f \in Flows, visit[v].flow = f, Leaves(v),
           \/ flow' = flow /\ ~InProgress(f)
           \/ flow' = [flow EXCEPT ![f] = Over],
           UNCHANGED <<slot, tries, watching, told, kept, past>>
    PROVE  PairInv'
  <1>1. \/ UNCHANGED <<record, assured>>
        \/ /\ WasCompleted(RecordOf(f, visit[v].try), kept[f])
           /\ assured' = assured \cup {f}
           /\ record' = [record EXCEPT ![f] =
                           [RecordOf(f, visit[v].try) EXCEPT !.confirmed = TRUE]]
    BY DEF Leaves, Answered
  <1>2. \A g \in Flows : flow'[g] = flow[g] \/ flow'[g] = Over
    BY DEF PairInv, TypeOK
  <1>3. /\ record' \in [Flows -> Records] /\ assured' \subseteq Flows
        /\ \A g \in Flows : record'[g].try = record[g].try
        /\ ProofInv'
    BY <1>1, <1>2, RepliedKeepsProof
  <1>4. visit' = [visit EXCEPT ![v] = NoVisit]
    BY DEF Leaves
  <1>5. QED
    BY <1>3, <1>4, DropKeeps

LEMMA ExchangeReleasedKeeps ==
    ASSUME PairInv, NEW v \in Visits, ExchangeReleased(v)
    PROVE  PairInv'
  <1>1. visit[v].flow \in Flows
    BY DEF ExchangeReleased, PairInv, VisitInv
  <1>2. QED
    BY <1>1, LeavesKeeps DEF ExchangeReleased

LEMMA WaitEndsKeeps ==
    ASSUME PairInv, NEW v \in Visits, WaitEnds(v)
    PROVE  PairInv'
  <1>1. visit[v].flow \in Flows
    BY DEF WaitEnds, PairInv, VisitInv
  <1>2. QED
    BY <1>1, LeavesKeeps DEF WaitEnds

-----------------------------------------------------------------------------
(* The callback and the dialog.                                            *)
LEMMA CallbackArrivesKeeps ==
    ASSUME PairInv, NEW v \in Visits, NEW f \in Flows, NEW kind \in Callbacks,
           CallbackArrives(v, f, kind)
    PROVE  PairInv'
  <1> DEFINE w1 == [pc |-> "exchanging", kind |-> kind, flow |-> f, try |-> tries[f]]
             h1 == [Taken(flow[f]) EXCEPT !.busy = TRUE]
  <1>1. visit[v] = NoVisit /\ visit[v].pc = "off" /\ visit[v].flow = None
    BY FreeVisit DEF CallbackArrives
  <1>2. flow[f].step = "external" /\ ~InFlight(f) /\ flow[f] \in FlowObjects /\ tries[f] \in Nat
    BY DEF CallbackArrives, PairInv, TypeOK
  <1>3. w1 \in Tasks /\ w1.pc = "exchanging" /\ w1.kind = kind /\ w1.flow = f
    BY <1>2 DEF Tasks, Stages
  <1>4. ASSUME NEW u \in Visits, visit[u].flow = f
        PROVE  visit[u].pc \notin {"exchanging", "journaling"}
    BY <1>2, <1>4 DEF InFlight, PairInv, VisitInv
  <1>5. ~flow[f].busy
    BY <1>2, <1>4 DEF PairInv, TypeOK
  <1>6. CASE /\ flow' = [flow EXCEPT ![f] = h1] /\ visit' = [visit EXCEPT ![v] = w1]
             /\ UNCHANGED <<slot, tries, proof, kept, past>>
    <2>1. /\ h1 \in FlowObjects /\ h1.step = "external" /\ ~h1.parked /\ h1.busy
          /\ h1.owner = flow[f].owner
      BY <1>2 DEF FlowObjects, Taken
    <2> HIDE DEF h1, w1
    <2>2. TypeOK'
      BY <1>1, <1>2, <1>3, <1>4, <1>6, <2>1, PairAssumption
         DEF PairInv, TypeOK, past, proof, InProgress
    <2>3. VisitInv'
      BY <1>1, <1>2, <1>3, <1>4, <1>6, <2>1, PairAssumption
         DEF PairInv, TypeOK, VisitInv, InFlight
    <2>4. GoneInv'
      BY <1>1, <1>2, <1>3, <1>4, <1>6, <2>1, PairAssumption
         DEF PairInv, TypeOK, GoneInv, InProgress
    <2>5. SlotInv'
      BY <1>1, <1>2, <1>3, <1>4, <1>6, <2>1, PairAssumption
         DEF PairInv, TypeOK, SlotInv, InProgress, Engaged
    <2>6. StageInv'
      BY <1>1, <1>2, <1>3, <1>4, <1>6, <2>1, PairAssumption
         DEF PairInv, TypeOK, StageInv, VisitInv, InProgress, past, proof
    <2>7. AttendedInv'
      BY <1>1, <1>2, <1>3, <1>4, <1>6, <2>1, PairAssumption
         DEF PairInv, TypeOK, AttendedInv, VisitInv, Attended, InProgress, past, At
    <2>8. ProofInv'
      BY <1>1, <1>2, <1>3, <1>4, <1>6, <2>1, PairAssumption
         DEF PairInv, TypeOK, ProofInv, InProgress, past, proof
    <2>9. QED
      BY <2>2, <2>3, <2>4, <2>5, <2>6, <2>7, <2>8 DEF PairInv
  <1>7. ASSUME NEW error \in {"failed", "taken"},
               Delivered(v, w1, [Taken(flow[f]) EXCEPT !.error = error])
        PROVE  PairInv'
    <2> DEFINE h2 == [Taken(flow[f]) EXCEPT !.error = error]
    <2>1. /\ h2 \in FlowObjects /\ h2.step = "external" /\ h2.owner = flow[f].owner
          /\ h2.busy = flow[f].busy /\ h2.error = error
      BY <1>2 DEF FlowObjects, Taken
    <2> HIDE DEF h2, w1
    <2>2. Finishes(v, w1, h2, f)
      BY <1>1, <1>2, <1>3, <1>4, <1>5, <2>1 DEF Finishes
    <2>3. QED
      BY <1>7, <2>2, DeliveredKeeps DEF h2
  <1>8. QED
    BY <1>6, <1>7 DEF CallbackArrives

LEMMA ExchangeAnsweredKeeps ==
    ASSUME PairInv, NEW v \in Visits, ExchangeAnswered(v)
    PROVE  PairInv'
  <1> DEFINE f == visit[v].flow
             h1 == [flow[f] EXCEPT !.busy = FALSE]
             w1 == [visit[v] EXCEPT !.pc = "journaling"]
  <1>1. /\ visit[v].pc = "exchanging" /\ InProgress(f) /\ f \in Flows
        /\ visit[v].kind \in Callbacks /\ flow[f] \in FlowObjects /\ visit[v] \in Tasks
    BY DEF ExchangeAnswered, PairInv, VisitInv, TypeOK
  <1>2. flow[f].step = "external" /\ ~flow[f].parked
    BY <1>1 DEF PairInv, StageInv
  <1>3. ASSUME NEW u \in Visits \ {v}, visit[u].flow = f
        PROVE  visit[u].pc \notin {"exchanging", "journaling"}
    BY <1>1, <1>3, OneCallback
  <1>4. CASE /\ flow' = [flow EXCEPT ![f] = h1] /\ visit' = [visit EXCEPT ![v].pc = "journaling"]
             /\ UNCHANGED <<slot, tries, proof, kept, past>>
    <2>1. /\ h1 \in FlowObjects /\ h1.step = "external" /\ ~h1.parked /\ ~h1.busy
          /\ h1.owner = flow[f].owner
      BY <1>1, <1>2 DEF FlowObjects
    <2>2. /\ w1 \in Tasks /\ w1.pc = "journaling" /\ w1.flow = f /\ w1.kind = visit[v].kind
      BY <1>1 DEF Tasks, Stages
    <2>3. visit' = [visit EXCEPT ![v] = w1]
      BY <1>1, <1>4 DEF PairInv, TypeOK
    <2>4. flow' = [flow EXCEPT ![f] = h1] /\ UNCHANGED <<slot, tries, proof, kept, past>>
      BY <1>4
    <2>5. visit[v].flow = f
      OBVIOUS
    <2> HIDE DEF f, h1, w1
    <2>6. TypeOK'
      BY <1>1, <1>2, <1>3, <2>1, <2>2, <2>3, <2>4, <2>5, PairAssumption
         DEF PairInv, TypeOK, past, proof, InProgress
    <2>7. VisitInv'
      BY <1>1, <1>2, <1>3, <2>1, <2>2, <2>3, <2>4, <2>5, PairAssumption
         DEF PairInv, TypeOK, VisitInv
    <2>8. GoneInv'
      BY <1>1, <1>2, <1>3, <2>1, <2>2, <2>3, <2>4, <2>5, PairAssumption
         DEF PairInv, TypeOK, GoneInv, InProgress
    <2>9. SlotInv'
      BY <1>1, <1>2, <1>3, <2>1, <2>2, <2>3, <2>4, <2>5, PairAssumption
         DEF PairInv, TypeOK, SlotInv, InProgress, Engaged
    <2>10. StageInv'
      BY <1>1, <1>2, <1>3, <2>1, <2>2, <2>3, <2>4, <2>5, PairAssumption
         DEF PairInv, TypeOK, StageInv, VisitInv, InProgress, past, proof
    <2>11. AttendedInv'
      BY <1>1, <1>2, <1>3, <2>1, <2>2, <2>3, <2>4, <2>5, PairAssumption
         DEF PairInv, TypeOK, AttendedInv, VisitInv, Attended, InProgress, past, At
    <2>12. ProofInv'
      BY <1>1, <1>2, <1>3, <2>1, <2>2, <2>3, <2>4, <2>5, PairAssumption
         DEF PairInv, TypeOK, ProofInv, InProgress, past, proof
    <2>13. QED
      BY <2>6, <2>7, <2>8, <2>9, <2>10, <2>11, <2>12 DEF PairInv
  <1>5. CASE Delivered(v, visit[v], [h1 EXCEPT !.error = "failed"])
    <2> DEFINE h2 == [h1 EXCEPT !.error = "failed"]
    <2>1. /\ h2 \in FlowObjects /\ h2.step = "external" /\ h2.owner = flow[f].owner
          /\ ~h2.busy /\ h2.error = "failed"
      BY <1>1, <1>2 DEF FlowObjects
    <2> HIDE DEF h2
    <2>2. Finishes(v, visit[v], h2, f)
      BY <1>1, <1>2, <1>3, <2>1 DEF Finishes
    <2>3. QED
      BY <1>5, <2>2, DeliveredKeeps DEF h2
  <1>6. QED
    BY <1>4, <1>5 DEF ExchangeAnswered

LEMMA JournaledKeeps ==
    ASSUME PairInv, NEW v \in Visits, Journaled(v)
    PROVE  PairInv'
  <1> DEFINE f == visit[v].flow
  <1>1. /\ visit[v].pc = "journaling" /\ f \in Flows
        /\ visit[v].kind \in Callbacks /\ flow[f] \in FlowObjects /\ visit[v] \in Tasks
    BY DEF Journaled, PairInv, VisitInv, TypeOK
  <1>2. CASE ~InProgress(f)
    BY <1>1, <1>2, LeavesKeeps DEF Journaled
  <1>3. CASE InProgress(f)
    <2>1. PICK saved \in BOOLEAN : Delivered(v, visit[v], Received(flow[f], saved))
      BY <1>3 DEF Journaled
    <2> DEFINE h2 == Received(flow[f], saved)
    <2>2. /\ h2 \in FlowObjects /\ h2.step = flow[f].step /\ h2.owner = flow[f].owner
          /\ h2.busy = flow[f].busy /\ (h2.error = "none" => h2.result)
      BY <1>1 DEF FlowObjects, Received
    <2>3. f \notin hurried => flow[f].step = "external"
      BY <1>1, <1>3 DEF PairInv, StageInv
    <2>4. ASSUME NEW u \in Visits, visit[u].flow = f
          PROVE  visit[u].pc # "exchanging"
      BY <1>1, <2>4, OneCallback
    <2>5. ~flow[f].busy
      BY <1>1, <2>4 DEF PairInv, TypeOK
    <2>6. flow[f].step \in {"form", "external", "done"}
      BY <1>1, <1>3 DEF FlowObjects, Steps, InProgress
    <2> HIDE DEF h2
    <2>7. Finishes(v, visit[v], h2, f)
      BY <1>1, <2>2, <2>3, <2>4, <2>5, <2>6 DEF Finishes
    <2>8. QED
      BY <2>1, <2>7, DeliveredKeeps DEF h2
  <1>4. QED
    BY <1>2, <1>3

LEMMA DialogTimesOutKeeps ==
    ASSUME PairInv, NEW f \in Flows, DialogTimesOut(f)
    PROVE  PairInv'
  <1> DEFINE h1 == [flow[f] EXCEPT !.step = "done", !.error = "failed"]
  <1>1. /\ flow[f].step = "external" /\ ~flow[f].busy /\ flow[f] \in FlowObjects
        /\ UNCHANGED <<slot, tries, visit, proof, kept, wasLoaded, finished, cut>>
        /\ hurried \subseteq hurried' /\ hurried' \subseteq hurried \cup {f}
    BY DEF DialogTimesOut, PairInv, TypeOK
  <1>2. f \notin hurried' => \A v \in Visits : visit[v].flow = f => visit[v].pc # "journaling"
    BY DEF DialogTimesOut
  <1>3. /\ h1 \in FlowObjects /\ h1.step = "done" /\ h1.error = "failed"
        /\ h1.owner = flow[f].owner /\ h1.busy = flow[f].busy /\ h1.parked = flow[f].parked
    BY <1>1 DEF FlowObjects, Steps
  <1>4. flow' = [flow EXCEPT ![f] = h1]
    BY DEF DialogTimesOut, PairInv, TypeOK
  <1> HIDE DEF h1
  <1>5. TypeOK'
    BY <1>1, <1>2, <1>3, <1>4, PairAssumption
       DEF PairInv, TypeOK, past, proof, InProgress
  <1>6. VisitInv'
    BY <1>1, <1>2, <1>3, <1>4, PairAssumption
       DEF PairInv, TypeOK, VisitInv
  <1>7. GoneInv'
    BY <1>1, <1>2, <1>3, <1>4, PairAssumption
       DEF PairInv, TypeOK, GoneInv, InProgress
  <1>8. SlotInv'
    BY <1>1, <1>2, <1>3, <1>4, PairAssumption
       DEF PairInv, TypeOK, SlotInv, InProgress, Engaged
  <1>9. StageInv'
    BY <1>1, <1>2, <1>3, <1>4, PairAssumption
       DEF PairInv, TypeOK, StageInv, VisitInv, InProgress, past, proof
  <1>10. AttendedInv'
    BY <1>1, <1>2, <1>3, <1>4, PairAssumption
       DEF PairInv, TypeOK, AttendedInv, VisitInv, Attended, InProgress, past, At
  <1>11. ProofInv'
    BY <1>1, <1>2, <1>3, <1>4, PairAssumption
       DEF PairInv, TypeOK, ProofInv, InProgress, past, proof
  <1>12. QED
    BY <1>5, <1>6, <1>7, <1>8, <1>9, <1>10, <1>11 DEF PairInv

LEMMA DialogFinishesKeeps ==
    ASSUME PairInv, NEW v \in Visits, NEW f \in Flows, DialogFinishes(v, f)
    PROVE  PairInv'
  <1> DEFINE w1 == [NoVisit EXCEPT !.flow = f]
  <1>1. visit[v] = NoVisit /\ visit[v].pc = "off"
    BY FreeVisit DEF DialogFinishes
  <1>2. flow[f].step = "done" /\ Finish(v, w1, flow[f]) /\ flow[f] \in FlowObjects
    BY DEF DialogFinishes, PairInv, TypeOK
  <1>3. w1 \in Tasks /\ w1.flow = f /\ w1.kind \notin Callbacks
    BY DEF NoVisit, Tasks, Stages, Callbacks
  <1>4. ASSUME NEW u \in Visits, visit[u].flow = f
        PROVE  visit[u].pc # "exchanging"
    BY <1>2, <1>4 DEF PairInv, StageInv, InProgress
  <1>5. ~flow[f].busy /\ (flow[f].error = "none" => flow[f].result)
    BY <1>2, <1>4 DEF PairInv, TypeOK
  <1> HIDE DEF w1
  <1>6. Finishes(v, w1, flow[f], f)
    BY <1>1, <1>2, <1>3, <1>4, <1>5 DEF Finishes
  <1>7. QED
    BY <1>2, <1>6, FinishKeeps

LEMMA UnattendedWakesKeeps ==
    ASSUME PairInv, NEW v \in Visits, UnattendedWakes(v)
    PROVE  PairInv'
  <1> DEFINE f == visit[v].flow
  <1>1. visit[v].pc = "asleep" /\ f \in Flows /\ flow[f] \in FlowObjects /\ visit[v] \in Tasks
    BY DEF UnattendedWakes, PairInv, VisitInv, TypeOK
  <1>2. CASE flow[f].step # "done"
    <2>1. /\ UNCHANGED <<flow, slot, tries, proof, kept, past>>
          /\ visit' = [visit EXCEPT ![v] = NoVisit]
      BY <1>2 DEF UnattendedWakes
    <2>2. ProofInv'
      BY <2>1 DEF PairInv, ProofInv, InProgress, proof, past
    <2>3. record' \in [Flows -> Records] /\ assured' \subseteq Flows
      BY <2>1 DEF proof, PairInv, TypeOK
    <2>4. UNCHANGED <<slot, tries, watching, told, kept, past>> /\ record' = record
      BY <2>1 DEF proof
    <2>5. QED
      BY <1>1, <1>2, <2>1, <2>2, <2>3, <2>4, DropKeeps
  <1>3. CASE flow[f].step = "done"
    <2>1. ASSUME NEW u \in Visits, visit[u].flow = f
          PROVE  visit[u].pc # "exchanging"
      BY <1>1, <1>3, <2>1 DEF PairInv, StageInv, InProgress
    <2>2. ~flow[f].busy /\ (flow[f].error = "none" => flow[f].result)
      BY <1>1, <1>3, <2>1 DEF PairInv, TypeOK
    <2>3. Finishes(v, visit[v], flow[f], f)
      BY <1>1, <1>3, <2>1, <2>2 DEF Finishes
    <2>4. QED
      BY <1>3, <2>3, FinishKeeps DEF UnattendedWakes
  <1>4. QED
    BY <1>2, <1>3

-----------------------------------------------------------------------------
(* Core and the entry.                                                     *)
LEMMA CommitRegistersKeeps ==
    ASSUME PairInv, NEW v \in Visits, CommitRegisters(v)
    PROVE  PairInv'
  <1>1. /\ UNCHANGED <<flow, slot, tries, visit, proof, past>>
        /\ kept[visit[v].flow] = "none" /\ visit[v].flow \in Flows
        /\ kept' = [kept EXCEPT ![visit[v].flow] = "registered"]
    BY DEF CommitRegisters, PairInv, VisitInv
  <1>2. kept' \in [Flows -> Entries]
    BY <1>1 DEF PairInv, TypeOK, Entries
  <1>3. TypeOK'
    BY <1>1, <1>2
       DEF PairInv, TypeOK, past, proof, InProgress
  <1>4. VisitInv'
    BY <1>1, <1>2
       DEF PairInv, TypeOK, VisitInv
  <1>5. GoneInv'
    BY <1>1, <1>2
       DEF PairInv, TypeOK, GoneInv, InProgress
  <1>6. SlotInv'
    BY <1>1, <1>2
       DEF PairInv, TypeOK, SlotInv, InProgress, Engaged
  <1>7. StageInv'
    BY <1>1, <1>2
       DEF PairInv, TypeOK, StageInv, VisitInv, InProgress, past, proof
  <1>8. AttendedInv'
    BY <1>1, <1>2
       DEF PairInv, TypeOK, AttendedInv, VisitInv, Attended, InProgress, past, At
  <1>9. ProofInv'
    BY <1>1, <1>2
       DEF PairInv, TypeOK, ProofInv, InProgress, past, proof
  <1>10. QED
    BY <1>3, <1>4, <1>5, <1>6, <1>7, <1>8, <1>9 DEF PairInv

LEMMA EntryBecomesKeeps ==
    ASSUME PairInv, NEW f \in Flows, NEW e \in {"loaded", "retry", "dropped"},
           EntryBecomes(f, e), kept[f] \in {"registered", "loaded", "retry"},
           kept[f] # e
    PROVE  PairInv'
  <1>1. /\ UNCHANGED <<flow, slot, tries, visit, assured, finished, cut, hurried>>
        /\ kept' = [kept EXCEPT ![f] = e]
        /\ wasLoaded' = IF e = "loaded" THEN wasLoaded \cup {f} ELSE wasLoaded
    BY DEF EntryBecomes
  <1>2. \/ /\ e = "loaded" /\ f \in watching /\ record[f].removed
           /\ record' = [record EXCEPT ![f].confirmed = TRUE] /\ told' = told \cup {f}
           /\ watching' = watching \ {f}
        \/ /\ ~(e = "loaded" /\ f \in watching /\ record[f].removed)
           /\ record' = record /\ told' = told
           /\ \/ watching' = watching
              \/ e = "dropped" \/ ~record[f].removed
           /\ watching' \in {watching, watching \ {f}}
    BY DEF EntryBecomes, WatcherSees, Confirmed, HasPendingEntry
  <1>3. kept' \in [Flows -> Entries]
    BY <1>1 DEF PairInv, TypeOK, Entries
  <1>4. /\ record' \in [Flows -> Records]
        /\ \A g \in Flows : /\ record'[g].try = record[g].try
                            /\ record'[g].removed = record[g].removed
                            /\ g # f => record'[g] = record[g]
        /\ record'[f].confirmed => record[f].confirmed \/ e = "loaded"
    <2> DEFINE r1 == [record[f] EXCEPT !.confirmed = TRUE]
    <2>1. record[f] \in Records /\ record \in [Flows -> Records]
      BY DEF PairInv, TypeOK
    <2>2. r1 \in Records /\ r1.try = record[f].try /\ r1.removed = record[f].removed
      BY <2>1 DEF Records
    <2>3. record' = record \/ (e = "loaded" /\ record' = [record EXCEPT ![f] = r1])
      BY <1>2, <2>1
    <2> HIDE DEF r1
    <2>4. QED
      BY <2>1, <2>2, <2>3
  <1>5. TypeOK'
    BY <1>1, <1>2, <1>3, <1>4
       DEF PairInv, TypeOK, past, proof, InProgress
  <1>6. VisitInv'
    BY <1>1, <1>2, <1>3, <1>4
       DEF PairInv, TypeOK, VisitInv
  <1>7. GoneInv'
    BY <1>1, <1>2, <1>3, <1>4
       DEF PairInv, TypeOK, GoneInv, InProgress
  <1>8. SlotInv'
    BY <1>1, <1>2, <1>3, <1>4
       DEF PairInv, TypeOK, SlotInv, InProgress, Engaged
  <1>9. StageInv'
    BY <1>1, <1>2, <1>3, <1>4
       DEF PairInv, TypeOK, StageInv, VisitInv, InProgress, past, proof
  <1>10. AttendedInv'
    BY <1>1, <1>2, <1>3, <1>4
       DEF PairInv, TypeOK, AttendedInv, VisitInv, Attended, InProgress, past, At
  <1>11. ProofInv'
    BY <1>1, <1>2, <1>3, <1>4
       DEF PairInv, TypeOK, ProofInv, InProgress, past, proof
  <1>12. QED
    BY <1>5, <1>6, <1>7, <1>8, <1>9, <1>10, <1>11 DEF PairInv

LEMMA CommitEndsKeeps ==
    ASSUME PairInv, NEW v \in Visits, CommitEnds(v)
    PROVE  PairInv'
  <1> DEFINE f == visit[v].flow
             r == RemovedBy(v, f, RecordOf(f, tries[f]))
  <1>1. /\ visit[v].pc = "committing" /\ f \in Flows /\ kept[f] \notin {"none", "registered"}
        /\ visit' = [visit EXCEPT ![v] = NoVisit]
        /\ UNCHANGED <<slot, tries, kept, wasLoaded, cut, hurried>>
    BY DEF CommitEnds, PairInv, VisitInv
  <1>2. CASE ~InProgress(f)
    <2>1. Leaves(v) /\ UNCHANGED <<flow, slot, tries, watching, told, kept, past>>
      BY <1>1, <1>2 DEF CommitEnds, Leaves, past
    <2>2. QED
      BY <1>1, <1>2, <2>1, LeavesKeeps
  <1>3. CASE InProgress(f)
    <2>1. flow[f].owner = v /\ tries[f] > 0 /\ (f \notin hurried => record[f].try = tries[f])
      BY <1>1, <1>3 DEF PairInv, StageInv, SlotInv, Engaged
    <2>2. /\ RecordOf(f, tries[f]) \in Records
          /\ f \notin hurried => RecordOf(f, tries[f]) = record[f] /\ record[f] # NoRecord
          /\ RecordOf(f, tries[f]) # NoRecord => RecordOf(f, tries[f]) = record[f]
      BY <1>1, <2>1 DEF PairInv, TypeOK, RecordOf, NoRecord, Records
    <2>3. r = [RecordOf(f, tries[f]) EXCEPT !.removed = TRUE]
      BY <2>1 DEF RemovedBy
    <2>4. r \in Records /\ r.removed /\ r.try = RecordOf(f, tries[f]).try
      BY <2>2, <2>3 DEF Records
    <2>5. /\ flow' = [flow EXCEPT ![f] = Over] /\ finished' = finished \cup {f}
          /\ told' = IF kept[f] = "loaded" THEN told \cup {f} ELSE told
          /\ watching' = IF kept[f] = "retry" THEN watching \cup {f} ELSE watching
          /\ assured' \in {assured, IF kept[f] = "loaded" THEN assured \cup {f} ELSE assured}
          /\ record' = IF RecordOf(f, tries[f]) = NoRecord THEN record
                       ELSE [record EXCEPT ![f] = [r EXCEPT !.confirmed = (kept[f] = "loaded")]]
      BY <1>1, <1>3, <2>4 DEF CommitEnds, Confirmed, HasPendingEntry
    <2>6. /\ record' \in [Flows -> Records]
          /\ \A g \in Flows : record'[g].try = record[g].try /\ (g # f => record'[g] = record[g])
          /\ f \notin hurried => record'[f].removed
          /\ record'[f].confirmed => record[f].confirmed \/ kept[f] = "loaded"
      <3> DEFINE r1 == [r EXCEPT !.confirmed = (kept[f] = "loaded")]
      <3>1. record[f] \in Records /\ record \in [Flows -> Records]
        BY <1>1 DEF PairInv, TypeOK
      <3>2. r1 \in Records /\ r1.try = r.try /\ r1.removed
            /\ (r1.confirmed => kept[f] = "loaded")
        BY <2>4 DEF Records
      <3>3. \/ record' = record /\ f \in hurried
            \/ record' = [record EXCEPT ![f] = r1] /\ r.try = record[f].try
        BY <2>2, <2>4, <2>5
      <3> HIDE DEF r, r1
      <3>4. QED
        BY <1>1, <3>1, <3>2, <3>3
    <2>7. visit[v].flow = f /\ kept[f] \in {"loaded", "retry", "dropped"}
      BY <1>1 DEF PairInv, TypeOK, Entries
    <2> HIDE DEF f, r
    <2>8. TypeOK'
      BY <1>1, <2>5, <2>6, <2>7, Written, PairAssumption
         DEF PairInv, TypeOK, past, proof, InProgress
    <2>9. VisitInv'
      BY <1>1, <2>5, <2>6, <2>7, Written, PairAssumption
         DEF PairInv, TypeOK, VisitInv
    <2>10. GoneInv'
      BY <1>1, <2>5, <2>6, <2>7, Written, PairAssumption
         DEF PairInv, TypeOK, GoneInv, InProgress
    <2>11. SlotInv'
      BY <1>1, <2>5, <2>6, <2>7, Written, PairAssumption
         DEF PairInv, TypeOK, SlotInv, InProgress, Engaged
    <2>12. StageInv'
      BY <1>1, <2>5, <2>6, <2>7, Written, PairAssumption
         DEF PairInv, TypeOK, StageInv, VisitInv, InProgress, past, proof
    <2>13. AttendedInv'
      BY <1>1, <2>5, <2>6, <2>7, Written, PairAssumption
         DEF PairInv, TypeOK, AttendedInv, VisitInv, Attended, InProgress, past, At
    <2>14. ProofInv'
      BY <1>1, <2>5, <2>6, <2>7, Written, PairAssumption
         DEF PairInv, TypeOK, ProofInv, InProgress, past, proof
    <2>15. QED
      BY <2>8, <2>9, <2>10, <2>11, <2>12, <2>13, <2>14 DEF PairInv
  <1>4. QED
    BY <1>2, <1>3

(* A visit is dropped whose flow keeps its step.                           *)
LEMMA DroppedKeeps ==
    ASSUME PairInv, NEW v \in Visits, NEW f \in Flows, visit[v].flow = f,
           NEW h1 \in FlowObjects,
           flow' = [flow EXCEPT ![f] = h1], visit' = [visit EXCEPT ![v] = NoVisit],
           UNCHANGED <<slot, tries, proof, kept, wasLoaded, finished, hurried>>,
           cut' \in {cut, cut \cup {f}},
           \/ /\ visit[v].pc = "committing"
              /\ \/ h1 = Over /\ flow[f] = Over
                 \/ /\ h1.owner = "ended" /\ h1.step = flow[f].step /\ h1.parked = flow[f].parked
                    /\ h1.busy = flow[f].busy /\ h1.error = flow[f].error
                    /\ h1.result = flow[f].result /\ InProgress(f)
           \/ /\ visit[v].pc # "committing" /\ f \in cut' /\ h1.step = flow[f].step
              /\ h1.parked = flow[f].parked /\ h1.error = flow[f].error
              /\ h1.result = flow[f].result /\ h1.owner = flow[f].owner
              /\ h1.busy = (flow[f].busy /\ visit[v].pc # "exchanging")
              /\ flow[f] = Over => h1 = Over
    PROVE  PairInv'
  <1>1. visit[v].pc = "exchanging" =>
           \A u \in Visits \ {v} : visit[u].flow = f => visit[u].pc # "exchanging"
    BY OneCallback
  <1>2. visit[v].pc = "committing" /\ InProgress(f) => flow[f].owner = v
    BY DEF PairInv, StageInv
  <1>3. h1.step = flow[f].step /\ (h1.busy <=> flow[f].busy /\ visit[v].pc # "exchanging")
    BY Written
  <1>4. cut' \subseteq Flows
    BY DEF PairInv, TypeOK
  <1>5. \A g \in Flows \ {f} : flow[g].owner # v
    BY DEF PairInv, TypeOK
  <1>6. TypeOK'
    BY <1>1, <1>2, <1>3, <1>4, <1>5, Written, PairAssumption
       DEF PairInv, TypeOK, proof, InProgress
  <1>7. VisitInv'
    BY OneCallback, Written, PairAssumption
       DEF PairInv, TypeOK, VisitInv
  <1>8. GoneInv'
    BY OneCallback, Written, PairAssumption
       DEF PairInv, TypeOK, GoneInv, InProgress
  <1>9. SlotInv'
    BY OneCallback, Written, PairAssumption
       DEF PairInv, TypeOK, SlotInv, InProgress, Engaged
  <1>10. StageInv'
    BY OneCallback, Written, PairAssumption
       DEF PairInv, TypeOK, StageInv, VisitInv, InProgress, past, proof
  <1>11. AttendedInv'
    BY OneCallback, Written, PairAssumption
       DEF PairInv, TypeOK, AttendedInv, VisitInv, Attended, InProgress, past, At
  <1>12. ProofInv'
    BY OneCallback, Written, PairAssumption
       DEF PairInv, TypeOK, ProofInv, InProgress, past, proof
  <1>13. QED
    BY <1>6, <1>7, <1>8, <1>9, <1>10, <1>11, <1>12 DEF PairInv

LEMMA CommitRaisesKeeps ==
    ASSUME PairInv, NEW v \in Visits, CommitRaises(v)
    PROVE  PairInv'
  <1> DEFINE f == visit[v].flow
             h1 == OwnerEnds(flow[f])
  <1>1. visit[v].pc = "committing" /\ f \in Flows /\ flow[f] \in FlowObjects
    BY DEF CommitRaises, PairInv, VisitInv, TypeOK
  <1>2. /\ flow' = [flow EXCEPT ![f] = h1] /\ visit' = [visit EXCEPT ![v] = NoVisit]
        /\ UNCHANGED <<slot, tries, proof, kept, past>>
    BY <1>1 DEF CommitRaises, PairInv, TypeOK
  <1>3. UNCHANGED <<slot, tries, proof, kept, wasLoaded, finished, hurried>> /\ cut' = cut
    BY <1>2 DEF past
  <1>4. \/ h1 = Over /\ flow[f] = Over
        \/ /\ h1 \in FlowObjects /\ h1.owner = "ended" /\ h1.step = flow[f].step
           /\ h1.parked = flow[f].parked /\ h1.busy = flow[f].busy
           /\ h1.error = flow[f].error /\ h1.result = flow[f].result /\ flow[f] # Over
    BY <1>1, WrittenOwner DEF OwnerEnds
  <1>5. InProgress(f) \/ flow[f] = Over
    BY <1>1 DEF PairInv, GoneInv
  <1> HIDE DEF h1
  <1>6. QED
    BY <1>1, <1>2, <1>3, <1>4, <1>5, Written, DroppedKeeps

LEMMA CutKeeps ==
    ASSUME PairInv, NEW v \in Visits, Cut(v)
    PROVE  PairInv'
  <1> DEFINE f == visit[v].flow
             h1 == IF visit[v].pc = "committing" THEN OwnerEnds(flow[f])
                   ELSE [flow[f] EXCEPT !.busy = flow[f].busy /\ visit[v].pc # "exchanging"]
  <1>1. visit[v].pc # "off" /\ f \in Flows /\ flow[f] \in FlowObjects
    BY DEF Cut, PairInv, VisitInv, TypeOK
  <1>2. /\ flow' = [flow EXCEPT ![f] = h1] /\ visit' = [visit EXCEPT ![v] = NoVisit]
        /\ UNCHANGED <<slot, tries, proof, kept, wasLoaded, finished, hurried>>
        /\ cut' = cut \cup {f}
    BY DEF Cut
  <1>3. CASE visit[v].pc = "committing"
    <2>1. \/ h1 = Over /\ flow[f] = Over
          \/ /\ h1 \in FlowObjects /\ h1.owner = "ended" /\ h1.step = flow[f].step
             /\ h1.parked = flow[f].parked /\ h1.busy = flow[f].busy
             /\ h1.error = flow[f].error /\ h1.result = flow[f].result /\ flow[f] # Over
      BY <1>1, <1>3, WrittenOwner DEF OwnerEnds
    <2>2. InProgress(f) \/ flow[f] = Over
      BY <1>1 DEF PairInv, GoneInv
    <2> HIDE DEF h1
    <2>3. QED
      BY <1>1, <1>2, <1>3, <2>1, <2>2, Written, DroppedKeeps
  <1>4. CASE visit[v].pc # "committing"
    <2>1. /\ h1 \in FlowObjects /\ h1.step = flow[f].step /\ h1.owner = flow[f].owner
          /\ h1.parked = flow[f].parked /\ h1.error = flow[f].error
          /\ h1.result = flow[f].result
          /\ h1.busy = (flow[f].busy /\ visit[v].pc # "exchanging")
      BY <1>1, <1>4 DEF FlowObjects
    <2>2. flow[f] = Over => h1 = Over
      BY <1>1, <1>4 DEF Over, NewFlow
    <2> HIDE DEF h1
    <2>3. QED
      BY <1>1, <1>2, <1>4, <2>1, <2>2, DroppedKeeps
  <1>5. QED
    BY <1>3, <1>4

-----------------------------------------------------------------------------
LEMMA PairInit == ASSUME Init PROVE PairInv
  <1>1. /\ \A f \in Flows : flow[f] = NewFlow /\ tries[f] = 0 /\ record[f] = NoRecord
                            /\ kept[f] = "none"
        /\ \A v \in Visits : visit[v] = NoVisit
        /\ told = {} /\ assured = {} /\ finished = {}
    BY DEF Init
  <1>2. /\ NewFlow \in FlowObjects /\ NewFlow.step = "form" /\ NewFlow.owner = None
        /\ ~NewFlow.busy
    BY DEF NewFlow, FlowObjects, Steps
  <1>3. NoRecord \in Records /\ ~NoRecord.removed /\ ~NoRecord.confirmed
    BY DEF NoRecord, Records
  <1>4. TypeOK
    BY <1>1, <1>2, <1>3, Written, PairAssumption DEF Init, TypeOK, Entries
  <1>5. VisitInv /\ GoneInv /\ SlotInv /\ StageInv
    BY <1>1, <1>2, Written, PairAssumption
       DEF VisitInv, GoneInv, SlotInv, StageInv, InProgress, Engaged
  <1>6. AttendedInv /\ ProofInv
    BY <1>1, <1>3, PairAssumption DEF Init, AttendedInv, ProofInv
  <1>7. QED
    BY <1>4, <1>5, <1>6 DEF PairInv

LEMMA PairNext == ASSUME PairInv, [Next]_vars PROVE PairInv'
  <1>1. CASE UNCHANGED vars
    <2>1. TypeOK'
      BY <1>1 DEF PairInv, vars, TypeOK, past, proof, InProgress
    <2>2. VisitInv'
      BY <1>1 DEF PairInv, vars, VisitInv
    <2>3. GoneInv'
      BY <1>1 DEF PairInv, vars, GoneInv, InProgress
    <2>4. SlotInv'
      BY <1>1 DEF PairInv, vars, SlotInv, InProgress, Engaged
    <2>5. StageInv'
      BY <1>1 DEF PairInv, vars, StageInv, InProgress, past, proof
    <2>6. AttendedInv'
      BY <1>1 DEF PairInv, vars, AttendedInv, Attended, InProgress, past, At
    <2>7. ProofInv'
      BY <1>1 DEF PairInv, vars, ProofInv, InProgress, past, proof
    <2>8. QED
      BY <2>1, <2>2, <2>3, <2>4, <2>5, <2>6, <2>7 DEF PairInv
  <1>2. ASSUME NEW v \in Visits, Proceeds(v) \/ Cut(v)
        PROVE  PairInv'
    BY <1>2, SessionAnsweredKeeps, ExchangeAnsweredKeeps, ExchangeReleasedKeeps,
       JournaledKeeps, UnattendedWakesKeeps, CommitRegistersKeeps, CommitEndsKeeps,
       CommitRaisesKeeps, WaitEndsKeeps, CutKeeps DEF Proceeds
  <1>3. ASSUME NEW v \in Visits, NEW f \in Flows,
               \/ Start(v, f) \/ DialogFinishes(v, f)
               \/ \E kind \in Callbacks : CallbackArrives(v, f, kind)
        PROVE  PairInv'
    BY <1>3, StartKeeps, DialogFinishesKeeps, CallbackArrivesKeeps
  <1>4. ASSUME NEW f \in Flows, Cancel(f) \/ Cleanup(f)
        PROVE  PairInv'
    BY <1>4, RemovalKeeps DEF Cancel, Cleanup
  <1>5. ASSUME NEW f \in Flows, SetupEnds(f) \/ EntryChanges(f)
        PROVE  PairInv'
    BY <1>5, EntryBecomesKeeps DEF SetupEnds, EntryChanges
  <1>6. ASSUME NEW f \in Flows,
               \/ StartRefused(f) \/ StartEnds(f) \/ CallbackRepeated(f)
               \/ DialogTimesOut(f)
        PROVE  PairInv'
    BY <1>6, StartRefusedKeeps, StartEndsKeeps, CallbackRepeatedKeeps, DialogTimesOutKeeps
  <1>7. QED
    BY <1>1, <1>2, <1>3, <1>4, <1>5, <1>6 DEF Next

LEMMA PairAlways == Spec => []PairInv
  <1>1. Init => PairInv
    BY PairInit
  <1>2. PairInv /\ [Next]_vars => PairInv'
    BY PairNext
  <1>3. QED
    BY <1>1, <1>2, PTL DEF Spec

(* The state is well typed, a flow at its finish has something to show,    *)
(* its guard of the exchange is up exactly while a callback exchanges its  *)
(* code, and the owner of a finish commits it (config_flow.py).            *)
THEOREM TypeCorrect == Spec => []TypeOK
  <1>1. PairInv => TypeOK
    BY DEF PairInv
  <1>2. QED
    BY <1>1, PairAlways, PTL

(* However many flows compete and callbacks, dialogs and unattended tasks  *)
(* meet, one visit at most rotates credentials, and no other flow may take *)
(* its slot (_claim_pairing_slot, _finish_quick_pair_once).                *)
THEOREM OneRotation == Spec => []RotationIsExclusive
  <1>1. ASSUME PairInv PROVE RotationIsExclusive
    <2>1. ASSUME NEW v \in Rotating
          PROVE  /\ v \in Visits /\ visit[v].flow \in Flows
                 /\ slot = visit[v].flow /\ ~flow[slot].parked
                 /\ \/ /\ visit[v].pc \in {"exchanging", "journaling"}
                       /\ flow[slot].step = "external"
                    \/ flow[slot].step = "done" /\ flow[slot].owner = v
      <3>1. /\ v \in Visits /\ visit[v].flow \in Flows /\ InProgress(visit[v].flow)
            /\ visit[v].pc \in {"exchanging", "journaling", "committing"}
            /\ visit[v].flow \notin hurried
        BY <1>1, <2>1 DEF Rotating, PairInv, VisitInv
      <3>2. slot = visit[v].flow
        BY <1>1, <3>1 DEF PairInv, SlotInv, Engaged
      <3>3. QED
        BY <1>1, <3>1, <3>2 DEF PairInv, StageInv
    <2>2. ASSUME NEW v \in Rotating, NEW u \in Rotating
          PROVE  u = v
      <3>1. visit[u].flow = visit[v].flow /\ u \in Visits /\ v \in Visits
        BY <2>1
      <3>2. CASE flow[slot].step = "external"
        BY <1>1, <2>1, <3>1, <3>2, OneCallback
      <3>3. CASE flow[slot].step # "external"
        BY <2>1, <3>3
      <3>4. QED
        BY <3>2, <3>3
    <2>3. QED
      BY <2>1, <2>2 DEF RotationIsExclusive
  <1>2. QED
    BY <1>1, PairAlways, PTL

(* No flow waits for a user with the slot closed to others: it is being    *)
(* worked on, or its clean-up is due (_reshow_seamless_form, the callback  *)
(* view, _cleanup_abandoned_finish).                                       *)
THEOREM SlotIsAttended == Spec => []SlotIsNotAbandoned
  <1>1. PairInv => SlotIsNotAbandoned
    BY DEF PairInv, AttendedInv, Attended, At, SlotIsNotAbandoned
  <1>2. QED
    BY <1>1, PairAlways, PTL

(* Success is announced, or a callback is answered with it, only after the *)
(* finishing task removed its flow and the entry was loaded; and whoever   *)
(* finishes is told once it is (_confirm_quick_pair_completed,             *)
(* _watch_pairing_entry).                                                  *)
THEOREM SuccessIsEarned == Spec => []SuccessIsProven
  <1>1. ASSUME PairInv PROVE SuccessIsProven
    <2>1. told \cup assured \subseteq Flows /\ finished \subseteq Flows
      BY <1>1 DEF PairInv, TypeOK
    <2>2. QED
      BY <1>1, <2>1 DEF PairInv, ProofInv, SuccessIsProven
  <1>2. QED
    BY <1>1, PairAlways, PTL
=============================================================================

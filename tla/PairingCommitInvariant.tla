----------------------- MODULE PairingCommitInvariant -----------------------
(***************************************************************************)
(* The inductive invariant of PairingCommit: what its safety properties    *)
(* rest on.  PairInv suffices for the records to precede the entry on      *)
(* disk; IInv says in addition that what is on disk leads back to the      *)
(* connection in use.                                                      *)
(***************************************************************************)
EXTENDS PairingCommit

(* Candidates the backend has decided about.                               *)
Decided(s) == back[s] \in {"committed", "dead"}

(* Workers that are past a certain stage know what they work on.           *)
Works(t) == t.pc \in {"loop", "poll", "commit", "won", "refused"} \/ t.then = "loop"
               => t.session \in Sessions
Walks(w) == w.pc \in {"cancel", "answered", "saving"} => w.cur \in Sessions
WorkInv == Works(task) /\ \A p \in Passes : Walks(pass[p])

TypeInv == TypeOK /\ WorkInv

(* A session is unknown to the backend exactly until its flow starts, and  *)
(* nothing refers to it before.                                            *)
KnownInv ==
    /\ \A s \in Sessions : flow[s] = "idle" <=> back[s] = "none"
    /\ \A s \in Sessions :
          \/ s \in {entry, saved, task.session}
          \/ s \in Journaled(journal) \cup Journaled(file)
          \/ \E p \in Passes : s = pass[p].cur \/ s \in pass[p].todo
          => back[s] # "none"

(* What a refusal may restore is decided, and who waits for an open        *)
(* candidate would restore that candidate.                                 *)
MarkerFits(m) ==
    /\ m.previous \in Sessions => Decided(m.previous)
    /\ m.pending # None => m.pendingPrevious = m.pending
MarkersInv ==
    /\ \A s \in Sessions : MarkerFits(journal[s]) /\ MarkerFits(file[s])
    /\ MarkerFits(task.marker)

(* Only what is decided is resolved.                                       *)
OutcomeInv ==
    /\ task.pc \in {"won", "refused"} => Decided(task.session)
    /\ \A p \in Passes : pass[p].pc = "answered" => Decided(pass[p].cur)

(* The record of an open candidate is not taken back, and a flow goes on   *)
(* only with a record on disk.                                             *)
RecordInv ==
    \A s \in Sessions : back[s] = "issued" =>
        /\ s \in Journaled(file) => s \in Journaled(journal)
        /\ flow[s] = "recording" => s \in Journaled(journal)
        /\ flow[s] \in {"ready", "adding"} => s \in Journaled(file)

PairInv ==
    /\ TypeInv /\ KnownInv /\ MarkersInv /\ OutcomeInv /\ RecordInv
    /\ JournaledBeforeSaved

-----------------------------------------------------------------------------
(* Chains.  What is on disk leads back to the connection in use because of *)
(* how the records hang together: each one names the candidate it waits    *)
(* for, or the connection its refusal restores.                            *)

(* A candidate of K started later is committed: s no longer matters.       *)
Overtaken(b, K, s) == \E u \in K : b[u] = "committed" /\ Earlier(s, u)

(* The record of t names the candidate of K right before t, or none when t *)
(* is the first.                                                           *)
Linked(j, K, t) ==
    IF j[t].pending = None
    THEN \A u \in K : u = t \/ Earlier(t, u)
    ELSE /\ j[t].pending \in K
         /\ Earlier(j[t].pending, t)
         /\ \A u \in K : Earlier(u, t) => u = j[t].pending \/ Earlier(u, j[t].pending)

(* A chain K below the connection c, given the backend's records b, its    *)
(* connection a, the journal j, and the candidates A that may still be     *)
(* committed: c is the latest of K; what is not committed is linked; only  *)
(* the connection in use is the last committed one; if none of K is        *)
(* committed, the first one restores the connection in use; whatever may   *)
(* still be committed is in K, and would be the last committed one.        *)
Chain(b, a, j, c, A, K) ==
    /\ c \in K /\ \A t \in K : t = c \/ Earlier(t, c)
    /\ \A t \in K : b[t] = "committed" \/ Linked(j, K, t)
    /\ \A t \in K : b[t] = "committed" => t = a \/ Overtaken(b, K, t)
    /\ \A t \in K : j[t].pending = None =>
          j[t].previous = a \/ a = None \/ \E u \in K : b[u] = "committed"
    /\ \A s \in A : s \in K /\ ~Overtaken(b, K, s)
Sound(b, a, j, c, A) == \E K \in SUBSET Journaled(j) : Chain(b, a, j, c, A, K)

(* A connection without a record is the one in use, and stays it.          *)
Settles(a, j, c, A) == c \notin Journaled(j) /\ (c = a \/ a = None) /\ A = {}
Fine(b, a, j, c, A) == c = "gone" \/ Settles(a, j, c, A) \/ Sound(b, a, j, c, A)
Lost(b, j, c) == c \in Sessions /\ b[c] = "dead" /\ c \notin Journaled(j)

(* The open candidates that a request under way may commit; that the task  *)
(* may still ask to commit with the record it has read; that are left to   *)
(* resolve when a flow pairs on top of the entry.                          *)
Committable == {s \in Sessions : /\ back[s] = "issued"
                                 /\ s \in loose \/ (task.pc = "commit" /\ task.session = s)}
Carried == Committable \cup
    {s \in Sessions : back[s] = "issued" /\ task.pc \in {"poll", "commit"} /\ task.session = s}
Pending == Carried \cup {s \in Sessions : back[s] = "issued" /\ entry = s}

(* What HA has saved, what it has in memory, and what a flow is about to   *)
(* pair leads to the connection in use, by the journal in memory and by    *)
(* its file, as a save of either may be cut off.  Only a saved entry that  *)
(* the memory has left, and an entry being removed, may be lost.           *)
SavedOK(j) == \/ Fine(back, active, j, saved, Committable)
              \/ Lost(back, j, saved) /\ (leaving \/ entry # saved)
EntryOK(j) == \/ Fine(back, active, j, entry, Carried)
              \/ Lost(back, j, entry) /\ leaving
SavedInv == SavedOK(journal) /\ SavedOK(file)
EntryInv == EntryOK(journal) /\ EntryOK(file)
FlowOK(f) ==
    /\ flow[f] = "recording" /\ f \notin gone => Sound(back, active, journal, f, Pending)
    /\ flow[f] = "ready" => /\ Sound(back, active, journal, f, Pending)
                            /\ Sound(back, active, file, f, Pending)
FlowInv == leaving \/ entry = "gone" \/ \A f \in Sessions : FlowOK(f)

(* A commit under way is not for a newer candidate than the task's.        *)
AnchorInv == \A s \in Committable : \A t \in Carried : ~Earlier(t, s)
ChainInv == SavedInv /\ EntryInv /\ FlowInv /\ AnchorInv

(* The record of the entry in memory is on disk.                           *)
FiledInv == entry \in Journaled(journal) => entry \in Journaled(file)

(* The connection in use is one the backend committed, if it is a          *)
(* candidate; without one, none was committed.                             *)
BackInv == /\ active \in Sessions => back[active] = "committed"
           /\ active = None => \A s \in Sessions : back[s] # "committed"

(* An answer that waits for the journal is what the backend has recorded.  *)
VerdictInv ==
    /\ task.pc = "won" => back[task.session] = "committed"
    /\ task.pc = "refused" => back[task.session] = "dead"
    /\ \A p \in Passes : pass[p].pc = "answered" =>
          back[pass[p].cur] = (IF pass[p].committed THEN "committed" ELSE "dead")

(* A candidate whose flow has not handed it to the entry is nowhere but in *)
(* the journal, and nothing would restore it or waits for it.              *)
Early == {"idle", "exchanged", "recording", "ready", "reshown"}
Avoids(m, f) == f # m.previous /\ f # m.pending
Fresh(f) ==
   /\ back[f] # "committed" /\ f \notin loose \cup {entry, saved, task.session}
   /\ \A s \in Sessions : Avoids(journal[s], f) /\ Avoids(file[s], f)
   /\ Avoids(task.marker, f)
   /\ flow[f] \in {"idle", "exchanged"} => f \notin Journaled(journal) \cup Journaled(file)
FreshInv == \A f \in Sessions : flow[f] \in Early => Fresh(f)

(* Flows start in order, and record in order.                              *)
OrderInv == /\ \A s, t \in Sessions : flow[s] # "idle" /\ Earlier(t, s) => flow[t] # "idle"
            /\ \A f \in Sessions : flow[f] = "exchanged" =>
                  \A s \in Journaled(journal) \cup Journaled(file) : Earlier(s, f)

(* One flow pairs at a time, and one that is ready is not removed.         *)
SlotInv == /\ \A s, t \in Sessions : Alive(s) /\ Alive(t) => s = t
           /\ \A s \in Sessions : flow[s] = "ready" => s \notin gone

(* Records wait for older ones that are there, and restore connections     *)
(* that have none; also when one book lags behind the other.               *)
LinkOK(j) == \A t \in Sessions : j[t].pending # None =>
                 j[t].pending \in Journaled(j) /\ Earlier(j[t].pending, t)
PreviousOK(j) == \A t \in Journaled(j) : j[t].previous \notin Journaled(j)
LinkInv == /\ LinkOK(journal) /\ LinkOK(file) /\ PreviousOK(journal) /\ PreviousOK(file)
AcrossInv ==
    \A t \in Journaled(journal) \cap Journaled(file) :
        /\ journal[t].pending # None => journal[t].pending \in Journaled(file)
        /\ journal[t].previous \in Journaled(file) => back[journal[t].previous] = "committed"

(* While the entry is being removed, its task is gone.                     *)
LeavingInv == leaving => /\ Present /\ ~reload
                         /\ task.pc = "off" /\ pass["commit"].pc = "off"

(* A record the task has read without a candidate to wait for is still     *)
(* what the journal says, and the task's own entry stays journaled.        *)
TaskInv == task.pc \in {"poll", "commit", "won", "refused"} =>
   /\ task.session \in Journaled(journal) /\ task.marker.pending = None
         => journal[task.session] = task.marker
   /\ entry = task.session => task.session \in Journaled(journal)
   /\ task.pc # "poll" => task.marker.pending = None

(* What a pass cancels has no flow, and the entry does not carry it as     *)
(* long as it is journaled.                                                *)
PassInv == \A p \in Passes : pass[p].pc \in {"cancel", "answered"} =>
    /\ ~Alive(pass[p].cur)
    /\ pass[p].cur \in Journaled(journal) => entry # pass[p].cur \/ leaving

(* All that holds of a pairing besides what is saved where, also after a   *)
(* restart that met the saved entry stranded.                              *)
SideInv ==
    /\ BackInv /\ VerdictInv /\ FreshInv /\ OrderInv /\ SlotInv
    /\ LinkInv /\ AcrossInv /\ LeavingInv /\ TaskInv /\ PassInv
KeptInv == struck \/ (ChainInv /\ FiledInv)

IInv == PairInv /\ SideInv /\ KeptInv
=============================================================================

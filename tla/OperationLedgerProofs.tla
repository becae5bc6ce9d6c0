----------------------- MODULE OperationLedgerProofs ------------------------
(***************************************************************************)
(* Proofs about OperationLedger for every set of handlers, keys, requests, *)
(* grants and answers.                                                     *)
(***************************************************************************)
EXTENDS OperationLedger, TLAPS

(* The types of what the steps write.                                      *)
LEMMA FingerprintType ==
    ASSUME NEW m \in Message
    PROVE  Fingerprint(m) \in Fingerprints
  BY UnrestrictedIsScope DEF Message, Fingerprint, Fingerprints

(* What a load makes of the file is a well-typed table.                    *)
LEMMA TableType ==
    ASSUME TypeOK
    PROVE  Table \in [Keys -> RowsOf(Statuses)]
  BY DEF TypeOK, Table, Parse, RowsOf, Statuses, NoRow, Frozen

(* A row whose status, or answer, is replaced stays a row.                 *)
LEMMA RowUpdateType ==
    ASSUME NEW row \in RowsOf(Statuses), NEW status \in Statuses,
           NEW result \in Results \cup {None}
    PROVE  /\ [row EXCEPT !.status = status] \in RowsOf(Statuses)
           /\ [row EXCEPT !.status = status, !.result = result] \in RowsOf(Statuses)
  BY DEF RowsOf

(* What a refused claim is answered is a reply.                            *)
LEMMA VerdictType ==
    ASSUME NEW row \in RowsOf(Statuses), NEW fp
    PROVE  Verdict(row, fp) \in Reply
  BY DEF Verdict, RowsOf, Reply, Say, Answer

(* A handler past "idle" has a message, one at the ledger has a key.       *)
AtLedger == {"claim", "claimSave", "mark", "markSave", "complete", "completeSave"}
MessageInv ==
    \A h \in Handlers : /\ pc[h] # "idle" => msg[h] \in Message
                        /\ pc[h] \in AtLedger => KeyOf(h) \in Keys

(* The empty ledger is well typed.                                         *)
LEMMA InitMessage == Init => TypeOK /\ MessageInv
  <1> SUFFICES ASSUME Init PROVE TypeOK /\ MessageInv
    OBVIOUS
  <1>1. NoRow \in RowsOf(Statuses) /\ NoRow \in RowsOf(Statuses \cup {"garbled"})
    BY DEF NoRow, RowsOf, Statuses
  <1>2. Say("none") \in Reply
    BY DEF Say, Reply
  <1>3. TypeOK
    BY <1>1, <1>2 DEF Init, TypeOK, Stages
  <1>4. MessageInv
    BY DEF Init, MessageInv, AtLedger
  <1>5. QED
    BY <1>3, <1>4

(* Every step of a handler, and of its environment, keeps the types.       *)
LEMMA StepMessage == TypeOK /\ MessageInv /\ [Next]_vars => (TypeOK /\ MessageInv)'
  <1> SUFFICES ASSUME TypeOK, MessageInv, [Next]_vars
               PROVE  (TypeOK /\ MessageInv)'
    OBVIOUS
  <1> USE DEF TypeOK, MessageInv, AtLedger, Stages, KeyOf, Goto, Finish, Release,
              store
  <1>t. \A kind \in {"none", "result", "conflict", "pending", "unknown",
                     "grant_changed", "error"} : Say(kind) \in Reply
    BY DEF Say, Reply
  <1>u. \A r \in Results \cup {None} : Answer(r) \in Reply
    BY DEF Answer, Reply
  <1>f. \A m \in Message : Fingerprint(m) \in Fingerprints
    BY FingerprintType
  <1>tab. Table \in [Keys -> RowsOf(Statuses)]
    BY TableType
  <1>1. ASSUME NEW h \in Handlers, NEW k \in Keys \cup {None}, NEW q \in Requests,
               Arrive(h, k, q)
        PROVE  (TypeOK /\ MessageInv)'
    <2>1. [key |-> k, req |-> q, scope |-> scope] \in Message
      BY DEF Message
    <2>2. /\ msg' = [msg EXCEPT ![h] = [key |-> k, req |-> q, scope |-> scope]]
          /\ pc' \in [Handlers -> Stages] /\ called' \in SUBSET Handlers
      BY <1>1 DEF Arrive
    <2>3. TypeOK'
      BY <1>1, <2>1, <2>2 DEF Arrive
    <2>4. MessageInv'
      <3> SUFFICES ASSUME NEW g \in Handlers
                   PROVE  /\ pc'[g] # "idle" => msg'[g] \in Message
                          /\ pc'[g] \in AtLedger => msg'[g].key \in Keys
        OBVIOUS
      <3>1. CASE g = h
        BY <1>1, <2>1, <2>2, <3>1 DEF Arrive
      <3>2. CASE g # h
        BY <1>1, <3>2 DEF Arrive
      <3>3. QED
        BY <3>1, <3>2
    <2>5. QED
      BY <2>3, <2>4
  <1>2. ASSUME NEW h \in Handlers, Claim(h)
        PROVE  (TypeOK /\ MessageInv)'
    <2>1. rows' \in [Keys -> RowsOf(Statuses)]
      <3>1. [status |-> "claimed", fp |-> FpOf(h), result |-> None] \in RowsOf(Statuses)
        BY <1>2, <1>f DEF Claim, FpOf, RowsOf, Statuses
      <3>2. QED
        BY <1>2, <1>tab, <3>1 DEF Claim
    <2>2. QED
      BY <1>2, <2>1 DEF Claim
  <1>3. ASSUME NEW h \in Handlers, ClaimRefused(h)
        PROVE  (TypeOK /\ MessageInv)'
    <2>1. Verdict(Table[KeyOf(h)], FpOf(h)) \in Reply
      BY <1>3, <1>tab, VerdictType DEF ClaimRefused
    <2>2. reply' \in [Handlers -> Reply]
      BY <1>3, <2>1, <1>t DEF ClaimRefused
    <2>3. QED
      BY <1>3, <2>2, <1>tab DEF ClaimRefused
  <1>4. ASSUME NEW h \in Handlers, LoadFails(h)
        PROVE  (TypeOK /\ MessageInv)'
    BY <1>4, <1>t DEF LoadFails
  <1>5. ASSUME NEW h \in Handlers, WriteLands(h)
        PROVE  (TypeOK /\ MessageInv)'
    BY <1>5 DEF WriteLands, RowsOf
  <1>6. ASSUME NEW h \in Handlers, ClaimSaved(h)
        PROVE  (TypeOK /\ MessageInv)'
    BY <1>6, <1>t DEF ClaimSaved
  <1>7. ASSUME NEW h \in Handlers, SaveRaises(h)
        PROVE  (TypeOK /\ MessageInv)'
    BY <1>7, <1>t DEF SaveRaises, Saving
  <1>8. ASSUME NEW h \in Handlers, MarkDispatched(h)
        PROVE  (TypeOK /\ MessageInv)'
    <2>1. rows' \in [Keys -> RowsOf(Statuses)]
      <3>1. "dispatched" \in Statuses
        BY DEF Statuses
      <3>2. [rows[KeyOf(h)] EXCEPT !.status = "dispatched"] \in RowsOf(Statuses)
        BY <1>8, <3>1, RowUpdateType DEF MarkDispatched
      <3>3. QED
        BY <1>8, <3>2 DEF MarkDispatched
    <2>2. QED
      BY <1>8, <2>1, <1>t DEF MarkDispatched
  <1>9. ASSUME NEW h \in Handlers, Dispatch(h)
        PROVE  (TypeOK /\ MessageInv)'
    BY <1>9, <1>t DEF Dispatch
  <1>10. ASSUME NEW h \in Handlers, NEW r \in Results, HaAnswers(h, r)
         PROVE  (TypeOK /\ MessageInv)'
    <2>1. pc[h] = "dispatching" /\ msg[h] \in Message
      BY <1>10 DEF HaAnswers
    <2>2. QED
      <3>1. KeyOf(h) \in Keys \cup {None}
        BY <2>1 DEF Message
      <3>2. reply' \in [Handlers -> Reply] /\ pc' \in [Handlers -> Stages]
        BY <1>10, <1>t, <1>u DEF HaAnswers
      <3>3. answer' \in [Handlers -> Results \cup {None}]
        BY <1>10 DEF HaAnswers
      <3>4. MessageInv'
        BY <1>10, <2>1, <3>1 DEF HaAnswers
      <3>5. QED
        BY <1>10, <3>2, <3>3, <3>4 DEF HaAnswers
  <1>11. ASSUME NEW h \in Handlers, HaRaises(h)
         PROVE  (TypeOK /\ MessageInv)'
    BY <1>11, <1>t DEF HaRaises
  <1>12. ASSUME NEW h \in Handlers, Complete(h)
         PROVE  (TypeOK /\ MessageInv)'
    <2>1. rows' \in [Keys -> RowsOf(Statuses)]
      <3>1. "completed" \in Statuses
        BY DEF Statuses
      <3>2. [rows[KeyOf(h)] EXCEPT !.status = "completed", !.result = answer[h]]
              \in RowsOf(Statuses)
        BY <1>12, <3>1, RowUpdateType DEF Complete
      <3>3. QED
        BY <1>12, <3>2 DEF Complete
    <2>2. QED
      BY <1>12, <2>1, <1>t DEF Complete
  <1>13. ASSUME NEW h \in Handlers, CompleteSaved(h)
         PROVE  (TypeOK /\ MessageInv)'
    BY <1>13, <1>t, <1>u DEF CompleteSaved
  <1>14. ASSUME NEW h \in Handlers, Cancel(h)
         PROVE  (TypeOK /\ MessageInv)'
    BY <1>14 DEF Cancel, LetGo
  <1>15. CASE Restart
    BY <1>15 DEF Restart, RowsOf, Statuses, NoRow
  <1>16. ASSUME NEW k \in Keys, Damage(k)
         PROVE  (TypeOK /\ MessageInv)'
    BY <1>16 DEF Damage, RowsOf, Garbled
  <1>17. ASSUME NEW s \in Scopes, ChangeGrant(s)
         PROVE  (TypeOK /\ MessageInv)'
    BY <1>17 DEF ChangeGrant
  <1>18. CASE UNCHANGED vars
    BY <1>18 DEF vars
  <1>19. QED
    BY <1>1, <1>2, <1>3, <1>4, <1>5, <1>6, <1>7, <1>8, <1>9, <1>10, <1>11, <1>12,
       <1>13, <1>14, <1>15, <1>16, <1>17, <1>18 DEF Next, Progress

(* Every variable keeps its type, for all values of the constants.         *)
THEOREM TypeCorrect == Spec => []TypeOK
  <1>1. Init => TypeOK /\ MessageInv
    BY InitMessage
  <1>2. TypeOK /\ MessageInv /\ [Next]_vars => (TypeOK /\ MessageInv)'
    BY StepMessage
  <1>3. QED
    BY <1>1, <1>2, PTL DEF Spec

-----------------------------------------------------------------------------
(* The inductive invariant behind at-most-once dispatch.                   *)

(* The lock is held exactly while a save is in progress, and a write that  *)
(* has landed is the table in memory.                                      *)
LockInv ==
    /\ \A h \in Handlers : pc[h] \in Saving <=> lock = h
    /\ landed => lock # None /\ disk = rows

(* Whoever works on a key does so on a loaded table.                       *)
LoadedInv ==
    /\ \A h \in Handlers : pc[h] \in Working /\ Keyed(h) => loaded
    /\ ~loaded => owned = {}

(* Where a handler is says what its row looks like.                        *)
RowInv ==
    /\ \A k \in owned : rows[k].status = "claimed"
    /\ \A h \in Handlers : Keyed(h) =>
          /\ pc[h] \in {"claimSave", "mark"} => KeyOf(h) \in owned
          /\ pc[h] \in {"markSave", "dispatching", "complete"}
               => rows[KeyOf(h)].status = "dispatched"
          /\ pc[h] = "completeSave" => rows[KeyOf(h)].status = "completed"

(* The history of dispatches agrees with where the handlers are.           *)
CalledInv ==
    \A h \in Handlers :
        /\ h \in called => pc[h] \in {"dispatching", "complete", "completeSave", "done"}
        /\ pc[h] \in {"dispatching", "complete", "completeSave"} => h \in called
        /\ h \in called /\ Keyed(h) => KeyOf(h) \in Keys

(* A dispatched key is fenced on disk and in memory, and the handler about *)
(* to dispatch is the first one to do so.                                  *)
FenceInv ==
    /\ \A h \in called : Keyed(h) => /\ Fenced(disk[KeyOf(h)])
                                     /\ loaded => Fenced(rows[KeyOf(h)])
    /\ \A h \in Handlers : pc[h] = "markSave" =>
          \A g \in called : KeyOf(g) # KeyOf(h)

WorkingAlone ==
    \A g, h \in Handlers :
        Keyed(g) /\ KeyOf(g) = KeyOf(h) /\ pc[g] \in Working /\ pc[h] \in Working
        => g = h

IInv == /\ TypeOK
        /\ MessageInv
        /\ LockInv
        /\ LoadedInv
        /\ RowInv
        /\ CalledInv
        /\ FenceInv
        /\ WorkingAlone
        /\ AtMostOneDispatch

(* Reading a row back never opens a fence.                                 *)
LEMMA ParseKeepsFence ==
    ASSUME NEW row
    PROVE  Fenced(row) => Fenced(Parse(row))
  BY DEF Fenced, Parse, Frozen

(* The key of a keyed handler is one of the keys.                          *)
LEMMA KeyedHasKey ==
    ASSUME TypeOK, NEW h \in Handlers, Keyed(h)
    PROVE  KeyOf(h) \in Keys
  BY DEF TypeOK, Keyed, KeyOf, Message, NoMessage

(* The row of a dispatched key is fenced in the table, loaded before or now. *)
LEMMA CalledRowsFenced ==
    ASSUME IInv, NEW h \in called, Keyed(h)
    PROVE  KeyOf(h) \in Keys /\ Fenced(Table[KeyOf(h)])
  <1>1. h \in Handlers /\ KeyOf(h) \in Keys
    BY DEF IInv, TypeOK, CalledInv
  <1>2. QED
    BY <1>1, ParseKeepsFence DEF IInv, FenceInv, Table

(* The inductive invariant holds of an empty ledger.                       *)
LEMMA InitSafe == Init => IInv
  <1> SUFFICES ASSUME Init PROVE IInv
    OBVIOUS
  <1>1. TypeOK /\ MessageInv
    BY InitMessage
  <1>2. LockInv
    BY NoneIsNothing DEF Init, LockInv, Saving
  <1>3. LoadedInv /\ RowInv /\ CalledInv /\ FenceInv /\ WorkingAlone /\ AtMostOneDispatch
    BY DEF Init, LoadedInv, RowInv, CalledInv, FenceInv, WorkingAlone,
           AtMostOneDispatch, Working
  <1>4. QED
    BY <1>1, <1>2, <1>3 DEF IInv

(* Every step keeps the inductive invariant, one action at a time.         *)
LEMMA StepSafe == IInv /\ [Next]_vars => IInv'
  <1> SUFFICES ASSUME IInv, [Next]_vars
               PROVE  IInv'
    OBVIOUS
  <1>t. (TypeOK /\ MessageInv)'
    BY StepMessage DEF IInv
  <1> DEFINE Safe == LockInv /\ LoadedInv /\ RowInv /\ CalledInv /\ FenceInv
                     /\ WorkingAlone /\ AtMostOneDispatch
  <1> USE DEF IInv, TypeOK, MessageInv, AtLedger, Working, Saving, Stages, KeyOf,
              Keyed, Goto, Finish, Release, store
  <1>1. ASSUME NEW h \in Handlers, NEW k \in Keys \cup {None}, NEW q \in Requests,
               Arrive(h, k, q)
        PROVE  Safe'
    <2>1. LockInv'
      BY <1>1, <1>t, NoneIsNothing
      DEF Arrive, LockInv
    <2>2. LoadedInv'
      BY <1>1, <1>t, NoneIsNothing
      DEF Arrive, LoadedInv, LockInv
    <2>3. RowInv'
      BY <1>1, <1>t, NoneIsNothing
      DEF Arrive, RowInv, WorkingAlone, LoadedInv
    <2>4. CalledInv'
      BY <1>1, <1>t, NoneIsNothing
      DEF Arrive, CalledInv
    <2>5. FenceInv'
      BY <1>1, <1>t, NoneIsNothing
      DEF Arrive, FenceInv, CalledInv, LockInv, RowInv, Fenced
    <2>6. WorkingAlone'
      BY <1>1, <1>t, NoneIsNothing
      DEF Arrive, WorkingAlone, RowInv
    <2>7. AtMostOneDispatch'
      BY <1>1, <1>t, NoneIsNothing
      DEF Arrive, AtMostOneDispatch, FenceInv, CalledInv
    <2>8. QED
      BY <2>1, <2>2, <2>3, <2>4, <2>5, <2>6, <2>7
  <1>2. ASSUME NEW h \in Handlers, Claim(h)
        PROVE  Safe'
    <2>a. /\ pc[h] = "claim" /\ KeyOf(h) \in Keys
          /\ Table \in [Keys -> RowsOf(Statuses)]
          /\ Claimable(Table[KeyOf(h)], KeyOf(h), FpOf(h))
          /\ pc' = [pc EXCEPT ![h] = "claimSave"] /\ lock' = h
          /\ owned' = owned \cup {KeyOf(h)} /\ loaded' = TRUE
          /\ UNCHANGED <<disk, msg, called>>
      BY <1>2, TableType DEF Claim
    <2>b. /\ rows'[KeyOf(h)].status = "claimed"
          /\ \A k \in Keys \ {KeyOf(h)} : rows'[k] = Table[k]
      BY <1>2, <2>a DEF Claim
    <2>c. loaded => Table = rows
      BY DEF Table
    <2>d. ASSUME NEW g \in Handlers, Keyed(g), KeyOf(g) = KeyOf(h), pc[g] \in Working
          PROVE  FALSE
      <3>1. loaded /\ Table = rows
        BY <2>d, <2>c DEF LoadedInv
      <3>2. CASE pc[g] \in {"claimSave", "mark"}
        BY <2>a, <2>d, <3>1, <3>2 DEF Claimable, RowInv
      <3>3. CASE pc[g] \in {"markSave", "dispatching", "complete", "completeSave"}
        BY <2>a, <2>d, <3>1, <3>3 DEF Claimable, RowInv
      <3>4. QED
        BY <2>d, <3>2, <3>3
    <2>e. \A g \in called : Keyed(g) => KeyOf(g) # KeyOf(h)
      <3> SUFFICES ASSUME NEW g \in called, Keyed(g), KeyOf(g) = KeyOf(h)
                   PROVE  FALSE
        OBVIOUS
      <3>1. Fenced(Table[KeyOf(h)])
        BY CalledRowsFenced
      <3>2. QED
        BY <2>a, <3>1 DEF Claimable, Fenced
    <2>1. LockInv'
      BY <1>2, <1>t, NoneIsNothing
      DEF Claim, Claimable, LockInv
    <2>2. LoadedInv'
      BY <1>2, <1>t, NoneIsNothing
      DEF Claim, Claimable, LoadedInv, LockInv
    <2>3. RowInv'
      <3>1. ASSUME NEW k \in owned'
            PROVE  rows'[k].status = "claimed"
        <4>1. CASE k = KeyOf(h)
          BY <2>b, <4>1
        <4>2. CASE k # KeyOf(h)
          BY <2>a, <2>b, <2>c, <3>1, <4>2 DEF LoadedInv, RowInv
        <4>3. QED
          BY <4>1, <4>2
      <3>2. ASSUME NEW g \in Handlers, Keyed(g)', g # h, pc[g] \in Working
            PROVE  KeyOf(g) \in Keys \ {KeyOf(h)} /\ rows'[KeyOf(g)] = rows[KeyOf(g)]
        BY <2>a, <2>b, <2>c, <2>d, <3>2, KeyedHasKey DEF LoadedInv
      <3>3. QED
        BY <2>a, <2>b, <3>1, <3>2 DEF RowInv
    <2>4. CalledInv'
      BY <1>2, <1>t, NoneIsNothing
      DEF Claim, Claimable, CalledInv
    <2>5. FenceInv'
      <3>1. ASSUME NEW g \in called', Keyed(g)'
            PROVE  (Fenced(disk[KeyOf(g)]) /\ Fenced(rows[KeyOf(g)]))'
        <4>1. g \in called /\ Keyed(g) /\ KeyOf(g)' = KeyOf(g)
          BY <2>a, <3>1
        <4>2. KeyOf(g) \in Keys \ {KeyOf(h)} /\ Fenced(Table[KeyOf(g)])
          BY <2>e, <4>1, CalledRowsFenced
        <4>3. rows'[KeyOf(g)] = Table[KeyOf(g)] /\ disk' = disk
          BY <2>a, <2>b, <4>2
        <4>4. QED
          BY <4>1, <4>2, <4>3 DEF FenceInv, Fenced
      <3>2. ASSUME NEW g \in Handlers, pc'[g] = "markSave", NEW f \in called'
            PROVE  KeyOf(f)' # KeyOf(g)'
        BY <2>a, <3>2 DEF FenceInv
      <3>3. QED
        BY <3>1, <3>2 DEF FenceInv
    <2>6. WorkingAlone'
      BY <2>a, <2>d DEF WorkingAlone
    <2>7. AtMostOneDispatch'
      BY <1>2, <1>t, NoneIsNothing
      DEF Claim, Claimable, AtMostOneDispatch, FenceInv, CalledInv
    <2>8. QED
      BY <2>1, <2>2, <2>3, <2>4, <2>5, <2>6, <2>7
  <1>3. ASSUME NEW h \in Handlers, ClaimRefused(h)
        PROVE  Safe'
    <2>a. /\ pc[h] = "claim" /\ pc' = [pc EXCEPT ![h] = "done"]
          /\ rows' = Table /\ loaded' = TRUE
          /\ UNCHANGED <<owned, disk, lock, landed, msg, called>>
      BY <1>3 DEF ClaimRefused
    <2>c. loaded => Table = rows
      BY DEF Table
    <2>1. LockInv'
      BY <1>3, <1>t, NoneIsNothing
      DEF ClaimRefused, LockInv
    <2>2. LoadedInv'
      BY <1>3, <1>t, NoneIsNothing
      DEF ClaimRefused, LoadedInv, LockInv
    <2>3. RowInv'
      <3>1. CASE loaded
        BY <2>a, <2>c, <3>1 DEF RowInv
      <3>2. CASE ~loaded
        BY <2>a, <3>2 DEF RowInv, LoadedInv
      <3>3. QED
        BY <3>1, <3>2
    <2>4. CalledInv'
      BY <1>3, <1>t, NoneIsNothing
      DEF ClaimRefused, CalledInv
    <2>5. FenceInv'
      <3>1. ASSUME NEW g \in called', Keyed(g)'
            PROVE  (Fenced(disk[KeyOf(g)]) /\ Fenced(rows[KeyOf(g)]))'
        <4>1. g \in called /\ Keyed(g) /\ KeyOf(g)' = KeyOf(g)
          BY <2>a, <3>1
        <4>2. Fenced(Table[KeyOf(g)]) /\ Fenced(disk[KeyOf(g)])
          BY <4>1, CalledRowsFenced DEF FenceInv
        <4>3. QED
          BY <2>a, <4>1, <4>2 DEF Fenced
      <3>2. QED
        BY <2>a, <3>1 DEF FenceInv
    <2>6. WorkingAlone'
      BY <1>3, <1>t, NoneIsNothing
      DEF ClaimRefused, WorkingAlone, RowInv
    <2>7. AtMostOneDispatch'
      BY <1>3, <1>t, NoneIsNothing
      DEF ClaimRefused, AtMostOneDispatch, FenceInv, CalledInv
    <2>8. QED
      BY <2>1, <2>2, <2>3, <2>4, <2>5, <2>6, <2>7
  <1>4. ASSUME NEW h \in Handlers, LoadFails(h)
        PROVE  Safe'
    <2>1. LockInv'
      BY <1>4, <1>t, NoneIsNothing
      DEF LoadFails, LockInv
    <2>2. LoadedInv'
      BY <1>4, <1>t, NoneIsNothing
      DEF LoadFails, LoadedInv, LockInv
    <2>3. RowInv'
      BY <1>4, <1>t, NoneIsNothing
      DEF LoadFails, RowInv, WorkingAlone, LoadedInv
    <2>4. CalledInv'
      BY <1>4, <1>t, NoneIsNothing
      DEF LoadFails, CalledInv
    <2>5. FenceInv'
      BY <1>4, <1>t, NoneIsNothing
      DEF LoadFails, FenceInv, CalledInv, LockInv, RowInv, Fenced
    <2>6. WorkingAlone'
      BY <1>4, <1>t, NoneIsNothing
      DEF LoadFails, WorkingAlone, RowInv
    <2>7. AtMostOneDispatch'
      BY <1>4, <1>t, NoneIsNothing
      DEF LoadFails, AtMostOneDispatch, FenceInv, CalledInv
    <2>8. QED
      BY <2>1, <2>2, <2>3, <2>4, <2>5, <2>6, <2>7
  <1>5. ASSUME NEW h \in Handlers, WriteLands(h)
        PROVE  Safe'
    <2>1. LockInv'
      BY <1>5, <1>t, NoneIsNothing
      DEF WriteLands, LockInv
    <2>2. LoadedInv'
      BY <1>5, <1>t, NoneIsNothing
      DEF WriteLands, LoadedInv, LockInv
    <2>3. RowInv'
      BY <1>5, <1>t, NoneIsNothing
      DEF WriteLands, RowInv, WorkingAlone, LoadedInv
    <2>4. CalledInv'
      BY <1>5, <1>t, NoneIsNothing
      DEF WriteLands, CalledInv
    <2>5. FenceInv'
      <3>1. loaded
        <4>1. pc[h] \in Saving /\ Keyed(h)
          BY <1>5, NoneIsNothing DEF WriteLands, LockInv
        <4>2. QED
          BY <4>1 DEF LoadedInv
      <3>2. QED
        BY <1>5, <3>1 DEF WriteLands, FenceInv, Fenced
    <2>6. WorkingAlone'
      BY <1>5, <1>t, NoneIsNothing
      DEF WriteLands, WorkingAlone, RowInv
    <2>7. AtMostOneDispatch'
      BY <1>5, <1>t, NoneIsNothing
      DEF WriteLands, AtMostOneDispatch, FenceInv, CalledInv
    <2>8. QED
      BY <2>1, <2>2, <2>3, <2>4, <2>5, <2>6, <2>7
  <1>6. ASSUME NEW h \in Handlers, ClaimSaved(h)
        PROVE  Safe'
    <2>1. LockInv'
      BY <1>6, <1>t, NoneIsNothing
      DEF ClaimSaved, SaveReturns, LockInv
    <2>2. LoadedInv'
      BY <1>6, <1>t, NoneIsNothing
      DEF ClaimSaved, SaveReturns, LoadedInv, LockInv
    <2>3. RowInv'
      BY <1>6, <1>t, NoneIsNothing
      DEF ClaimSaved, SaveReturns, RowInv, WorkingAlone, LoadedInv
    <2>4. CalledInv'
      BY <1>6, <1>t, NoneIsNothing
      DEF ClaimSaved, SaveReturns, CalledInv
    <2>5. FenceInv'
      BY <1>6, <1>t, NoneIsNothing
      DEF ClaimSaved, SaveReturns, FenceInv, CalledInv, LockInv, RowInv, Fenced
    <2>6. WorkingAlone'
      BY <1>6, <1>t, NoneIsNothing
      DEF ClaimSaved, SaveReturns, WorkingAlone, RowInv
    <2>7. AtMostOneDispatch'
      BY <1>6, <1>t, NoneIsNothing
      DEF ClaimSaved, SaveReturns, AtMostOneDispatch, FenceInv, CalledInv
    <2>8. QED
      BY <2>1, <2>2, <2>3, <2>4, <2>5, <2>6, <2>7
  <1>7. ASSUME NEW h \in Handlers, SaveRaises(h)
        PROVE  Safe'
    <2>1. LockInv'
      BY <1>7, <1>t, NoneIsNothing
      DEF SaveRaises, LockInv
    <2>2. LoadedInv'
      BY <1>7, <1>t, NoneIsNothing
      DEF SaveRaises, LoadedInv, LockInv
    <2>3. RowInv'
      BY <1>7, <1>t, NoneIsNothing
      DEF SaveRaises, RowInv, WorkingAlone, LoadedInv
    <2>4. CalledInv'
      BY <1>7, <1>t, NoneIsNothing
      DEF SaveRaises, CalledInv
    <2>5. FenceInv'
      BY <1>7, <1>t, NoneIsNothing
      DEF SaveRaises, FenceInv, CalledInv, LockInv, RowInv, Fenced
    <2>6. WorkingAlone'
      BY <1>7, <1>t, NoneIsNothing
      DEF SaveRaises, WorkingAlone, RowInv
    <2>7. AtMostOneDispatch'
      BY <1>7, <1>t, NoneIsNothing
      DEF SaveRaises, AtMostOneDispatch, FenceInv, CalledInv
    <2>8. QED
      BY <2>1, <2>2, <2>3, <2>4, <2>5, <2>6, <2>7
  <1>8. ASSUME NEW h \in Handlers, MarkDispatched(h)
        PROVE  Safe'
    <2> DEFINE Fit == rows[KeyOf(h)].fp = FpOf(h) /\ rows[KeyOf(h)].status = "claimed"
    <2>a. CASE ~Fit
      <3>1. /\ pc[h] = "mark" /\ lock = None /\ pc' = [pc EXCEPT ![h] = "done"]
            /\ UNCHANGED <<rows, owned, lock, landed, loaded, disk, msg, called>>
        BY <1>8, <2>a DEF MarkDispatched
      <3>2. LockInv' /\ LoadedInv' /\ RowInv'
        BY <3>1, NoneIsNothing DEF LockInv, LoadedInv, RowInv
      <3>3. CalledInv' /\ FenceInv' /\ WorkingAlone' /\ AtMostOneDispatch'
        BY <3>1 DEF CalledInv, FenceInv, WorkingAlone, AtMostOneDispatch, Fenced
      <3>4. QED
        BY <3>2, <3>3
    <2> SUFFICES ASSUME Fit PROVE Safe'
      BY <2>a
    <2>b. /\ pc[h] = "mark" /\ KeyOf(h) \in Keys /\ lock = None /\ lock' = h
          /\ rows[KeyOf(h)].status = "claimed"
          /\ rows'[KeyOf(h)].status = "dispatched"
          /\ \A k \in Keys \ {KeyOf(h)} : rows'[k] = rows[k]
          /\ owned' = owned \ {KeyOf(h)}
          /\ pc' = [pc EXCEPT ![h] = "markSave"]
          /\ UNCHANGED <<loaded, disk, landed, msg, called>>
      <3>1. /\ pc[h] = "mark" /\ KeyOf(h) \in Keys
            /\ rows' = [rows EXCEPT ![KeyOf(h)] = [rows[KeyOf(h)] EXCEPT !.status = "dispatched"]]
        BY <1>8 DEF MarkDispatched
      <3>2. [rows[KeyOf(h)] EXCEPT !.status = "dispatched"].status = "dispatched"
        BY <3>1 DEF RowsOf
      <3>3. QED
        BY <1>8, <3>1, <3>2 DEF MarkDispatched
    <2>1. LockInv'
      BY <1>8, <1>t, NoneIsNothing
      DEF MarkDispatched, LockInv
    <2>2. LoadedInv'
      BY <1>8, <1>t, NoneIsNothing
      DEF MarkDispatched, LoadedInv, LockInv
    <2>3. RowInv'
      <3>1. ASSUME NEW g \in Handlers, Keyed(g)', g # h, pc[g] \in Working
            PROVE  KeyOf(g) \in Keys \ {KeyOf(h)}
        BY <2>b, <3>1, KeyedHasKey DEF WorkingAlone
      <3>2. QED
        BY <2>b, <3>1 DEF RowInv
    <2>4. CalledInv'
      BY <1>8, <1>t, NoneIsNothing
      DEF MarkDispatched, CalledInv
    <2>5. FenceInv'
      <3>1. \A g \in called : KeyOf(g) # KeyOf(h)
        BY <2>b, NoneIsNothing DEF FenceInv, LoadedInv, Fenced
      <3>2. QED
        BY <2>b, <3>1, KeyedHasKey DEF FenceInv, Fenced
    <2>6. WorkingAlone'
      BY <1>8, <1>t, NoneIsNothing
      DEF MarkDispatched, WorkingAlone, RowInv
    <2>7. AtMostOneDispatch'
      BY <1>8, <1>t, NoneIsNothing
      DEF MarkDispatched, AtMostOneDispatch, FenceInv, CalledInv
    <2>8. QED
      BY <2>1, <2>2, <2>3, <2>4, <2>5, <2>6, <2>7
  <1>9. ASSUME NEW h \in Handlers, Dispatch(h)
        PROVE  Safe'
    <2>1. LockInv'
      BY <1>9, <1>t, NoneIsNothing
      DEF Dispatch, SaveReturns, LockInv
    <2>2. LoadedInv'
      BY <1>9, <1>t, NoneIsNothing
      DEF Dispatch, SaveReturns, LoadedInv, LockInv
    <2>3. RowInv'
      BY <1>9, <1>t, NoneIsNothing
      DEF Dispatch, SaveReturns, RowInv, WorkingAlone, LoadedInv
    <2>4. CalledInv'
      BY <1>9, <1>t, NoneIsNothing
      DEF Dispatch, SaveReturns, CalledInv
    <2>5. FenceInv'
      <3>1. /\ pc[h] = "markSave" /\ KeyOf(h) \in Keys /\ Keyed(h)
            /\ disk = rows /\ rows[KeyOf(h)].status = "dispatched"
        BY <1>9, NoneIsNothing DEF Dispatch, SaveReturns, LockInv, RowInv
      <3>2. /\ UNCHANGED <<rows, disk, loaded, msg>>
            /\ called' \subseteq called \cup {h}
            /\ pc' \in [Handlers -> Stages]
            /\ pc'[h] # "markSave" /\ \A g \in Handlers \ {h} : pc'[g] = pc[g]
        BY <1>9, <1>t DEF Dispatch
      <3>3. ASSUME NEW g \in called', Keyed(g)'
            PROVE  (Fenced(disk[KeyOf(g)]) /\ (loaded => Fenced(rows[KeyOf(g)])))'
        BY <3>1, <3>2, <3>3 DEF FenceInv, Fenced
      <3>4. ASSUME NEW g \in Handlers, pc'[g] = "markSave", NEW f \in called'
            PROVE  KeyOf(f)' # KeyOf(g)'
        <4>1. g # h /\ pc[g] = "markSave" /\ KeyOf(g) \in Keys /\ Keyed(g)
          BY <3>2, <3>4, NoneIsNothing
        <4>2. CASE f = h
          BY <3>1, <3>2, <4>1, <4>2 DEF WorkingAlone
        <4>3. CASE f \in called
          BY <3>2, <4>1, <4>3 DEF FenceInv
        <4>4. QED
          BY <3>2, <4>2, <4>3
      <3>5. QED
        BY <3>3, <3>4 DEF FenceInv
    <2>6. WorkingAlone'
      BY <1>9, <1>t, NoneIsNothing
      DEF Dispatch, SaveReturns, WorkingAlone, RowInv
    <2>7. AtMostOneDispatch'
      BY <1>9, <1>t, NoneIsNothing
      DEF Dispatch, SaveReturns, AtMostOneDispatch, FenceInv, CalledInv
    <2>8. QED
      BY <2>1, <2>2, <2>3, <2>4, <2>5, <2>6, <2>7
  <1>10. ASSUME NEW h \in Handlers, NEW r \in Results, HaAnswers(h, r)
         PROVE  Safe'
    <2>1. LockInv'
      BY <1>10, <1>t, NoneIsNothing
      DEF HaAnswers, LockInv
    <2>2. LoadedInv'
      BY <1>10, <1>t, NoneIsNothing
      DEF HaAnswers, LoadedInv, LockInv
    <2>3. RowInv'
      BY <1>10, <1>t, NoneIsNothing
      DEF HaAnswers, RowInv, WorkingAlone, LoadedInv
    <2>4. CalledInv'
      BY <1>10, <1>t, NoneIsNothing
      DEF HaAnswers, CalledInv
    <2>5. FenceInv'
      BY <1>10, <1>t, NoneIsNothing
      DEF HaAnswers, FenceInv, CalledInv, LockInv, RowInv, Fenced
    <2>6. WorkingAlone'
      BY <1>10, <1>t, NoneIsNothing
      DEF HaAnswers, WorkingAlone, RowInv
    <2>7. AtMostOneDispatch'
      BY <1>10, <1>t, NoneIsNothing
      DEF HaAnswers, AtMostOneDispatch, FenceInv, CalledInv
    <2>8. QED
      BY <2>1, <2>2, <2>3, <2>4, <2>5, <2>6, <2>7
  <1>11. ASSUME NEW h \in Handlers, HaRaises(h)
         PROVE  Safe'
    <2>1. LockInv'
      BY <1>11, <1>t, NoneIsNothing
      DEF HaRaises, LockInv
    <2>2. LoadedInv'
      BY <1>11, <1>t, NoneIsNothing
      DEF HaRaises, LoadedInv, LockInv
    <2>3. RowInv'
      BY <1>11, <1>t, NoneIsNothing
      DEF HaRaises, RowInv, WorkingAlone, LoadedInv
    <2>4. CalledInv'
      BY <1>11, <1>t, NoneIsNothing
      DEF HaRaises, CalledInv
    <2>5. FenceInv'
      BY <1>11, <1>t, NoneIsNothing
      DEF HaRaises, FenceInv, CalledInv, LockInv, RowInv, Fenced
    <2>6. WorkingAlone'
      BY <1>11, <1>t, NoneIsNothing
      DEF HaRaises, WorkingAlone, RowInv
    <2>7. AtMostOneDispatch'
      BY <1>11, <1>t, NoneIsNothing
      DEF HaRaises, AtMostOneDispatch, FenceInv, CalledInv
    <2>8. QED
      BY <2>1, <2>2, <2>3, <2>4, <2>5, <2>6, <2>7
  <1>12. ASSUME NEW h \in Handlers, Complete(h)
         PROVE  Safe'
    <2> DEFINE Fit == rows[KeyOf(h)].fp = FpOf(h) /\ rows[KeyOf(h)].status = "dispatched"
    <2>a. CASE ~Fit
      <3>1. /\ pc[h] = "complete" /\ lock = None /\ pc' = [pc EXCEPT ![h] = "done"]
            /\ UNCHANGED <<rows, owned, lock, landed, loaded, disk, msg, called>>
        BY <1>12, <2>a DEF Complete
      <3>2. LockInv' /\ LoadedInv' /\ RowInv'
        BY <3>1, NoneIsNothing DEF LockInv, LoadedInv, RowInv
      <3>3. CalledInv' /\ FenceInv' /\ WorkingAlone' /\ AtMostOneDispatch'
        BY <3>1 DEF CalledInv, FenceInv, WorkingAlone, AtMostOneDispatch, Fenced
      <3>4. QED
        BY <3>2, <3>3
    <2> SUFFICES ASSUME Fit PROVE Safe'
      BY <2>a
    <2>b. /\ pc[h] = "complete" /\ KeyOf(h) \in Keys /\ lock = None /\ lock' = h
          /\ rows[KeyOf(h)].status = "dispatched"
          /\ rows'[KeyOf(h)].status = "completed"
          /\ \A k \in Keys \ {KeyOf(h)} : rows'[k] = rows[k]
          /\ owned' = owned \ {KeyOf(h)}
          /\ pc' = [pc EXCEPT ![h] = "completeSave"]
          /\ UNCHANGED <<loaded, disk, landed, msg, called>>
      <3>1. /\ pc[h] = "complete" /\ KeyOf(h) \in Keys
            /\ rows' = [rows EXCEPT ![KeyOf(h)] = [rows[KeyOf(h)] EXCEPT !.status = "completed", !.result = answer[h]]]
        BY <1>12 DEF Complete
      <3>2. [rows[KeyOf(h)] EXCEPT !.status = "completed", !.result = answer[h]].status = "completed"
        BY <3>1 DEF RowsOf
      <3>3. QED
        BY <1>12, <3>1, <3>2 DEF Complete
    <2>1. LockInv'
      BY <1>12, <1>t, NoneIsNothing
      DEF Complete, LockInv
    <2>2. LoadedInv'
      BY <1>12, <1>t, NoneIsNothing
      DEF Complete, LoadedInv, LockInv
    <2>3. RowInv'
      <3>1. ASSUME NEW g \in Handlers, Keyed(g)', g # h, pc[g] \in Working
            PROVE  KeyOf(g) \in Keys \ {KeyOf(h)}
        BY <2>b, <3>1, KeyedHasKey DEF WorkingAlone
      <3>2. QED
        BY <2>b, <3>1 DEF RowInv
    <2>4. CalledInv'
      BY <1>12, <1>t, NoneIsNothing
      DEF Complete, CalledInv
    <2>5. FenceInv'
      BY <2>b, KeyedHasKey DEF FenceInv, Fenced
    <2>6. WorkingAlone'
      BY <1>12, <1>t, NoneIsNothing
      DEF Complete, WorkingAlone, RowInv
    <2>7. AtMostOneDispatch'
      BY <1>12, <1>t, NoneIsNothing
      DEF Complete, AtMostOneDispatch, FenceInv, CalledInv
    <2>8. QED
      BY <2>1, <2>2, <2>3, <2>4, <2>5, <2>6, <2>7
  <1>13. ASSUME NEW h \in Handlers, CompleteSaved(h)
         PROVE  Safe'
    <2>1. LockInv'
      BY <1>13, <1>t, NoneIsNothing
      DEF CompleteSaved, SaveReturns, LockInv
    <2>2. LoadedInv'
      BY <1>13, <1>t, NoneIsNothing
      DEF CompleteSaved, SaveReturns, LoadedInv, LockInv
    <2>3. RowInv'
      BY <1>13, <1>t, NoneIsNothing
      DEF CompleteSaved, SaveReturns, RowInv, WorkingAlone, LoadedInv
    <2>4. CalledInv'
      BY <1>13, <1>t, NoneIsNothing
      DEF CompleteSaved, SaveReturns, CalledInv
    <2>5. FenceInv'
      BY <1>13, <1>t, NoneIsNothing
      DEF CompleteSaved, SaveReturns, FenceInv, CalledInv, LockInv, RowInv, Fenced
    <2>6. WorkingAlone'
      BY <1>13, <1>t, NoneIsNothing
      DEF CompleteSaved, SaveReturns, WorkingAlone, RowInv
    <2>7. AtMostOneDispatch'
      BY <1>13, <1>t, NoneIsNothing
      DEF CompleteSaved, SaveReturns, AtMostOneDispatch, FenceInv, CalledInv
    <2>8. QED
      BY <2>1, <2>2, <2>3, <2>4, <2>5, <2>6, <2>7
  <1>14. ASSUME NEW h \in Handlers, Cancel(h)
         PROVE  Safe'
    <2>1. LockInv'
      BY <1>14, <1>t, NoneIsNothing
      DEF Cancel, LetGo, LockInv
    <2>2. LoadedInv'
      BY <1>14, <1>t, NoneIsNothing
      DEF Cancel, LetGo, LoadedInv, LockInv
    <2>3. RowInv'
      BY <1>14, <1>t, NoneIsNothing
      DEF Cancel, LetGo, RowInv, WorkingAlone, LoadedInv
    <2>4. CalledInv'
      BY <1>14, <1>t, NoneIsNothing
      DEF Cancel, LetGo, CalledInv
    <2>5. FenceInv'
      BY <1>14, <1>t, NoneIsNothing
      DEF Cancel, LetGo, FenceInv, CalledInv, LockInv, RowInv, Fenced
    <2>6. WorkingAlone'
      BY <1>14, <1>t, NoneIsNothing
      DEF Cancel, LetGo, WorkingAlone, RowInv
    <2>7. AtMostOneDispatch'
      BY <1>14, <1>t, NoneIsNothing
      DEF Cancel, LetGo, AtMostOneDispatch, FenceInv, CalledInv
    <2>8. QED
      BY <2>1, <2>2, <2>3, <2>4, <2>5, <2>6, <2>7
  <1>15. ASSUME Restart
         PROVE  Safe'
    <2>1. \A g \in Handlers : pc'[g] \in {"idle", "done"} /\ (pc'[g] = "idle" => pc[g] = "idle")
      BY <1>15 DEF Restart
    <2>2. LockInv' /\ LoadedInv' /\ RowInv' /\ WorkingAlone'
      BY <1>15, <2>1, NoneIsNothing DEF Restart, LockInv, LoadedInv, RowInv, WorkingAlone
    <2>3. CalledInv' /\ FenceInv' /\ AtMostOneDispatch'
      BY <1>15, <2>1 DEF Restart, CalledInv, FenceInv, AtMostOneDispatch, Fenced
    <2>4. QED
      BY <2>2, <2>3
  <1>16. ASSUME NEW k \in Keys, Damage(k)
         PROVE  Safe'
    <2>1. ~landed
      <3> SUFFICES ASSUME landed PROVE FALSE
        OBVIOUS
      <3>1. lock \in Handlers /\ pc[lock] \in Saving
        BY DEF LockInv
      <3>2. Keyed(lock)
        BY <3>1, NoneIsNothing
      <3>3. QED
        BY <1>16, <3>1, <3>2 DEF Damage, LoadedInv
    <2>2. LockInv' /\ LoadedInv' /\ RowInv' /\ WorkingAlone' /\ CalledInv' /\ AtMostOneDispatch'
      BY <1>16, <2>1 DEF Damage, LockInv, LoadedInv, RowInv, WorkingAlone, CalledInv,
                         AtMostOneDispatch
    <2>3. FenceInv'
      <3>1. Fenced(Garbled)
        BY DEF Fenced, Garbled
      <3>2. \A j \in Keys : Fenced(disk[j]) => Fenced(disk'[j])
        BY <1>16, <3>1 DEF Damage
      <3>3. QED
        BY <1>16, <3>2 DEF Damage, FenceInv, CalledInv
    <2>4. QED
      BY <2>2, <2>3
  <1>17. ASSUME NEW s \in Scopes, ChangeGrant(s)
         PROVE  Safe'
    BY <1>17 DEF ChangeGrant, LockInv, LoadedInv, RowInv, CalledInv, FenceInv,
                 WorkingAlone, AtMostOneDispatch, Fenced
  <1>18. ASSUME UNCHANGED vars
         PROVE  Safe'
    BY <1>18 DEF vars, LockInv, LoadedInv, RowInv, CalledInv, FenceInv,
                 WorkingAlone, AtMostOneDispatch, Fenced
  <1>19. Safe'
    BY <1>1, <1>2, <1>3, <1>4, <1>5, <1>6, <1>7, <1>8, <1>9, <1>10, <1>11, <1>12,
       <1>13, <1>14, <1>15, <1>16, <1>17, <1>18 DEF Next, Progress
  <1>20. QED
    BY <1>t, <1>19

(* No operation key is handed to HA twice, for any number of handlers,     *)
(* keys and restarts (operation_store.py, claim and mark_dispatched).      *)
THEOREM DispatchAtMostOnce == Spec => []AtMostOneDispatch
  <1>1. IInv => AtMostOneDispatch
    BY DEF IInv
  <1>2. QED
    BY <1>1, InitSafe, StepSafe, PTL DEF Spec

(* The fence of a key is on disk before its command is handed to HA, and   *)
(* stays there, whatever is saved, damaged or restarted afterwards.        *)
THEOREM FenceIsWrittenAhead == Spec => []WriteAhead
  <1>1. IInv => WriteAhead
    BY DEF IInv, FenceInv, WriteAhead
  <1>2. QED
    BY <1>1, InitSafe, StepSafe, PTL DEF Spec

(* An owned key has not been dispatched, and a live handler past its claim *)
(* is alone with its key (operation_store.py:36-38).                       *)
THEOREM ClaimsStayExclusive == Spec => []ClaimsAreExclusive
  <1>1. ASSUME IInv PROVE ClaimsAreExclusive
    <2>1. ASSUME NEW k \in owned, NEW h \in called, KeyOf(h) = k
          PROVE  FALSE
      <3>1. loaded /\ rows[k].status = "claimed"
        BY <1>1 DEF IInv, LoadedInv, RowInv
      <3>2. k \in Keys /\ h \in Handlers
        BY <1>1 DEF IInv, TypeOK
      <3>3. Keyed(h)
        BY <2>1, <3>2, NoneIsNothing DEF Keyed
      <3>4. Fenced(rows[k])
        BY <1>1, <2>1, <3>1, <3>3 DEF IInv, FenceInv
      <3>5. QED
        BY <3>1, <3>4 DEF Fenced
    <2>2. \A k \in owned : rows[k].status = "claimed"
      BY <1>1 DEF IInv, RowInv
    <2>3. QED
      BY <1>1, <2>1, <2>2 DEF ClaimsAreExclusive, IInv, WorkingAlone
  <1>2. QED
    BY <1>1, InitSafe, StepSafe, PTL DEF Spec

(* What HA answered is published only while the grant is the one the       *)
(* command was accepted under: three steps publish an answer, and each of  *)
(* them looks at the grant after its own await.                            *)
THEOREM AnswersKeepToTheGrant == Spec => GrantGuardsAnswers
  <1>1. ASSUME TypeOK, [Next]_vars, NEW h \in Handlers,
               reply[h].kind # "result", reply'[h].kind = "result"
        PROVE  msg[h].scope = scope
    <2> USE DEF TypeOK, GrantHolds, Finish, Say
    <2>1. ASSUME NEW g \in Handlers, ClaimRefused(g)
          PROVE  msg[h].scope = scope
      BY <1>1, <2>1 DEF ClaimRefused
    <2>2. ASSUME NEW g \in Handlers, NEW r \in Results, HaAnswers(g, r)
          PROVE  msg[h].scope = scope
      BY <1>1, <2>2 DEF HaAnswers
    <2>3. ASSUME NEW g \in Handlers, CompleteSaved(g)
          PROVE  msg[h].scope = scope
      BY <1>1, <2>3 DEF CompleteSaved
    <2>4. ASSUME NEW g \in Handlers,
                 \/ LoadFails(g) \/ ClaimSaved(g) \/ SaveRaises(g)
                 \/ MarkDispatched(g) \/ Dispatch(g) \/ HaRaises(g) \/ Complete(g)
          PROVE  msg[h].scope = scope
      BY <1>1, <2>4 DEF LoadFails, ClaimSaved, SaveRaises, MarkDispatched, Dispatch,
                        HaRaises, Complete
    <2>5. CASE UNCHANGED reply
      BY <1>1, <2>5
    <2>6. ASSUME NEW g \in Handlers, Claim(g) \/ WriteLands(g) \/ Cancel(g)
          PROVE  UNCHANGED reply
      BY <2>6 DEF Claim, WriteLands, Cancel
    <2>7. QED
      BY <1>1, <2>1, <2>2, <2>3, <2>4, <2>5, <2>6
         DEF Next, Progress, Arrive, Restart, Damage, ChangeGrant, vars
  <1>2. TypeOK /\ [Next]_vars =>
          [\A h \in Handlers :
             reply[h].kind # "result" /\ reply'[h].kind = "result"
               => msg[h].scope = scope]_vars
    BY <1>1
  <1>3. QED
    BY <1>2, TypeCorrect, PTL DEF Spec, GrantGuardsAnswers

-----------------------------------------------------------------------------
(* Tombstones.                                                             *)

(* What memory may make of a row of the disk: a fence stays, a frozen row  *)
(* stays frozen, and a recorded answer stays what it is or is frozen.      *)
Keeps(old, new) ==
    /\ Fenced(old) => Fenced(new)
    /\ old.status \in {"unknown", "garbled"} => new.status \in {"unknown", "garbled"}
    /\ old.status = "completed" => new = old \/ new = Frozen

(* The table in memory keeps every row of the disk.                        *)
DiskInv == loaded => \A k \in Keys : Keeps(disk[k], rows[k])

(* So does the table a load would find.                                    *)
LEMMA TableKeeps ==
    ASSUME DiskInv, NEW k \in Keys
    PROVE  Keeps(disk[k], Table[k])
  <1>1. CASE loaded
    BY <1>1 DEF DiskInv, Table
  <1>2. CASE ~loaded
    BY <1>2 DEF Keeps, Table, Parse, Fenced, Frozen
  <1>3. QED
    BY <1>1, <1>2

(* Whoever writes holds the lock, and writes a loaded table.               *)
LEMMA WriterHasLoaded ==
    ASSUME IInv, NEW h \in Handlers, lock = h
    PROVE  loaded
  <1>1. pc[h] \in Saving
    BY DEF IInv, LockInv
  <1>2. pc[h] \in AtLedger /\ pc[h] \in Working
    BY <1>1 DEF Saving, AtLedger, Working, Stages
  <1>3. Keyed(h)
    BY <1>2, NoneIsNothing DEF IInv, MessageInv, Keyed
  <1>4. QED
    BY <1>2, <1>3 DEF IInv, LoadedInv

(* Every step of the disk keeps its rows or damages them, and every step   *)
(* of memory keeps what the disk says.                                     *)
LEMMA StepKeeps ==
    ASSUME IInv, DiskInv, [Next]_vars
    PROVE  /\ DiskInv'
           /\ \A k \in Keys : Keeps(disk[k], disk'[k]) \/ disk'[k] = Garbled
  <1> USE DEF IInv, TypeOK
  <1>s. \A row : Keeps(row, row)
    BY DEF Keeps
  <1>1. ASSUME NEW h \in Handlers, Claim(h)
        PROVE  DiskInv' /\ UNCHANGED disk
    <2>1. SUFFICES ASSUME NEW k \in Keys PROVE Keeps(disk[k], rows'[k])
      BY <1>1 DEF Claim, DiskInv, Keeps, Fenced
    <2>2. Keeps(disk[k], Table[k])
      BY TableKeeps
    <2>3. Table \in [Keys -> RowsOf(Statuses)]
      BY TableType
    <2>4. CASE k = KeyOf(h)
      <3>1. Table[k].status \in {"absent", "claimed"}
        BY <1>1, <2>4 DEF Claim, Claimable
      <3>2. ~Fenced(disk[k]) /\ disk[k].status # "completed"
        BY <2>2, <3>1 DEF Keeps, Fenced
      <3>3. QED
        BY <3>2 DEF Keeps, Fenced
    <2>5. CASE k # KeyOf(h)
      BY <1>1, <2>2, <2>3, <2>5 DEF Claim
    <2>6. QED
      BY <2>4, <2>5
  <1>2. ASSUME NEW h \in Handlers, ClaimRefused(h)
        PROVE  DiskInv' /\ UNCHANGED disk
    BY <1>2, TableKeeps DEF ClaimRefused, DiskInv, Keeps, Fenced
  <1>3. ASSUME NEW h \in Handlers, WriteLands(h)
        PROVE  DiskInv' /\ \A k \in Keys : Keeps(disk[k], disk'[k])
    <2>1. loaded /\ disk' = rows /\ UNCHANGED <<loaded, rows>>
      BY <1>3, WriterHasLoaded DEF WriteLands, store
    <2>2. \A k \in Keys : Keeps(disk[k], disk'[k])
      BY <2>1 DEF DiskInv
    <2>3. \A k \in Keys : Keeps(disk'[k], rows'[k])
      BY <2>1, <1>s
    <2>4. QED
      BY <2>2, <2>3 DEF DiskInv, Keeps, Fenced
  <1>4. ASSUME NEW h \in Handlers, MarkDispatched(h)
        PROVE  DiskInv' /\ UNCHANGED disk
    <2>1. SUFFICES ASSUME NEW k \in Keys, loaded PROVE Keeps(disk[k], rows'[k])
      BY <1>4 DEF MarkDispatched, DiskInv, Keeps, Fenced
    <2>2. Keeps(disk[k], rows[k])
      BY <2>1 DEF DiskInv
    <2>3. CASE rows'[k] = rows[k]
      BY <2>2, <2>3
    <2>4. CASE rows'[k] # rows[k]
      <3>1. rows[k].status = "claimed"
        BY <1>4, <2>4 DEF MarkDispatched
      <3>2. QED
        BY <2>2, <3>1 DEF Keeps, Fenced, Frozen
    <2>5. QED
      BY <2>3, <2>4
  <1>5. ASSUME NEW h \in Handlers, Complete(h)
        PROVE  DiskInv' /\ UNCHANGED disk
    <2>1. SUFFICES ASSUME NEW k \in Keys, loaded PROVE Keeps(disk[k], rows'[k])
      BY <1>5 DEF Complete, DiskInv, Keeps, Fenced
    <2>2. Keeps(disk[k], rows[k])
      BY <2>1 DEF DiskInv
    <2>3. CASE rows'[k] = rows[k]
      BY <2>2, <2>3
    <2>4. CASE rows'[k] # rows[k]
      <3>1. rows[k].status = "dispatched" /\ Fenced(rows'[k])
        <4>1. /\ k = KeyOf(h) /\ rows[k].status = "dispatched"
              /\ rows'[k] = [rows[k] EXCEPT !.status = "completed", !.result = answer[h]]
          BY <1>5, <2>4 DEF Complete
        <4>2. rows[k] \in RowsOf(Statuses)
          OBVIOUS
        <4>3. rows'[k].status = "completed"
          BY <4>1, <4>2 DEF RowsOf
        <4>4. QED
          BY <4>1, <4>3 DEF Fenced
      <3>2. QED
        BY <2>2, <3>1 DEF Keeps, Fenced, Frozen
    <2>5. QED
      BY <2>3, <2>4
  <1>6. CASE Restart
    BY <1>6, <1>s DEF Restart, DiskInv
  <1>7. ASSUME NEW k \in Keys, Damage(k)
        PROVE  /\ DiskInv'
               /\ \A j \in Keys : Keeps(disk[j], disk'[j]) \/ disk'[j] = Garbled
    BY <1>7, <1>s DEF Damage, DiskInv, store
  <1>8. CASE UNCHANGED <<loaded, rows, disk>>
    BY <1>8, <1>s DEF DiskInv, Keeps, Fenced
  <1>9. ASSUME NEW h \in Handlers,
               \/ LoadFails(h) \/ ClaimSaved(h) \/ SaveRaises(h) \/ Dispatch(h)
               \/ \E r \in Results : HaAnswers(h, r)
               \/ HaRaises(h) \/ CompleteSaved(h) \/ Cancel(h)
        PROVE  UNCHANGED <<loaded, rows, disk>>
    BY <1>9 DEF LoadFails, ClaimSaved, SaveRaises, Dispatch, HaAnswers, HaRaises,
                CompleteSaved, Cancel, store
  <1>10. ASSUME \/ \E h \in Handlers, k \in Keys \cup {None}, q \in Requests : Arrive(h, k, q)
                \/ \E s \in Scopes : ChangeGrant(s)
                \/ UNCHANGED vars
         PROVE  UNCHANGED <<loaded, rows, disk>>
    BY <1>10 DEF Arrive, ChangeGrant, vars, store
  <1>11. QED
    BY <1>1, <1>2, <1>3, <1>4, <1>5, <1>6, <1>7, <1>8, <1>9, <1>10, <1>s
       DEF Next, Progress

(* On disk a fenced key never becomes free or merely claimed again and a   *)
(* recorded answer never changes, unless the file itself is damaged, over  *)
(* any number of saves that fail, handlers that are cancelled and restarts. *)
THEOREM TombstonesAreDurable == Spec => TombstonesPersist
  <1>1. Init => DiskInv
    BY DEF Init, DiskInv
  <1>2. IInv /\ DiskInv /\ [Next]_vars => DiskInv'
    BY StepKeeps
  <1>3. IInv /\ DiskInv /\ [Next]_vars =>
          [\A k \in Keys :
             /\ Fenced(disk[k]) => Fenced(disk'[k])
             /\ disk[k].status = "completed"
                  => disk'[k] = disk[k] \/ disk'[k] \in {Frozen, Garbled}]_vars
    BY StepKeeps DEF Keeps, Fenced, Garbled
  <1>4. QED
    BY <1>1, <1>2, <1>3, InitSafe, StepSafe, PTL DEF Spec, TombstonesPersist
=============================================================================

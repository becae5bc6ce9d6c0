----------------------- MODULE OperationAnswersProofs -----------------------
(***************************************************************************)
(* Proofs about what OperationLedger answers, and that it implements       *)
(* OperationPromise, for every set of handlers, keys, requests, grants and *)
(* answers.                                                                *)
(***************************************************************************)
EXTENDS OperationLedgerProofs

(* A dispatch of key k under fingerprint fp was answered r.                *)
AnsweredBy(k, fp, r) ==
    \E g \in called : KeyOf(g) = k /\ FpOf(g) = fp /\ answer[g] = r

(* HA's answer is there once the handler goes on, and never before.        *)
HeardInv ==
    \A h \in Handlers :
        /\ answer[h] # None => h \in called /\ pc[h] # "dispatching"
        /\ pc[h] \in {"complete", "completeSave"} => answer[h] # None

(* Every recorded answer, in memory or on disk, was HA's to that key.      *)
RecordedInv ==
    \A k \in Keys : \A row \in {rows[k], disk[k]} :
        row.status = "completed" =>
            row.result # None /\ AnsweredBy(k, row.fp, row.result)

(* So was every published one.                                             *)
RepliedInv ==
    \A h \in Handlers :
        /\ pc[h] = "idle" => reply[h].kind = "none"
        /\ reply[h].kind = "result" /\ Keyed(h) =>
              /\ reply[h].result # None
              /\ AnsweredBy(KeyOf(h), FpOf(h), reply[h].result)

AnswerInv == HeardInv /\ RecordedInv /\ RepliedInv

LEMMA InitAnswers == Init => AnswerInv
  BY DEF Init, AnswerInv, HeardInv, RecordedInv, RepliedInv, NoRow, Say

(* The history of a dispatch is not rewritten.                             *)
LEMMA HistoryStays ==
    ASSUME IInv, HeardInv, [Next]_vars, NEW g \in called
    PROVE  /\ g \in called' /\ msg'[g] = msg[g]
           /\ answer[g] # None => answer'[g] = answer[g]
  <1> USE DEF IInv, TypeOK, Goto, Finish
  <1>g. g \in Handlers /\ pc[g] # "idle"
    BY DEF CalledInv
  <1>1. ASSUME NEW h \in Handlers, NEW k \in Keys \cup {None}, NEW q \in Requests,
               Arrive(h, k, q)
        PROVE  g \in called' /\ msg'[g] = msg[g] /\ answer' = answer
    BY <1>1, <1>g DEF Arrive
  <1>2. ASSUME NEW h \in Handlers, NEW r \in Results, HaAnswers(h, r)
        PROVE  /\ called' = called /\ msg' = msg
               /\ answer[g] # None => answer'[g] = answer[g]
    BY <1>2, <1>g DEF HaAnswers, HeardInv
  <1>3. ASSUME NEW h \in Handlers,
               \/ Claim(h) \/ ClaimRefused(h) \/ LoadFails(h) \/ WriteLands(h)
               \/ ClaimSaved(h) \/ SaveRaises(h) \/ MarkDispatched(h) \/ HaRaises(h)
               \/ Complete(h) \/ CompleteSaved(h) \/ Cancel(h)
        PROVE  UNCHANGED <<called, msg, answer>>
    BY <1>3 DEF Claim, ClaimRefused, LoadFails, WriteLands, ClaimSaved, SaveRaises,
                MarkDispatched, HaRaises, Complete, CompleteSaved, Cancel
  <1>4. ASSUME NEW h \in Handlers, Dispatch(h)
        PROVE  g \in called' /\ UNCHANGED <<msg, answer>>
    BY <1>4 DEF Dispatch
  <1>5. ASSUME \/ Restart \/ UNCHANGED vars
               \/ \E k \in Keys : Damage(k)
               \/ \E s \in Scopes : ChangeGrant(s)
        PROVE  UNCHANGED <<called, msg, answer>>
    BY <1>5 DEF Restart, Damage, ChangeGrant, vars
  <1>6. QED
    BY <1>1, <1>2, <1>3, <1>4, <1>5 DEF Next, Progress

LEMMA AnsweredStays ==
    ASSUME IInv, HeardInv, [Next]_vars, NEW k, NEW fp, NEW r, r # None,
           AnsweredBy(k, fp, r)
    PROVE  AnsweredBy(k, fp, r)'
  BY HistoryStays DEF AnsweredBy, KeyOf, FpOf, Fingerprint

(* Who is asked for his answer has one: a step at a time.                  *)
LEMMA StepHeard == IInv /\ HeardInv /\ [Next]_vars => HeardInv'
  <1> SUFFICES ASSUME IInv, HeardInv, [Next]_vars PROVE HeardInv'
    OBVIOUS
  <1> USE DEF IInv, TypeOK, Goto, Finish, HeardInv
  <1>1. ASSUME NEW h \in Handlers, NEW k \in Keys \cup {None}, NEW q \in Requests,
               Arrive(h, k, q)
        PROVE  HeardInv'
    BY <1>1 DEF Arrive, CalledInv
  <1>2. ASSUME NEW h \in Handlers, NEW r \in Results, HaAnswers(h, r)
        PROVE  HeardInv'
    <2>1. h \in called /\ r # None
      BY <1>2, NoneIsNothing DEF HaAnswers, CalledInv
    <2>2. QED
      BY <1>2, <2>1 DEF HaAnswers
  <1>3. ASSUME NEW h \in Handlers,
               \/ Claim(h) \/ ClaimRefused(h) \/ LoadFails(h) \/ WriteLands(h)
               \/ ClaimSaved(h) \/ SaveRaises(h) \/ MarkDispatched(h) \/ HaRaises(h)
               \/ CompleteSaved(h) \/ Cancel(h)
        PROVE  HeardInv'
    BY <1>3 DEF Claim, ClaimRefused, LoadFails, WriteLands, ClaimSaved, SaveRaises,
                MarkDispatched, HaRaises, CompleteSaved, Cancel, Saving
  <1>4. ASSUME NEW h \in Handlers, Dispatch(h)
        PROVE  HeardInv'
    BY <1>4 DEF Dispatch, CalledInv
  <1>5. ASSUME NEW h \in Handlers, Complete(h)
        PROVE  HeardInv'
    BY <1>5 DEF Complete
  <1>6. CASE Restart
    BY <1>6 DEF Restart
  <1>7. ASSUME \/ UNCHANGED vars
               \/ \E k \in Keys : Damage(k)
               \/ \E s \in Scopes : ChangeGrant(s)
        PROVE  UNCHANGED <<called, pc, answer>>
    BY <1>7 DEF Damage, ChangeGrant, vars
  <1>8. QED
    BY <1>1, <1>2, <1>3, <1>4, <1>5, <1>6, <1>7 DEF Next, Progress

(* A row that is recorded as completed was so before, or is the work of    *)
(* Complete.                                                               *)
LEMMA StepRecorded == IInv /\ HeardInv /\ RecordedInv /\ [Next]_vars => RecordedInv'
  <1> SUFFICES ASSUME IInv, HeardInv, RecordedInv, [Next]_vars,
                      NEW k \in Keys, NEW row \in {rows'[k], disk'[k]},
                      row.status = "completed"
               PROVE  row.result # None /\ AnsweredBy(k, row.fp, row.result)'
    BY DEF RecordedInv
  <1> USE DEF IInv, TypeOK
  <1>s. row \in {rows[k], disk[k]} =>
           row.result # None /\ AnsweredBy(k, row.fp, row.result)'
    BY AnsweredStays DEF RecordedInv
  <1>t. Table[k].status = "completed" => Table[k] \in {rows[k], disk[k]}
    BY DEF Table, Parse, NoRow, Frozen
  <1>1. ASSUME NEW h \in Handlers, Claim(h)
        PROVE  row \in {rows[k], disk[k]}
    <2>1. Table \in [Keys -> RowsOf(Statuses)]
      BY TableType
    <2>2. QED
      BY <1>1, <1>t, <2>1 DEF Claim
  <1>2. ASSUME NEW h \in Handlers, ClaimRefused(h)
        PROVE  row \in {rows[k], disk[k]}
    BY <1>2, <1>t DEF ClaimRefused
  <1>3. ASSUME NEW h \in Handlers, WriteLands(h)
        PROVE  row \in {rows[k], disk[k]}
    BY <1>3 DEF WriteLands, store
  <1>4. ASSUME NEW h \in Handlers, MarkDispatched(h)
        PROVE  row \in {rows[k], disk[k]}
    BY <1>4 DEF MarkDispatched, RowsOf
  <1>5. ASSUME NEW h \in Handlers, Complete(h)
        PROVE  row.result # None /\ AnsweredBy(k, row.fp, row.result)'
    <2>1. CASE row \in {rows[k], disk[k]}
      BY <1>s, <2>1
    <2>2. CASE row \notin {rows[k], disk[k]}
      <3>1. /\ k = KeyOf(h) /\ pc[h] = "complete" /\ rows[k].fp = FpOf(h)
            /\ row = [rows[k] EXCEPT !.status = "completed", !.result = answer[h]]
        BY <1>5, <2>2 DEF Complete
      <3>2. rows[k] \in RowsOf(Statuses)
        OBVIOUS
      <3>3. row.fp = FpOf(h) /\ row.result = answer[h]
        BY <3>1, <3>2 DEF RowsOf
      <3>4. h \in called /\ answer[h] # None
        BY <3>1 DEF HeardInv
      <3>5. AnsweredBy(k, row.fp, row.result)
        BY <3>1, <3>3, <3>4 DEF AnsweredBy
      <3>6. QED
        BY <3>3, <3>4, <3>5, AnsweredStays
    <2>3. QED
      BY <2>1, <2>2
  <1>6. CASE Restart
    BY <1>s, <1>6 DEF Restart, NoRow
  <1>7. ASSUME NEW j \in Keys, Damage(j)
        PROVE  row \in {rows[k], disk[k]}
    BY <1>7 DEF Damage, store, Garbled
  <1>8. ASSUME NEW h \in Handlers,
               \/ LoadFails(h) \/ ClaimSaved(h) \/ SaveRaises(h) \/ Dispatch(h)
               \/ \E r \in Results : HaAnswers(h, r)
               \/ HaRaises(h) \/ CompleteSaved(h) \/ Cancel(h)
        PROVE  UNCHANGED <<rows, disk>>
    BY <1>8 DEF LoadFails, ClaimSaved, SaveRaises, Dispatch, HaAnswers, HaRaises,
                CompleteSaved, Cancel, store
  <1>9. ASSUME \/ \E h \in Handlers, j \in Keys \cup {None}, q \in Requests : Arrive(h, j, q)
               \/ \E s \in Scopes : ChangeGrant(s)
               \/ UNCHANGED vars
        PROVE  UNCHANGED <<rows, disk>>
    BY <1>9 DEF Arrive, ChangeGrant, vars, store
  <1>10. QED
    BY <1>s, <1>1, <1>2, <1>3, <1>4, <1>5, <1>6, <1>7, <1>8, <1>9 DEF Next, Progress

(* Equal fingerprints are the same request under the same grant.           *)
LEMMA FingerprintsTell ==
    ASSUME NEW m \in Message, NEW n \in Message, Fingerprint(m) = Fingerprint(n)
    PROVE  m.req = n.req /\ m.scope = n.scope
  BY NoneIsNothing DEF Fingerprint, Message

(* What is published as an answer was HA's, a step at a time.              *)
LEMMA StepReplied ==
    IInv /\ HeardInv /\ RecordedInv /\ RepliedInv /\ [Next]_vars => RepliedInv'
  <1> SUFFICES ASSUME IInv, HeardInv, RecordedInv, RepliedInv, [Next]_vars
               PROVE  RepliedInv'
    OBVIOUS
  <1> DEFINE Heard(g, r) == \E x \in called' : /\ KeyOf(x)' = KeyOf(g)'
                                               /\ FpOf(x)' = FpOf(g)'
                                               /\ answer'[x] = r
             Fine(g) == /\ pc'[g] = "idle" => reply'[g].kind = "none"
                        /\ reply'[g].kind = "result" /\ KeyOf(g)' # None =>
                              reply'[g].result # None /\ Heard(g, reply'[g].result)
  <1> SUFFICES ASSUME NEW g \in Handlers PROVE Fine(g)
    BY DEF RepliedInv, AnsweredBy, Keyed
  <1> DEFINE Goal == Fine(g)
  <1> USE DEF IInv, TypeOK, Goto, Finish
  <1>k. ASSUME NEW r, r # None, AnsweredBy(KeyOf(g), FpOf(g), r), msg'[g] = msg[g]
        PROVE  Heard(g, r)
    <2>1. KeyOf(g)' = KeyOf(g) /\ FpOf(g)' = FpOf(g)
      BY <1>k DEF KeyOf, FpOf, Fingerprint
    <2>2. PICK h \in called : KeyOf(h) = KeyOf(g) /\ FpOf(h) = FpOf(g) /\ answer[h] = r
      BY <1>k DEF AnsweredBy
    <2>3. h \in called' /\ msg'[h] = msg[h] /\ answer'[h] = r
      BY <1>k, <2>2, HistoryStays
    <2>4. KeyOf(h)' = KeyOf(h) /\ FpOf(h)' = FpOf(h)
      BY <2>3 DEF KeyOf, FpOf, Fingerprint
    <2>5. QED
      BY <2>1, <2>2, <2>3, <2>4
  <1> HIDE DEF Heard
  <1>s. ASSUME msg'[g] = msg[g], reply'[g] = reply[g], pc'[g] = "idle" => pc[g] = "idle"
        PROVE  Goal
    <2>1. KeyOf(g)' = KeyOf(g) /\ reply'[g].result = reply[g].result
      BY <1>s DEF KeyOf
    <2>2. pc'[g] = "idle" => reply'[g].kind = "none"
      BY <1>s DEF RepliedInv
    <2>3. ASSUME reply[g].kind = "result", KeyOf(g) # None
          PROVE  reply[g].result # None /\ Heard(g, reply[g].result)
      <3>1. reply[g].result # None /\ AnsweredBy(KeyOf(g), FpOf(g), reply[g].result)
        BY <2>3 DEF RepliedInv, Keyed
      <3>2. QED
        BY <1>k, <1>s, <3>1
    <2>4. QED
      BY <1>s, <2>1, <2>2, <2>3
  <1>d. ASSUME pc'[g] # "idle", reply'[g].kind # "result"
        PROVE  Goal
    BY <1>d
  <1>1. ASSUME NEW h \in Handlers, NEW k \in Keys \cup {None}, NEW q \in Requests,
               Arrive(h, k, q)
        PROVE  Goal
    <2>1. CASE g = h
      <3>1. pc[g] = "idle" /\ reply'[g] = reply[g] /\ pc'[g] # "idle"
        BY <1>1, <2>1 DEF Arrive
      <3>2. reply'[g].kind = "none"
        BY <3>1 DEF RepliedInv
      <3>3. QED
        BY <3>1, <3>2
    <2>2. CASE g # h
      BY <1>1, <1>s, <2>2 DEF Arrive
    <2>3. QED
      BY <2>1, <2>2
  <1>2. ASSUME NEW h \in Handlers, ClaimRefused(h)
        PROVE  Goal
    <2>1. CASE g # h
      BY <1>2, <1>s, <2>1 DEF ClaimRefused
    <2>2. CASE g = h
      <3>1. /\ pc'[g] = "done" /\ msg'[g] = msg[g] /\ pc[g] = "claim"
            /\ reply'[g] = IF GrantHolds(g) THEN Verdict(Table[KeyOf(g)], FpOf(g))
                           ELSE Say("grant_changed")
        BY <1>2, <2>2 DEF ClaimRefused
      <3>2. KeyOf(g) \in Keys
        BY <3>1 DEF MessageInv, AtLedger
      <3>3. ASSUME reply'[g].kind = "result"
            PROVE  /\ Table[KeyOf(g)].status = "completed" /\ Table[KeyOf(g)].fp = FpOf(g)
                   /\ reply'[g].result = Table[KeyOf(g)].result
        BY <3>1, <3>3 DEF Verdict, Say, Answer
      <3>4. Table[KeyOf(g)].status = "completed" =>
               Table[KeyOf(g)] \in {rows[KeyOf(g)], disk[KeyOf(g)]}
        BY <3>2 DEF Table, Parse, NoRow, Frozen
      <3>5. ASSUME reply'[g].kind = "result"
            PROVE  /\ reply'[g].result # None
                   /\ AnsweredBy(KeyOf(g), FpOf(g), reply'[g].result)
        BY <3>2, <3>3, <3>4, <3>5 DEF RecordedInv
      <3>6. QED
        BY <1>k, <3>1, <3>5
    <2>3. QED
      BY <2>1, <2>2
  <1>3. ASSUME NEW h \in Handlers, NEW r \in Results, HaAnswers(h, r)
        PROVE  Goal
    <2>1. CASE g # h \/ UNCHANGED reply
      BY <1>3, <1>s, <2>1 DEF HaAnswers
    <2>2. CASE g = h /\ ~UNCHANGED reply
      <3>1. /\ pc'[g] = "done" /\ msg'[g] = msg[g]
            /\ KeyOf(g) = None \/ reply'[g] = Say("grant_changed")
        BY <1>3, <2>2 DEF HaAnswers
      <3>2. KeyOf(g)' # None => reply'[g].kind = "grant_changed"
        BY <3>1 DEF KeyOf, Say
      <3>3. QED
        BY <3>1, <3>2
    <2>3. QED
      BY <2>1, <2>2
  <1>4. ASSUME NEW h \in Handlers, CompleteSaved(h)
        PROVE  Goal
    <2>1. CASE g # h
      BY <1>4, <1>s, <2>1 DEF CompleteSaved
    <2>2. CASE g = h
      <3>1. /\ pc[g] = "completeSave" /\ pc'[g] = "done" /\ msg'[g] = msg[g]
            /\ reply'[g] = Answer(answer[g]) \/ reply'[g] = Say("grant_changed")
        BY <1>4, <2>2 DEF CompleteSaved
      <3>2. g \in called /\ answer[g] # None
        BY <3>1 DEF HeardInv
      <3>3. ASSUME reply'[g].kind = "result"
            PROVE  /\ reply'[g].result # None
                   /\ AnsweredBy(KeyOf(g), FpOf(g), reply'[g].result)
        BY <3>1, <3>2, <3>3 DEF Say, Answer, AnsweredBy
      <3>4. QED
        BY <1>k, <3>1, <3>3
    <2>3. QED
      BY <2>1, <2>2
  <1>5. ASSUME NEW h \in Handlers,
               \/ Claim(h) \/ WriteLands(h) \/ Cancel(h)
        PROVE  Goal
    BY <1>5, <1>s DEF Claim, WriteLands, Cancel
  <1>6. ASSUME NEW h \in Handlers,
               \/ LoadFails(h) \/ ClaimSaved(h) \/ SaveRaises(h) \/ MarkDispatched(h)
               \/ Dispatch(h) \/ HaRaises(h) \/ Complete(h)
        PROVE  Goal
    <2>1. CASE g # h \/ UNCHANGED reply
      BY <1>6, <1>s, <2>1 DEF LoadFails, ClaimSaved, SaveRaises, MarkDispatched,
                              Dispatch, HaRaises, Complete
    <2>2. CASE g = h /\ ~UNCHANGED reply
      <3>1. /\ pc'[g] = "done"
            /\ reply'[g] \in {Say("error"), Say("grant_changed"), Say("unknown")}
        BY <1>6, <2>2 DEF LoadFails, ClaimSaved, SaveRaises, MarkDispatched,
                          Dispatch, HaRaises, Complete
      <3>2. QED
        BY <1>d, <3>1 DEF Say
    <2>3. QED
      BY <2>1, <2>2
  <1>7. CASE Restart
    BY <1>7, <1>s DEF Restart
  <1>8. ASSUME \/ UNCHANGED vars
               \/ \E k \in Keys : Damage(k)
               \/ \E s \in Scopes : ChangeGrant(s)
        PROVE  UNCHANGED <<msg, reply, pc>>
    BY <1>8 DEF Damage, ChangeGrant, vars
  <1>9. QED
    BY <1>s, <1>1, <1>2, <1>3, <1>4, <1>5, <1>6, <1>7, <1>8 DEF Next, Progress

LEMMA StepAnswers == IInv /\ AnswerInv /\ [Next]_vars => AnswerInv'
  BY StepHeard, StepRecorded, StepReplied DEF AnswerInv

(* A keyed answer, original or replayed, is what HA answered to a dispatch *)
(* of that key, for the same request under the same grant, over any number *)
(* of retries, restarts and changes of the grant (operation_store.py,      *)
(* _handle_v2_command).                                                    *)
THEOREM EveryAnswerIsGenuine == Spec => []AnswersAreGenuine
  <1>1. ASSUME IInv, AnswerInv PROVE AnswersAreGenuine
    <2> SUFFICES ASSUME NEW h \in Handlers, reply[h].kind = "result", Keyed(h)
                 PROVE  \E g \in called : /\ KeyOf(g) = KeyOf(h)
                                          /\ msg[g].req = msg[h].req
                                          /\ msg[g].scope = msg[h].scope
                                          /\ answer[g] = reply[h].result
      BY DEF AnswersAreGenuine
    <2>1. PICK g \in called : /\ KeyOf(g) = KeyOf(h) /\ FpOf(g) = FpOf(h)
                              /\ answer[g] = reply[h].result
      BY <1>1 DEF AnswerInv, RepliedInv, AnsweredBy
    <2>2. g \in Handlers /\ pc[g] # "idle" /\ pc[h] # "idle"
      BY <1>1 DEF IInv, TypeOK, CalledInv, AnswerInv, RepliedInv
    <2>3. msg[g] \in Message /\ msg[h] \in Message
      BY <1>1, <2>2 DEF IInv, MessageInv
    <2>4. QED
      BY <2>1, <2>3, FingerprintsTell DEF FpOf
  <1>2. QED
    BY <1>1, InitSafe, StepSafe, InitAnswers, StepAnswers, PTL DEF Spec

-----------------------------------------------------------------------------
(* The refinement of OperationPromise.                                     *)

(* HA's answer to the only dispatch of a key is the verdict on the key.    *)
LEMMA VerdictIsAnswer ==
    ASSUME IInv, NEW g \in called, NEW k \in Keys, KeyOf(g) = k, answer[g] # None
    PROVE  VerdictOn(k) = answer[g]
  <1>1. \A h \in called : KeyOf(h) = k => h = g
    BY NoneIsNothing DEF IInv, AtMostOneDispatch, Keyed
  <1>2. Verdicts(k) = {answer[g]}
    BY <1>1 DEF Verdicts
  <1>3. QED
    BY <1>2 DEF VerdictOn

(* What is recorded of a key is the verdict, and the key is fenced.        *)
LEMMA RecordedIsVerdict ==
    ASSUME IInv, AnswerInv, NEW k \in Keys, NEW row \in {rows[k], disk[k]},
           row.status = "completed"
    PROVE  VerdictOn(k) = row.result /\ row.result # None /\ Fenced(disk[k])
  <1>1. PICK g \in called : KeyOf(g) = k /\ answer[g] = row.result
    BY DEF AnswerInv, RecordedInv, AnsweredBy
  <1>2. row.result # None
    BY DEF AnswerInv, RecordedInv
  <1>3. Keyed(g)
    BY <1>1, NoneIsNothing DEF Keyed
  <1>4. QED
    BY <1>1, <1>2, <1>3, VerdictIsAnswer DEF IInv, FenceInv

(* The promise does not see what does not touch the disk or a dispatch.    *)
LEMMA Unseen ==
    ASSUME disk' = disk,
           \A k \in Keys : {h \in called : KeyOf(h) = k}' = {h \in called : KeyOf(h) = k},
           \A h \in called : answer'[h] = answer[h]
    PROVE  UNCHANGED Promise!vars
  <1>1. ASSUME NEW k \in Keys PROVE VerdictOn(k)' = VerdictOn(k)
    <2>1. \A h \in {g \in called : KeyOf(g) = k} : answer'[h] = answer[h]
      OBVIOUS
    <2>2. Verdicts(k)' = Verdicts(k)
      BY <2>1 DEF Verdicts
    <2>3. QED
      BY <2>2 DEF VerdictOn
  <1>2. \A k \in Keys : (\E h \in called : KeyOf(h) = k)' <=> \E h \in called : KeyOf(h) = k
    <2> TAKE k \in Keys
    <2>1. {h \in called : KeyOf(h) = k}' = {h \in called : KeyOf(h) = k}
      OBVIOUS
    <2>2. QED
      BY <2>1
  <1>3. QED
    BY <1>1, <1>2 DEF Promise!vars

(* A write of the file, or damage to it, is a write of the promise.        *)
LEMMA DiskStep ==
    ASSUME IInv, AnswerInv, UNCHANGED <<msg, called, answer>>,
           \A k \in Keys : Keeps(disk[k], disk'[k]) \/ disk'[k] = Garbled,
           \A k \in Keys : disk'[k].status = "completed" => disk'[k] \in {rows[k], disk[k]}
    PROVE  Promise!Write
  <1>1. \A k \in Keys : VerdictOn(k)' = VerdictOn(k)
    BY DEF VerdictOn, Verdicts, KeyOf
  <1>2. {k \in Keys : \E h \in called : KeyOf(h) = k}'
          = {k \in Keys : \E h \in called : KeyOf(h) = k}
    BY DEF KeyOf
  <1>3. ASSUME NEW k \in Keys, Fate(disk'[k]) = "settled"
        PROVE  /\ VerdictOn(k) = Recorded(disk'[k]) /\ VerdictOn(k) # None
               /\ Fate(disk[k]) # "open"
    <2>1. disk'[k].status = "completed"
      BY <1>3 DEF Fate
    <2>2. VerdictOn(k) = disk'[k].result /\ disk'[k].result # None /\ Fenced(disk[k])
      BY <2>1, RecordedIsVerdict
    <2>3. QED
      BY <1>3, <2>2 DEF Fate, Recorded, Fenced
  <1>4. \A k \in Keys : Fate(disk'[k]) # "settled" => Recorded(disk'[k]) = None
    BY DEF Recorded
  <1>5. \A row : Fate(row) \in {"open", "fenced", "settled", "frozen"}
    BY DEF Fate
  <1>6. ASSUME NEW k \in Keys
        PROVE  Promise!Advance(Fate(disk[k]), Fate(disk'[k]))
    <2>1. CASE disk'[k] = Garbled
      BY <2>1 DEF Garbled, Fate, Promise!Advance
    <2>2. CASE Keeps(disk[k], disk'[k])
      <3>1. CASE Fate(disk[k]) = "open"
        BY <1>3, <1>5, <3>1 DEF Promise!Advance
      <3>2. CASE Fate(disk[k]) = "fenced"
        <4>1. Fenced(disk'[k])
          BY <2>2, <3>2 DEF Fate, Keeps, Fenced
        <4>2. QED
          BY <3>2, <4>1 DEF Fate, Fenced, Promise!Advance
      <3>3. CASE Fate(disk[k]) = "settled"
        <4>1. disk'[k] = disk[k] \/ disk'[k] = Frozen
          BY <2>2, <3>3 DEF Fate, Keeps
        <4>2. QED
          BY <4>1 DEF Fate, Frozen, Promise!Advance
      <3>4. CASE Fate(disk[k]) = "frozen"
        <4>1. disk[k].status \in {"unknown", "garbled"}
          BY <3>4 DEF Fate, TypeOK, IInv, RowsOf, Statuses
        <4>2. QED
          BY <2>2, <4>1 DEF Fate, Keeps, Promise!Advance
      <3>5. QED
        BY <1>5, <3>1, <3>2, <3>3, <3>4
    <2>3. QED
      BY <2>1, <2>2
  <1>7. QED
    BY <1>1, <1>2, <1>3, <1>4, <1>5, <1>6 DEF Promise!Write

(* Every step of the ledger is one of the promise, or none.                *)
LEMMA StepPromise ==
    ASSUME IInv, AnswerInv, DiskInv, [Next]_vars
    PROVE  [Promise!Next]_(Promise!vars)
  <1> USE DEF IInv, TypeOK, Goto, Finish
  <1>1. ASSUME NEW h \in Handlers, NEW k \in Keys \cup {None}, NEW q \in Requests,
               Arrive(h, k, q)
        PROVE  UNCHANGED Promise!vars
    <2>1. h \notin called
      BY <1>1 DEF Arrive, CalledInv
    <2>2. \A g \in called : KeyOf(g)' = KeyOf(g)
      BY <1>1, <2>1 DEF Arrive, KeyOf
    <2>3. called' = called \/ (called' = called \cup {h} /\ KeyOf(h)' = None)
      BY <1>1 DEF Arrive, KeyOf
    <2>4. \A j \in Keys : {g \in called : KeyOf(g) = j}' = {g \in called : KeyOf(g) = j}
      BY <2>2, <2>3, NoneIsNothing
    <2>5. disk' = disk /\ answer' = answer
      BY <1>1 DEF Arrive
    <2>6. QED
      BY <2>4, <2>5, Unseen
  <1>2. ASSUME NEW h \in Handlers, Dispatch(h), GrantHolds(h)
        PROVE  \E k \in Keys : Promise!Send(k)
    <2>1. /\ pc[h] = "markSave" /\ disk = rows /\ UNCHANGED <<disk, msg, answer>>
          /\ called' = called \cup {h}
      BY <1>2 DEF Dispatch, SaveReturns, LockInv
    <2>2. KeyOf(h) \in Keys
      BY <2>1 DEF MessageInv, AtLedger
    <2>3. Keyed(h)
      BY <2>2, NoneIsNothing DEF Keyed
    <2>4. Fate(disk[KeyOf(h)]) = "fenced"
      BY <2>1, <2>3 DEF RowInv, Fate
    <2>5. \A g \in called : KeyOf(g) # KeyOf(h)
      BY <2>1 DEF FenceInv
    <2>6. \A g : KeyOf(g)' = KeyOf(g)
      BY <2>1 DEF KeyOf
    <2>7. h \notin called
      BY <2>1 DEF CalledInv
    <2>8. answer[h] = None
      BY <2>7 DEF AnswerInv, HeardInv
    <2>9. ASSUME NEW k \in Keys PROVE VerdictOn(k)' = VerdictOn(k)
      <3>1. Verdicts(k)' = Verdicts(k)
        BY <2>1, <2>6, <2>8 DEF Verdicts
      <3>2. QED
        BY <3>1 DEF VerdictOn
    <2>10. {k \in Keys : \E g \in called : KeyOf(g) = k}'
             = {k \in Keys : \E g \in called : KeyOf(g) = k} \cup {KeyOf(h)}
      BY <2>1, <2>2, <2>6
    <2>11. Promise!Send(KeyOf(h))
      BY <2>1, <2>2, <2>4, <2>5, <2>9, <2>10 DEF Promise!Send
    <2>12. QED
      BY <2>2, <2>11
  <1>3. ASSUME NEW h \in Handlers, Dispatch(h), ~GrantHolds(h)
        PROVE  UNCHANGED <<disk, msg, called, answer>>
    BY <1>3 DEF Dispatch
  <1>4. ASSUME NEW h \in Handlers, NEW r \in Results, HaAnswers(h, r), Keyed(h)
        PROVE  \E k \in Keys, q \in Results : Promise!Hear(k, q)
    <2>1. /\ h \in called /\ answer[h] = None
          /\ UNCHANGED <<disk, msg, called>> /\ answer' = [answer EXCEPT ![h] = r]
      BY <1>4 DEF HaAnswers, CalledInv, AnswerInv, HeardInv
    <2>2. KeyOf(h) \in Keys
      BY <1>4, KeyedHasKey
    <2>3. \A g \in called : KeyOf(g) = KeyOf(h) => g = h
      BY <1>4, <2>1 DEF AtMostOneDispatch, Keyed
    <2>4. \A g : KeyOf(g)' = KeyOf(g)
      BY <2>1 DEF KeyOf
    <2>k. PICK key \in Keys : key = KeyOf(h)
      BY <2>2
    <2>5. VerdictOn(key) = None
      <3>1. Verdicts(key) = {}
        BY <2>1, <2>3, <2>k DEF Verdicts
      <3>2. QED
        BY <3>1 DEF VerdictOn
    <2>6. VerdictOn(key)' = r
      <3>1. r # None
        BY NoneIsNothing
      <3>2. {answer'[x] : x \in {g \in called : KeyOf(g) = key}} = {r}
        BY <2>1, <2>3, <2>k
      <3>3. Verdicts(key)' = {r}
        BY <2>1, <2>4, <3>1, <3>2 DEF Verdicts
      <3>4. QED
        BY <3>3 DEF VerdictOn
    <2>7. ASSUME NEW k \in Keys, k # key PROVE VerdictOn(k)' = VerdictOn(k)
      <3>1. \A g \in called : KeyOf(g) = k => answer'[g] = answer[g]
        BY <2>1, <2>7, <2>k
      <3>2. Verdicts(k)' = Verdicts(k)
        BY <2>1, <2>4, <3>1 DEF Verdicts
      <3>3. QED
        BY <3>2 DEF VerdictOn
    <2>8. {k \in Keys : \E g \in called : KeyOf(g) = k}'
            = {k \in Keys : \E g \in called : KeyOf(g) = k}
      BY <2>1, <2>4
    <2>9. [k \in Keys |-> VerdictOn(k)]'
            = [[k \in Keys |-> VerdictOn(k)] EXCEPT ![key] = r]
      BY <2>6, <2>7
    <2>10. Promise!Hear(key, r)
      BY <2>1, <2>5, <2>8, <2>9, <2>k DEF Promise!Hear
    <2>11. QED
      BY <2>10
  <1>5. ASSUME NEW h \in Handlers, NEW r \in Results, HaAnswers(h, r), ~Keyed(h)
        PROVE  UNCHANGED Promise!vars
    <2>1. /\ UNCHANGED <<disk, msg, called>> /\ answer' = [answer EXCEPT ![h] = r]
          /\ KeyOf(h) = None
      BY <1>5 DEF HaAnswers, Keyed
    <2>2. \A g : KeyOf(g)' = KeyOf(g)
      BY <2>1 DEF KeyOf
    <2>3. ASSUME NEW k \in Keys PROVE VerdictOn(k)' = VerdictOn(k)
      <3>1. \A g \in called : KeyOf(g) = k => answer'[g] = answer[g]
        BY <2>1, NoneIsNothing
      <3>2. Verdicts(k)' = Verdicts(k)
        BY <2>1, <2>2, <3>1 DEF Verdicts
      <3>3. QED
        BY <3>2 DEF VerdictOn
    <2>4. {k \in Keys : \E g \in called : KeyOf(g) = k}'
            = {k \in Keys : \E g \in called : KeyOf(g) = k}
      BY <2>1, <2>2
    <2>5. QED
      BY <2>1, <2>3, <2>4 DEF Promise!vars
  <1>6. ASSUME NEW h \in Handlers, WriteLands(h)
        PROVE  Promise!Write
    <2>1. /\ disk' = rows /\ UNCHANGED <<msg, called, answer>> /\ loaded
      BY <1>6, WriterHasLoaded DEF WriteLands
    <2>2. \A k \in Keys : Keeps(disk[k], disk'[k])
      BY <2>1 DEF DiskInv
    <2>3. QED
      BY <2>1, <2>2, DiskStep
  <1>7. ASSUME NEW k \in Keys, Damage(k)
        PROVE  Promise!Write
    <2>1. /\ disk' = [disk EXCEPT ![k] = Garbled] /\ UNCHANGED <<msg, called, answer>>
      BY <1>7 DEF Damage
    <2>2. \A j \in Keys : Keeps(disk[j], disk'[j]) \/ disk'[j] = Garbled
      BY <2>1 DEF Keeps
    <2>3. \A j \in Keys : disk'[j].status = "completed" => disk'[j] \in {rows[j], disk[j]}
      BY <2>1 DEF Garbled
    <2>4. QED
      BY <2>1, <2>2, <2>3, DiskStep
  <1>8. ASSUME NEW h \in Handlers,
               \/ Claim(h) \/ ClaimRefused(h) \/ LoadFails(h) \/ ClaimSaved(h)
               \/ SaveRaises(h) \/ MarkDispatched(h) \/ HaRaises(h)
               \/ Complete(h) \/ CompleteSaved(h) \/ Cancel(h)
        PROVE  UNCHANGED <<disk, msg, called, answer>>
    BY <1>8 DEF Claim, ClaimRefused, LoadFails, ClaimSaved, SaveRaises, MarkDispatched,
                HaRaises, Complete, CompleteSaved, Cancel
  <1>9. ASSUME \/ Restart \/ UNCHANGED vars
               \/ \E s \in Scopes : ChangeGrant(s)
        PROVE  UNCHANGED <<disk, msg, called, answer>>
    BY <1>9 DEF Restart, ChangeGrant, vars
  <1>10. ASSUME UNCHANGED <<disk, msg, called, answer>>
         PROVE  UNCHANGED Promise!vars
    BY <1>10, Unseen DEF KeyOf
  <1>11. QED
    BY <1>1, <1>2, <1>3, <1>4, <1>5, <1>6, <1>7, <1>8, <1>9, <1>10
       DEF Next, Progress, Promise!Next

(* The ledger implements OperationPromise: whatever handlers, saves,       *)
(* cancellations, damages and restarts there are, a key is open, then      *)
(* fenced, then settled with the answer of its only dispatch, or frozen    *)
(* for good (operation_store.py, README "operationKey").                   *)
THEOREM LedgerKeepsItsPromise == Spec => ImplementsPromise
  <1>1. Init => Promise!Init
    <2> SUFFICES ASSUME Init PROVE Promise!Init
      OBVIOUS
    <2>1. \A k \in Keys : Verdicts(k) = {} /\ Fate(disk[k]) = "open"
      BY DEF Init, Verdicts, Fate, NoRow
    <2>2. \A k \in Keys : VerdictOn(k) = None /\ Recorded(disk[k]) = None
      BY <2>1 DEF VerdictOn, Recorded
    <2>3. called = {}
      BY DEF Init
    <2>4. QED
      BY <2>1, <2>2, <2>3 DEF Promise!Init
  <1>2. Init => DiskInv
    BY DEF Init, DiskInv
  <1>3. IInv /\ DiskInv /\ [Next]_vars => DiskInv'
    BY StepKeeps
  <1>4. IInv /\ AnswerInv /\ DiskInv /\ [Next]_vars => [Promise!Next]_(Promise!vars)
    BY StepPromise
  <1>5. QED
    BY <1>1, <1>2, <1>3, <1>4, InitSafe, StepSafe, InitAnswers, StepAnswers, PTL
       DEF Spec, ImplementsPromise, Promise!Spec
=============================================================================

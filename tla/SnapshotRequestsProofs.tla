----------------------- MODULE SnapshotRequestsProofs -----------------------
(***************************************************************************)
(* Every safety property of SnapshotRequests, for any number of handlers,  *)
(* messages, entities and grants.                                          *)
(*                                                                         *)
(* That two snapshots never stream at once is not inductive: a handler     *)
(* holds the slot before and after it streams.  SlotInv says that the slot *)
(* has exactly one holder; the other conjuncts of IInv say what the type   *)
(* invariant needs of the fields a handler uses at each of its steps.      *)
(***************************************************************************)
EXTENDS SnapshotRequests, FiniteSetTheorems, TLAPS

(* The slot is taken by the one handler that holds it.                     *)
SlotInv ==
    /\ \A h \in Handlers : Holds(task[h]) => request # None
    /\ \A g, h \in Handlers : Holds(task[g]) /\ Holds(task[h]) => g = h
    /\ SlotIsHeld

(* The cache has no reply yet for the stream under way.                    *)
Live(t) == t.pc \in {"accepting", "streaming", "displaying"} /\ t.path = "snapshot"
FreshInv ==
    \A h \in Handlers : Live(task[h])
        => \A i \in DOMAIN replies : replies[i].msg # task[h].msg

(* What a handler reads of its record is there when it reads it.           *)
FieldOK(t) ==
    /\ t.path \in SnapshotPaths => t.msg \in Msgs
    /\ t.pc = "displaying" => t.at \in Entities
    /\ t.pc \in {"reading", "answering"} /\ t.path = "entity" => t.at \in Entities
    /\ t.pc \in {"reading", "answering"} => t.path \in {"states", "entity"}
    /\ t.pc = "accepting" => t.path = "snapshot"
    /\ t.pc = "replaying" => t.reply \in ReplyRecord
FieldInv == \A h \in Handlers : task[h] # Idle => FieldOK(task[h])

(* A link that breaks is not the last one.                                 *)
LinkInv == ~up => conn <= MaxBreaks

IInv == TypeOK /\ SlotInv /\ FreshInv /\ FieldInv /\ LinkInv
-----------------------------------------------------------------------------
(* The cache and its bound.                                                *)

Distinct(q) == \A i, j \in DOMAIN q : q[i].msg = q[j].msg => i = j
CacheType(q) == q \in Seq(ReplyRecord) /\ Len(q) <= MaxReplies /\ Distinct(q)

(* Forgetting the receipts of another client or grant keeps the type.      *)
LEMMA CacheFacts ==
    ASSUME TypeOK
    PROVE  CacheType(Cache)
<1>1. CacheType(replies)
  BY DEF TypeOK, CacheType, Distinct
<1>2. CacheType(<<>>)
  BY SnapshotBounds DEF CacheType, Distinct
<1> QED BY <1>1, <1>2 DEF Cache

(* A receipt of a message that has none is remembered within the bound.    *)
LEMMA RememberFacts ==
    ASSUME TypeOK, NEW r \in ReplyRecord,
           \A i \in DOMAIN replies : replies[i].msg # r.msg
    PROVE  CacheType(Remember(r))
<1> DEFINE kept == Append(replies, r)
<1>1. /\ kept \in Seq(ReplyRecord) /\ Len(kept) = Len(replies) + 1
      /\ \A i \in 1..Len(replies) : kept[i] = replies[i]
      /\ kept[Len(replies) + 1] = r
  BY DEF TypeOK
<1>2. Len(kept) <= MaxReplies + 1 /\ MaxReplies \in Nat \ {0} /\ Len(replies) \in Nat
  BY <1>1, SnapshotBounds DEF TypeOK
<1>3. Distinct(kept)
  BY <1>1 DEF Distinct, TypeOK
<1>4. CASE Len(kept) > MaxReplies
  <2>1. /\ Tail(kept) \in Seq(ReplyRecord) /\ Len(Tail(kept)) = Len(kept) - 1
        /\ \A i \in 1..Len(kept) - 1 : Tail(kept)[i] = kept[i + 1]
    BY <1>1, <1>2
  <2>2. Distinct(Tail(kept))
    <3> SUFFICES ASSUME NEW i \in DOMAIN Tail(kept), NEW j \in DOMAIN Tail(kept),
                        Tail(kept)[i].msg = Tail(kept)[j].msg
                 PROVE  i = j
      BY DEF Distinct
    <3>1. /\ i \in Nat /\ j \in Nat /\ i + 1 \in DOMAIN kept /\ j + 1 \in DOMAIN kept
          /\ kept[i + 1] = Tail(kept)[i] /\ kept[j + 1] = Tail(kept)[j]
      BY <1>1, <1>2, <2>1
    <3>2. i + 1 = j + 1
      BY <1>3, <3>1 DEF Distinct
    <3> QED BY <3>1, <3>2
  <2> QED BY <1>2, <1>4, <2>1, <2>2 DEF CacheType, Remember
<1>5. CASE ~(Len(kept) > MaxReplies)
  BY <1>1, <1>2, <1>3, <1>5 DEF CacheType, Remember
<1> QED BY <1>4, <1>5

-----------------------------------------------------------------------------
(* The type of the state.                                                  *)

(* Every initial state satisfies the inductive invariant.                  *)
LEMMA InitEstablishes == Init => IInv
<1> SUFFICES ASSUME Init PROVE IInv
  OBVIOUS
<1> USE DEF Init
<1>1. TypeOK
  BY SnapshotBounds, GrantsAllowEntities DEF TypeOK, Idle, Nothing
<1>2. SlotInv /\ FieldInv /\ FreshInv /\ LinkInv
  BY DEF SlotInv, SlotIsHeld, Holds, FieldInv, FieldOK, FreshInv, Live, LinkInv, Idle
<1> QED BY <1>1, <1>2 DEF IInv
TaskType == [Handlers -> TaskRecord \union {Idle}]

(* A new handler, and one that closes, have the type of a handler.         *)
LEMMA HandlerType ==
    ASSUME grant \in Grants, NEW path \in Paths, NEW msg \in Msgs \union {None},
           NEW pc \in {"accepting", "replaying", "reading", "cataloging", "ending", "refused"}
    PROVE  Handler(path, msg, pc) \in TaskRecord
BY DEF Handler, TaskRecord

(* A handler that only ends from here on is still a handler.               *)
LEMMA ClosingType ==
    ASSUME NEW h \in Handlers, task[h] \in TaskRecord, NEW pc \in {"ending", "refused"}
    PROVE  Closing(h, pc) \in TaskRecord
BY DEF Closing, TaskRecord

(* Publishing a result changes one handler.                                *)
LEMMA TellType ==
    ASSUME task \in TaskType, NEW h \in Handlers, NEW t \in TaskRecord, Tell(h, t)
    PROVE  task' \in TaskType
BY DEF TaskType, Tell, TaskRecord

(* What is published has the type of a message.                            *)
LEMMA HandType ==
    ASSUME wire \subseteq Receipts \union States,
           NEW evidence \in SUBSET (Receipts \union States), Hand(evidence)
    PROVE  wire' \subseteq Receipts \union States
BY DEF Hand

MessageType == [kind : {"none", "whole", "part"}, data : SUBSET Entities]

(* The history variable of the last message keeps its type.                *)
LEMMA DescribeType ==
    ASSUME NEW kind \in {"whole", "part"}, NEW data \in SUBSET Entities, Describe(kind, data)
    PROVE  last' \in MessageType
BY DEF Describe, MessageType, Nothing

(* Both receipts of a reply are receipts.                                  *)
LEMMA ReceiptType ==
    /\ \A msg \in Msgs, scope \in Grants : Accepted(msg, scope) \in Receipts
    /\ \A r \in ReplyRecord : Finished(r) \in Receipts
BY DEF Accepted, Finished, Receipts, ReplyRecord

(* A handler that is not idle has a record.                                *)
LEMMA TurnType ==
    ASSUME TypeOK, NEW h \in Handlers, task[h] # Idle
    PROVE  /\ task \in TaskType /\ task[h] \in TaskRecord
           /\ task[h].scope \in Grants /\ task[h].scope \subseteq Entities
           /\ task[h].pc # "idle"
BY GrantsAllowEntities DEF TypeOK, TaskType, TaskRecord

RequestType == [client : 1..MaxBreaks + 1, msg : Msgs] \union {None}
OwnerType == [client : 1..MaxBreaks + 1, scope : Grants] \union {None}
FrameType ==
    /\ conn \in 1..MaxBreaks + 1 /\ up \in BOOLEAN /\ grant \in Grants
    /\ commands \in 0..MaxCommands /\ regrants \in 0..MaxRegrants
SlotType == request \in RequestType /\ CacheType(replies) /\ cacheOf \in OwnerType
HistoryType == wire \subseteq Receipts \union States /\ last \in MessageType

(* TypeOK in the parts the actions change together.                        *)
LEMMA TypeParts == TypeOK <=> task \in TaskType /\ FrameType /\ SlotType /\ HistoryType
BY DEF TypeOK, TaskType, RequestType, OwnerType, FrameType, SlotType, CacheType,
       Distinct, HistoryType, MessageType

(* The same of the next state, in the direction the proofs use.            *)
LEMMA TypePartsNext ==
    ASSUME task' \in TaskType, FrameType', SlotType', HistoryType'
    PROVE  TypeOK'
BY DEF TypeOK, TaskType, RequestType, OwnerType, FrameType, SlotType, CacheType,
       Distinct, HistoryType, MessageType

(* Steps that hand nothing, and steps that leave the slot alone.           *)
LEMMA QuietType ==
    ASSUME TypeOK, NothingHanded
    PROVE  HistoryType'
BY TypeParts DEF HistoryType, NothingHanded, Nothing, MessageType

(* A step that leaves the slot alone keeps its type.                       *)
LEMMA SameSlotType ==
    ASSUME TypeOK, UNCHANGED slot
    PROVE  SlotType'
BY TypeParts DEF SlotType, slot, CacheType, Distinct

(* A command arrives.                                                      *)
LEMMA ReceiveType ==
    ASSUME TypeOK, NEW h \in Handlers, NEW msg \in Msgs, Receive(h, msg)
    PROVE  TypeOK'
<1> USE TypeParts
<1>1. FrameType'
  BY SnapshotBounds DEF Receive, Busy, Repeated, Replay, StartStream, ScopeTooLarge, ReadAll,
     Begin, Arrive, FrameType
<1>2. Mine(msg) \in RequestType /\ Owner \in OwnerType /\ CacheType(Cache) /\ grant \in Grants
      /\ grant \subseteq Entities /\ wire \subseteq Receipts \union States
  BY CacheFacts, GrantsAllowEntities
     DEF Mine, Owner, RequestType, OwnerType, FrameType, HistoryType
<1>3. ASSUME NEW path \in SnapshotPaths, Busy(h, path, msg) PROVE TypeOK'
  <2>1. Handler(path, msg, "refused") \in TaskRecord
    BY <1>2, HandlerType DEF SnapshotPaths, Paths
  <2>2. Tell(h, Handler(path, msg, "refused")) /\ NothingHanded /\ UNCHANGED slot
    BY <1>3 DEF Busy, TellNothing
  <2>3. task' \in TaskType
    BY <2>1, <2>2, TellType
  <2> QED BY <1>1, <2>2, <2>3, QuietType, SameSlotType, TypePartsNext
<1>4. ASSUME NEW path \in SnapshotPaths, Repeated(h, path, msg) PROVE TypeOK'
  <2>1. UNCHANGED task /\ NothingHanded /\ UNCHANGED slot
    BY <1>4 DEF Repeated
  <2> QED BY <1>1, <2>1, QuietType, SameSlotType, TypePartsNext DEF TaskType
<1>5. ASSUME Replay(h, msg) PROVE TypeOK'
  <2>1. PICK i \in DOMAIN Cache :
          /\ Tell(h, [Handler("snapshot", msg, "replaying") EXCEPT !.reply = Cache[i]])
          /\ Hand({Accepted(msg, Cache[i].scope)}) /\ Describe("whole", Cache[i].scope)
    BY <1>5 DEF Replay
  <2>2. Cache[i] \in ReplyRecord
    BY <1>2 DEF CacheType
  <2>3. Cache[i].scope \in Grants /\ Cache[i].scope \subseteq Entities
    BY <2>2, GrantsAllowEntities DEF ReplyRecord
  <2>4. [Handler("snapshot", msg, "replaying") EXCEPT !.reply = Cache[i]] \in TaskRecord
    <3>1. Handler("snapshot", msg, "replaying") \in TaskRecord
      BY <1>2, HandlerType DEF Paths
    <3> QED BY <2>2, <3>1 DEF TaskRecord
  <2>5. task' \in TaskType
    BY <2>1, <2>4, TellType
  <2>6. HistoryType'
    BY <1>2, <2>1, <2>3, HandType, DescribeType, ReceiptType DEF HistoryType
  <2>7. SlotType'
    BY <1>2, <1>5 DEF Replay, SlotType, CacheType, Distinct
  <2> QED BY <1>1, <2>5, <2>6, <2>7, TypePartsNext
<1>6. ASSUME Begin(h, msg) PROVE SlotType'
  BY <1>2, <1>6 DEF Begin, SlotType, CacheType, Distinct
<1>7. ASSUME StartStream(h, msg) PROVE TypeOK'
  <2>1. /\ Begin(h, msg) /\ Tell(h, [Handler("snapshot", msg, "accepting") EXCEPT !.left = grant])
        /\ Hand({Accepted(msg, grant)}) /\ Describe("whole", grant)
    BY <1>7 DEF StartStream
  <2>2. [Handler("snapshot", msg, "accepting") EXCEPT !.left = grant] \in TaskRecord
    <3>1. Handler("snapshot", msg, "accepting") \in TaskRecord
      BY <1>2, HandlerType DEF Paths
    <3> QED BY <1>2, <3>1 DEF TaskRecord
  <2>3. task' \in TaskType
    BY <2>1, <2>2, TellType
  <2>4. HistoryType'
    BY <1>2, <2>1, HandType, DescribeType, ReceiptType DEF HistoryType
  <2> QED BY <1>1, <1>6, <2>1, <2>3, <2>4, TypePartsNext
<1>8. ASSUME ScopeTooLarge(h, msg) PROVE TypeOK'
  <2>1. Begin(h, msg) /\ Tell(h, Handler("snapshot", msg, "ending")) /\ NothingHanded
    BY <1>8 DEF ScopeTooLarge, TellNothing
  <2>2. Handler("snapshot", msg, "ending") \in TaskRecord
    BY <1>2, HandlerType DEF Paths
  <2>3. task' \in TaskType
    BY <2>1, <2>2, TellType
  <2> QED BY <1>1, <1>6, <2>1, <2>3, QuietType, TypePartsNext
<1>9. ASSUME ReadAll(h, msg) PROVE TypeOK'
  <2>1. Handler("states", msg, "reading") \in TaskRecord
    BY <1>2, HandlerType DEF Paths
  <2>2. task' \in TaskType
    BY <1>9, <2>1 DEF ReadAll, TaskType
  <2>3. Begin(h, msg) /\ NothingHanded
    BY <1>9 DEF ReadAll
  <2> QED BY <1>1, <1>6, <2>2, <2>3, QuietType, TypePartsNext
<1> QED BY <1>3, <1>4, <1>5, <1>7, <1>8, <1>9 DEF Receive

(* Queries that need no slot, and what happens around the handlers.        *)
LEMMA EnvironmentType ==
    ASSUME TypeOK, LinkInv,
           \/ \E h \in Handlers, e \in Entities : ReadOne(h, e)
           \/ \E h \in Handlers : ReadCatalog(h)
           \/ Overloaded \/ LinkBreaks \/ Disconnected \/ Regrant
    PROVE  TypeOK'
<1> USE TypeParts
<1>1. FrameType'
  <2>1. FrameType
    OBVIOUS
  <2>2. CASE \E h \in Handlers : ReadCatalog(h) \/ \E e \in Entities : ReadOne(h, e)
    BY <2>1, <2>2, SnapshotBounds DEF ReadOne, ReadCatalog, Arrive, FrameType
  <2>3. CASE Overloaded
    BY <2>1, <2>3, SnapshotBounds DEF Overloaded, FrameType
  <2>4. CASE LinkBreaks
    BY <2>1, <2>4 DEF LinkBreaks, FrameType
  <2>5. CASE Regrant
    BY <2>1, <2>5, SnapshotBounds DEF Regrant, FrameType
  <2>6. CASE Disconnected
    BY <2>1, <2>6, SnapshotBounds DEF Disconnected, FrameType, LinkInv
  <2> QED BY <2>2, <2>3, <2>4, <2>5, <2>6
<1>2. grant \in Grants /\ grant \subseteq Entities
  BY GrantsAllowEntities DEF FrameType
<1>3. ASSUME NEW h \in Handlers, NEW e \in Entities, ReadOne(h, e) PROVE TypeOK'
  <2>1. /\ Handler("entity", None, "ending") \in TaskRecord
        /\ Handler("entity", None, "reading") \in TaskRecord
    BY <1>2, HandlerType DEF Paths
  <2>2. [Handler("entity", None, "reading") EXCEPT !.at = e] \in TaskRecord
    BY <2>1 DEF TaskRecord
  <2>3. CASE e \in grant
    <3>1. NothingHanded /\ UNCHANGED slot /\ task' \in TaskType
      BY <1>3, <2>2, <2>3 DEF ReadOne, TaskType
    <3> QED BY <1>1, <3>1, QuietType, SameSlotType, TypePartsNext
  <2>4. CASE e \notin grant
    <3>1. NothingHanded /\ UNCHANGED slot /\ Tell(h, Handler("entity", None, "ending"))
      BY <1>3, <2>4 DEF ReadOne, TellNothing
    <3>2. task' \in TaskType
      BY <2>1, <3>1, TellType
    <3> QED BY <1>1, <3>1, <3>2, QuietType, SameSlotType, TypePartsNext
  <2> QED BY <2>3, <2>4
<1>4. ASSUME NEW h \in Handlers, ReadCatalog(h) PROVE TypeOK'
  <2>1. Handler("catalog", None, "cataloging") \in TaskRecord
    BY <1>2, HandlerType DEF Paths
  <2>2. /\ Tell(h, Handler("catalog", None, "cataloging")) /\ UNCHANGED slot
        /\ (Describe("whole", grant) /\ UNCHANGED wire) \/ NothingHanded
    BY <1>4 DEF ReadCatalog, TellNothing
  <2>3. task' \in TaskType
    BY <2>1, <2>2, TellType
  <2>4. HistoryType'
    BY <1>2, <2>2, QuietType, DescribeType DEF HistoryType
  <2> QED BY <1>1, <2>2, <2>3, <2>4, SameSlotType, TypePartsNext
<1>5. ASSUME Overloaded \/ LinkBreaks \/ Regrant PROVE TypeOK'
  <2>1. NothingHanded /\ UNCHANGED slot /\ task' \in TaskType
    BY <1>5 DEF Overloaded, LinkBreaks, Regrant, TaskType
  <2> QED BY <1>1, <2>1, QuietType, SameSlotType, TypePartsNext
<1>6. ASSUME Disconnected PROVE TypeOK'
  <2>1. task' \in TaskType
    BY <1>6 DEF Disconnected, TaskType
  <2>2. SlotType' /\ HistoryType'
    BY <1>6 DEF Disconnected, SlotType, RequestType, CacheType, Distinct, HistoryType,
       Nothing, MessageType
  <2> QED BY <1>1, <2>1, <2>2, TypePartsNext
<1> QED BY <1>3, <1>4, <1>5, <1>6

(* A stream that ends is remembered and has its receipt.                   *)
LEMMA FinishType ==
    ASSUME TypeOK, FieldInv, FreshInv, NEW h \in Handlers, NEW outcome \in Outcomes,
           task[h].pc \in {"streaming", "displaying"}, Snapshot(h), Finish(h, outcome)
    PROVE  task' \in TaskType /\ SlotType' /\ HistoryType'
<1> DEFINE r == [msg |-> task[h].msg, scope |-> task[h].scope, outcome |-> outcome]
<1>1. task[h] # Idle
  BY DEF Idle
<1>2. task \in TaskType /\ task[h] \in TaskRecord /\ task[h].scope \in Grants
  BY <1>1, TurnType
<1>3. r \in ReplyRecord /\ \A i \in DOMAIN replies : replies[i].msg # r.msg
  BY <1>1, <1>2 DEF FieldInv, FieldOK, FreshInv, Live, Snapshot, SnapshotPaths, ReplyRecord
<1>4. CacheType(Remember(r))
  BY <1>3, RememberFacts
<1>5. /\ replies' = Remember(r) /\ UNCHANGED <<request, cacheOf>>
      /\ Tell(h, Closing(h, "ending")) /\ Hand({Finished(r)}) /\ last' = Nothing
  BY DEF Finish
<1>6. Closing(h, "ending") \in TaskRecord
  BY <1>2, ClosingType
<1>7. task' \in TaskType
  BY <1>2, <1>5, <1>6, TellType
<1>8. SlotType'
  BY <1>4, <1>5, TypeParts DEF SlotType, CacheType, Distinct
<1>9. wire' \subseteq Receipts \union States
  BY <1>3, <1>5, HandType, ReceiptType, TypeParts DEF HistoryType
<1> QED BY <1>5, <1>7, <1>8, <1>9 DEF HistoryType, Nothing, MessageType

(* A handler ends, and releases the slot if it held it.                    *)
LEMMA EndType ==
    ASSUME TypeOK, NEW h \in Handlers, End(h)
    PROVE  task' \in TaskType /\ SlotType' /\ HistoryType'
<1>1. task' \in TaskType
  BY TypeParts DEF End, TaskType
<1>2. HistoryType'
  BY QuietType DEF End
<1>3. SlotType'
  BY TypeParts DEF End, Release, SlotType, RequestType, CacheType, Distinct
<1> QED BY <1>1, <1>2, <1>3

(* Only a handler at work goes on.                                         *)
LEMMA StepPc ==
    ASSUME NEW h \in Handlers, Step(h)
    PROVE  task[h].pc # "idle"
<1>1. CASE Ends(h) \/ ReplaySecond(h) \/ GivesUp(h) \/ Streams(h)
  BY <1>1 DEF Ends, ReplaySecond, GivesUp, Streams, Turn
<1>2. CASE Answer(h) \/ AnswerTooLarge(h) \/ AnswerError(h) \/ Echoes(h) \/ Catalogs(h)
  BY <1>2 DEF Answer, AnswerTooLarge, AnswerError, Echoes, Catalogs, Turn
<1>3. CASE Finishes(h) \/ LosesGrant(h) \/ Shows(h) \/ Omits(h) \/ Revoked(h) \/ Fails(h)
  BY <1>3 DEF Finishes, LosesGrant, Shows, Omits, Revoked, Fails, Turn
<1>4. CASE \E e \in Entities : Loads(h, e) \/ Skips(h, e)
  BY <1>4 DEF Loads, Skips, Turn
<1> QED BY <1>1, <1>2, <1>3, <1>4 DEF Step

(* A handler goes on after an await.                                       *)
LEMMA StepType ==
    ASSUME IInv, NEW h \in Handlers, Step(h)
    PROVE  TypeOK'
<1> USE TypeParts DEF IInv
<1>1. FrameType'
  BY DEF Step, Ends, ReplaySecond, GivesUp, Streams, Answer, AnswerTooLarge, AnswerError, Echoes,
     Catalogs, Finishes, LosesGrant, Shows, Omits, Revoked, Fails, Loads, Skips, Turn, FrameType
<1>2. task[h].pc # "idle" /\ task[h] # Idle
  BY StepPc DEF Idle
<1>3. /\ task \in TaskType /\ task[h] \in TaskRecord
      /\ task[h].scope \in Grants /\ task[h].scope \subseteq Entities
  BY <1>2, TurnType
<1>4. \A pc \in {"ending", "refused"} : Closing(h, pc) \in TaskRecord
  BY <1>3, ClosingType
<1>5. ASSUME NEW t \in TaskRecord, Go(h, t) PROVE TypeOK'
  <2>1. task' \in TaskType /\ NothingHanded /\ UNCHANGED slot
    BY <1>3, <1>5 DEF Go, TaskType
  <2> QED BY <1>1, <2>1, QuietType, SameSlotType, TypePartsNext
<1>6. ASSUME End(h) PROVE TypeOK'
  BY <1>1, <1>6, EndType, TypePartsNext
<1>7. ASSUME NEW outcome \in Outcomes, task[h].pc \in {"streaming", "displaying"}, Snapshot(h),
             Finish(h, outcome)
      PROVE  TypeOK'
  BY <1>1, <1>7, FinishType, TypePartsNext
<1>8. ASSUME NEW t \in TaskRecord, TellNothing(h, t), UNCHANGED slot PROVE TypeOK'
  <2>1. Tell(h, t) /\ NothingHanded
    BY <1>8 DEF TellNothing
  <2>2. task' \in TaskType
    BY <1>3, <2>1, TellType
  <2> QED BY <1>1, <1>8, <2>1, <2>2, QuietType, SameSlotType, TypePartsNext
<1>9. CASE Ends(h) \/ GivesUp(h)
  BY <1>6, <1>9 DEF Ends, GivesUp
<1>10. CASE ReplaySecond(h)
  <2>1. /\ Tell(h, Closing(h, "refused")) /\ Hand({Finished(task[h].reply)})
        /\ last' = Nothing /\ UNCHANGED slot /\ task[h].reply \in ReplyRecord
    BY <1>2, <1>10 DEF ReplaySecond, Turn, FieldInv, FieldOK
  <2>2. task' \in TaskType
    BY <1>3, <1>4, <2>1, TellType
  <2>3. HistoryType'
    BY <2>1, HandType, ReceiptType DEF HistoryType, Nothing, MessageType
  <2> QED BY <1>1, <2>1, <2>2, <2>3, SameSlotType, TypePartsNext
<1>11. CASE Streams(h)
  BY <1>3, <1>5, <1>11 DEF Streams, TaskRecord
<1>12. CASE Answer(h)
  <2>1. Tell(h, [task[h] EXCEPT !.pc = "answering"]) /\ UNCHANGED <<slot, wire>>
    BY <1>12 DEF Answer
  <2>2. [task[h] EXCEPT !.pc = "answering"] \in TaskRecord
    BY <1>3 DEF TaskRecord
  <2>3. task' \in TaskType /\ UNCHANGED slot
    BY <1>3, <2>1, <2>2, TellType
  <2>4. task[h].path \in {"states", "entity"} /\ (task[h].path = "entity" => task[h].at \in Entities)
    BY <1>2, <1>12 DEF Answer, Turn, FieldInv, FieldOK
  <2>5. last' \in MessageType
    BY <1>3, <1>12, <2>4, DescribeType DEF Answer
  <2> QED BY <1>1, <2>1, <2>3, <2>5, SameSlotType, TypePartsNext DEF HistoryType
<1>13. CASE AnswerTooLarge(h)
  BY <1>3, <1>8, <1>13 DEF AnswerTooLarge, TaskRecord
<1>14. CASE AnswerError(h)
  BY <1>4, <1>8, <1>14 DEF AnswerError
<1>15. CASE Echoes(h)
  <2>1. task[h].path \in {"states", "entity"} /\ (task[h].path = "entity" => task[h].at \in Entities)
    BY <1>2, <1>15 DEF Echoes, Turn, FieldInv, FieldOK
  <2> QED BY <1>3, <1>5, <1>15, <2>1 DEF Echoes, TaskRecord
<1>16. CASE Catalogs(h)
  <2>1. task' \in TaskType /\ Describe("whole", task[h].scope) /\ UNCHANGED <<slot, wire>>
    BY <1>3, <1>16 DEF Catalogs, TaskType, TaskRecord
  <2>2. UNCHANGED slot /\ last' \in MessageType
    BY <1>3, <2>1, DescribeType
  <2> QED BY <1>1, <2>1, <2>2, SameSlotType, TypePartsNext DEF HistoryType
<1>17. CASE Finishes(h)
  BY <1>6, <1>7, <1>17 DEF Finishes, Turn, Outcomes
<1>18. CASE LosesGrant(h)
  BY <1>7, <1>18 DEF LosesGrant, Turn, Outcomes
<1>19. CASE Shows(h)
  <2>1. task[h].at \in Entities
    BY <1>2, <1>19 DEF Shows, Turn, FieldInv, FieldOK
  <2>2. task' \in TaskType /\ Describe("part", {task[h].at}) /\ UNCHANGED slot
    BY <1>3, <1>19 DEF Shows, TaskType, TaskRecord
  <2>3. last' \in MessageType
    BY <2>1, <2>2, DescribeType
  <2>4. Snapshot(h) => task[h].msg \in Msgs
    BY <1>2 DEF Snapshot, FieldInv, FieldOK, SnapshotPaths
  <2>5. wire' \subseteq Receipts \union States
    BY <1>19, <2>1, <2>4 DEF Shows, States, HistoryType
  <2> QED BY <1>1, <2>2, <2>3, <2>5, SameSlotType, TypePartsNext DEF HistoryType
<1>20. CASE Omits(h)
  BY <1>3, <1>5, <1>6, <1>20 DEF Omits, TaskRecord
<1>21. CASE Revoked(h)
  BY <1>4, <1>7, <1>8, <1>21 DEF Revoked, Turn, Outcomes
<1>22. CASE Fails(h)
  BY <1>6, <1>7, <1>22 DEF Fails, Turn, Outcomes
<1>23. CASE \E e \in Entities : Loads(h, e) \/ Skips(h, e)
  BY <1>3, <1>5, <1>23 DEF Loads, Skips, TaskRecord
<1> QED
  BY <1>9, <1>10, <1>11, <1>12, <1>13, <1>14, <1>15, <1>16, <1>17, <1>18, <1>19, <1>20, <1>21,
     <1>22, <1>23 DEF Step

-----------------------------------------------------------------------------
(* The slot has one holder.                                                *)

(* A handler moves on without taking or releasing the slot; a receipt is   *)
(* remembered only as its stream ends.                                     *)
LEMMA HandlerMoves ==
    ASSUME IInv, NEW h \in Handlers, NEW t, task' = [task EXCEPT ![h] = t],
           Holds(t) <=> Holds(task[h]), UNCHANGED request,
           t = Idle \/ FieldOK(t),
           Live(t) => Live(task[h]) /\ t.msg = task[h].msg,
           replies' = replies \/ (Holds(task[h]) /\ ~Live(t))
    PROVE  SlotInv' /\ FreshInv' /\ FieldInv'
<1> USE TypeParts DEF IInv
<1>1. /\ task'[h] = t
      /\ \A g \in Handlers : g # h => task'[g] = task[g]
  BY DEF TaskType
<1>2. SlotInv'
  BY <1>1 DEF SlotInv, SlotIsHeld
<1>3. FieldInv'
  BY <1>1 DEF FieldInv
<1>4. \A g \in Handlers : Live(task[g]) => Holds(task[g])
  BY DEF Live, Holds, SnapshotPaths, Idle
<1>5. FreshInv'
  <2>1. CASE replies' = replies
    BY <1>1, <2>1 DEF FreshInv
  <2>2. CASE Holds(task[h]) /\ ~Live(t)
    BY <1>1, <1>4, <2>2 DEF FreshInv, SlotInv
  <2> QED BY <2>1, <2>2
<1> QED BY <1>2, <1>3, <1>5

(* A handler that ends releases the slot it holds.                         *)
LEMMA HandlerEnds ==
    ASSUME IInv, NEW h \in Handlers, End(h)
    PROVE  SlotInv' /\ FreshInv' /\ FieldInv'
<1> USE TypeParts DEF IInv
<1>1. /\ task'[h] = Idle /\ replies' = replies
      /\ \A g \in Handlers : g # h => task'[g] = task[g]
      /\ request' = IF Holds(task[h]) THEN None ELSE request
  BY DEF End, Release, TaskType
<1>2. ~Holds(Idle) /\ ~Live(Idle)
  BY DEF Holds, Live, Idle
<1>3. SlotInv'
  BY <1>1, <1>2 DEF SlotInv, SlotIsHeld
<1> QED BY <1>1, <1>2, <1>3 DEF FreshInv, FieldInv

(* A new handler takes the slot that nobody holds.                         *)
LEMMA HandlerBegins ==
    ASSUME IInv, NEW h \in Handlers, NEW msg \in Msgs, Begin(h, msg), NEW t,
           task' = [task EXCEPT ![h] = t], Holds(t), FieldOK(t),
           Live(t) => \A i \in DOMAIN Cache : Cache[i].msg # t.msg
    PROVE  SlotInv' /\ FreshInv' /\ FieldInv'
<1> USE TypeParts DEF IInv
<1>1. /\ task'[h] = t /\ replies' = Cache /\ request' = Mine(msg) /\ request = None
      /\ \A g \in Handlers : g # h => task'[g] = task[g]
  BY DEF Begin, TaskType
<1>2. \A g \in Handlers : ~Holds(task[g]) /\ ~Live(task[g])
  BY <1>1 DEF SlotInv, Live, Holds, SnapshotPaths, Idle
<1>3. Mine(msg) # None
  BY NoneIsNoName, SnapshotBounds DEF Mine, FrameType
<1>4. SlotInv'
  BY <1>1, <1>2, <1>3 DEF SlotInv, SlotIsHeld
<1> QED BY <1>1, <1>2, <1>4 DEF FreshInv, FieldInv

(* A command arrives.                                                      *)
LEMMA ReceiveSlot ==
    ASSUME IInv, NEW h \in Handlers, NEW msg \in Msgs, Receive(h, msg)
    PROVE  SlotInv' /\ FreshInv' /\ FieldInv'
<1>1. task[h] = Idle /\ ~Holds(task[h])
  BY DEF Receive, Busy, Repeated, Replay, StartStream, ScopeTooLarge, ReadAll, Begin, Arrive, Holds
<1>2. grant \in Grants
  BY DEF IInv, TypeOK
<1>3. ASSUME NEW path \in SnapshotPaths, Busy(h, path, msg)
      PROVE  SlotInv' /\ FreshInv' /\ FieldInv'
  <2> DEFINE t == [Handler(path, msg, "refused")
                     EXCEPT !.results = IF up THEN @ + 1 ELSE @]
  <2>1. task' = [task EXCEPT ![h] = t] /\ request' = request /\ replies' = replies
    BY <1>3 DEF Busy, TellNothing, Tell, slot
  <2>2. ~Holds(t) /\ ~Live(t) /\ FieldOK(t)
    BY DEF Holds, Live, FieldOK, Handler
  <2> HIDE DEF t
  <2> QED BY <1>1, <2>1, <2>2, HandlerMoves
<1>4. ASSUME NEW path \in SnapshotPaths, Repeated(h, path, msg)
      PROVE  SlotInv' /\ FreshInv' /\ FieldInv'
  BY <1>4 DEF Repeated, slot, IInv, SlotInv, SlotIsHeld, FreshInv, FieldInv
<1>5. ASSUME Replay(h, msg) PROVE SlotInv' /\ FreshInv' /\ FieldInv'
  <2>1. PICK i \in DOMAIN Cache :
          Tell(h, [Handler("snapshot", msg, "replaying") EXCEPT !.reply = Cache[i]])
    BY <1>5 DEF Replay
  <2> DEFINE t == [[Handler("snapshot", msg, "replaying") EXCEPT !.reply = Cache[i]]
                     EXCEPT !.results = IF up THEN @ + 1 ELSE @]
  <2>2. Cache[i] \in ReplyRecord
    BY CacheFacts DEF CacheType, IInv
  <2>3. /\ task'[h] = t /\ \A g \in Handlers : g # h => task'[g] = task[g]
        /\ request' = request /\ request = None
    BY <1>5, <2>1, TypeParts DEF Replay, Tell, TaskType, IInv
  <2>4. ~Holds(t) /\ ~Live(t) /\ FieldOK(t)
    BY <2>2 DEF Holds, Live, FieldOK, Handler
  <2>5. \A g \in Handlers : ~Holds(task[g]) /\ ~Live(task[g])
    BY <2>3 DEF IInv, SlotInv, Live, Holds, SnapshotPaths, Idle
  <2> HIDE DEF t
  <2>6. SlotInv'
    BY <2>3, <2>4, <2>5 DEF SlotInv, SlotIsHeld
  <2> QED BY <2>3, <2>4, <2>5, <2>6 DEF FreshInv, FieldInv, IInv
<1>6. ASSUME StartStream(h, msg) PROVE SlotInv' /\ FreshInv' /\ FieldInv'
  <2> DEFINE t == [[Handler("snapshot", msg, "accepting") EXCEPT !.left = grant]
                     EXCEPT !.results = IF up THEN @ + 1 ELSE @]
  <2>1. /\ Begin(h, msg) /\ task' = [task EXCEPT ![h] = t]
        /\ \A i \in DOMAIN Cache : Cache[i].msg # msg
    BY <1>6 DEF StartStream, Tell
  <2>2. Holds(t) /\ FieldOK(t) /\ t.msg = msg
    BY DEF Holds, FieldOK, Handler, SnapshotPaths, Idle
  <2> HIDE DEF t
  <2> QED BY <2>1, <2>2, HandlerBegins
<1>7. ASSUME ScopeTooLarge(h, msg) PROVE SlotInv' /\ FreshInv' /\ FieldInv'
  <2> DEFINE t == [Handler("snapshot", msg, "ending")
                     EXCEPT !.results = IF up THEN @ + 1 ELSE @]
  <2>1. Begin(h, msg) /\ task' = [task EXCEPT ![h] = t]
    BY <1>7 DEF ScopeTooLarge, TellNothing, Tell
  <2>2. Holds(t) /\ FieldOK(t) /\ ~Live(t)
    BY DEF Holds, FieldOK, Live, Handler, SnapshotPaths, Idle
  <2> HIDE DEF t
  <2> QED BY <2>1, <2>2, HandlerBegins
<1>8. ASSUME ReadAll(h, msg) PROVE SlotInv' /\ FreshInv' /\ FieldInv'
  <2> DEFINE t == Handler("states", msg, "reading")
  <2>1. Begin(h, msg) /\ task' = [task EXCEPT ![h] = t]
    BY <1>8 DEF ReadAll
  <2>2. Holds(t) /\ FieldOK(t) /\ ~Live(t)
    BY DEF Holds, FieldOK, Live, Handler, SnapshotPaths, Idle
  <2> HIDE DEF t
  <2> QED BY <2>1, <2>2, HandlerBegins
<1> QED BY <1>3, <1>4, <1>5, <1>6, <1>7, <1>8 DEF Receive

(* Queries that need no slot, and what happens around the handlers.        *)
LEMMA EnvironmentSlot ==
    ASSUME IInv,
           \/ \E h \in Handlers, e \in Entities : ReadOne(h, e)
           \/ \E h \in Handlers : ReadCatalog(h)
           \/ Overloaded \/ LinkBreaks \/ Disconnected \/ Regrant
    PROVE  SlotInv' /\ FreshInv' /\ FieldInv' /\ LinkInv'
<1>1. ASSUME NEW h \in Handlers, NEW t, task[h] = Idle, task' = [task EXCEPT ![h] = t],
             UNCHANGED slot, t.path \notin SnapshotPaths, FieldOK(t)
      PROVE  SlotInv' /\ FreshInv' /\ FieldInv'
  <2>1. ~Holds(t) /\ ~Live(t) /\ ~Holds(task[h])
    BY <1>1 DEF Holds, Live, SnapshotPaths
  <2> QED BY <1>1, <2>1, HandlerMoves DEF slot
<1>2. ASSUME NEW h \in Handlers, NEW e \in Entities, ReadOne(h, e)
      PROVE  SlotInv' /\ FreshInv' /\ FieldInv' /\ LinkInv'
  <2> DEFINE reading == [Handler("entity", None, "reading") EXCEPT !.at = e]
             closing == [Handler("entity", None, "ending")
                           EXCEPT !.results = IF up THEN @ + 1 ELSE @]
  <2>1. /\ task[h] = Idle /\ UNCHANGED slot /\ UNCHANGED <<conn, up>>
        /\ task' = [task EXCEPT ![h] = reading] \/ task' = [task EXCEPT ![h] = closing]
    BY <1>2 DEF ReadOne, Arrive, TellNothing, Tell
  <2>2. \A t \in {reading, closing} : t.path \notin SnapshotPaths /\ FieldOK(t)
    BY DEF Handler, FieldOK, SnapshotPaths
  <2> HIDE DEF reading, closing
  <2>3. SlotInv' /\ FreshInv' /\ FieldInv'
    BY <1>1, <2>1, <2>2
  <2> QED BY <2>1, <2>3 DEF IInv, LinkInv
<1>3. ASSUME NEW h \in Handlers, ReadCatalog(h)
      PROVE  SlotInv' /\ FreshInv' /\ FieldInv' /\ LinkInv'
  <2> DEFINE t == [Handler("catalog", None, "cataloging")
                     EXCEPT !.results = IF up THEN @ + 1 ELSE @]
  <2>1. /\ task[h] = Idle /\ UNCHANGED slot /\ UNCHANGED <<conn, up>>
        /\ task' = [task EXCEPT ![h] = t]
    BY <1>3 DEF ReadCatalog, Arrive, TellNothing, Tell
  <2>2. t.path \notin SnapshotPaths /\ FieldOK(t)
    BY DEF Handler, FieldOK, SnapshotPaths
  <2> HIDE DEF t
  <2>3. SlotInv' /\ FreshInv' /\ FieldInv'
    BY <1>1, <2>1, <2>2
  <2> QED BY <2>1, <2>3 DEF IInv, LinkInv
<1>4. ASSUME Overloaded \/ LinkBreaks \/ Regrant
      PROVE  SlotInv' /\ FreshInv' /\ FieldInv' /\ LinkInv'
  <2>1. UNCHANGED task /\ UNCHANGED slot /\ (LinkBreaks \/ UNCHANGED <<conn, up>>)
    BY <1>4 DEF Overloaded, LinkBreaks, Regrant
  <2>2. SlotInv' /\ FreshInv' /\ FieldInv'
    BY <2>1 DEF slot, IInv, SlotInv, SlotIsHeld, FreshInv, FieldInv
  <2> QED BY <2>1, <2>2 DEF LinkBreaks, IInv, LinkInv
<1>5. ASSUME Disconnected
      PROVE  SlotInv' /\ FreshInv' /\ FieldInv' /\ LinkInv'
  <2>1. /\ \A h \in Handlers : task'[h] = Idle
        /\ request' = IF \E h \in Handlers : Holds(task[h]) THEN None ELSE request
        /\ up' = TRUE
    BY <1>5 DEF Disconnected
  <2>2. request' = None
    BY <2>1 DEF IInv, SlotInv, SlotIsHeld
  <2>3. ~Holds(Idle) /\ ~Live(Idle)
    BY DEF Holds, Live, Idle
  <2> QED BY <2>1, <2>2, <2>3 DEF SlotInv, SlotIsHeld, FreshInv, FieldInv, LinkInv
<1> QED BY <1>2, <1>3, <1>4, <1>5

(* A handler goes on after an await.                                       *)
LEMMA StepSlot ==
    ASSUME IInv, NEW h \in Handlers, Step(h)
    PROVE  SlotInv' /\ FreshInv' /\ FieldInv' /\ LinkInv'
<1> DEFINE Goal == SlotInv' /\ FreshInv' /\ FieldInv'
<1>1. LinkInv'
  BY DEF Step, Ends, ReplaySecond, GivesUp, Streams, Answer, AnswerTooLarge, AnswerError, Echoes,
     Catalogs, Finishes, LosesGrant, Shows, Omits, Revoked, Fails, Loads, Skips, Turn, LinkInv, IInv
<1>2. task[h].pc # "idle" /\ task[h] # Idle
  BY StepPc DEF Idle
<1>3. task[h] \in TaskRecord /\ FieldOK(task[h])
  BY <1>2, TurnType DEF IInv, FieldInv
<1>4. ASSUME NEW t \in TaskRecord, task' = [task EXCEPT ![h] = t], UNCHANGED slot,
             task[h].pc \notin {"refused", "replaying"}, t.pc \notin {"refused", "replaying"},
             t.path = task[h].path, t.msg = task[h].msg, FieldOK(t), Live(t) => Live(task[h])
      PROVE  Goal
  <2>1. Holds(t) <=> Holds(task[h])
    BY <1>2, <1>4 DEF Holds, TaskRecord, Idle
  <2>2. request' = request /\ replies' = replies
    BY <1>4 DEF slot
  <2>3. /\ task' = [task EXCEPT ![h] = t] /\ FieldOK(t)
        /\ Live(t) => Live(task[h]) /\ t.msg = task[h].msg
    BY <1>4
  <2> QED BY <2>1, <2>2, <2>3, HandlerMoves
<1>5. ASSUME NEW pc \in {"ending", "refused"}, NEW u \in TaskRecord, u = Closing(h, pc)
      PROVE  /\ u.pc = pc /\ u.path = task[h].path /\ u.msg = task[h].msg
             /\ ~Live(u) /\ FieldOK(u)
             /\ \A t : t = [u EXCEPT !.results = IF up THEN @ + 1 ELSE @] =>
                  /\ t \in TaskRecord /\ t.pc = pc /\ t.path = task[h].path /\ t.msg = task[h].msg
                  /\ ~Live(t) /\ FieldOK(t)
  <2>1. /\ u.pc = pc /\ u.path = task[h].path /\ u.msg = task[h].msg
        /\ u.results \in Nat /\ u.path \in Paths
    BY <1>3, <1>5 DEF Closing, TaskRecord
  <2>2. u.path \in SnapshotPaths => u.msg \in Msgs
    BY <1>3, <2>1 DEF FieldOK
  <2>3. ~Live(u) /\ FieldOK(u)
    BY <2>1, <2>2 DEF Live, FieldOK
  <2>4. ASSUME NEW t, t = [u EXCEPT !.results = IF up THEN @ + 1 ELSE @]
        PROVE  /\ t \in TaskRecord /\ t.pc = pc /\ t.path = u.path /\ t.msg = u.msg
    BY <1>5, <2>1, <2>4 DEF TaskRecord
  <2>5. ASSUME NEW t, t = [u EXCEPT !.results = IF up THEN @ + 1 ELSE @]
        PROVE  ~Live(t) /\ FieldOK(t)
    BY <2>2, <2>4, <2>5 DEF Live, FieldOK
  <2> QED BY <2>1, <2>3, <2>4, <2>5
<1>6. \A pc \in {"ending", "refused"} : Closing(h, pc) \in TaskRecord
  BY <1>3, ClosingType
<1>7. ASSUME End(h) PROVE Goal
  BY <1>7, HandlerEnds
<1>8. ASSUME NEW outcome \in Outcomes, task[h].pc \in {"streaming", "displaying"}, Snapshot(h),
             Finish(h, outcome)
      PROVE  Goal
  <2>1. PICK t : /\ t = [Closing(h, "ending") EXCEPT !.results = IF up THEN @ + 1 ELSE @]
                 /\ task' = [task EXCEPT ![h] = t] /\ request' = request
    BY <1>8 DEF Finish, Tell
  <2>2. t \in TaskRecord /\ t.pc = "ending" /\ t.path = "snapshot" /\ ~Live(t) /\ FieldOK(t)
    BY <1>5, <1>6, <1>8, <2>1 DEF Snapshot
  <2>3. Holds(t) /\ Holds(task[h])
    BY <1>2, <1>8, <2>2 DEF Holds, Snapshot, SnapshotPaths, Idle
  <2> QED BY <2>1, <2>2, <2>3, HandlerMoves
<1>9. ASSUME task[h].pc \notin {"refused", "replaying"}, TellNothing(h, Closing(h, "ending")),
             UNCHANGED slot
      PROVE  Goal
  <2>1. PICK t : /\ t = [Closing(h, "ending") EXCEPT !.results = IF up THEN @ + 1 ELSE @]
                 /\ task' = [task EXCEPT ![h] = t]
    BY <1>9 DEF TellNothing, Tell
  <2>2. /\ t \in TaskRecord /\ t.pc = "ending" /\ t.path = task[h].path /\ t.msg = task[h].msg
        /\ ~Live(t) /\ FieldOK(t)
    BY <1>5, <1>6, <2>1
  <2> QED BY <1>4, <1>9, <2>1, <2>2
<1>10. CASE Ends(h) \/ GivesUp(h)
  BY <1>1, <1>7, <1>10 DEF Ends, GivesUp
<1>11. CASE ReplaySecond(h)
  <2>1. PICK t : /\ t = [Closing(h, "refused") EXCEPT !.results = IF up THEN @ + 1 ELSE @]
                 /\ task' = [task EXCEPT ![h] = t] /\ UNCHANGED slot /\ task[h].pc = "replaying"
    BY <1>11 DEF ReplaySecond, Turn, Tell
  <2>2. t.pc = "refused" /\ ~Live(t) /\ FieldOK(t)
    BY <1>5, <1>6, <2>1
  <2>3. ~Holds(t) /\ ~Holds(task[h])
    BY <2>1, <2>2 DEF Holds
  <2> QED BY <1>1, <2>1, <2>2, <2>3, HandlerMoves DEF slot
<1>12. CASE Streams(h)
  <2> DEFINE t == [task[h] EXCEPT !.pc = "streaming"]
  <2>1. task' = [task EXCEPT ![h] = t] /\ UNCHANGED slot /\ task[h].pc = "accepting"
    BY <1>12 DEF Streams, Turn, Go
  <2>2. /\ t \in TaskRecord /\ t.pc = "streaming" /\ t.path = task[h].path /\ t.msg = task[h].msg
        /\ FieldOK(t) /\ (Live(t) => Live(task[h]))
    BY <1>3, <2>1 DEF TaskRecord, FieldOK, Live
  <2> HIDE DEF t
  <2> QED BY <1>1, <1>4, <2>1, <2>2
<1>13. CASE Answer(h) \/ AnswerTooLarge(h)
  <2> DEFINE u == [task[h] EXCEPT !.pc = "answering"]
             t == [u EXCEPT !.results = IF up THEN @ + 1 ELSE @]
  <2>1. task' = [task EXCEPT ![h] = t] /\ UNCHANGED slot /\ task[h].pc = "reading"
    BY <1>13 DEF Answer, AnswerTooLarge, Turn, TellNothing, Tell, slot
  <2>2. /\ u \in TaskRecord /\ u.pc = "answering" /\ u.path = task[h].path
        /\ u.msg = task[h].msg /\ u.at = task[h].at /\ u.results \in Nat
    BY <1>3 DEF TaskRecord
  <2> HIDE DEF u
  <2>3. /\ t \in TaskRecord /\ t.pc = "answering" /\ t.path = task[h].path
        /\ t.msg = task[h].msg /\ t.at = task[h].at
    BY <2>2 DEF TaskRecord
  <2>4. FieldOK(t) /\ ~Live(t)
    BY <1>3, <2>1, <2>3 DEF FieldOK, Live
  <2> HIDE DEF t
  <2> QED BY <1>1, <1>4, <2>1, <2>3, <2>4
<1>14. CASE AnswerError(h)
  BY <1>1, <1>9, <1>14 DEF AnswerError, Turn
<1>15. CASE Echoes(h)
  <2> DEFINE t == [task[h] EXCEPT !.pc = "streaming", !.at = None,
                     !.left = IF task[h].path = "states" THEN Entities ELSE {task[h].at}]
  <2>1. task' = [task EXCEPT ![h] = t] /\ UNCHANGED slot /\ task[h].pc = "answering"
    BY <1>15 DEF Echoes, Turn, Go
  <2>2. task[h].path \in {"states", "entity"} /\ (task[h].path = "entity" => task[h].at \in Entities)
    BY <1>3, <2>1 DEF FieldOK
  <2>3. /\ t \in TaskRecord /\ t.pc = "streaming" /\ t.path = task[h].path /\ t.msg = task[h].msg
        /\ FieldOK(t) /\ ~Live(t)
    BY <1>3, <2>2 DEF TaskRecord, FieldOK, Live
  <2> HIDE DEF t
  <2> QED BY <1>1, <1>4, <2>1, <2>3
<1>16. CASE Catalogs(h)
  <2> DEFINE t == [task[h] EXCEPT !.pc = "ending"]
  <2>1. task' = [task EXCEPT ![h] = t] /\ UNCHANGED slot /\ task[h].pc = "cataloging"
    BY <1>16 DEF Catalogs, Turn
  <2>2. /\ t \in TaskRecord /\ t.pc = "ending" /\ t.path = task[h].path /\ t.msg = task[h].msg
        /\ FieldOK(t) /\ ~Live(t)
    BY <1>3 DEF TaskRecord, FieldOK, Live
  <2> HIDE DEF t
  <2> QED BY <1>1, <1>4, <2>1, <2>2
<1>17. CASE Finishes(h)
  BY <1>1, <1>7, <1>8, <1>17 DEF Finishes, Turn, Outcomes
<1>18. CASE LosesGrant(h)
  BY <1>1, <1>8, <1>18 DEF LosesGrant, Turn, Outcomes
<1>19. CASE Shows(h)
  <2> DEFINE t == [task[h] EXCEPT !.pc = "streaming", !.left = @ \ {task[h].at}, !.at = None]
  <2>1. task' = [task EXCEPT ![h] = t] /\ UNCHANGED slot /\ task[h].pc = "displaying"
    BY <1>19 DEF Shows, Turn
  <2>2. /\ t \in TaskRecord /\ t.pc = "streaming" /\ t.path = task[h].path /\ t.msg = task[h].msg
        /\ FieldOK(t) /\ (Live(t) => Live(task[h]))
    BY <1>3, <2>1 DEF TaskRecord, FieldOK, Live
  <2> HIDE DEF t
  <2> QED BY <1>1, <1>4, <2>1, <2>2
<1>20. CASE Omits(h)
  <2> DEFINE t == [task[h] EXCEPT !.pc = "streaming", !.left = @ \ {task[h].at},
                     !.at = None, !.omitted = TRUE]
  <2>1. /\ task[h].pc = "displaying"
        /\ End(h) \/ (task' = [task EXCEPT ![h] = t] /\ UNCHANGED slot)
    BY <1>20 DEF Omits, Turn, Go
  <2>2. /\ t \in TaskRecord /\ t.pc = "streaming" /\ t.path = task[h].path /\ t.msg = task[h].msg
        /\ FieldOK(t) /\ (Live(t) => Live(task[h]))
    BY <1>3, <2>1 DEF TaskRecord, FieldOK, Live
  <2> HIDE DEF t
  <2> QED BY <1>1, <1>4, <1>7, <2>1, <2>2
<1>21. CASE Revoked(h)
  BY <1>1, <1>8, <1>9, <1>21 DEF Revoked, Turn, Outcomes
<1>22. CASE Fails(h)
  BY <1>1, <1>7, <1>8, <1>22 DEF Fails, Turn, Outcomes
<1>23. ASSUME NEW e \in Entities, Loads(h, e) PROVE Goal
  <2> DEFINE t == [task[h] EXCEPT !.pc = "displaying", !.at = e]
  <2>1. task' = [task EXCEPT ![h] = t] /\ UNCHANGED slot /\ task[h].pc = "streaming"
    BY <1>23 DEF Loads, Turn, Go
  <2>2. /\ t \in TaskRecord /\ t.pc = "displaying" /\ t.path = task[h].path /\ t.msg = task[h].msg
        /\ FieldOK(t) /\ (Live(t) => Live(task[h]))
    BY <1>3, <2>1 DEF TaskRecord, FieldOK, Live
  <2> HIDE DEF t
  <2> QED BY <1>4, <2>1, <2>2
<1>24. ASSUME NEW e \in Entities, Skips(h, e) PROVE Goal
  <2> DEFINE t == [task[h] EXCEPT !.left = @ \ {e}]
  <2>1. task' = [task EXCEPT ![h] = t] /\ UNCHANGED slot /\ task[h].pc = "streaming"
    BY <1>24 DEF Skips, Turn, Go
  <2>2. /\ t \in TaskRecord /\ t.pc = "streaming" /\ t.path = task[h].path /\ t.msg = task[h].msg
        /\ FieldOK(t) /\ (Live(t) => Live(task[h]))
    BY <1>3, <2>1 DEF TaskRecord, FieldOK, Live
  <2> HIDE DEF t
  <2> QED BY <1>4, <2>1, <2>2
<1> QED
  BY <1>1, <1>10, <1>11, <1>12, <1>13, <1>14, <1>15, <1>16, <1>17, <1>18, <1>19, <1>20, <1>21,
     <1>22, <1>23, <1>24 DEF Step

-----------------------------------------------------------------------------
(* A completion is proof.                                                  *)

(* The consumer has been handed what a reply that says complete claims.    *)
State(msg, e) == [kind |-> "state", msg |-> msg, entity |-> e]
Whole(r) ==
    r.outcome = "complete" =>
        /\ Accepted(r.msg, r.scope) \in wire
        /\ \A e \in r.scope : State(r.msg, e) \in wire

(* A stream has handed its accepted receipt and every state it is through  *)
(* with; so has each stream whose reply is kept for this connection or is  *)
(* being replayed, and the replay has handed its own accepted receipt.     *)
Replayed(t) == Whole(t.reply) /\ Accepted(t.reply.msg, t.reply.scope) \in wire
WholeInv ==
    /\ \A h \in Handlers : Live(task[h]) =>
        /\ cacheOf # None /\ cacheOf.client = conn
        /\ Accepted(task[h].msg, task[h].scope) \in wire
        /\ ~task[h].omitted =>
             \A e \in task[h].scope \ task[h].left : State(task[h].msg, e) \in wire
    /\ cacheOf # None => cacheOf.client <= conn
    /\ cacheOf # None /\ cacheOf.client = conn => \A i \in DOMAIN replies : Whole(replies[i])
    /\ \A h \in Handlers : task[h].pc = "replaying" => Replayed(task[h])
    /\ CompleteIsWhole

(* A handler moves on, having handed the states it is through with.        *)
LEMMA WholeMoves ==
    ASSUME TypeOK, WholeInv, NEW h \in Handlers, NEW t, task' = [task EXCEPT ![h] = t],
           wire \subseteq wire', UNCHANGED <<replies, cacheOf, conn>>,
           Live(t) => /\ Live(task[h]) /\ t.msg = task[h].msg /\ t.scope = task[h].scope
                      /\ ~t.omitted => /\ ~task[h].omitted
                                       /\ \A e \in task[h].left \ t.left :
                                            State(t.msg, e) \in wire',
           t.pc # "replaying", CompleteIsWhole'
    PROVE  WholeInv'
<1>1. /\ task'[h] = t
      /\ \A g \in Handlers : g # h => task'[g] = task[g]
  BY TypeParts DEF TaskType
<1>2. \A g \in Handlers : Live(task'[g]) =>
        /\ cacheOf' # None /\ cacheOf'.client = conn'
        /\ Accepted(task'[g].msg, task'[g].scope) \in wire'
        /\ ~task'[g].omitted =>
             \A e \in task'[g].scope \ task'[g].left : State(task'[g].msg, e) \in wire'
  <2> SUFFICES ASSUME NEW g \in Handlers, Live(task'[g])
               PROVE  /\ cacheOf' # None /\ cacheOf'.client = conn'
                      /\ Accepted(task'[g].msg, task'[g].scope) \in wire'
                      /\ ~task'[g].omitted =>
                           \A e \in task'[g].scope \ task'[g].left :
                              State(task'[g].msg, e) \in wire'
    OBVIOUS
  <2>1. CASE g # h
    BY <1>1, <2>1 DEF WholeInv
  <2>2. CASE g = h
    BY <1>1, <2>2 DEF WholeInv
  <2> QED BY <2>1, <2>2
<1>3. (cacheOf # None /\ cacheOf.client = conn => \A i \in DOMAIN replies : Whole(replies[i]))'
  BY DEF WholeInv, Whole, Replayed
<1>4. (\A g \in Handlers : task[g].pc = "replaying" => Replayed(task[g]))'
  BY <1>1 DEF WholeInv, Whole, Replayed
<1>5. (cacheOf # None => cacheOf.client <= conn)'
  BY DEF WholeInv
<1> QED BY <1>2, <1>3, <1>4, <1>5 DEF WholeInv

(* A handler that was idle, or that ends, claims nothing.                  *)
LEMMA WholeQuiet ==
    ASSUME TypeOK, WholeInv, UNCHANGED <<wire, replies, cacheOf, conn>>, task' \in TaskType,
           NEW h \in Handlers, NEW t, task' = [task EXCEPT ![h] = t],
           ~Live(t), t.pc # "replaying"
    PROVE  WholeInv'
<1>1. CompleteIsWhole'
  BY DEF WholeInv, CompleteIsWhole
<1> QED BY <1>1, WholeMoves
(* A command that looks at the cache: nobody streams, and what is kept for *)
(* this client and grant is all that stays.                                *)
LEMMA WholeBegins ==
    ASSUME IInv, WholeInv, NEW h \in Handlers, NEW t, task' = [task EXCEPT ![h] = t],
           request = None, cacheOf' = Owner, replies' = Cache, UNCHANGED conn,
           wire \subseteq wire', \A r \in wire' : r \in wire \/ r.kind = "accepted",
           Live(t) => /\ Accepted(t.msg, t.scope) \in wire' /\ t.scope \subseteq t.left,
           t.pc = "replaying" => /\ \E i \in DOMAIN Cache : t.reply = Cache[i]
                                 /\ Accepted(t.reply.msg, t.reply.scope) \in wire'
    PROVE  WholeInv'
<1> USE TypeParts DEF IInv
<1>1. /\ task'[h] = t
      /\ \A g \in Handlers : g # h => task'[g] = task[g] /\ ~Live(task[g])
  BY DEF TaskType, SlotInv, Live, Holds, SnapshotPaths, Idle
<1>2. conn \in Nat /\ cacheOf'.client = conn'
  BY SnapshotBounds DEF FrameType, Owner
<1>3. \A i \in DOMAIN Cache : Whole(Cache[i])
  <2>1. CASE cacheOf = Owner
    <3>1. cacheOf # None /\ cacheOf.client = conn /\ Cache = replies
      BY <2>1, NoneIsNoName, <1>2 DEF Owner, FrameType, Cache
    <3> QED BY <3>1 DEF WholeInv
  <2>2. CASE cacheOf # Owner
    BY <2>2 DEF Cache
  <2> QED BY <2>1, <2>2
<1>4. (\A i \in DOMAIN replies : Whole(replies[i]))'
  BY <1>3 DEF Whole
<1>5. (\A g \in Handlers : task[g].pc = "replaying" => Replayed(task[g]))'
  BY <1>1, <1>3 DEF WholeInv, Whole, Replayed
<1>6. CompleteIsWhole'
  BY DEF WholeInv, CompleteIsWhole
<1>7. cacheOf' # None
  BY NoneIsNoName, SnapshotBounds, <1>2 DEF Owner, FrameType
<1> QED BY <1>1, <1>2, <1>4, <1>5, <1>6, <1>7 DEF WholeInv

(* A command arrives.                                                      *)
LEMMA ReceiveWhole ==
    ASSUME IInv, WholeInv, NEW h \in Handlers, NEW msg \in Msgs, Receive(h, msg)
    PROVE  WholeInv'
<1>1. TypeOK /\ UNCHANGED conn /\ up /\ task' \in TaskType
  <2>1. TypeOK /\ TypeOK'
    BY ReceiveType DEF IInv
  <2>2. UNCHANGED conn /\ up
    BY DEF Receive, Busy, Repeated, Replay, StartStream, ScopeTooLarge, ReadAll, Begin, Arrive
  <2> QED BY <2>1, <2>2 DEF TypeOK, TaskType
<1>2. ASSUME NEW path \in SnapshotPaths, Busy(h, path, msg) PROVE WholeInv'
  <2> DEFINE t == [Handler(path, msg, "refused")
                     EXCEPT !.results = IF up THEN @ + 1 ELSE @]
  <2>1. task' = [task EXCEPT ![h] = t] /\ UNCHANGED <<wire, replies, cacheOf>>
    BY <1>2 DEF Busy, TellNothing, Tell, NothingHanded, slot
  <2>2. ~Live(t) /\ t.pc # "replaying"
    BY DEF Live, Handler
  <2> HIDE DEF t
  <2> QED BY <1>1, <2>1, <2>2, WholeQuiet
<1>3. ASSUME NEW path \in SnapshotPaths, Repeated(h, path, msg) PROVE WholeInv'
  BY <1>1, <1>3 DEF Repeated, NothingHanded, slot, WholeInv, Whole, Replayed, CompleteIsWhole
<1>4. ASSUME Replay(h, msg) PROVE WholeInv'
  <2>1. PICK i \in DOMAIN Cache :
          /\ Cache[i].msg = msg
          /\ Tell(h, [Handler("snapshot", msg, "replaying") EXCEPT !.reply = Cache[i]])
          /\ Hand({Accepted(msg, Cache[i].scope)})
    BY <1>4 DEF Replay
  <2> DEFINE t == [[Handler("snapshot", msg, "replaying") EXCEPT !.reply = Cache[i]]
                     EXCEPT !.results = IF up THEN @ + 1 ELSE @]
  <2>2. /\ task' = [task EXCEPT ![h] = t] /\ request = None
        /\ cacheOf' = Owner /\ replies' = Cache
    BY <1>4, <2>1 DEF Replay, Tell
  <2>3. ~Live(t) /\ t.reply = Cache[i]
    BY DEF Live, Handler
  <2>4. /\ wire \subseteq wire' /\ \A r \in wire' : r \in wire \/ r.kind = "accepted"
        /\ Accepted(t.reply.msg, t.reply.scope) \in wire'
    BY <1>1, <2>1, <2>3 DEF Hand, Accepted
  <2> HIDE DEF t
  <2> QED BY <1>1, <2>2, <2>3, <2>4, WholeBegins
<1>5. ASSUME StartStream(h, msg) PROVE WholeInv'
  <2> DEFINE t == [[Handler("snapshot", msg, "accepting") EXCEPT !.left = grant]
                     EXCEPT !.results = IF up THEN @ + 1 ELSE @]
  <2>1. /\ task' = [task EXCEPT ![h] = t] /\ request = None
        /\ cacheOf' = Owner /\ replies' = Cache /\ Hand({Accepted(msg, grant)})
    BY <1>5 DEF StartStream, Begin, Tell
  <2>2. t.pc = "accepting" /\ t.msg = msg /\ t.scope = grant /\ t.left = grant
    BY DEF Handler
  <2>3. /\ wire \subseteq wire' /\ Accepted(msg, grant) \in wire'
        /\ \A r \in wire' : r \in wire \/ r.kind = "accepted"
    BY <1>1, <2>1 DEF Hand, Accepted
  <2> HIDE DEF t
  <2> QED BY <1>1, <2>1, <2>2, <2>3, WholeBegins
<1>6. ASSUME ScopeTooLarge(h, msg) \/ ReadAll(h, msg) PROVE WholeInv'
  <2> DEFINE s == [Handler("snapshot", msg, "ending")
                     EXCEPT !.results = IF up THEN @ + 1 ELSE @]
             t == Handler("states", msg, "reading")
  <2>1. /\ task' = [task EXCEPT ![h] = s] \/ task' = [task EXCEPT ![h] = t]
        /\ request = None /\ cacheOf' = Owner /\ replies' = Cache /\ wire' = wire
    BY <1>6 DEF ScopeTooLarge, ReadAll, Begin, TellNothing, Tell, NothingHanded
  <2>2. \A u \in {s, t} : ~Live(u) /\ u.pc # "replaying"
    BY DEF Live, Handler
  <2> HIDE DEF s, t
  <2>3. PICK u \in {s, t} : task' = [task EXCEPT ![h] = u]
    BY <2>1
  <2> QED BY <1>1, <2>1, <2>2, <2>3, WholeBegins
<1> QED BY <1>2, <1>3, <1>4, <1>5, <1>6 DEF Receive

(* Queries that need no slot, and what happens around the handlers.        *)
LEMMA EnvironmentWhole ==
    ASSUME IInv, WholeInv,
           \/ \E h \in Handlers, e \in Entities : ReadOne(h, e)
           \/ \E h \in Handlers : ReadCatalog(h)
           \/ Overloaded \/ LinkBreaks \/ Disconnected \/ Regrant
    PROVE  WholeInv'
<1>1. TypeOK /\ task' \in TaskType
  <2>1. TypeOK /\ TypeOK'
    BY EnvironmentType DEF IInv
  <2> QED BY <2>1 DEF TypeOK, TaskType
<1>2. ASSUME NEW h \in Handlers, NEW e \in Entities, ReadOne(h, e) PROVE WholeInv'
  <2> DEFINE reading == [Handler("entity", None, "reading") EXCEPT !.at = e]
             closing == [Handler("entity", None, "ending")
                           EXCEPT !.results = IF up THEN @ + 1 ELSE @]
  <2>1. /\ UNCHANGED <<wire, replies, cacheOf, conn>>
        /\ task' = [task EXCEPT ![h] = reading] \/ task' = [task EXCEPT ![h] = closing]
    BY <1>2 DEF ReadOne, Arrive, TellNothing, Tell, NothingHanded, slot
  <2>2. \A u \in {reading, closing} : ~Live(u) /\ u.pc # "replaying"
    BY DEF Handler, Live
  <2> HIDE DEF reading, closing
  <2>3. PICK u \in {reading, closing} : task' = [task EXCEPT ![h] = u]
    BY <2>1
  <2> QED BY <1>1, <2>1, <2>2, <2>3, WholeQuiet
<1>3. ASSUME NEW h \in Handlers, ReadCatalog(h) PROVE WholeInv'
  <2> DEFINE t == [Handler("catalog", None, "cataloging")
                     EXCEPT !.results = IF up THEN @ + 1 ELSE @]
  <2>1. /\ task' = [task EXCEPT ![h] = t] /\ UNCHANGED <<wire, replies, cacheOf, conn>>
    BY <1>3 DEF ReadCatalog, Arrive, TellNothing, Tell, NothingHanded, slot
  <2>2. ~Live(t) /\ t.pc # "replaying"
    BY DEF Handler, Live
  <2> HIDE DEF t
  <2> QED BY <1>1, <2>1, <2>2, WholeQuiet
<1>4. ASSUME Overloaded \/ LinkBreaks \/ Regrant PROVE WholeInv'
  <2>1. UNCHANGED <<task, wire, replies, cacheOf, conn>>
    BY <1>4 DEF Overloaded, LinkBreaks, Regrant, NothingHanded, slot
  <2> QED BY <2>1 DEF WholeInv, Whole, Replayed, CompleteIsWhole
<1>5. ASSUME Disconnected PROVE WholeInv'
  <2>1. /\ \A h \in Handlers : task'[h] = Idle
        /\ wire' = {} /\ conn' = conn + 1 /\ UNCHANGED <<replies, cacheOf>>
    BY <1>5 DEF Disconnected
  <2>2. Idle.pc = "idle" /\ ~Live(Idle)
    BY DEF Idle, Live
  <2>3. conn \in Nat /\ (cacheOf # None => cacheOf.client \in Nat /\ cacheOf.client <= conn)
    BY <1>1, SnapshotBounds DEF TypeOK, WholeInv
  <2>4. cacheOf' # None => cacheOf'.client <= conn' /\ cacheOf'.client # conn'
    BY <2>1, <2>3
  <2>5. CompleteIsWhole'
    BY <2>1 DEF CompleteIsWhole
  <2> QED BY <2>1, <2>2, <2>4, <2>5 DEF WholeInv
<1> QED BY <1>2, <1>3, <1>4, <1>5

(* A stream that ends: its receipt says complete only with nothing left    *)
(* and nothing omitted.                                                    *)
LEMMA FinishWhole ==
    ASSUME IInv, WholeInv, NEW h \in Handlers, NEW outcome \in Outcomes,
           task[h].pc \in {"streaming", "displaying"}, Snapshot(h), Finish(h, outcome),
           outcome = "complete" => task[h].left = {} /\ ~task[h].omitted, UNCHANGED conn
    PROVE  WholeInv'
<1> USE TypeParts DEF IInv
<1> DEFINE r == [msg |-> task[h].msg, scope |-> task[h].scope, outcome |-> outcome]
           t == [Closing(h, "ending") EXCEPT !.results = IF up THEN @ + 1 ELSE @]
<1>1. task[h] # Idle /\ Live(task[h])
  BY DEF Idle, Live, Snapshot
<1>2. task[h] \in TaskRecord /\ task[h].msg \in Msgs /\ task[h].scope \in Grants
  BY <1>1, TurnType DEF FieldInv, FieldOK, Live, SnapshotPaths
<1>3. /\ task' = [task EXCEPT ![h] = t] /\ replies' = Remember(r) /\ UNCHANGED cacheOf
      /\ wire' = IF up THEN wire \union {Finished(r)} ELSE wire
  BY DEF Finish, Tell, Hand
<1>4. t.pc = "ending" /\ ~Live(t)
  BY <1>2 DEF Closing, TaskRecord, Live
<1>5. Whole(r)
  BY <1>1, <1>2 DEF WholeInv, Whole, Replayed
<1>6. \A i \in DOMAIN Remember(r) : Whole(Remember(r)[i])
  <2> DEFINE kept == Append(replies, r)
  <2>1. r \in ReplyRecord /\ replies \in Seq(ReplyRecord)
    BY <1>2 DEF ReplyRecord, SlotType, CacheType
  <2> HIDE DEF r
  <2>2. \A i \in DOMAIN replies : Whole(replies[i])
    BY <1>1 DEF WholeInv
  <2>3. /\ kept \in Seq(ReplyRecord) /\ Len(kept) = Len(replies) + 1 /\ Len(replies) \in Nat
        /\ \A i \in 1..Len(replies) : kept[i] = replies[i]
        /\ kept[Len(replies) + 1] = r /\ DOMAIN replies = 1..Len(replies)
    BY <2>1
  <2> HIDE DEF kept
  <2>4. \A i \in 1..Len(kept) : Whole(kept[i])
    <3> SUFFICES ASSUME NEW i \in 1..Len(kept) PROVE Whole(kept[i])
      OBVIOUS
    <3>1. CASE i \in 1..Len(replies)
      BY <2>2, <2>3, <3>1
    <3>2. CASE i = Len(replies) + 1
      BY <1>5, <2>3, <3>2
    <3> QED BY <2>3, <3>1, <3>2
  <2>5. DOMAIN kept = 1..Len(kept)
    BY <2>3
  <2>6. \A i \in DOMAIN Tail(kept) : i + 1 \in 1..Len(kept) /\ Tail(kept)[i] = kept[i + 1]
    BY <2>3
  <2>7. Remember(r) = IF Len(kept) > MaxReplies THEN Tail(kept) ELSE kept
    BY DEF Remember, kept
  <2> QED BY <2>4, <2>5, <2>6, <2>7
<1>7. wire \subseteq wire'
  BY <1>3
<1>8. CompleteIsWhole'
  <2> SUFFICES ASSUME NEW m \in wire', m.kind = "finished" /\ m.outcome = "complete"
               PROVE  /\ Accepted(m.msg, m.scope) \in wire'
                      /\ \A e \in m.scope : State(m.msg, e) \in wire'
    BY DEF CompleteIsWhole, State, Accepted
  <2>1. CASE m \in wire
    BY <1>7, <2>1 DEF WholeInv, CompleteIsWhole, State
  <2>2. CASE m = Finished(r)
    BY <1>5, <1>7, <2>2 DEF Finished, Whole
  <2> QED BY <1>3, <2>1, <2>2
<1> HIDE DEF r, t
<1>9. /\ task'[h] = t
      /\ \A g \in Handlers : g # h => task'[g] = task[g] /\ ~Live(task[g])
  BY <1>1, <1>3 DEF TaskType, SlotInv, Live, Holds, SnapshotPaths, Idle
<1>10. \A x : Whole(x) => Whole(x)'
  BY <1>7 DEF Whole
<1>11. (\A i \in DOMAIN replies : Whole(replies[i]))'
  BY <1>3, <1>6, <1>7 DEF Whole
<1>12. (\A g \in Handlers : task[g].pc = "replaying" => Replayed(task[g]))'
  BY <1>4, <1>7, <1>9 DEF WholeInv, Whole, Replayed
<1>13. (cacheOf # None => cacheOf.client <= conn)'
  BY <1>3 DEF WholeInv
<1> QED BY <1>4, <1>8, <1>9, <1>11, <1>12, <1>13 DEF WholeInv

(* A handler goes on after an await.                                       *)
LEMMA StepWhole ==
    ASSUME IInv, WholeInv, NEW h \in Handlers, Step(h)
    PROVE  WholeInv'
<1>1. UNCHANGED conn
  BY DEF Step, Ends, ReplaySecond, GivesUp, Streams, Answer, AnswerTooLarge, AnswerError, Echoes,
     Catalogs, Finishes, LosesGrant, Shows, Omits, Revoked, Fails, Loads, Skips, Turn
<1>2. task[h] \in TaskRecord /\ TypeOK /\ task' \in TaskType
  <2>1. TypeOK /\ TypeOK' /\ task[h] # Idle
    BY StepType, StepPc DEF IInv, Idle
  <2> QED BY <2>1, TurnType DEF TypeOK, TaskType
<1>3. ASSUME NEW t, task' = [task EXCEPT ![h] = t], ~Live(t), t.pc # "replaying",
             UNCHANGED <<wire, replies, cacheOf>>
      PROVE  WholeInv'
  BY <1>1, <1>2, <1>3, WholeQuiet
<1>4. ASSUME End(h) PROVE WholeInv'
  <2>1. task' = [task EXCEPT ![h] = Idle] /\ UNCHANGED <<wire, replies, cacheOf>>
    BY <1>4 DEF End, NothingHanded
  <2>2. ~Live(Idle) /\ Idle.pc # "replaying"
    BY DEF Live, Idle
  <2> QED BY <1>3, <2>1, <2>2
<1>5. \A pc \in {"ending", "refused"} : \A t :
        t = [Closing(h, pc) EXCEPT !.results = IF up THEN @ + 1 ELSE @] => t.pc = pc /\ ~Live(t)
  BY <1>2 DEF Closing, TaskRecord, Live
<1>6. ASSUME TellNothing(h, Closing(h, "ending")), UNCHANGED slot PROVE WholeInv'
  <2>1. PICK t : /\ t = [Closing(h, "ending") EXCEPT !.results = IF up THEN @ + 1 ELSE @]
                 /\ task' = [task EXCEPT ![h] = t] /\ UNCHANGED <<wire, replies, cacheOf>>
    BY <1>6 DEF TellNothing, Tell, NothingHanded, slot
  <2> QED BY <1>3, <1>5, <2>1
<1>7. ASSUME NEW t, Go(h, t), t.pc # "replaying",
             Live(t) => /\ Live(task[h]) /\ t.msg = task[h].msg /\ t.scope = task[h].scope
                        /\ ~t.omitted => ~task[h].omitted /\ t.left = task[h].left
      PROVE  WholeInv'
  <2>1. task' = [task EXCEPT ![h] = t] /\ UNCHANGED <<wire, replies, cacheOf>>
    BY <1>7 DEF Go, NothingHanded, slot
  <2>2. CompleteIsWhole'
    BY <2>1 DEF WholeInv, CompleteIsWhole
  <2> QED BY <1>1, <1>2, <1>7, <2>1, <2>2, WholeMoves
<1>8. CASE Ends(h) \/ GivesUp(h)
  BY <1>4, <1>8 DEF Ends, GivesUp
<1>9. CASE ReplaySecond(h)
  <2>1. PICK t : /\ t = [Closing(h, "refused") EXCEPT !.results = IF up THEN @ + 1 ELSE @]
                 /\ task' = [task EXCEPT ![h] = t] /\ UNCHANGED <<replies, cacheOf>>
                 /\ task[h].pc = "replaying"
                 /\ wire' = IF up THEN wire \union {Finished(task[h].reply)} ELSE wire
    BY <1>9 DEF ReplaySecond, Turn, Tell, Hand, slot
  <2>2. Whole(task[h].reply)
    BY <2>1 DEF WholeInv, Replayed
  <2>3. CompleteIsWhole'
    <3> SUFFICES ASSUME NEW m \in wire', m.kind = "finished" /\ m.outcome = "complete"
                 PROVE  /\ Accepted(m.msg, m.scope) \in wire'
                        /\ \A e \in m.scope : State(m.msg, e) \in wire'
      BY DEF CompleteIsWhole, State, Accepted
    <3>1. CASE m \in wire
      BY <2>1, <3>1 DEF WholeInv, CompleteIsWhole, State
    <3>2. CASE m = Finished(task[h].reply)
      BY <2>1, <2>2, <3>2 DEF Finished, Whole
    <3> QED BY <2>1, <3>1, <3>2
  <2>4. t.pc = "refused" /\ ~Live(t)
    BY <1>5, <2>1
  <2> QED BY <1>1, <1>2, <2>1, <2>3, <2>4, WholeMoves
<1>10. CASE Streams(h)
  <2> DEFINE t == [task[h] EXCEPT !.pc = "streaming"]
  <2>1. Go(h, t) /\ task[h].pc = "accepting"
    BY <1>10 DEF Streams, Turn
  <2>2. /\ t.pc = "streaming" /\ t.msg = task[h].msg /\ t.scope = task[h].scope
        /\ t.omitted = task[h].omitted /\ t.left = task[h].left /\ t.path = task[h].path
    BY <1>2 DEF TaskRecord
  <2> HIDE DEF t
  <2> QED BY <1>7, <2>1, <2>2 DEF Live
<1>11. CASE Answer(h) \/ AnswerTooLarge(h)
  <2> DEFINE t == [[task[h] EXCEPT !.pc = "answering"] EXCEPT !.results = IF up THEN @ + 1 ELSE @]
  <2>1. task' = [task EXCEPT ![h] = t] /\ UNCHANGED <<wire, replies, cacheOf>>
    BY <1>11 DEF Answer, AnswerTooLarge, TellNothing, Tell, NothingHanded, slot
  <2>2. t.pc = "answering"
    BY <1>2 DEF TaskRecord
  <2> HIDE DEF t
  <2> QED BY <1>3, <2>1, <2>2 DEF Live
<1>12. CASE AnswerError(h)
  BY <1>6, <1>12 DEF AnswerError
<1>13. CASE Echoes(h)
  <2> DEFINE t == [task[h] EXCEPT !.pc = "streaming", !.at = None,
                     !.left = IF task[h].path = "states" THEN Entities ELSE {task[h].at}]
  <2>1. Go(h, t) /\ task[h].pc = "answering" /\ task[h].path \in {"states", "entity"}
    BY <1>13 DEF Echoes, Turn, IInv, FieldInv, FieldOK, Idle
  <2>2. t.pc = "streaming" /\ t.path = task[h].path
    BY <1>2 DEF TaskRecord
  <2> HIDE DEF t
  <2> QED BY <1>7, <2>1, <2>2 DEF Live
<1>14. CASE Catalogs(h)
  <2> DEFINE t == [task[h] EXCEPT !.pc = "ending"]
  <2>1. task' = [task EXCEPT ![h] = t] /\ UNCHANGED <<wire, replies, cacheOf>>
    BY <1>14 DEF Catalogs, slot
  <2>2. t.pc = "ending"
    BY <1>2 DEF TaskRecord
  <2> HIDE DEF t
  <2> QED BY <1>3, <2>1, <2>2 DEF Live
<1>15. ASSUME NEW outcome \in Outcomes,
              task[h].pc \in {"streaming", "displaying"}, Snapshot(h), Finish(h, outcome),
              outcome = "complete" => task[h].left = {} /\ ~task[h].omitted
       PROVE  WholeInv'
  BY <1>1, <1>15, FinishWhole
<1>16. CASE Finishes(h)
  BY <1>4, <1>15, <1>16 DEF Finishes, Turn, Outcomes
<1>17. CASE LosesGrant(h)
  BY <1>15, <1>17 DEF LosesGrant, Turn, Outcomes
<1>18. CASE Shows(h)
  <2> DEFINE e == task[h].at
             t == [task[h] EXCEPT !.pc = "streaming", !.left = @ \ {e}, !.at = None]
  <2>1. /\ task' = [task EXCEPT ![h] = t] /\ UNCHANGED <<replies, cacheOf>>
        /\ task[h].pc = "displaying"
        /\ wire' = IF Snapshot(h) THEN wire \union {State(task[h].msg, e)} ELSE wire
    BY <1>18 DEF Shows, Turn, slot, State
  <2>2. /\ t.pc = "streaming" /\ t.msg = task[h].msg /\ t.scope = task[h].scope
        /\ t.omitted = task[h].omitted /\ t.left = task[h].left \ {e} /\ t.path = task[h].path
    BY <1>2 DEF TaskRecord
  <2> HIDE DEF t
  <2>3. CompleteIsWhole'
    BY <2>1 DEF WholeInv, CompleteIsWhole, State
  <2>4. Live(t) => Live(task[h]) /\ \A x \in task[h].left \ t.left : State(t.msg, x) \in wire'
    BY <2>1, <2>2 DEF Live, Snapshot
  <2> QED BY <1>1, <1>2, <2>1, <2>2, <2>3, <2>4, WholeMoves
<1>19. CASE Omits(h)
  <2> DEFINE t == [task[h] EXCEPT !.pc = "streaming", !.left = @ \ {task[h].at},
                     !.at = None, !.omitted = TRUE]
  <2>1. task[h].pc = "displaying" /\ (End(h) \/ Go(h, t))
    BY <1>19 DEF Omits, Turn
  <2>2. /\ t.pc = "streaming" /\ t.msg = task[h].msg /\ t.scope = task[h].scope
        /\ t.omitted = TRUE /\ t.path = task[h].path
    BY <1>2 DEF TaskRecord
  <2> HIDE DEF t
  <2> QED BY <1>4, <1>7, <2>1, <2>2 DEF Live
<1>20. CASE Revoked(h)
  BY <1>6, <1>15, <1>20 DEF Revoked, Turn, Outcomes
<1>21. CASE Fails(h)
  BY <1>4, <1>15, <1>21 DEF Fails, Turn, Outcomes
<1>22. ASSUME NEW e \in Entities, Loads(h, e) PROVE WholeInv'
  <2> DEFINE t == [task[h] EXCEPT !.pc = "displaying", !.at = e]
  <2>1. Go(h, t) /\ task[h].pc = "streaming"
    BY <1>22 DEF Loads, Turn
  <2>2. /\ t.pc = "displaying" /\ t.msg = task[h].msg /\ t.scope = task[h].scope
        /\ t.omitted = task[h].omitted /\ t.left = task[h].left /\ t.path = task[h].path
    BY <1>2 DEF TaskRecord
  <2> HIDE DEF t
  <2> QED BY <1>7, <2>1, <2>2 DEF Live
<1>23. ASSUME NEW e \in Entities, Skips(h, e) PROVE WholeInv'
  <2> DEFINE t == [task[h] EXCEPT !.left = @ \ {e}]
  <2>1. Go(h, t) /\ task[h].pc = "streaming" /\ ~Snapshot(h)
    BY <1>23 DEF Skips, Turn
  <2>2. t.pc = "streaming" /\ t.path = task[h].path
    BY <1>2, <2>1 DEF TaskRecord
  <2> HIDE DEF t
  <2> QED BY <1>7, <2>1, <2>2 DEF Live, Snapshot
<1> QED
  BY <1>8, <1>9, <1>10, <1>11, <1>12, <1>13, <1>14, <1>16, <1>17, <1>18, <1>19, <1>20, <1>21,
     <1>22, <1>23 DEF Step


-----------------------------------------------------------------------------
(* The theorems.                                                           *)

(* Every step keeps the inductive invariant.                               *)
LEMMA Inductive == IInv /\ [Next]_vars => IInv'
<1> SUFFICES ASSUME IInv, [Next]_vars PROVE IInv'
  OBVIOUS
<1>1. CASE UNCHANGED vars
  BY <1>1 DEF vars, slot, history, IInv, TypeOK, SlotInv, SlotIsHeld, FreshInv, FieldInv, LinkInv
<1>2. ASSUME NEW h \in Handlers, NEW msg \in Msgs, Receive(h, msg) PROVE IInv'
  <2>1. UNCHANGED <<conn, up>>
    BY <1>2 DEF Receive, Busy, Repeated, Replay, StartStream, ScopeTooLarge, ReadAll, Begin, Arrive
  <2>2. LinkInv'
    BY <2>1 DEF LinkInv, IInv
  <2> QED BY <1>2, <2>2, ReceiveType, ReceiveSlot DEF IInv
<1>3. ASSUME NEW h \in Handlers, Step(h) PROVE IInv'
  BY <1>3, StepType, StepSlot DEF IInv
<1>4. CASE \/ \E h \in Handlers, e \in Entities : ReadOne(h, e)
           \/ \E h \in Handlers : ReadCatalog(h)
           \/ Overloaded \/ LinkBreaks \/ Disconnected \/ Regrant
  BY <1>4, EnvironmentType, EnvironmentSlot DEF IInv
<1> QED BY <1>1, <1>2, <1>3, <1>4 DEF Next

(* Every reachable state is well typed: the receipts kept are bounded, of  *)
(* different requests, and refer to existing grants.                       *)
THEOREM TypeCorrect == Spec => []TypeOK
<1>1. IInv => TypeOK
  BY DEF IInv
<1> QED BY <1>1, InitEstablishes, Inductive, PTL DEF Spec

(* Two requested snapshots never stream at once (coordinator.py, the       *)
(* single-flight slot of a snapshot request).                              *)
THEOREM SnapshotsAreSingleFlight == Spec => []OneStreamAtATime
<1>1. IInv => OneStreamAtATime
  <2> SUFFICES ASSUME IInv PROVE OneStreamAtATime
    OBVIOUS
  <2>1. \A h \in Streaming : h \in Handlers /\ Holds(task[h])
    BY DEF Streaming, Holds
  <2>2. \A g, h \in Streaming : g = h
    BY <2>1 DEF IInv, SlotInv
  <2>3. CASE Streaming = {}
    BY <2>3, FS_EmptySet DEF OneStreamAtATime
  <2>4. CASE Streaming # {}
    <3>1. PICK h : Streaming = {h}
      BY <2>2, <2>4
    <3>2. Cardinality(Streaming) = 1
      BY <3>1, FS_Singleton
    <3> QED BY <3>2 DEF OneStreamAtATime
  <2> QED BY <2>3, <2>4
<1> QED BY <1>1, InitEstablishes, Inductive, PTL DEF Spec

(* The slot is never left taken without a handler that will release it,    *)
(* whoever is cancelled, overloaded or disconnected.                       *)
THEOREM SlotHasItsHolder == Spec => []SlotIsHeld
<1>1. IInv => SlotIsHeld
  BY DEF IInv, SlotInv
<1> QED BY <1>1, InitEstablishes, Inductive, PTL DEF Spec

(* The history of a connection starts empty and every step keeps it whole. *)
LEMMA WholeInductive ==
    /\ Init => WholeInv
    /\ IInv /\ WholeInv /\ [Next]_vars => WholeInv'
<1>1. Init => WholeInv
  BY DEF Init, WholeInv, CompleteIsWhole, Live, Idle
<1>2. ASSUME IInv, WholeInv, UNCHANGED vars PROVE WholeInv'
  BY <1>2 DEF vars, slot, history, WholeInv, Whole, Replayed, CompleteIsWhole
<1>3. ASSUME IInv, WholeInv, Next PROVE WholeInv'
  BY <1>3, ReceiveWhole, StepWhole, EnvironmentWhole DEF Next
<1> QED BY <1>1, <1>2, <1>3

(* Whoever was handed "complete" was handed, on the same connection, the   *)
(* accepted receipt of that scope and every one of its states, also when   *)
(* the receipt was replayed from the cache.                                *)
THEOREM CompletionIsProof == Spec => []CompleteIsWhole
<1>1. WholeInv => CompleteIsWhole
  BY DEF WholeInv
<1> QED BY <1>1, InitEstablishes, Inductive, WholeInductive, PTL DEF Spec

-----------------------------------------------------------------------------
(* Nothing leaves under a grant that is gone.                              *)

(* The cache belongs to the grant of the stream under way, what it keeps   *)
(* was handed under its grant, and an entity is read under a grant that    *)
(* allows it.                                                              *)
Reading(t) == t.pc = "reading" /\ t.path = "entity"
ScopeInv ==
    /\ \A h \in Handlers :
          /\ Live(task[h]) => cacheOf # None /\ cacheOf.scope = task[h].scope
          /\ Reading(task[h]) => task[h].at \in task[h].scope
    /\ cacheOf # None => \A i \in DOMAIN replies : replies[i].scope = cacheOf.scope

(* A handler moves on without a reply to keep.                             *)
LEMMA ScopeKept ==
    ASSUME TypeOK, ScopeInv, NEW h \in Handlers, NEW t, task' = [task EXCEPT ![h] = t],
           UNCHANGED <<replies, cacheOf>>,
           Live(t) => Live(task[h]) /\ t.scope = task[h].scope,
           Reading(t) => t.at \in t.scope
    PROVE  ScopeInv'
<1>1. /\ task'[h] = t
      /\ \A g \in Handlers : g # h => task'[g] = task[g]
  BY TypeParts DEF TaskType
<1> QED BY <1>1 DEF ScopeInv

(* A command that looks at the cache keeps of it what its grant allows.    *)
LEMMA ScopeBegins ==
    ASSUME IInv, ScopeInv, NEW h \in Handlers, NEW t, task' = [task EXCEPT ![h] = t],
           request = None, cacheOf' = Owner, replies' = Cache,
           Live(t) => t.scope = grant, ~Reading(t)
    PROVE  ScopeInv'
<1> USE TypeParts DEF IInv
<1>1. /\ task'[h] = t
      /\ \A g \in Handlers : g # h => task'[g] = task[g] /\ ~Live(task[g])
  BY DEF TaskType, SlotInv, Live, Holds, SnapshotPaths, Idle
<1>2. Owner # None /\ Owner.scope = grant
  BY NoneIsNoName, SnapshotBounds DEF Owner, FrameType
<1>3. \A i \in DOMAIN Cache : Cache[i].scope = grant
  BY <1>2 DEF Cache, ScopeInv
<1> QED BY <1>1, <1>2, <1>3 DEF ScopeInv

(* The reply of a stream that ends is kept under the stream's grant.       *)
LEMMA ScopeFinishes ==
    ASSUME IInv, ScopeInv, NEW h \in Handlers, NEW outcome \in Outcomes,
           task[h].pc \in {"streaming", "displaying"}, Snapshot(h), Finish(h, outcome)
    PROVE  ScopeInv'
<1> USE TypeParts DEF IInv
<1> DEFINE r == [msg |-> task[h].msg, scope |-> task[h].scope, outcome |-> outcome]
           t == [Closing(h, "ending") EXCEPT !.results = IF up THEN @ + 1 ELSE @]
<1>1. task[h] # Idle /\ Live(task[h])
  BY DEF Idle, Live, Snapshot
<1>2. task[h] \in TaskRecord /\ task[h].msg \in Msgs /\ task[h].scope \in Grants
  BY <1>1, TurnType DEF FieldInv, FieldOK, Live, SnapshotPaths
<1>3. task' = [task EXCEPT ![h] = t] /\ replies' = Remember(r) /\ UNCHANGED cacheOf
  BY DEF Finish, Tell
<1>4. ~Live(t) /\ ~Reading(t)
  BY <1>2 DEF Closing, TaskRecord, Live, Reading
<1>5. cacheOf # None /\ cacheOf.scope = r.scope
  BY <1>1 DEF ScopeInv
<1>6. \A i \in DOMAIN Remember(r) : Remember(r)[i].scope = cacheOf.scope
  <2> DEFINE kept == Append(replies, r)
  <2>1. r \in ReplyRecord /\ replies \in Seq(ReplyRecord)
    BY <1>2 DEF ReplyRecord, SlotType, CacheType
  <2> HIDE DEF r
  <2>2. \A i \in 1..Len(replies) : replies[i].scope = cacheOf.scope
    BY <1>5, <2>1 DEF ScopeInv
  <2>3. /\ kept \in Seq(ReplyRecord) /\ DOMAIN kept = 1..Len(kept)
        /\ \A i \in 1..Len(kept) : kept[i].scope = cacheOf.scope
    BY <1>5, <2>1, <2>2
  <2> HIDE DEF kept
  <2>4. \A i \in DOMAIN Tail(kept) : i + 1 \in 1..Len(kept) /\ Tail(kept)[i] = kept[i + 1]
    BY <2>3
  <2>5. Remember(r) = IF Len(kept) > MaxReplies THEN Tail(kept) ELSE kept
    BY DEF Remember, kept
  <2> QED BY <2>3, <2>4, <2>5
<1> HIDE DEF r, t
<1>7. /\ task'[h] = t
      /\ \A g \in Handlers : g # h => task'[g] = task[g]
  BY <1>3 DEF TaskType
<1> QED BY <1>3, <1>4, <1>5, <1>6, <1>7 DEF ScopeInv

(* What a step of a handler makes of it, if it is not the end of a stream. *)
Onward(h, t) ==
    /\ task' = [task EXCEPT ![h] = t]
    /\ Live(t) => Live(task[h]) /\ t.scope = task[h].scope
    /\ ~Reading(t)

LEMMA StepOnward ==
    ASSUME IInv, NEW h \in Handlers, Step(h)
    PROVE  \/ UNCHANGED <<replies, cacheOf>> /\ \E t : Onward(h, t)
           \/ /\ task[h].pc \in {"streaming", "displaying"} /\ Snapshot(h)
              /\ \E outcome \in Outcomes : Finish(h, outcome)
<1>1. task[h] \in TaskRecord /\ TypeOK /\ FieldOK(task[h])
  BY StepPc, TurnType DEF IInv, FieldInv, Idle
<1>2. ASSUME End(h)
      PROVE  UNCHANGED <<replies, cacheOf>> /\ Onward(h, Idle)
  BY <1>2 DEF End, Onward, Live, Reading, Idle
<1>3. ASSUME NEW pc \in {"ending", "refused"}, Tell(h, Closing(h, pc))
      PROVE  Onward(h, [Closing(h, pc) EXCEPT !.results = IF up THEN @ + 1 ELSE @])
  BY <1>1, <1>3 DEF Tell, Closing, TaskRecord, Onward, Live, Reading
<1>4. ASSUME NEW pc \in {"streaming", "displaying", "answering", "ending"},
             NEW t, task' = [task EXCEPT ![h] = t],
             t.pc = pc, t.path = task[h].path, t.scope = task[h].scope,
             \/ task[h].pc \in {"accepting", "streaming", "displaying"}
             \/ pc \in {"answering", "ending"}
             \/ task[h].path # "snapshot"
      PROVE  Onward(h, t)
  BY <1>4 DEF Onward, Live, Reading
<1>5. CASE Ends(h) \/ GivesUp(h)
  BY <1>2, <1>5 DEF Ends, GivesUp
<1>6. CASE ReplaySecond(h) \/ AnswerError(h)
  BY <1>3, <1>6 DEF ReplaySecond, AnswerError, TellNothing, slot
<1>7. CASE Streams(h)
  <2> DEFINE t == [task[h] EXCEPT !.pc = "streaming"]
  <2>1. /\ task' = [task EXCEPT ![h] = t] /\ UNCHANGED <<replies, cacheOf>>
        /\ task[h].pc = "accepting"
    BY <1>7 DEF Streams, Go, Turn, slot
  <2>2. t.pc = "streaming" /\ t.path = task[h].path /\ t.scope = task[h].scope
    BY <1>1 DEF TaskRecord
  <2> HIDE DEF t
  <2> QED BY <1>4, <2>1, <2>2
<1>8. CASE Answer(h) \/ AnswerTooLarge(h)
  <2> DEFINE t == [[task[h] EXCEPT !.pc = "answering"] EXCEPT !.results = IF up THEN @ + 1 ELSE @]
  <2>1. task' = [task EXCEPT ![h] = t] /\ UNCHANGED <<replies, cacheOf>>
    BY <1>8 DEF Answer, AnswerTooLarge, TellNothing, Tell, slot
  <2>2. t.pc = "answering" /\ t.path = task[h].path /\ t.scope = task[h].scope
    BY <1>1 DEF TaskRecord
  <2> HIDE DEF t
  <2> QED BY <1>4, <2>1, <2>2
<1>9. CASE Echoes(h)
  <2> DEFINE t == [task[h] EXCEPT !.pc = "streaming", !.at = None,
                     !.left = IF task[h].path = "states" THEN Entities ELSE {task[h].at}]
  <2>1. /\ task' = [task EXCEPT ![h] = t] /\ UNCHANGED <<replies, cacheOf>>
        /\ task[h].path # "snapshot"
    BY <1>1, <1>9 DEF Echoes, Go, Turn, slot, FieldOK
  <2>2. t.pc = "streaming" /\ t.path = task[h].path /\ t.scope = task[h].scope
    BY <1>1 DEF TaskRecord
  <2> HIDE DEF t
  <2> QED BY <1>4, <2>1, <2>2
<1>10. CASE Catalogs(h)
  <2> DEFINE t == [task[h] EXCEPT !.pc = "ending"]
  <2>1. task' = [task EXCEPT ![h] = t] /\ UNCHANGED <<replies, cacheOf>>
    BY <1>10 DEF Catalogs, slot
  <2>2. t.pc = "ending" /\ t.path = task[h].path /\ t.scope = task[h].scope
    BY <1>1 DEF TaskRecord
  <2> HIDE DEF t
  <2> QED BY <1>4, <2>1, <2>2
<1>11. CASE Finishes(h) \/ LosesGrant(h) \/ Fails(h)
  BY <1>2, <1>11 DEF Finishes, LosesGrant, Fails, Turn, Outcomes
<1>12. CASE Revoked(h)
  <2>1. CASE Snapshot(h)
    BY <1>12, <2>1 DEF Revoked, Turn, Outcomes
  <2>2. CASE ~Snapshot(h)
    BY <1>3, <1>12, <2>2 DEF Revoked, TellNothing, slot
  <2> QED BY <2>1, <2>2
<1>13. CASE Shows(h)
  <2> DEFINE t == [task[h] EXCEPT !.pc = "streaming", !.left = @ \ {task[h].at}, !.at = None]
  <2>1. /\ task' = [task EXCEPT ![h] = t] /\ UNCHANGED <<replies, cacheOf>>
        /\ task[h].pc = "displaying"
    BY <1>13 DEF Shows, Turn, slot
  <2>2. t.pc = "streaming" /\ t.path = task[h].path /\ t.scope = task[h].scope
    BY <1>1 DEF TaskRecord
  <2> HIDE DEF t
  <2> QED BY <1>4, <2>1, <2>2
<1>14. CASE Omits(h)
  <2> DEFINE t == [task[h] EXCEPT !.pc = "streaming", !.left = @ \ {task[h].at},
                     !.at = None, !.omitted = TRUE]
  <2>1. task[h].pc = "displaying" /\ (End(h) \/ Go(h, t))
    BY <1>14 DEF Omits, Turn
  <2>2. t.pc = "streaming" /\ t.path = task[h].path /\ t.scope = task[h].scope
    BY <1>1 DEF TaskRecord
  <2> HIDE DEF t
  <2> QED BY <1>2, <1>4, <2>1, <2>2 DEF Go, slot
<1>15. ASSUME NEW e \in Entities, Loads(h, e)
       PROVE  UNCHANGED <<replies, cacheOf>> /\ \E t : Onward(h, t)
  <2> DEFINE t == [task[h] EXCEPT !.pc = "displaying", !.at = e]
  <2>1. /\ task' = [task EXCEPT ![h] = t] /\ UNCHANGED <<replies, cacheOf>>
        /\ task[h].pc = "streaming"
    BY <1>15 DEF Loads, Go, Turn, slot
  <2>2. t.pc = "displaying" /\ t.path = task[h].path /\ t.scope = task[h].scope
    BY <1>1 DEF TaskRecord
  <2> HIDE DEF t
  <2> QED BY <1>4, <2>1, <2>2
<1>16. ASSUME NEW e \in Entities, Skips(h, e)
       PROVE  UNCHANGED <<replies, cacheOf>> /\ \E t : Onward(h, t)
  <2> DEFINE t == [task[h] EXCEPT !.left = @ \ {e}]
  <2>1. /\ task' = [task EXCEPT ![h] = t] /\ UNCHANGED <<replies, cacheOf>>
        /\ task[h].pc = "streaming"
    BY <1>16 DEF Skips, Go, Turn, slot
  <2>2. t.pc = "streaming" /\ t.path = task[h].path /\ t.scope = task[h].scope
    BY <1>1, <2>1 DEF TaskRecord
  <2> HIDE DEF t
  <2> QED BY <1>4, <2>1, <2>2
<1> QED
  BY <1>5, <1>6, <1>7, <1>8, <1>9, <1>10, <1>11, <1>12, <1>13, <1>14, <1>15, <1>16 DEF Step

(* A command arrives.                                                      *)
LEMMA ReceiveScope ==
    ASSUME IInv, ScopeInv, NEW h \in Handlers, NEW msg \in Msgs, Receive(h, msg)
    PROVE  ScopeInv'
<1>1. TypeOK
  BY DEF IInv
<1>2. ASSUME NEW path \in SnapshotPaths, Busy(h, path, msg) PROVE ScopeInv'
  <2> DEFINE t == [Handler(path, msg, "refused") EXCEPT !.results = IF up THEN @ + 1 ELSE @]
  <2>1. task' = [task EXCEPT ![h] = t] /\ UNCHANGED <<replies, cacheOf>>
    BY <1>2 DEF Busy, TellNothing, Tell, slot
  <2>2. ~Live(t) /\ ~Reading(t)
    BY DEF Live, Reading, Handler
  <2> HIDE DEF t
  <2> QED BY <1>1, <2>1, <2>2, ScopeKept
<1>3. ASSUME NEW path \in SnapshotPaths, Repeated(h, path, msg) PROVE ScopeInv'
  BY <1>3 DEF Repeated, slot, ScopeInv
<1>4. ASSUME Replay(h, msg) PROVE ScopeInv'
  <2>1. PICK i \in DOMAIN Cache :
          Tell(h, [Handler("snapshot", msg, "replaying") EXCEPT !.reply = Cache[i]])
    BY <1>4 DEF Replay
  <2> DEFINE t == [[Handler("snapshot", msg, "replaying") EXCEPT !.reply = Cache[i]]
                     EXCEPT !.results = IF up THEN @ + 1 ELSE @]
  <2>2. /\ task' = [task EXCEPT ![h] = t] /\ request = None
        /\ cacheOf' = Owner /\ replies' = Cache
    BY <1>4, <2>1 DEF Replay, Tell
  <2>3. ~Live(t) /\ ~Reading(t)
    BY DEF Live, Reading, Handler
  <2> HIDE DEF t
  <2> QED BY <2>2, <2>3, ScopeBegins
<1>5. ASSUME StartStream(h, msg) PROVE ScopeInv'
  <2> DEFINE t == [[Handler("snapshot", msg, "accepting") EXCEPT !.left = grant]
                     EXCEPT !.results = IF up THEN @ + 1 ELSE @]
  <2>1. /\ task' = [task EXCEPT ![h] = t] /\ request = None
        /\ cacheOf' = Owner /\ replies' = Cache
    BY <1>5 DEF StartStream, Begin, Tell
  <2>2. t.scope = grant /\ ~Reading(t)
    BY DEF Handler, Reading
  <2> HIDE DEF t
  <2> QED BY <2>1, <2>2, ScopeBegins
<1>6. ASSUME ScopeTooLarge(h, msg) \/ ReadAll(h, msg) PROVE ScopeInv'
  <2> DEFINE s == [Handler("snapshot", msg, "ending") EXCEPT !.results = IF up THEN @ + 1 ELSE @]
             t == Handler("states", msg, "reading")
  <2>1. /\ task' = [task EXCEPT ![h] = s] \/ task' = [task EXCEPT ![h] = t]
        /\ request = None /\ cacheOf' = Owner /\ replies' = Cache
    BY <1>6 DEF ScopeTooLarge, ReadAll, Begin, TellNothing, Tell
  <2>2. \A u \in {s, t} : ~Live(u) /\ ~Reading(u)
    BY DEF Live, Reading, Handler
  <2> HIDE DEF s, t
  <2>3. PICK u \in {s, t} : task' = [task EXCEPT ![h] = u]
    BY <2>1
  <2> QED BY <2>1, <2>2, <2>3, ScopeBegins
<1> QED BY <1>2, <1>3, <1>4, <1>5, <1>6 DEF Receive

(* Queries that need no slot, and what happens around the handlers.        *)
LEMMA EnvironmentScope ==
    ASSUME IInv, ScopeInv,
           \/ \E h \in Handlers, e \in Entities : ReadOne(h, e)
           \/ \E h \in Handlers : ReadCatalog(h)
           \/ Overloaded \/ LinkBreaks \/ Disconnected \/ Regrant \/ UNCHANGED vars
    PROVE  ScopeInv'
<1>1. TypeOK
  BY DEF IInv
<1>2. ASSUME NEW h \in Handlers, NEW e \in Entities, ReadOne(h, e) PROVE ScopeInv'
  <2> DEFINE reading == [Handler("entity", None, "reading") EXCEPT !.at = e]
             closing == [Handler("entity", None, "ending")
                           EXCEPT !.results = IF up THEN @ + 1 ELSE @]
  <2>1. /\ UNCHANGED <<replies, cacheOf>>
        /\ \/ task' = [task EXCEPT ![h] = reading] /\ e \in grant
           \/ task' = [task EXCEPT ![h] = closing]
    BY <1>2 DEF ReadOne, TellNothing, Tell, slot
  <2>2. /\ ~Live(reading) /\ reading.at = e /\ reading.scope = grant
        /\ ~Live(closing) /\ ~Reading(closing)
    BY DEF Handler, Live, Reading
  <2> HIDE DEF reading, closing
  <2>3. CASE task' = [task EXCEPT ![h] = reading] /\ e \in grant
    BY <1>1, <2>1, <2>2, <2>3, ScopeKept
  <2>4. CASE task' = [task EXCEPT ![h] = closing]
    BY <1>1, <2>1, <2>2, <2>4, ScopeKept
  <2> QED BY <2>1, <2>3, <2>4
<1>3. ASSUME NEW h \in Handlers, ReadCatalog(h) PROVE ScopeInv'
  <2> DEFINE t == [Handler("catalog", None, "cataloging")
                     EXCEPT !.results = IF up THEN @ + 1 ELSE @]
  <2>1. task' = [task EXCEPT ![h] = t] /\ UNCHANGED <<replies, cacheOf>>
    BY <1>3 DEF ReadCatalog, TellNothing, Tell, slot
  <2>2. ~Live(t) /\ ~Reading(t)
    BY DEF Handler, Live, Reading
  <2> HIDE DEF t
  <2> QED BY <1>1, <2>1, <2>2, ScopeKept
<1>4. ASSUME Overloaded \/ LinkBreaks \/ Regrant \/ UNCHANGED vars PROVE ScopeInv'
  <2>1. UNCHANGED <<task, replies, cacheOf>>
    BY <1>4 DEF Overloaded, LinkBreaks, Regrant, slot, vars
  <2> QED BY <2>1 DEF ScopeInv
<1>5. ASSUME Disconnected PROVE ScopeInv'
  <2>1. (\A h \in Handlers : task'[h] = Idle) /\ UNCHANGED <<replies, cacheOf>>
    BY <1>5 DEF Disconnected
  <2>2. ~Live(Idle) /\ ~Reading(Idle)
    BY DEF Idle, Live, Reading
  <2> QED BY <2>1, <2>2 DEF ScopeInv
<1> QED BY <1>2, <1>3, <1>4, <1>5

LEMMA ScopeInductive ==
    /\ Init => ScopeInv
    /\ IInv /\ ScopeInv /\ [Next]_vars => ScopeInv'
<1>1. Init => ScopeInv
  BY DEF Init, ScopeInv, Live, Reading, Idle
<1>2. ASSUME IInv, ScopeInv, NEW h \in Handlers, Step(h) PROVE ScopeInv'
  <2>1. CASE UNCHANGED <<replies, cacheOf>> /\ \E t : Onward(h, t)
    BY <1>2, <2>1, ScopeKept DEF Onward, IInv
  <2>2. CASE /\ task[h].pc \in {"streaming", "displaying"} /\ Snapshot(h)
             /\ \E outcome \in Outcomes : Finish(h, outcome)
    BY <1>2, <2>2, ScopeFinishes
  <2> QED BY <1>2, <2>1, <2>2, StepOnward
<1>3. ASSUME IInv, ScopeInv, [Next]_vars PROVE ScopeInv'
  BY <1>2, <1>3, ReceiveScope, EnvironmentScope DEF Next
<1> QED BY <1>1, <1>3

(* Only the end of a stream and the second half of a replay hand over a    *)
(* finished receipt, and both have handed the accepted one before.         *)
LEMMA FinishedRepeats ==
    ASSUME IInv, WholeInv, [Next]_vars, NEW r \in wire' \ wire, r.kind = "finished"
    PROVE  Accepted(r.msg, r.scope) \in wire
<1> DEFINE Goal == Accepted(r.msg, r.scope) \in wire
<1>1. ASSUME NEW h \in Handlers, NEW outcome \in Outcomes, Finish(h, outcome), Snapshot(h),
             task[h].pc \in {"streaming", "displaying"}
      PROVE  Goal
  <2>1. Live(task[h])
    BY <1>1 DEF Live, Snapshot
  <2>2. r = Finished([msg |-> task[h].msg, scope |-> task[h].scope, outcome |-> outcome])
    BY <1>1 DEF Finish, Hand
  <2> QED BY <2>1, <2>2 DEF WholeInv, Finished
<1>2. ASSUME NEW h \in Handlers, ReplaySecond(h) PROVE Goal
  <2>1. task[h].pc = "replaying" /\ r = Finished(task[h].reply)
    BY <1>2 DEF ReplaySecond, Turn, Hand
  <2> QED BY <2>1 DEF WholeInv, Replayed, Finished
<1>3. ASSUME NEW h \in Handlers, Step(h) PROVE Goal
  <2>1. CASE \/ Ends(h) \/ GivesUp(h) \/ Streams(h) \/ Answer(h) \/ AnswerTooLarge(h)
             \/ AnswerError(h) \/ Echoes(h) \/ Catalogs(h) \/ Omits(h)
             \/ \E e \in Entities : Loads(h, e) \/ Skips(h, e)
    BY <2>1 DEF Ends, GivesUp, Streams, Answer, AnswerTooLarge, AnswerError, Echoes, Catalogs,
                Omits, Loads, Skips, End, Go, TellNothing, NothingHanded
  <2>2. CASE Finishes(h) \/ LosesGrant(h) \/ Revoked(h) \/ Fails(h)
    BY <1>1, <2>2 DEF Finishes, LosesGrant, Revoked, Fails, Turn, Outcomes, End, TellNothing,
                      NothingHanded
  <2>3. CASE Shows(h)
    BY <2>3 DEF Shows
  <2> QED BY <1>2, <1>3, <2>1, <2>2, <2>3 DEF Step
<1>4. ASSUME NEW h \in Handlers, NEW msg \in Msgs, Receive(h, msg) PROVE FALSE
  <2>1. CASE Replay(h, msg)
    <3>1. PICK scope : Hand({Accepted(msg, scope)})
      BY <2>1 DEF Replay
    <3> QED BY <3>1 DEF Hand, Accepted
  <2>2. CASE StartStream(h, msg)
    BY <2>2 DEF StartStream, Hand, Accepted
  <2>3. CASE \/ \E path \in SnapshotPaths : Busy(h, path, msg) \/ Repeated(h, path, msg)
             \/ ScopeTooLarge(h, msg) \/ ReadAll(h, msg)
    BY <2>3 DEF Busy, Repeated, ScopeTooLarge, ReadAll, TellNothing, NothingHanded
  <2> QED BY <1>4, <2>1, <2>2, <2>3 DEF Receive
<1>5. ASSUME \/ \E h \in Handlers, e \in Entities : ReadOne(h, e)
             \/ \E h \in Handlers : ReadCatalog(h)
             \/ Overloaded \/ LinkBreaks \/ Disconnected \/ Regrant \/ UNCHANGED vars
      PROVE  FALSE
  BY <1>5 DEF ReadOne, ReadCatalog, Overloaded, LinkBreaks, Disconnected, Regrant,
              TellNothing, NothingHanded, vars, history
<1> QED BY <1>3, <1>4, <1>5 DEF Next

(* What describes a grant leaves the bridge under the grant in force, with *)
(* replayed accepted receipts included, and a finished receipt, which may  *)
(* leave later, names no scope but that of an accepted receipt handed on   *)
(* its connection (_handle_v2_command, _publish_snapshot_stream).          *)
THEOREM NothingLeavesUngranted == Spec => HandedUnderGrant
<1> DEFINE Fits == /\ last'.kind = "whole" => last'.data = grant
                   /\ last'.kind = "part" => last'.data \subseteq grant
<1>1. ASSUME NEW data, \/ Describe("whole", data) /\ data = grant
                       \/ Describe("part", data) /\ data \subseteq grant
      PROVE  Fits
  BY <1>1 DEF Describe, Nothing
<1>2. last' = Nothing => Fits
  BY DEF Nothing
<1>3. ASSUME IInv, ScopeInv, NEW h \in Handlers, NEW msg \in Msgs, Receive(h, msg) PROVE Fits
  <2>1. CASE Replay(h, msg)
    <3>1. PICK i \in DOMAIN Cache : Describe("whole", Cache[i].scope)
      BY <2>1 DEF Replay
    <3>2. Owner # None /\ Owner.scope = grant
      BY <1>3, NoneIsNoName, SnapshotBounds DEF Owner, IInv, TypeOK
    <3>3. Cache[i].scope = grant
      BY <1>3, <3>2 DEF Cache, ScopeInv
    <3> QED BY <1>1, <3>1, <3>3
  <2>2. CASE StartStream(h, msg)
    BY <1>1, <2>2 DEF StartStream
  <2>3. CASE \/ \E path \in SnapshotPaths : Busy(h, path, msg) \/ Repeated(h, path, msg)
             \/ ScopeTooLarge(h, msg) \/ ReadAll(h, msg)
    <3>1. last' = Nothing
      BY <2>3 DEF Busy, Repeated, ScopeTooLarge, ReadAll, TellNothing, NothingHanded
    <3> QED BY <1>2, <3>1
  <2> QED BY <1>3, <2>1, <2>2, <2>3 DEF Receive
<1>4. ASSUME IInv, ScopeInv, NEW h \in Handlers, Step(h) PROVE Fits
  <2>1. CASE Answer(h)
    <3>1. task[h].scope = grant /\ task[h].pc = "reading" /\ task[h].path \in {"states", "entity"}
      BY <1>4, <2>1, StepPc DEF Answer, Turn, StillScoped, IInv, FieldInv, FieldOK, Idle
    <3>2. task[h].path = "entity" => {task[h].at} \subseteq grant
      BY <1>4, <3>1 DEF ScopeInv, Reading
    <3> QED BY <1>1, <2>1, <3>1, <3>2 DEF Answer
  <2>2. CASE Catalogs(h)
    BY <1>1, <2>2 DEF Catalogs, StillScoped
  <2>3. CASE Shows(h)
    <3>1. Describe("part", {task[h].at}) /\ {task[h].at} \subseteq grant
      BY <2>3 DEF Shows
    <3> QED BY <1>1, <3>1
  <2>4. CASE \/ Ends(h) \/ ReplaySecond(h) \/ GivesUp(h) \/ Streams(h) \/ AnswerTooLarge(h)
             \/ AnswerError(h) \/ Echoes(h) \/ Finishes(h) \/ LosesGrant(h) \/ Omits(h)
             \/ Revoked(h) \/ Fails(h) \/ \E e \in Entities : Loads(h, e) \/ Skips(h, e)
    <3>1. last' = Nothing
      BY <2>4 DEF Ends, ReplaySecond, GivesUp, Streams, AnswerTooLarge, AnswerError, Echoes,
         Finishes, LosesGrant, Omits, Revoked, Fails, Loads, Skips, End, Go, Finish,
         TellNothing, NothingHanded
    <3> QED BY <1>2, <3>1
  <2> QED BY <1>4, <2>1, <2>2, <2>3, <2>4 DEF Step
<1>5. ASSUME NEW h \in Handlers, ReadCatalog(h) PROVE Fits
  BY <1>1, <1>2, <1>5 DEF ReadCatalog, TellNothing, NothingHanded
<1>6. ASSUME \/ \E h \in Handlers, e \in Entities : ReadOne(h, e)
             \/ Overloaded \/ LinkBreaks \/ Disconnected \/ Regrant
      PROVE  Fits
  <2>1. last' = Nothing
    BY <1>6 DEF ReadOne, Overloaded, LinkBreaks, Disconnected, Regrant, TellNothing, NothingHanded
  <2> QED BY <1>2, <2>1
<1>7. IInv /\ ScopeInv /\ [Next]_vars => [Fits]_vars
  BY <1>3, <1>4, <1>5, <1>6 DEF Next
<1>8. IInv /\ WholeInv /\ ScopeInv /\ [Next]_vars =>
        [/\ last'.kind = "whole" => last'.data = grant
         /\ last'.kind = "part" => last'.data \subseteq grant
         /\ \A r \in wire' \ wire :
               r.kind = "finished" => Accepted(r.msg, r.scope) \in wire]_vars
  BY <1>7, FinishedRepeats
<1> QED BY <1>8, InitEstablishes, Inductive, WholeInductive, ScopeInductive, PTL
        DEF Spec, HandedUnderGrant

(* A stream that has begun hands its finished receipt before it ends, as   *)
(* long as its link works.                                                 *)
THEOREM EveryStreamIsFinished == Spec => BegunIsFinished
<1> DEFINE Ending(h) == task[h].path = "snapshot" /\ h \notin Streaming' /\ up
           Told(h) == \E r \in wire' : r.kind = "finished" /\ r.msg = task[h].msg
                                     /\ r.scope = task[h].scope
<1>1. ASSUME NEW h \in Handlers, task'[h] = task[h], h \in Streaming PROVE h \in Streaming'
  BY <1>1 DEF Streaming
<1>2. ASSUME IInv, NEW h \in Streaming, Ending(h), Step(h) PROVE Told(h)
  <2>0. /\ h \in Handlers /\ task[h].pc \in {"streaming", "displaying"} /\ Snapshot(h)
        /\ task[h] # Idle /\ TypeOK
    BY <1>2 DEF Streaming, Snapshot, IInv
  <2>1. /\ h \in Handlers /\ task[h].pc \in {"streaming", "displaying"} /\ Snapshot(h)
        /\ task[h] \in TaskRecord /\ task \in TaskType
    BY <2>0, TurnType
  <2>2. ASSUME NEW outcome \in Outcomes, Finish(h, outcome) PROVE Told(h)
    <3> DEFINE r == Finished([msg |-> task[h].msg, scope |-> task[h].scope,
                              outcome |-> outcome])
    <3>1. r \in wire'
      BY <1>2, <2>2 DEF Finish, Hand
    <3>2. r.kind = "finished" /\ r.msg = task[h].msg /\ r.scope = task[h].scope
      BY DEF Finished
    <3> QED BY <3>1, <3>2
  <2>3. ASSUME NEW t, task' = [task EXCEPT ![h] = t], t # Idle, t.path = task[h].path,
               t.pc \in {"streaming", "displaying"}
        PROVE  FALSE
    <3>1. task'[h] = t
      BY <2>1, <2>3 DEF TaskType
    <3> QED BY <1>2, <2>1, <2>3, <3>1 DEF Streaming, SnapshotPaths, Snapshot
  <2>4. CASE Shows(h) \/ Omits(h)
    <3> DEFINE s == [task[h] EXCEPT !.pc = "streaming", !.left = @ \ {task[h].at}, !.at = None]
               t == [task[h] EXCEPT !.pc = "streaming", !.left = @ \ {task[h].at},
                       !.at = None, !.omitted = TRUE]
    <3>1. task' = [task EXCEPT ![h] = s] \/ task' = [task EXCEPT ![h] = t]
      BY <2>1, <2>4 DEF Shows, Omits, Go, Snapshot
    <3>2. \A u \in {s, t} : u.pc = "streaming" /\ u.path = task[h].path /\ u # Idle
      BY <2>1 DEF TaskRecord, Idle
    <3> HIDE DEF s, t
    <3> QED BY <2>3, <3>1, <3>2
  <2>5. ASSUME NEW e \in Entities, Loads(h, e) PROVE FALSE
    <3> DEFINE t == [task[h] EXCEPT !.pc = "displaying", !.at = e]
    <3>1. task' = [task EXCEPT ![h] = t]
      BY <2>5 DEF Loads, Go
    <3>2. t.pc = "displaying" /\ t.path = task[h].path /\ t # Idle
      BY <2>1 DEF TaskRecord, Idle
    <3> HIDE DEF t
    <3> QED BY <2>3, <3>1, <3>2
  <2>6. CASE Finishes(h) \/ LosesGrant(h) \/ Revoked(h) \/ Fails(h)
    BY <2>1, <2>2, <2>6 DEF Finishes, LosesGrant, Revoked, Fails, Outcomes
  <2>7. CASE \/ Ends(h) \/ ReplaySecond(h) \/ GivesUp(h) \/ Streams(h)
             \/ Answer(h) \/ AnswerTooLarge(h) \/ AnswerError(h) \/ Echoes(h) \/ Catalogs(h)
             \/ \E e \in Entities : Skips(h, e)
    BY <2>1, <2>7 DEF Ends, ReplaySecond, GivesUp, Streams, Answer, AnswerTooLarge, AnswerError,
       Echoes, Catalogs, Skips, Turn
  <2> QED BY <1>2, <2>4, <2>5, <2>6, <2>7 DEF Step
<1>3. ASSUME IInv, NEW g \in Handlers, Step(g), NEW h \in Handlers \ {g} PROVE task'[h] = task[h]
  <2>1. \/ \E t : task' = [task EXCEPT ![g] = t]
        \/ \E outcome \in Outcomes : Finish(g, outcome)
    BY <1>3, StepOnward DEF Onward
  <2> QED BY <1>3, <2>1 DEF Finish, Tell, IInv, TypeOK
<1>4. ASSUME IInv, NEW g \in Handlers, NEW h \in Streaming,
             \/ \E msg \in Msgs : Receive(g, msg)
             \/ \E e \in Entities : ReadOne(g, e)
             \/ ReadCatalog(g)
      PROVE  task'[h] = task[h]
  <2>1. task[g] = Idle /\ \E t : task' = [task EXCEPT ![g] = t] \/ task' = task
    BY <1>4 DEF Receive, Busy, Repeated, Replay, StartStream, ScopeTooLarge, ReadAll, Begin,
                ReadOne, ReadCatalog, Arrive, TellNothing, Tell
  <2>2. h # g /\ h \in Handlers
    BY <2>1 DEF Streaming
  <2> QED BY <1>4, <2>1, <2>2 DEF IInv, TypeOK
<1>5. ASSUME Overloaded \/ LinkBreaks \/ Regrant \/ UNCHANGED vars PROVE UNCHANGED task
  BY <1>5 DEF Overloaded, LinkBreaks, Regrant, vars
<1>6. Disconnected => ~up
  BY DEF Disconnected
<1>7. IInv /\ [Next]_vars => \A h \in Streaming : Ending(h) => Told(h)
  <2> SUFFICES ASSUME IInv, [Next]_vars, NEW h \in Streaming, Ending(h) PROVE Told(h)
    OBVIOUS
  <2>1. task'[h] # task[h] /\ h \in Handlers
    BY <1>1 DEF Streaming
  <2> HIDE DEF Told
  <2>2. ASSUME NEW g \in Handlers, Step(g) PROVE Told(h)
    BY <1>2, <1>3, <2>1, <2>2
  <2> QED BY <1>4, <1>5, <1>6, <2>1, <2>2 DEF Next
<1>8. IInv /\ [Next]_vars =>
        [\A h \in Streaming :
            (task[h].path = "snapshot" /\ h \notin Streaming' /\ up) =>
                \E r \in wire' : r.kind = "finished" /\ r.msg = task[h].msg
                                 /\ r.scope = task[h].scope]_vars
  BY <1>7
<1> QED BY <1>8, InitEstablishes, Inductive, PTL DEF Spec, BegunIsFinished
=============================================================================

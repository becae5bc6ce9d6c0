-------------------------- MODULE StateStreamProofs --------------------------
(* Proofs about StateStream for any entities, any limit of the backlog and *)
(* any number of events, broken links and changes of the grant.            *)
EXTENDS StateStream, TLAPS

------------------------------------------------------------------------------
(* Sequences of events, position by position.                              *)

LEMMA RemoveAtPositions ==
    ASSUME NEW S, NEW q \in Seq(S), NEW n \in 1..Len(q)
    PROVE  /\ RemoveAt(q, n) \in Seq(S)
           /\ Len(RemoveAt(q, n)) = Len(q) - 1
           /\ \A i \in 1..Len(RemoveAt(q, n)) :
                 RemoveAt(q, n)[i] = IF i < n THEN q[i] ELSE q[i + 1]
  <1> DEFINE before == SubSeq(q, 1, n - 1)
             behind == SubSeq(q, n + 1, Len(q))
  <1>1. /\ Len(q) \in Nat /\ n \in Nat /\ 1 <= n /\ n <= Len(q)
    OBVIOUS
  <1>2. /\ before \in Seq(S) /\ Len(before) = n - 1
        /\ \A i \in 1..(n - 1) : before[i] = q[i]
    BY <1>1
  <1>3. /\ behind \in Seq(S) /\ Len(behind) = Len(q) - n
        /\ \A i \in 1..(Len(q) - n) : behind[i] = q[n + i]
    BY <1>1
  <1>4. RemoveAt(q, n) = before \o behind
    BY DEF RemoveAt
  <1> HIDE DEF before, behind
  <1>5. /\ before \o behind \in Seq(S)
        /\ Len(before \o behind) = Len(before) + Len(behind)
        /\ \A i \in 1..(Len(before) + Len(behind)) :
              (before \o behind)[i] = IF i <= Len(before) THEN before[i]
                                      ELSE behind[i - Len(before)]
    <2>1. before \in Seq(S) /\ behind \in Seq(S)
      BY <1>2, <1>3
    <2>2. before \o behind \in Seq(S)
      BY ONLY <2>1
    <2>3. Len(before \o behind) = Len(before) + Len(behind)
      BY ONLY <2>1
    <2>4. \A i \in 1..(Len(before) + Len(behind)) :
              (before \o behind)[i] = IF i <= Len(before) THEN before[i]
                                      ELSE behind[i - Len(before)]
      BY ONLY <2>1
    <2>5. QED
      BY ONLY <2>2, <2>3, <2>4
  <1>6. ASSUME NEW i \in 1..(Len(q) - 1)
        PROVE  (before \o behind)[i] = IF i < n THEN q[i] ELSE q[i + 1]
    <2>1. CASE i < n
      BY <1>1, <1>2, <1>3, <1>5, <2>1
    <2>2. CASE ~(i < n)
      <3>1. /\ i - (n - 1) \in 1..(Len(q) - n) /\ n + (i - (n - 1)) = i + 1
            /\ i \in 1..(Len(before) + Len(behind)) /\ ~(i <= Len(before))
        BY <1>1, <1>2, <1>3, <2>2
      <3>2. QED
        BY <1>2, <1>3, <1>5, <2>2, <3>1
    <2>3. QED
      BY <2>1, <2>2
  <1>7. Len(before \o behind) = Len(q) - 1
    BY <1>1, <1>2, <1>3, <1>5
  <1>8. QED
    BY <1>4, <1>5, <1>6, <1>7

(* p holds events of q in the order of q.                                  *)
Thins(p, q) ==
    /\ Len(p) <= Len(q)
    /\ \A i \in 1..Len(p) : \E k \in 1..Len(q) : p[i] = q[k]
    /\ \A i, j \in 1..Len(p) : i < j =>
          \E k, l \in 1..Len(q) : k < l /\ p[i] = q[k] /\ p[j] = q[l]

(* Popping a key keeps the order, and every event of another key.          *)
LEMMA PopKeyThins ==
    ASSUME NEW S, NEW q \in Seq(S), NEW new
    PROVE  /\ PopKey(q, new) \in Seq(S)
           /\ Thins(PopKey(q, new), q)
           /\ \A k \in 1..Len(q) :
                 \/ SameKey(q[k], new)
                 \/ \E i \in 1..Len(PopKey(q, new)) : PopKey(q, new)[i] = q[k]
  <1>1. Len(q) \in Nat /\ DOMAIN q = 1..Len(q)
    OBVIOUS
  <1>2. CASE ~ \E i \in DOMAIN q : SameKey(q[i], new)
    BY <1>1, <1>2 DEF PopKey, Thins
  <1>3. CASE \E i \in DOMAIN q : SameKey(q[i], new)
    <2> DEFINE n == CHOOSE i \in DOMAIN q : SameKey(q[i], new)
               p == RemoveAt(q, n)
    <2>1. n \in 1..Len(q) /\ SameKey(q[n], new)
      BY <1>1, <1>3
    <2>2. PopKey(q, new) = p
      BY <1>3 DEF PopKey
    <2> HIDE DEF n
    <2>3. /\ p \in Seq(S) /\ Len(p) = Len(q) - 1
          /\ \A i \in 1..Len(p) : p[i] = IF i < n THEN q[i] ELSE q[i + 1]
      BY <2>1, RemoveAtPositions
    <2> HIDE DEF p
    <2>4. \A i \in 1..Len(p) : \E k \in 1..Len(q) : p[i] = q[k]
      <3>1. \A i \in 1..Len(p) : i \in 1..Len(q) /\ i + 1 \in 1..Len(q)
        BY <1>1, <2>3
      <3>2. QED
        BY <2>3, <3>1
    <2>5. ASSUME NEW i \in 1..Len(p), NEW j \in 1..Len(p), i < j
          PROVE  \E k, l \in 1..Len(q) : k < l /\ p[i] = q[k] /\ p[j] = q[l]
      <3> DEFINE k == IF i < n THEN i ELSE i + 1
                 l == IF j < n THEN j ELSE j + 1
      <3>1. k \in 1..Len(q) /\ l \in 1..Len(q) /\ k < l
        BY <1>1, <2>1, <2>3, <2>5
      <3>2. p[i] = q[k] /\ p[j] = q[l]
        BY <2>3
      <3>3. QED
        BY <3>1, <3>2
    <2>6. ASSUME NEW k \in 1..Len(q), ~SameKey(q[k], new)
          PROVE  \E i \in 1..Len(p) : p[i] = q[k]
      <3>1. k # n
        BY <2>1, <2>6
      <3>2. CASE k < n
        <4>1. k \in 1..Len(p) /\ p[k] = q[k]
          BY <1>1, <2>1, <2>3, <3>2
        <4>2. QED
          BY <4>1
      <3>3. CASE ~(k < n)
        <4>1. k - 1 \in 1..Len(p) /\ ~(k - 1 < n) /\ k - 1 + 1 = k
          BY <1>1, <2>1, <2>3, <3>1, <3>3
        <4>2. p[k - 1] = q[k]
          BY <2>3, <4>1
        <4>3. QED
          BY <4>1, <4>2
      <3>4. QED
        BY <3>2, <3>3
    <2>7. Len(p) <= Len(q)
      BY <1>1, <2>3
    <2>8. Thins(p, q)
      BY <2>4, <2>5, <2>7 DEF Thins
    <2>9. QED
      BY <2>2, <2>3, <2>6, <2>8
  <1>4. QED
    BY <1>2, <1>3

(* Trimming keeps the order, and the limit.                                *)
LEMMA TrimThins ==
    ASSUME NEW S, NEW q \in Seq(S), Len(q) <= MaxPending + 1
    PROVE  /\ Trim(q) \in Seq(S)
           /\ Thins(Trim(q), q)
           /\ Len(Trim(q)) <= MaxPending
  <1>1. Len(q) \in Nat /\ MaxPending \in Nat /\ MaxPending > 0
    BY BacklogBound
  <1>2. CASE Len(q) <= MaxPending
    BY <1>1, <1>2 DEF Trim, Thins
  <1>3. CASE Len(q) > MaxPending
    <2> DEFINE p == SubSeq(q, Len(q) - MaxPending + 1, Len(q))
               d == Len(q) - MaxPending
    <2>1. Trim(q) = p
      BY <1>3 DEF Trim
    <2>2. /\ p \in Seq(S) /\ Len(p) = MaxPending
          /\ \A i \in 1..MaxPending : p[i] = q[d + i]
      BY <1>1, <1>3
    <2> HIDE DEF p
    <2>3. \A i \in 1..MaxPending : d + i \in 1..Len(q)
      BY <1>1, <1>3
    <2>4. d \in Nat /\ Len(p) <= Len(q)
      BY <1>1, <1>3, <2>2
    <2> HIDE DEF d
    <2>5. ASSUME NEW i \in 1..Len(p), NEW j \in 1..Len(p), i < j
          PROVE  \E k, l \in 1..Len(q) : k < l /\ p[i] = q[k] /\ p[j] = q[l]
      <3>1. d + i < d + j /\ d + i \in 1..Len(q) /\ d + j \in 1..Len(q)
        <4>1. i \in 1..MaxPending /\ j \in 1..MaxPending
          BY <2>2
        <4>2. d + i < d + j
          BY <2>4, <2>5
        <4>3. QED
          BY <2>3, <4>1, <4>2
      <3>2. QED
        BY <2>2, <3>1
    <2>6. Thins(p, q)
      BY <2>2, <2>3, <2>4, <2>5 DEF Thins
    <2>7. QED
      BY <1>1, <2>1, <2>2, <2>6
  <1>4. QED
    BY <1>1, <1>2, <1>3

LEMMA AppendPositions ==
    ASSUME NEW S, NEW q \in Seq(S), NEW e \in S
    PROVE  /\ Append(q, e) \in Seq(S) /\ Len(q) \in Nat
           /\ Len(Append(q, e)) = Len(q) + 1
           /\ Append(q, e)[Len(q) + 1] = e
           /\ \A i \in 1..Len(q) : Append(q, e)[i] = q[i]
           /\ \A i \in 1..Len(Append(q, e)) : i = Len(q) + 1 \/ i \in 1..Len(q)
  OBVIOUS

LEMMA TailPositions ==
    ASSUME NEW S, NEW q \in Seq(S), q # <<>>
    PROVE  /\ Tail(q) \in Seq(S) /\ Len(q) \in Nat /\ Len(q) > 0
           /\ Head(q) = q[1] /\ Head(q) \in S
           /\ Len(Tail(q)) = Len(q) - 1
           /\ \A i \in 1..Len(Tail(q)) : i + 1 \in 1..Len(q) /\ Tail(q)[i] = q[i + 1]
           /\ \A k \in 1..Len(q) : k # 1 => k - 1 \in 1..Len(Tail(q))
                                            /\ Tail(q)[k - 1] = q[k]
  <1>1. /\ Tail(q) \in Seq(S) /\ Len(q) \in Nat /\ Len(q) > 0
        /\ Head(q) = q[1] /\ Head(q) \in S
        /\ Len(Tail(q)) = Len(q) - 1
        /\ \A i \in 1..Len(Tail(q)) : i + 1 \in 1..Len(q) /\ Tail(q)[i] = q[i + 1]
    OBVIOUS
  <1>2. ASSUME NEW k \in 1..Len(q), k # 1
        PROVE  k - 1 \in 1..Len(Tail(q)) /\ Tail(q)[k - 1] = q[k]
    <2>1. k - 1 \in 1..Len(Tail(q)) /\ (k - 1) + 1 = k
      BY <1>1, <1>2
    <2>2. QED
      BY <1>1, <2>1
  <1>3. QED
    BY <1>1, <1>2

(* Numbers of a sequence.                                                  *)
Has(s, k) == \E i \in 1..Len(s) : s[i].at = k

LEMMA NumbersHas ==
    ASSUME NEW S, NEW s \in Seq(S)
    PROVE  \A k : k \in Numbers(s) <=> Has(s, k)
  BY DEF Numbers, ToSet, Has

------------------------------------------------------------------------------
(* The event in the worker's hands, with the number of its connection.     *)
HandsInv ==
    taken \in Seq([event : Events, epoch : 0..(MaxBreaks + 1)]) /\ Len(taken) <= 1

(* Events are numbered by their arrival, and the backlog holds events that *)
(* arrived.                                                                *)
NumberInv ==
    /\ Len(arrived) <= MaxEvents
    /\ \A i \in 1..Len(arrived) : arrived[i].at = i
    /\ \A i \in 1..Len(queue) :
          queue[i].at <= Len(arrived) /\ queue[i] = arrived[queue[i].at]
    /\ \A i \in 1..Len(sent) : sent[i].at <= Len(arrived)
    /\ taken # <<>> => taken[1].event.at <= Len(arrived)

Increasing(s) == \A i, j \in 1..Len(s) : i < j => s[i].at < s[j].at

(* What was sent comes before what is prepared, and that before what waits.*)
OrderInv ==
    /\ Increasing(sent) /\ Increasing(queue)
    /\ \A i \in 1..Len(sent), j \in 1..Len(queue) : sent[i].at < queue[j].at
    /\ taken # <<>> => \A j \in 1..Len(queue) : taken[1].event.at < queue[j].at
    /\ worker = "preparing" => \A i \in 1..Len(sent) : sent[i].at < taken[1].event.at

(* Where event k is, unless the end of a stop has given it up.             *)
Kept(k) ==
    \/ worker = "cancelled"
    \/ k \in lost \/ k \in withdrawn \/ Has(sent, k) \/ Has(queue, k)
    \/ worker = "preparing" /\ taken[1].event.at = k
    \/ \E j \in 1..Len(arrived) : k < j /\ SameKey(arrived[k], arrived[j])

KeptInv ==
    /\ \A k \in 1..Len(arrived) : Kept(k)
    /\ worker = "publishing" => Has(sent, taken[1].event.at)

StreamInv == TypeOK /\ HandsInv /\ NumberInv /\ OrderInv /\ KeptInv

LEMMA InitStream == Init => StreamInv
  <1> SUFFICES ASSUME Init PROVE StreamInv
    OBVIOUS
  <1>1. Len(queue) = 0 /\ Len(arrived) = 0 /\ Len(sent) = 0 /\ Len(taken) = 0
    BY DEF Init
  <1>2. TypeOK
    <2>1. {queue, arrived, sent} \subseteq Seq(Events)
      BY DEF Init
    <2>2. Len(queue) <= MaxPending
      BY <1>1, BacklogBound
    <2>3. reading \in [Entities -> 0..MaxEvents]
      BY StreamBounds DEF Init
    <2>4. epoch \in 0..(MaxBreaks + 1) /\ regrants \in 0..MaxRegrants
      BY StreamBounds DEF Init
    <2>5. /\ (taken # <<>>) = (worker \in {"preparing", "publishing"})
          /\ worker \in {"off", "looping", "preparing", "publishing", "cancelled"}
      BY DEF Init
    <2>6. /\ {up, listening} \subseteq BOOLEAN /\ lost \cup withdrawn \subseteq 1..MaxEvents
          /\ conn \in {"off", "ready", "served"} /\ granted \subseteq Entities
      BY DEF Init
    <2>7. QED
      BY <2>1, <2>2, <2>3, <2>4, <2>5, <2>6 DEF TypeOK
  <1>3. HandsInv
    BY <1>1 DEF Init, HandsInv
  <1>4. NumberInv /\ OrderInv /\ KeptInv
    BY <1>1, StreamBounds DEF Init, NumberInv, OrderInv, KeptInv, Increasing
  <1>5. QED
    BY <1>2, <1>3, <1>4 DEF StreamInv

(* Events have numbers.                                                    *)
LEMMA EventNumbers ==
    ASSUME TypeOK, HandsInv
    PROVE  /\ \A i \in 1..Len(queue) : queue[i] \in Events /\ queue[i].at \in Nat
           /\ \A i \in 1..Len(sent) : sent[i] \in Events /\ sent[i].at \in Nat
           /\ \A i \in 1..Len(arrived) : arrived[i] \in Events /\ arrived[i].at \in Nat
           /\ taken # <<>> => /\ taken[1].event \in Events
                              /\ taken[1].event.at \in 1..MaxEvents
  <1>1. \A e \in Events : e.at \in 1..MaxEvents /\ e.at \in Nat
    BY StreamBounds DEF Events
  <1>2. taken # <<>> => taken[1] \in [event : Events, epoch : 0..(MaxBreaks + 1)]
    <2> DEFINE T == [event : Events, epoch : 0..(MaxBreaks + 1)]
    <2>1. taken \in Seq(T)
      BY DEF HandsInv
    <2> HIDE DEF T
    <2>2. taken # <<>> => 1 \in 1..Len(taken)
      BY <2>1
    <2>3. taken # <<>> => taken[1] \in T
      BY <2>1, <2>2
    <2>4. QED
      BY <2>3 DEF T
  <1>3. queue \in Seq(Events) /\ sent \in Seq(Events) /\ arrived \in Seq(Events)
    BY DEF TypeOK
  <1>4. QED
    BY <1>1, <1>2, <1>3

(* An accepted event: at the end of the backlog, which may be trimmed.     *)
LEMMA AcceptKeeps ==
    ASSUME StreamInv, NEW event \in Events, Accept(event),
           event.at = NextNumber, Len(arrived) < MaxEvents,
           reading' \in [Entities -> 0..MaxEvents]
    PROVE  StreamInv'
  <1> DEFINE popped == PopKey(queue, event)
             longer == Enqueue(queue, event)
  <1>1. /\ queue \in Seq(Events) /\ arrived \in Seq(Events) /\ Len(queue) \in Nat
        /\ Len(arrived) \in Nat /\ Len(queue) <= MaxPending
        /\ event.at = Len(arrived) + 1 /\ MaxPending \in Nat
    BY BacklogBound DEF StreamInv, TypeOK, NextNumber
  <1>2. /\ arrived' = Append(arrived, event) /\ queue' = Trim(longer)
        /\ lost' = lost \cup (Numbers(longer) \ Numbers(Trim(longer)))
        /\ UNCHANGED <<taken, withdrawn, sent, link, granted, listening, regrants>>
        /\ worker' = IF queue' # <<>> /\ Ready /\ worker = "off"
                     THEN "looping" ELSE worker
    BY DEF Accept, StartWorker
  <1>3. /\ arrived' \in Seq(Events) /\ Len(arrived') = Len(arrived) + 1
        /\ arrived'[Len(arrived) + 1] = event
        /\ \A i \in 1..Len(arrived) : arrived'[i] = arrived[i]
        /\ \A i \in 1..Len(arrived') : i = Len(arrived) + 1 \/ i \in 1..Len(arrived)
    BY <1>1, <1>2, AppendPositions
  <1>4. /\ popped \in Seq(Events) /\ Thins(popped, queue)
        /\ \A k \in 1..Len(queue) : \/ SameKey(queue[k], event)
                                    \/ \E i \in 1..Len(popped) : popped[i] = queue[k]
    <2>1. queue \in Seq(Events)
      BY <1>1
    <2> HIDE DEF popped
    <2>2. PopKey(queue, event) = popped
      BY DEF popped
    <2>3. QED
      BY <2>1, <2>2, PopKeyThins
  <1>5. longer = Append(popped, event)
    BY DEF Enqueue
  <1> HIDE DEF popped, longer
  <1>6. /\ longer \in Seq(Events) /\ Len(longer) = Len(popped) + 1 /\ Len(popped) \in Nat
        /\ longer[Len(popped) + 1] = event
        /\ \A i \in 1..Len(popped) : longer[i] = popped[i]
        /\ \A i \in 1..Len(longer) : i = Len(popped) + 1 \/ i \in 1..Len(popped)
    BY <1>4, <1>5, AppendPositions
  <1>7. Len(longer) <= MaxPending + 1
    BY <1>1, <1>4, <1>6 DEF Thins
  <1>8. queue' \in Seq(Events) /\ Thins(queue', longer) /\ Len(queue') <= MaxPending
    BY <1>2, <1>6, <1>7, TrimThins
  <1>9. /\ \A i \in 1..Len(queue) : queue[i] \in Events /\ queue[i].at \in Nat
        /\ \A i \in 1..Len(sent) : sent[i] \in Events /\ sent[i].at \in Nat
        /\ \A i \in 1..Len(arrived) : arrived[i] \in Events /\ arrived[i].at \in Nat
        /\ taken # <<>> => /\ taken[1].event \in Events
                           /\ taken[1].event.at \in 1..MaxEvents
    BY EventNumbers DEF StreamInv
  \* what the longer backlog holds
  <1>10. ASSUME NEW i \in 1..Len(longer)
         PROVE  longer[i] = event \/ \E k \in 1..Len(queue) : longer[i] = queue[k]
    <2>1. CASE i = Len(popped) + 1
      BY <1>6, <2>1
    <2>2. CASE i \in 1..Len(popped)
      <3>1. \E k \in 1..Len(queue) : popped[i] = queue[k]
        BY <1>4, <2>2 DEF Thins
      <3>2. QED
        BY <1>6, <2>2, <3>1
    <2>3. QED
      BY <1>6, <2>1, <2>2
  <1>11. Increasing(longer)
    <2>1. ASSUME NEW i \in 1..Len(longer), NEW j \in 1..Len(longer), i < j
          PROVE  longer[i].at < longer[j].at
      <3>1. i \in 1..Len(popped) /\ longer[i] = popped[i]
        BY <1>6, <2>1
      <3>2. CASE j = Len(popped) + 1
        <4>1. PICK k \in 1..Len(queue) : popped[i] = queue[k]
          BY <1>4, <3>1 DEF Thins
        <4>2. queue[k].at <= Len(arrived)
          BY DEF StreamInv, NumberInv
        <4>3. QED
          BY <1>1, <1>6, <1>9, <3>1, <3>2, <4>1, <4>2
      <3>3. CASE j \in 1..Len(popped)
        <4>1. PICK k \in 1..Len(queue), l \in 1..Len(queue) :
                  k < l /\ popped[i] = queue[k] /\ popped[j] = queue[l]
          BY <1>4, <2>1, <3>1, <3>3 DEF Thins
        <4>2. queue[k].at < queue[l].at
          BY <4>1 DEF StreamInv, OrderInv, Increasing
        <4>3. QED
          BY <1>6, <3>1, <3>3, <4>1, <4>2
      <3>4. QED
        BY <1>6, <3>2, <3>3
    <2>2. QED
      BY <2>1 DEF Increasing
  <1>12. \A i \in 1..Len(queue') :
             queue'[i] = event \/ \E k \in 1..Len(queue) : queue'[i] = queue[k]
    <2>1. \A i \in 1..Len(queue') : \E n \in 1..Len(longer) : queue'[i] = longer[n]
      BY <1>8 DEF Thins
    <2>2. QED
      BY <1>10, <2>1
  <1>13. Increasing(queue')
    BY <1>8, <1>11 DEF Thins, Increasing
  <1>14. TypeOK'
    <2>1. lost' \cup withdrawn' \subseteq 1..MaxEvents
      <3>1. \A e \in Events : e.at \in 1..MaxEvents
        BY DEF Events
      <3>2. \A e \in ToSet(longer) : e \in Events
        BY <1>6 DEF ToSet
      <3>3. Numbers(longer) \subseteq 1..MaxEvents
        BY <3>1, <3>2 DEF Numbers
      <3>4. QED
        BY <1>2, <3>3 DEF StreamInv, TypeOK
    <2>2. /\ worker' \in {"off", "looping", "preparing", "publishing", "cancelled"}
          /\ (taken' # <<>>) = (worker' \in {"preparing", "publishing"})
      BY <1>2 DEF StreamInv, TypeOK
    <2>3. QED
      BY <1>2, <1>3, <1>8, <2>1, <2>2 DEF StreamInv, TypeOK, link
  <1>15. HandsInv'
    BY <1>2 DEF StreamInv, HandsInv
  <1>16. NumberInv'
    <2>1. ASSUME NEW i \in 1..Len(queue')
          PROVE  queue'[i].at <= Len(arrived') /\ queue'[i] = arrived'[queue'[i].at]
      <3>1. CASE queue'[i] = event
        BY <1>1, <1>3, <3>1
      <3>2. CASE \E k \in 1..Len(queue) : queue'[i] = queue[k]
        <4>1. PICK k \in 1..Len(queue) : queue'[i] = queue[k]
          BY <3>2
        <4>2. /\ queue[k].at <= Len(arrived) /\ queue[k] = arrived[queue[k].at]
              /\ queue[k].at \in 1..MaxEvents
          BY <1>9 DEF StreamInv, NumberInv, Events
        <4>3. queue[k].at \in 1..Len(arrived)
          BY <1>1, <4>2
        <4>4. QED
          BY <1>1, <1>3, <4>1, <4>2, <4>3
      <3>3. QED
        BY <1>12, <3>1, <3>2
    <2>2. \A i \in 1..Len(arrived') : arrived'[i].at = i
      BY <1>1, <1>3 DEF StreamInv, NumberInv
    <2>3. Len(arrived') <= MaxEvents
      BY <1>1, <1>3, StreamBounds
    <2>4. \A i \in 1..Len(sent) : sent[i].at <= Len(arrived')
      BY <1>1, <1>3, <1>9 DEF StreamInv, NumberInv
    <2>5. taken # <<>> => taken[1].event.at <= Len(arrived')
      BY <1>1, <1>3, <1>9 DEF StreamInv, NumberInv
    <2>6. QED
      BY <1>2, <2>1, <2>2, <2>3, <2>4, <2>5 DEF NumberInv
  <1>17. OrderInv'
    <2>1. ASSUME NEW i \in 1..Len(sent), NEW j \in 1..Len(queue')
          PROVE  sent[i].at < queue'[j].at
      <3>1. sent[i].at <= Len(arrived)
        BY DEF StreamInv, NumberInv
      <3>2. sent[i].at < event.at
        BY <1>1, <1>9, <3>1
      <3>3. QED
        BY <1>12, <3>2 DEF StreamInv, OrderInv
    <2>2. ASSUME taken # <<>>, NEW j \in 1..Len(queue')
          PROVE  taken[1].event.at < queue'[j].at
      <3>1. taken[1].event.at <= Len(arrived)
        BY <2>2 DEF StreamInv, NumberInv
      <3>2. taken[1].event.at < event.at
        BY <1>1, <1>9, <2>2, <3>1
      <3>3. QED
        BY <1>12, <2>2, <3>2 DEF StreamInv, OrderInv
    <2>3. worker' = "preparing" => worker = "preparing"
      BY <1>2
    <2>4. QED
      BY <1>2, <1>13, <2>1, <2>2, <2>3 DEF StreamInv, OrderInv
  <1>18. KeptInv'
    <2>1. ASSUME NEW k, Has(longer, k) PROVE k \in lost' \/ Has(queue', k)
      <3>1. k \in Numbers(longer)
        BY <1>6, <2>1, NumbersHas
      <3>2. k \in lost' \/ k \in Numbers(queue')
        BY <1>2, <3>1
      <3>3. QED
        BY <1>8, <3>2, NumbersHas
    <2>2. ASSUME NEW k \in 1..Len(arrived), Has(queue, k) PROVE Kept(k)'
      <3>1. PICK i \in 1..Len(queue) : queue[i].at = k
        BY <2>2 DEF Has
      <3>2. queue[i] = arrived[k]
        BY <3>1 DEF StreamInv, NumberInv
      <3>3. CASE SameKey(queue[i], event)
        <4>1. /\ Len(arrived) + 1 \in 1..Len(arrived') /\ k < Len(arrived) + 1
              /\ SameKey(arrived'[k], arrived'[Len(arrived) + 1])
          BY <1>1, <1>3, <3>2, <3>3
        <4>2. QED
          BY <4>1 DEF Kept, SameKey, OwnKey
      <3>4. CASE \E n \in 1..Len(popped) : popped[n] = queue[i]
        <4>1. PICK n \in 1..Len(popped) : popped[n] = queue[i]
          BY <3>4
        <4>2. n \in 1..Len(longer) /\ longer[n].at = k
          BY <1>6, <3>1, <4>1
        <4>3. QED
          BY <2>1, <4>2 DEF Has, Kept
      <3>5. QED
        BY <1>4, <3>3, <3>4
    <2>3. ASSUME NEW k \in 1..Len(arrived) PROVE Kept(k)'
      <3>1. Kept(k)
        BY DEF StreamInv, KeptInv
      <3>2. CASE worker = "cancelled" \/ k \in lost \/ k \in withdrawn \/ Has(sent, k)
        BY <1>2, <3>2 DEF Kept, Has
      <3>3. CASE Has(queue, k)
        BY <2>2, <3>3
      <3>4. CASE worker = "preparing" /\ taken[1].event.at = k
        BY <1>2, <3>4 DEF Kept
      <3>5. CASE \E j \in 1..Len(arrived) : k < j /\ SameKey(arrived[k], arrived[j])
        <4>1. PICK j \in 1..Len(arrived) : k < j /\ SameKey(arrived[k], arrived[j])
          BY <3>5
        <4>2. j \in 1..Len(arrived') /\ SameKey(arrived'[k], arrived'[j])
          BY <1>1, <1>3, <4>1
        <4>3. QED
          BY <4>1, <4>2 DEF Kept, SameKey, OwnKey
      <3>6. QED
        BY <3>1, <3>2, <3>3, <3>4, <3>5 DEF Kept
    <2>4. ASSUME NEW k, k = Len(arrived) + 1 PROVE Kept(k)'
      <3>1. Len(popped) + 1 \in 1..Len(longer) /\ longer[Len(popped) + 1].at = Len(arrived) + 1
        BY <1>1, <1>6
      <3>2. Has(longer, Len(arrived) + 1)
        BY <3>1 DEF Has
      <3>3. Len(arrived) + 1 \in lost' \/ Has(queue', Len(arrived) + 1)
        BY <2>1, <3>2
      <3>4. QED
        BY <2>4, <3>3 DEF Kept, Has
    <2>5. worker' = "publishing" => worker = "publishing"
      BY <1>2
    <2>6. \A k \in 1..Len(arrived') : Kept(k)'
      BY <1>3, <2>3, <2>4
    <2>7. QED
      BY <1>2, <2>5, <2>6 DEF StreamInv, KeptInv, Has
  <1>19. QED
    BY <1>14, <1>15, <1>16, <1>17, <1>18 DEF StreamInv

------------------------------------------------------------------------------
(* A step that moves no event.                                             *)
LEMMA QuietKeeps ==
    ASSUME StreamInv, TypeOK', UNCHANGED <<arrived, queue, taken, lost, withdrawn, sent>>,
           worker' = worker \/ {worker, worker'} \subseteq {"off", "looping"}
    PROVE  StreamInv'
  <1>1. worker' \in {"preparing", "publishing"} => worker' = worker
    OBVIOUS
  <1>2. /\ worker = "preparing" => worker' = "preparing"
        /\ worker = "cancelled" => worker' = "cancelled"
    OBVIOUS
  <1>3. HandsInv' /\ NumberInv'
    BY DEF StreamInv, HandsInv, NumberInv
  <1>4. OrderInv'
    BY <1>1 DEF StreamInv, OrderInv, Increasing
  <1>5. KeptInv'
    BY <1>1, <1>2 DEF StreamInv, KeptInv, Kept, Has, SameKey, OwnKey
  <1>6. QED
    BY <1>3, <1>4, <1>5 DEF StreamInv

(* The first event of the backlog is taken, or discarded with its grant.   *)
LEMMA TakeKeeps ==
    ASSUME StreamInv, Take
    PROVE  StreamInv'
  <1> DEFINE first == queue[1]
  <1>1. /\ worker = "looping" /\ queue # <<>> /\ taken = <<>>
        /\ queue \in Seq(Events)
        /\ UNCHANGED <<arrived, reading, lost, sent, link, granted, listening, regrants>>
    BY DEF Take, StreamInv, TypeOK
  <1>2. /\ Head(queue) = first /\ first \in Events /\ queue' = Tail(queue)
        /\ queue' \in Seq(Events) /\ Len(queue') = Len(queue) - 1
        /\ Len(queue) \in Nat /\ Len(queue) > 0
        /\ \A i \in 1..Len(queue') : i + 1 \in 1..Len(queue) /\ queue'[i] = queue[i + 1]
        /\ \A k \in 1..Len(queue) : k # 1 => k - 1 \in 1..Len(queue')
                                             /\ queue'[k - 1] = queue[k]
    BY <1>1, TailPositions DEF Take
  <1>3. first.at \in 1..MaxEvents
    BY <1>2 DEF Events
  <1>4. \/ /\ taken' = <<[event |-> first, epoch |-> epoch]>>
           /\ worker' = "preparing" /\ withdrawn' = withdrawn
        \/ /\ withdrawn' = withdrawn \cup {first.at}
           /\ taken' = <<>> /\ worker' = "looping"
    BY <1>1, <1>2 DEF Take
  <1> HIDE DEF first
  <1>5. taken' # <<>> => taken'[1].event = first
    BY <1>4
  <1>6. TypeOK'
    <2>1. Len(queue') <= MaxPending
      BY <1>2, BacklogBound DEF StreamInv, TypeOK
    <2>2. lost' \cup withdrawn' \subseteq 1..MaxEvents
      BY <1>1, <1>3, <1>4 DEF StreamInv, TypeOK
    <2>3. /\ worker' \in {"off", "looping", "preparing", "publishing", "cancelled"}
          /\ (taken' # <<>>) = (worker' \in {"preparing", "publishing"})
      BY <1>4
    <2>4. QED
      BY <1>1, <1>2, <2>1, <2>2, <2>3 DEF StreamInv, TypeOK, link
  <1>7. HandsInv'
    <2>1. [event |-> first, epoch |-> epoch] \in [event : Events, epoch : 0..(MaxBreaks + 1)]
      BY <1>2 DEF StreamInv, TypeOK, first
    <2> DEFINE T == [event : Events, epoch : 0..(MaxBreaks + 1)]
               r == [event |-> first, epoch |-> epoch]
    <2>2. r \in T
      BY <2>1
    <2>3. taken' = <<>> \/ taken' = <<r>>
      BY <1>4
    <2> HIDE DEF T, r
    <2>4. taken' \in Seq(T) /\ Len(taken') <= 1
      <3>1. <<r>> \in Seq(T) /\ Len(<<r>>) = 1
        BY <2>2
      <3>2. <<>> \in Seq(T) /\ Len(<<>>) = 0
        OBVIOUS
      <3>3. CASE taken' = <<>>
        BY <3>2, <3>3
      <3>4. CASE taken' = <<r>>
        BY <3>1, <3>4
      <3>5. QED
        BY <2>3, <3>3, <3>4
    <2>5. QED
      BY <2>4 DEF HandsInv, T
  <1>8. NumberInv'
    <2>1. first.at <= Len(arrived)
      BY <1>2 DEF StreamInv, NumberInv, first
    <2>2. \A i \in 1..Len(queue') :
              queue'[i].at <= Len(arrived) /\ queue'[i] = arrived[queue'[i].at]
      BY <1>2 DEF StreamInv, NumberInv
    <2>3. QED
      BY <1>1, <1>5, <2>1, <2>2 DEF StreamInv, NumberInv
  <1>9. OrderInv'
    <2>1. ASSUME NEW j \in 1..Len(queue') PROVE first.at < queue'[j].at
      <3>1. /\ 1 \in 1..Len(queue) /\ j + 1 \in 1..Len(queue) /\ 1 < j + 1
            /\ queue'[j] = queue[j + 1]
        BY <1>2
      <3>2. QED
        BY <3>1 DEF StreamInv, OrderInv, Increasing, first
    <2>2. Increasing(queue')
      <3>1. ASSUME NEW i \in 1..Len(queue'), NEW j \in 1..Len(queue'), i < j
            PROVE  queue'[i].at < queue'[j].at
        <4>1. /\ i + 1 \in 1..Len(queue) /\ j + 1 \in 1..Len(queue) /\ i + 1 < j + 1
              /\ queue'[i] = queue[i + 1] /\ queue'[j] = queue[j + 1]
          BY <1>2, <3>1
        <4>2. QED
          BY <4>1 DEF StreamInv, OrderInv, Increasing
      <3>2. QED
        BY <3>1 DEF Increasing
    <2>3. ASSUME NEW i \in 1..Len(sent), NEW j \in 1..Len(queue')
          PROVE  sent[i].at < queue'[j].at
      BY <1>2 DEF StreamInv, OrderInv
    <2>4. \A i \in 1..Len(sent) : sent[i].at < first.at
      <3>1. 1 \in 1..Len(queue)
        BY <1>2
      <3>2. QED
        BY <3>1 DEF StreamInv, OrderInv, first
    <2>5. worker' = "preparing" => taken' # <<>>
      BY <1>4
    <2>6. Increasing(sent)'
      BY <1>1 DEF StreamInv, OrderInv, Increasing
    <2>7. QED
      BY <1>1, <1>5, <2>1, <2>2, <2>3, <2>4, <2>5, <2>6 DEF OrderInv
  <1>10. KeptInv'
    <2>1. ASSUME NEW k \in 1..Len(arrived) PROVE Kept(k)'
      <3>1. Kept(k)
        BY DEF StreamInv, KeptInv
      <3>2. CASE k \in lost \/ k \in withdrawn \/ Has(sent, k)
        BY <1>1, <1>4, <3>2 DEF Kept, Has
      <3>3. CASE Has(queue, k)
        <4>1. PICK i \in 1..Len(queue) : queue[i].at = k
          BY <3>3 DEF Has
        <4>2. CASE i = 1
          <5>1. first.at = k
            BY <4>1, <4>2 DEF first
          <5>2. k \in withdrawn' \/ (worker' = "preparing" /\ taken'[1].event.at = k)
            BY <1>4, <1>5, <5>1
          <5>3. QED
            BY <5>2 DEF Kept
        <4>3. CASE i # 1
          <5>1. i - 1 \in 1..Len(queue') /\ queue'[i - 1].at = k
            BY <1>2, <4>1, <4>3
          <5>2. QED
            BY <5>1 DEF Kept, Has
        <4>4. QED
          BY <4>2, <4>3
      <3>4. CASE \E j \in 1..Len(arrived) : k < j /\ SameKey(arrived[k], arrived[j])
        BY <1>1, <3>4 DEF Kept, SameKey, OwnKey
      <3>5. QED
        BY <1>1, <3>1, <3>2, <3>3, <3>4 DEF Kept
    <2>2. worker' # "publishing"
      BY <1>4
    <2>3. QED
      BY <1>1, <2>1, <2>2 DEF KeptInv
  <1>11. QED
    BY <1>6, <1>7, <1>8, <1>9, <1>10 DEF StreamInv

(* The prepared event is handed to the broker.                             *)
LEMMA PublishKeeps ==
    ASSUME StreamInv, Publish
    PROVE  StreamInv'
  <1> DEFINE event == taken[1].event
  <1>1. /\ worker = "preparing" /\ worker' = "publishing" /\ taken # <<>>
        /\ sent' = Append(sent, event) /\ sent \in Seq(Events)
        /\ UNCHANGED <<arrived, reading, queue, taken, lost, withdrawn, link, granted,
                       listening, regrants>>
    BY DEF Publish, StreamInv, TypeOK
  <1>2. event \in Events /\ event.at \in 1..MaxEvents
        /\ \A i \in 1..Len(sent) : sent[i].at \in Nat
    BY <1>1, EventNumbers DEF StreamInv
  <1> HIDE DEF event
  <1>3. /\ sent' \in Seq(Events) /\ Len(sent) \in Nat /\ Len(sent') = Len(sent) + 1
        /\ sent'[Len(sent) + 1] = event
        /\ \A i \in 1..Len(sent) : sent'[i] = sent[i]
        /\ \A i \in 1..Len(sent') : i = Len(sent) + 1 \/ i \in 1..Len(sent)
    BY <1>1, <1>2, AppendPositions
  <1>4. TypeOK'
    <2>1. /\ worker' \in {"off", "looping", "preparing", "publishing", "cancelled"}
          /\ (taken' # <<>>) = (worker' \in {"preparing", "publishing"})
      BY <1>1
    <2>2. QED
      BY <1>1, <1>3, <2>1 DEF StreamInv, TypeOK, link
  <1>5. HandsInv'
    BY <1>1 DEF StreamInv, HandsInv
  <1>6. event.at <= Len(arrived)
    BY <1>1 DEF StreamInv, NumberInv, event
  <1>7. NumberInv'
    BY <1>1, <1>3, <1>6 DEF StreamInv, NumberInv
  <1>8. /\ \A i \in 1..Len(sent) : sent[i].at < event.at
        /\ \A j \in 1..Len(queue) : event.at < queue[j].at
    BY <1>1 DEF StreamInv, OrderInv, event
  <1>9. OrderInv'
    <2>1. ASSUME NEW i \in 1..Len(sent'), NEW j \in 1..Len(sent'), i < j
          PROVE  sent'[i].at < sent'[j].at
      <3>1. i \in 1..Len(sent) /\ sent'[i] = sent[i]
        BY <1>3, <2>1
      <3>2. CASE j = Len(sent) + 1
        BY <1>3, <1>8, <3>1, <3>2
      <3>3. CASE j \in 1..Len(sent)
        BY <1>3, <2>1, <3>1, <3>3 DEF StreamInv, OrderInv, Increasing
      <3>4. QED
        BY <1>3, <3>2, <3>3
    <2>2. \A i \in 1..Len(sent'), j \in 1..Len(queue) : sent'[i].at < queue[j].at
      BY <1>3, <1>8 DEF StreamInv, OrderInv
    <2>3. Increasing(sent)' /\ Increasing(queue)'
      BY <1>1, <2>1 DEF StreamInv, OrderInv, Increasing
    <2>4. QED
      BY <1>1, <2>2, <2>3 DEF StreamInv, OrderInv
  <1>10. Has(sent, event.at)'
    <2>1. Len(sent) + 1 \in 1..Len(sent')
      BY <1>3
    <2>2. event' = event
      BY <1>1 DEF event
    <2>3. QED
      BY <1>3, <2>1, <2>2 DEF Has
  <1>11. ASSUME NEW k, Has(sent, k) PROVE Has(sent', k)
    BY <1>3, <1>11 DEF Has
  <1>12. KeptInv'
    <2>1. ASSUME NEW k \in 1..Len(arrived) PROVE Kept(k)'
      <3>1. Kept(k)
        BY DEF StreamInv, KeptInv
      <3>2. CASE worker = "preparing" /\ taken[1].event.at = k
        <4>1. event.at = k /\ event'.at = k
          BY <1>1, <3>2 DEF event
        <4>2. QED
          BY <1>10, <4>1 DEF Kept, Has
      <3>3. CASE Has(sent, k)
        BY <1>11, <3>3 DEF Kept, Has
      <3>4. CASE k \in lost \/ k \in withdrawn \/ Has(queue, k)
        BY <1>1, <3>4 DEF Kept, Has
      <3>5. CASE \E j \in 1..Len(arrived) : k < j /\ SameKey(arrived[k], arrived[j])
        BY <1>1, <3>5 DEF Kept, SameKey, OwnKey
      <3>6. QED
        BY <1>1, <3>1, <3>2, <3>3, <3>4, <3>5 DEF Kept
    <2>2. Has(sent, taken[1].event.at)'
      BY <1>10 DEF event
    <2>3. QED
      BY <1>1, <2>1, <2>2 DEF KeptInv
  <1>13. QED
    BY <1>4, <1>5, <1>7, <1>9, <1>12 DEF StreamInv

(* The event leaves the worker's hands: sent, or counted as lost.          *)
LEMMA DoneKeeps ==
    ASSUME StreamInv, PublishFails \/ Acknowledged
    PROVE  StreamInv'
  <1>1. /\ worker \in {"preparing", "publishing"} /\ taken # <<>>
        /\ taken' = <<>> /\ worker' = "looping"
        /\ UNCHANGED <<arrived, reading, queue, withdrawn, sent, link, granted, listening,
                       regrants>>
        /\ \/ lost' = lost \cup {taken[1].event.at}
           \/ lost' = lost /\ worker = "publishing"
    BY DEF PublishFails, Acknowledged, StreamInv, TypeOK
  <1>2. taken[1].event.at \in 1..MaxEvents
    BY <1>1, EventNumbers DEF StreamInv
  <1>3. TypeOK'
    <2>1. lost' \cup withdrawn' \subseteq 1..MaxEvents
      BY <1>1, <1>2 DEF StreamInv, TypeOK
    <2>2. /\ worker' \in {"off", "looping", "preparing", "publishing", "cancelled"}
          /\ (taken' # <<>>) = (worker' \in {"preparing", "publishing"})
      BY <1>1
    <2>3. QED
      BY <1>1, <2>1, <2>2 DEF StreamInv, TypeOK, link
  <1>4. HandsInv'
    BY <1>1 DEF HandsInv
  <1>5. NumberInv'
    BY <1>1 DEF StreamInv, NumberInv
  <1>6. OrderInv'
    BY <1>1 DEF StreamInv, OrderInv, Increasing
  <1>7. KeptInv'
    <2>1. ASSUME NEW k \in 1..Len(arrived) PROVE Kept(k)'
      <3>1. Kept(k)
        BY DEF StreamInv, KeptInv
      <3>2. CASE worker = "preparing" /\ taken[1].event.at = k
        BY <1>1, <3>2 DEF Kept
      <3>3. CASE k \in lost \/ k \in withdrawn \/ Has(sent, k) \/ Has(queue, k)
        BY <1>1, <3>3 DEF Kept, Has
      <3>4. CASE \E j \in 1..Len(arrived) : k < j /\ SameKey(arrived[k], arrived[j])
        BY <1>1, <3>4 DEF Kept, SameKey, OwnKey
      <3>5. QED
        BY <1>1, <3>1, <3>2, <3>3, <3>4 DEF Kept
    <2>2. QED
      BY <1>1, <2>1 DEF KeptInv
  <1>8. QED
    BY <1>3, <1>4, <1>5, <1>6, <1>7 DEF StreamInv

(* The end of a stop gives up what waits and what is in hand.              *)
LEMMA StopKeeps ==
    ASSUME StreamInv, StopCompletes
    PROVE  StreamInv'
  <1>1. /\ queue' = <<>> /\ worker' = "cancelled" /\ taken' = <<>>
        /\ conn' = "off" /\ up' = FALSE
        /\ UNCHANGED <<arrived, reading, lost, withdrawn, sent, epoch, granted, listening,
                       regrants>>
    BY DEF StopCompletes, Life!StopCompletes
  <1>2. TypeOK'
    <2>1. /\ worker' \in {"off", "looping", "preparing", "publishing", "cancelled"}
          /\ (taken' # <<>>) = (worker' \in {"preparing", "publishing"})
      BY <1>1
    <2>2. queue' \in Seq(Events) /\ Len(queue') <= MaxPending
      BY <1>1, BacklogBound
    <2>3. {up, listening}' \subseteq BOOLEAN /\ conn' \in {"off", "ready", "served"}
      BY <1>1 DEF StreamInv, TypeOK
    <2>4. QED
      BY <1>1, <2>1, <2>2, <2>3 DEF StreamInv, TypeOK
  <1>3. HandsInv'
    BY <1>1 DEF HandsInv
  <1>4. Len(queue') = 0
    BY <1>1
  <1>5. NumberInv'
    BY <1>1, <1>4 DEF StreamInv, NumberInv
  <1>6. OrderInv'
    BY <1>1, <1>4 DEF StreamInv, OrderInv, Increasing
  <1>7. KeptInv'
    BY <1>1 DEF KeptInv, Kept
  <1>8. QED
    BY <1>2, <1>3, <1>5, <1>6, <1>7 DEF StreamInv

(* Every step keeps the stream.                                            *)
LEMMA StepStream == StreamInv /\ [Next]_vars => StreamInv'
  <1> SUFFICES ASSUME StreamInv, [Next]_vars PROVE StreamInv'
    OBVIOUS
  <1> USE DEF backlog, link
  <1>t. TypeOK
    BY DEF StreamInv
  <1>n. Len(arrived) \in Nat
    BY <1>t DEF TypeOK
  <1>1. ASSUME NEW e \in Entities, StateChanges(e) PROVE StreamInv'
    <2> DEFINE event == [entity |-> e, reading |-> NextNumber, kind |-> "state",
                         at |-> NextNumber]
    <2>1. Len(arrived) < MaxEvents /\ Accept(event)
          /\ reading' = [reading EXCEPT ![e] = NextNumber]
      BY <1>1 DEF StateChanges
    <2>2. NextNumber \in 1..MaxEvents /\ NextNumber \in 0..MaxEvents
      BY <1>n, <2>1, StreamBounds DEF NextNumber
    <2>3. event \in Events
      BY <2>2 DEF Events, Kinds
    <2>4. reading' \in [Entities -> 0..MaxEvents]
      BY <1>t, <2>1, <2>2 DEF TypeOK
    <2>5. event.at = NextNumber
      OBVIOUS
    <2> HIDE DEF event
    <2>6. QED
      BY <2>1, <2>3, <2>4, <2>5, AcceptKeeps
  <1>2. ASSUME NEW e \in Entities, DisplayChanges(e) PROVE StreamInv'
    <2> DEFINE event == [entity |-> e, reading |-> reading[e], kind |-> "display",
                         at |-> NextNumber]
    <2>1. Len(arrived) < MaxEvents /\ Accept(event) /\ reading' = reading
      BY <1>2 DEF DisplayChanges
    <2>2. NextNumber \in 1..MaxEvents
      BY <1>n, <2>1, StreamBounds DEF NextNumber
    <2>3. reading[e] \in 0..MaxEvents /\ reading' \in [Entities -> 0..MaxEvents]
      BY <1>t, <2>1 DEF TypeOK
    <2>4. event \in Events
      BY <2>2, <2>3 DEF Events, Kinds
    <2>5. event.at = NextNumber
      OBVIOUS
    <2> HIDE DEF event
    <2>6. QED
      BY <2>1, <2>3, <2>4, <2>5, AcceptKeeps
  <1>3. ASSUME NEW e \in Entities, Regrant(e) PROVE StreamInv'
    <2>1. granted' \subseteq Entities /\ regrants' \in 0..MaxRegrants
      BY <1>3, <1>t, StreamBounds DEF Regrant, TypeOK
    <2>2. TypeOK'
      BY <1>3, <1>t, <2>1 DEF Regrant, TypeOK
    <2>3. QED
      BY <1>3, <2>2, QuietKeeps DEF Regrant
  <1>4. CASE Rest
    <2>1. TypeOK'
      BY <1>4, <1>t DEF Rest, TypeOK
    <2>2. QED
      BY <1>4, <2>1, QuietKeeps DEF Rest
  <1>5. CASE Take
    BY <1>5, TakeKeeps
  <1>6. CASE Publish
    BY <1>6, PublishKeeps
  <1>7. CASE PublishFails \/ Acknowledged
    BY <1>7, DoneKeeps
  <1>8. CASE BecomesReady
    <2>1. epoch' \in 0..(MaxBreaks + 1) /\ conn' = "ready" /\ up' \in BOOLEAN
          /\ UNCHANGED listening
      BY <1>8, <1>t, StreamBounds DEF BecomesReady, Life!Exposed, TypeOK
    <2>2. TypeOK'
      BY <1>8, <1>t, <2>1 DEF BecomesReady, TypeOK
    <2>3. QED
      BY <1>8, <2>2, QuietKeeps DEF BecomesReady
  <1>9. CASE Greeted
    <2>1. /\ worker' = worker \/ (worker = "off" /\ worker' = "looping")
          /\ UNCHANGED <<arrived, reading, queue, taken, lost, withdrawn, epoch, up, sent,
                         granted, listening, regrants>>
          /\ conn' = "served"
      BY <1>9 DEF Greeted, Life!Greeted, GreetBacklog, StartWorker
    <2>2. /\ worker' \in {"off", "looping", "preparing", "publishing", "cancelled"}
          /\ (taken' # <<>>) = (worker' \in {"preparing", "publishing"})
      BY <1>t, <2>1 DEF TypeOK
    <2>3. TypeOK'
      BY <1>t, <2>1, <2>2 DEF TypeOK
    <2>4. QED
      BY <2>1, <2>3, QuietKeeps
  <1>10. CASE LinkBreaks
    <2>1. TypeOK'
      BY <1>10, <1>t DEF LinkBreaks, Life!LinkBreaks, TypeOK
    <2>2. QED
      BY <1>10, <2>1, QuietKeeps DEF LinkBreaks
  <1>11. CASE Disconnected
    <2>1. TypeOK'
      BY <1>11, <1>t DEF Disconnected, Life!Disconnected, TypeOK
    <2>2. QED
      BY <1>11, <2>1, QuietKeeps DEF Disconnected
  <1>12. CASE StopListening
    <2>1. TypeOK'
      BY <1>12, <1>t DEF StopListening, Life!StopListening, TypeOK
    <2>2. QED
      BY <1>12, <2>1, QuietKeeps DEF StopListening
  <1>13. CASE StopCompletes
    BY <1>13, StopKeeps
  <1>14. CASE UNCHANGED vars
    <2>1. TypeOK'
      BY <1>14, <1>t DEF vars, TypeOK
    <2>2. QED
      BY <1>14, <2>1, QuietKeeps DEF vars
  <1>15. QED
    BY <1>1, <1>2, <1>3, <1>4, <1>5, <1>6, <1>7, <1>8, <1>9, <1>10, <1>11, <1>12,
       <1>13, <1>14 DEF Next, WorkerStep

LEMMA AlwaysStream == Spec => []StreamInv
  BY InitStream, StepStream, PTL DEF Spec

------------------------------------------------------------------------------
(* The stream, position by position.                                       *)
LEMMA StreamPositions ==
    ASSUME StreamInv
    PROVE  /\ Stream \in Seq(Events)
           /\ Increasing(Stream)
           /\ \A k : Has(sent, k) \/ Has(queue, k)
                     \/ (worker = "preparing" /\ taken[1].event.at = k) => Has(Stream, k)
  <1> DEFINE front == sent \o InHands
  <1>1. /\ sent \in Seq(Events) /\ queue \in Seq(Events)
        /\ Len(sent) \in Nat /\ Len(queue) \in Nat
    BY DEF StreamInv, TypeOK
  <1>2. /\ InHands \in Seq(Events) /\ Len(InHands) \in {0, 1}
        /\ Len(InHands) = 1 <=> worker = "preparing"
        /\ worker = "preparing" => taken # <<>> /\ InHands[1] = taken[1].event
    <2>1. worker = "preparing" => taken # <<>> /\ taken[1].event \in Events
      BY EventNumbers DEF StreamInv, TypeOK
    <2>2. QED
      BY <2>1 DEF InHands
  <1>3. /\ front \in Seq(Events)
        /\ Len(front) = Len(sent) + Len(InHands)
        /\ \A i \in 1..Len(front) :
              front[i] = IF i <= Len(sent) THEN sent[i] ELSE InHands[i - Len(sent)]
    BY <1>1, <1>2
  <1> HIDE DEF front
  <1>4. /\ Stream \in Seq(Events)
        /\ Len(Stream) = Len(front) + Len(queue)
        /\ \A i \in 1..Len(Stream) :
              Stream[i] = IF i <= Len(front) THEN front[i] ELSE queue[i - Len(front)]
    BY <1>1, <1>3 DEF Stream, front
  <1>5. \A i \in 1..Len(front) :
            \/ i \in 1..Len(sent) /\ front[i] = sent[i]
            \/ i = Len(sent) + 1 /\ worker = "preparing" /\ front[i] = taken[1].event
    <2>1. ASSUME NEW i \in 1..Len(front), ~(i <= Len(sent))
          PROVE  i = Len(sent) + 1 /\ Len(InHands) = 1
      BY <1>1, <1>2, <1>3, <2>1
    <2>2. ASSUME NEW i \in 1..Len(front), i <= Len(sent) PROVE i \in 1..Len(sent)
      BY <1>1, <2>2
    <2>3. (Len(sent) + 1) - Len(sent) = 1
      BY <1>1
    <2>4. QED
      BY <1>2, <1>3, <2>1, <2>2, <2>3
  <1>6. \A i \in 1..Len(Stream) :
            \/ i \in 1..Len(front) /\ Stream[i] = front[i]
            \/ i - Len(front) \in 1..Len(queue) /\ Stream[i] = queue[i - Len(front)]
    <2>1. Len(front) \in Nat
      BY <1>3
    <2>2. ASSUME NEW i \in 1..Len(Stream), ~(i <= Len(front))
          PROVE  i - Len(front) \in 1..Len(queue)
      BY <1>1, <1>4, <2>1, <2>2
    <2>3. ASSUME NEW i \in 1..Len(Stream), i <= Len(front) PROVE i \in 1..Len(front)
      BY <2>1, <2>3
    <2>4. QED
      BY <1>4, <2>2, <2>3
  <1>7. ASSUME NEW i \in 1..Len(front), NEW j \in 1..Len(front), i < j
        PROVE  front[i].at < front[j].at
    <2>1. i \in 1..Len(sent) /\ front[i] = sent[i]
      <3>1. (i \in 1..Len(sent) /\ front[i] = sent[i]) \/ i = Len(sent) + 1
        BY <1>5
      <3>2. j \in 1..Len(sent) \/ j = Len(sent) + 1
        BY <1>5
      <3>3. QED
        BY <1>1, <1>7, <3>1, <3>2
    <2>2. CASE j \in 1..Len(sent) /\ front[j] = sent[j]
      BY <1>7, <2>1, <2>2 DEF StreamInv, OrderInv, Increasing
    <2>3. CASE worker = "preparing" /\ front[j] = taken[1].event
      BY <2>1, <2>3 DEF StreamInv, OrderInv
    <2>4. QED
      BY <1>5, <2>2, <2>3
  <1>8. ASSUME NEW i \in 1..Len(front), NEW j \in 1..Len(queue)
        PROVE  front[i].at < queue[j].at
    <2>1. CASE i \in 1..Len(sent) /\ front[i] = sent[i]
      BY <2>1 DEF StreamInv, OrderInv
    <2>2. CASE worker = "preparing" /\ front[i] = taken[1].event
      BY <1>2, <2>2 DEF StreamInv, OrderInv
    <2>3. QED
      BY <1>5, <2>1, <2>2
  <1>9. Increasing(Stream)
    <2>1. ASSUME NEW i \in 1..Len(Stream), NEW j \in 1..Len(Stream), i < j
          PROVE  Stream[i].at < Stream[j].at
      <3>1. CASE j \in 1..Len(front) /\ Stream[j] = front[j]
        <4>1. i \in 1..Len(front)
          BY <1>3, <2>1, <3>1
        <4>2. Stream[i] = front[i]
          BY <1>4, <4>1
        <4>3. QED
          BY <1>7, <2>1, <3>1, <4>1, <4>2
      <3>2. CASE j - Len(front) \in 1..Len(queue) /\ Stream[j] = queue[j - Len(front)]
        <4>1. CASE i \in 1..Len(front) /\ Stream[i] = front[i]
          BY <1>8, <3>2, <4>1
        <4>2. CASE i - Len(front) \in 1..Len(queue) /\ Stream[i] = queue[i - Len(front)]
          <5>1. i - Len(front) < j - Len(front)
            BY <1>1, <1>3, <2>1
          <5>2. QED
            BY <3>2, <4>2, <5>1 DEF StreamInv, OrderInv, Increasing
        <4>3. QED
          BY <1>6, <4>1, <4>2
      <3>3. QED
        BY <1>6, <3>1, <3>2
    <2>2. QED
      BY <2>1 DEF Increasing
  <1>10. ASSUME NEW k, Has(front, k) PROVE Has(Stream, k)
    <2>1. PICK i \in 1..Len(front) : front[i].at = k
      BY <1>10 DEF Has
    <2>2. i \in 1..Len(Stream) /\ Stream[i] = front[i]
      BY <1>1, <1>3, <1>4
    <2>3. QED
      BY <2>1, <2>2 DEF Has
  <1>11. ASSUME NEW k, Has(sent, k) PROVE Has(Stream, k)
    <2>1. PICK i \in 1..Len(sent) : sent[i].at = k
      BY <1>11 DEF Has
    <2>2. i \in 1..Len(front) /\ front[i] = sent[i]
      BY <1>1, <1>2, <1>3
    <2>3. QED
      BY <1>10, <2>1, <2>2 DEF Has
  <1>12. ASSUME worker = "preparing" PROVE Has(Stream, taken[1].event.at)
    <2>1. Len(sent) + 1 \in 1..Len(front) /\ ~(Len(sent) + 1 <= Len(sent))
          /\ (Len(sent) + 1) - Len(sent) = 1
      <3>1. Len(InHands) = 1
        BY <1>2, <1>12
      <3>2. Len(front) = Len(sent) + 1
        BY <1>3, <3>1
      <3>3. QED
        BY <1>1, <3>2
    <2>2. front[Len(sent) + 1] = taken[1].event
      BY <1>2, <1>3, <1>12, <2>1
    <2>3. QED
      BY <1>10, <2>1, <2>2 DEF Has
  <1>13. ASSUME NEW k, Has(queue, k) PROVE Has(Stream, k)
    <2>1. PICK i \in 1..Len(queue) : queue[i].at = k
      BY <1>13 DEF Has
    <2>2. Len(front) \in Nat
      BY <1>3
    <2>3. /\ Len(front) + i \in 1..Len(Stream) /\ ~(Len(front) + i <= Len(front))
          /\ (Len(front) + i) - Len(front) = i
      BY <1>1, <1>4, <2>2
    <2>4. Stream[Len(front) + i] = queue[i]
      BY <1>4, <2>3
    <2>5. QED
      BY <2>1, <2>3, <2>4 DEF Has
  <1>14. QED
    BY <1>4, <1>9, <1>11, <1>12, <1>13

(* The backlog keeps its limit, and an event is in the worker's hands      *)
(* exactly while it is published, for every limit                          *)
(* (_trim_pending_state_events, _state_worker).                            *)
THEOREM TypeCorrect == Spec => []TypeOK
  <1>1. StreamInv => TypeOK
    BY DEF StreamInv
  <1>2. QED
    BY <1>1, AlwaysStream, PTL

(* Whatever overflows, breaks or is withdrawn, the broker sees the events  *)
(* in the order of their arrival (_on_state_changed, _state_worker).       *)
THEOREM StreamStaysInOrder == Spec => []StreamInOrder
  <1>1. StreamInv => StreamInOrder
    <2> SUFFICES ASSUME StreamInv PROVE StreamInOrder
      OBVIOUS
    <2>1. Stream \in Seq(Events) /\ Increasing(Stream)
      BY StreamPositions
    <2>2. DOMAIN Stream = 1..Len(Stream)
      BY <2>1
    <2>3. QED
      BY <2>1, <2>2 DEF StreamInOrder, Increasing
  <1>2. QED
    BY <1>1, AlwaysStream, PTL

(* Until a stop has ended the worker, no accepted event disappears unless  *)
(* it is counted or withdrawn with its grant, and none at an event or      *)
(* button entity is superseded, for every limit of the backlog             *)
(* (_on_state_changed, _record_dropped_state_events).                      *)
THEOREM NothingIsLostSilently == Spec => []NothingLostSilently
  <1>1. StreamInv => NothingLostSilently
    <2> SUFFICES ASSUME StreamInv, worker # "cancelled" PROVE NothingLostSilently
      BY DEF NothingLostSilently
    <2>1. arrived \in Seq(Events)
      BY DEF StreamInv, TypeOK
    <2>2. DOMAIN arrived = 1..Len(arrived)
      BY <2>1
    <2>3. ASSUME NEW i \in 1..Len(arrived)
          PROVE  \/ i \in Numbers(Stream) \cup lost \cup withdrawn
                 \/ \E j \in 1..Len(arrived) : i < j /\ SameKey(arrived[i], arrived[j])
      <3>1. Kept(i)
        BY DEF StreamInv, KeptInv
      <3>2. Has(Stream, i) => i \in Numbers(Stream)
        BY StreamPositions, NumbersHas
      <3>3. QED
        BY <3>1, <3>2, StreamPositions DEF Kept
    <2>4. QED
      BY <2>2, <2>3 DEF NothingLostSilently
  <1>2. QED
    BY <1>1, AlwaysStream, PTL

(* Only what the grant allows at that moment is handed to the broker, for  *)
(* any number of changes of the grant (_is_excluded_entity).               *)
THEOREM OnlyGrantedIsEverPublished == Spec => OnlyGrantedIsPublished
  <1>1. StreamInv /\ [Next]_vars => [sent' # sent => Last(sent').entity \in granted]_vars
    <2> SUFFICES ASSUME StreamInv, Next, sent' # sent
                 PROVE  Last(sent').entity \in granted
      BY DEF vars
    <2>1. Publish
      BY DEF Next, WorkerStep, StateChanges, DisplayChanges, Accept, Regrant, Rest, Take,
             PublishFails, Acknowledged, BecomesReady, Greeted, LinkBreaks, Disconnected,
             StopListening, StopCompletes, backlog, link
    <2>2. /\ sent' = Append(sent, taken[1].event) /\ taken[1].event.entity \in granted
          /\ taken # <<>> /\ sent \in Seq(Events)
      BY <2>1 DEF Publish, StillGranted, StreamInv, TypeOK
    <2>3. taken[1].event \in Events
      BY <2>2, EventNumbers DEF StreamInv
    <2>4. Last(sent') = taken[1].event
      BY <2>2, <2>3 DEF Last
    <2>5. QED
      BY <2>2, <2>4
  <1>2. QED
    BY <1>1, AlwaysStream, PTL DEF Spec, OnlyGrantedIsPublished
=============================================================================

------------------------ MODULE WebSocketWriterProofs ------------------------
(* Proofs about WebSocketWriter for every size of frames, every limit of   *)
(* the control queue and every number of frames.                           *)
EXTENDS WebSocketWriter, TLAPS

(* What a queue holds after an element was added or its first one removed. *)
LEMMA AppendQueued ==
    ASSUME NEW S, NEW q \in Seq(S), NEW e \in S, NEW c
    PROVE  Queued(c, Append(q, e)) <=> e = c \/ Queued(c, q)
  <1>1. /\ Len(Append(q, e)) = Len(q) + 1 /\ Len(q) \in Nat
        /\ Append(q, e)[Len(q) + 1] = e
        /\ \A i \in 1..Len(q) : Append(q, e)[i] = q[i]
    OBVIOUS
  <1>2. QED
    BY <1>1 DEF Queued

LEMMA TailQueued ==
    ASSUME NEW S, NEW q \in Seq(S), q # <<>>, NEW c
    PROVE  Queued(c, q) <=> Head(q) = c \/ Queued(c, Tail(q))
  <1>1. /\ Len(Tail(q)) = Len(q) - 1 /\ Len(q) \in Nat /\ Len(q) > 0
        /\ Head(q) = q[1]
        /\ \A i \in 1..Len(Tail(q)) : Tail(q)[i] = q[i + 1]
    OBVIOUS
  <1>2. ASSUME NEW i \in 1..Len(q), q[i] = c PROVE Head(q) = c \/ Queued(c, Tail(q))
    <2>1. CASE i = 1
      BY <1>1, <1>2, <2>1
    <2>2. CASE i # 1
      <3>1. i - 1 \in 1..Len(Tail(q)) /\ Tail(q)[i - 1] = c
        BY <1>1, <1>2, <2>2
      <3>2. QED
        BY <3>1 DEF Queued
    <2>3. QED
      BY <2>1, <2>2
  <1>3. ASSUME NEW i \in 1..Len(Tail(q)), Tail(q)[i] = c PROVE Queued(c, q)
    <2>1. i + 1 \in 1..Len(q) /\ q[i + 1] = c
      BY <1>1, <1>3
    <2>2. QED
      BY <2>1 DEF Queued
  <1>4. Head(q) = c => Queued(c, q)
    BY <1>1 DEF Queued
  <1>5. QED
    BY <1>2, <1>3, <1>4 DEF Queued

(* The rest of a queue, position by position.                              *)
LEMMA TailPositions ==
    ASSUME NEW S, NEW q \in Seq(S), q # <<>>
    PROVE  /\ Len(Tail(q)) = Len(q) - 1 /\ Len(q) \in Nat
           /\ \A i \in 1..Len(Tail(q)) : /\ i + 1 \in 1..Len(q)
                                        /\ Tail(q)[i] = q[i + 1]
  OBVIOUS

LEMMA EmptyQueued == ASSUME NEW c PROVE ~Queued(c, <<>>)
  BY DEF Queued

------------------------------------------------------------------------------
(* Before the connect worker has ended nothing is registered for writing   *)
(* but its own request, and nothing is sent.                               *)
EarlyInv ==
    worker # "ended" =>
        /\ ~writer /\ loop = "idle" /\ waiter # "connected"
        /\ controls = <<>> /\ buffer = NoRest
        /\ ~Queued("writer", callbacks)
        /\ wanted => worker = "asking"
        /\ IF worker \in {"queued", "asking"} THEN packets # <<>>
           ELSE packets = <<>> /\ made.binary = 0

(* The socket opens once, and is open while bytes are written.             *)
OpenInv ==
    /\ worker = "upgrading" => sock = "none"
    /\ sock = "none" => worker \in {"upgrading", "ended"}
    /\ loop # "idle" => sock = "open" /\ writer

(* Who has something to write has asked, who has asked will be heard, and  *)
(* nobody asks for nothing.                                                *)
AskInv ==
    /\ sock = "open" /\ WantWrite => wanted \/ worker = "queued"
    /\ wanted => writer \/ worker = "asking" \/ Queued("writer", callbacks)
    /\ wanted => WantWrite \/ loop # "idle"

(* A socket nobody owns is about to be closed.                             *)
OwnedInv ==
    retired /\ sock = "open" => worker = "opened" \/ Queued("reader", callbacks)

RegInv == TypeOK /\ EarlyInv /\ OpenInv /\ AskInv /\ OwnedInv

LEMMA InitRegs == Init => RegInv
  <1> SUFFICES ASSUME Init PROVE RegInv
    OBVIOUS
  <1>1. TypeOK
    <2>1. Len(controls) <= ControlLimit
      BY WriterAssumption DEF Init
    <2>2. /\ callbacks \in Seq({"reader", "writer"})
          /\ packets \in Seq(Nat) /\ controls \in Seq(Rests)
          /\ wire \in Seq(Pieces)
      BY DEF Init
    <2>3. made \in [binary : Nat, control : Nat]
      BY DEF Init
    <2>4. QED
      BY <2>1, <2>2, <2>3 DEF Init, TypeOK
  <1>2. ~Queued("writer", callbacks) /\ ~Queued("reader", callbacks)
    BY EmptyQueued DEF Init
  <1>3. EarlyInv /\ OpenInv /\ AskInv /\ OwnedInv
    BY <1>2 DEF Init, EarlyInv, OpenInv, AskInv, OwnedInv, WantWrite
  <1>4. QED
    BY <1>1, <1>3 DEF RegInv

(* A rest that is sent on leaves a rest.                                   *)
LEMMA RestType ==
    ASSUME NEW data \in Rests, NEW end \in EndsOf(data)
    PROVE  /\ RestFrom(data, end) \in Rests \cup {NoRest}
           /\ end \in Nat
           /\ [data EXCEPT !.from = end] \in Rests
  BY WriterAssumption DEF Rests, EndsOf, RestFrom

(* A send keeps the types of the histories.                                *)
LEMMA SendType ==
    ASSUME TypeOK, NEW data \in Rests, NEW end \in EndsOf(data), Send(data, end)
    PROVE  /\ offered' \in Rests \cup {NoRest}
           /\ mixed' \in BOOLEAN
           /\ wire' \in Seq(Pieces)
  <1>1. offered' \in Rests \cup {NoRest} /\ end \in Nat
    BY RestType DEF Send
  <1>2. mixed' \in BOOLEAN
    BY DEF Send, TypeOK
  <1>3. wire \in Seq(Pieces)
    BY DEF TypeOK
  <1>4. CASE end = data.from
    BY <1>1, <1>2, <1>3, <1>4 DEF Send
  <1>5. CASE end # data.from /\ Continues(data)
    <2>1. wire # <<>> /\ Len(wire) \in 1..Len(wire)
      BY <1>3, <1>5 DEF Continues
    <2>2. wire[Len(wire)] \in Pieces
      BY <1>3, <2>1
    <2>5. [wire[Len(wire)] EXCEPT !.end = end] \in Pieces
      BY <1>1, <2>2 DEF Pieces
    <2>3. [wire EXCEPT ![Len(wire)].end = end] \in Seq(Pieces)
      BY <1>3, <2>1, <2>5
    <2>4. QED
      BY <1>1, <1>2, <1>5, <2>3 DEF Send
  <1>6. CASE end # data.from /\ ~Continues(data)
    <2>1. [kind |-> data.kind, n |-> data.n, from |-> data.from, end |-> end] \in Pieces
      BY <1>1 DEF Rests, Pieces
    <2>2. QED
      BY <1>1, <1>2, <1>3, <1>6, <2>1 DEF Send
  <1>7. QED
    BY <1>4, <1>5, <1>6

(* What a control reply leaves of the queue.                               *)
LEMMA SendControlType ==
    ASSUME TypeOK, MayFlush, NEW stopped \in {"flush", "ending"}, SendControl(stopped)
    PROVE  /\ controls' \in Seq(Rests) /\ Len(controls') <= ControlLimit
           /\ offered' \in Rests \cup {NoRest}
           /\ mixed' \in BOOLEAN
           /\ wire' \in Seq(Pieces)
           /\ loop' \in {loop, stopped}
           /\ loop' = stopped => controls' # <<>> \/ loop = stopped
  <1>1. controls \in Seq(Rests) /\ controls # <<>> /\ Head(controls) \in Rests
        /\ Len(controls) <= ControlLimit
    BY DEF TypeOK, MayFlush
  <1>2. PICK end \in EndsOf(Head(controls)) :
            /\ Send(Head(controls), end)
            /\ IF end = FrameSize
               THEN controls' = Tail(controls) /\ UNCHANGED loop
               ELSE controls' = [controls EXCEPT ![1].from = end] /\ loop' = stopped
    BY DEF SendControl
  <1>3. [Head(controls) EXCEPT !.from = end] \in Rests
    BY <1>1, RestType
  <1>4. 1 \in 1..Len(controls) /\ Head(controls) = controls[1]
    BY <1>1
  <1>5. [controls EXCEPT ![1].from = end] \in Seq(Rests)
        /\ Len([controls EXCEPT ![1].from = end]) = Len(controls)
        /\ [controls EXCEPT ![1].from = end] # <<>>
    BY <1>1, <1>3, <1>4
  <1>6. Tail(controls) \in Seq(Rests) /\ Len(Tail(controls)) = Len(controls) - 1
        /\ Len(controls) \in Nat
    BY <1>1
  <1>7. Len(controls') <= ControlLimit
    BY <1>1, <1>2, <1>5, <1>6, WriterAssumption
  <1>8. QED
    BY <1>1, <1>2, <1>5, <1>6, <1>7, SendType

(* Closing the socket leaves the types, and no registration behind.        *)
LEMMA CloseRegs ==
    ASSUME TypeOK, SockClose
    PROVE  /\ sock' \in {"none", "closed"} /\ (sock' = "none" <=> sock = "none")
           /\ controls' \in {<<>>, controls} /\ controls' \in Seq(Rests)
           /\ Len(controls') <= ControlLimit
           /\ ~reader' /\ ~writer' /\ ~wanted'
           /\ reader' \in BOOLEAN /\ writer' \in BOOLEAN /\ wanted' \in BOOLEAN
  <1>1. Len(<<>>) <= ControlLimit /\ <<>> \in Seq(Rests)
    BY WriterAssumption
  <1>2. QED
    BY <1>1 DEF TypeOK, SockClose, regs

(* Every step keeps the types and the registrations.                       *)
LEMMA StepRegs == RegInv /\ [Next]_vars => RegInv'
  <1> SUFFICES ASSUME RegInv, [Next]_vars PROVE RegInv'
    OBVIOUS
  <1> USE DEF RegInv, thread, conn, regs, queues, sent
  <1>t. TypeOK /\ EarlyInv /\ OpenInv /\ AskInv /\ OwnedInv
    OBVIOUS
  <1>q. ASSUME NEW e \in {"reader", "writer"}, NEW c,
               callbacks' = Append(callbacks, e)
        PROVE  /\ callbacks' \in Seq({"reader", "writer"})
               /\ Queued(c, callbacks') <=> e = c \/ Queued(c, callbacks)
    <2>1. callbacks \in Seq({"reader", "writer"})
      BY <1>t DEF TypeOK
    <2>2. Queued(c, Append(callbacks, e)) <=> e = c \/ Queued(c, callbacks)
      BY <2>1, AppendQueued
    <2>3. Append(callbacks, e) \in Seq({"reader", "writer"})
      BY <2>1
    <2>4. QED
      BY <1>q, <2>2, <2>3
  <1>p. ASSUME packets' = Append(packets, made.binary + 1),
               made' = [made EXCEPT !.binary = @ + 1]
        PROVE  /\ packets' \in Seq(Nat) /\ packets' # <<>>
               /\ made' \in [binary : Nat, control : Nat]
    <2>1. /\ packets \in Seq(Nat) /\ made \in [binary : Nat, control : Nat]
          /\ made.binary + 1 \in Nat
      BY <1>t DEF TypeOK
    <2>2. QED
      BY <1>p, <2>1
  <1>1. CASE WorkerOpens
    BY <1>1 DEF WorkerOpens, TypeOK, EarlyInv, OpenInv, AskInv, OwnedInv, WantWrite
  <1>2. CASE WorkerFails
    BY <1>2 DEF WorkerFails, TypeOK, EarlyInv, OpenInv, AskInv, OwnedInv, WantWrite
  <1>3. CASE SocketOpen
    <2>1. /\ callbacks' \in Seq({"reader", "writer"})
          /\ Queued("writer", callbacks') <=> Queued("writer", callbacks)
          /\ Queued("reader", callbacks')
      BY <1>3, <1>q DEF SocketOpen
    <2>2. QED
      BY <1>3, <2>1 DEF SocketOpen, TypeOK, EarlyInv, OpenInv, AskInv, OwnedInv, WantWrite
  <1>4. CASE WorkerSendsConnect
    BY <1>4, <1>p DEF WorkerSendsConnect, TypeOK, EarlyInv, OpenInv, AskInv, OwnedInv,
                      WantWrite
  <1>5. CASE WorkerRequestsWrite
    BY <1>5 DEF WorkerRequestsWrite, TypeOK, EarlyInv, OpenInv, AskInv, OwnedInv,
                WantWrite
  <1>6. CASE SocketRegisterWrite
    <2>1. /\ callbacks' \in Seq({"reader", "writer"})
          /\ Queued("writer", callbacks')
          /\ Queued("reader", callbacks') <=> Queued("reader", callbacks)
      BY <1>6, <1>q DEF SocketRegisterWrite
    <2>2. QED
      BY <1>6, <2>1 DEF SocketRegisterWrite, TypeOK, EarlyInv, OpenInv, AskInv, OwnedInv,
                        WantWrite
  <1>7. CASE ConnectTimesOut
    BY <1>7 DEF ConnectTimesOut, TypeOK, EarlyInv, OpenInv, AskInv, OwnedInv, WantWrite
  <1>8. CASE RetireConnection
    BY <1>8, CloseRegs DEF RetireConnection, TypeOK, EarlyInv, OpenInv, AskInv, OwnedInv,
                           WantWrite
  <1>9. CASE Publish
    <2>1. /\ callbacks' \in Seq({"reader", "writer"})
          /\ ~wanted => Queued("writer", callbacks')
          /\ Queued("writer", callbacks) => Queued("writer", callbacks')
          /\ Queued("reader", callbacks) => Queued("reader", callbacks')
      <3>1. CASE wanted
        BY <1>9, <3>1 DEF Publish, RequestWrite, TypeOK
      <3>2. CASE ~wanted
        BY <1>9, <1>q, <3>2 DEF Publish, RequestWrite
      <3>3. QED
        BY <3>1, <3>2
    <2>2. QED
      BY <1>9, <1>p, <2>1 DEF Publish, RequestWrite, TypeOK, EarlyInv, OpenInv, AskInv,
                              OwnedInv, WantWrite
  <1>10. CASE Install
    <2>1. /\ callbacks' \in Seq({"reader", "writer"})
          /\ Head(callbacks) \in {"reader", "writer"}
          /\ \A c : Queued(c, callbacks) => Head(callbacks) = c \/ Queued(c, callbacks')
          /\ \A c : Queued(c, callbacks') => Queued(c, callbacks)
          /\ Queued(Head(callbacks), callbacks)
      BY <1>10, TailQueued DEF Install, TypeOK
    <2>2. CASE SocketIsActive
      BY <1>10, <2>1, <2>2 DEF Install, Installed, SocketIsActive, TypeOK, EarlyInv,
                               OpenInv, AskInv, OwnedInv, WantWrite
    <2>3. CASE ~SocketIsActive
      BY <1>10, <2>1, <2>3, CloseRegs DEF Install, Installed, TypeOK, EarlyInv,
                               OpenInv, AskInv, OwnedInv, WantWrite
    <2>4. QED
      BY <2>2, <2>3
  <1>11. CASE ReadyOfStale
    BY <1>11, CloseRegs DEF ReadyOfStale, TypeOK, EarlyInv, OpenInv, AskInv, OwnedInv,
                            WantWrite
  <1>12. CASE ReadAccepted
    BY <1>12 DEF ReadAccepted, Reads, TypeOK, EarlyInv, OpenInv, AskInv, OwnedInv, WantWrite
  <1>13. CASE ReadControl
    <2>1. /\ callbacks' \in Seq({"reader", "writer"})
          /\ ~wanted => Queued("writer", callbacks')
          /\ Queued("writer", callbacks) => Queued("writer", callbacks')
          /\ Queued("reader", callbacks) => Queued("reader", callbacks')
      <3>1. CASE wanted
        BY <1>13, <3>1 DEF ReadControl, RequestWrite, TypeOK
      <3>2. CASE ~wanted
        BY <1>13, <1>q, <3>2 DEF ReadControl, RequestWrite
      <3>3. QED
        BY <3>1, <3>2
    <2>5. made \in [binary : Nat, control : Nat] /\ made.control + 1 \in Nat
      BY <1>t DEF TypeOK
    <2>2. Frame("control", made.control + 1) \in Rests
          /\ made' \in [binary : Nat, control : Nat]
      BY <1>13, <2>5 DEF ReadControl, Frame, Rests
    <2>3. controls' \in Seq(Rests) /\ controls' # <<>> /\ Len(controls') <= ControlLimit
      BY <1>13, <2>2, WriterAssumption DEF ReadControl, TypeOK
    <2>4. QED
      BY <1>13, <2>1, <2>2, <2>3 DEF ReadControl, Reads, SocketIsActive, RequestWrite,
             TypeOK, EarlyInv, OpenInv, AskInv, OwnedInv, WantWrite
  <1>14. CASE ReadFails
    BY <1>14, CloseRegs DEF ReadFails, Reads, TypeOK, EarlyInv, OpenInv, AskInv, OwnedInv,
                            WantWrite
  <1>15. CASE WriteReady
    BY <1>15 DEF WriteReady, SocketIsActive, TypeOK, EarlyInv, OpenInv, AskInv, OwnedInv,
                 WantWrite
  <1>16. CASE SendReplyFirst
    <2>1. /\ controls' \in Seq(Rests) /\ Len(controls') <= ControlLimit
          /\ offered' \in Rests \cup {NoRest} /\ mixed' \in BOOLEAN
          /\ wire' \in Seq(Pieces) /\ loop' \in {"packets", "flush"}
      BY <1>16, SendControlType DEF SendReplyFirst
    <2>2. QED
      BY <1>16, <2>1 DEF SendReplyFirst, TypeOK, EarlyInv, OpenInv, AskInv, OwnedInv,
                         WantWrite
  <1>17. CASE SendBinary
    <2> DEFINE data == IF buffer = NoRest THEN Frame("binary", Head(packets)) ELSE buffer
    <2>1. data \in Rests
      BY <1>17 DEF SendBinary, TypeOK, Frame, Rests
    <2>2. PICK end \in EndsOf(data) :
              /\ Send(data, end)
              /\ buffer' = RestFrom(data, end)
              /\ IF end = FrameSize
                 THEN packets' = Tail(packets) /\ UNCHANGED loop
                 ELSE loop' = "flush" /\ UNCHANGED packets
      BY <1>17 DEF SendBinary
    <2> HIDE DEF data
    <2>3. /\ offered' \in Rests \cup {NoRest} /\ mixed' \in BOOLEAN
          /\ wire' \in Seq(Pieces) /\ buffer' \in Rests \cup {NoRest}
      BY <2>1, <2>2, SendType, RestType
    <2>4. packets' \in Seq(Nat) /\ loop' \in {"packets", "flush"}
      <3>1. packets \in Seq(Nat) /\ packets # <<>> /\ loop = "packets"
        BY <1>t, <1>17 DEF SendBinary, TypeOK
      <3>2. Tail(packets) \in Seq(Nat)
        BY ONLY <3>1
      <3>3. \/ packets' = Tail(packets) /\ loop' = loop
            \/ packets' = packets /\ loop' = "flush"
        BY ONLY <2>2
      <3>4. QED
        BY ONLY <3>1, <3>2, <3>3
    <2>5. QED
      BY <1>17, <2>3, <2>4 DEF SendBinary, TypeOK, EarlyInv, OpenInv, AskInv, OwnedInv,
                               WantWrite
  <1>18. CASE PacketsEnd
    BY <1>18 DEF PacketsEnd, TypeOK, EarlyInv, OpenInv, AskInv, OwnedInv, WantWrite
  <1>19. CASE Flush
    <2>1. /\ controls' \in Seq(Rests) /\ Len(controls') <= ControlLimit
          /\ offered' \in Rests \cup {NoRest} /\ mixed' \in BOOLEAN
          /\ wire' \in Seq(Pieces) /\ loop' \in {"flush", "ending"}
      BY <1>19, SendControlType DEF Flush
    <2>2. QED
      BY <1>19, <2>1 DEF Flush, TypeOK, EarlyInv, OpenInv, AskInv, OwnedInv, WantWrite
  <1>20. CASE GuardedWriteEnds
    BY <1>20 DEF GuardedWriteEnds, TypeOK, EarlyInv, OpenInv, AskInv, OwnedInv, WantWrite
  <1>21. CASE WriteFails
    BY <1>21, CloseRegs DEF WriteFails, MayFlush, TypeOK, EarlyInv, OpenInv, AskInv,
                            OwnedInv, WantWrite
  <1>22. CASE UNCHANGED vars
    BY <1>22 DEF vars, TypeOK, EarlyInv, OpenInv, AskInv, OwnedInv, WantWrite
  <1>23. QED
    BY <1>1, <1>2, <1>3, <1>4, <1>5, <1>6, <1>7, <1>8, <1>9, <1>10, <1>11, <1>12,
       <1>13, <1>14, <1>15, <1>16, <1>17, <1>18, <1>19, <1>20, <1>21, <1>22 DEF Next

LEMMA AlwaysRegs == Spec => []RegInv
  BY InitRegs, StepRegs, PTL DEF Spec

(* Registrations belong to an open socket, for every instance: TypeOK of   *)
(* socket_is_active, install_reader and install_writer.                    *)
THEOREM TypeCorrect == Spec => []TypeOK
  <1>1. RegInv => TypeOK
    BY DEF RegInv
  <1>2. QED
    BY <1>1, AlwaysRegs, PTL

(* A wish to write is always heard, and a socket nobody owns is always     *)
(* about to be closed (want_write, install_writer, retire_connection).     *)
THEOREM NoWishIsLost == Spec => []NothingIsForgotten
  <1>1. RegInv => NothingIsForgotten
    BY DEF RegInv, AskInv, OwnedInv, NothingIsForgotten
  <1>2. QED
    BY <1>1, AlwaysRegs, PTL

------------------------------------------------------------------------------
(* Frames.  Binary frames and control replies are numbered upwards, and    *)
(* what has left the queues is on the wire before what has not.            *)
NumbersInv ==
    /\ \A i, j \in 1..Len(packets) : i < j => packets[i] < packets[j]
    /\ \A i \in 1..Len(packets) : packets[i] <= made.binary
    /\ \A i, j \in 1..Len(controls) : i < j => controls[i].n < controls[j].n
    /\ \A i \in 1..Len(controls) :
          controls[i].kind = "control" /\ controls[i].n <= made.control

(* Number n may follow piece p of its own kind.                            *)
Follows(p, n) == p.n <= n /\ (p.end = FrameSize => p.n < n)

SentInv ==
    \A i \in 1..Len(wire) :
        /\ wire[i].kind = "binary" =>
              /\ wire[i].n <= made.binary
              /\ \A j \in 1..Len(packets) : Follows(wire[i], packets[j])
        /\ wire[i].kind = "control" =>
              /\ wire[i].n <= made.control
              /\ \A j \in 1..Len(controls) : Follows(wire[i], controls[j].n)

(* A send that was not finished is the frame in the buffer or, if there is *)
(* none, the first control reply; no other frame has begun.                *)
BegunInv ==
    /\ sock = "none" => offered = NoRest
    /\ buffer # NoRest =>
          /\ offered = buffer /\ packets # <<>>
          /\ buffer.kind = "binary" /\ buffer.n = packets[1]
          /\ buffer.from < FrameSize
    /\ sock = "open" /\ buffer = NoRest /\ offered # NoRest =>
          controls # <<>> /\ offered = controls[1]
    /\ \A i \in 1..Len(controls) :
          /\ controls[i].from < FrameSize
          /\ controls[i].from = 0 \/ (i = 1 /\ offered = controls[1])

(* The wire holds whole frames, but for the last one, which is the one     *)
(* that was not finished.                                                  *)
WireInv ==
    /\ FramesAreWhole
    /\ \A i \in 1..Len(wire) : wire[i].end \in 1..FrameSize
LastInv ==
    /\ wire # <<>> /\ wire[Len(wire)].end < FrameSize =>
          offered # NoRest /\ Continues(offered)
    /\ offered # NoRest /\ offered.from > 0 => Continues(offered)

FrameInv == NumbersInv /\ SentInv /\ BegunInv /\ WireInv /\ LastInv

LEMMA InitFrames == Init => FrameInv
  <1> SUFFICES ASSUME Init PROVE FrameInv
    OBVIOUS
  <1>1. Len(packets) = 0 /\ Len(controls) = 0 /\ Len(wire) = 0
    BY DEF Init
  <1>2. NumbersInv /\ SentInv /\ BegunInv
    BY <1>1 DEF Init, NumbersInv, SentInv, BegunInv
  <1>3. WireInv /\ LastInv
    BY <1>1 DEF Init, WireInv, FramesAreWhole, LastInv
  <1>4. QED
    BY <1>2, <1>3 DEF FrameInv

(* One send of data, which is what was not finished or the first bytes of  *)
(* a frame that may follow what is on the wire.                            *)
MaySend(data) ==
    /\ data \in Rests /\ data.from < FrameSize
    /\ offered \in {NoRest, data}
    /\ offered = NoRest => data.from = 0
    /\ \A i \in 1..Len(wire) : wire[i].kind = data.kind => Follows(wire[i], data.n)

LEMMA SendKeepsWire ==
    ASSUME TypeOK, WireInv, LastInv, NEW data, MaySend(data),
           NEW end \in EndsOf(data), Send(data, end)
    PROVE  /\ WireInv' /\ LastInv'
           /\ end \in Nat /\ end <= FrameSize
           /\ offered' = RestFrom(data, end)
           /\ \A i \in 1..Len(wire') :
                 \/ i \in 1..Len(wire) /\ wire'[i] = wire[i]
                 \/ /\ wire'[i].kind = data.kind /\ wire'[i].n = data.n
                    /\ wire'[i].end = end
  <1>1. /\ data \in Rests /\ data.from \in Nat /\ data.n \in Nat
        /\ data.kind \in {"binary", "control"} /\ data.from < FrameSize
        /\ FrameSize \in Nat /\ end \in Nat /\ data.from <= end /\ end <= FrameSize
        /\ data # NoRest
    BY WriterAssumption DEF MaySend, Rests, EndsOf, NoRest
  <1>2. wire \in Seq(Pieces) /\ Len(wire) \in Nat
    BY DEF TypeOK
  <1>3. \A i \in 1..Len(wire) : /\ wire[i] \in Pieces /\ wire[i].n \in Nat
                                /\ wire[i].end \in 1..FrameSize /\ wire[i].from = 0
                                /\ i < Len(wire) => wire[i].end = FrameSize
    <2>1. \A i \in 1..Len(wire) : wire[i] \in Pieces
      BY <1>2
    <2>2. \A p \in Pieces : p.n \in Nat
      BY DEF Pieces
    <2>3. QED
      BY <2>1, <2>2 DEF WireInv, FramesAreWhole
  <1>4. offered' = RestFrom(data, end) /\ ~mixed'
    BY DEF Send, MaySend, WireInv, FramesAreWhole
  <1>5. RestFrom(data, end) # NoRest =>
            /\ end < FrameSize
            /\ RestFrom(data, end) = [data EXCEPT !.from = end]
    BY <1>1 DEF RestFrom
  <1>6. end < FrameSize => RestFrom(data, end) = [data EXCEPT !.from = end]
                           /\ RestFrom(data, end) # NoRest
    BY <1>1 DEF RestFrom, Rests, NoRest
  <1>7. [data EXCEPT !.from = end] =
            [kind |-> data.kind, n |-> data.n, from |-> end]
    BY <1>1 DEF Rests
  <1>8. CASE end = data.from
    <2>1. wire' = wire /\ offered' = data
      BY <1>1, <1>4, <1>6, <1>7, <1>8 DEF Send, Rests
    <2>2. LastInv'
      <3>1. ASSUME wire # <<>>, wire[Len(wire)].end < FrameSize PROVE Continues(data)
        BY <3>1, <1>1 DEF LastInv, MaySend
      <3>2. ASSUME data.from > 0 PROVE Continues(data)
        BY <3>2, <1>1 DEF LastInv, MaySend
      <3>3. QED
        BY <2>1, <3>1, <3>2, <1>1 DEF LastInv, Continues
    <2>3. WireInv'
      BY <2>1, <1>4 DEF WireInv, FramesAreWhole
    <2>4. QED
      BY <1>1, <1>4, <2>1, <2>2, <2>3
  <1>9. CASE end # data.from /\ Continues(data)
    <2>1. /\ wire # <<>> /\ Len(wire) \in 1..Len(wire)
          /\ wire' = [wire EXCEPT ![Len(wire)].end = end]
          /\ wire[Len(wire)].kind = data.kind /\ wire[Len(wire)].n = data.n
      BY <1>2, <1>9 DEF Send, Continues
    <2>2. /\ Len(wire') = Len(wire)
          /\ \A i \in 1..Len(wire) : i # Len(wire) => wire'[i] = wire[i]
          /\ wire'[Len(wire)] = [wire[Len(wire)] EXCEPT !.end = end]
      BY <1>2, <2>1
    <2>3. /\ wire'[Len(wire)].kind = data.kind /\ wire'[Len(wire)].n = data.n
          /\ wire'[Len(wire)].end = end /\ wire'[Len(wire)].from = 0
      BY <1>3, <2>1, <2>2 DEF Pieces
    <2>4. end \in 1..FrameSize
      BY <1>1, <1>9
    <2>5. FramesAreWhole'
      <3>1. ASSUME NEW i \in 1..Len(wire'), NEW j \in 1..Len(wire'), i < j,
                   wire'[i].kind = wire'[j].kind
            PROVE  wire'[i].n < wire'[j].n
        <4>1. wire'[i] = wire[i]
          BY <1>2, <2>2, <3>1
        <4>2. CASE j = Len(wire)
          BY <1>2, <2>1, <2>2, <2>3, <3>1, <4>1, <4>2 DEF WireInv, FramesAreWhole
        <4>3. CASE j # Len(wire)
          BY <1>2, <2>2, <3>1, <4>1, <4>3 DEF WireInv, FramesAreWhole
        <4>4. QED
          BY <4>2, <4>3
      <3>2. ASSUME NEW i \in 1..Len(wire')
            PROVE  wire'[i].from = 0 /\ (i < Len(wire') => wire'[i].end = FrameSize)
        <4>0. Len(wire') = Len(wire) /\ Len(wire) \in Nat
          BY <1>2, <2>2
        <4>1. CASE i = Len(wire)
          <5>1. wire'[i].from = 0
            BY <2>3, <4>1
          <5>2. ~(i < Len(wire'))
            BY <4>0, <4>1
          <5>3. QED
            BY <5>1, <5>2
        <4>2. CASE i # Len(wire)
          <5>1. i \in 1..Len(wire) /\ i < Len(wire) /\ wire'[i] = wire[i]
            BY <1>2, <2>2, <4>2
          <5>2. QED
            BY <1>3, <5>1
        <4>3. QED
          BY <4>1, <4>2
      <3>3. QED
        BY <1>4, <3>1, <3>2 DEF FramesAreWhole
    <2>6. \A i \in 1..Len(wire') : wire'[i].end \in 1..FrameSize
      BY <1>2, <1>3, <2>2, <2>3, <2>4
    <2>7. LastInv'
      <3>1. ASSUME end < FrameSize PROVE offered' # NoRest /\ Continues(offered)'
        BY <3>1, <1>2, <1>4, <1>6, <1>7, <2>1, <2>2, <2>3 DEF Continues
      <3>2. QED
        BY <3>1, <1>1, <1>4, <1>5, <2>2, <2>3 DEF LastInv
    <2>8. QED
      BY <1>1, <1>2, <1>4, <2>2, <2>3, <2>5, <2>6, <2>7 DEF WireInv
  <1>10. CASE end # data.from /\ ~Continues(data)
    <2>1. data.from = 0 /\ (wire # <<>> => wire[Len(wire)].end = FrameSize)
      <3>1. data.from = 0
        BY <1>1, <1>10 DEF LastInv, MaySend
      <3>2. ASSUME wire # <<>>, wire[Len(wire)].end < FrameSize PROVE FALSE
        BY <1>1, <1>10, <3>2 DEF LastInv, MaySend
      <3>3. wire # <<>> => Len(wire) \in 1..Len(wire)
        BY <1>2
      <3>4. QED
        BY <1>1, <1>3, <3>1, <3>2, <3>3
    <2> DEFINE piece == [kind |-> data.kind, n |-> data.n, from |-> data.from, end |-> end]
    <2>2. piece \in Pieces
      BY <1>1 DEF Pieces
    <2>3. wire' = Append(wire, piece)
      BY <1>10 DEF Send
    <2>4. /\ Len(wire') = Len(wire) + 1 /\ wire'[Len(wire) + 1] = piece
          /\ \A i \in 1..Len(wire) : wire'[i] = wire[i]
      BY <1>2, <2>2, <2>3
    <2>5. /\ wire'[Len(wire')].kind = data.kind /\ wire'[Len(wire')].n = data.n
          /\ wire'[Len(wire')].end = end /\ wire'[Len(wire')].from = 0
          /\ wire' # <<>>
      BY <1>2, <2>1, <2>2, <2>3, <2>4
    <2> HIDE DEF piece
    <2>6. end \in 1..FrameSize
      BY <1>1, <1>10
    <2>7. \A i \in 1..Len(wire) : wire[i].end = FrameSize
      BY <1>2, <1>3, <2>1
    <2>8. \A i \in 1..Len(wire') : i = Len(wire') \/ (i \in 1..Len(wire) /\ wire'[i] = wire[i])
      BY <1>2, <2>4
    <2>9. FramesAreWhole'
      <3>1. ASSUME NEW i \in 1..Len(wire'), NEW j \in 1..Len(wire'), i < j,
                   wire'[i].kind = wire'[j].kind
            PROVE  wire'[i].n < wire'[j].n
        <4>1. i \in 1..Len(wire) /\ wire'[i] = wire[i]
          BY <1>2, <2>4, <2>8, <3>1
        <4>2. CASE j = Len(wire')
          BY <2>5, <2>7, <3>1, <4>1, <4>2 DEF MaySend, Follows
        <4>3. CASE j # Len(wire')
          BY <2>8, <3>1, <4>1, <4>3 DEF WireInv, FramesAreWhole
        <4>4. QED
          BY <4>2, <4>3
      <3>2. ASSUME NEW i \in 1..Len(wire')
            PROVE  wire'[i].from = 0 /\ (i < Len(wire') => wire'[i].end = FrameSize)
        BY <1>2, <1>3, <2>4, <2>5, <2>7, <2>8, <3>2
      <3>3. QED
        BY <1>4, <3>1, <3>2 DEF FramesAreWhole
    <2>10. \A i \in 1..Len(wire') : wire'[i].end \in 1..FrameSize
      BY <1>2, <1>3, <2>5, <2>6, <2>8
    <2>11. LastInv'
      <3>1. ASSUME end < FrameSize PROVE offered' # NoRest /\ Continues(offered)'
        BY <3>1, <1>4, <1>6, <1>7, <2>5 DEF Continues
      <3>2. QED
        BY <3>1, <1>1, <1>4, <1>5, <2>5 DEF LastInv
    <2>12. QED
      BY <1>1, <1>4, <2>5, <2>8, <2>9, <2>10, <2>11 DEF WireInv
  <1>11. QED
    BY <1>8, <1>9, <1>10

------------------------------------------------------------------------------
(* A step that sends nothing and at most drops the control replies.        *)
LEMMA QuietKeepsFrames ==
    ASSUME FrameInv, UNCHANGED <<packets, buffer, made, sent>>,
           controls' = controls \/ (controls' = <<>> /\ sock' # "open"),
           sock' = "none" => sock = "none",
           sock' = "open" => sock \in {"open", "none"}
    PROVE  FrameInv'
  <1>1. \A i \in 1..Len(controls') : i \in 1..Len(controls) /\ controls'[i] = controls[i]
    <2>1. CASE controls' = controls
      BY <2>1
    <2>2. CASE controls' = <<>>
      BY <2>2
    <2>3. QED
      BY <2>1, <2>2
  <1>2. NumbersInv'
    BY <1>1 DEF FrameInv, NumbersInv
  <1>3. SentInv'
    BY <1>1 DEF FrameInv, SentInv, Follows, sent
  <1>4. BegunInv'
    BY <1>1 DEF FrameInv, BegunInv, sent
  <1>5. WireInv' /\ LastInv'
    BY DEF FrameInv, WireInv, LastInv, FramesAreWhole, Continues, sent
  <1>6. QED
    BY <1>2, <1>3, <1>4, <1>5 DEF FrameInv

(* Pieces of frames have numbers.                                          *)
LEMMA WireNumbers ==
    ASSUME TypeOK, NEW i \in 1..Len(wire)
    PROVE  wire[i].n \in Nat
  <1>1. wire[i] \in Pieces
    BY DEF TypeOK
  <1>2. QED
    BY <1>1 DEF Pieces

(* A new packet gets a number above those of all others.                   *)
LEMMA PacketKeepsFrames ==
    ASSUME TypeOK, FrameInv, UNCHANGED <<buffer, controls, sock, sent>>,
           packets' = Append(packets, made.binary + 1),
           made' = [made EXCEPT !.binary = @ + 1]
    PROVE  FrameInv'
  <1>1. /\ packets \in Seq(Nat) /\ Len(packets) \in Nat
        /\ made.binary \in Nat /\ made.control \in Nat
        /\ made'.binary = made.binary + 1 /\ made'.control = made.control
    BY DEF TypeOK
  <1>2. /\ Len(packets') = Len(packets) + 1 /\ packets' # <<>>
        /\ packets'[Len(packets) + 1] = made.binary + 1
        /\ \A i \in 1..Len(packets) : packets'[i] = packets[i] /\ packets[i] \in Nat
    BY <1>1
  <1>3. \A j \in 1..Len(packets') :
            \/ j \in 1..Len(packets) /\ packets'[j] = packets[j]
            \/ j = Len(packets) + 1 /\ packets'[j] = made.binary + 1
    BY <1>1, <1>2
  <1>4. NumbersInv'
    <2>1. \A i \in 1..Len(packets) : packets[i] <= made.binary
      BY DEF FrameInv, NumbersInv
    <2>2. \A i \in 1..Len(packets') : packets'[i] <= made'.binary
      BY <1>1, <1>2, <1>3, <2>1
    <2>3. ASSUME NEW i \in 1..Len(packets'), NEW j \in 1..Len(packets'), i < j
          PROVE  packets'[i] < packets'[j]
      <3>1. i \in 1..Len(packets) /\ packets'[i] = packets[i]
        BY <1>1, <1>2, <2>3
      <3>2. CASE j = Len(packets) + 1
        BY <1>1, <1>2, <2>1, <3>1, <3>2
      <3>3. CASE j \in 1..Len(packets) /\ packets'[j] = packets[j]
        BY <2>3, <3>1, <3>3 DEF FrameInv, NumbersInv
      <3>4. QED
        BY <1>3, <3>2, <3>3
    <2>4. QED
      BY <1>1, <2>2, <2>3 DEF FrameInv, NumbersInv
  <1>5. SentInv'
    <2>1. ASSUME NEW i \in 1..Len(wire), wire[i].kind = "binary"
          PROVE  /\ wire[i].n <= made'.binary
                 /\ \A j \in 1..Len(packets') : Follows(wire[i], packets'[j])
      <3>1. /\ wire[i].n <= made.binary
            /\ \A j \in 1..Len(packets) : Follows(wire[i], packets[j])
        BY <2>1 DEF FrameInv, SentInv
      <3>2. wire[i].n \in Nat
        BY WireNumbers
      <3>3. Follows(wire[i], made.binary + 1)
        BY <1>1, <3>1, <3>2 DEF Follows
      <3>4. QED
        BY <1>1, <1>3, <3>1, <3>2, <3>3
    <2>2. QED
      BY <1>1, <2>1 DEF FrameInv, SentInv, Follows, sent
  <1>6. BegunInv'
    <2>1. packets # <<>> => packets'[1] = packets[1]
      BY <1>1, <1>2
    <2>2. QED
      BY <1>2, <2>1 DEF FrameInv, BegunInv, sent
  <1>7. WireInv' /\ LastInv'
    BY DEF FrameInv, WireInv, LastInv, FramesAreWhole, Continues, sent
  <1>8. QED
    BY <1>4, <1>5, <1>6, <1>7 DEF FrameInv

(* So does a new control reply.                                            *)
LEMMA ReplyKeepsFrames ==
    ASSUME TypeOK, FrameInv, UNCHANGED <<packets, buffer, sock, sent>>,
           sock = "open",
           controls' = Append(controls, Frame("control", made.control + 1)),
           made' = [made EXCEPT !.control = @ + 1]
    PROVE  FrameInv'
  <1> DEFINE reply == Frame("control", made.control + 1)
  <1>1. /\ controls \in Seq(Rests) /\ Len(controls) \in Nat
        /\ made.binary \in Nat /\ made.control \in Nat
        /\ made'.control = made.control + 1 /\ made'.binary = made.binary
    BY DEF TypeOK
  <1>2. /\ reply.kind = "control" /\ reply.n = made.control + 1 /\ reply.from = 0
    BY DEF Frame
  <1> HIDE DEF reply
  <1>3. /\ Len(controls') = Len(controls) + 1 /\ controls' # <<>>
        /\ controls'[Len(controls) + 1] = reply
        /\ \A i \in 1..Len(controls) : controls'[i] = controls[i]
    BY <1>1 DEF reply
  <1>4. \A j \in 1..Len(controls') :
            \/ j \in 1..Len(controls) /\ controls'[j] = controls[j]
            \/ j = Len(controls) + 1 /\ controls'[j] = reply
    BY <1>1, <1>3
  <1>5. \A i \in 1..Len(controls) : controls[i].n \in Nat
    <2>1. \A r \in Rests : r.n \in Nat
      BY DEF Rests
    <2>2. QED
      BY <1>1, <2>1
  <1>6. NumbersInv'
    <2>1. \A i \in 1..Len(controls) :
              controls[i].kind = "control" /\ controls[i].n <= made.control
      BY DEF FrameInv, NumbersInv
    <2>2. \A i \in 1..Len(controls') :
              controls'[i].kind = "control" /\ controls'[i].n <= made'.control
      BY <1>1, <1>2, <1>4, <1>5, <2>1
    <2>3. ASSUME NEW i \in 1..Len(controls'), NEW j \in 1..Len(controls'), i < j
          PROVE  controls'[i].n < controls'[j].n
      <3>1. i \in 1..Len(controls) /\ controls'[i] = controls[i]
        BY <1>1, <1>3, <2>3
      <3>2. CASE j = Len(controls) + 1
        BY <1>1, <1>2, <1>3, <1>5, <2>1, <3>1, <3>2
      <3>3. CASE j \in 1..Len(controls) /\ controls'[j] = controls[j]
        BY <2>3, <3>1, <3>3 DEF FrameInv, NumbersInv
      <3>4. QED
        BY <1>4, <3>2, <3>3
    <2>4. QED
      BY <1>1, <2>2, <2>3 DEF FrameInv, NumbersInv
  <1>7. SentInv'
    <2>1. ASSUME NEW i \in 1..Len(wire), wire[i].kind = "control"
          PROVE  /\ wire[i].n <= made'.control
                 /\ \A j \in 1..Len(controls') : Follows(wire[i], controls'[j].n)
      <3>1. /\ wire[i].n <= made.control
            /\ \A j \in 1..Len(controls) : Follows(wire[i], controls[j].n)
        BY <2>1 DEF FrameInv, SentInv
      <3>2. wire[i].n \in Nat
        BY WireNumbers
      <3>3. Follows(wire[i], reply.n)
        BY <1>1, <1>2, <3>1, <3>2 DEF Follows
      <3>4. QED
        BY <1>1, <1>4, <3>1, <3>2, <3>3
    <2>2. QED
      BY <1>1, <2>1 DEF FrameInv, SentInv, Follows, sent
  <1>8. BegunInv'
    <2>1. controls # <<>> => 1 \in 1..Len(controls) /\ controls'[1] = controls[1]
      BY <1>1, <1>3
    <2>2. \A i \in 1..Len(controls') :
              /\ controls'[i].from < FrameSize
              /\ controls'[i].from = 0 \/ (i = 1 /\ offered' = controls'[1])
      BY <1>2, <1>4, WriterAssumption DEF FrameInv, BegunInv, sent
    <2>3. QED
      BY <1>3, <2>1, <2>2 DEF FrameInv, BegunInv, sent
  <1>9. WireInv' /\ LastInv'
    BY DEF FrameInv, WireInv, LastInv, FramesAreWhole, Continues, sent
  <1>10. QED
    BY <1>6, <1>7, <1>8, <1>9 DEF FrameInv

(* A part of a control reply, or all of it, goes out.                      *)
LEMMA ControlKeepsFrames ==
    ASSUME TypeOK, FrameInv, sock = "open", MayFlush, NEW stopped,
           SendControl(stopped), UNCHANGED <<packets, buffer, sock, made>>
    PROVE  FrameInv'
  <1> DEFINE data == controls[1]
  <1>1. /\ controls \in Seq(Rests) /\ Len(controls) \in Nat /\ Len(controls) > 0
        /\ data \in Rests /\ Head(controls) = data /\ buffer = NoRest
    BY DEF TypeOK, MayFlush
  <1>2. PICK end \in EndsOf(data) :
            /\ Send(data, end)
            /\ IF end = FrameSize THEN controls' = Tail(controls)
               ELSE controls' = [controls EXCEPT ![1].from = end]
    BY <1>1 DEF SendControl
  <1>3. /\ data.kind = "control" /\ data # NoRest
        /\ data.from < FrameSize /\ (offered = NoRest => data.from = 0)
        /\ offered \in {NoRest, data}
    BY <1>1 DEF FrameInv, NumbersInv, BegunInv, NoRest
  <1> HIDE DEF data
  <1>4. MaySend(data)
    BY <1>1, <1>3 DEF MaySend, FrameInv, SentInv, data
  <1>5. /\ WireInv' /\ LastInv'
        /\ end \in Nat /\ end <= FrameSize
        /\ offered' = RestFrom(data, end)
        /\ \A i \in 1..Len(wire') :
              \/ i \in 1..Len(wire) /\ wire'[i] = wire[i]
              \/ /\ wire'[i].kind = data.kind /\ wire'[i].n = data.n
                 /\ wire'[i].end = end
    BY <1>2, <1>4, SendKeepsWire DEF FrameInv
  <1>6. \A i \in 1..Len(wire') : wire'[i].kind = "binary" =>
            /\ wire'[i].n <= made'.binary
            /\ \A j \in 1..Len(packets') : Follows(wire'[i], packets'[j])
    BY <1>3, <1>5 DEF FrameInv, SentInv
  <1>7. /\ \A i, j \in 1..Len(controls) : i < j => controls[i].n < controls[j].n
        /\ \A i \in 1..Len(controls) :
              /\ controls[i].kind = "control" /\ controls[i].n <= made.control
              /\ controls[i].n \in Nat
        /\ data.n = controls[1].n
    <2>1. \A r \in Rests : r.n \in Nat
      BY DEF Rests
    <2>2. QED
      BY <1>1, <2>1 DEF FrameInv, NumbersInv, data
  <1>8. \A i \in 1..Len(wire) : wire[i].kind = "control" =>
            /\ wire[i].n <= made.control
            /\ \A j \in 1..Len(controls) : Follows(wire[i], controls[j].n)
    BY DEF FrameInv, SentInv
  <1>9. CASE end = FrameSize
    <2>1. /\ Len(controls') = Len(controls) - 1
          /\ \A i \in 1..Len(controls') : i + 1 \in 1..Len(controls)
                                          /\ controls'[i] = controls[i + 1]
      BY <1>1, <1>2, <1>9, TailPositions
    <2>2. NumbersInv'
      <3>1. ASSUME NEW i \in 1..Len(controls'), NEW j \in 1..Len(controls'), i < j
            PROVE  controls'[i].n < controls'[j].n
        <4>1. /\ i + 1 \in 1..Len(controls) /\ controls'[i] = controls[i + 1]
              /\ j + 1 \in 1..Len(controls) /\ controls'[j] = controls[j + 1]
              /\ i + 1 < j + 1
          BY <2>1, <3>1
        <4>2. QED
          BY <1>7, <4>1
      <3>2. \A i \in 1..Len(controls') :
                controls'[i].kind = "control" /\ controls'[i].n <= made.control
        BY <1>7, <2>1
      <3>3. QED
        BY <3>1, <3>2 DEF FrameInv, NumbersInv
    <2>3. ASSUME NEW i \in 1..Len(wire'), wire'[i].kind = "control"
          PROVE  /\ wire'[i].n <= made'.control
                 /\ \A j \in 1..Len(controls') : Follows(wire'[i], controls'[j].n)
      <3>1. CASE i \in 1..Len(wire) /\ wire'[i] = wire[i]
        BY <1>8, <2>1, <2>3, <3>1
      <3>2. CASE wire'[i].n = data.n /\ wire'[i].end = end
        <4>1. ASSUME NEW j \in 1..Len(controls') PROVE data.n < controls'[j].n
          BY <1>1, <1>7, <2>1
        <4>2. data.n <= made.control /\ data.n \in Nat
          BY <1>1, <1>7
        <4>3. \A j \in 1..Len(controls') : controls'[j].n \in Nat
          BY <1>7, <2>1
        <4>4. QED
          BY <3>2, <4>1, <4>2, <4>3 DEF Follows
      <3>3. QED
        BY <1>5, <3>1, <3>2
    <2>4. SentInv'
      BY <1>6, <2>3 DEF SentInv
    <2>5. offered' = NoRest /\ buffer' = NoRest
      BY <1>1, <1>5, <1>9 DEF RestFrom
    <2>6. \A i \in 1..Len(controls) : i # 1 => controls[i].from = 0
      BY DEF FrameInv, BegunInv
    <2>7. BegunInv'
      BY <1>1, <2>1, <2>5, <2>6, WriterAssumption DEF BegunInv
    <2>8. QED
      BY <1>5, <2>2, <2>4, <2>7 DEF FrameInv
  <1>10. CASE end # FrameSize
    <2>1. /\ Len(controls') = Len(controls)
          /\ controls'[1] = [data EXCEPT !.from = end]
          /\ \A i \in 1..Len(controls) : i # 1 => controls'[i] = controls[i]
      BY <1>1, <1>2, <1>10 DEF data
    <2>2. /\ controls'[1].kind = "control" /\ controls'[1].n = data.n
          /\ controls'[1].from = end
      BY <1>1, <1>3, <2>1 DEF Rests
    <2>3. \A i \in 1..Len(controls) :
              controls'[i].n = controls[i].n /\ controls'[i].kind = "control"
      BY <1>7, <2>1, <2>2
    <2>4. NumbersInv'
      BY <1>7, <2>1, <2>3 DEF FrameInv, NumbersInv
    <2>5. ASSUME NEW i \in 1..Len(wire'), wire'[i].kind = "control"
          PROVE  /\ wire'[i].n <= made'.control
                 /\ \A j \in 1..Len(controls') : Follows(wire'[i], controls'[j].n)
      <3>1. CASE i \in 1..Len(wire) /\ wire'[i] = wire[i]
        BY <1>8, <2>1, <2>3, <2>5, <3>1
      <3>2. CASE wire'[i].n = data.n /\ wire'[i].end = end
        <4>1. ASSUME NEW j \in 1..Len(controls) PROVE data.n <= controls[j].n
          BY <1>1, <1>7
        <4>2. data.n <= made.control /\ data.n \in Nat
          BY <1>1, <1>7
        <4>3. QED
          BY <1>5, <1>10, <2>1, <2>3, <3>2, <4>1, <4>2 DEF Follows
      <3>3. QED
        BY <1>5, <3>1, <3>2
    <2>6. SentInv'
      BY <1>6, <2>5 DEF SentInv
    <2>7. offered' = controls'[1] /\ buffer' = NoRest
      BY <1>1, <1>5, <1>10, <2>1 DEF RestFrom
    <2>8. /\ end < FrameSize /\ controls' # <<>>
          /\ \A i \in 1..Len(controls) : i # 1 =>
                controls[i].from = 0 /\ controls[i].from < FrameSize
      BY <1>1, <1>5, <1>10, <2>1, WriterAssumption DEF FrameInv, BegunInv
    <2>9. BegunInv'
      BY <2>1, <2>2, <2>7, <2>8 DEF BegunInv
    <2>10. QED
      BY <1>5, <2>4, <2>6, <2>9 DEF FrameInv
  <1>11. QED
    BY <1>9, <1>10

(* A part of the frame of the first packet, or all of it, goes out.        *)
LEMMA BinaryKeepsFrames ==
    ASSUME TypeOK, FrameInv, sock = "open", SendBinary
    PROVE  FrameInv'
  <1> DEFINE data == IF buffer = NoRest THEN Frame("binary", Head(packets)) ELSE buffer
  <1>1. /\ packets \in Seq(Nat) /\ Len(packets) \in Nat /\ Len(packets) > 0
        /\ Head(packets) = packets[1] /\ packets[1] \in Nat
        /\ ~MayFlush /\ UNCHANGED <<controls, sock, made>>
    BY DEF SendBinary, TypeOK, conn, regs
  <1>2. PICK end \in EndsOf(data) :
            /\ Send(data, end)
            /\ buffer' = RestFrom(data, end)
            /\ IF end = FrameSize THEN packets' = Tail(packets) ELSE packets' = packets
    BY DEF SendBinary
  <1>3. /\ data \in Rests /\ data.kind = "binary" /\ data.n = packets[1]
        /\ data.from < FrameSize /\ offered \in {NoRest, data}
        /\ offered = NoRest => data.from = 0
    <2>1. CASE buffer = NoRest
      <3>1. offered = NoRest
        BY <1>1, <2>1 DEF MayFlush, FrameInv, BegunInv
      <3>2. QED
        BY <1>1, <2>1, <3>1, WriterAssumption DEF Frame, Rests
    <2>2. CASE buffer # NoRest
      BY <2>2 DEF FrameInv, BegunInv, TypeOK
    <2>3. QED
      BY <2>1, <2>2
  <1> HIDE DEF data
  <1>4. MaySend(data)
    BY <1>1, <1>3 DEF MaySend, FrameInv, SentInv
  <1>5. /\ WireInv' /\ LastInv'
        /\ end \in Nat /\ end <= FrameSize
        /\ offered' = RestFrom(data, end)
        /\ \A i \in 1..Len(wire') :
              \/ i \in 1..Len(wire) /\ wire'[i] = wire[i]
              \/ /\ wire'[i].kind = data.kind /\ wire'[i].n = data.n
                 /\ wire'[i].end = end
    BY <1>2, <1>4, SendKeepsWire DEF FrameInv
  <1>6. \A i \in 1..Len(wire') : wire'[i].kind = "control" =>
            /\ wire'[i].n <= made'.control
            /\ \A j \in 1..Len(controls') : Follows(wire'[i], controls'[j].n)
    BY <1>1, <1>3, <1>5 DEF FrameInv, SentInv
  <1>7. /\ \A i, j \in 1..Len(packets) : i < j => packets[i] < packets[j]
        /\ \A i \in 1..Len(packets) : packets[i] <= made.binary /\ packets[i] \in Nat
    BY <1>1 DEF FrameInv, NumbersInv
  <1>8. \A i \in 1..Len(wire) : wire[i].kind = "binary" =>
            /\ wire[i].n <= made.binary
            /\ \A j \in 1..Len(packets) : Follows(wire[i], packets[j])
    BY DEF FrameInv, SentInv
  <1>9. \A i \in 1..Len(controls) : controls[i].from = 0
    <2>1. offered # NoRest => \A i \in 1..Len(controls) : offered # controls[i]
      BY <1>3 DEF FrameInv, NumbersInv
    <2>2. \A i \in 1..Len(controls) : controls[i] # NoRest
      BY DEF FrameInv, NumbersInv, NoRest
    <2>3. QED
      BY <1>1, <2>1, <2>2 DEF FrameInv, BegunInv
  <1>10. NumbersInv' /\ SentInv'
    <2>1. CASE end = FrameSize
      <3>1. /\ Len(packets') = Len(packets) - 1
            /\ \A i \in 1..Len(packets') : i + 1 \in 1..Len(packets)
                                           /\ packets'[i] = packets[i + 1]
        BY <1>1, <1>2, <2>1, TailPositions
      <3>2. NumbersInv'
        <4>1. ASSUME NEW i \in 1..Len(packets'), NEW j \in 1..Len(packets'), i < j
              PROVE  packets'[i] < packets'[j]
          BY <1>7, <3>1, <4>1
        <4>2. \A i \in 1..Len(packets') : packets'[i] <= made.binary
          BY <1>7, <3>1
        <4>3. QED
          BY <1>1, <4>1, <4>2 DEF FrameInv, NumbersInv
      <3>3. ASSUME NEW i \in 1..Len(wire'), wire'[i].kind = "binary"
            PROVE  /\ wire'[i].n <= made'.binary
                   /\ \A j \in 1..Len(packets') : Follows(wire'[i], packets'[j])
        <4>1. CASE i \in 1..Len(wire) /\ wire'[i] = wire[i]
          BY <1>1, <1>8, <3>1, <3>3, <4>1
        <4>2. CASE wire'[i].n = data.n /\ wire'[i].end = end
          <5>1. ASSUME NEW j \in 1..Len(packets')
                PROVE  packets[1] < packets'[j] /\ packets'[j] \in Nat
            <6>1. /\ j + 1 \in 1..Len(packets) /\ packets'[j] = packets[j + 1]
                  /\ 1 \in 1..Len(packets) /\ 1 < j + 1
              BY <1>1, <3>1
            <6>2. QED
              BY <1>7, <6>1
          <5>2. QED
            BY <1>1, <1>3, <1>7, <4>2, <5>1 DEF Follows
        <4>3. QED
          BY <1>5, <4>1, <4>2
      <3>4. QED
        BY <1>6, <3>2, <3>3 DEF SentInv
    <2>2. CASE end # FrameSize
      <3>1. packets' = packets
        BY <1>2, <2>2
      <3>2. NumbersInv'
        BY <1>1, <3>1 DEF FrameInv, NumbersInv
      <3>3. ASSUME NEW i \in 1..Len(wire'), wire'[i].kind = "binary"
            PROVE  /\ wire'[i].n <= made'.binary
                   /\ \A j \in 1..Len(packets') : Follows(wire'[i], packets'[j])
        <4>1. CASE i \in 1..Len(wire) /\ wire'[i] = wire[i]
          BY <1>1, <1>8, <3>1, <3>3, <4>1
        <4>2. CASE wire'[i].n = data.n /\ wire'[i].end = end
          <5>1. \A j \in 1..Len(packets) : packets[1] <= packets[j]
            BY <1>1, <1>7
          <5>2. QED
            BY <1>1, <1>3, <1>5, <1>7, <2>2, <3>1, <4>2, <5>1 DEF Follows
        <4>3. QED
          BY <1>5, <4>1, <4>2
      <3>4. QED
        BY <1>6, <3>2, <3>3 DEF SentInv
    <2>3. QED
      BY <2>1, <2>2
  <1>11. BegunInv'
    <2>1. CASE end = FrameSize
      <3>1. buffer' = NoRest /\ offered' = NoRest
        BY <1>2, <1>5, <2>1 DEF RestFrom
      <3>2. QED
        BY <1>1, <1>9, <3>1, WriterAssumption DEF BegunInv
    <2>2. CASE end # FrameSize
      <3>1. buffer' = [data EXCEPT !.from = end] /\ offered' = buffer' /\ packets' = packets
        BY <1>2, <1>5, <2>2 DEF RestFrom
      <3>2. /\ buffer'.kind = "binary" /\ buffer'.n = packets[1] /\ buffer'.from = end
            /\ end < FrameSize
        BY <1>3, <1>5, <2>2, <3>1, WriterAssumption DEF Rests
      <3>3. buffer' # NoRest /\ packets # <<>>
        BY <1>1, <3>2 DEF NoRest
      <3>4. QED
        BY <1>1, <1>9, <3>1, <3>2, <3>3, WriterAssumption DEF BegunInv
    <2>3. QED
      BY <2>1, <2>2
  <1>12. QED
    BY <1>5, <1>10, <1>11 DEF FrameInv

(* Every step keeps the frames.                                            *)
LEMMA StepFrames == RegInv /\ FrameInv /\ [Next]_vars => FrameInv'
  <1> SUFFICES ASSUME RegInv, FrameInv, [Next]_vars PROVE FrameInv'
    OBVIOUS
  <1> USE DEF thread, conn, regs, queues
  <1>t. TypeOK /\ (loop # "idle" => sock = "open")
    BY DEF RegInv, OpenInv
  <1>1. CASE WorkerOpens
    <2>1. sock = "none"
      BY <1>1 DEF WorkerOpens, RegInv, OpenInv
    <2>2. QED
      BY <1>1, <2>1, QuietKeepsFrames DEF WorkerOpens
  <1>2. CASE WorkerFails
    BY <1>2, <1>t, QuietKeepsFrames DEF WorkerFails, TypeOK
  <1>3. CASE SocketOpen
    BY <1>3, <1>t, QuietKeepsFrames DEF SocketOpen, TypeOK
  <1>4. CASE WorkerSendsConnect
    BY <1>4, <1>t, PacketKeepsFrames DEF WorkerSendsConnect
  <1>5. CASE WorkerRequestsWrite
    BY <1>5, <1>t, QuietKeepsFrames DEF WorkerRequestsWrite, TypeOK
  <1>6. CASE SocketRegisterWrite
    BY <1>6, <1>t, QuietKeepsFrames DEF SocketRegisterWrite, TypeOK
  <1>7. CASE ConnectTimesOut
    BY <1>7, <1>t, QuietKeepsFrames DEF ConnectTimesOut, TypeOK
  <1>8. CASE RetireConnection
    BY <1>8, <1>t, QuietKeepsFrames DEF RetireConnection, SockClose, TypeOK
  <1>9. CASE Publish
    BY <1>9, <1>t, PacketKeepsFrames DEF Publish
  <1>10. CASE Install
    BY <1>10, <1>t, QuietKeepsFrames DEF Install, Installed, SockClose, TypeOK
  <1>11. CASE ReadyOfStale
    BY <1>11, <1>t, QuietKeepsFrames DEF ReadyOfStale, SockClose, TypeOK
  <1>12. CASE ReadAccepted
    BY <1>12, <1>t, QuietKeepsFrames DEF ReadAccepted, TypeOK
  <1>13. CASE ReadControl
    BY <1>13, <1>t, ReplyKeepsFrames DEF ReadControl, Reads, SocketIsActive
  <1>14. CASE ReadFails
    BY <1>14, <1>t, QuietKeepsFrames DEF ReadFails, SockClose, TypeOK
  <1>15. CASE WriteReady
    BY <1>15, <1>t, QuietKeepsFrames DEF WriteReady, TypeOK
  <1>16. CASE SendReplyFirst
    BY <1>16, <1>t, ControlKeepsFrames DEF SendReplyFirst
  <1>17. CASE SendBinary
    <2>1. sock = "open"
      BY <1>17, <1>t DEF SendBinary
    <2>2. QED
      BY <1>17, <1>t, <2>1, BinaryKeepsFrames
  <1>18. CASE PacketsEnd
    BY <1>18, <1>t, QuietKeepsFrames DEF PacketsEnd, TypeOK
  <1>19. CASE Flush
    BY <1>19, <1>t, ControlKeepsFrames DEF Flush
  <1>20. CASE GuardedWriteEnds
    BY <1>20, <1>t, QuietKeepsFrames DEF GuardedWriteEnds, TypeOK
  <1>21. CASE WriteFails
    BY <1>21, <1>t, QuietKeepsFrames DEF WriteFails, SockClose, TypeOK
  <1>22. CASE UNCHANGED vars
    BY <1>22, <1>t, QuietKeepsFrames DEF vars, TypeOK
  <1>23. QED
    BY <1>1, <1>2, <1>3, <1>4, <1>5, <1>6, <1>7, <1>8, <1>9, <1>10, <1>11, <1>12,
       <1>13, <1>14, <1>15, <1>16, <1>17, <1>18, <1>19, <1>20, <1>21, <1>22 DEF Next

(* What the peer reads is whole frames, each kind in its order, whatever   *)
(* the socket refuses or cuts (_send_binary, flush).                       *)
THEOREM FramesStayWhole == Spec => []FramesAreWhole
  <1>1. FrameInv => FramesAreWhole
    BY DEF FrameInv, WireInv
  <1>2. QED
    BY <1>1, InitFrames, StepFrames, AlwaysRegs, PTL DEF Spec
=============================================================================

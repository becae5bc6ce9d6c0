--------------------------- MODULE WebSocketWriter ---------------------------
(* The guard of mqtt_io_guard.py around one WebSocket connection of Paho:  *)
(* the connect worker, a thread that may outlive its waiter, the callbacks *)
(* it queues on the event loop, the readiness callbacks of the socket, and *)
(* the writer that keeps frames whole on a TLS socket which may refuse or  *)
(* cut any send.  Paho and aiomqtt are external and modelled by what the   *)
(* guard relies on: Paho sends a packet as one binary frame through        *)
(* _sendbuffer, keeps the packet until its frame is gone, answers control  *)
(* frames from its parser, and asks for write readiness once until it      *)
(* takes the request back.                                                 *)
EXTENDS Naturals, Sequences

CONSTANTS
    ControlLimit,   \* control replies the queue holds: 128 in the code
    FrameSize,      \* bytes of a frame
    MaxFrames       \* bound: packets, and control replies, of the connection

ASSUME WriterAssumption ==
    /\ ControlLimit \in Nat /\ MaxFrames \in Nat
    /\ FrameSize \in Nat \ {0}

VARIABLES
    worker,     \* the connect worker of aiomqtt, a thread of its own
    waiter,     \* client._connected: "waiting", "connected" or "cancelled"
    retired,    \* retire_connection has run
    lost,       \* client._disconnected holds an exception
    sock,       \* Paho's socket: "none" yet, "open" or "closed"
    callbacks,  \* registrations queued on the event loop (call_soon_threadsafe)
    reader,     \* the reader is registered and the keepalive task runs
    writer,     \* the writer is registered
    wanted,     \* Paho's _registered_write: it has asked for write readiness
    packets,    \* Paho's _out_packet, the numbers of packets that are not sent
    buffer,     \* _sendbuffer: what is left of the frame of the first packet
    controls,   \* control replies that wait, the first perhaps begun
    loop,       \* the event loop: "idle", or inside guarded_write
    made,       \* how many packets and control replies there have been
    offered,    \* history: what is left of a send the socket did not finish
    mixed,      \* history: such a send was not repeated with the same bytes
    wire        \* history: what the socket took, adjoining pieces of a frame joined

thread == <<worker>>
conn == <<waiter, retired, lost>>
regs == <<reader, writer, wanted>>
queues == <<packets, buffer, controls>>
sent == <<offered, mixed, wire>>
vars == <<thread, conn, sock, callbacks, regs, queues, loop, made, sent>>

(* What is left of a frame: the bytes after the first "from".              *)
Rests == [kind : {"binary", "control"}, n : Nat, from : Nat]
NoRest == [kind |-> "none", n |-> 0, from |-> 0]
Pieces == [kind : {"binary", "control"}, n : Nat, from : Nat, end : Nat]
Frame(kind, n) == [kind |-> kind, n |-> n, from |-> 0]

Init ==
    /\ worker = "upgrading" /\ waiter = "waiting"
    /\ retired = FALSE /\ lost = FALSE
    /\ sock = "none" /\ callbacks = <<>>
    /\ reader = FALSE /\ writer = FALSE /\ wanted = FALSE
    /\ packets = <<>> /\ buffer = NoRest /\ controls = <<>>
    /\ loop = "idle"
    /\ made = [binary |-> 0, control |-> 0]
    /\ offered = NoRest /\ mixed = FALSE /\ wire = <<>>

(* Variant with a bug: only packets count, as in Paho.                     *)
WantWriteOfPaho == packets # <<>>

(* want_write: packets, or control replies of the live socket.             *)
WantWrite == packets # <<>> \/ controls # <<>>

(* socket_is_active, of the socket a callback was queued for.              *)
SocketIsActive == sock = "open" /\ ~retired /\ waiter # "cancelled"

(* Paho's _sock_close with its hooks, and the writer's close.              *)
SockClose ==
    IF sock = "open"
    THEN /\ sock' = "closed" /\ controls' = <<>>
         /\ reader' = FALSE /\ writer' = FALSE /\ wanted' = FALSE
    ELSE UNCHANGED <<sock, controls, regs>>

(* Paho asks for write readiness, unless it has asked already: the hook    *)
(* queues install_writer.                                                  *)
RequestWrite ==
    /\ wanted' = TRUE
    /\ callbacks' = IF wanted THEN callbacks ELSE Append(callbacks, "writer")

------------------------------------------------------------------------------
(* The connect worker: it runs between any two steps of the event loop,    *)
(* and inside guarded_write.                                               *)

WorkerOpens ==
    /\ worker = "upgrading"
    /\ worker' = "opened" /\ sock' = "open"
    /\ UNCHANGED <<conn, callbacks, regs, queues, loop, made, sent>>

WorkerFails ==
    /\ worker = "upgrading"
    /\ worker' = "ended" /\ lost' = TRUE
    /\ UNCHANGED <<waiter, retired, sock, callbacks, regs, queues, loop, made, sent>>

(* socket_open: the adapter is installed, the reader's registration queued.*)
SocketOpen ==
    /\ worker = "opened"
    /\ worker' = "hooked"
    /\ callbacks' = Append(callbacks, "reader")
    /\ UNCHANGED <<conn, sock, regs, queues, loop, made, sent>>

WorkerSendsConnect ==
    /\ worker = "hooked"
    /\ worker' = "queued"
    /\ packets' = Append(packets, made.binary + 1)
    /\ made' = [made EXCEPT !.binary = @ + 1]
    /\ UNCHANGED <<conn, sock, callbacks, regs, buffer, controls, loop, sent>>

(* Paho looks at its socket, and only then calls socket_register_write.    *)
WorkerRequestsWrite ==
    /\ worker = "queued"
    /\ IF sock = "open" /\ ~wanted
       THEN worker' = "asking" /\ wanted' = TRUE
       ELSE worker' = "ended" /\ UNCHANGED wanted
    /\ UNCHANGED <<conn, sock, callbacks, reader, writer, queues, loop, made, sent>>

SocketRegisterWrite ==
    /\ worker = "asking"
    /\ worker' = "ended"
    /\ callbacks' = Append(callbacks, "writer")
    /\ UNCHANGED <<conn, sock, regs, queues, loop, made, sent>>

------------------------------------------------------------------------------
(* The owner of the connection.                                            *)

(* The waiter for the connection times out or is cancelled.                *)
ConnectTimesOut ==
    /\ loop = "idle" /\ waiter = "waiting"
    /\ waiter' = "cancelled"
    /\ UNCHANGED <<thread, retired, lost, sock, callbacks, regs, queues, loop, made, sent>>

(* websocket_connection is left, for whatever reason: retire_connection.   *)
RetireConnection ==
    /\ loop = "idle" /\ ~retired
    /\ retired' = TRUE
    /\ waiter' = IF waiter = "waiting" THEN "cancelled" ELSE waiter
    /\ SockClose
    /\ UNCHANGED <<thread, lost, callbacks, packets, buffer, loop, made, sent>>

Publish ==
    /\ loop = "idle" /\ waiter = "connected" /\ sock = "open"
    /\ made.binary < MaxFrames
    /\ packets' = Append(packets, made.binary + 1)
    /\ made' = [made EXCEPT !.binary = @ + 1]
    /\ RequestWrite
    /\ UNCHANGED <<thread, conn, sock, reader, writer, buffer, controls, loop, sent>>

------------------------------------------------------------------------------
(* Callbacks of the event loop.                                            *)

(* Variants with a bug: a queued registration does not look at its socket, *)
(* or leaves a socket nobody owns open.                                    *)
InstalledUnchecked(c) ==
    /\ reader' = (reader \/ c = "reader")
    /\ writer' = (writer \/ (c = "writer" /\ WantWrite))
    /\ UNCHANGED <<sock, controls, wanted>>

InstalledLeaking(c) ==
    /\ reader' = (reader \/ (c = "reader" /\ SocketIsActive))
    /\ writer' = (writer \/ (c = "writer" /\ SocketIsActive /\ WantWrite))
    /\ UNCHANGED <<sock, controls, wanted>>

(* install_reader and install_writer: the socket may have been closed, or  *)
(* its connection given up, since the registration was queued.             *)
Installed(c) ==
    IF SocketIsActive
    THEN /\ reader' = (reader \/ c = "reader")
         /\ writer' = (writer \/ (c = "writer" /\ WantWrite))
         /\ UNCHANGED <<sock, controls, wanted>>
    ELSE SockClose

Install ==
    /\ loop = "idle" /\ callbacks # <<>>
    /\ callbacks' = Tail(callbacks)
    /\ Installed(Head(callbacks))
    /\ UNCHANGED <<thread, conn, packets, buffer, loop, made, sent>>

(* read_ready or write_ready of a connection that was given up.            *)
ReadyOfStale ==
    /\ loop = "idle" /\ ~SocketIsActive
    /\ reader \/ writer
    /\ SockClose
    /\ UNCHANGED <<thread, conn, callbacks, packets, buffer, loop, made, sent>>

(* read_ready.                                                             *)
Reads == loop = "idle" /\ reader /\ SocketIsActive

(* The broker accepts the connection once it has the CONNECT packet.       *)
ReadAccepted ==
    /\ Reads /\ waiter = "waiting"
    /\ made.binary = 1 /\ packets = <<>>
    /\ waiter' = "connected"
    /\ UNCHANGED <<thread, retired, lost, sock, callbacks, regs, queues, loop, made, sent>>

(* Paho answers a PING or CLOSE: its reply waits its turn.  The broker     *)
(* sends none before the connect worker has sent its packet.               *)
ReadControl ==
    /\ Reads /\ worker = "ended"
    /\ made.control < MaxFrames
    /\ Len(controls) < ControlLimit
    /\ controls' = Append(controls, Frame("control", made.control + 1))
    /\ made' = [made EXCEPT !.control = @ + 1]
    /\ RequestWrite
    /\ UNCHANGED <<thread, conn, sock, reader, writer, packets, buffer, loop, sent>>

(* The peer has gone, or a reply finds the queue full: Paho closes the     *)
(* socket.                                                                 *)
ReadFails ==
    /\ Reads
    /\ lost' = TRUE
    /\ SockClose
    /\ UNCHANGED <<thread, waiter, retired, callbacks, packets, buffer, loop, made, sent>>

------------------------------------------------------------------------------
(* guarded_write, one send at a time.                                      *)

WriteReady ==
    /\ loop = "idle" /\ writer /\ SocketIsActive
    /\ loop' = "packets"
    /\ UNCHANGED <<thread, conn, sock, callbacks, regs, queues, made, sent>>

(* Ends of a send of data: the socket may refuse it, take a part or all.   *)
EndsOf(data) == data.from..FrameSize

RestFrom(data, end) ==
    IF end = FrameSize THEN NoRest ELSE [data EXCEPT !.from = end]

(* data begins where the last piece on the wire ends.                      *)
Continues(data) ==
    /\ wire # <<>>
    /\ LET last == wire[Len(wire)]
       IN last.kind = data.kind /\ last.n = data.n /\ last.end = data.from

(* TLS wants a send that was not finished repeated with what is left.      *)
Send(data, end) ==
    /\ wire' = IF end = data.from THEN wire
               ELSE IF Continues(data) THEN [wire EXCEPT ![Len(wire)].end = end]
               ELSE Append(wire, [kind |-> data.kind, n |-> data.n,
                                  from |-> data.from, end |-> end])
    /\ offered' = RestFrom(data, end)
    /\ mixed' = (mixed \/ offered \notin {NoRest, data})

(* Variant with a bug: control replies do not look at the binary frame.    *)
MayFlushAnyTime == controls # <<>>

(* flush sends the first control reply, unless a binary frame has begun.   *)
MayFlush == controls # <<>> /\ buffer = NoRest

SendControl(stopped) ==
    \E end \in EndsOf(Head(controls)) :
        /\ Send(Head(controls), end)
        /\ IF end = FrameSize
           THEN controls' = Tail(controls) /\ UNCHANGED loop
           ELSE controls' = [controls EXCEPT ![1].from = end] /\ loop' = stopped

(* _send_binary lets waiting replies go first, between two frames.         *)
SendReplyFirst ==
    /\ loop = "packets" /\ packets # <<>> /\ MayFlush
    /\ SendControl("flush")
    /\ UNCHANGED <<thread, conn, sock, callbacks, regs, packets, buffer, made>>

(* Paho's _send_impl: the frame of the first packet, or what is left of it.*)
SendBinary ==
    /\ loop = "packets" /\ packets # <<>> /\ ~MayFlush
    /\ LET data == IF buffer = NoRest THEN Frame("binary", Head(packets)) ELSE buffer
       IN \E end \in EndsOf(data) :
             /\ Send(data, end)
             /\ buffer' = RestFrom(data, end)
             /\ IF end = FrameSize
                THEN packets' = Tail(packets) /\ UNCHANGED loop
                ELSE loop' = "flush" /\ UNCHANGED packets
    /\ UNCHANGED <<thread, conn, sock, callbacks, regs, controls, made>>

PacketsEnd ==
    /\ loop = "packets" /\ packets = <<>>
    /\ loop' = "flush"
    /\ UNCHANGED <<thread, conn, sock, callbacks, regs, queues, made, sent>>

Flush ==
    /\ loop = "flush" /\ MayFlush
    /\ SendControl("ending")
    /\ UNCHANGED <<thread, conn, sock, callbacks, regs, packets, buffer, made>>

(* Nothing more can be sent now.  The writer stays while there is a wish.  *)
GuardedWriteEnds ==
    /\ \/ loop = "flush" /\ ~MayFlush
       \/ loop = "ending"
    /\ loop' = "idle"
    /\ IF WantWrite THEN UNCHANGED <<writer, wanted>>
                    ELSE writer' = FALSE /\ wanted' = FALSE
    /\ UNCHANGED <<thread, conn, sock, callbacks, reader, queues, made, sent>>

(* A send raises.  Paho closes the socket; after a failed control reply    *)
(* fail_connection leaves that to the owner.                               *)
WriteFails ==
    /\ \/ loop = "packets" /\ packets # <<>>
       \/ loop = "flush" /\ MayFlush
    /\ loop' = "idle"
    /\ lost' = TRUE
    /\ IF loop = "packets" THEN SockClose ELSE UNCHANGED <<sock, controls, regs>>
    /\ UNCHANGED <<thread, waiter, retired, callbacks, packets, buffer, made, sent>>

------------------------------------------------------------------------------
Next ==
    \/ WorkerOpens \/ WorkerFails \/ SocketOpen \/ WorkerSendsConnect
    \/ WorkerRequestsWrite \/ SocketRegisterWrite
    \/ ConnectTimesOut \/ RetireConnection \/ Publish
    \/ Install \/ ReadyOfStale \/ ReadAccepted \/ ReadControl \/ ReadFails
    \/ WriteReady \/ SendReplyFirst \/ SendBinary \/ PacketsEnd \/ Flush
    \/ GuardedWriteEnds \/ WriteFails

Spec == Init /\ [][Next]_vars

(* The event loop and the worker do not rest while they can run on, a      *)
(* connection that failed or was given up is left by its owner, and a      *)
(* socket that lives does not refuse every byte for ever.                  *)
RunsOn == \/ WorkerOpens \/ WorkerFails \/ SocketOpen \/ WorkerSendsConnect
          \/ WorkerRequestsWrite \/ SocketRegisterWrite
          \/ Install \/ ReadyOfStale \/ WriteReady \/ SendReplyFirst
          \/ SendBinary \/ PacketsEnd \/ Flush \/ GuardedWriteEnds \/ WriteFails

OwnerLeaves == (lost \/ waiter = "cancelled") /\ RetireConnection

Takes == (SendReplyFirst \/ SendBinary \/ Flush) /\ wire' # wire

FairSpec == Spec /\ WF_vars(RunsOn) /\ WF_vars(OwnerLeaves) /\ SF_vars(Takes)

------------------------------------------------------------------------------
(* Types.  Registrations belong to an open socket, and a registered writer *)
(* is one Paho will take back (socket_is_active, install_reader,           *)
(* install_writer): no callback or keepalive task outlives its socket.     *)
TypeOK ==
    /\ worker \in {"upgrading", "opened", "hooked", "queued", "asking", "ended"}
    /\ waiter \in {"waiting", "connected", "cancelled"}
    /\ retired \in BOOLEAN /\ lost \in BOOLEAN
    /\ sock \in {"none", "open", "closed"}
    /\ callbacks \in Seq({"reader", "writer"})
    /\ reader \in BOOLEAN /\ writer \in BOOLEAN /\ wanted \in BOOLEAN
    /\ packets \in Seq(Nat) /\ controls \in Seq(Rests)
    /\ {buffer, offered} \subseteq Rests \cup {NoRest}
    /\ mixed \in BOOLEAN
    /\ wire \in Seq(Pieces)
    /\ made \in [binary : Nat, control : Nat]
    /\ loop \in {"idle", "packets", "flush", "ending"}
    /\ reader \/ wanted => sock = "open"
    /\ writer => wanted
    /\ Len(controls) <= ControlLimit

(* What the peer reads is whole frames, each kind in its order, whatever   *)
(* the socket refuses or cuts, and a send that was not finished is always  *)
(* repeated with the same bytes (_send_binary, flush).                     *)
FramesAreWhole ==
    /\ ~mixed
    /\ \A i \in 1..Len(wire) :
          wire[i].from = 0 /\ (i < Len(wire) => wire[i].end = FrameSize)
    /\ \A i, j \in 1..Len(wire) :
          i < j /\ wire[i].kind = wire[j].kind => wire[i].n < wire[j].n

Queued(c, queue) == \E i \in 1..Len(queue) : queue[i] = c

(* A wish to write always has somebody who will see it: a registered       *)
(* writer, a queued registration or the worker that is about to ask.  And  *)
(* a socket that was opened for a connection already given up has a        *)
(* callback or the worker that will close it (install_writer, want_write,  *)
(* guarded_write, retire_connection).                                      *)
NothingIsForgotten ==
    sock = "open" =>
        /\ WantWrite =>
              \/ writer \/ worker \in {"queued", "asking"}
              \/ Queued("writer", callbacks)
        /\ retired =>
              \/ worker = "opened"
              \/ Queued("reader", callbacks)

(* An open socket that has something to write, or that nobody owns.        *)
Owes == sock = "open" /\ (packets # <<>> \/ controls # <<>> \/ retired)

(* Queued bytes leave and a socket nobody owns is closed, unless the       *)
(* connection ends otherwise: the peer need only read on (want_write,      *)
(* guarded_write, install_writer, retire_connection).                      *)
WritesDrain == Owes ~> ~Owes
=============================================================================

-------------------------- MODULE FrameReassembly --------------------------
(***************************************************************************)
(* The road of a radar scan from the PC to RadarProcessor's input queue:   *)
(*   RadarPacketizer and RadarUdpSender (simulink_hils) cut a scan into    *)
(*   PacketCount datagrams and write them one by one;                      *)
(*   UDP loses, reorders and may duplicate them;                           *)
(*   PacketReceiver (one thread) pushes what arrives to packet_queue;      *)
(*   RadarReassembler (one thread) collects them by frame id and pushes a  *)
(*   RadarFrame when the packet counter of the frame reaches packet_count. *)
(* Payload bytes are abstracted to where they come from.  The two queues   *)
(* are FIFO sequences: that is what ThreadSafeQueue implements.            *)
(***************************************************************************)
EXTENDS Naturals, Sequences, FiniteSets

CONSTANTS
    PacketCount,     \* PACKET_COUNT: packets per frame (110)
    MaxFrames,       \* bound: scans per PC session
    MaxScans,        \* bound: scans in all sessions
    MaxDups,         \* bound: datagrams that UDP delivers a second time
    MaxRestarts,     \* bound: restarts of the PC's simulation
    ReceiverMayFail  \* whether recvfrom may fail with an error

ASSUME ReassemblyAssumption ==
    /\ PacketCount \in Nat \ {0}
    /\ MaxFrames \in Nat
    /\ MaxScans \in Nat
    /\ MaxDups \in Nat
    /\ MaxRestarts \in Nat
    /\ ReceiverMayFail \in BOOLEAN

VARIABLES
    session,      \* how often the PC's simulation has been restarted
    frameId,      \* frameId_ of RadarPacketizer: the id of the next scan
    nextPacket,   \* RadarUdpSender: next packet to write; PacketCount = none
    network,      \* datagrams on the wire or in the receiving socket
    dups,         \* duplicates delivered so far
    receiving,    \* PacketReceiver's thread is in its loop
    packet_queue, \* ThreadSafeQueue<RadarPacket>
    frames,       \* frames_: the open FrameBuffer of each frame id
    frame_queue,  \* every RadarFrame pushed, oldest first
    captured,     \* history: the scans taken, as <<session, frame id>>
    lost          \* history: the packets that never reached packet_queue

pcVars == <<session, frameId, nextPacket, captured>>
netVars == <<network, dups, lost>>
vars == <<session, frameId, nextPacket, network, dups, receiving,
          packet_queue, frames, frame_queue, captured, lost>>

PacketIds == 0 .. PacketCount - 1

\* The bytes of one packet, told apart by session, frame id and packet id.
Payload == Nat \X Nat \X PacketIds

\* A slot of FrameBuffer::payloads that no packet has filled: an empty vector.
Empty == <<>>

Packet == [frame_id : Nat, packet_id : PacketIds, payload : Payload]

\* recv_counts is a uint16_t: PacketCount is far below its limit.
FrameBuffer ==
    [payloads : [PacketIds -> Payload \cup {Empty}],
     recv_counts : 0 .. PacketCount]

PacketOf(s, f, i) ==
    [frame_id |-> f, packet_id |-> i, payload |-> <<s, f, i>>]

\* The whole scan, as RadarProcessor expects it in iq_data.
Cube(s, f) == [n \in 1 .. PacketCount |-> <<s, f, n - 1>>]

Init ==
    /\ session = 0
    /\ frameId = 0
    /\ nextPacket = PacketCount
    /\ network = {}
    /\ dups = 0
    /\ receiving = TRUE
    /\ packet_queue = <<>>
    /\ frames = [f \in {} |-> Empty]
    /\ frame_queue = <<>>
    /\ captured = {}
    /\ lost = {}

-----------------------------------------------------------------------------
(* The PC *)

\* A simulation step of RadarPacketizer: one scan becomes PacketCount packets
\* with the current frame id, and the id is counted up.  The previous step of
\* RadarUdpSender has returned: the two blocks run in one Simulink thread.
Packetize ==
    /\ nextPacket = PacketCount
    /\ frameId < MaxFrames
    /\ Cardinality(captured) < MaxScans
    /\ captured' = captured \cup {<<session, frameId>>}
    /\ frameId' = frameId + 1
    /\ nextPacket' = 0
    /\ UNCHANGED <<session, network, dups, lost, receiving, packet_queue,
                   frames, frame_queue>>

\* Mutant: packet ids counted from 1, as MATLAB counts the packets.
WritePacket_OneBased ==
    /\ nextPacket < PacketCount
    /\ network' = network \cup {PacketOf(session, frameId - 1, nextPacket + 1)}
    /\ nextPacket' = nextPacket + 1
    /\ UNCHANGED <<session, frameId, captured, dups, lost, receiving,
                   packet_queue, frames, frame_queue>>

\* One round of RadarUdpSender's loop.
WritePacket ==
    /\ nextPacket < PacketCount
    /\ network' = network \cup {PacketOf(session, frameId - 1, nextPacket)}
    /\ nextPacket' = nextPacket + 1
    /\ UNCHANGED <<session, frameId, captured, dups, lost, receiving,
                   packet_queue, frames, frame_queue>>

\* The simulation is stopped, between two packets or two scans, and run again
\* with a new RadarPacketizer object, whose frameId_ starts at 0.  The
\* Raspberry Pi is not told.
Restart ==
    /\ session < MaxRestarts
    /\ session' = session + 1
    /\ frameId' = 0
    /\ nextPacket' = PacketCount
    /\ UNCHANGED <<captured, network, dups, lost, receiving, packet_queue,
                   frames, frame_queue>>

-----------------------------------------------------------------------------
(* UDP and PacketReceiver *)

\* A datagram disappears: in the network, in a full socket buffer, or in one
\* of the receiver's length checks.
Lose(packet) ==
    /\ packet \in network
    /\ network' = network \ {packet}
    /\ lost' = lost \cup {packet}
    /\ UNCHANGED <<pcVars, dups, receiving, packet_queue, frames, frame_queue>>

\* A round of PacketReceiver's loop in which recvfrom returns a datagram.  A
\* round that ends by timeout changes nothing.
Receive(packet) ==
    /\ receiving
    /\ packet \in network
    /\ network' = network \ {packet}
    /\ packet_queue' = Append(packet_queue, packet)
    /\ UNCHANGED <<pcVars, dups, lost, receiving, frames, frame_queue>>

\* The same for one of two copies of a datagram.
ReceiveCopy(packet) ==
    /\ receiving
    /\ dups < MaxDups
    /\ packet \in network
    /\ dups' = dups + 1
    /\ packet_queue' = Append(packet_queue, packet)
    /\ UNCHANGED <<pcVars, network, lost, receiving, frames, frame_queue>>

\* recvfrom fails: UDPSocket::receive throws, run() returns for ever.
ReceiveFails ==
    /\ ReceiverMayFail
    /\ receiving
    /\ receiving' = FALSE
    /\ UNCHANGED <<pcVars, netVars, packet_queue, frames, frame_queue>>

-----------------------------------------------------------------------------
(* RadarReassembler *)

\* Mutant: the packet that opens a buffer is counted twice.
NewBuffer_CountingFirst == [payloads |-> [i \in PacketIds |-> Empty], recv_counts |-> 1]

NewBuffer == [payloads |-> [i \in PacketIds |-> Empty], recv_counts |-> 0]

Filled(payloads) == {i \in PacketIds : payloads[i] # Empty}

\* The slot that holds the n-th non-empty payload.
NthFilled(payloads, n) ==
    CHOOSE i \in Filled(payloads) :
        Cardinality({j \in Filled(payloads) : j <= i}) = n

\* The payloads one after the other in packet id order.  An empty slot has no
\* bytes and contributes nothing: the samples behind it move up.
ConvertToComplex(payloads) ==
    [n \in 1 .. Cardinality(Filled(payloads)) |->
        payloads[NthFilled(payloads, n)]]

\* Mutant: one buffer for whatever frame is under way.
BufferFor_AnyOpen(packet) ==
    IF DOMAIN frames # {} THEN frames[CHOOSE f \in DOMAIN frames : TRUE] ELSE NewBuffer

\* frames_[packet.frame_id], created when the frame is seen first.
BufferFor(packet) ==
    IF packet.frame_id \in DOMAIN frames
    THEN frames[packet.frame_id]
    ELSE NewBuffer

\* Mutant: payloads stored in the order of their arrival.
Store_ByArrival(buffer, packet) ==
    [payloads |-> [buffer.payloads EXCEPT ![buffer.recv_counts] = packet.payload],
     recv_counts |-> buffer.recv_counts + 1]

Store(buffer, packet) ==
    [payloads |-> [buffer.payloads EXCEPT ![packet.packet_id] = packet.payload],
     recv_counts |-> buffer.recv_counts + 1]

\* The buffer of frame f is replaced or created.
WithBuffer(f, buffer) ==
    [g \in DOMAIN frames \cup {f} |-> IF g = f THEN buffer ELSE frames[g]]

\* frames_.erase(f)
WithoutBuffer(f) == [g \in DOMAIN frames \ {f} |-> frames[g]]

\* Mutant: the frame is complete one packet early.
FrameComplete_OneEarly(buffer) == buffer.recv_counts + 1 >= PacketCount

FrameComplete(buffer) == buffer.recv_counts = PacketCount

\* Mutant: a pushed frame stays in frames_.
PushFrame_KeepingBuffer(f, buffer) ==
    /\ frame_queue' = Append(frame_queue,
           [frame_id |-> f, iq_data |-> ConvertToComplex(buffer.payloads)])
    /\ frames' = WithBuffer(f, buffer)

PushFrame(f, buffer) ==
    /\ frame_queue' = Append(frame_queue,
           [frame_id |-> f, iq_data |-> ConvertToComplex(buffer.payloads)])
    /\ frames' = WithoutBuffer(f)

\* Mutant: a frame older than the newest open one is thrown away unfinished.
HandlePacket_DroppingOlder ==
    /\ packet_queue # <<>>
    /\ packet_queue' = Tail(packet_queue)
    /\ LET packet == Head(packet_queue)
           f == packet.frame_id
           buffer == Store(BufferFor(packet), packet)
       IN  IF FrameComplete(buffer)
           THEN PushFrame(f, buffer)
           ELSE /\ frames' = [g \in {h \in DOMAIN WithBuffer(f, buffer) : h >= f}
                                 |-> WithBuffer(f, buffer)[g]]
                /\ UNCHANGED frame_queue
    /\ UNCHANGED <<pcVars, netVars, receiving>>

\* A round of RadarReassembler::run.
HandlePacket ==
    /\ packet_queue # <<>>
    /\ packet_queue' = Tail(packet_queue)
    /\ LET packet == Head(packet_queue)
           f == packet.frame_id
           buffer == Store(BufferFor(packet), packet)
       IN  IF FrameComplete(buffer)
           THEN PushFrame(f, buffer)
           ELSE /\ frames' = WithBuffer(f, buffer)
                /\ UNCHANGED frame_queue
    /\ UNCHANGED <<pcVars, netVars, receiving>>

-----------------------------------------------------------------------------

Next ==
    \/ Packetize
    \/ WritePacket
    \/ Restart
    \/ \E packet \in network : Lose(packet) \/ Receive(packet) \/ ReceiveCopy(packet)
    \/ ReceiveFails
    \/ HandlePacket

Spec == Init /\ [][Next]_vars

\* Every datagram the PC can write.
Datagrams ==
    {PacketOf(s, f, i) : s \in 0 .. MaxRestarts, f \in 0 .. MaxFrames - 1,
                         i \in PacketIds}

\* A started step of the PC runs to its end, a datagram does not stay under
\* way for ever, and the reassembler's thread does its work.  Nothing obliges
\* the PC to take another scan or to restart.
Fairness ==
    /\ WF_vars(WritePacket)
    /\ \A packet \in Datagrams : WF_vars(Receive(packet) \/ Lose(packet))
    /\ WF_vars(HandlePacket)

FairSpec == Spec /\ Fairness

-----------------------------------------------------------------------------
(* Properties *)

\* The variables keep their types; every buffer has a slot for each packet id.
TypeOK ==
    /\ session \in Nat
    /\ frameId \in Nat
    /\ nextPacket \in 0 .. PacketCount
    /\ network \subseteq Packet
    /\ dups \in Nat
    /\ receiving \in BOOLEAN
    /\ packet_queue \in Seq(Packet)
    /\ DOMAIN frames \subseteq Nat
    /\ frames \in [DOMAIN frames -> FrameBuffer]
    /\ frame_queue \in Seq([frame_id : Nat, iq_data : Seq(Payload)])
    /\ captured \subseteq Nat \X Nat
    /\ lost \subseteq Packet

\* What RadarReassembler hands to RadarProcessor, which reads all samples of a
\* scan without looking at the size of iq_data, is the whole scan, every
\* packet at its place ("packet 이 다 도착했으면 frame 포장").
CompleteFrames ==
    \A k \in 1 .. Len(frame_queue) :
        \E s \in 0 .. session :
            frame_queue[k].iq_data = Cube(s, frame_queue[k].frame_id)

\* The packets written so far of the running session.
Written ==
    {PacketOf(session, f, i) : f \in 0 .. frameId - 1, i \in PacketIds}
        \ {PacketOf(session, frameId - 1, i) : i \in nextPacket .. PacketCount - 1}

\* A FrameBuffer stays in frames_ only while one of its packets is still to
\* come, or because a packet was lost: the map leaks one entry per damaged
\* frame, and nothing else.
BufferedFramesWait ==
    \A f \in DOMAIN frames : \E i \in PacketIds :
        LET packet == PacketOf(session, f, i)
        IN  /\ frames[f].payloads[i] = Empty
            /\ \/ packet \notin Written
               \/ packet \in network \cup lost
               \/ \E k \in 1 .. Len(packet_queue) : packet_queue[k] = packet

\* The scan a pushed frame carries; a frame that is not the whole scan its
\* header names is none.
ScanOf(frame) ==
    LET s == frame.iq_data[1][1]
    IN  IF frame.iq_data = Cube(s, frame.frame_id)
        THEN <<s, frame.frame_id>>
        ELSE <<>>

Source == INSTANCE FrameSource WITH
    Scans <- (0 .. MaxRestarts) \X (0 .. MaxFrames - 1),
    delivered <- [k \in 1 .. Len(frame_queue) |-> ScanOf(frame_queue[k])]

\* Every scan reaches the processor whole and at most once.
ImplementsFrameSource == Source!Spec

\* A scan none of whose packets is lost reaches the processor, whatever the
\* order of its packets and the damage to other scans, unless the receiver's
\* thread has died of a socket error.
WholeScansArrive ==
    \A scan \in {0} \X (0 .. MaxFrames - 1) :
        scan \in captured ~>
            \/ \E k \in 1 .. Len(frame_queue) : ScanOf(frame_queue[k]) = scan
            \/ \E i \in PacketIds : PacketOf(scan[1], scan[2], i) \in lost
            \/ ~receiving

\* Also after duplicates and restarts of the PC the packet counter of an open
\* buffer has not run past packet_count: the test is "==", and a counter that
\* has jumped over it would never meet it again.
BuffersStayOpen ==
    \A f \in DOMAIN frames :
        /\ frames[f].recv_counts \in 1 .. PacketCount - 1
        /\ Cardinality(Filled(frames[f].payloads)) <= frames[f].recv_counts

\* Also after duplicates and restarts the payloads of a pushed frame belong to
\* its frame id and stand in the order of their packet ids.
PayloadsInOrder ==
    \A k \in 1 .. Len(frame_queue) :
        LET iq_data == frame_queue[k].iq_data
        IN  \A n \in 1 .. Len(iq_data) :
                /\ iq_data[n][2] = frame_queue[k].frame_id
                /\ n > 1 => iq_data[n - 1][3] < iq_data[n][3]

\* The places of frame f in the queue of pushed frames.
PushesOf(f) == {k \in 1 .. Len(frame_queue) : frame_queue[k].frame_id = f}

\* What counting datagrams instead of packets can cost: before a restart a
\* pushed frame lacks at most as many packets as datagrams were duplicated, and
\* a frame id is pushed once per session, and again only for PacketCount
\* duplicates.
DamageIsBounded ==
    /\ session = 0 =>
          \A k \in 1 .. Len(frame_queue) :
              PacketCount - Len(frame_queue[k].iq_data) <= dups
    /\ \A k \in 1 .. Len(frame_queue) :
          PacketCount * Cardinality(PushesOf(frame_queue[k].frame_id))
              <= PacketCount * (session + 1) + dups

\* The reassembler restores the original IQ data ("Reassembler 에서 원본 IQ
\* 데이터로 재조립"): the samples of a frame come from one scan of one session.
OneScanPerFrame ==
    \A k \in 1 .. Len(frame_queue) :
        LET iq_data == frame_queue[k].iq_data
        IN  \A m, n \in 1 .. Len(iq_data) : iq_data[m][1] = iq_data[n][1]
=============================================================================

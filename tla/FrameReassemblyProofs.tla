----------------------- MODULE FrameReassemblyProofs -----------------------
(***************************************************************************)
(* Proofs about FrameReassembly, for any number of packets per frame and   *)
(* of frames.                                                              *)
(***************************************************************************)
EXTENDS FrameReassembly, Places, FiniteSetTheorems, SequenceTheorems, TLAPS

\* A payload has bytes.
LEMMA PayloadNotEmpty == \A p \in Payload : p # Empty
BY DEF Payload, Empty

\* The filled slots of a buffer can be counted.
LEMMA FilledFinite ==
  ASSUME NEW payloads
  PROVE  /\ IsFiniteSet(Filled(payloads))
         /\ Cardinality(Filled(payloads)) \in 0 .. PacketCount
         /\ Cardinality(Filled(payloads)) = PacketCount
                => Filled(payloads) = PacketIds
<1>1. IsFiniteSet(PacketIds) /\ Cardinality(PacketIds) = PacketCount
  <2>1. /\ IsFiniteSet(0 .. PacketCount - 1)
        /\ Cardinality(0 .. PacketCount - 1) =
              IF 0 > PacketCount - 1 THEN 0 ELSE PacketCount - 1 - 0 + 1
    BY ReassemblyAssumption, FS_Interval DEF ReassemblyAssumption
  <2>. QED  BY <2>1, ReassemblyAssumption DEF ReassemblyAssumption, PacketIds
<1>2. Filled(payloads) \in SUBSET PacketIds
  BY DEF Filled
<1>3. /\ IsFiniteSet(Filled(payloads))
      /\ Cardinality(Filled(payloads)) <= PacketCount
      /\ Cardinality(Filled(payloads)) = PacketCount
             => Filled(payloads) = PacketIds
  BY <1>1, <1>2, FS_Subset
<1>4. Cardinality(Filled(payloads)) \in Nat
  BY <1>3, FS_CardinalityType
<1>. QED
  BY <1>3, <1>4, ReassemblyAssumption DEF ReassemblyAssumption

\* What storing a packet does to the counter and to the filled slots.
LEMMA StoreProperties ==
  ASSUME NEW buffer \in FrameBuffer, NEW packet \in Packet,
         buffer.recv_counts < PacketCount
  PROVE  LET stored == Store(buffer, packet)
             old == Filled(buffer.payloads)
             new == Filled(stored.payloads)
         IN  /\ stored \in FrameBuffer
             /\ stored.recv_counts = buffer.recv_counts + 1
             /\ stored.payloads =
                   [buffer.payloads EXCEPT ![packet.packet_id] = packet.payload]
             /\ new = old \cup {packet.packet_id}
             /\ Cardinality(new) = IF packet.packet_id \in old
                                   THEN Cardinality(old)
                                   ELSE Cardinality(old) + 1
<1> DEFINE stored == Store(buffer, packet)
<1>1. /\ stored.recv_counts = buffer.recv_counts + 1
      /\ stored.payloads =
            [buffer.payloads EXCEPT ![packet.packet_id] = packet.payload]
      /\ stored = [payloads |-> stored.payloads, recv_counts |-> stored.recv_counts]
  BY DEF Store
<1>2. /\ packet.packet_id \in PacketIds
      /\ packet.payload \in Payload
      /\ packet.payload # Empty
      /\ buffer.payloads \in [PacketIds -> Payload \cup {Empty}]
      /\ buffer.recv_counts \in 0 .. PacketCount
  BY PayloadNotEmpty DEF Packet, FrameBuffer
<1>3. stored \in FrameBuffer
  <2>1. stored.payloads \in [PacketIds -> Payload \cup {Empty}]
    BY <1>1, <1>2
  <2>2. stored.recv_counts \in 0 .. PacketCount
    BY <1>1, <1>2, ReassemblyAssumption DEF ReassemblyAssumption
  <2>. QED  BY <1>1, <2>1, <2>2 DEF FrameBuffer
<1>4. Filled(stored.payloads) = Filled(buffer.payloads) \cup {packet.packet_id}
  BY <1>1, <1>2 DEF Filled
<1>5. Cardinality(Filled(stored.payloads)) =
          IF packet.packet_id \in Filled(buffer.payloads)
          THEN Cardinality(Filled(buffer.payloads))
          ELSE Cardinality(Filled(buffer.payloads)) + 1
  BY <1>4, FilledFinite, FS_AddElement
<1>. QED  BY <1>1, <1>3, <1>4, <1>5

\* A new buffer has an empty slot for every packet.
LEMMA NewBufferProperties ==
  /\ NewBuffer \in FrameBuffer
  /\ NewBuffer.recv_counts = 0
  /\ \A i \in PacketIds : NewBuffer.payloads[i] = Empty
  /\ Filled(NewBuffer.payloads) = {}
  /\ Cardinality(Filled(NewBuffer.payloads)) = 0
<1>1. /\ NewBuffer.recv_counts = 0
      /\ NewBuffer.payloads = [i \in PacketIds |-> Empty]
      /\ NewBuffer \in FrameBuffer
  BY ReassemblyAssumption DEF ReassemblyAssumption, NewBuffer, FrameBuffer
<1>2. Filled(NewBuffer.payloads) = {}
  BY <1>1 DEF Filled
<1>. QED  BY <1>1, <1>2, FS_EmptySet

-----------------------------------------------------------------------------

\* What the packets and the buffers look like, whatever UDP and the PC do.
WellFormed ==
    /\ session \in Nat
    /\ frameId \in Nat
    /\ nextPacket \in 0 .. PacketCount
    /\ nextPacket < PacketCount => frameId > 0
    /\ network \subseteq Packet
    /\ packet_queue \in Seq(Packet)
    /\ DOMAIN frames \subseteq Nat
    /\ frames \in [DOMAIN frames -> FrameBuffer]

\* The buffer that takes the packet is open.
LEMMA BufferForOpen ==
  ASSUME WellFormed, BuffersStayOpen, NEW packet \in Packet
  PROVE  /\ BufferFor(packet) \in FrameBuffer
         /\ BufferFor(packet).recv_counts < PacketCount
         /\ Cardinality(Filled(BufferFor(packet).payloads))
                <= BufferFor(packet).recv_counts
<1>1. CASE packet.frame_id \in DOMAIN frames
  <2>1. BufferFor(packet) = frames[packet.frame_id]
    BY <1>1 DEF BufferFor
  <2>2. frames[packet.frame_id] \in FrameBuffer
    BY <1>1 DEF WellFormed
  <2>. QED
    BY <1>1, <2>1, <2>2, ReassemblyAssumption
    DEF ReassemblyAssumption, BuffersStayOpen
<1>2. CASE packet.frame_id \notin DOMAIN frames
  <2>1. BufferFor(packet) = NewBuffer
    BY <1>2 DEF BufferFor
  <2>. QED
    BY <2>1, NewBufferProperties, ReassemblyAssumption DEF ReassemblyAssumption
<1>. QED  BY <1>1, <1>2

\* The packets the PC writes are well formed.
LEMMA PacketOfType ==
  ASSUME NEW s \in Nat, NEW f \in Nat, NEW i \in PacketIds
  PROVE  PacketOf(s, f, i) \in Packet
BY DEF PacketOf, Packet, Payload

LEMMA WellFormedInit == Init => WellFormed /\ BuffersStayOpen
<1> SUFFICES ASSUME Init PROVE WellFormed /\ BuffersStayOpen
  OBVIOUS
<1>1. DOMAIN frames = {} /\ packet_queue \in Seq(Packet)
  BY EmptySeq DEF Init
<1>. QED
  BY <1>1, ReassemblyAssumption
  DEF ReassemblyAssumption, Init, WellFormed, BuffersStayOpen

LEMMA WellFormedStep ==
  ASSUME WellFormed, BuffersStayOpen, [Next]_vars
  PROVE  WellFormed' /\ BuffersStayOpen'
<1> USE ReassemblyAssumption DEF ReassemblyAssumption
<1>1. ASSUME UNCHANGED <<frames>>
      PROVE  BuffersStayOpen'
  BY <1>1 DEF BuffersStayOpen
<1>2. CASE Packetize
  BY <1>1, <1>2 DEF Packetize, WellFormed
<1>3. CASE WritePacket
  <2>0. /\ session \in Nat
        /\ frameId - 1 \in Nat
        /\ nextPacket \in PacketIds
    BY <1>3 DEF WritePacket, WellFormed, PacketIds
  <2>1. PacketOf(session, frameId - 1, nextPacket) \in Packet
    BY <2>0, PacketOfType
  <2>. QED  BY <1>1, <1>3, <2>1 DEF WritePacket, WellFormed
<1>4. CASE Restart
  BY <1>1, <1>4 DEF Restart, WellFormed
<1>5. ASSUME NEW packet \in network, Lose(packet)
      PROVE  WellFormed' /\ BuffersStayOpen'
  BY <1>1, <1>5 DEF Lose, pcVars, WellFormed
<1>6. ASSUME NEW packet \in network, Receive(packet) \/ ReceiveCopy(packet)
      PROVE  WellFormed' /\ BuffersStayOpen'
  <2>1. packet \in Packet
    BY DEF WellFormed
  <2>2. Append(packet_queue, packet) \in Seq(Packet)
    BY <2>1 DEF WellFormed
  <2>. QED  BY <1>1, <1>6, <2>2 DEF Receive, ReceiveCopy, pcVars, WellFormed
<1>7. CASE ReceiveFails
  BY <1>1, <1>7 DEF ReceiveFails, pcVars, netVars, WellFormed
<1>8. CASE HandlePacket
  <2> DEFINE packet == Head(packet_queue)
             f == packet.frame_id
             buffer == Store(BufferFor(packet), packet)
  <2>1. /\ packet \in Packet
        /\ Tail(packet_queue) \in Seq(Packet)
    BY <1>8, HeadTailProperties DEF HandlePacket, WellFormed
  <2>2. f \in Nat
    BY <2>1 DEF Packet
  <2>3. /\ buffer \in FrameBuffer
        /\ buffer.recv_counts = BufferFor(packet).recv_counts + 1
        /\ Cardinality(Filled(buffer.payloads))
              <= Cardinality(Filled(BufferFor(packet).payloads)) + 1
    <3>1. BufferFor(packet) \in FrameBuffer
      BY <2>1, BufferForOpen
    <3>2. BufferFor(packet).recv_counts < PacketCount
      BY <2>1, BufferForOpen
    <3>3. Cardinality(Filled(BufferFor(packet).payloads)) \in Nat
      BY FilledFinite
    <3>. HIDE DEF packet
    <3>4. buffer \in FrameBuffer
      BY <2>1, <3>1, <3>2, StoreProperties
    <3>5. buffer.recv_counts = BufferFor(packet).recv_counts + 1
      BY <2>1, <3>1, <3>2, StoreProperties
    <3>6. Cardinality(Filled(buffer.payloads)) =
              IF packet.packet_id \in Filled(BufferFor(packet).payloads)
              THEN Cardinality(Filled(BufferFor(packet).payloads))
              ELSE Cardinality(Filled(BufferFor(packet).payloads)) + 1
      BY <2>1, <3>1, <3>2, StoreProperties
    <3>. HIDE DEF buffer
    <3>. QED  BY <3>3, <3>4, <3>5, <3>6
  <2>4. /\ Cardinality(Filled(buffer.payloads)) <= buffer.recv_counts
        /\ buffer.recv_counts \in 1 .. PacketCount
    <3>1. /\ BufferFor(packet).recv_counts \in Nat
          /\ BufferFor(packet).recv_counts < PacketCount
          /\ Cardinality(Filled(BufferFor(packet).payloads))
                <= BufferFor(packet).recv_counts
      BY <2>1, BufferForOpen DEF FrameBuffer
    <3>2. /\ Cardinality(Filled(BufferFor(packet).payloads)) \in Nat
          /\ Cardinality(Filled(buffer.payloads)) \in Nat
      BY FilledFinite
    <3>. HIDE DEF packet, buffer
    <3>. QED  BY <2>3, <3>1, <3>2
  <2>5. CASE FrameComplete(buffer)
    <3>1. frames' = WithoutBuffer(f)
      BY <1>8, <2>5 DEF HandlePacket, PushFrame
    <3>2. WellFormed'
      BY <1>8, <2>1, <3>1
      DEF HandlePacket, WithoutBuffer, pcVars, netVars, WellFormed
    <3>. HIDE DEF f
    <3>3. BuffersStayOpen'
      BY <3>1 DEF WithoutBuffer, BuffersStayOpen
    <3>. QED  BY <3>2, <3>3
  <2>6. CASE ~FrameComplete(buffer)
    <3>1. frames' = WithBuffer(f, buffer)
      BY <1>8, <2>6 DEF HandlePacket
    <3>2. UNCHANGED <<pcVars, netVars>> /\ packet_queue' = Tail(packet_queue)
      BY <1>8 DEF HandlePacket
    <3>. HIDE DEF packet, f, buffer
    <3>3. WellFormed'
      BY <2>1, <2>2, <2>3, <3>1, <3>2
      DEF WithBuffer, pcVars, netVars, WellFormed
    <3>4. BuffersStayOpen'
      BY <2>4, <2>6, <3>1 DEF WithBuffer, BuffersStayOpen, FrameComplete
    <3>. QED  BY <3>3, <3>4
  <2>. QED  BY <2>5, <2>6
<1>9. CASE UNCHANGED vars
  BY <1>1, <1>9 DEF vars, WellFormed
<1>. QED
  BY <1>2, <1>3, <1>4, <1>5, <1>6, <1>7, <1>8, <1>9 DEF Next

(***************************************************************************)
(* However often UDP duplicates and the PC restarts, the counter of an     *)
(* open buffer stays below packet_count, so the test with "==" is met.     *)
(***************************************************************************)
THEOREM CountersStayBelow == Spec => []BuffersStayOpen
<1>1. WellFormed /\ BuffersStayOpen /\ [Next]_vars
          => WellFormed' /\ BuffersStayOpen'
  BY WellFormedStep
<1>. QED  BY WellFormedInit, <1>1, PTL DEF Spec

-----------------------------------------------------------------------------
(* The order of the payloads, for every number of duplicates and restarts *)

\* NthFilled finds the filled slots in ascending order.
LEMMA SlotsAscend ==
  ASSUME NEW payloads, NEW n \in 1 .. Cardinality(Filled(payloads))
  PROVE  /\ NthFilled(payloads, n) \in Filled(payloads)
         /\ n > 1 => NthFilled(payloads, n - 1) < NthFilled(payloads, n)
<1> DEFINE S == Filled(payloads)
<1>1. S \in SUBSET Nat /\ IsFiniteSet(S) /\ Cardinality(S) \in Nat
  BY FilledFinite, ReassemblyAssumption DEF ReassemblyAssumption, Filled, PacketIds
<1>2. ASSUME NEW k \in 1 .. Cardinality(S)
      PROVE  /\ NthFilled(payloads, k) \in S
             /\ Cardinality(UpTo(S, NthFilled(payloads, k))) = k
  <2>1. \E q \in S : Cardinality(UpTo(S, q)) = k
    BY <1>1, PlacesAreTaken
  <2>2. NthFilled(payloads, k) = CHOOSE q \in S : Cardinality(UpTo(S, q)) = k
    BY DEF NthFilled, UpTo
  <2>. QED  BY <2>1, <2>2
<1>3. ASSUME n > 1
      PROVE  NthFilled(payloads, n - 1) < NthFilled(payloads, n)
  <2>1. n - 1 \in 1 .. Cardinality(S)
    BY <1>1, <1>3
  <2>2. PICK p \in S : p = NthFilled(payloads, n - 1) /\ Cardinality(UpTo(S, p)) = n - 1
    BY <1>2, <2>1
  <2>3. PICK q \in S : q = NthFilled(payloads, n) /\ Cardinality(UpTo(S, q)) = n
    BY <1>2
  <2>. HIDE DEF S
  <2>4. ~(q < p)
    <3>1. SUFFICES ASSUME q < p PROVE FALSE
      OBVIOUS
    <3>2. n < n - 1
      BY <1>1, <2>2, <2>3, <3>1, PlacesGrow
    <3>. QED  BY <1>1, <3>2
  <2>5. p # q
    BY <1>1, <2>2, <2>3
  <2>6. p \in Nat /\ q \in Nat
    BY <1>1
  <2>. QED  BY <2>2, <2>3, <2>4, <2>5, <2>6
<1>. QED  BY <1>2, <1>3

\* A payload says which packet of which frame id it was.
Labelled(packet) ==
    /\ packet.payload[2] = packet.frame_id
    /\ packet.payload[3] = packet.packet_id

\* The payloads of a buffer are of its frame id and in their slots.
InSlots(f, payloads) ==
    \A i \in PacketIds :
        payloads[i] # Empty => payloads[i][2] = f /\ payloads[i][3] = i

RadarFrame == [frame_id : Nat, iq_data : Seq(Payload)]

Origin ==
    /\ frame_queue \in Seq(RadarFrame)
    /\ \A packet \in network : Labelled(packet)
    /\ \A k \in 1 .. Len(packet_queue) : Labelled(packet_queue[k])
    /\ \A f \in DOMAIN frames : InSlots(f, frames[f].payloads)
    /\ PayloadsInOrder

\* What PayloadsInOrder says of a frame.
InOrder(frame) ==
    \A n \in 1 .. Len(frame.iq_data) :
        /\ frame.iq_data[n][2] = frame.frame_id
        /\ n > 1 => frame.iq_data[n - 1][3] < frame.iq_data[n][3]

LEMMA ConvertedInOrder ==
  ASSUME NEW f, NEW payloads, InSlots(f, payloads)
  PROVE  InOrder([frame_id |-> f, iq_data |-> ConvertToComplex(payloads)])
<1> DEFINE iq_data == ConvertToComplex(payloads)
           N == Cardinality(Filled(payloads))
<1>1. N \in Nat
  BY FilledFinite, ReassemblyAssumption DEF ReassemblyAssumption
<1>2. iq_data = [n \in 1 .. N |-> payloads[NthFilled(payloads, n)]]
  BY DEF ConvertToComplex
<1>3. Len(iq_data) = N
  BY <1>1, <1>2
<1>4. ASSUME NEW n \in 1 .. N
      PROVE  /\ iq_data[n][2] = f
             /\ iq_data[n][3] = NthFilled(payloads, n)
  <2>1. NthFilled(payloads, n) \in Filled(payloads)
    BY SlotsAscend
  <2>2. iq_data[n] = payloads[NthFilled(payloads, n)]
    BY <1>2
  <2>. QED  BY <2>1, <2>2 DEF InSlots, Filled
<1>5. ASSUME NEW n \in 1 .. N, n > 1
      PROVE  iq_data[n - 1][3] < iq_data[n][3]
  <2>1. n - 1 \in 1 .. N
    BY <1>1, <1>5
  <2>2. NthFilled(payloads, n - 1) < NthFilled(payloads, n)
    BY <1>5, SlotsAscend
  <2>. QED  BY <1>4, <2>1, <2>2
<1>. HIDE DEF iq_data, N
<1>6. \A n \in 1 .. Len(iq_data) :
          /\ iq_data[n][2] = f
          /\ n > 1 => iq_data[n - 1][3] < iq_data[n][3]
  BY <1>3, <1>4, <1>5
<1>. QED  BY <1>6 DEF InOrder, iq_data

LEMMA ConvertedType ==
  ASSUME NEW buffer \in FrameBuffer
  PROVE  ConvertToComplex(buffer.payloads) \in Seq(Payload)
<1> DEFINE N == Cardinality(Filled(buffer.payloads))
<1>1. N \in Nat
  BY FilledFinite, ReassemblyAssumption DEF ReassemblyAssumption
<1>2. ASSUME NEW n \in 1 .. N
      PROVE  buffer.payloads[NthFilled(buffer.payloads, n)] \in Payload
  <2>1. NthFilled(buffer.payloads, n) \in Filled(buffer.payloads)
    BY SlotsAscend
  <2>. QED  BY <2>1 DEF Filled, FrameBuffer
<1>3. ConvertToComplex(buffer.payloads)
        = [n \in 1 .. N |-> buffer.payloads[NthFilled(buffer.payloads, n)]]
  BY DEF ConvertToComplex
<1>. HIDE DEF N
<1>4. ConvertToComplex(buffer.payloads) \in [1 .. N -> Payload]
  BY <1>2, <1>3
<1>. QED  BY <1>1, <1>4

LEMMA OriginInit == Init => Origin
BY EmptySeq DEF Init, Origin, PayloadsInOrder

LEMMA OriginStep ==
  ASSUME WellFormed, BuffersStayOpen, Origin, [Next]_vars
  PROVE  Origin'
<1> USE ReassemblyAssumption DEF ReassemblyAssumption
<1>a. /\ frame_queue \in Seq(RadarFrame)
      /\ \A packet \in network : Labelled(packet)
      /\ \A k \in 1 .. Len(packet_queue) : Labelled(packet_queue[k])
      /\ \A f \in DOMAIN frames : InSlots(f, frames[f].payloads)
      /\ PayloadsInOrder
  BY DEF Origin
<1>b. packet_queue \in Seq(Packet) /\ network \subseteq Packet
  BY DEF WellFormed
<1>1. ASSUME UNCHANGED <<frames, frame_queue>>,
             \A packet \in network' : Labelled(packet),
             \A k \in 1 .. Len(packet_queue') : Labelled(packet_queue'[k])
      PROVE  Origin'
  <2>1. PayloadsInOrder'
    BY <1>1, <1>a DEF PayloadsInOrder
  <2>. QED  BY <1>1, <1>a, <2>1 DEF Origin
<1>2. CASE Packetize \/ Restart \/ ReceiveFails \/ UNCHANGED vars
  BY <1>1, <1>2, <1>a DEF Packetize, Restart, ReceiveFails, netVars, vars
<1>3. CASE WritePacket
  <2>1. PICK new : new = PacketOf(session, frameId - 1, nextPacket)
    OBVIOUS
  <2>2. Labelled(new)
    BY <2>1 DEF PacketOf, Labelled
  <2>. QED  BY <1>1, <1>3, <1>a, <2>1, <2>2 DEF WritePacket
<1>4. ASSUME NEW packet \in network, Lose(packet) PROVE Origin'
  BY <1>1, <1>4, <1>a DEF Lose
<1>5. ASSUME NEW packet \in network, Receive(packet) \/ ReceiveCopy(packet)
      PROVE  Origin'
  <2>1. packet_queue' = Append(packet_queue, packet) /\ network' \subseteq network
        /\ UNCHANGED <<frames, frame_queue>>
    BY <1>5 DEF Receive, ReceiveCopy
  <2>2. \A k \in 1 .. Len(packet_queue') : Labelled(packet_queue'[k])
    <3>1. /\ Len(packet_queue') = Len(packet_queue) + 1
          /\ \A k \in 1 .. Len(packet_queue) : packet_queue'[k] = packet_queue[k]
          /\ packet_queue'[Len(packet_queue) + 1] = packet
          /\ Len(packet_queue) \in Nat
      BY <1>b, <2>1
    <3>2. \A k \in 1 .. Len(packet_queue') :
              k \in 1 .. Len(packet_queue) \/ k = Len(packet_queue) + 1
      BY <3>1
    <3>. QED  BY <1>a, <3>1, <3>2
  <2>. QED  BY <1>1, <1>a, <2>1, <2>2
<1>6. CASE HandlePacket
  <2>1. PICK packet : packet = Head(packet_queue)
    OBVIOUS
  <2>2. PICK buffer : buffer = Store(BufferFor(packet), packet)
    OBVIOUS
  <2>3. PICK f : f = packet.frame_id
    OBVIOUS
  <2>4. /\ packet_queue # <<>> /\ packet_queue' = Tail(packet_queue)
        /\ network' = network
        /\ IF FrameComplete(buffer)
           THEN PushFrame(f, buffer)
           ELSE frames' = WithBuffer(f, buffer) /\ UNCHANGED frame_queue
    BY <1>6, <2>1, <2>2, <2>3 DEF HandlePacket, netVars
  <2>5. /\ Len(packet_queue) \in Nat /\ Len(packet_queue) > 0
        /\ packet = packet_queue[1]
        /\ packet \in Packet
        /\ Len(packet_queue') = Len(packet_queue) - 1
        /\ \A k \in 1 .. Len(packet_queue') : packet_queue'[k] = packet_queue[k + 1]
    BY <1>b, <2>1, <2>4
  <2>6. Labelled(packet)
    <3>1. 1 \in 1 .. Len(packet_queue)
      BY <2>5
    <3>. QED  BY <1>a, <2>5, <3>1
  <2>7. \A k \in 1 .. Len(packet_queue') : Labelled(packet_queue'[k])
    <3>1. \A k \in 1 .. Len(packet_queue') : k + 1 \in 1 .. Len(packet_queue)
      BY <2>5
    <3>. QED  BY <1>a, <2>5, <3>1
  <2>8. BufferFor(packet) \in FrameBuffer /\ BufferFor(packet).recv_counts < PacketCount
    BY <2>5, BufferForOpen
  <2>9. InSlots(f, BufferFor(packet).payloads)
    <3>1. CASE f \in DOMAIN frames
      BY <1>a, <2>3, <3>1 DEF BufferFor
    <3>2. CASE f \notin DOMAIN frames
      BY <2>3, <3>2, NewBufferProperties DEF BufferFor, InSlots
    <3>. QED  BY <3>1, <3>2
  <2>10. /\ buffer \in FrameBuffer
         /\ buffer.payloads =
               [BufferFor(packet).payloads EXCEPT ![packet.packet_id] = packet.payload]
    BY <2>2, <2>5, <2>8, StoreProperties
  <2>11. InSlots(f, buffer.payloads)
    <3>1. BufferFor(packet).payloads \in [PacketIds -> Payload \cup {Empty}]
      BY <2>8 DEF FrameBuffer
    <3>. QED  BY <2>3, <2>6, <2>9, <2>10, <3>1 DEF InSlots, Labelled
  <2>12. f \in Nat
    BY <2>3, <2>5 DEF Packet
  <2>13. CASE FrameComplete(buffer)
    <3>1. PICK frame : frame = [frame_id |-> f, iq_data |-> ConvertToComplex(buffer.payloads)]
      OBVIOUS
    <3>2. frame_queue' = Append(frame_queue, frame) /\ frames' = WithoutBuffer(f)
      BY <2>4, <2>13, <3>1 DEF PushFrame
    <3>3. InOrder(frame)
      BY <2>11, <3>1, ConvertedInOrder
    <3>4. frame \in RadarFrame
      BY <2>10, <2>12, <3>1, ConvertedType DEF RadarFrame
    <3>5. frame_queue' \in Seq(RadarFrame)
      BY <1>a, <3>2, <3>4
    <3>6. PayloadsInOrder'
      <4>1. /\ Len(frame_queue') = Len(frame_queue) + 1
            /\ \A k \in 1 .. Len(frame_queue) : frame_queue'[k] = frame_queue[k]
            /\ frame_queue'[Len(frame_queue) + 1] = frame
            /\ Len(frame_queue) \in Nat
        BY <1>a, <3>2
      <4>2. \A k \in 1 .. Len(frame_queue) : InOrder(frame_queue[k])
        BY <1>a DEF PayloadsInOrder, InOrder
      <4>3. \A k \in 1 .. Len(frame_queue') :
                k \in 1 .. Len(frame_queue) \/ k = Len(frame_queue) + 1
        BY <4>1
      <4>4. \A k \in 1 .. Len(frame_queue') : InOrder(frame_queue'[k])
        BY <3>3, <4>1, <4>2, <4>3
      <4>. QED  BY <4>4 DEF PayloadsInOrder, InOrder
    <3>7. \A g \in DOMAIN frames' : InSlots(g, frames'[g].payloads)
      BY <1>a, <3>2 DEF WithoutBuffer
    <3>. QED  BY <1>a, <2>4, <2>7, <3>5, <3>6, <3>7 DEF Origin
  <2>14. CASE ~FrameComplete(buffer)
    <3>1. frames' = WithBuffer(f, buffer) /\ frame_queue' = frame_queue
      BY <2>4, <2>14
    <3>2. \A g \in DOMAIN frames' : InSlots(g, frames'[g].payloads)
      BY <1>a, <2>11, <3>1 DEF WithBuffer
    <3>3. PayloadsInOrder'
      BY <1>a, <3>1 DEF PayloadsInOrder
    <3>. QED  BY <1>a, <2>4, <2>7, <3>1, <3>2, <3>3 DEF Origin
  <2>. QED  BY <2>13, <2>14
<1>. QED
  BY <1>2, <1>3, <1>4, <1>5, <1>6 DEF Next

LEMMA Basics == Spec => [](WellFormed /\ BuffersStayOpen /\ Origin)
<1>1. WellFormed /\ BuffersStayOpen /\ [Next]_vars
          => WellFormed' /\ BuffersStayOpen'
  BY WellFormedStep
<1>2. WellFormed /\ BuffersStayOpen /\ Origin /\ [Next]_vars => Origin'
  BY OriginStep
<1>. QED  BY WellFormedInit, OriginInit, <1>1, <1>2, PTL DEF Spec

(***************************************************************************)
(* However often UDP duplicates and the PC restarts, the payloads of a     *)
(* pushed frame are of its frame id and in the order of their packet ids.  *)
(***************************************************************************)
THEOREM PayloadsKeepOrder == Spec => []PayloadsInOrder
<1>1. Origin => PayloadsInOrder
  BY DEF Origin
<1>. QED  BY <1>1, Basics, PTL

(***************************************************************************)
(* Types, whatever UDP and the PC do: a frame that is pushed is a sequence *)
(* of payloads, holes or not.                                              *)
(***************************************************************************)
THEOREM TypeCorrect == Spec => []TypeOK
<1> DEFINE Histories ==
              /\ dups \in Nat
              /\ receiving \in BOOLEAN
              /\ captured \subseteq Nat \X Nat
              /\ lost \subseteq Packet
<1>1. Init => Histories
  BY DEF Init
<1>2. WellFormed /\ Histories /\ [Next]_vars => Histories'
  <2> SUFFICES ASSUME WellFormed, Histories, [Next]_vars PROVE Histories'
    OBVIOUS
  <2>1. CASE Packetize
    BY <2>1 DEF Packetize, WellFormed
  <2>2. CASE WritePacket \/ Restart
    BY <2>2 DEF WritePacket, Restart
  <2>3. ASSUME NEW packet \in network,
               Lose(packet) \/ Receive(packet) \/ ReceiveCopy(packet)
        PROVE  Histories'
    BY <2>3 DEF Lose, Receive, ReceiveCopy, pcVars, WellFormed
  <2>4. CASE ReceiveFails \/ HandlePacket
    BY <2>4 DEF ReceiveFails, HandlePacket, pcVars, netVars
  <2>5. CASE UNCHANGED vars
    BY <2>5 DEF vars
  <2>. QED  BY <2>1, <2>2, <2>3, <2>4, <2>5 DEF Next
<1>3. WellFormed /\ Origin /\ Histories => TypeOK
  BY DEF WellFormed, Origin, RadarFrame, TypeOK
<1>. HIDE DEF Histories
<1>. QED  BY <1>1, <1>2, <1>3, Basics, PTL DEF Spec

-----------------------------------------------------------------------------
(* The link has lost and reordered, but not duplicated so far, and the PC  *)
(* has not restarted: until then packets are counted right.                *)

Undisturbed == session = 0 /\ dups = 0

\* It stays so.
Reliable == MaxDups = 0 /\ MaxRestarts = 0

\* Packet i of scan f has been given to the network.
HasBeenWritten(f, i) ==
    \/ f + 1 < frameId
    \/ f + 1 = frameId /\ i < nextPacket

\* The packets under way to the reassembler.
Pending == network \cup {packet_queue[k] : k \in 1 .. Len(packet_queue)}

\* Packet i of scan f waits in a FrameBuffer.
Stored(f, i) == f \in DOMAIN frames /\ frames[f].payloads[i] # Empty

\* A frame with this id has been pushed.
Pushed(f) == \E k \in 1 .. Len(frame_queue) : frame_queue[k].frame_id = f

Sender ==
    /\ session = 0
    /\ dups = 0
    /\ frameId <= MaxFrames
    /\ captured = {0} \X (0 .. frameId - 1)

NoCopies ==
    /\ \A k \in 1 .. Len(packet_queue) : packet_queue[k] \notin network
    /\ \A j, k \in 1 .. Len(packet_queue) :
           packet_queue[j] = packet_queue[k] => j = k

\* A packet under way is one the PC wrote and the reassembler has not seen.
Traffic ==
    \A packet \in Pending :
        /\ packet = PacketOf(0, packet.frame_id, packet.packet_id)
        /\ HasBeenWritten(packet.frame_id, packet.packet_id)
        /\ ~Stored(packet.frame_id, packet.packet_id)
        /\ ~Pushed(packet.frame_id)

\* What a FrameBuffer holds while its frame is incomplete.
Collected(f, buffer) ==
    /\ \A i \in PacketIds : buffer.payloads[i] # Empty =>
          buffer.payloads[i] = <<0, f, i>> /\ HasBeenWritten(f, i)
    /\ buffer.recv_counts = Cardinality(Filled(buffer.payloads))
    /\ buffer.recv_counts < PacketCount

Buffers ==
    \A f \in DOMAIN frames : Collected(f, frames[f]) /\ ~Pushed(f)

\* A pushed frame is a whole scan, all of it written, and pushed once.
Frames ==
    /\ \A k \in 1 .. Len(frame_queue) :
          LET f == frame_queue[k].frame_id
          IN  /\ f \in Nat
              /\ frame_queue[k].iq_data = Cube(0, f)
              /\ \A i \in PacketIds : HasBeenWritten(f, i)
    /\ \A j, k \in 1 .. Len(frame_queue) :
          frame_queue[j].frame_id = frame_queue[k].frame_id => j = k

\* A packet written is under way, lost, stored or part of a pushed frame.
Conserved ==
    \A f \in 0 .. frameId - 1 : \A i \in PacketIds : HasBeenWritten(f, i) =>
        \/ PacketOf(0, f, i) \in Pending \cup lost
        \/ Stored(f, i)
        \/ Pushed(f)

IInv ==
    /\ TypeOK
    /\ nextPacket < PacketCount => frameId > 0
    /\ Sender
    /\ NoCopies
    /\ Traffic
    /\ Buffers
    /\ Frames
    /\ Conserved

\* All slots filled, the concatenation is the whole cube.
LEMMA WholeCube ==
  ASSUME NEW f, NEW payloads,
         \A i \in PacketIds : payloads[i] # Empty /\ payloads[i] = <<0, f, i>>
  PROVE  ConvertToComplex(payloads) = Cube(0, f)
<1> USE ReassemblyAssumption DEF ReassemblyAssumption
<1>1. Filled(payloads) = PacketIds
  BY DEF Filled
<1>2. Cardinality(Filled(payloads)) = PacketCount
  <2>1. Cardinality(0 .. PacketCount - 1) =
            IF 0 > PacketCount - 1 THEN 0 ELSE PacketCount - 1 - 0 + 1
    BY FS_Interval
  <2>. QED  BY <1>1, <2>1 DEF PacketIds
<1>3. ASSUME NEW n \in 1 .. PacketCount
      PROVE  NthFilled(payloads, n) = n - 1
  <2>1. ASSUME NEW i \in PacketIds
        PROVE  Cardinality({j \in Filled(payloads) : j <= i}) = i + 1
    <3>1. {j \in Filled(payloads) : j <= i} = 0 .. i
      BY <1>1 DEF PacketIds
    <3>2. i \in Int /\ 0 <= i
      BY DEF PacketIds
    <3>3. Cardinality(0 .. i) = IF 0 > i THEN 0 ELSE i - 0 + 1
      BY <3>2, FS_Interval
    <3>4. Cardinality(0 .. i) = i + 1
      BY <3>2, <3>3
    <3>. QED  BY <3>1, <3>4
  <2>2. n - 1 \in PacketIds
    BY DEF PacketIds
  <2>3. \A i \in PacketIds :
            Cardinality({j \in Filled(payloads) : j <= i}) = n => i = n - 1
    BY <2>1 DEF PacketIds
  <2>4. Cardinality({j \in Filled(payloads) : j <= n - 1}) = n
    BY <2>1, <2>2
  <2>. QED  BY <1>1, <2>2, <2>3, <2>4 DEF NthFilled
<1>4. \A n \in 1 .. PacketCount : payloads[NthFilled(payloads, n)] = <<0, f, n - 1>>
  BY <1>3 DEF PacketIds
<1>. QED  BY <1>2, <1>4 DEF ConvertToComplex, Cube

LEMMA CubeType ==
  ASSUME NEW f \in Nat
  PROVE  Cube(0, f) \in Seq(Payload)
BY ReassemblyAssumption DEF ReassemblyAssumption, Cube, Payload, PacketIds

\* The invariant says what WellFormed says.
LEMMA InvWellFormed == IInv => WellFormed
BY DEF IInv, TypeOK, WellFormed

\* Packetize and WritePacket.
LEMMA SenderStep ==
  ASSUME IInv, Packetize \/ WritePacket
  PROVE  IInv'
<1> USE ReassemblyAssumption DEF ReassemblyAssumption
<1>1. CASE Packetize
  <2>1. \A f \in Nat : \A i \in PacketIds :
            HasBeenWritten(f, i)' <=> HasBeenWritten(f, i)
    BY <1>1 DEF Packetize, HasBeenWritten, IInv, TypeOK, PacketIds
  <2>2. TypeOK' /\ Sender' /\ (nextPacket < PacketCount => frameId > 0)'
    BY <1>1, SMTT(30) DEF Packetize, IInv, TypeOK, Sender
  <2>3. NoCopies' /\ Pending' = Pending
    BY <1>1 DEF Packetize, IInv, NoCopies, Pending
  <2>4. \A f, i : Stored(f, i)' <=> Stored(f, i)
    BY <1>1 DEF Packetize, Stored
  <2>5. \A f : Pushed(f)' <=> Pushed(f)
    BY <1>1 DEF Packetize, Pushed
  <2>6. Traffic'
    <3>1. Pending \subseteq Packet
      BY DEF IInv, TypeOK, Pending
    <3>. QED  BY <2>1, <2>3, <2>4, <2>5, <3>1 DEF IInv, Traffic, Packet
  <2>7. Buffers'
    <3>1. DOMAIN frames \subseteq Nat /\ frames' = frames
      BY <1>1 DEF IInv, TypeOK, Packetize
    <3>. QED  BY <2>1, <2>5, <3>1 DEF IInv, Buffers, Collected
  <2>8. Frames'
    <3>1. frame_queue' = frame_queue
      BY <1>1 DEF Packetize
    <3>. QED  BY <2>1, <3>1 DEF IInv, Frames
  <2>9. Conserved'
    <3>1. lost' = lost /\ frameId' = frameId + 1 /\ frameId \in Nat
      BY <1>1 DEF Packetize, IInv, TypeOK
    <3>2. \A f \in Nat, i \in PacketIds : HasBeenWritten(f, i) => f \in 0 .. frameId - 1
      BY <3>1 DEF HasBeenWritten
    <3>. QED  BY <2>1, <2>3, <2>4, <2>5, <3>1, <3>2 DEF IInv, Conserved
  <2>. QED  BY <2>2, <2>3, <2>6, <2>7, <2>8, <2>9 DEF IInv
<1>2. CASE WritePacket
  <2>0. PICK g \in Nat, j \in PacketIds : g = frameId - 1 /\ j = nextPacket
    BY <1>2 DEF WritePacket, IInv, TypeOK, PacketIds
  <2> DEFINE new == PacketOf(0, g, j)
  <2>a. /\ network' = network \cup {new}
        /\ nextPacket' = j + 1
        /\ frameId = g + 1
        /\ UNCHANGED <<session, frameId, captured, dups, lost, receiving,
                       packet_queue, frames, frame_queue>>
    BY <1>2, <2>0 DEF WritePacket, IInv, TypeOK, Sender
  <2>1. \A f \in Nat : \A i \in PacketIds :
            HasBeenWritten(f, i)' <=> HasBeenWritten(f, i) \/ (f = g /\ i = j)
    BY <2>0, <2>a DEF HasBeenWritten, PacketIds
  <2>2. ~HasBeenWritten(g, j)
    BY <2>0, <2>a DEF HasBeenWritten, PacketIds
  <2>3. /\ new \in Packet
        /\ new.frame_id = g
        /\ new.packet_id = j
    BY PacketOfType DEF PacketOf
  <2>4. Pending' = Pending \cup {new} /\ new \notin Pending
    <3>1. Pending' = Pending \cup {new}
      BY <2>a DEF Pending
    <3>. QED  BY <2>2, <2>3, <3>1 DEF IInv, Traffic
  <2>5. TypeOK' /\ Sender' /\ (nextPacket < PacketCount => frameId > 0)'
    BY <2>a, <2>3 DEF IInv, TypeOK, Sender, PacketIds
  <2>6. NoCopies'
    BY <2>a, <2>4 DEF IInv, NoCopies, Pending
  <2>7. \A f, i : Stored(f, i)' <=> Stored(f, i)
    BY <2>a DEF Stored
  <2>8. \A f : Pushed(f)' <=> Pushed(f)
    BY <2>a DEF Pushed
  <2>9. ~Stored(g, j) /\ ~Pushed(g)
    BY <2>2 DEF IInv, Buffers, Collected, Frames, Stored, Pushed
  <2>10. Traffic'
    <3>1. Pending \subseteq Packet
      BY DEF IInv, TypeOK, Pending
    <3>2. HasBeenWritten(g, j)'
      BY <2>1
    <3>. HIDE DEF new
    <3>3. ASSUME NEW p \in Pending'
          PROVE  /\ p = PacketOf(0, p.frame_id, p.packet_id)
                 /\ HasBeenWritten(p.frame_id, p.packet_id)'
                 /\ ~Stored(p.frame_id, p.packet_id)'
                 /\ ~Pushed(p.frame_id)'
      <4>1. CASE p \in Pending
        <5>1. p.frame_id \in Nat /\ p.packet_id \in PacketIds
          BY <3>1, <4>1 DEF Packet
        <5>2. /\ p = PacketOf(0, p.frame_id, p.packet_id)
              /\ HasBeenWritten(p.frame_id, p.packet_id)
              /\ ~Stored(p.frame_id, p.packet_id)
              /\ ~Pushed(p.frame_id)
          BY <4>1 DEF IInv, Traffic
        <5>. QED  BY <2>1, <2>7, <2>8, <5>1, <5>2
      <4>2. CASE p = new
        <5>1. p = PacketOf(0, p.frame_id, p.packet_id)
          BY <2>3, <4>2 DEF new
        <5>. QED  BY <2>3, <2>7, <2>8, <2>9, <3>2, <4>2, <5>1
      <4>. QED  BY <2>4, <4>1, <4>2
    <3>. QED  BY <3>3 DEF Traffic
  <2>11. Buffers'
    <3>1. DOMAIN frames \subseteq Nat
      BY DEF IInv, TypeOK
    <3>. QED  BY <2>a, <2>1, <2>8, <3>1 DEF IInv, Buffers, Collected
  <2>12. Frames'
    BY <2>a, <2>1 DEF IInv, Frames
  <2>13. Conserved'
    BY <2>a, <2>1, <2>4, <2>7, <2>8 DEF IInv, Conserved
  <2>. QED  BY <2>5, <2>6, <2>10, <2>11, <2>12, <2>13 DEF IInv
<1>. QED  BY <1>1, <1>2

\* Lose, Receive and ReceiveFails.  Nothing is written, stored or pushed.
LEMMA LinkStep ==
  ASSUME IInv,
         \/ \E packet \in network : Lose(packet) \/ Receive(packet)
         \/ ReceiveFails
  PROVE  IInv'
<1>1. /\ UNCHANGED <<session, frameId, nextPacket, captured, dups, frames,
                     frame_queue>>
      /\ receiving' \in BOOLEAN
  BY DEF Lose, Receive, ReceiveFails, pcVars, netVars, IInv, TypeOK
<1>2. Pending' \subseteq Pending /\ Pending \cup lost \subseteq Pending' \cup lost'
  <2>1. ASSUME NEW packet \in network, Lose(packet)
        PROVE  Pending' \subseteq Pending /\ Pending \cup lost \subseteq Pending' \cup lost'
    BY <2>1 DEF Lose, Pending
  <2>2. ASSUME NEW packet \in network, Receive(packet)
        PROVE  Pending' \subseteq Pending /\ Pending \cup lost \subseteq Pending' \cup lost'
    <3>1. packet_queue \in Seq(Packet)
      BY DEF IInv, TypeOK
    <3>2. {packet_queue'[k] : k \in 1 .. Len(packet_queue')}
              = {packet_queue[k] : k \in 1 .. Len(packet_queue)} \cup {packet}
      <4>1. /\ Len(packet_queue') = Len(packet_queue) + 1
            /\ \A k \in 1 .. Len(packet_queue) : packet_queue'[k] = packet_queue[k]
            /\ packet_queue'[Len(packet_queue) + 1] = packet
            /\ Len(packet_queue) \in Nat
        BY <2>2, <3>1 DEF Receive
      <4>2. 1 .. Len(packet_queue') = 1 .. Len(packet_queue) \cup {Len(packet_queue) + 1}
        BY <4>1
      <4>. QED  BY <4>1, <4>2
    <3>3. network' = network \ {packet} /\ lost' = lost
      BY <2>2 DEF Receive
    <3>. QED  BY <2>2, <3>2, <3>3 DEF Pending
  <2>3. CASE ReceiveFails
    BY <2>3 DEF ReceiveFails, netVars, Pending
  <2>. QED  BY <2>1, <2>2, <2>3
<1>3. /\ network' \subseteq network
      /\ packet_queue' \in Seq(Packet)
      /\ lost' \subseteq Packet
      /\ NoCopies'
  <2>1. /\ network \subseteq Packet
        /\ packet_queue \in Seq(Packet)
        /\ lost \subseteq Packet
        /\ NoCopies
    BY DEF IInv, TypeOK
  <2>2. ASSUME NEW packet \in network, Lose(packet)
        PROVE  <1>3!1 /\ <1>3!2 /\ <1>3!3 /\ <1>3!4
    BY <2>1, <2>2 DEF Lose, NoCopies
  <2>3. ASSUME NEW packet \in network, Receive(packet)
        PROVE  <1>3!1 /\ <1>3!2 /\ <1>3!3 /\ <1>3!4
    <3>1. packet_queue' = Append(packet_queue, packet) /\ packet \in Packet
      BY <2>1, <2>3 DEF Receive
    <3>2. packet_queue' \in Seq(Packet)
      BY <2>1, <3>1
    <3>. QED  BY <2>1, <2>3, <3>1, <3>2 DEF Receive, NoCopies
  <2>4. CASE ReceiveFails
    BY <2>1, <2>4 DEF ReceiveFails, netVars, NoCopies
  <2>. QED  BY <2>2, <2>3, <2>4
<1>4. TypeOK' /\ Sender' /\ (nextPacket < PacketCount => frameId > 0)'
  BY <1>1, <1>3 DEF IInv, TypeOK, Sender
<1>5. Traffic'
  BY <1>1, <1>2 DEF IInv, Traffic, HasBeenWritten, Stored, Pushed
<1>6. Buffers' /\ Frames'
  BY <1>1 DEF IInv, Buffers, Collected, Frames, HasBeenWritten, Pushed
<1>7. Conserved'
  BY <1>1, <1>2 DEF IInv, Conserved, HasBeenWritten, Stored, Pushed
<1>. QED  BY <1>3, <1>4, <1>5, <1>6, <1>7 DEF IInv

\* The packet the reassembler takes, and its buffer once it is stored.
LEMMA Taken ==
  ASSUME IInv, HandlePacket
  PROVE  LET packet == Head(packet_queue)
             f == packet.frame_id
             i == packet.packet_id
             buffer == Store(BufferFor(packet), packet)
         IN  /\ packet \in Packet /\ packet = PacketOf(0, f, i)
             /\ HasBeenWritten(f, i) /\ ~Stored(f, i) /\ ~Pushed(f)
             /\ Pending' = Pending \ {packet}
             /\ NoCopies'
             /\ buffer \in FrameBuffer
             /\ buffer.recv_counts = Cardinality(Filled(buffer.payloads))
             /\ \A j \in PacketIds :
                   buffer.payloads[j] # Empty <=> Stored(f, j) \/ j = i
             /\ \A j \in PacketIds : buffer.payloads[j] # Empty =>
                   buffer.payloads[j] = <<0, f, j>> /\ HasBeenWritten(f, j)
<1> DEFINE packet == Head(packet_queue)
           f == packet.frame_id
           i == packet.packet_id
           buffer == Store(BufferFor(packet), packet)
<1>1. /\ packet_queue \in Seq(Packet)
      /\ packet_queue # <<>>
      /\ packet_queue' = Tail(packet_queue)
      /\ network' = network
  BY DEF IInv, TypeOK, HandlePacket, netVars
<1>2. /\ packet \in Packet
      /\ packet = packet_queue[1]
      /\ Len(packet_queue) \in Nat \ {0}
      /\ Len(packet_queue') = Len(packet_queue) - 1
      /\ \A k \in 1 .. Len(packet_queue') : packet_queue'[k] = packet_queue[k + 1]
  BY <1>1, HeadTailProperties, EmptySeq
<1>3. packet \in Pending
  BY <1>2 DEF Pending
<1>. HIDE DEF packet
<1>4. /\ packet = PacketOf(0, f, i)
      /\ HasBeenWritten(f, i) /\ ~Stored(f, i) /\ ~Pushed(f)
  BY <1>3 DEF IInv, Traffic
<1>5. Pending' = Pending \ {packet}
  <2>1. \A j, k \in 1 .. Len(packet_queue) :
            packet_queue[j] = packet_queue[k] => j = k
    BY DEF IInv, NoCopies
  <2>2. packet \notin network
    BY <1>2 DEF IInv, NoCopies
  <2>3. \A k \in 1 .. Len(packet_queue') :
            k + 1 \in 1 .. Len(packet_queue) /\ packet_queue'[k] # packet
    BY <1>2, <2>1
  <2>4. \A k \in 1 .. Len(packet_queue) : packet_queue[k] # packet =>
            k - 1 \in 1 .. Len(packet_queue') /\ packet_queue'[k - 1] = packet_queue[k]
    BY <1>2
  <2>5. {packet_queue'[k] : k \in 1 .. Len(packet_queue')}
            = {packet_queue[k] : k \in 1 .. Len(packet_queue)} \ {packet}
    BY <1>2, <2>3, <2>4
  <2>. QED  BY <1>1, <2>2, <2>5 DEF Pending
<1>6. NoCopies'
  BY <1>1, <1>2 DEF IInv, NoCopies
<1>7. /\ BufferFor(packet) \in FrameBuffer
      /\ BufferFor(packet).recv_counts < PacketCount
      /\ BufferFor(packet).recv_counts =
            Cardinality(Filled(BufferFor(packet).payloads))
      /\ \A j \in PacketIds :
            BufferFor(packet).payloads[j] # Empty <=> Stored(f, j)
      /\ \A j \in PacketIds : BufferFor(packet).payloads[j] # Empty =>
            BufferFor(packet).payloads[j] = <<0, f, j>> /\ HasBeenWritten(f, j)
  <2>1. CASE f \in DOMAIN frames
    <3>1. BufferFor(packet) = frames[f]
      BY <2>1 DEF BufferFor
    <3>2. frames[f] \in FrameBuffer
      BY <2>1 DEF IInv, TypeOK
    <3>3. Collected(f, frames[f])
      BY <2>1 DEF IInv, Buffers
    <3>. QED  BY <2>1, <3>1, <3>2, <3>3 DEF Collected, Stored
  <2>2. CASE f \notin DOMAIN frames
    <3>1. BufferFor(packet) = NewBuffer
      BY <2>2 DEF BufferFor
    <3>. QED
      BY <2>2, <3>1, NewBufferProperties, ReassemblyAssumption
      DEF ReassemblyAssumption, Stored
  <2>. QED  BY <2>1, <2>2
<1>8. /\ buffer \in FrameBuffer
      /\ buffer.recv_counts = BufferFor(packet).recv_counts + 1
      /\ buffer.payloads =
            [BufferFor(packet).payloads EXCEPT ![packet.packet_id] = packet.payload]
  BY <1>2, <1>7, StoreProperties
<1>9. Cardinality(Filled(buffer.payloads)) =
          IF i \in Filled(BufferFor(packet).payloads)
          THEN Cardinality(Filled(BufferFor(packet).payloads))
          ELSE Cardinality(Filled(BufferFor(packet).payloads)) + 1
  BY <1>2, <1>7, StoreProperties
<1>10. i \in PacketIds /\ packet.payload = <<0, f, i>> /\ packet.payload # Empty
  BY <1>2, <1>4, PayloadNotEmpty DEF Packet, PacketOf
<1>11. i \notin Filled(BufferFor(packet).payloads)
  BY <1>4, <1>7, <1>10 DEF Filled
<1>12. \A j \in PacketIds : buffer.payloads[j] =
          IF j = i THEN <<0, f, i>> ELSE BufferFor(packet).payloads[j]
  BY <1>7, <1>8, <1>10 DEF FrameBuffer
<1>. HIDE DEF buffer
<1>13. buffer.recv_counts = Cardinality(Filled(buffer.payloads))
  BY <1>7, <1>8, <1>9, <1>11
<1>14. \A j \in PacketIds :
          buffer.payloads[j] # Empty <=> Stored(f, j) \/ j = i
  BY <1>7, <1>10, <1>12
<1>15. \A j \in PacketIds : buffer.payloads[j] # Empty =>
          buffer.payloads[j] = <<0, f, j>> /\ HasBeenWritten(f, j)
  BY <1>4, <1>7, <1>12
<1>. QED
  BY <1>2, <1>4, <1>5, <1>6, <1>8, <1>13, <1>14, <1>15 DEF packet, buffer

\* A packet that leaves its frame incomplete.
LEMMA StoreStep ==
  ASSUME IInv, NEW packet \in Packet, NEW f \in Nat, NEW i \in PacketIds,
         NEW buffer \in FrameBuffer,
         packet = PacketOf(0, f, i),
         HasBeenWritten(f, i), ~Pushed(f),
         Pending' = Pending \ {packet},
         NoCopies',
         buffer.recv_counts = Cardinality(Filled(buffer.payloads)),
         \A j \in PacketIds : buffer.payloads[j] # Empty <=> Stored(f, j) \/ j = i,
         \A j \in PacketIds : buffer.payloads[j] # Empty =>
             buffer.payloads[j] = <<0, f, j>> /\ HasBeenWritten(f, j),
         UNCHANGED <<pcVars, netVars, receiving, frame_queue>>,
         packet_queue' \in Seq(Packet),
         ~FrameComplete(buffer),
         frames' = WithBuffer(f, buffer)
  PROVE  IInv'
<1> USE ReassemblyAssumption DEF ReassemblyAssumption
<1>1. \A g, j : HasBeenWritten(g, j)' <=> HasBeenWritten(g, j)
  BY DEF HasBeenWritten, pcVars
<1>2. /\ DOMAIN frames' = DOMAIN frames \cup {f}
      /\ frames'[f] = buffer
      /\ \A g \in DOMAIN frames : g # f => frames'[g] = frames[g]
      /\ frames' \in [DOMAIN frames' -> FrameBuffer]
  BY DEF WithBuffer, IInv, TypeOK
<1>3. \A g : Pushed(g)' <=> Pushed(g)
  BY DEF Pushed
<1>4. \A g : \A j \in PacketIds :
          Stored(g, j)' <=> Stored(g, j) \/ (g = f /\ j = i)
  BY <1>2 DEF Stored
<1>5. TypeOK' /\ Sender' /\ (nextPacket < PacketCount => frameId > 0)'
  BY <1>2 DEF IInv, TypeOK, Sender, pcVars, netVars
<1>6. Traffic'
  <2>1. ASSUME NEW p \in Pending'
        PROVE  /\ p = PacketOf(0, p.frame_id, p.packet_id)
               /\ HasBeenWritten(p.frame_id, p.packet_id)'
               /\ ~Stored(p.frame_id, p.packet_id)'
               /\ ~Pushed(p.frame_id)'
    <3>0. p \in Pending /\ p # packet
      OBVIOUS
    <3>1. p \in Pending /\ p # packet /\ p \in Packet
      BY <3>0 DEF Pending, IInv, TypeOK
    <3>2. /\ p = PacketOf(0, p.frame_id, p.packet_id)
          /\ HasBeenWritten(p.frame_id, p.packet_id)
          /\ ~Stored(p.frame_id, p.packet_id)
          /\ ~Pushed(p.frame_id)
      BY <3>1 DEF IInv, Traffic
    <3>3. p.packet_id \in PacketIds
      BY <3>1 DEF Packet
    <3>4. ~(p.frame_id = f /\ p.packet_id = i)
      BY <3>1, <3>2
    <3>. QED  BY <1>1, <1>3, <1>4, <3>2, <3>3, <3>4
  <2>. QED  BY <2>1 DEF Traffic
<1>7. Buffers'
  <2>1. Collected(f, buffer)'
    <3>1. buffer.recv_counts < PacketCount
      <4>1. buffer.recv_counts \in 0 .. PacketCount
        BY DEF FrameBuffer
      <4>. QED  BY <4>1 DEF FrameComplete
    <3>. QED  BY <1>1, <3>1 DEF Collected
  <2>2. ASSUME NEW g \in DOMAIN frames, g # f
        PROVE  (Collected(g, frames[g]) /\ ~Pushed(g))'
    BY <1>1, <1>2, <1>3, <2>2 DEF IInv, Buffers, Collected
  <2>3. ~Pushed(f)'
    BY <1>3
  <2>. QED  BY <1>2, <2>1, <2>2, <2>3 DEF Buffers, Collected
<1>8. Frames'
  BY <1>1 DEF IInv, Frames
<1>9. Conserved'
  <2>1. \A g, j : PacketOf(0, g, j) = packet => g = f /\ j = i
    BY DEF PacketOf
  <2>. QED
    BY <1>1, <1>3, <1>4, <2>1 DEF IInv, Conserved, pcVars, netVars
<1>. QED  BY <1>5, <1>6, <1>7, <1>8, <1>9 DEF IInv

\* The packet that completes its frame.
LEMMA PushStep ==
  ASSUME IInv, NEW packet \in Packet, NEW f \in Nat, NEW i \in PacketIds,
         NEW buffer \in FrameBuffer,
         packet = PacketOf(0, f, i),
         ~Pushed(f),
         Pending' = Pending \ {packet},
         NoCopies',
         buffer.recv_counts = Cardinality(Filled(buffer.payloads)),
         \A j \in PacketIds : buffer.payloads[j] # Empty <=> Stored(f, j) \/ j = i,
         \A j \in PacketIds : buffer.payloads[j] # Empty =>
             buffer.payloads[j] = <<0, f, j>> /\ HasBeenWritten(f, j),
         UNCHANGED <<pcVars, netVars, receiving>>,
         packet_queue' \in Seq(Packet),
         FrameComplete(buffer),
         PushFrame(f, buffer)
  PROVE  /\ IInv'
         /\ frame_queue' =
               Append(frame_queue, [frame_id |-> f, iq_data |-> Cube(0, f)])
<1> USE ReassemblyAssumption DEF ReassemblyAssumption
<1>1. \A g, j : HasBeenWritten(g, j)' <=> HasBeenWritten(g, j)
  BY DEF HasBeenWritten, pcVars
<1>2. /\ DOMAIN frames' = DOMAIN frames \ {f}
      /\ \A g \in DOMAIN frames' : frames'[g] = frames[g]
      /\ frames' \in [DOMAIN frames' -> FrameBuffer]
  BY DEF PushFrame, WithoutBuffer, IInv, TypeOK
<1>3. \A j \in PacketIds : buffer.payloads[j] # Empty
  <2>1. Filled(buffer.payloads) = PacketIds
    BY FilledFinite DEF FrameComplete
  <2>. QED  BY <2>1 DEF Filled
<1>4. /\ \A j \in PacketIds : HasBeenWritten(f, j) /\ (j # i => Stored(f, j))
      /\ ConvertToComplex(buffer.payloads) = Cube(0, f)
  BY <1>3, WholeCube
<1> DEFINE frame == [frame_id |-> f, iq_data |-> Cube(0, f)]
<1>5. frame_queue' = Append(frame_queue, frame)
  BY <1>4 DEF PushFrame
<1>6. /\ frame \in [frame_id : Nat, iq_data : Seq(Payload)]
      /\ frame.frame_id = f
      /\ frame.iq_data = Cube(0, f)
  BY CubeType
<1>. HIDE DEF frame
<1>7. /\ frame_queue' \in Seq(RadarFrame)
      /\ 1 .. Len(frame_queue') = 1 .. Len(frame_queue) \cup {Len(frame_queue) + 1}
      /\ Len(frame_queue) + 1 \notin 1 .. Len(frame_queue)
      /\ \A k \in 1 .. Len(frame_queue) : frame_queue'[k] = frame_queue[k]
      /\ frame_queue'[Len(frame_queue) + 1] = frame
  <2>1. frame_queue \in Seq(RadarFrame) /\ frame \in RadarFrame
    BY <1>6 DEF IInv, TypeOK, RadarFrame
  <2>2. /\ frame_queue' \in Seq(RadarFrame)
        /\ Len(frame_queue) \in Nat
        /\ Len(frame_queue') = Len(frame_queue) + 1
        /\ \A k \in 1 .. Len(frame_queue) : frame_queue'[k] = frame_queue[k]
        /\ frame_queue'[Len(frame_queue) + 1] = frame
    BY <1>5, <2>1
  <2>. QED  BY <2>2
<1>8. \A g : Pushed(g)' <=> Pushed(g) \/ g = f
  <2> SUFFICES ASSUME NEW g PROVE Pushed(g)' <=> Pushed(g) \/ g = f
    OBVIOUS
  <2>1. Pushed(g)' <=> \/ \E k \in 1 .. Len(frame_queue) : frame_queue'[k].frame_id = g
                      \/ frame_queue'[Len(frame_queue) + 1].frame_id = g
    BY <1>7 DEF Pushed
  <2>. QED  BY <1>6, <1>7, <2>1 DEF Pushed
<1>9. \A g, j : Stored(g, j)' <=> Stored(g, j) /\ g # f
  BY <1>2 DEF Stored
<1>10. TypeOK' /\ Sender' /\ (nextPacket < PacketCount => frameId > 0)'
  BY <1>2, <1>7 DEF IInv, TypeOK, Sender, pcVars, netVars, RadarFrame
<1>11. Traffic'
  <2>1. ASSUME NEW p \in Pending'
        PROVE  /\ p = PacketOf(0, p.frame_id, p.packet_id)
               /\ HasBeenWritten(p.frame_id, p.packet_id)'
               /\ ~Stored(p.frame_id, p.packet_id)'
               /\ ~Pushed(p.frame_id)'
    <3>0. p \in Pending /\ p # packet
      OBVIOUS
    <3>a. p \in Packet
      BY <3>0 DEF Pending, IInv, TypeOK
    <3>1. p \in Pending /\ p # packet /\ p.packet_id \in PacketIds
      BY <3>0, <3>a DEF Packet
    <3>2. /\ p = PacketOf(0, p.frame_id, p.packet_id)
          /\ HasBeenWritten(p.frame_id, p.packet_id)
          /\ ~Stored(p.frame_id, p.packet_id)
          /\ ~Pushed(p.frame_id)
      BY <3>1 DEF IInv, Traffic
    <3>3. p.frame_id # f
      BY <1>4, <3>1, <3>2
    <3>. QED  BY <1>1, <1>8, <1>9, <3>2, <3>3
  <2>. QED  BY <2>1 DEF Traffic
<1>12. Buffers'
  BY <1>1, <1>2, <1>8 DEF IInv, Buffers, Collected
<1>13. Frames'
  <2>1. \A k \in 1 .. Len(frame_queue) : frame_queue[k].frame_id # f
    BY DEF Pushed
  <2>2. ASSUME NEW k \in 1 .. Len(frame_queue')
        PROVE  /\ frame_queue'[k].frame_id \in Nat
               /\ frame_queue'[k].iq_data = Cube(0, frame_queue'[k].frame_id)
               /\ \A j \in PacketIds : HasBeenWritten(frame_queue'[k].frame_id, j)
    <3>1. CASE k \in 1 .. Len(frame_queue)
      BY <1>7, <3>1 DEF IInv, Frames
    <3>2. CASE k = Len(frame_queue) + 1
      BY <1>4, <1>6, <1>7, <3>2
    <3>. QED  BY <1>7, <3>1, <3>2
  <2>3. ASSUME NEW j \in 1 .. Len(frame_queue'), NEW k \in 1 .. Len(frame_queue'),
               frame_queue'[j].frame_id = frame_queue'[k].frame_id
        PROVE  j = k
    <3>1. \A m, n \in 1 .. Len(frame_queue) :
              frame_queue[m].frame_id = frame_queue[n].frame_id => m = n
      BY DEF IInv, Frames
    <3>. QED  BY <1>6, <1>7, <2>1, <2>3, <3>1
  <2>4. \A g, j : HasBeenWritten(g, j) => HasBeenWritten(g, j)'
    BY <1>1
  <2>. QED
    <3>1. ASSUME NEW k \in 1 .. Len(frame_queue')
          PROVE  \A j \in PacketIds : (HasBeenWritten(frame_queue[k].frame_id, j))'
      <4>1. PICK g : g = frame_queue'[k].frame_id
        OBVIOUS
      <4>2. \A j \in PacketIds : HasBeenWritten(g, j)'
        BY <2>2, <2>4, <4>1
      <4>. QED  BY <4>1, <4>2 DEF HasBeenWritten
    <3>. QED  BY <2>2, <2>3, <3>1 DEF Frames
<1>14. Conserved'
  <2>1. \A g, j : PacketOf(0, g, j) = packet => g = f
    BY DEF PacketOf
  <2>. QED
    BY <1>1, <1>8, <1>9, <2>1 DEF IInv, Conserved, pcVars, netVars
<1>. QED  BY <1>5, <1>10, <1>11, <1>12, <1>13, <1>14 DEF IInv, frame

LEMMA HandleStep ==
  ASSUME IInv, HandlePacket
  PROVE  /\ IInv'
         /\ \/ frame_queue' = frame_queue
            \/ \E f \in Nat :
                  /\ ~Pushed(f)
                  /\ \E i \in PacketIds : HasBeenWritten(f, i)
                  /\ frame_queue' = Append(frame_queue,
                         [frame_id |-> f, iq_data |-> Cube(0, f)])
<1>1. PICK packet : packet = Head(packet_queue)
  OBVIOUS
<1>2. PICK f, i : f = packet.frame_id /\ i = packet.packet_id
  OBVIOUS
<1>3. PICK buffer : buffer = Store(BufferFor(packet), packet)
  OBVIOUS
<1>4. /\ packet \in Packet /\ packet = PacketOf(0, f, i)
      /\ HasBeenWritten(f, i) /\ ~Stored(f, i) /\ ~Pushed(f)
      /\ Pending' = Pending \ {packet}
      /\ NoCopies'
      /\ buffer \in FrameBuffer
      /\ buffer.recv_counts = Cardinality(Filled(buffer.payloads))
      /\ \A j \in PacketIds :
            buffer.payloads[j] # Empty <=> Stored(f, j) \/ j = i
      /\ \A j \in PacketIds : buffer.payloads[j] # Empty =>
            buffer.payloads[j] = <<0, f, j>> /\ HasBeenWritten(f, j)
  BY <1>1, <1>2, <1>3, Taken
<1>5. f \in Nat /\ i \in PacketIds
  BY <1>2, <1>4 DEF Packet
<1>6. /\ UNCHANGED <<pcVars, netVars, receiving>>
      /\ packet_queue' \in Seq(Packet)
  BY HeadTailProperties DEF HandlePacket, IInv, TypeOK
<1>7. IF FrameComplete(buffer)
      THEN PushFrame(f, buffer)
      ELSE frames' = WithBuffer(f, buffer) /\ UNCHANGED frame_queue
  BY <1>1, <1>2, <1>3 DEF HandlePacket
<1>8. CASE FrameComplete(buffer)
  BY <1>4, <1>5, <1>6, <1>7, <1>8, PushStep
<1>9. CASE ~FrameComplete(buffer)
  BY <1>4, <1>5, <1>6, <1>7, <1>9, StoreStep
<1>. QED  BY <1>8, <1>9

LEMMA InvStep ==
  ASSUME IInv, [Next]_vars, Undisturbed'
  PROVE  IInv'
<1>1. session \in Nat /\ dups \in Nat
  BY DEF IInv, TypeOK
<1>2. ~Restart
  BY <1>1 DEF Restart, Undisturbed
<1>3. ASSUME NEW packet \in network PROVE ~ReceiveCopy(packet)
  BY <1>1 DEF ReceiveCopy, Undisturbed
<1>4. CASE UNCHANGED vars
  <2>1. UNCHANGED <<session, frameId, nextPacket, network, dups, receiving,
                    packet_queue, frames, frame_queue, captured, lost>>
    BY <1>4 DEF vars
  <2>. QED
    BY <2>1 DEF IInv, TypeOK, Sender, NoCopies, Traffic, Buffers, Frames,
                Conserved, Pending, Collected, HasBeenWritten, Stored, Pushed
<1>. QED
  BY SenderStep, LinkStep, HandleStep, <1>2, <1>3, <1>4 DEF Next

\* The budgets of duplicates and restarts, and that neither is given back.
LEMMA DisturbedForGood ==
  ASSUME TypeOK, [Next]_vars
  PROVE  /\ Undisturbed' => Undisturbed
         /\ session <= MaxRestarts /\ dups <= MaxDups
               => session' <= MaxRestarts /\ dups' <= MaxDups
<1> USE ReassemblyAssumption DEF ReassemblyAssumption, Undisturbed
<1>1. session \in Nat /\ dups \in Nat
  BY DEF TypeOK
<1>2. CASE Restart
  BY <1>1, <1>2 DEF Restart
<1>3. ASSUME NEW packet \in network, ReceiveCopy(packet)
      PROVE  /\ Undisturbed' => Undisturbed
             /\ session <= MaxRestarts /\ dups <= MaxDups
                   => session' <= MaxRestarts /\ dups' <= MaxDups
  BY <1>1, <1>3 DEF ReceiveCopy, pcVars
<1>4. CASE UNCHANGED <<session, dups>>
  BY <1>4
<1>5. ASSUME ~Restart, ~ \E packet \in network : ReceiveCopy(packet)
      PROVE  UNCHANGED <<session, dups>>
  BY <1>5 DEF Next, Packetize, WritePacket, Lose, Receive, ReceiveFails,
              HandlePacket, pcVars, netVars, vars
<1>. QED  BY <1>2, <1>3, <1>4, <1>5

LEMMA InvInit == Init => IInv
<1> SUFFICES ASSUME Init PROVE IInv
  OBVIOUS
<1> USE ReassemblyAssumption DEF ReassemblyAssumption
<1>1. DOMAIN frames = {} /\ Pending = {} /\ Len(packet_queue) = 0 /\ Len(frame_queue) = 0
  BY EmptySeq DEF Init, Pending
<1>2. TypeOK
  <2>1. /\ packet_queue \in Seq(Packet)
        /\ frame_queue \in Seq([frame_id : Nat, iq_data : Seq(Payload)])
    BY EmptySeq DEF Init
  <2>. QED  BY <1>1, <2>1 DEF Init, TypeOK
<1>3. Sender
  BY DEF Init, Sender
<1>4. NoCopies /\ Traffic /\ Buffers /\ Frames
  BY <1>1 DEF NoCopies, Traffic, Buffers, Frames
<1>5. Conserved
  BY DEF Init, Conserved
<1>. QED  BY <1>2, <1>3, <1>4, <1>5 DEF Init, IInv

LEMMA Invariance == Spec => [](Undisturbed => IInv)
<1>1. IInv /\ [Next]_vars /\ Undisturbed' => IInv'
  BY InvStep
<1>2. TypeOK /\ [Next]_vars /\ Undisturbed' => Undisturbed
  BY DisturbedForGood
<1>. QED  BY InvInit, <1>1, <1>2, TypeCorrect, PTL DEF Spec

LEMMA ReliableStays == Reliable => (Spec => []Undisturbed)
<1> SUFFICES ASSUME Reliable PROVE Spec => []Undisturbed
  OBVIOUS
<1> DEFINE Within == session <= MaxRestarts /\ dups <= MaxDups
<1>1. Init => Within
  BY ReassemblyAssumption DEF ReassemblyAssumption, Init
<1>2. TypeOK /\ Within /\ [Next]_vars => Within'
  BY DisturbedForGood
<1>3. TypeOK /\ Within => Undisturbed
  BY DEF Reliable, TypeOK, Undisturbed
<1>. HIDE DEF Within
<1>. QED  BY <1>1, <1>2, <1>3, TypeCorrect, PTL DEF Spec

(***************************************************************************)
(* Until UDP duplicates a packet or the PC restarts, the processor gets no *)
(* partial scan: everything pushed before the first such fault is whole.   *)
(***************************************************************************)
THEOREM CompleteUntilDisturbed == Spec => [](Undisturbed => CompleteFrames)
<1>1. IInv => CompleteFrames
  BY DEF IInv, Frames, CompleteFrames, Sender
<1>. QED  BY <1>1, Invariance, PTL

(***************************************************************************)
(* The processor never gets a partial scan as long as UDP only loses and   *)
(* reorders packets and the PC does not restart.                           *)
(***************************************************************************)
THEOREM FramesAreComplete == Reliable => (Spec => []CompleteFrames)
<1> SUFFICES ASSUME Reliable PROVE Spec => []CompleteFrames
  OBVIOUS
<1>. QED  BY CompleteUntilDisturbed, ReliableStays, PTL

(***************************************************************************)
(* What RadarReassembler keeps until UDP duplicates or the PC restarts: a  *)
(* buffer waits for a packet that is still to come, or for one that was    *)
(* lost and never will.                                                    *)
(***************************************************************************)
THEOREM LeaksUntilDisturbed == Spec => [](Undisturbed => BufferedFramesWait)
<1>1. IInv => BufferedFramesWait
  <2> SUFFICES ASSUME IInv, NEW f \in DOMAIN frames
               PROVE  \E i \in PacketIds :
                        /\ frames[f].payloads[i] = Empty
                        /\ \/ PacketOf(session, f, i) \notin Written
                           \/ PacketOf(session, f, i) \in network \cup lost
                           \/ \E k \in 1 .. Len(packet_queue) :
                                 packet_queue[k] = PacketOf(session, f, i)
    BY DEF BufferedFramesWait
  <2>1. f \in Nat /\ Collected(f, frames[f]) /\ ~Pushed(f) /\ session = 0
    BY DEF IInv, TypeOK, Buffers, Sender
  <2>2. Filled(frames[f].payloads) # PacketIds
    <3>1. Filled(frames[f].payloads) = PacketIds =>
              Cardinality(Filled(frames[f].payloads)) = PacketCount
      <4>1. Cardinality(0 .. PacketCount - 1) =
                IF 0 > PacketCount - 1 THEN 0 ELSE PacketCount - 1 - 0 + 1
        BY ReassemblyAssumption, FS_Interval DEF ReassemblyAssumption
      <4>2. Cardinality(PacketIds) = PacketCount
        BY <4>1, ReassemblyAssumption DEF ReassemblyAssumption, PacketIds
      <4>. QED  BY <4>2
    <3>. QED
      BY <2>1, <3>1, ReassemblyAssumption DEF ReassemblyAssumption, Collected
  <2>3. PICK i \in PacketIds : frames[f].payloads[i] = Empty
    BY <2>2 DEF Filled
  <2>4. ~Stored(f, i)
    BY <2>3 DEF Stored
  <2>5. ASSUME PacketOf(0, f, i) \in Written
        PROVE  f \in 0 .. frameId - 1 /\ HasBeenWritten(f, i)
    <3>1. /\ frameId \in Nat
          /\ nextPacket \in 0 .. PacketCount
      BY DEF IInv, TypeOK
    <3>2. PICK g \in 0 .. frameId - 1, j \in PacketIds :
              PacketOf(0, f, i) = PacketOf(0, g, j)
      BY <2>1, <2>5 DEF Written
    <3>3. g = f /\ j = i
      BY <3>2 DEF PacketOf
    <3>4. f = frameId - 1 => i \notin nextPacket .. PacketCount - 1
      BY <2>1, <2>5 DEF Written
    <3>. QED
      BY <3>1, <3>2, <3>3, <3>4, ReassemblyAssumption
      DEF ReassemblyAssumption, HasBeenWritten, PacketIds
  <2>6. PacketOf(0, f, i) \in Written => PacketOf(0, f, i) \in Pending \cup lost
    BY <2>1, <2>4, <2>5 DEF IInv, Conserved
  <2>. QED  BY <2>1, <2>3, <2>6 DEF Pending
<1>. QED  BY <1>1, Invariance, PTL

(***************************************************************************)
(* On a link that only loses and reorders, a buffer stays in frames_ only  *)
(* while a packet of it is to come, or because one was lost.               *)
(***************************************************************************)
THEOREM BuffersLeakOnlyByLoss == Reliable => (Spec => []BufferedFramesWait)
<1> SUFFICES ASSUME Reliable PROVE Spec => []BufferedFramesWait
  OBVIOUS
<1>. QED  BY LeaksUntilDisturbed, ReliableStays, PTL

-----------------------------------------------------------------------------

\* The frames pushed, as FrameSource sees them.
Delivered == [k \in 1 .. Len(frame_queue) |-> ScanOf(frame_queue[k])]

\* A whole scan is recognised.
LEMMA WholeScan ==
  ASSUME NEW frame, NEW f, frame.frame_id = f, frame.iq_data = Cube(0, f)
  PROVE  ScanOf(frame) = <<0, f>>
<1>1. 1 \in 1 .. PacketCount
  BY ReassemblyAssumption DEF ReassemblyAssumption
<1>2. Cube(0, f)[1] = <<0, f, 0>>
  BY <1>1 DEF Cube
<1>. QED  BY <1>2 DEF ScanOf

\* A frame pushed is a scan delivered.
LEMMA PushDelivers ==
  ASSUME IInv, NEW f \in Nat,
         frame_queue' = Append(frame_queue, [frame_id |-> f, iq_data |-> Cube(0, f)])
  PROVE  Delivered' = Append(Delivered, <<0, f>>)
<1> DEFINE frame == [frame_id |-> f, iq_data |-> Cube(0, f)]
<1>1. frame_queue \in Seq(RadarFrame) /\ frame \in RadarFrame
  BY CubeType DEF IInv, TypeOK, RadarFrame
<1>2. ScanOf(frame) = <<0, f>>
  BY WholeScan
<1>. HIDE DEF frame
<1>3. /\ Len(frame_queue) \in Nat
      /\ Len(frame_queue') = Len(frame_queue) + 1
      /\ \A k \in 1 .. Len(frame_queue) : frame_queue'[k] = frame_queue[k]
      /\ frame_queue'[Len(frame_queue) + 1] = frame
  BY <1>1 DEF frame
<1>4. Delivered \in Seq({ScanOf(frame_queue[k]) : k \in 1 .. Len(frame_queue)})
  BY <1>3 DEF Delivered
<1>5. /\ Delivered' = [k \in 1 .. Len(frame_queue) + 1 |-> ScanOf(frame_queue'[k])]
      /\ Len(Delivered) = Len(frame_queue)
  BY <1>3 DEF Delivered, ScanOf
<1>6. Append(Delivered, <<0, f>>) =
          [k \in 1 .. Len(frame_queue) + 1 |->
              IF k = Len(frame_queue) + 1 THEN <<0, f>> ELSE Delivered[k]]
  BY <1>3, <1>4, <1>5
<1>7. \A k \in 1 .. Len(frame_queue) + 1 : ScanOf(frame_queue'[k]) =
          IF k = Len(frame_queue) + 1 THEN <<0, f>> ELSE Delivered[k]
  <2>1. \A k \in 1 .. Len(frame_queue) : Delivered[k] = ScanOf(frame_queue[k])
    BY DEF Delivered
  <2>. HIDE DEF Delivered
  <2>2. ASSUME NEW k \in 1 .. Len(frame_queue) + 1, k # Len(frame_queue) + 1
        PROVE  ScanOf(frame_queue'[k]) = Delivered[k]
    <3>1. k \in 1 .. Len(frame_queue)
      BY <1>3, <2>2
    <3>. QED  BY <1>3, <2>1, <3>1
  <2>3. ScanOf(frame_queue'[Len(frame_queue) + 1]) = <<0, f>>
    BY <1>2, <1>3
  <2>. QED  BY <2>2, <2>3
<1>. QED  BY <1>5, <1>6, <1>7

\* Until the first duplicate or restart, every step of the road is one of
\* FrameSource or none.
LEMMA SourceStep ==
  ASSUME IInv, [Next]_vars, Undisturbed'
  PROVE  [Source!Next]_(Source!vars)
<1>0. session \in Nat
  BY DEF IInv, TypeOK
<1>1. ASSUME UNCHANGED <<captured, frame_queue>>
      PROVE  UNCHANGED Source!vars
  <2>1. Delivered' = Delivered
    BY <1>1 DEF Delivered, ScanOf
  <2>. QED  BY <1>1, <2>1 DEF Source!vars, Delivered
<1>2. CASE Packetize
  <2>1. PICK f \in Nat : f = frameId
    BY DEF IInv, TypeOK
  <2>2. <<0, f>> \in (0 .. MaxRestarts) \X (0 .. MaxFrames - 1)
    BY <1>2, <2>1, ReassemblyAssumption DEF ReassemblyAssumption, Packetize
  <2>3. <<0, f>> \notin captured /\ captured' = captured \cup {<<0, f>>}
    BY <1>2, <2>1 DEF Packetize, IInv, Sender
  <2>4. Delivered' = Delivered
    BY <1>2 DEF Packetize, Delivered, ScanOf
  <2>5. Source!Capture(<<0, f>>)
    BY <2>3, <2>4 DEF Source!Capture, Delivered
  <2>. QED  BY <2>2, <2>5 DEF Source!Next
<1>3. CASE HandlePacket
  <2>1. captured' = captured
    BY <1>3 DEF HandlePacket, pcVars
  <2>2. CASE frame_queue' = frame_queue
    BY <1>1, <2>1, <2>2
  <2>3. ASSUME NEW f \in Nat, ~Pushed(f),
               \E i \in PacketIds : HasBeenWritten(f, i),
               frame_queue' = Append(frame_queue,
                   [frame_id |-> f, iq_data |-> Cube(0, f)])
        PROVE  [Source!Next]_(Source!vars)
    <3>1. Delivered' = Append(Delivered, <<0, f>>)
      BY <2>3, PushDelivers
    <3>2. f \in 0 .. frameId - 1
      BY <2>3 DEF HasBeenWritten, IInv, TypeOK
    <3>3. <<0, f>> \in captured
      BY <3>2 DEF IInv, Sender
    <3>4. <<0, f>> \in (0 .. MaxRestarts) \X (0 .. MaxFrames - 1)
      BY <3>2, ReassemblyAssumption
      DEF ReassemblyAssumption, IInv, TypeOK, Sender
    <3>5. /\ Len(Delivered) = Len(frame_queue)
          /\ \A k \in 1 .. Len(Delivered) : Delivered[k] # <<0, f>>
      <4>1. Len(frame_queue) \in Nat
        BY DEF IInv, TypeOK
      <4>2. Len(Delivered) = Len(frame_queue)
        BY <4>1 DEF Delivered
      <4>3. ASSUME NEW k \in 1 .. Len(frame_queue)
            PROVE  Delivered[k] # <<0, f>>
        <5>1. frame_queue[k].iq_data = Cube(0, frame_queue[k].frame_id)
          BY DEF IInv, Frames
        <5>2. ScanOf(frame_queue[k]) = <<0, frame_queue[k].frame_id>>
          BY <5>1, WholeScan
        <5>3. frame_queue[k].frame_id # f
          BY <2>3 DEF Pushed
        <5>. QED  BY <5>2, <5>3 DEF Delivered
      <4>. QED  BY <4>2, <4>3
    <3>6. Source!Deliver(<<0, f>>)
      BY <2>1, <3>1, <3>3, <3>5 DEF Source!Deliver, Delivered
    <3>. QED  BY <3>4, <3>6 DEF Source!Next
  <2>. QED  BY <1>3, <2>2, <2>3, HandleStep
<1>4. CASE WritePacket \/ ReceiveFails
  BY <1>1, <1>4 DEF WritePacket, ReceiveFails, pcVars
<1>5. CASE Restart
  BY <1>0, <1>5 DEF Restart, Undisturbed
<1>6. ASSUME NEW packet \in network,
             Lose(packet) \/ Receive(packet) \/ ReceiveCopy(packet)
      PROVE  [Source!Next]_(Source!vars)
  BY <1>1, <1>6 DEF Lose, Receive, ReceiveCopy, pcVars
<1>7. CASE UNCHANGED vars
  BY <1>1, <1>7 DEF vars
<1>. QED  BY <1>2, <1>3, <1>4, <1>5, <1>6, <1>7 DEF Next

LEMMA SourceInit == Init => Source!Init
BY EmptySeq DEF Init, Source!Init

(***************************************************************************)
(* PC, link, receiver and reassembler together are a source of whole       *)
(* scans, each delivered at most once, until UDP duplicates a packet or    *)
(* the PC restarts: whatever those faults do, what came before is right.   *)
(***************************************************************************)
THEOREM SourceUntilDisturbed ==
  Spec => Source!Init /\ [][Undisturbed' => [Source!Next]_(Source!vars)]_vars
<1>1. /\ (Undisturbed => IInv)
      /\ TypeOK
      /\ [Next]_vars
      => [Undisturbed' => [Source!Next]_(Source!vars)]_vars
  BY DisturbedForGood, SourceStep
<1>. QED  BY <1>1, SourceInit, Invariance, TypeCorrect, PTL DEF Spec

(***************************************************************************)
(* On a link that only loses and reorders they implement the abstract      *)
(* source.                                                                 *)
(***************************************************************************)
THEOREM Refinement == Reliable => (Spec => ImplementsFrameSource)
<1> SUFFICES ASSUME Reliable PROVE Spec => ImplementsFrameSource
  OBVIOUS
<1>1. IInv /\ [Next]_vars /\ Undisturbed' => [Source!Next]_(Source!vars)
  BY SourceStep
<1>. QED
  BY <1>1, SourceInit, Invariance, ReliableStays, PTL
  DEF Spec, ImplementsFrameSource, Source!Spec-----------------------------------------------------------------------------
(* What duplicates and restarts can cost                                   *)

\* The places of a frame id in a queue.
Of(q, f) == {k \in 1 .. Len(q) : q[k].frame_id = f}

Counter(f) == IF f \in DOMAIN frames THEN frames[f].recv_counts ELSE 0

\* The packets of frame id f that can still be received: those on the wire, and
\* those that the running session has not written yet.
Coming(f) ==
    {c \in (0 .. session) \X PacketIds :
        \/ PacketOf(c[1], f, c[2]) \in network
        \/ c[1] = session /\ ~HasBeenWritten(f, c[2])}

\* In the first session, until frame f is pushed: those that the reassembler
\* neither has nor will find in its queue.
Missing(f) ==
    {c \in {0} \X PacketIds :
        /\ session = 0
        /\ PushesOf(f) = {}
        /\ ~Stored(f, c[2])
        /\ \A k \in Of(packet_queue, f) : packet_queue[k].packet_id # c[2]}

Owed(f) == Coming(f) \cup Missing(f)

(***************************************************************************)
(* The account of a frame id: a session pays in PacketCount packets and a  *)
(* duplicate one more; a push takes PacketCount out, and what is counted,  *)
(* queued or still owed is covered.                                        *)
(***************************************************************************)
Charge(f) ==
    PacketCount * Cardinality(PushesOf(f))
        + Counter(f) + Cardinality(Of(packet_queue, f)) + Cardinality(Owed(f))

Budget == PacketCount * (session + 1) + dups

Account(f) == Charge(f) <= Budget

\* A packet on the wire is one that the PC wrote, now or in an earlier session.
KnownSource ==
    \A packet \in network : \E s \in 0 .. session :
        /\ packet = PacketOf(s, packet.frame_id, packet.packet_id)
        /\ s = session => HasBeenWritten(packet.frame_id, packet.packet_id)

LEMMA OfFinite ==
  ASSUME NEW S, NEW q \in Seq(S), NEW f
  PROVE  IsFiniteSet(Of(q, f)) /\ Cardinality(Of(q, f)) \in Nat
<1>1. IsFiniteSet(1 .. Len(q))
  BY FS_Interval
<1>2. Of(q, f) \in SUBSET (1 .. Len(q))
  BY DEF Of
<1>3. IsFiniteSet(Of(q, f))
  BY <1>1, <1>2, FS_Subset
<1>. QED  BY <1>3, FS_CardinalityType

LEMMA OfAppend ==
  ASSUME NEW S, NEW q \in Seq(S), NEW x \in S, NEW f
  PROVE  /\ x.frame_id = f =>
               /\ Of(Append(q, x), f) # {}
               /\ Cardinality(Of(Append(q, x), f)) = Cardinality(Of(q, f)) + 1
         /\ x.frame_id # f => Of(Append(q, x), f) = Of(q, f)
<1>1. /\ Len(q) \in Nat
      /\ Len(Append(q, x)) = Len(q) + 1
      /\ \A k \in 1 .. Len(q) : Append(q, x)[k] = q[k]
      /\ Append(q, x)[Len(q) + 1] = x
  OBVIOUS
<1>2. \A k : k \in 1 .. Len(Append(q, x)) <=> k \in 1 .. Len(q) \/ k = Len(q) + 1
  BY <1>1
<1>3. ASSUME x.frame_id = f
      PROVE  /\ Of(Append(q, x), f) = Of(q, f) \cup {Len(q) + 1}
             /\ Len(q) + 1 \notin Of(q, f)
  BY <1>1, <1>2, <1>3 DEF Of
<1>4. ASSUME x.frame_id # f
      PROVE  Of(Append(q, x), f) = Of(q, f)
  BY <1>1, <1>2, <1>4 DEF Of
<1>5. IsFiniteSet(Of(q, f))
  BY OfFinite
<1>6. ASSUME x.frame_id = f
      PROVE  Cardinality(Of(Append(q, x), f)) = Cardinality(Of(q, f)) + 1
  BY <1>3, <1>5, <1>6, FS_AddElement
<1>. QED  BY <1>3, <1>4, <1>6

LEMMA OfTail ==
  ASSUME NEW S, NEW q \in Seq(S), q # <<>>, NEW f
  PROVE  Cardinality(Of(Tail(q), f)) =
             IF Head(q).frame_id = f THEN Cardinality(Of(q, f)) - 1
                                     ELSE Cardinality(Of(q, f))
<1> DEFINE rest == Of(q, f) \ {1}
           shift == [k \in Of(Tail(q), f) |-> k + 1]
<1>1. /\ Len(q) \in Nat /\ Len(q) > 0
      /\ Head(q) = q[1]
      /\ Len(Tail(q)) = Len(q) - 1
      /\ \A k \in 1 .. Len(Tail(q)) : Tail(q)[k] = q[k + 1]
  OBVIOUS
<1>2. 1 \in Of(q, f) <=> Head(q).frame_id = f
  BY <1>1 DEF Of
<1>9. Tail(q) \in Seq(S)
  OBVIOUS
<1>3. IsFiniteSet(Of(Tail(q), f)) /\ IsFiniteSet(Of(q, f))
  BY <1>9, OfFinite
<1>4. \A k \in Of(Tail(q), f) : k \in Int /\ k + 1 \in rest
  BY <1>1 DEF Of
<1>5. \A k \in rest : k - 1 \in Of(Tail(q), f) /\ k \in Int
  BY <1>1 DEF Of
<1>. HIDE DEF rest
<1>6. shift \in Bijection(Of(Tail(q), f), rest)
  <2>1. shift \in [Of(Tail(q), f) -> rest]
    BY <1>4
  <2>2. \A j, k \in Of(Tail(q), f) : shift[j] = shift[k] => j = k
    BY <1>4
  <2>3. \A k \in rest : \E j \in Of(Tail(q), f) : shift[j] = k
    <3> SUFFICES ASSUME NEW k \in rest
                 PROVE  \E j \in Of(Tail(q), f) : shift[j] = k
      OBVIOUS
    <3>1. k - 1 \in Of(Tail(q), f) /\ shift[k - 1] = k
      BY <1>5
    <3>. QED  BY <3>1
  <2>. HIDE DEF shift
  <2>. QED  BY <2>1, <2>2, <2>3 DEF Bijection, Injection, Surjection, IsInjective
<1>7. Cardinality(rest) = Cardinality(Of(Tail(q), f))
  BY <1>3, <1>6, FS_Bijection DEF ExistsBijection
<1>8. Cardinality(rest) = IF 1 \in Of(q, f) THEN Cardinality(Of(q, f)) - 1
                                            ELSE Cardinality(Of(q, f))
  BY <1>3, FS_RemoveElement DEF rest
<1>. QED  BY <1>2, <1>7, <1>8

LEMMA PacketIdsFinite ==
  IsFiniteSet(PacketIds) /\ Cardinality(PacketIds) = PacketCount
<1>1. /\ IsFiniteSet(0 .. PacketCount - 1)
      /\ Cardinality(0 .. PacketCount - 1) =
            IF 0 > PacketCount - 1 THEN 0 ELSE PacketCount - 1 - 0 + 1
  BY ReassemblyAssumption, FS_Interval DEF ReassemblyAssumption
<1>. QED  BY <1>1, ReassemblyAssumption DEF ReassemblyAssumption, PacketIds

LEMMA OwedFinite ==
  ASSUME session \in Nat, NEW f
  PROVE  IsFiniteSet(Owed(f)) /\ Cardinality(Owed(f)) \in Nat
<1>1. IsFiniteSet(0 .. session)
  BY FS_Interval
<1>2. IsFiniteSet((0 .. session) \X PacketIds)
  BY <1>1, PacketIdsFinite, FS_Product
<1>3. Owed(f) \in SUBSET ((0 .. session) \X PacketIds)
  BY DEF Owed, Coming, Missing
<1>4. IsFiniteSet(Owed(f))
  BY <1>2, <1>3, FS_Subset
<1>. QED  BY <1>4, FS_CardinalityType

LEMMA CounterType ==
  ASSUME WellFormed, NEW f
  PROVE  Counter(f) \in Nat
<1>1. \A buffer \in FrameBuffer : buffer.recv_counts \in Nat
  BY ReassemblyAssumption DEF ReassemblyAssumption, FrameBuffer
<1>. QED  BY <1>1 DEF WellFormed, Counter

\* Fewer are owed when a packet that was owed is not owed any more.
LEMMA OwedShrinks ==
  ASSUME session \in Nat, NEW f, NEW T \in SUBSET Owed(f)
  PROVE  /\ Cardinality(T) \in Nat
         /\ Cardinality(T) <= Cardinality(Owed(f))
         /\ \A c \in Owed(f) : c \notin T => Cardinality(T) + 1 <= Cardinality(Owed(f))
<1>1. IsFiniteSet(Owed(f)) /\ Cardinality(Owed(f)) \in Nat
  BY OwedFinite
<1>2. IsFiniteSet(T) /\ Cardinality(T) <= Cardinality(Owed(f))
  BY <1>1, FS_Subset
<1>3. Cardinality(T) \in Nat
  BY <1>2, FS_CardinalityType
<1>4. ASSUME NEW c \in Owed(f), c \notin T
      PROVE  Cardinality(T) + 1 <= Cardinality(Owed(f))
  <2>1. T \in SUBSET (Owed(f) \ {c})
    BY <1>4
  <2>2. IsFiniteSet(Owed(f) \ {c})
        /\ Cardinality(Owed(f) \ {c}) = Cardinality(Owed(f)) - 1
    BY <1>1, <1>4, FS_RemoveElement
  <2>3. Cardinality(T) <= Cardinality(Owed(f) \ {c})
    BY <2>1, <2>2, FS_Subset
  <2>. QED  BY <1>1, <1>3, <2>2, <2>3
<1>. QED  BY <1>2, <1>3, <1>4

\* What the steps of the PC write.
LEMMA WrittenStep ==
  ASSUME WellFormed, NEW f \in Nat, NEW i \in PacketIds
  PROVE  /\ Packetize => (HasBeenWritten(f, i)' <=> HasBeenWritten(f, i))
         /\ WritePacket => (HasBeenWritten(f, i)' <=>
                \/ HasBeenWritten(f, i)
                \/ f = frameId - 1 /\ i = nextPacket)
         /\ Restart => ~HasBeenWritten(f, i)'
<1>. USE ReassemblyAssumption DEF ReassemblyAssumption, HasBeenWritten, WellFormed, PacketIds
<1>1. Packetize => (HasBeenWritten(f, i)' <=> HasBeenWritten(f, i))
  BY DEF Packetize
<1>2. WritePacket => (HasBeenWritten(f, i)' <=>
          \/ HasBeenWritten(f, i)
          \/ f = frameId - 1 /\ i = nextPacket)
  <2>1. frameId \in Nat /\ nextPacket \in Nat /\ i \in Nat
    OBVIOUS
  <2>2. WritePacket => frameId' = frameId /\ nextPacket' = nextPacket + 1
    BY DEF WritePacket
  <2>. QED  BY ONLY f \in Nat, <2>1, <2>2 DEF HasBeenWritten
<1>3. Restart => ~HasBeenWritten(f, i)'
  BY DEF Restart
<1>. QED  BY <1>1, <1>2, <1>3

LEMMA KnownSourceStep ==
  ASSUME WellFormed, KnownSource, [Next]_vars
  PROVE  KnownSource'
<1>1. network \subseteq Packet /\ session \in Nat
  BY DEF WellFormed
<1>2. ASSUME network' \subseteq network, session' = session,
             UNCHANGED <<frameId, nextPacket>>
      PROVE  KnownSource'
  BY <1>2 DEF KnownSource, HasBeenWritten
<1>3. CASE Packetize
  <2>1. network' = network /\ session' = session
    BY <1>3 DEF Packetize
  <2>2. \A packet \in network :
            HasBeenWritten(packet.frame_id, packet.packet_id)
                => HasBeenWritten(packet.frame_id, packet.packet_id)'
    BY <1>1, <1>3, WrittenStep DEF Packet
  <2>. QED  BY <2>1, <2>2 DEF KnownSource
<1>4. CASE WritePacket
  <2>1. PICK g \in Nat, j \in PacketIds : g = frameId - 1 /\ j = nextPacket
    BY <1>4, ReassemblyAssumption
    DEF ReassemblyAssumption, WritePacket, WellFormed, PacketIds
  <2>2. PICK new : new = PacketOf(session, g, j)
    OBVIOUS
  <2>3. network' = network \cup {new} /\ session' = session
    BY <1>4, <2>1, <2>2 DEF WritePacket
  <2>4. /\ new = PacketOf(session, new.frame_id, new.packet_id)
        /\ new.frame_id = g
        /\ new.packet_id = j
    BY <2>2 DEF PacketOf
  <2>5. HasBeenWritten(g, j)'
    BY <1>4, <2>1, WrittenStep
  <2>6. \A packet \in network :
            HasBeenWritten(packet.frame_id, packet.packet_id)
                => HasBeenWritten(packet.frame_id, packet.packet_id)'
    BY <1>1, <1>4, WrittenStep DEF Packet
  <2>7. ASSUME NEW packet \in network'
        PROVE  \E s \in 0 .. session' :
                  /\ packet = PacketOf(s, packet.frame_id, packet.packet_id)
                  /\ s = session' => HasBeenWritten(packet.frame_id, packet.packet_id)'
    <3>1. CASE packet \in network
      BY <2>3, <2>6, <3>1 DEF KnownSource
    <3>2. CASE packet = new
      <4>1. session \in 0 .. session'
        BY <1>1, <2>3
      <4>. QED  BY <2>3, <2>4, <2>5, <3>2, <4>1
    <3>. QED  BY <2>3, <3>1, <3>2
  <2>. QED  BY <2>7 DEF KnownSource
<1>5. CASE Restart
  <2>1. network' = network /\ session' = session + 1
    BY <1>5 DEF Restart
  <2>2. \A s \in 0 .. session : s \in 0 .. session' /\ s # session'
    BY <1>1, <2>1
  <2>. QED  BY <2>1, <2>2 DEF KnownSource
<1>6. ASSUME NEW packet \in network, Lose(packet) \/ Receive(packet) \/ ReceiveCopy(packet)
      PROVE  KnownSource'
  BY <1>2, <1>6 DEF Lose, Receive, ReceiveCopy, pcVars
<1>7. CASE ReceiveFails \/ HandlePacket \/ UNCHANGED vars
  BY <1>2, <1>7 DEF ReceiveFails, HandlePacket, pcVars, netVars, vars
<1>. QED  BY <1>3, <1>4, <1>5, <1>6, <1>7 DEF Next

\* The parts of a frame id's account are numbers.
LEMMA ChargeType ==
  ASSUME WellFormed, Origin, NEW f
  PROVE  /\ PushesOf(f) = Of(frame_queue, f)
         /\ IsFiniteSet(PushesOf(f))
         /\ Cardinality(PushesOf(f)) \in Nat
         /\ PacketCount * Cardinality(PushesOf(f)) \in Nat
         /\ PacketCount * (session + 1) \in Nat
         /\ Counter(f) \in Nat
         /\ Cardinality(Of(packet_queue, f)) \in Nat
         /\ Cardinality(Owed(f)) \in Nat
<1>1. PushesOf(f) = Of(frame_queue, f)
  BY DEF PushesOf, Of
<1>2. IsFiniteSet(PushesOf(f)) /\ Cardinality(PushesOf(f)) \in Nat
  BY <1>1, OfFinite DEF Origin
<1>3. /\ PacketCount * Cardinality(PushesOf(f)) \in Nat
      /\ PacketCount * (session + 1) \in Nat
  <2>1. \A n \in Nat : PacketCount * n \in Nat
    BY ReassemblyAssumption DEF ReassemblyAssumption
  <2>2. session + 1 \in Nat
    BY DEF WellFormed
  <2>. QED  BY <1>2, <2>1, <2>2
<1>4. Cardinality(Of(packet_queue, f)) \in Nat
  BY OfFinite DEF WellFormed
<1>5. Cardinality(Owed(f)) \in Nat
  BY OwedFinite DEF WellFormed
<1>. QED  BY <1>1, <1>2, <1>3, <1>4, <1>5, CounterType

\* Nothing is stored, pushed or queued, and no more is owed.
LEMMA NothingMoves ==
  ASSUME WellFormed, Origin, dups \in Nat, NEW f, Account(f),
         UNCHANGED <<session, dups, frames, frame_queue, packet_queue>>,
         Owed(f)' \subseteq Owed(f)
  PROVE  Account(f)'
<1>1. PICK T : T = Owed(f)'
  OBVIOUS
<1>2. T \in SUBSET Owed(f) /\ session \in Nat
  BY <1>1 DEF WellFormed
<1>3. Cardinality(T) \in Nat /\ Cardinality(T) <= Cardinality(Owed(f))
  BY <1>2, OwedShrinks
<1>4. PushesOf(f)' = PushesOf(f) /\ Counter(f)' = Counter(f)
      /\ session' = session /\ dups' = dups /\ packet_queue' = packet_queue
  BY DEF PushesOf, Counter
<1>5. Charge(f)' = PacketCount * Cardinality(PushesOf(f))
                       + Counter(f) + Cardinality(Of(packet_queue, f)) + Cardinality(T)
  BY <1>1, <1>4 DEF Charge
<1>6. Budget' = Budget
  BY <1>4 DEF Budget
<1>7. Charge(f)' <= Charge(f)
  BY <1>3, <1>5, ChargeType DEF Charge
<1>8. Charge(f)' \in Int /\ Charge(f) \in Int /\ Budget \in Int
  BY <1>3, <1>5, ChargeType DEF Charge, Budget
<1>. QED  BY <1>6, <1>7, <1>8 DEF Account

LEMMA PcAccount ==
  ASSUME WellFormed, Origin, dups \in Nat, NEW f \in Nat, Account(f),
         Packetize \/ WritePacket
  PROVE  Account(f)'
<1>1. UNCHANGED <<session, dups, frames, frame_queue, packet_queue>>
  BY DEF Packetize, WritePacket
<1>2. Missing(f)' = Missing(f)
  BY <1>1 DEF Missing, Stored, PushesOf
<1>3. Coming(f)' \subseteq Coming(f)
  <2>1. CASE Packetize
    <3>1. network' = network
      BY <2>1 DEF Packetize
    <3>2. \A i \in PacketIds : HasBeenWritten(f, i)' <=> HasBeenWritten(f, i)
      BY <2>1, WrittenStep
    <3>. QED  BY <1>1, <3>1, <3>2 DEF Coming
  <2>2. CASE WritePacket
    <3>1. PICK g \in Nat, j \in PacketIds : g = frameId - 1 /\ j = nextPacket
      BY <2>2, ReassemblyAssumption
      DEF ReassemblyAssumption, WritePacket, WellFormed, PacketIds
    <3>2. network' = network \cup {PacketOf(session, g, j)}
      BY <2>2, <3>1 DEF WritePacket
    <3>3. ~HasBeenWritten(g, j)
      BY <3>1 DEF HasBeenWritten, WellFormed
    <3>4. \A i \in PacketIds : HasBeenWritten(f, i) => HasBeenWritten(f, i)'
      BY <2>2, WrittenStep
    <3>5. ASSUME NEW c \in Coming(f)' PROVE c \in Coming(f)
      <4>1. PICK s, i : c = <<s, i>> /\ s \in 0 .. session /\ i \in PacketIds
        BY <1>1 DEF Coming
      <4>2. CASE PacketOf(s, f, i) \in network
        BY <4>1, <4>2 DEF Coming
      <4>3. CASE PacketOf(s, f, i) = PacketOf(session, g, j)
        <5>1. s = session /\ f = g /\ i = j
          BY <4>3 DEF PacketOf
        <5>. QED  BY <3>3, <4>1, <5>1 DEF Coming
      <4>4. CASE s = session /\ ~HasBeenWritten(f, i)'
        BY <3>4, <4>1, <4>4 DEF Coming
      <4>. QED  BY <1>1, <3>2, <4>1, <4>2, <4>3, <4>4 DEF Coming
    <3>. QED  BY <3>5
  <2>. QED  BY <2>1, <2>2
<1>4. Owed(f)' \subseteq Owed(f)
  BY <1>2, <1>3 DEF Owed
<1>. QED  BY <1>1, <1>4, NothingMoves

LEMMA LoseAccount ==
  ASSUME WellFormed, Origin, dups \in Nat, NEW f \in Nat, Account(f),
         \/ \E packet \in network : Lose(packet)
         \/ ReceiveFails
         \/ UNCHANGED vars
  PROVE  Account(f)'
<1>1. /\ UNCHANGED <<session, dups, frames, frame_queue, packet_queue, frameId, nextPacket>>
      /\ network' \subseteq network
  BY DEF Lose, ReceiveFails, pcVars, netVars, vars
<1>2. Missing(f)' = Missing(f)
  BY <1>1 DEF Missing, Stored, PushesOf
<1>3. Coming(f)' \subseteq Coming(f)
  BY <1>1 DEF Coming, HasBeenWritten
<1>4. Owed(f)' \subseteq Owed(f)
  BY <1>2, <1>3 DEF Owed
<1>. QED  BY <1>1, <1>4, NothingMoves

\* A new session can send every packet of the frame id once more.
LEMMA RestartAccount ==
  ASSUME WellFormed, Origin, dups \in Nat, NEW f \in Nat, Account(f), Restart
  PROVE  Account(f)'
<1>1. /\ session' = session + 1
      /\ UNCHANGED <<network, dups, frames, frame_queue, packet_queue>>
      /\ session \in Nat
  BY DEF Restart, WellFormed
<1> DEFINE fresh == {session + 1} \X PacketIds
<1>2. Owed(f)' \subseteq Owed(f) \cup fresh
  <2>1. Missing(f)' = {}
    BY <1>1 DEF Missing
  <2>2. ASSUME NEW c \in Coming(f)' PROVE c \in Coming(f) \cup fresh
    <3>1. PICK s, i : c = <<s, i>> /\ s \in 0 .. session + 1 /\ i \in PacketIds
      BY <1>1 DEF Coming
    <3>2. CASE s = session + 1
      BY <3>1, <3>2
    <3>3. CASE s \in 0 .. session
      <4>1. s # session'
        BY <1>1, <3>3
      <4>2. PacketOf(s, f, i) \in network
        BY <1>1, <3>1, <4>1 DEF Coming
      <4>. QED  BY <3>1, <3>3, <4>2 DEF Coming
    <3>4. s = session + 1 \/ s \in 0 .. session
      BY <1>1, <3>1
    <3>. QED  BY <3>2, <3>3, <3>4
  <2>. QED  BY <2>1, <2>2 DEF Owed
<1>3. IsFiniteSet(fresh) /\ Cardinality(fresh) = PacketCount
  <2>1. IsFiniteSet({session + 1}) /\ Cardinality({session + 1}) = 1
    BY FS_Singleton
  <2>2. IsFiniteSet(fresh) /\ Cardinality(fresh) = 1 * Cardinality(PacketIds)
    BY <2>1, PacketIdsFinite, FS_Product
  <2>. QED  BY <2>2, PacketIdsFinite, ReassemblyAssumption DEF ReassemblyAssumption
<1>4. IsFiniteSet(Owed(f)) /\ Cardinality(Owed(f)) \in Nat
  BY <1>1, OwedFinite
<1>. HIDE DEF fresh
<1>5. PICK T : T = Owed(f)'
  OBVIOUS
<1>6. Cardinality(T) \in Nat /\ Cardinality(T) <= Cardinality(Owed(f)) + PacketCount
  <2>1. /\ IsFiniteSet(Owed(f) \cup fresh)
        /\ Cardinality(Owed(f) \cup fresh) =
               Cardinality(Owed(f)) + Cardinality(fresh) - Cardinality(Owed(f) \cap fresh)
    BY <1>3, <1>4, FS_Union
  <2>2. Cardinality(Owed(f) \cap fresh) \in Nat
    <3>1. Owed(f) \cap fresh \in SUBSET Owed(f)
      OBVIOUS
    <3>. QED  BY <1>4, <3>1, FS_Subset, FS_CardinalityType
  <2>3. T \in SUBSET (Owed(f) \cup fresh)
    BY <1>2, <1>5
  <2>4. IsFiniteSet(T) /\ Cardinality(T) <= Cardinality(Owed(f) \cup fresh)
    BY <2>1, <2>3, FS_Subset
  <2>5. Cardinality(T) \in Nat
    BY <2>4, FS_CardinalityType
  <2>. QED
    BY <1>3, <1>4, <2>1, <2>2, <2>4, <2>5, ReassemblyAssumption DEF ReassemblyAssumption
<1>7. PushesOf(f)' = PushesOf(f) /\ Counter(f)' = Counter(f)
  BY <1>1 DEF PushesOf, Counter
<1>8. Charge(f)' = PacketCount * Cardinality(PushesOf(f))
                       + Counter(f) + Cardinality(Of(packet_queue, f)) + Cardinality(T)
  BY <1>1, <1>5, <1>7 DEF Charge
<1>9. Budget' = Budget + PacketCount
  <2>1. PacketCount * (session + 1 + 1) = PacketCount * (session + 1) + PacketCount
    BY <1>1, ReassemblyAssumption DEF ReassemblyAssumption
  <2>2. Budget' = PacketCount * (session + 1 + 1) + dups
    BY <1>1 DEF Budget
  <2>3. PacketCount * (session + 1) \in Nat
    BY ChargeType
  <2>. QED  BY <2>1, <2>2, <2>3, ReassemblyAssumption DEF ReassemblyAssumption, Budget
<1>10. Charge(f)' <= Charge(f) + PacketCount
  BY <1>6, <1>8, ChargeType, ReassemblyAssumption DEF ReassemblyAssumption, Charge
<1>11. Charge(f)' \in Int /\ Charge(f) \in Int /\ Budget \in Int
  BY <1>6, <1>8, ChargeType DEF Charge, Budget
<1>. QED
  BY <1>9, <1>10, <1>11, ReassemblyAssumption DEF ReassemblyAssumption, Account

\* A packet that is received moves from the owed to the queued; the second copy
\* of a datagram is queued at the cost of a duplicate.
LEMMA ReceiveAccount ==
  ASSUME WellFormed, Origin, KnownSource, dups \in Nat, NEW f \in Nat, Account(f),
         NEW packet \in network, Receive(packet) \/ ReceiveCopy(packet)
  PROVE  Account(f)'
<1>1. /\ packet_queue' = Append(packet_queue, packet)
      /\ network' \subseteq network
      /\ UNCHANGED <<session, frameId, nextPacket, frames, frame_queue>>
      /\ packet_queue \in Seq(Packet) /\ packet \in Packet /\ session \in Nat
  BY DEF Receive, ReceiveCopy, pcVars, WellFormed
<1>2. /\ PushesOf(f)' = PushesOf(f) /\ Counter(f)' = Counter(f)
      /\ Of(packet_queue, f)' = Of(packet_queue', f)
  BY <1>1 DEF PushesOf, Counter, Of
<1>3. PICK s \in 0 .. session, g \in Nat, i \in PacketIds :
          /\ packet = PacketOf(s, g, i)
          /\ packet.frame_id = g
          /\ packet.packet_id = i
          /\ s = session => HasBeenWritten(g, i)
  BY <1>1 DEF KnownSource, Packet
<1>4. /\ Len(packet_queue) \in Nat
      /\ Len(packet_queue') = Len(packet_queue) + 1
      /\ \A k \in 1 .. Len(packet_queue) : packet_queue'[k] = packet_queue[k]
      /\ packet_queue'[Len(packet_queue) + 1] = packet
  BY <1>1
<1>5. Coming(f)' \subseteq Coming(f)
  BY <1>1 DEF Coming, HasBeenWritten
<1>6. Missing(f)' \subseteq Missing(f)
  <2>1. Of(packet_queue, f) \subseteq Of(packet_queue', f)
        /\ \A k \in Of(packet_queue, f) : packet_queue'[k] = packet_queue[k]
    BY <1>4 DEF Of
  <2>. QED  BY <1>1, <1>2, <2>1 DEF Missing, Stored
<1>7. PICK T : T = Owed(f)'
  OBVIOUS
<1>8. T \in SUBSET Owed(f)
  BY <1>5, <1>6, <1>7 DEF Owed
<1>9. Cardinality(T) \in Nat /\ Cardinality(T) <= Cardinality(Owed(f))
  BY <1>1, <1>8, OwedShrinks
<1>10. PICK Q : Q = Cardinality(Of(packet_queue, f))'
  OBVIOUS
<1>11. /\ f # g => Q = Cardinality(Of(packet_queue, f))
       /\ f = g => Q = Cardinality(Of(packet_queue, f)) + 1
  BY <1>1, <1>2, <1>3, <1>10, OfAppend
<1>12. Charge(f)' = PacketCount * Cardinality(PushesOf(f))
                        + Counter(f) + Q + Cardinality(T)
  BY <1>2, <1>7, <1>10 DEF Charge
<1>13. Charge(f) \in Int /\ Budget \in Int /\ Q \in Int
  BY <1>11, ChargeType DEF Charge, Budget
<1>14. PICK b \in Nat : b = PacketCount * (session + 1)
  BY ChargeType
<1>15. Budget = b + dups /\ Budget' = b + dups'
  BY <1>1, <1>14 DEF Budget
<1>16. CASE f # g
  <2>1. Charge(f)' <= Charge(f)
    BY <1>9, <1>11, <1>12, <1>16, ChargeType DEF Charge
  <2>2. Budget' = Budget \/ Budget' = Budget + 1
    BY <1>14, <1>15 DEF Receive, ReceiveCopy
  <2>. QED  BY <1>9, <1>12, <1>13, <2>1, <2>2, ChargeType DEF Account
<1>17. CASE f = g /\ Receive(packet)
  <2>1. <<s, i>> \in Owed(f)
    BY <1>3, <1>17 DEF Owed, Coming
  <2>2. <<s, i>> \notin T
    <3>1. <<s, i>> \notin Coming(f)'
      <4>1. PacketOf(s, f, i) \notin network'
        BY <1>3, <1>17 DEF Receive
      <4>2. s = session' => HasBeenWritten(f, i)'
        BY <1>1, <1>3, <1>17 DEF HasBeenWritten
      <4>. QED  BY <4>1, <4>2 DEF Coming
    <3>2. <<s, i>> \notin Missing(f)'
      <4>1. Len(packet_queue) + 1 \in Of(packet_queue', f)
        BY <1>3, <1>4, <1>17 DEF Of
      <4>. QED  BY <1>2, <1>3, <1>4, <4>1 DEF Missing
    <3>. QED  BY <1>7, <3>1, <3>2 DEF Owed
  <2>3. Cardinality(T) + 1 <= Cardinality(Owed(f))
    BY <1>1, <1>8, <2>1, <2>2, OwedShrinks
  <2>4. Charge(f)' <= Charge(f)
    BY <1>9, <1>11, <1>12, <1>17, <2>3, ChargeType DEF Charge
  <2>5. Budget' = Budget
    BY <1>1, <1>17 DEF Receive, Budget
  <2>. QED  BY <1>9, <1>12, <1>13, <2>4, <2>5, ChargeType DEF Account
<1>18. CASE f = g /\ ReceiveCopy(packet)
  <2>1. Charge(f)' <= Charge(f) + 1
    BY <1>9, <1>11, <1>12, <1>18, ChargeType DEF Charge
  <2>2. Budget' = Budget + 1
    BY <1>18, <1>14, <1>15 DEF ReceiveCopy
  <2>. QED  BY <1>9, <1>12, <1>13, <2>1, <2>2, ChargeType DEF Account
<1>. QED  BY <1>16, <1>17, <1>18

\* What HandlePacket does with the packet p, whose frame id is g.
Handles(p, g, buffer) ==
    /\ packet_queue # <<>>
    /\ p = Head(packet_queue)
    /\ g = p.frame_id
    /\ buffer = Store(BufferFor(p), p)
    /\ packet_queue' = Tail(packet_queue)
    /\ UNCHANGED <<session, frameId, nextPacket, network, dups>>
    /\ FrameComplete(buffer) =>
          /\ frame_queue' = Append(frame_queue,
                 [frame_id |-> g, iq_data |-> ConvertToComplex(buffer.payloads)])
          /\ frames' = WithoutBuffer(g)
    /\ ~FrameComplete(buffer) =>
          frames' = WithBuffer(g, buffer) /\ frame_queue' = frame_queue

LEMMA HandledPacket ==
  ASSUME WellFormed, BuffersStayOpen, HandlePacket
  PROVE  \E p \in Packet, g \in Nat, buffer \in FrameBuffer :
            /\ Handles(p, g, buffer)
            /\ p = packet_queue[1]
            /\ buffer.recv_counts = Counter(g) + 1
            /\ \A i \in PacketIds :
                  buffer.payloads[i] # Empty <=> Stored(g, i) \/ i = p.packet_id
<1>1. PICK p : p = Head(packet_queue)
  OBVIOUS
<1>2. PICK g : g = p.frame_id
  OBVIOUS
<1>3. PICK buffer : buffer = Store(BufferFor(p), p)
  OBVIOUS
<1>4. Handles(p, g, buffer)
  BY <1>1, <1>2, <1>3 DEF HandlePacket, Handles, PushFrame, pcVars, netVars
<1>5. p \in Packet /\ p = packet_queue[1]
  BY <1>1 DEF HandlePacket, WellFormed
<1>6. g \in Nat /\ p.packet_id \in PacketIds /\ p.payload # Empty
  BY <1>2, <1>5, PayloadNotEmpty DEF Packet
<1>7. BufferFor(p) \in FrameBuffer /\ BufferFor(p).recv_counts < PacketCount
  BY <1>5, BufferForOpen
<1>8. /\ buffer \in FrameBuffer
      /\ buffer.recv_counts = BufferFor(p).recv_counts + 1
      /\ buffer.payloads = [BufferFor(p).payloads EXCEPT ![p.packet_id] = p.payload]
  BY <1>3, <1>5, <1>7, StoreProperties
<1>9. BufferFor(p).recv_counts = Counter(g)
  BY <1>2, NewBufferProperties DEF BufferFor, Counter
<1>10. \A i \in PacketIds : BufferFor(p).payloads[i] # Empty <=> Stored(g, i)
  BY <1>2, NewBufferProperties DEF BufferFor, Stored
<1>11. \A i \in PacketIds :
           buffer.payloads[i] # Empty <=> Stored(g, i) \/ i = p.packet_id
  <2>1. BufferFor(p).payloads \in [PacketIds -> Payload \cup {Empty}]
    BY <1>7 DEF FrameBuffer
  <2>. QED  BY <1>6, <1>8, <1>10, <2>1
<1>. QED  BY <1>4, <1>5, <1>6, <1>8, <1>9, <1>11

LEMMA PushedFrame ==
  ASSUME NEW p, NEW g \in Nat, NEW buffer \in FrameBuffer,
         Handles(p, g, buffer), FrameComplete(buffer)
  PROVE  \E x \in RadarFrame :
            /\ x.frame_id = g
            /\ x.iq_data = ConvertToComplex(buffer.payloads)
            /\ frame_queue' = Append(frame_queue, x)
            /\ frames' = WithoutBuffer(g)
<1>1. PICK iq_data \in Seq(Payload) : iq_data = ConvertToComplex(buffer.payloads)
  BY ConvertedType
<1>2. PICK x : x = [frame_id |-> g, iq_data |-> iq_data]
  OBVIOUS
<1>3. x \in RadarFrame
  BY <1>2 DEF RadarFrame
<1>4. frame_queue' = Append(frame_queue, x) /\ frames' = WithoutBuffer(g)
  BY <1>1, <1>2 DEF Handles
<1>. QED  BY <1>1, <1>2, <1>3, <1>4

\* A packet that is handled moves from the queued to the counted; a push moves
\* what is counted to the pushed.
LEMMA HandleAccount ==
  ASSUME WellFormed, BuffersStayOpen, Origin, dups \in Nat,
         NEW f \in Nat, Account(f), HandlePacket
  PROVE  Account(f)'
<1>1. PICK p \in Packet, g \in Nat, buffer \in FrameBuffer :
          /\ Handles(p, g, buffer)
          /\ p = packet_queue[1]
          /\ buffer.recv_counts = Counter(g) + 1
          /\ \A i \in PacketIds :
                buffer.payloads[i] # Empty <=> Stored(g, i) \/ i = p.packet_id
  BY HandledPacket
<1>2. /\ packet_queue # <<>>
      /\ packet_queue' = Tail(packet_queue)
      /\ p = Head(packet_queue) /\ g = p.frame_id
      /\ UNCHANGED <<session, frameId, nextPacket, network, dups>>
      /\ packet_queue \in Seq(Packet)
      /\ session \in Nat
  BY <1>1 DEF Handles, WellFormed
<1>3. PICK Q : Q = Cardinality(Of(packet_queue, f))'
  OBVIOUS
<1>4. Q = IF g = f THEN Cardinality(Of(packet_queue, f)) - 1
                   ELSE Cardinality(Of(packet_queue, f))
  <2>1. Of(packet_queue, f)' = Of(packet_queue', f)
    BY DEF Of
  <2>. QED  BY <1>2, <1>3, <2>1, OfTail
<1>5. Missing(f)' \subseteq Missing(f)
  <2>1. /\ Len(packet_queue) \in Nat /\ Len(packet_queue) > 0
        /\ Len(packet_queue') = Len(packet_queue) - 1
        /\ \A k \in 1 .. Len(packet_queue') : packet_queue'[k] = packet_queue[k + 1]
    BY <1>2
  <2>2. ASSUME NEW k \in Of(packet_queue, f), k # 1
        PROVE  k - 1 \in Of(packet_queue', f) /\ packet_queue'[k - 1] = packet_queue[k]
    BY <2>1, <2>2 DEF Of
  <2>3. \A i \in PacketIds : ~Stored(f, i)' /\ PushesOf(f)' = {} =>
            /\ ~Stored(f, i)
            /\ PushesOf(f) = {}
            /\ f = g => i # p.packet_id
    <3>1. CASE FrameComplete(buffer)
      <4>1. PICK x \in RadarFrame :
               /\ x.frame_id = g
               /\ frame_queue' = Append(frame_queue, x)
               /\ frames' = WithoutBuffer(g)
        BY <1>1, <3>1, PushedFrame
      <4>3. /\ g = f => Of(frame_queue', f) # {}
            /\ g # f => Of(frame_queue', f) = Of(frame_queue, f)
        BY <4>1, OfAppend DEF Origin
      <4>4. PushesOf(f)' = Of(frame_queue', f) /\ PushesOf(f) = Of(frame_queue, f)
        BY DEF PushesOf, Of
      <4>5. g # f => \A i : Stored(f, i)' <=> Stored(f, i)
        BY <4>1 DEF WithoutBuffer, Stored
      <4>. QED  BY <4>3, <4>4, <4>5
    <3>2. CASE ~FrameComplete(buffer)
      <4>1. frames' = WithBuffer(g, buffer) /\ frame_queue' = frame_queue
        BY <1>1, <3>2 DEF Handles
      <4>2. PushesOf(f)' = PushesOf(f)
        BY <4>1 DEF PushesOf
      <4>3. f # g => \A i : Stored(f, i)' <=> Stored(f, i)
        BY <4>1 DEF WithBuffer, Stored
      <4>4. f = g => \A i : Stored(f, i)' <=> buffer.payloads[i] # Empty
        BY <4>1 DEF WithBuffer, Stored
      <4>. QED  BY <1>1, <4>2, <4>3, <4>4
    <3>. QED  BY <3>1, <3>2
  <2>4. ASSUME NEW c \in Missing(f)' PROVE c \in Missing(f)
    <3>1. PICK i \in PacketIds : c = <<0, i>>
      BY DEF Missing
    <3>2. ~Stored(f, i)' /\ PushesOf(f)' = {} /\ session = 0
      BY <1>2, <3>1 DEF Missing
    <3>3. \A k \in Of(packet_queue', f) : packet_queue'[k].packet_id # i
      BY <3>1 DEF Missing, Of
    <3>4. \A k \in Of(packet_queue, f) : packet_queue[k].packet_id # i
      <4>1. ASSUME NEW k \in Of(packet_queue, f) PROVE packet_queue[k].packet_id # i
        <5>1. CASE k = 1
          <6>1. f = g
            BY <1>1, <1>2, <5>1 DEF Of
          <6>. QED  BY <1>1, <2>3, <3>2, <5>1, <6>1
        <5>2. CASE k # 1
          BY <2>2, <3>3, <5>2
        <5>. QED  BY <5>1, <5>2
      <4>. QED  BY <4>1
    <3>. QED  BY <2>3, <3>1, <3>2, <3>4 DEF Missing
  <2>. QED  BY <2>4
<1>6. Coming(f)' = Coming(f)
  BY <1>2 DEF Coming, HasBeenWritten
<1>7. PICK T : T = Owed(f)'
  OBVIOUS
<1>8. T \in SUBSET Owed(f)
  BY <1>5, <1>6, <1>7 DEF Owed
<1>9. Cardinality(T) \in Nat /\ Cardinality(T) <= Cardinality(Owed(f))
  BY <1>2, <1>8, OwedShrinks
<1>10. Budget' = Budget
  BY <1>2 DEF Budget
<1>11. Charge(f) \in Int /\ Budget \in Int
  BY ChargeType DEF Charge, Budget
<1>12. Charge(f)' = (PacketCount * Cardinality(PushesOf(f)))' + Counter(f)' + Q + Cardinality(T)
  BY <1>3, <1>7 DEF Charge
<1>13. /\ (PacketCount * Cardinality(PushesOf(f)))' \in Int
       /\ Counter(f)' \in Int
       /\ (PacketCount * Cardinality(PushesOf(f)))' + Counter(f)' =
              PacketCount * Cardinality(PushesOf(f)) + Counter(f)
                  + (IF g = f THEN 1 ELSE 0)
  <2>1. CASE FrameComplete(buffer)
    <3>1. PICK x \in RadarFrame :
             /\ x.frame_id = g
             /\ frame_queue' = Append(frame_queue, x)
             /\ frames' = WithoutBuffer(g)
      BY <1>1, <2>1, PushedFrame
    <3>3. PICK n : n = Cardinality(Of(frame_queue', f))
      OBVIOUS
    <3>4. PICK m \in Nat : m = Cardinality(PushesOf(f))
      BY ChargeType
    <3>5. n = IF g = f THEN m + 1 ELSE m
      <4>1. PushesOf(f) = Of(frame_queue, f) /\ frame_queue \in Seq(RadarFrame)
        BY ChargeType DEF Origin
      <4>2. Of(frame_queue, f) = Of(frame_queue', f) \/ g = f
        BY <3>1, <4>1, OfAppend
      <4>3. g = f => n = m + 1
        BY <3>1, <3>3, <3>4, <4>1, OfAppend
      <4>. QED  BY <3>3, <3>4, <4>1, <4>2, <4>3, <3>1, OfAppend
    <3>6. PushesOf(f)' = Of(frame_queue', f)
      BY DEF PushesOf, Of
    <3>7. /\ g = f => Counter(f)' = 0
          /\ g # f => Counter(f)' = Counter(f)
      BY <3>1 DEF WithoutBuffer, Counter
    <3>8. g = f => Counter(f) + 1 = PacketCount
      BY <1>1, <2>1 DEF FrameComplete
    <3>9. PacketCount * (m + 1) = PacketCount * m + PacketCount /\ PacketCount * m \in Nat
      BY ReassemblyAssumption DEF ReassemblyAssumption
    <3>10. (PacketCount * Cardinality(PushesOf(f)))' = PacketCount * n
      BY <3>3, <3>6
    <3>11. CASE g = f
      <4>1. PacketCount * n = PacketCount * m + PacketCount
        BY <3>5, <3>9, <3>11
      <4>. QED
        BY <3>4, <3>7, <3>8, <3>9, <3>10, <3>11, <4>1, ChargeType, ReassemblyAssumption
        DEF ReassemblyAssumption
    <3>12. CASE g # f
      BY <3>4, <3>5, <3>7, <3>9, <3>10, <3>12, ChargeType
    <3>. QED  BY <3>11, <3>12
  <2>2. CASE ~FrameComplete(buffer)
    <3>1. frames' = WithBuffer(g, buffer) /\ frame_queue' = frame_queue
      BY <1>1, <2>2 DEF Handles
    <3>2. PushesOf(f)' = PushesOf(f)
      BY <3>1 DEF PushesOf
    <3>3. /\ g = f => Counter(f)' = Counter(f) + 1
          /\ g # f => Counter(f)' = Counter(f)
      BY <1>1, <3>1 DEF WithBuffer, Counter
    <3>. QED  BY <3>2, <3>3, ChargeType
  <2>. QED  BY <2>1, <2>2
<1>14. Q \in Int
  BY <1>4, ChargeType
<1>15. Charge(f)' <= Charge(f)
  BY <1>4, <1>9, <1>12, <1>13, <1>14, ChargeType DEF Charge
<1>16. Charge(f)' \in Int
  BY <1>9, <1>12, <1>13, <1>14
<1>. QED  BY <1>10, <1>11, <1>15, <1>16 DEF Account

Accounts == \A f \in Nat : Account(f)

\* The first half of DamageIsBounded.
FewHoles ==
    session = 0 =>
        \A k \in 1 .. Len(frame_queue) :
            PacketCount - Len(frame_queue[k].iq_data) <= dups

\* In the first session, the packets that a pushed frame lacks are covered by
\* duplicates.
LEMMA HolesArePaid ==
  ASSUME WellFormed, BuffersStayOpen, Origin, dups \in Nat, Accounts, session = 0,
         NEW p \in Packet, NEW g \in Nat, NEW buffer \in FrameBuffer,
         Handles(p, g, buffer), FrameComplete(buffer),
         p = packet_queue[1],
         buffer.recv_counts = Counter(g) + 1,
         \A i \in PacketIds :
             buffer.payloads[i] # Empty <=> Stored(g, i) \/ i = p.packet_id
  PROVE  PacketCount - Cardinality(Filled(buffer.payloads)) <= dups
<1> DEFINE Q == Of(packet_queue, g)
           holes == PacketIds \ Filled(buffer.payloads)
<1>1. Charge(g) <= PacketCount + dups
  <2>1. Budget = PacketCount + dups
    BY ReassemblyAssumption DEF ReassemblyAssumption, Budget
  <2>. QED  BY <2>1 DEF Accounts, Account
<1>2. Counter(g) = PacketCount - 1
  BY ReassemblyAssumption, CounterType DEF ReassemblyAssumption, FrameComplete
<1>3. PICK O \in Nat, n \in Nat, q \in Nat :
          O = Cardinality(Owed(g)) /\ n = Cardinality(PushesOf(g)) /\ q = Cardinality(Q)
  BY ChargeType
<1>4. PacketCount * n + q + O <= dups + 1 /\ PacketCount * n \in Nat
  BY <1>1, <1>2, <1>3, ChargeType, ReassemblyAssumption DEF ReassemblyAssumption, Charge
<1>5. /\ packet_queue \in Seq(Packet)
      /\ Len(packet_queue) \in Nat /\ Len(packet_queue) > 0
      /\ g = p.frame_id
  BY DEF Handles, WellFormed
<1>6. 1 \in Q /\ IsFiniteSet(Q) /\ Q \subseteq 1 .. Len(packet_queue)
  <2>1. 1 \in Q
    BY <1>5 DEF Of
  <2>2. IsFiniteSet(Q)
    BY <1>5, OfFinite
  <2>. QED  BY <2>1, <2>2 DEF Of
<1>7. /\ IsFiniteSet(Q \ {1})
      /\ Cardinality(Q \ {1}) = q - 1
  BY <1>3, <1>6, FS_RemoveElement
<1>8. q >= 1
  <2>1. Cardinality(Q \ {1}) \in Nat
    BY <1>7, FS_CardinalityType
  <2>. QED  BY <1>3, <1>7, <2>1
<1>9. /\ IsFiniteSet(Filled(buffer.payloads))
      /\ Cardinality(Filled(buffer.payloads)) \in Nat
  BY FilledFinite, ReassemblyAssumption DEF ReassemblyAssumption
<1>10. CASE n # 0
  <2>1. PacketCount <= PacketCount * n
    BY <1>3, <1>10, ReassemblyAssumption DEF ReassemblyAssumption
  <2>. QED
    BY <1>3, <1>4, <1>8, <1>9, <2>1, ReassemblyAssumption DEF ReassemblyAssumption
<1>11. CASE n = 0
  <2>1. PushesOf(g) = {}
    BY <1>3, <1>11, ChargeType, FS_EmptySet
  <2> DEFINE paid == [k \in Q \ {1} |-> <<0, packet_queue[k].packet_id>>]
             queued == {<<0, packet_queue[k].packet_id>> : k \in Q \ {1}}
  <2>2. {0} \X holes \subseteq Owed(g) \cup queued
    <3>1. ASSUME NEW i \in holes PROVE <<0, i>> \in Owed(g) \cup queued
      <4>1. i \in PacketIds /\ ~Stored(g, i) /\ i # p.packet_id
        BY DEF Filled
      <4>2. CASE \E k \in Q : packet_queue[k].packet_id = i
        <5>1. PICK k \in Q : packet_queue[k].packet_id = i
          BY <4>2
        <5>2. k # 1
          BY <4>1, <5>1
        <5>. QED  BY <5>1, <5>2
      <4>3. CASE \A k \in Q : packet_queue[k].packet_id # i
        BY <2>1, <4>1, <4>3 DEF Owed, Missing
      <4>. QED  BY <4>2, <4>3
    <3>. HIDE DEF holes, queued
    <3>. QED  BY <3>1
  <2>3. IsFiniteSet(queued) /\ Cardinality(queued) <= q - 1
    <3>1. paid \in Surjection(Q \ {1}, queued)
      <4>1. paid \in [Q \ {1} -> queued]
        OBVIOUS
      <4>2. \A c \in queued : \E k \in Q \ {1} : paid[k] = c
        OBVIOUS
      <4>. HIDE DEF paid, queued, Q
      <4>. QED  BY <4>1, <4>2 DEF Surjection
    <3>. HIDE DEF paid, queued, Q
    <3>. QED  BY <1>7, <3>1, FS_Surjection
  <2>. HIDE DEF queued
  <2>4. IsFiniteSet(Owed(g))
    BY <1>5, OwedFinite
  <2>5. Cardinality(queued) \in Nat
    BY <2>3, FS_CardinalityType
  <2>6. Cardinality(Owed(g) \cap queued) \in Nat
    <3>1. Owed(g) \cap queued \in SUBSET Owed(g)
      OBVIOUS
    <3>. QED  BY <2>4, <3>1, FS_Subset, FS_CardinalityType
  <2>7. /\ IsFiniteSet(Owed(g) \cup queued)
        /\ Cardinality(Owed(g) \cup queued) =
               O + Cardinality(queued) - Cardinality(Owed(g) \cap queued)
    BY <1>3, <2>3, <2>4, FS_Union
  <2>8. Cardinality({0} \X holes) <= O + q - 1
    <3>1. {0} \X holes \in SUBSET (Owed(g) \cup queued)
      BY <2>2
    <3>. HIDE DEF holes
    <3>2. Cardinality({0} \X holes) <= Cardinality(Owed(g) \cup queued)
          /\ IsFiniteSet({0} \X holes)
      BY <2>7, <3>1, FS_Subset
    <3>3. Cardinality({0} \X holes) \in Nat
      BY <3>2, FS_CardinalityType
    <3>. QED  BY <1>3, <2>3, <2>5, <2>6, <2>7, <3>2, <3>3
  <2>9. IsFiniteSet(holes)
        /\ Cardinality(holes) = PacketCount - Cardinality(Filled(buffer.payloads))
    <3>1. Filled(buffer.payloads) \in SUBSET PacketIds
      BY DEF Filled
    <3>2. /\ IsFiniteSet(holes)
          /\ Cardinality(holes) =
                Cardinality(PacketIds) - Cardinality(PacketIds \cap Filled(buffer.payloads))
      BY PacketIdsFinite, FS_Difference
    <3>3. PacketIds \cap Filled(buffer.payloads) = Filled(buffer.payloads)
      BY <3>1
    <3>. QED  BY <3>2, <3>3, PacketIdsFinite
  <2>10. Cardinality({0} \X holes) = Cardinality(holes)
    <3>1. IsFiniteSet({0}) /\ Cardinality({0}) = 1
      BY FS_Singleton
    <3>2. Cardinality({0} \X holes) = 1 * Cardinality(holes)
      BY <2>9, <3>1, FS_Product
    <3>3. Cardinality(holes) \in Nat
      BY <2>9, FS_CardinalityType
    <3>. QED  BY <3>2, <3>3
  <2>11. q + O <= dups + 1
    BY <1>3, <1>4, <1>11, ReassemblyAssumption DEF ReassemblyAssumption
  <2>. QED
    BY <1>3, <1>9, <2>8, <2>9, <2>10, <2>11, ReassemblyAssumption DEF ReassemblyAssumption
<1>. QED  BY <1>10, <1>11

LEMMA FewHolesStep ==
  ASSUME WellFormed, BuffersStayOpen, Origin, dups \in Nat, Accounts, FewHoles, [Next]_vars
  PROVE  FewHoles'
<1>1. frame_queue \in Seq(RadarFrame)
  BY DEF Origin
<1>2. ASSUME frame_queue' = frame_queue, session' = 0 => session = 0,
             dups' \in Nat, dups <= dups'
      PROVE  FewHoles'
  <2>1. ASSUME NEW k \in 1 .. Len(frame_queue), session = 0
        PROVE  PacketCount - Len(frame_queue[k].iq_data) <= dups'
    <3>1. frame_queue[k] \in RadarFrame
      BY <1>1
    <3>2. Len(frame_queue[k].iq_data) \in Nat
      BY <3>1 DEF RadarFrame
    <3>. QED
      BY <1>2, <2>1, <3>2, ReassemblyAssumption DEF ReassemblyAssumption, FewHoles
  <2>. QED  BY <1>2, <2>1 DEF FewHoles
<1>3. CASE Packetize \/ WritePacket \/ ReceiveFails \/ UNCHANGED vars
  BY <1>2, <1>3 DEF Packetize, WritePacket, ReceiveFails, pcVars, netVars, vars
<1>4. CASE Restart
  BY <1>2, <1>4 DEF Restart, WellFormed
<1>5. ASSUME NEW packet \in network, Lose(packet) \/ Receive(packet) \/ ReceiveCopy(packet)
      PROVE  FewHoles'
  BY <1>2, <1>5 DEF Lose, Receive, ReceiveCopy, pcVars
<1>6. CASE HandlePacket
  <2>1. PICK p \in Packet, g \in Nat, buffer \in FrameBuffer :
            /\ Handles(p, g, buffer)
            /\ p = packet_queue[1]
            /\ buffer.recv_counts = Counter(g) + 1
            /\ \A i \in PacketIds :
                  buffer.payloads[i] # Empty <=> Stored(g, i) \/ i = p.packet_id
    BY <1>6, HandledPacket
  <2>2. session' = session /\ dups' = dups
    BY <2>1 DEF Handles
  <2>3. CASE FrameComplete(buffer)
    <3>6. Handles(p, g, buffer)
      BY <2>1
    <3>1. PICK x \in RadarFrame :
             /\ x.frame_id = g
             /\ x.iq_data = ConvertToComplex(buffer.payloads)
             /\ frame_queue' = Append(frame_queue, x)
             /\ frames' = WithoutBuffer(g)
      BY <2>3, <3>6, PushedFrame
    <3>2. /\ Len(frame_queue) \in Nat
          /\ Len(frame_queue') = Len(frame_queue) + 1
          /\ \A k \in 1 .. Len(frame_queue) : frame_queue'[k] = frame_queue[k]
          /\ frame_queue'[Len(frame_queue) + 1] = x
      BY <1>1, <3>1
    <3>3. \A k \in 1 .. Len(frame_queue') :
              k \in 1 .. Len(frame_queue) \/ k = Len(frame_queue) + 1
      BY <3>2
    <3>4. Len(x.iq_data) = Cardinality(Filled(buffer.payloads))
      <4>1. PICK N \in Nat : N = Cardinality(Filled(buffer.payloads))
        BY FilledFinite, ReassemblyAssumption DEF ReassemblyAssumption
      <4>2. x.iq_data = [n \in 1 .. N |-> buffer.payloads[NthFilled(buffer.payloads, n)]]
        BY <3>1, <4>1 DEF ConvertToComplex
      <4>. QED  BY <4>1, <4>2
    <3>5. session = 0 => PacketCount - Len(x.iq_data) <= dups
      BY <2>1, <2>3, <3>4, HolesArePaid
    <3>. QED  BY <2>2, <3>2, <3>3, <3>5 DEF FewHoles
  <2>4. CASE ~FrameComplete(buffer)
    BY <1>2, <2>1, <2>2, <2>4 DEF Handles
  <2>. QED  BY <2>3, <2>4
<1>. QED  BY <1>3, <1>4, <1>5, <1>6 DEF Next

LEMMA AccountsStep ==
  ASSUME WellFormed, BuffersStayOpen, Origin, KnownSource, dups \in Nat, Accounts, [Next]_vars
  PROVE  Accounts'
<1> SUFFICES ASSUME NEW f \in Nat PROVE Account(f)'
  BY DEF Accounts
<1>1. Account(f)
  BY DEF Accounts
<1>2. CASE Packetize \/ WritePacket
  BY <1>1, <1>2, PcAccount
<1>3. CASE Restart
  BY <1>1, <1>3, RestartAccount
<1>4. ASSUME NEW packet \in network, Lose(packet) PROVE Account(f)'
  BY <1>1, <1>4, LoseAccount
<1>5. ASSUME NEW packet \in network, Receive(packet) \/ ReceiveCopy(packet)
      PROVE  Account(f)'
  BY <1>1, <1>5, ReceiveAccount
<1>6. CASE ReceiveFails \/ UNCHANGED vars
  BY <1>1, <1>6, LoseAccount
<1>7. CASE HandlePacket
  BY <1>1, <1>7, HandleAccount
<1>. QED  BY <1>2, <1>3, <1>4, <1>5, <1>6, <1>7 DEF Next

\* At the start nothing has been counted, queued or pushed, and at most the
\* packets of the first session are owed.
LEMMA AccountsInit == Init => KnownSource /\ dups \in Nat /\ Accounts /\ FewHoles
<1> SUFFICES ASSUME Init PROVE KnownSource /\ dups \in Nat /\ Accounts /\ FewHoles
  OBVIOUS
<1>1. KnownSource /\ dups \in Nat /\ FewHoles
  BY DEF Init, KnownSource, FewHoles
<1>2. ASSUME NEW f \in Nat PROVE Account(f)
  <2>1. PushesOf(f) = {} /\ Of(packet_queue, f) = {} /\ Counter(f) = 0
    BY DEF Init, PushesOf, Of, Counter
  <2>2. Owed(f) \in SUBSET ({0} \X PacketIds)
    BY DEF Init, Owed, Coming, Missing
  <2>3. IsFiniteSet({0} \X PacketIds) /\ Cardinality({0} \X PacketIds) = 1 * PacketCount
    <3>1. IsFiniteSet({0}) /\ Cardinality({0}) = 1
      BY FS_Singleton
    <3>. QED  BY <3>1, PacketIdsFinite, FS_Product
  <2>4. PICK O : O = Cardinality(Owed(f))
    OBVIOUS
  <2>5. O \in Nat /\ O <= PacketCount
    BY <2>2, <2>3, <2>4, FS_Subset, FS_CardinalityType, ReassemblyAssumption
    DEF ReassemblyAssumption
  <2>6. Charge(f) = PacketCount * 0 + 0 + 0 + O
    BY <2>1, <2>4, FS_EmptySet DEF Charge
  <2>7. Budget = PacketCount * 1 + 0
    BY DEF Init, Budget
  <2>. QED
    BY <2>5, <2>6, <2>7, ReassemblyAssumption DEF ReassemblyAssumption, Account
<1>. QED  BY <1>1, <1>2 DEF Accounts

(***************************************************************************)
(* What UDP's duplicates and the PC's restarts can cost, for any number of *)
(* them: before a restart a pushed frame lacks at most as many packets as  *)
(* datagrams were duplicated, and a frame id is pushed once per session,   *)
(* and again only for PacketCount duplicates.                              *)
(***************************************************************************)
THEOREM DamageIsPaid == Spec => []DamageIsBounded
<1> DEFINE Paid == KnownSource /\ dups \in Nat /\ Accounts /\ FewHoles
<1>1. WellFormed /\ BuffersStayOpen /\ Origin /\ Paid /\ [Next]_vars => Paid'
  <2> SUFFICES ASSUME WellFormed, BuffersStayOpen, Origin, Paid, [Next]_vars
               PROVE  Paid'
    OBVIOUS
  <2>1. dups' \in Nat
    BY DEF Next, Packetize, WritePacket, Restart, Lose, Receive, ReceiveCopy,
           ReceiveFails, HandlePacket, pcVars, netVars, vars
  <2>. QED  BY <2>1, KnownSourceStep, AccountsStep, FewHolesStep
<1>2. WellFormed /\ Origin /\ Paid => DamageIsBounded
  <2> SUFFICES ASSUME WellFormed, Origin, Paid, NEW k \in 1 .. Len(frame_queue)
               PROVE  PacketCount * Cardinality(PushesOf(frame_queue[k].frame_id))
                          <= PacketCount * (session + 1) + dups
    BY DEF DamageIsBounded, FewHoles
  <2>1. frame_queue[k] \in RadarFrame
    BY DEF Origin
  <2>2. PICK f \in Nat : f = frame_queue[k].frame_id
    BY <2>1 DEF RadarFrame
  <2>3. Charge(f) <= Budget
    BY DEF Accounts, Account
  <2>4. PacketCount * Cardinality(PushesOf(f)) <= PacketCount * (session + 1) + dups
    BY <2>3, ChargeType DEF Charge, Budget
  <2>. QED  BY <2>2, <2>4
<1>3. Init => Paid
  BY AccountsInit
<1>. HIDE DEF Paid
<1>. QED  BY Basics, <1>1, <1>2, <1>3, PTL DEF Spec

-----------------------------------------------------------------------------
(* What is safe of WholeScansArrive                                        *)

\* All packets of frame f were written, and none is under way or lost.
AllPassed(f) ==
    \A i \in PacketIds :
        HasBeenWritten(f, i) /\ PacketOf(0, f, i) \notin Pending \cup lost

\* A scan whose packets have all passed has been pushed, whole.
PassedScansArePushed ==
    \A f \in Nat : <<0, f>> \in captured /\ AllPassed(f) =>
        \E k \in 1 .. Len(frame_queue) : ScanOf(frame_queue[k]) = <<0, f>>

(***************************************************************************)
(* The reassembler forgets no scan: once all packets of a scan have been   *)
(* written and none is under way or lost, the whole scan has been pushed,  *)
(* whatever the order they came in, until UDP duplicates or the PC         *)
(* restarts.  That they pass at all is WholeScansArrive's part.            *)
(***************************************************************************)
THEOREM NoScanForgotten == Spec => [](Undisturbed => PassedScansArePushed)
<1>1. IInv => PassedScansArePushed
  <2> SUFFICES ASSUME IInv, NEW f \in Nat, <<0, f>> \in captured, AllPassed(f)
               PROVE  \E k \in 1 .. Len(frame_queue) : ScanOf(frame_queue[k]) = <<0, f>>
    BY DEF PassedScansArePushed
  <2>1. f \in 0 .. frameId - 1
    BY DEF IInv, Sender
  <2>2. \A i \in PacketIds : Stored(f, i) \/ Pushed(f)
    BY <2>1 DEF IInv, Conserved, AllPassed
  <2>3. Pushed(f)
    <3>1. SUFFICES ASSUME ~Pushed(f) PROVE FALSE
      OBVIOUS
    <3>2. 0 \in PacketIds
      BY ReassemblyAssumption DEF ReassemblyAssumption, PacketIds
    <3>3. f \in DOMAIN frames
      BY <2>2, <3>1, <3>2 DEF Stored
    <3>4. Filled(frames[f].payloads) = PacketIds
      BY <2>2, <3>1 DEF Stored, Filled
    <3>5. /\ frames[f].recv_counts = Cardinality(Filled(frames[f].payloads))
          /\ frames[f].recv_counts < PacketCount
      BY <3>3 DEF IInv, Buffers, Collected
    <3>. QED
      BY <3>4, <3>5, PacketIdsFinite, ReassemblyAssumption DEF ReassemblyAssumption
  <2>4. PICK k \in 1 .. Len(frame_queue) : frame_queue[k].frame_id = f
    BY <2>3 DEF Pushed
  <2>5. frame_queue[k].iq_data = Cube(0, f)
    BY <2>4 DEF IInv, Frames
  <2>. QED  BY <2>4, <2>5, WholeScan
<1>. QED  BY <1>1, Invariance, PTL
=============================================================================

--------------------------- MODULE RadarPipeline ---------------------------
(***************************************************************************)
(* From RadarProcessor's input queue to the two UDP streams back to the    *)
(* PC: the threads of RadarProcessor, TargetSender and PowerMapSender and  *)
(* the three queues between them.  Signal processing is abstracted to its  *)
(* data flow: each of RadarProcessor's member buffers, and everything      *)
(* computed from them, remembers the scan it was computed from.            *)
(***************************************************************************)
EXTENDS Naturals, Sequences

CONSTANTS
    FrameIds,      \* the frame ids the PC uses
    MaxScans,      \* bound: frames pushed by the reassembler
    MapPackets,    \* packets per power map (28)
    InitMayFail,   \* whether FFTW may refuse a buffer or a plan
    SendMayFail    \* whether sendto may fail

ASSUME PipelineAssumption ==
    /\ FrameIds \subseteq Nat
    /\ MaxScans \in Nat
    /\ MapPackets \in Nat \ {0}
    /\ InitMayFail \in BOOLEAN
    /\ SendMayFail \in BOOLEAN

VARIABLES
    input,           \* history: the id of every frame pushed to frame_queue
    frame_queue,     \* ThreadSafeQueue<RadarFrame>
    stage,           \* where RadarProcessor's thread is
    current,         \* the frame in process()
    is_first_frame,  \* is_first_frame_
    last_frame_id,   \* last_frame_id_
    rdm,             \* rdm_ (and range_fft_data_): the scan it shows
    power,           \* power_
    points,          \* detected_points_
    power_map_queue, \* ThreadSafeQueue<PowerMapFrame>
    target_queue,    \* ThreadSafeQueue<TargetFrame>
    target_sender,   \* TargetSender's thread: "running" or "dead"
    map_sender,      \* PowerMapSender's thread: "running" or "dead"
    map_frame,       \* the PowerMapFrame that PowerMapSender is sending
    map_packet,      \* its next packet; MapPackets = none
    maps,            \* history: every PowerMapFrame pushed
    target_wire,     \* every LeadTargetFrame sent to the PC
    map_wire         \* every power map packet sent to the PC

inputVars == <<input, frame_queue>>
processorVars == <<stage, current, is_first_frame, last_frame_id, rdm, power,
                   points, maps>>
targetVars == <<target_queue, target_sender, target_wire>>
mapVars == <<power_map_queue, map_sender, map_frame, map_packet, map_wire>>
vars == <<inputVars, processorVars, targetVars, mapVars>>

\* The scans are numbered as they are pushed; 0 is the content of a buffer
\* that init() has filled with zeros.
Scan == Nat

RadarFrame == [frame_id : FrameIds, scan : Scan]

\* A power map or a list of targets, and the scans it was computed from.
Product == [frame_id : FrameIds, from : SUBSET Scan]

NoFrame == [frame_id |-> 0, scan |-> 0]
NoProduct == [frame_id |-> 0, from |-> {}]

Init ==
    /\ input = <<>>
    /\ frame_queue = <<>>
    /\ stage = "starting"
    /\ current = NoFrame
    /\ is_first_frame = TRUE
    /\ last_frame_id = 0
    /\ rdm = 0
    /\ power = 0
    /\ points = 0
    /\ power_map_queue = <<>>
    /\ target_queue = <<>>
    /\ target_sender = "running"
    /\ map_sender = "running"
    /\ map_frame = NoProduct
    /\ map_packet = MapPackets
    /\ maps = <<>>
    /\ target_wire = <<>>
    /\ map_wire = <<>>

\* RadarReassembler pushes a frame.  Frames overtake one another on the way
\* from the PC, and ids come back when the PC restarts: any id may be next.
PushRadarFrame(f) ==
    /\ Len(input) < MaxScans
    /\ input' = Append(input, f)
    /\ frame_queue' =
          Append(frame_queue, [frame_id |-> f, scan |-> Len(input) + 1])
    /\ UNCHANGED <<processorVars, targetVars, mapVars>>

-----------------------------------------------------------------------------
(* RadarProcessor *)

\* init(): buffers and FFTW plans.
InitProcessor ==
    /\ stage = "starting"
    /\ stage' = "ready"
    /\ UNCHANGED <<inputVars, current, is_first_frame, last_frame_id, rdm,
                   power, points, maps, targetVars, mapVars>>

\* init() throws, thread_func reports it and the thread ends.
InitFails ==
    /\ InitMayFail
    /\ stage = "starting"
    /\ stage' = "failed"
    /\ UNCHANGED <<inputVars, current, is_first_frame, last_frame_id, rdm,
                   power, points, maps, targetVars, mapVars>>

\* Mutant: a frame id that was just processed is taken again.
Accepts_Repeated(f) == is_first_frame \/ f >= last_frame_id

\* Mutant: no exception for the first frame.
Accepts_NotFirst(f) == f > last_frame_id

\* Mutant: only the direct successor of the last frame is taken.
Accepts_Successor(f) == is_first_frame \/ f = last_frame_id + 1

\* The test at the top of process().
Accepts(f) == is_first_frame \/ f > last_frame_id

\* process() returns at once.
Drop ==
    /\ stage = "ready"
    /\ frame_queue # <<>>
    /\ ~Accepts(Head(frame_queue).frame_id)
    /\ frame_queue' = Tail(frame_queue)
    /\ UNCHANGED <<input, processorVars, targetVars, mapVars>>

\* Mutant: the power map is pushed before CFAR has computed it.
Detect_MapFirst ==
    /\ stage = "ready"
    /\ frame_queue # <<>>
    /\ Accepts(Head(frame_queue).frame_id)
    /\ frame_queue' = Tail(frame_queue)
    /\ current' = Head(frame_queue)
    /\ is_first_frame' = FALSE
    /\ rdm' = current'.scan
    /\ power' = rdm'
    /\ points' = power'
    /\ LET map == [frame_id |-> current'.frame_id, from |-> {power}]
       IN  /\ power_map_queue' = Append(power_map_queue, map)
           /\ maps' = Append(maps, map)
    /\ stage' = "detected"
    /\ UNCHANGED <<input, last_frame_id, targetVars, map_sender, map_frame,
                   map_packet, map_wire>>

\* process() up to the push of the power map: Range_FFT, Doppler_FFT, CFAR.
Detect ==
    /\ stage = "ready"
    /\ frame_queue # <<>>
    /\ Accepts(Head(frame_queue).frame_id)
    /\ frame_queue' = Tail(frame_queue)
    /\ current' = Head(frame_queue)
    /\ is_first_frame' = FALSE
    /\ rdm' = current'.scan
    /\ power' = rdm'
    /\ points' = power'
    /\ LET map == [frame_id |-> current'.frame_id, from |-> {power'}]
       IN  /\ power_map_queue' = Append(power_map_queue, map)
           /\ maps' = Append(maps, map)
    /\ stage' = "detected"
    /\ UNCHANGED <<input, last_frame_id, targetVars, map_sender, map_frame,
                   map_packet, map_wire>>

\* The rest of process(): clusters and peaks come from detected_points_, the
\* angles from rdm_.
Locate ==
    /\ stage = "detected"
    /\ target_queue' = Append(target_queue,
           [frame_id |-> current.frame_id, from |-> {points, rdm}])
    /\ last_frame_id' = current.frame_id
    /\ stage' = "ready"
    /\ UNCHANGED <<inputVars, current, is_first_frame, rdm, power, points,
                   maps, target_sender, target_wire, mapVars>>

-----------------------------------------------------------------------------
(* TargetSender *)

\* A round of run(): one LeadTargetFrame per TargetFrame, with or without a
\* lead target.
SendTarget ==
    /\ target_sender = "running"
    /\ target_queue # <<>>
    /\ target_queue' = Tail(target_queue)
    /\ target_wire' = Append(target_wire, Head(target_queue))
    /\ UNCHANGED <<inputVars, processorVars, target_sender, mapVars>>

\* sendto fails: the exception ends the thread, running_ stays true.
SendTargetFails ==
    /\ SendMayFail
    /\ target_sender = "running"
    /\ target_queue # <<>>
    /\ target_queue' = Tail(target_queue)
    /\ target_sender' = "dead"
    /\ UNCHANGED <<inputVars, processorVars, target_wire, mapVars>>

-----------------------------------------------------------------------------
(* PowerMapSender *)

\* power_ always has POWER_MAP_SIZE elements, so no frame is refused.
TakeMap ==
    /\ map_sender = "running"
    /\ map_packet = MapPackets
    /\ power_map_queue # <<>>
    /\ power_map_queue' = Tail(power_map_queue)
    /\ map_frame' = Head(power_map_queue)
    /\ map_packet' = 0
    /\ UNCHANGED <<inputVars, processorVars, targetVars, map_sender, map_wire>>

\* Mutant: the packets are cut from the processor's buffer, not from a copy.
SendMapPacket_SharedBuffer ==
    /\ map_sender = "running"
    /\ map_packet < MapPackets
    /\ map_wire' = Append(map_wire,
           [map |-> [map_frame EXCEPT !.from = {power}], packet_id |-> map_packet])
    /\ map_packet' = map_packet + 1
    /\ UNCHANGED <<inputVars, processorVars, targetVars, power_map_queue,
                   map_sender, map_frame>>

\* Mutant: the loop runs to packet_id <= packet_count.
SendMapPacket_OneMore ==
    /\ map_sender = "running"
    /\ map_packet <= MapPackets
    /\ map_wire' = Append(map_wire, [map |-> map_frame, packet_id |-> map_packet])
    /\ map_packet' = map_packet + 1
    /\ UNCHANGED <<inputVars, processorVars, targetVars, power_map_queue,
                   map_sender, map_frame>>

\* A round of the packet loop: the packet is cut from the popped PowerMapFrame
\* and sent.
SendMapPacket ==
    /\ map_sender = "running"
    /\ map_packet < MapPackets
    /\ map_wire' = Append(map_wire, [map |-> map_frame, packet_id |-> map_packet])
    /\ map_packet' = map_packet + 1
    /\ UNCHANGED <<inputVars, processorVars, targetVars, power_map_queue,
                   map_sender, map_frame>>

\* sendto fails, in the middle of a map perhaps: the thread ends.
SendMapFails ==
    /\ SendMayFail
    /\ map_sender = "running"
    /\ map_packet < MapPackets
    /\ map_sender' = "dead"
    /\ UNCHANGED <<inputVars, processorVars, targetVars, power_map_queue,
                   map_frame, map_packet, map_wire>>

-----------------------------------------------------------------------------

Next ==
    \/ \E f \in FrameIds : PushRadarFrame(f)
    \/ InitProcessor
    \/ InitFails
    \/ Drop
    \/ Detect
    \/ Locate
    \/ SendTarget
    \/ SendTargetFails
    \/ TakeMap
    \/ SendMapPacket
    \/ SendMapFails

Spec == Init /\ [][Next]_vars

\* The three threads run whenever they have something to do (their queues
\* wake them up: ThreadSafeQueue).  No frame has to come.
Fairness ==
    /\ WF_vars(InitProcessor)
    /\ WF_vars(Drop)
    /\ WF_vars(Detect)
    /\ WF_vars(Locate)
    /\ WF_vars(SendTarget)
    /\ WF_vars(TakeMap)
    /\ WF_vars(SendMapPacket)

FairSpec == Spec /\ Fairness

-----------------------------------------------------------------------------
(* Properties *)

\* The variables keep their types; a packet of a power map has an id below the
\* number of packets per map.
TypeOK ==
    /\ input \in Seq(FrameIds)
    /\ frame_queue \in Seq(RadarFrame)
    /\ stage \in {"starting", "ready", "detected", "failed"}
    /\ current \in RadarFrame \cup {NoFrame}
    /\ is_first_frame \in BOOLEAN
    /\ last_frame_id \in FrameIds \cup {0}
    /\ {rdm, power, points} \subseteq Scan
    /\ power_map_queue \in Seq(Product)
    /\ target_queue \in Seq(Product)
    /\ {target_sender, map_sender} \subseteq {"running", "dead"}
    /\ map_frame \in Product \cup {NoProduct}
    /\ map_packet \in 0 .. MapPackets
    /\ maps \in Seq(Product)
    /\ target_wire \in Seq(Product)
    /\ map_wire \in Seq([map : Product, packet_id : 0 .. MapPackets - 1])

\* TargetSender never sends a report that is as old as one it has sent, though
\* frames reach the processor out of order and more than once.  That is where
\* the code's care for the order ends: reports may still overtake each other on
\* the link, and the PC does not look at their frame id (LeadReport).
TargetsOnlyAdvance ==
    \A j, k \in 1 .. Len(target_wire) :
        j < k => target_wire[j].frame_id < target_wire[k].frame_id

\* A product is computed from one scan, and from the scan its header names.
Genuine(product) ==
    \E s \in 1 .. Len(input) :
        product.from = {s} /\ product.frame_id = input[s]

\* RadarProcessor's buffers outlive the frame; nothing that leaves it is
\* computed from what an earlier frame has left in them.
ProductsAreGenuine ==
    /\ \A k \in 1 .. Len(target_wire) : Genuine(target_wire[k])
    /\ \A k \in 1 .. Len(target_queue) : Genuine(target_queue[k])
    /\ \A k \in 1 .. Len(maps) : Genuine(maps[k])

\* The packets of a power map leave in order, without a gap and without a
\* packet of another map in between, and all show the map that was pushed,
\* although the processor computes the next map while they are being sent.
MapsLeaveIntact ==
    \A n \in 1 .. Len(map_wire) :
        /\ map_wire[n].packet_id = (n - 1) % MapPackets
        /\ (n - 1) \div MapPackets < Len(maps)
        /\ map_wire[n].map = maps[(n - 1) \div MapPackets + 1]

\* A frame is thrown away only for a frame that came before it, was processed
\* and has the same or a higher id; in particular frame 0 is not thrown away
\* for last_frame_id_'s initial value.
OnlyStaleDropped ==
    \A s \in 1 .. Len(input) - Len(frame_queue) :
        \/ \E k \in 1 .. Len(maps) : maps[k].from = {s}
        \/ \E k \in 1 .. Len(maps) : \E r \in 1 .. s - 1 :
               maps[k].from = {r} /\ input[r] >= input[s]

\* A frame newer than all before it is reported to the PC, unless the thread
\* of the processor or of the target sender has ended.  The power map sender
\* may be slow or dead: the report does not wait for it.
NewestIsReported ==
    \A s \in 1 .. MaxScans :
        (s <= Len(input) /\ \A r \in 1 .. s - 1 : input[r] < input[s])
            ~> \/ \E k \in 1 .. Len(target_wire) : target_wire[k].from = {s}
               \/ stage = "failed"
               \/ target_sender = "dead"
=============================================================================

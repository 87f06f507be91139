------------------------ MODULE RadarPipelineProofs ------------------------
(***************************************************************************)
(* Proofs about RadarPipeline, for any frame ids and any number of frames. *)
(***************************************************************************)
EXTENDS RadarPipeline, SequenceTheorems, TLAPS

\* TypeOK alone is not inductive: what RadarProcessor hands on in Locate and
\* PowerMapSender cuts in SendMapPacket must be a frame, not its initial value.
TypeInv ==
    /\ TypeOK
    /\ stage = "detected" => current \in RadarFrame
    /\ map_packet < MapPackets => map_frame \in Product

LEMMA TypeInit == Init => TypeInv
<1> SUFFICES ASSUME Init PROVE TypeInv
  OBVIOUS
<1> USE PipelineAssumption DEF PipelineAssumption
<1>1. /\ input \in Seq(FrameIds)
      /\ frame_queue \in Seq(RadarFrame)
      /\ power_map_queue \in Seq(Product)
      /\ target_queue \in Seq(Product)
      /\ maps \in Seq(Product)
      /\ target_wire \in Seq(Product)
      /\ map_wire \in Seq([map : Product, packet_id : 0 .. MapPackets - 1])
  BY EmptySeq DEF Init
<1>2. map_packet \in 0 .. MapPackets /\ ~(map_packet < MapPackets)
  BY DEF Init
<1>3. {rdm, power, points} \subseteq Scan
  BY DEF Init, Scan
<1>. QED  BY <1>1, <1>2, <1>3 DEF Init, TypeInv, TypeOK

LEMMA TypeStep == TypeInv /\ [Next]_vars => TypeInv'
<1> SUFFICES ASSUME TypeInv, [Next]_vars PROVE TypeInv'
  OBVIOUS
<1> USE PipelineAssumption
    DEF PipelineAssumption, TypeInv, TypeOK, inputVars, processorVars,
        targetVars, mapVars
<1>1. ASSUME NEW f \in FrameIds, PushRadarFrame(f) PROVE TypeInv'
  <2>1. [frame_id |-> f, scan |-> Len(input) + 1] \in RadarFrame
    BY DEF RadarFrame, Scan
  <2>2. input' \in Seq(FrameIds) /\ frame_queue' \in Seq(RadarFrame)
    BY <1>1, <2>1 DEF PushRadarFrame
  <2>. QED  BY <1>1, <2>2 DEF PushRadarFrame
<1>2. CASE InitProcessor \/ InitFails
  BY <1>2 DEF InitProcessor, InitFails
<1>3. CASE Drop
  BY <1>3 DEF Drop
<1>4. CASE Detect
  <2>1. /\ Head(frame_queue) \in RadarFrame
        /\ Tail(frame_queue) \in Seq(RadarFrame)
    BY <1>4 DEF Detect
  <2>2. current' = Head(frame_queue)
    BY <1>4 DEF Detect
  <2>3. current'.scan \in Scan /\ current'.frame_id \in FrameIds
    BY <2>1, <2>2 DEF RadarFrame
  <2>4. rdm' = current'.scan /\ power' = current'.scan /\ points' = current'.scan
    BY <1>4 DEF Detect
  <2>5. [frame_id |-> current'.frame_id, from |-> {power'}] \in Product
    BY <2>3, <2>4 DEF Product
  <2>6. power_map_queue' \in Seq(Product) /\ maps' \in Seq(Product)
    BY <1>4, <2>5 DEF Detect
  <2>. QED  BY <1>4, <2>1, <2>2, <2>3, <2>4, <2>6 DEF Detect
<1>5. CASE Locate
  <2>1. current.frame_id \in FrameIds
    BY <1>5 DEF Locate, RadarFrame
  <2>2. [frame_id |-> current.frame_id, from |-> {points, rdm}] \in Product
    BY <2>1 DEF Product
  <2>3. target_queue' \in Seq(Product)
    BY <1>5, <2>2 DEF Locate
  <2>. QED  BY <1>5, <2>1, <2>3 DEF Locate
<1>6. CASE SendTarget
  <2>1. target_queue' \in Seq(Product) /\ target_wire' \in Seq(Product)
    BY <1>6 DEF SendTarget
  <2>. QED  BY <1>6, <2>1 DEF SendTarget
<1>7. CASE SendTargetFails
  <2>1. target_queue' \in Seq(Product)
    BY <1>7 DEF SendTargetFails
  <2>. QED  BY <1>7, <2>1 DEF SendTargetFails
<1>8. CASE TakeMap
  <2>1. power_map_queue' \in Seq(Product) /\ map_frame' \in Product
    BY <1>8 DEF TakeMap
  <2>. QED  BY <1>8, <2>1 DEF TakeMap
<1>9. CASE SendMapPacket
  <2>1. map_packet \in 0 .. MapPackets - 1
    BY <1>9 DEF SendMapPacket
  <2>2. [map |-> map_frame, packet_id |-> map_packet]
            \in [map : Product, packet_id : 0 .. MapPackets - 1]
    BY <1>9, <2>1 DEF SendMapPacket
  <2>3. map_wire' \in Seq([map : Product, packet_id : 0 .. MapPackets - 1])
    BY <1>9, <2>2 DEF SendMapPacket
  <2>4. map_packet' \in 0 .. MapPackets
    BY <1>9, <2>1 DEF SendMapPacket
  <2>. QED  BY <1>9, <2>3, <2>4 DEF SendMapPacket
<1>10. CASE SendMapFails
  BY <1>10 DEF SendMapFails
<1>11. CASE UNCHANGED vars
  BY <1>11 DEF vars
<1>. QED
  BY <1>1, <1>2, <1>3, <1>4, <1>5, <1>6, <1>7, <1>8, <1>9, <1>10, <1>11
  DEF Next

(***************************************************************************)
(* The types of the pipeline's buffers, queues and datagrams.              *)
(***************************************************************************)
THEOREM TypeCorrect == Spec => []TypeOK
<1>1. TypeInv => TypeOK
  BY DEF TypeInv
<1>. QED  BY <1>1, TypeInit, TypeStep, PTL DEF Spec

-----------------------------------------------------------------------------

(***************************************************************************)
(* The queued reports stand behind the sent ones, all in id order, none    *)
(* newer than last_frame_id_; the frame in process() is newer than all.    *)
(***************************************************************************)
Ascending(reports) ==
    \A j, k \in 1 .. Len(reports) :
        j < k => reports[j].frame_id < reports[k].frame_id

AllBelow(reports, f) ==
    \A k \in 1 .. Len(reports) : reports[k].frame_id < f

Advancing ==
    /\ Ascending(target_wire)
    /\ Ascending(target_queue)
    /\ \A k \in 1 .. Len(target_queue) :
           AllBelow(target_wire, target_queue[k].frame_id)
    /\ AllBelow(target_wire, last_frame_id + 1)
    /\ AllBelow(target_queue, last_frame_id + 1)
    /\ is_first_frame =>
           stage # "detected" /\ target_queue = <<>> /\ target_wire = <<>>
    /\ stage = "detected" =>
           /\ AllBelow(target_wire, current.frame_id)
           /\ AllBelow(target_queue, current.frame_id)

LEMMA AdvancingInit == Init => Advancing
BY DEF Init, Advancing, Ascending, AllBelow

\* Appending a report that is newer than all before it.
LEMMA AppendAscending ==
  ASSUME NEW reports \in Seq(Product), NEW report \in Product,
         Ascending(reports), AllBelow(reports, report.frame_id)
  PROVE  /\ Ascending(Append(reports, report))
         /\ \A f \in Nat : AllBelow(reports, f) /\ report.frame_id < f
                              => AllBelow(Append(reports, report), f)
<1> USE DEF Ascending, AllBelow
<1>1. /\ Len(Append(reports, report)) = Len(reports) + 1
      /\ \A k \in 1 .. Len(reports) : Append(reports, report)[k] = reports[k]
      /\ Append(reports, report)[Len(reports) + 1] = report
      /\ Len(reports) \in Nat
  OBVIOUS
<1>2. Ascending(Append(reports, report))
  BY <1>1
<1>3. ASSUME NEW f \in Nat, AllBelow(reports, f), report.frame_id < f
      PROVE  AllBelow(Append(reports, report), f)
  BY <1>1, <1>3
<1>. QED  BY <1>2, <1>3

\* Taking the oldest report away.
LEMMA TailAscending ==
  ASSUME NEW reports \in Seq(Product), reports # <<>>, Ascending(reports)
  PROVE  /\ Ascending(Tail(reports))
         /\ \A f \in Nat : AllBelow(reports, f) =>
                /\ AllBelow(Tail(reports), f)
                /\ Head(reports).frame_id < f
         /\ \A k \in 1 .. Len(Tail(reports)) :
                /\ k + 1 \in 1 .. Len(reports)
                /\ Tail(reports)[k] = reports[k + 1]
                /\ Head(reports).frame_id < Tail(reports)[k].frame_id
<1> USE DEF Ascending, AllBelow
<1>1. /\ Len(reports) \in Nat \ {0}
      /\ Len(Tail(reports)) = Len(reports) - 1
      /\ \A k \in 1 .. Len(Tail(reports)) : Tail(reports)[k] = reports[k + 1]
      /\ Head(reports) = reports[1]
  OBVIOUS
<1>2. Ascending(Tail(reports))
  BY <1>1
<1>3. ASSUME NEW f \in Nat, AllBelow(reports, f)
      PROVE  AllBelow(Tail(reports), f) /\ Head(reports).frame_id < f
  BY <1>1, <1>3
<1>4. ASSUME NEW k \in 1 .. Len(Tail(reports))
      PROVE  /\ k + 1 \in 1 .. Len(reports)
             /\ Head(reports).frame_id < Tail(reports)[k].frame_id
  BY <1>1
<1>. QED  BY <1>1, <1>2, <1>3, <1>4

\* Only the processor and the target sender touch what Advancing is about.
LEMMA AdvancingStep ==
  TypeInv /\ Advancing /\ [Next]_vars => Advancing'
<1> SUFFICES ASSUME TypeInv, Advancing, [Next]_vars PROVE Advancing'
  OBVIOUS
<1> USE PipelineAssumption DEF PipelineAssumption
<1>a. /\ target_queue \in Seq(Product)
      /\ target_wire \in Seq(Product)
      /\ last_frame_id \in Nat
      /\ FrameIds \subseteq Nat
      /\ \A k \in 1 .. Len(target_queue) : target_queue[k].frame_id \in Nat
      /\ \A k \in 1 .. Len(target_wire) : target_wire[k].frame_id \in Nat
  <2>1. FrameIds \subseteq Nat /\ last_frame_id \in Nat
    BY DEF TypeInv, TypeOK
  <2>2. target_queue \in Seq(Product) /\ target_wire \in Seq(Product)
    BY DEF TypeInv, TypeOK
  <2>3. \A report \in Product : report.frame_id \in Nat
    BY <2>1 DEF Product
  <2>. QED  BY <2>1, <2>2, <2>3
<1>1. ASSUME UNCHANGED <<stage, current, is_first_frame, last_frame_id,
                         target_queue, target_wire>>
      PROVE  Advancing'
  <2>1. /\ stage' = stage
        /\ current' = current
        /\ is_first_frame' = is_first_frame
        /\ last_frame_id' = last_frame_id
        /\ target_queue' = target_queue
        /\ target_wire' = target_wire
    BY <1>1
  <2>. QED  BY <2>1 DEF Advancing
<1>2. CASE \E f \in FrameIds : PushRadarFrame(f)
  BY <1>1, <1>2 DEF PushRadarFrame, processorVars, targetVars
<1>3. CASE InitProcessor \/ InitFails
  BY <1>3 DEF InitProcessor, InitFails, targetVars, Advancing, Ascending, AllBelow
<1>4. CASE Drop
  BY <1>1, <1>4 DEF Drop, processorVars, targetVars
<1>5. CASE Detect
  <2>1. UNCHANGED <<last_frame_id, target_queue, target_wire>>
    BY <1>5 DEF Detect, targetVars
  <2>2. ~is_first_frame' /\ current' = Head(frame_queue)
    BY <1>5 DEF Detect
  <2>3. current'.frame_id \in Nat
    <3>1. Head(frame_queue) \in RadarFrame
      BY <1>5 DEF Detect, TypeInv, TypeOK
    <3>. QED  BY <1>a, <2>2, <3>1 DEF RadarFrame
  <2>4. /\ AllBelow(target_wire, current'.frame_id)
        /\ AllBelow(target_queue, current'.frame_id)
    <3>1. CASE is_first_frame
      BY <3>1 DEF Advancing, AllBelow
    <3>2. CASE ~is_first_frame
      <4>1. current'.frame_id > last_frame_id
        BY <1>5, <2>2, <3>2 DEF Detect, Accepts
      <4>. QED  BY <1>a, <2>3, <4>1 DEF Advancing, AllBelow
    <3>. QED  BY <3>1, <3>2
  <2>. QED  BY <2>1, <2>2, <2>4 DEF Advancing, Ascending, AllBelow
<1>6. CASE Locate
  <2> DEFINE report == [frame_id |-> current.frame_id, from |-> {points, rdm}]
  <2>1. /\ report \in Product
        /\ report.frame_id = current.frame_id
        /\ current.frame_id \in Nat
    BY <1>6, <1>a DEF Locate, TypeInv, TypeOK, RadarFrame, Product
  <2>2. /\ target_queue' = Append(target_queue, report)
        /\ target_wire' = target_wire
        /\ last_frame_id' = current.frame_id
        /\ is_first_frame' = is_first_frame
        /\ stage = "detected" /\ stage' = "ready"
    BY <1>6 DEF Locate
  <2>3. /\ AllBelow(target_wire, report.frame_id)
        /\ AllBelow(target_queue, report.frame_id)
        /\ Ascending(target_queue)
        /\ Ascending(target_wire)
        /\ ~is_first_frame
    BY <2>1, <2>2 DEF Advancing
  <2> HIDE DEF report
  <2>4. /\ Ascending(target_queue')
        /\ AllBelow(target_queue', last_frame_id' + 1)
    <3>1. AllBelow(target_queue, last_frame_id' + 1)
      BY <1>a, <2>1, <2>2, <2>3 DEF AllBelow
    <3>. QED  BY <1>a, <2>1, <2>2, <2>3, <3>1, AppendAscending
  <2>5. AllBelow(target_wire', last_frame_id' + 1)
    BY <1>a, <2>1, <2>2, <2>3 DEF AllBelow
  <2>6. ASSUME NEW k \in 1 .. Len(target_queue')
        PROVE  AllBelow(target_wire', target_queue'[k].frame_id)
    <3>1. CASE k \in 1 .. Len(target_queue)
      <4>1. target_queue'[k] = target_queue[k]
        BY <1>a, <2>1, <2>2, <3>1
      <4>. QED  BY <2>2, <3>1, <4>1 DEF Advancing
    <3>2. CASE k = Len(target_queue) + 1
      <4>1. target_queue'[k] = report
        BY <1>a, <2>1, <2>2, <3>2
      <4>. QED  BY <2>2, <2>3, <4>1
    <3>. QED  BY <1>a, <2>1, <2>2, <3>1, <3>2
  <2>7. Ascending(target_wire')
    BY <2>2, <2>3
  <2>. QED  BY <2>2, <2>3, <2>4, <2>5, <2>6, <2>7 DEF Advancing
<1>7. ASSUME target_queue # <<>>, target_queue' = Tail(target_queue),
             \/ target_wire' = target_wire
             \/ target_wire' = Append(target_wire, Head(target_queue)),
             UNCHANGED <<stage, current, is_first_frame, last_frame_id>>
      PROVE  Advancing'
  <2>1. /\ Ascending(target_queue)
        /\ Ascending(target_wire)
        /\ \A k \in 1 .. Len(target_queue) :
               AllBelow(target_wire, target_queue[k].frame_id)
        /\ AllBelow(target_wire, last_frame_id + 1)
        /\ AllBelow(target_queue, last_frame_id + 1)
        /\ ~is_first_frame
    BY <1>7 DEF Advancing
  <2>2. /\ Head(target_queue) \in Product
        /\ Head(target_queue).frame_id \in Nat
        /\ AllBelow(target_wire, Head(target_queue).frame_id)
    <3>1. Head(target_queue) = target_queue[1] /\ 1 \in 1 .. Len(target_queue)
      BY <1>7, <1>a
    <3>. QED  BY <1>a, <2>1, <3>1
  <2>3. \A f \in Nat : AllBelow(target_wire, f) /\ AllBelow(target_queue, f)
                          => AllBelow(target_wire', f) /\ AllBelow(target_queue', f)
    BY <1>7, <1>a, <2>1, <2>2, TailAscending, AppendAscending
  <2>4. Ascending(target_wire') /\ Ascending(target_queue')
    BY <1>7, <1>a, <2>1, <2>2, TailAscending, AppendAscending
  <2>5. ASSUME NEW k \in 1 .. Len(target_queue')
        PROVE  AllBelow(target_wire', target_queue'[k].frame_id)
    <3>1. /\ k + 1 \in 1 .. Len(target_queue)
          /\ target_queue'[k] = target_queue[k + 1]
          /\ Head(target_queue).frame_id < target_queue'[k].frame_id
      BY <1>7, <1>a, <2>1, TailAscending
    <3>2. AllBelow(target_wire, target_queue'[k].frame_id)
      BY <2>1, <3>1
    <3>3. target_queue'[k].frame_id \in Nat
      BY <1>a, <3>1
    <3>. QED  BY <1>7, <1>a, <2>1, <2>2, <3>1, <3>2, <3>3, AppendAscending
  <2>6. AllBelow(target_wire', last_frame_id' + 1)
        /\ AllBelow(target_queue', last_frame_id' + 1)
    BY <1>7, <1>a, <2>1, <2>3
  <2>7. stage' = "detected" => /\ AllBelow(target_wire', current'.frame_id)
                               /\ AllBelow(target_queue', current'.frame_id)
    <3>1. stage = "detected" => current.frame_id \in Nat
      BY <1>a DEF TypeInv, RadarFrame
    <3>. QED  BY <1>7, <2>3, <3>1 DEF Advancing
  <2>. QED  BY <1>7, <2>1, <2>4, <2>5, <2>6, <2>7 DEF Advancing
<1>8. CASE SendTarget \/ SendTargetFails
  BY <1>7, <1>8 DEF SendTarget, SendTargetFails, processorVars
<1>9. CASE TakeMap \/ SendMapPacket \/ SendMapFails
  BY <1>1, <1>9 DEF TakeMap, SendMapPacket, SendMapFails, processorVars, targetVars
<1>10. CASE UNCHANGED vars
  BY <1>1, <1>10 DEF vars, processorVars, targetVars
<1>. QED
  BY <1>2, <1>3, <1>4, <1>5, <1>6, <1>8, <1>9, <1>10 DEF Next

(***************************************************************************)
(* The reports TargetSender sends have strictly increasing frame ids,      *)
(* whatever the order and the ids of the frames that come in.              *)
(***************************************************************************)
THEOREM ReportsAdvance == Spec => []TargetsOnlyAdvance
<1>1. Advancing => TargetsOnlyAdvance
  BY DEF Advancing, Ascending, TargetsOnlyAdvance
<1>. QED
  BY <1>1, TypeInit, TypeStep, AdvancingInit, AdvancingStep, PTL DEF Spec

-----------------------------------------------------------------------------

(***************************************************************************)
(* Where everything comes from: frame_queue holds the newest inputs, and   *)
(* between the push of the map and the push of the targets the buffers     *)
(* show the frame in process().                                            *)
(***************************************************************************)
Consumed == Len(input) - Len(frame_queue)

Provenance ==
    /\ Len(frame_queue) <= Len(input)
    /\ \A k \in 1 .. Len(frame_queue) :
           /\ frame_queue[k].scan = Consumed + k
           /\ frame_queue[k].frame_id = input[Consumed + k]
    /\ stage = "detected" =>
           /\ current.scan \in 1 .. Consumed
           /\ current.frame_id = input[current.scan]
           /\ points = current.scan
           /\ rdm = current.scan
    /\ ProductsAreGenuine

AllGenuine(products) == \A k \in 1 .. Len(products) : Genuine(products[k])

LEMMA ProvenanceInit == Init => Provenance
BY DEF Init, Provenance, ProductsAreGenuine

\* Taking the oldest frame from frame_queue.
LEMMA TakeFrame ==
  ASSUME TypeInv, Provenance, frame_queue # <<>>,
         frame_queue' = Tail(frame_queue), input' = input
  PROVE  /\ Consumed \in Nat
         /\ Consumed' = Consumed + 1
         /\ Consumed + 1 \in 1 .. Len(input)
         /\ Len(frame_queue') <= Len(input')
         /\ \A k \in 1 .. Len(frame_queue') :
                /\ frame_queue'[k].scan = Consumed' + k
                /\ frame_queue'[k].frame_id = input'[Consumed' + k]
         /\ Head(frame_queue).scan = Consumed + 1
         /\ Head(frame_queue).frame_id = input[Consumed + 1]
<1>1. /\ frame_queue \in Seq(RadarFrame)
      /\ Len(input) \in Nat
  BY DEF TypeInv, TypeOK
<1>2. /\ Len(frame_queue) \in Nat \ {0}
      /\ Len(frame_queue') = Len(frame_queue) - 1
      /\ \A k \in 1 .. Len(frame_queue') : frame_queue'[k] = frame_queue[k + 1]
      /\ Head(frame_queue) = frame_queue[1]
  BY <1>1
<1>3. /\ Consumed = Len(input) - Len(frame_queue)
      /\ Consumed' = Len(input) - Len(frame_queue')
      /\ Len(frame_queue) <= Len(input)
      /\ \A k \in 1 .. Len(frame_queue) :
             /\ frame_queue[k].scan = Consumed + k
             /\ frame_queue[k].frame_id = input[Consumed + k]
  BY DEF Provenance, Consumed
<1>4. Consumed \in Nat /\ Consumed' = Consumed + 1 /\ Consumed + 1 <= Len(input)
  BY <1>1, <1>2, <1>3
<1>5. ASSUME NEW k \in 1 .. Len(frame_queue')
      PROVE  /\ frame_queue'[k].scan = Consumed' + k
             /\ frame_queue'[k].frame_id = input[Consumed' + k]
  <2>1. k + 1 \in 1 .. Len(frame_queue) /\ k \in Nat
    BY <1>2
  <2>2. Consumed + (k + 1) = Consumed' + k
    BY <1>4, <2>1
  <2>3. frame_queue'[k] = frame_queue[k + 1]
    BY <1>2
  <2>. QED  BY <1>3, <2>1, <2>2, <2>3
<1>. QED  BY <1>1, <1>2, <1>3, <1>4, <1>5

\* A new frame in frame_queue, behind those that are there.
LEMMA NewFrame ==
  ASSUME TypeInv, Provenance, NEW f \in FrameIds, PushRadarFrame(f)
  PROVE  /\ Consumed \in Nat
         /\ Consumed' = Consumed
         /\ Len(input') = Len(input) + 1
         /\ Len(input) \in Nat
         /\ \A s \in 1 .. Len(input) : input'[s] = input[s]
         /\ Consumed <= Len(input)
         /\ Len(frame_queue') <= Len(input')
         /\ \A k \in 1 .. Len(frame_queue') :
                /\ frame_queue'[k].scan = Consumed' + k
                /\ frame_queue'[k].frame_id = input'[Consumed' + k]
<1> DEFINE frame == [frame_id |-> f, scan |-> Len(input) + 1]
<1>1. /\ input \in Seq(FrameIds)
      /\ frame_queue \in Seq(RadarFrame)
      /\ Len(input) \in Nat
      /\ Len(frame_queue) \in Nat
  BY DEF TypeInv, TypeOK
<1>2. /\ input' = Append(input, f)
      /\ frame_queue' = Append(frame_queue, frame)
      /\ frame.scan = Len(input) + 1
      /\ frame.frame_id = f
  BY DEF PushRadarFrame
<1> HIDE DEF frame
<1>3. /\ Len(input') = Len(input) + 1
      /\ input'[Len(input) + 1] = f
      /\ \A s \in 1 .. Len(input) : input'[s] = input[s]
      /\ Len(frame_queue') = Len(frame_queue) + 1
      /\ frame_queue'[Len(frame_queue) + 1] = frame
      /\ \A k \in 1 .. Len(frame_queue) : frame_queue'[k] = frame_queue[k]
  BY <1>1, <1>2
<1>4. /\ Consumed = Len(input) - Len(frame_queue)
      /\ Consumed' = Len(input') - Len(frame_queue')
      /\ Len(frame_queue) <= Len(input)
      /\ \A k \in 1 .. Len(frame_queue) :
             /\ frame_queue[k].scan = Consumed + k
             /\ frame_queue[k].frame_id = input[Consumed + k]
  BY DEF Provenance, Consumed
<1>5. /\ Consumed \in Nat
      /\ Consumed' = Consumed
      /\ Consumed <= Len(input)
      /\ Consumed + (Len(frame_queue) + 1) = Len(input) + 1
  BY <1>1, <1>3, <1>4
<1>6. ASSUME NEW k \in 1 .. Len(frame_queue')
      PROVE  /\ frame_queue'[k].scan = Consumed' + k
             /\ frame_queue'[k].frame_id = input'[Consumed' + k]
  <2>1. CASE k \in 1 .. Len(frame_queue)
    <3>1. Consumed + k \in 1 .. Len(input)
      BY <1>1, <1>4, <1>5, <2>1
    <3>. QED  BY <1>3, <1>4, <1>5, <2>1, <3>1, SMTT(30)
  <2>2. CASE k = Len(frame_queue) + 1
    BY <1>2, <1>3, <1>5, <2>2
  <2>. QED  BY <1>1, <1>3, <2>1, <2>2
<1>. QED  BY <1>1, <1>3, <1>4, <1>5, <1>6

\* A genuine product may join the genuine ones of a queue.
LEMMA AppendGenuine ==
  ASSUME NEW products \in Seq(Product), NEW product \in Product,
         AllGenuine(products), Genuine(product)
  PROVE  AllGenuine(Append(products, product))
<1>1. /\ Len(Append(products, product)) = Len(products) + 1
      /\ \A k \in 1 .. Len(products) : Append(products, product)[k] = products[k]
      /\ Append(products, product)[Len(products) + 1] = product
      /\ Len(products) \in Nat
  OBVIOUS
<1>2. ASSUME NEW k \in 1 .. Len(Append(products, product))
      PROVE  Genuine(Append(products, product)[k])
  <2>1. CASE k \in 1 .. Len(products)
    BY <1>1, <2>1 DEF AllGenuine
  <2>2. CASE k = Len(products) + 1
    BY <1>1, <2>2
  <2>. QED  BY <1>1, <2>1, <2>2
<1>. QED  BY <1>2 DEF AllGenuine

\* What is genuine stays so when a frame comes in.
LEMMA StillGenuine ==
  ASSUME \A s \in 1 .. Len(input) : s \in 1 .. Len(input') /\ input'[s] = input[s],
         AllGenuine(target_wire'), AllGenuine(target_queue'), AllGenuine(maps')
  PROVE  ProductsAreGenuine'
<1>1. ASSUME NEW product, Genuine(product)
      PROVE  \E s \in 1 .. Len(input') :
                 product.from = {s} /\ product.frame_id = input'[s]
  <2>1. PICK s \in 1 .. Len(input) :
            product.from = {s} /\ product.frame_id = input[s]
    BY <1>1 DEF Genuine
  <2>. QED  BY <2>1
<1>2. /\ \A k \in 1 .. Len(target_wire') : Genuine(target_wire'[k])
      /\ \A k \in 1 .. Len(target_queue') : Genuine(target_queue'[k])
      /\ \A k \in 1 .. Len(maps') : Genuine(maps'[k])
  BY DEF AllGenuine
<1>3. \A k \in 1 .. Len(target_wire') : Genuine(target_wire[k])'
  BY <1>1, <1>2 DEF Genuine
<1>4. \A k \in 1 .. Len(target_queue') : Genuine(target_queue[k])'
  BY <1>1, <1>2 DEF Genuine
<1>5. \A k \in 1 .. Len(maps') : Genuine(maps[k])'
  BY <1>1, <1>2 DEF Genuine
<1>. QED  BY <1>3, <1>4, <1>5 DEF ProductsAreGenuine

LEMMA ProvenanceStep ==
  TypeInv /\ Provenance /\ [Next]_vars => Provenance'
<1> SUFFICES ASSUME TypeInv, Provenance, [Next]_vars PROVE Provenance'
  OBVIOUS
<1>a. /\ target_queue \in Seq(Product)
      /\ target_wire \in Seq(Product)
      /\ maps \in Seq(Product)
      /\ AllGenuine(target_queue)
      /\ AllGenuine(target_wire)
      /\ AllGenuine(maps)
  BY DEF TypeInv, TypeOK, Provenance, ProductsAreGenuine, AllGenuine
<1>1. ASSUME NEW f \in FrameIds, PushRadarFrame(f) PROVE Provenance'
  <2>1. UNCHANGED <<stage, current, points, rdm, maps, target_queue, target_wire>>
    BY <1>1 DEF PushRadarFrame, processorVars, targetVars
  <2>2. \A s \in 1 .. Len(input) : s \in 1 .. Len(input') /\ input'[s] = input[s]
    BY <1>1, NewFrame
  <2>3. ProductsAreGenuine'
    BY <1>a, <2>1, <2>2, StillGenuine
  <2>4. stage' = "detected" =>
            /\ current'.scan \in 1 .. Consumed'
            /\ current'.frame_id = input'[current'.scan]
            /\ points' = current'.scan
            /\ rdm' = current'.scan
    <3>1. 1 .. Consumed \subseteq 1 .. Len(input) /\ Consumed' = Consumed
      BY <1>1, NewFrame
    <3>. QED  BY <2>1, <2>2, <3>1 DEF Provenance
  <2>. QED  BY <1>1, <2>3, <2>4, NewFrame DEF Provenance
<1>2. ASSUME UNCHANGED <<input, frame_queue, current, points, rdm, maps>>,
             stage' = stage \/ stage' # "detected",
             ProductsAreGenuine'
      PROVE  Provenance'
  <2>1. Consumed' = Consumed
    BY <1>2 DEF Consumed
  <2>. QED  BY <1>2, <2>1 DEF Provenance
<1>3. ASSUME UNCHANGED <<input, maps, target_queue, target_wire>>
      PROVE  ProductsAreGenuine'
  BY <1>3, <1>a, StillGenuine
<1>4. CASE InitProcessor \/ InitFails
  BY <1>2, <1>3, <1>4 DEF InitProcessor, InitFails, inputVars, targetVars
<1>5. CASE Drop
  <2>1. UNCHANGED <<input, stage, current, points, rdm, maps, target_queue,
                    target_wire>>
    BY <1>5 DEF Drop, processorVars, targetVars
  <2>2. stage = "ready"
    BY <1>5 DEF Drop
  <2>. QED
    BY <1>3, <1>5, <2>1, <2>2, TakeFrame DEF Drop, Provenance
<1>6. CASE Detect
  <2> DEFINE map == [frame_id |-> current'.frame_id, from |-> {power'}]
  <2>1. /\ UNCHANGED <<input, target_queue, target_wire>>
        /\ frame_queue # <<>>
        /\ frame_queue' = Tail(frame_queue)
        /\ current' = Head(frame_queue)
        /\ rdm' = current'.scan
        /\ points' = current'.scan
        /\ power' = current'.scan
        /\ maps' = Append(maps, map)
    BY <1>6 DEF Detect, targetVars
  <2>2. /\ current'.scan = Consumed + 1
        /\ Consumed' = Consumed + 1
        /\ current'.scan \in 1 .. Len(input)
        /\ current'.frame_id = input[current'.scan]
        /\ Consumed \in Nat
    BY <2>1, TakeFrame
  <2>3. map \in Product
    <3>1. current' \in RadarFrame
      BY <2>1 DEF TypeInv, TypeOK
    <3>. QED  BY <2>1, <3>1 DEF RadarFrame, Product
  <2>4. Genuine(map)
    BY <2>1, <2>2 DEF Genuine
  <2>5. maps' = Append(maps, map)
    BY <2>1
  <2> HIDE DEF map
  <2>6. AllGenuine(Append(maps, map))
    BY <1>a, <2>3, <2>4, AppendGenuine
  <2>7. ProductsAreGenuine'
    BY <1>a, <2>1, <2>5, <2>6, StillGenuine
  <2>. QED  BY <2>1, <2>2, <2>7, TakeFrame DEF Provenance
<1>7. CASE Locate
  <2> DEFINE report == [frame_id |-> current.frame_id, from |-> {points, rdm}]
  <2>1. /\ UNCHANGED <<input, frame_queue, current, points, rdm, maps, target_wire>>
        /\ target_queue' = Append(target_queue, report)
        /\ stage = "detected" /\ stage' = "ready"
    BY <1>7 DEF Locate, inputVars
  <2>2. /\ current.scan \in 1 .. Len(input)
        /\ current.frame_id = input[current.scan]
        /\ {points, rdm} = {current.scan}
    <3>1. 1 .. Consumed \subseteq 1 .. Len(input)
      BY DEF TypeInv, TypeOK, Provenance, Consumed
    <3>. QED  BY <2>1, <3>1 DEF Provenance
  <2>3. report \in Product
    <3>1. current.frame_id \in FrameIds /\ {points, rdm} \subseteq Scan
      BY <2>1 DEF TypeInv, TypeOK, RadarFrame
    <3>. QED  BY <3>1 DEF Product
  <2>4. Genuine(report)
    BY <2>2 DEF Genuine
  <2> HIDE DEF report
  <2>5. AllGenuine(Append(target_queue, report))
    BY <1>a, <2>3, <2>4, AppendGenuine
  <2>6. ProductsAreGenuine'
    BY <1>a, <2>1, <2>5, StillGenuine
  <2>. QED  BY <1>2, <2>1, <2>6
<1>8. CASE SendTarget \/ SendTargetFails
  <2>1. /\ UNCHANGED <<input, frame_queue, stage, current, points, rdm, maps>>
        /\ target_queue # <<>>
        /\ target_queue' = Tail(target_queue)
        /\ \/ target_wire' = target_wire
           \/ target_wire' = Append(target_wire, Head(target_queue))
    BY <1>8 DEF SendTarget, SendTargetFails, inputVars, processorVars
  <2>2. Head(target_queue) \in Product /\ Genuine(Head(target_queue))
    <3>1. Head(target_queue) = target_queue[1] /\ 1 \in 1 .. Len(target_queue)
      BY <1>a, <2>1
    <3>. QED  BY <1>a, <3>1 DEF AllGenuine
  <2>3. AllGenuine(Tail(target_queue))
    <3>1. \A k \in 1 .. Len(Tail(target_queue)) :
              /\ Tail(target_queue)[k] = target_queue[k + 1]
              /\ k + 1 \in 1 .. Len(target_queue)
      BY <1>a, <2>1
    <3>. QED  BY <1>a, <3>1 DEF AllGenuine
  <2>4. AllGenuine(Append(target_wire, Head(target_queue)))
    BY <1>a, <2>2, AppendGenuine
  <2>5. ProductsAreGenuine'
    BY <1>a, <2>1, <2>3, <2>4, StillGenuine
  <2>. QED  BY <1>2, <2>1, <2>5
<1>9. CASE TakeMap \/ SendMapPacket \/ SendMapFails
  BY <1>2, <1>3, <1>9
  DEF TakeMap, SendMapPacket, SendMapFails, inputVars, processorVars, targetVars
<1>10. CASE UNCHANGED vars
  BY <1>2, <1>3, <1>10 DEF vars, inputVars, processorVars, targetVars
<1>. QED
  BY <1>1, <1>4, <1>5, <1>6, <1>7, <1>8, <1>9, <1>10 DEF Next

(***************************************************************************)
(* Every power map and every list of targets is computed from one scan,    *)
(* the one its header names, although RadarProcessor's buffers are reused. *)
(***************************************************************************)
THEOREM GenuineProducts == Spec => []ProductsAreGenuine
<1>1. Provenance => ProductsAreGenuine
  BY DEF Provenance
<1>. QED
  BY <1>1, TypeInit, TypeStep, ProvenanceInit, ProvenanceStep, PTL DEF Spec

-----------------------------------------------------------------------------

(***************************************************************************)
(* The id that Accepts compares with, or will when process() returns, is   *)
(* that of a frame which came before and was processed.                    *)
(***************************************************************************)
HasMap(s) == \E k \in 1 .. Len(maps) : maps[k].from = {s}

NewestId == IF stage = "detected" THEN current.frame_id ELSE last_frame_id

\* OnlyStaleDropped for one scan.
Justified(s) ==
    \/ HasMap(s)
    \/ \E r \in 1 .. s - 1 : HasMap(r) /\ input[r] >= input[s]

Staleness ==
    /\ stage = "detected" => ~is_first_frame
    /\ ~is_first_frame =>
           \E r \in 1 .. Consumed : HasMap(r) /\ input[r] = NewestId
    /\ \A s \in 1 .. Consumed : Justified(s)

LEMMA StalenessInit == Init => Staleness
BY DEF Init, Staleness, Consumed

\* What is justified stays so when frames come in and maps are added.
LEMMA StillJustified ==
  ASSUME TypeInv, Provenance,
         \A s \in 1 .. Len(input) : input'[s] = input[s],
         maps' = maps \/ \E map \in Product : maps' = Append(maps, map),
         NEW s \in 1 .. Len(input)
  PROVE  /\ HasMap(s) => HasMap(s)'
         /\ Justified(s) => Justified(s)'
<1>1. ASSUME NEW r, HasMap(r) PROVE HasMap(r)'
  <2>1. PICK k \in 1 .. Len(maps) : maps[k].from = {r}
    BY <1>1 DEF HasMap
  <2>2. k \in 1 .. Len(maps') /\ maps'[k] = maps[k]
    <3>1. maps \in Seq(Product)
      BY DEF TypeInv, TypeOK
    <3>2. CASE maps' = maps
      BY <3>2
    <3>3. ASSUME NEW map \in Product, maps' = Append(maps, map)
          PROVE  k \in 1 .. Len(maps') /\ maps'[k] = maps[k]
      BY <3>1, <3>3
    <3>. QED  BY <3>2, <3>3
  <2>. QED  BY <2>1, <2>2 DEF HasMap
<1>2. ASSUME NEW r \in 1 .. s - 1, HasMap(r), input[r] >= input[s]
      PROVE  HasMap(r)' /\ input'[r] >= input'[s]
  <2>1. r \in 1 .. Len(input)
    BY DEF TypeInv, TypeOK
  <2>. QED  BY <1>1, <1>2, <2>1
<1>. QED  BY <1>1, <1>2 DEF Justified

LEMMA StalenessStep ==
  TypeInv /\ Provenance /\ Staleness /\ [Next]_vars => Staleness'
<1> SUFFICES ASSUME TypeInv, Provenance, Staleness, [Next]_vars
             PROVE  Staleness'
  OBVIOUS
<1>a. Consumed \in Nat /\ Consumed <= Len(input) /\ Len(input) \in Nat
  BY DEF TypeInv, TypeOK, Provenance, Consumed
<1>1. ASSUME UNCHANGED <<is_first_frame, maps, last_frame_id, current>>,
             stage' = stage \/ (stage # "detected" /\ stage' # "detected"),
             Consumed' = Consumed,
             \A s \in 1 .. Len(input) : input'[s] = input[s]
      PROVE  Staleness'
  <2>1. NewestId' = NewestId
    BY <1>1 DEF NewestId
  <2>2. \A s \in 1 .. Consumed : /\ HasMap(s) => HasMap(s)'
                                 /\ Justified(s) => Justified(s)'
    BY <1>1, <1>a, StillJustified
  <2>3. ~is_first_frame' =>
            \E r \in 1 .. Consumed' : HasMap(r)' /\ input'[r] = NewestId'
    <3>1. SUFFICES ASSUME ~is_first_frame
          PROVE  \E r \in 1 .. Consumed' : HasMap(r)' /\ input'[r] = NewestId'
      BY <1>1
    <3>2. PICK r \in 1 .. Consumed : HasMap(r) /\ input[r] = NewestId
      BY <3>1 DEF Staleness
    <3>3. HasMap(r)' /\ input'[r] = NewestId'
      BY <1>1, <1>a, <2>1, <2>2, <3>2
    <3>. QED  BY <1>1, <3>2, <3>3
  <2>4. \A s \in 1 .. Consumed' : Justified(s)'
    BY <1>1, <2>2 DEF Staleness
  <2>5. stage' = "detected" => ~is_first_frame'
    BY <1>1 DEF Staleness
  <2>. QED  BY <2>3, <2>4, <2>5 DEF Staleness
<1>2. ASSUME NEW f \in FrameIds, PushRadarFrame(f) PROVE Staleness'
  BY <1>1, <1>2, NewFrame DEF PushRadarFrame, processorVars
<1>3. CASE InitProcessor \/ InitFails
  BY <1>1, <1>3 DEF InitProcessor, InitFails, inputVars, Consumed
<1>4. CASE Drop
  <2>1. /\ UNCHANGED <<input, stage, is_first_frame, maps, last_frame_id, current>>
        /\ frame_queue # <<>>
        /\ frame_queue' = Tail(frame_queue)
        /\ stage = "ready"
        /\ ~is_first_frame
        /\ ~(Head(frame_queue).frame_id > last_frame_id)
    BY <1>4 DEF Drop, Accepts, processorVars
  <2>2. /\ Consumed' = Consumed + 1
        /\ Consumed + 1 \in 1 .. Len(input)
        /\ Head(frame_queue).frame_id = input[Consumed + 1]
    BY <2>1, TakeFrame
  <2>3. NewestId' = NewestId /\ NewestId = last_frame_id
    BY <2>1 DEF NewestId
  <2>4. PICK r \in 1 .. Consumed : HasMap(r) /\ input[r] = last_frame_id
    BY <2>1, <2>3 DEF Staleness
  <2>5. input[r] >= input[Consumed + 1]
    <3>1. last_frame_id \in Nat /\ Head(frame_queue).frame_id \in Nat
      <4>1. last_frame_id \in FrameIds \cup {0}
        BY DEF TypeInv, TypeOK
      <4>2. Head(frame_queue) \in RadarFrame
        BY <2>1 DEF TypeInv, TypeOK
      <4>3. FrameIds \subseteq Nat
        BY PipelineAssumption DEF PipelineAssumption
      <4>4. Head(frame_queue).frame_id \in FrameIds
        BY <4>2 DEF RadarFrame
      <4>5. last_frame_id \in Nat
        BY <4>1, <4>3
      <4>6. Head(frame_queue).frame_id \in Nat
        BY <4>3, <4>4, Zenon
      <4>. QED  BY <4>5, <4>6
    <3>. QED  BY <2>1, <2>2, <2>4, <3>1
  <2>6. Justified(Consumed + 1)
    <3>1. Consumed \in Nat /\ r \in 1 .. (Consumed + 1) - 1
      BY <1>a, <2>4
    <3>. QED  BY <2>4, <2>5, <3>1 DEF Justified
  <2>7. ASSUME NEW s \in 1 .. Consumed' PROVE Justified(s)'
    <3>1. s \in 1 .. Len(input) /\ (s \in 1 .. Consumed \/ s = Consumed + 1)
      BY <1>a, <2>2
    <3>2. Justified(s)
      BY <2>6, <3>1 DEF Staleness
    <3>. QED  BY <2>1, <3>1, <3>2, StillJustified
  <2>8. HasMap(r)' /\ input'[r] = NewestId' /\ r \in 1 .. Consumed'
    <3>1. r \in 1 .. Len(input) /\ r \in 1 .. Consumed'
      BY <1>a, <2>2
    <3>. QED  BY <2>1, <2>3, <2>4, <3>1, StillJustified
  <2>. QED  BY <2>1, <2>7, <2>8 DEF Staleness
<1>5. CASE Detect
  <2> DEFINE map == [frame_id |-> current'.frame_id, from |-> {power'}]
  <2>1. /\ input' = input
        /\ frame_queue # <<>>
        /\ frame_queue' = Tail(frame_queue)
        /\ current' = Head(frame_queue)
        /\ power' = current'.scan
        /\ maps' = Append(maps, map)
        /\ stage' = "detected"
        /\ is_first_frame' = FALSE
    BY <1>5 DEF Detect
  <2>2. /\ current'.scan = Consumed + 1
        /\ Consumed' = Consumed + 1
        /\ Consumed + 1 \in 1 .. Len(input)
        /\ current'.frame_id = input[Consumed + 1]
    BY <2>1, TakeFrame
  <2>3. map \in Product /\ map.from = {Consumed + 1}
    <3>1. current' \in RadarFrame
      BY <2>1 DEF TypeInv, TypeOK
    <3>. QED  BY <2>1, <2>2, <3>1 DEF RadarFrame, Product
  <2>4. maps' = Append(maps, map)
    BY <2>1
  <2> HIDE DEF map
  <2>5. PICK n \in Nat : n = Consumed + 1
    BY <1>a
  <2>6. HasMap(n)'
    <3>1. /\ Len(maps) + 1 \in 1 .. Len(maps')
          /\ maps'[Len(maps) + 1] = map
      BY <2>3, <2>4 DEF TypeInv, TypeOK
    <3>. QED  BY <2>3, <2>5, <3>1 DEF HasMap
  <2>7. Justified(n)'
    BY <2>6 DEF Justified
  <2>8. \A s \in 1 .. Consumed' : Justified(s)'
    <3>1. ASSUME NEW s \in 1 .. Consumed PROVE Justified(s)'
      <4>1. Justified(s) /\ s \in 1 .. Len(input)
        BY <1>a DEF Staleness
      <4>. QED  BY <2>1, <2>3, <2>4, <4>1, StillJustified
    <3>2. \A s \in 1 .. Consumed' : s \in 1 .. Consumed \/ s = n
      BY <1>a, <2>2, <2>5
    <3>. QED  BY <2>7, <3>1, <3>2
  <2>9. n \in 1 .. Consumed' /\ input'[n] = NewestId'
    BY <1>a, <2>1, <2>2, <2>5 DEF NewestId
  <2>. QED  BY <2>1, <2>6, <2>8, <2>9 DEF Staleness
<1>6. CASE Locate
  <2>1. UNCHANGED <<input, frame_queue, is_first_frame, maps, current>>
    BY <1>6 DEF Locate, inputVars
  <2>2. Consumed' = Consumed
    BY <2>1 DEF Consumed
  <2>3. NewestId' = NewestId /\ stage' = "ready"
    BY <1>6 DEF Locate, NewestId
  <2>4. \A s \in 1 .. Consumed : /\ HasMap(s) => HasMap(s)'
                                 /\ Justified(s) => Justified(s)'
    BY <1>a, <2>1, StillJustified
  <2>5. \A s \in 1 .. Consumed' : Justified(s)'
    BY <2>2, <2>4 DEF Staleness
  <2>6. PICK r \in 1 .. Consumed : HasMap(r) /\ input[r] = NewestId
    BY <1>6 DEF Locate, Staleness
  <2>7. HasMap(r)' /\ input'[r] = NewestId'
    BY <2>1, <2>3, <2>4, <2>6
  <2>. QED  BY <2>2, <2>3, <2>5, <2>7 DEF Staleness
<1>7. CASE SendTarget \/ SendTargetFails \/ TakeMap \/ SendMapPacket \/ SendMapFails
  BY <1>1, <1>7
  DEF SendTarget, SendTargetFails, TakeMap, SendMapPacket, SendMapFails,
      inputVars, processorVars, Consumed
<1>8. CASE UNCHANGED vars
  BY <1>1, <1>8 DEF vars, inputVars, processorVars, Consumed
<1>. QED
  BY <1>2, <1>3, <1>4, <1>5, <1>6, <1>7, <1>8 DEF Next

(***************************************************************************)
(* process() throws a frame away only for one that came before, was        *)
(* processed and has the same or a higher id.                              *)
(***************************************************************************)
THEOREM DropsAreStale == Spec => []OnlyStaleDropped
<1>1. Staleness /\ TypeInv /\ Provenance => OnlyStaleDropped
  <2> SUFFICES ASSUME Staleness, TypeInv, Provenance,
                      NEW s \in 1 .. Consumed, ~HasMap(s)
               PROVE  \E k \in 1 .. Len(maps) : \E r \in 1 .. s - 1 :
                          maps[k].from = {r} /\ input[r] >= input[s]
    BY DEF OnlyStaleDropped, Consumed, HasMap
  <2>1. PICK r \in 1 .. s - 1 : HasMap(r) /\ input[r] >= input[s]
    BY DEF Staleness, Justified
  <2>. QED  BY <2>1 DEF HasMap
<1>. QED
  BY <1>1, TypeInit, TypeStep, ProvenanceInit, ProvenanceStep, StalenessInit,
     StalenessStep, PTL DEF Spec

-----------------------------------------------------------------------------
(* Power maps leave intact *)

\* How many maps the sender has taken.
Taken == Len(maps) - Len(power_map_queue)

\* power_map_queue holds the latest maps, the map being sent is the last one
\* taken, and everything sent is the maps before it and its packets so far.
Sending ==
    /\ Len(power_map_queue) <= Len(maps)
    /\ \A k \in 1 .. Len(power_map_queue) : power_map_queue[k] = maps[Taken + k]
    /\ Taken = 0 => Len(map_wire) = 0 /\ map_packet = MapPackets
    /\ Taken > 0 => /\ map_frame = maps[Taken]
                    /\ Len(map_wire) = (Taken - 1) * MapPackets + map_packet
    /\ MapsLeaveIntact

LEMMA SendingInit == Init => Sending
<1> SUFFICES ASSUME Init PROVE Sending
  OBVIOUS
<1>1. Len(maps) = 0 /\ Len(power_map_queue) = 0 /\ Len(map_wire) = 0
  BY DEF Init
<1>2. map_packet = MapPackets
  BY DEF Init
<1>. QED  BY <1>1, <1>2 DEF Sending, Taken, MapsLeaveIntact

\* The packet after t whole maps and p packets.
LEMMA Position ==
  ASSUME NEW t \in Nat, NEW P \in Nat \ {0}, NEW p \in 0 .. P - 1
  PROVE  /\ t * P \in Nat
         /\ (t * P + p) % P = p
         /\ (t * P + p) \div P = t
<1>1. t * P \in Nat
  OBVIOUS
<1>. QED  BY <1>1

LEMMA OneMoreMap ==
  ASSUME NEW t \in Nat, NEW P \in Nat
  PROVE  (t + 1) * P = t * P + P
OBVIOUS

\* What was sent stays intact when maps are added.
LEMMA StillIntact ==
  ASSUME TypeInv, MapsLeaveIntact, map_wire' = map_wire,
         Len(maps') >= Len(maps), Len(maps') \in Nat,
         \A k \in 1 .. Len(maps) : maps'[k] = maps[k]
  PROVE  MapsLeaveIntact'
<1> SUFFICES ASSUME NEW n \in 1 .. Len(map_wire)
             PROVE  /\ map_wire[n].packet_id = (n - 1) % MapPackets
                    /\ (n - 1) \div MapPackets < Len(maps')
                    /\ map_wire[n].map = maps'[(n - 1) \div MapPackets + 1]
  BY DEF MapsLeaveIntact
<1>1. n - 1 \in Nat /\ Len(maps) \in Nat
  BY DEF TypeInv, TypeOK
<1>2. PICK t : t = (n - 1) \div MapPackets
  OBVIOUS
<1>3. t \in Nat
  BY <1>1, <1>2, PipelineAssumption DEF PipelineAssumption
<1>4. /\ map_wire[n].packet_id = (n - 1) % MapPackets
      /\ t < Len(maps)
      /\ map_wire[n].map = maps[t + 1]
  BY <1>2 DEF MapsLeaveIntact
<1>5. t + 1 \in 1 .. Len(maps)
  BY <1>1, <1>3, <1>4
<1>. QED  BY <1>1, <1>2, <1>3, <1>4, <1>5

LEMMA SendingStep == TypeInv /\ Sending /\ [Next]_vars => Sending'
<1> SUFFICES ASSUME TypeInv, Sending, [Next]_vars PROVE Sending'
  OBVIOUS
<1>a. /\ maps \in Seq(Product)
      /\ power_map_queue \in Seq(Product)
      /\ Len(maps) \in Nat
      /\ Len(power_map_queue) \in Nat
      /\ Len(map_wire) \in Nat
      /\ map_packet \in 0 .. MapPackets
      /\ map_wire \in Seq([map : Product, packet_id : 0 .. MapPackets - 1])
  BY DEF TypeInv, TypeOK
<1>b. MapPackets \in Nat \ {0}
  BY PipelineAssumption DEF PipelineAssumption
<1>c. /\ Len(power_map_queue) <= Len(maps)
      /\ \A k \in 1 .. Len(power_map_queue) : power_map_queue[k] = maps[Taken + k]
      /\ Taken = 0 => Len(map_wire) = 0 /\ map_packet = MapPackets
      /\ Taken > 0 => /\ map_frame = maps[Taken]
                      /\ Len(map_wire) = (Taken - 1) * MapPackets + map_packet
      /\ MapsLeaveIntact
  BY DEF Sending
<1>d. Taken \in Nat
  BY <1>a, <1>c DEF Taken
<1>1. ASSUME UNCHANGED <<maps, mapVars>> PROVE Sending'
  BY <1>1, <1>c DEF mapVars, Sending, Taken, MapsLeaveIntact
<1>2. CASE \E f \in FrameIds : PushRadarFrame(f)
  BY <1>1, <1>2 DEF PushRadarFrame, processorVars
<1>3. CASE InitProcessor \/ InitFails \/ Locate
  BY <1>1, <1>3 DEF InitProcessor, InitFails, Locate
<1>4. CASE Drop
  BY <1>1, <1>4 DEF Drop, processorVars
<1>5. CASE SendTarget \/ SendTargetFails
  BY <1>1, <1>5 DEF SendTarget, SendTargetFails, processorVars
<1>6. CASE Detect
  <2>1. PICK map : maps' = Append(maps, map)
                   /\ power_map_queue' = Append(power_map_queue, map)
    BY <1>6 DEF Detect
  <2>2. UNCHANGED <<map_frame, map_packet, map_wire>>
    BY <1>6 DEF Detect
  <2>3. /\ Len(maps') = Len(maps) + 1
        /\ Len(power_map_queue') = Len(power_map_queue) + 1
        /\ \A k \in 1 .. Len(maps) : maps'[k] = maps[k]
        /\ maps'[Len(maps) + 1] = map
        /\ \A k \in 1 .. Len(power_map_queue) : power_map_queue'[k] = power_map_queue[k]
        /\ power_map_queue'[Len(power_map_queue) + 1] = map
    BY <1>a, <2>1
  <2>4. Taken' = Taken
    BY <1>a, <2>3 DEF Taken
  <2>5. \A k \in 1 .. Len(power_map_queue') : power_map_queue'[k] = maps'[Taken' + k]
    <3> SUFFICES ASSUME NEW k \in 1 .. Len(power_map_queue')
                 PROVE  power_map_queue'[k] = maps'[Taken + k]
      BY <2>4
    <3>1. CASE k \in 1 .. Len(power_map_queue)
      <4>1. Taken + k \in 1 .. Len(maps)
        BY <1>a, <1>d, <3>1 DEF Taken
      <4>. QED  BY <1>c, <2>3, <3>1, <4>1
    <3>2. CASE k = Len(power_map_queue) + 1
      <4>1. Taken + k = Len(maps) + 1
        BY <1>a, <3>2 DEF Taken
      <4>. QED  BY <2>3, <3>2, <4>1
    <3>. QED  BY <1>a, <2>3, <3>1, <3>2
  <2>6. MapsLeaveIntact'
    BY <1>a, <1>c, <2>2, <2>3, StillIntact
  <2>7. Taken > 0 => maps'[Taken] = maps[Taken]
    <3>1. Taken > 0 => Taken \in 1 .. Len(maps)
      BY <1>a, <1>d DEF Taken
    <3>. QED  BY <2>3, <3>1
  <2>8. Len(power_map_queue') <= Len(maps')
    BY <1>a, <1>c, <2>3
  <2>. QED  BY <1>c, <2>2, <2>4, <2>5, <2>6, <2>7, <2>8 DEF Sending
<1>7. CASE TakeMap
  <2>1. /\ power_map_queue # <<>>
        /\ power_map_queue' = Tail(power_map_queue)
        /\ map_frame' = Head(power_map_queue)
        /\ map_packet = MapPackets /\ map_packet' = 0
        /\ UNCHANGED <<maps, map_wire>>
    BY <1>7 DEF TakeMap, processorVars
  <2>2. /\ Len(power_map_queue') = Len(power_map_queue) - 1
        /\ Len(power_map_queue) > 0
        /\ \A k \in 1 .. Len(power_map_queue') : power_map_queue'[k] = power_map_queue[k + 1]
        /\ map_frame' = power_map_queue[1]
    BY <1>a, <2>1
  <2>3. Taken' = Taken + 1
    BY <1>a, <2>1, <2>2 DEF Taken
  <2>4. \A k \in 1 .. Len(power_map_queue') : power_map_queue'[k] = maps'[Taken' + k]
    <3> SUFFICES ASSUME NEW k \in 1 .. Len(power_map_queue')
                 PROVE  power_map_queue'[k] = maps[Taken + 1 + k]
      BY <2>1, <2>3
    <3>1. k + 1 \in 1 .. Len(power_map_queue) /\ Taken + (k + 1) = Taken + 1 + k
      BY <1>a, <1>d, <2>2
    <3>. QED  BY <1>c, <2>2, <3>1
  <2>5. map_frame' = maps'[Taken']
    <3>1. 1 \in 1 .. Len(power_map_queue)
      BY <1>a, <2>2
    <3>. QED  BY <1>c, <2>1, <2>2, <2>3, <3>1
  <2>6. Len(map_wire') = (Taken' - 1) * MapPackets + map_packet'
    <3>1. Taken' - 1 = Taken
      BY <1>d, <2>3
    <3>2. Len(map_wire) = Taken * MapPackets
      <4>1. CASE Taken = 0
        BY <1>b, <1>c, <4>1
      <4>2. CASE Taken > 0
        <5>1. PICK t \in Nat : Taken = t + 1
          <6>1. Taken - 1 \in Nat /\ Taken = (Taken - 1) + 1
            BY <1>d, <4>2
          <6>. QED  BY <6>1
        <5>2. t = Taken - 1
          BY <1>d, <5>1
        <5>3. Len(map_wire) = t * MapPackets + MapPackets
          BY <1>c, <2>1, <4>2, <5>2
        <5>. QED  BY <1>b, <5>1, <5>3, OneMoreMap
      <4>. QED  BY <1>d, <4>1, <4>2
    <3>3. Taken * MapPackets \in Nat
      BY <1>b, <1>d
    <3>. QED  BY <2>1, <3>1, <3>2, <3>3
  <2>7. MapsLeaveIntact'
    BY <1>c, <2>1 DEF MapsLeaveIntact
  <2>8. Len(power_map_queue') <= Len(maps') /\ Taken' > 0
    BY <1>a, <1>c, <1>d, <2>1, <2>2, <2>3
  <2>. QED  BY <2>4, <2>5, <2>6, <2>7, <2>8 DEF Sending
<1>8. CASE SendMapPacket
  <2>1. /\ map_packet < MapPackets
        /\ map_wire' = Append(map_wire, [map |-> map_frame, packet_id |-> map_packet])
        /\ map_packet' = map_packet + 1
        /\ UNCHANGED <<maps, power_map_queue, map_frame>>
    BY <1>8 DEF SendMapPacket, processorVars
  <2>2. Taken > 0
    BY <1>a, <1>b, <1>c, <1>d, <2>1
  <2>3. Taken' = Taken
    BY <2>1 DEF Taken
  <2>4. PICK t \in Nat : t = Taken - 1
    BY <1>d, <2>2
  <2>5. PICK n : n = Len(map_wire) + 1
    OBVIOUS
  <2>6. /\ Len(map_wire') = n
        /\ \A k \in 1 .. Len(map_wire) : map_wire'[k] = map_wire[k]
        /\ map_wire'[n] = [map |-> map_frame, packet_id |-> map_packet]
    BY <1>a, <2>1, <2>5
  <2>7. map_packet \in 0 .. MapPackets - 1
    BY <1>a, <1>b, <2>1
  <2>s. PICK p \in 0 .. MapPackets - 1 : p = map_packet
    BY <2>7
  <2>w. PICK w \in Nat : w = t * MapPackets
    BY <1>b, Position
  <2>8. n = w + p + 1 /\ n - 1 = w + p
    <3>1. Len(map_wire) = w + p
      BY <1>c, <2>2, <2>4, <2>s, <2>w
    <3>. QED  BY <2>5, <3>1
  <2>9. (n - 1) % MapPackets = map_packet /\ (n - 1) \div MapPackets = t
    BY <1>b, <2>8, <2>s, <2>w, Position
  <2>10. t < Len(maps) /\ maps[t + 1] = map_frame
    BY <1>a, <1>c, <1>d, <2>2, <2>4 DEF Taken
  <2>11. MapsLeaveIntact'
    <3> SUFFICES ASSUME NEW k \in 1 .. n
                 PROVE  /\ map_wire'[k].packet_id = (k - 1) % MapPackets
                        /\ (k - 1) \div MapPackets < Len(maps)
                        /\ map_wire'[k].map = maps[(k - 1) \div MapPackets + 1]
      BY <2>1, <2>6 DEF MapsLeaveIntact
    <3>1. CASE k \in 1 .. Len(map_wire)
      BY <1>c, <2>6, <3>1 DEF MapsLeaveIntact
    <3>2. CASE k = n
      BY <2>6, <2>9, <2>10, <3>2
    <3>. QED  BY <1>a, <2>5, <3>1, <3>2
  <2>12. Len(map_wire') = (Taken' - 1) * MapPackets + map_packet'
    <3>1. Len(map_wire') = w + map_packet'
      BY <2>1, <2>6, <2>8, <2>s
    <3>. QED  BY <2>3, <2>4, <2>w, <3>1
  <2>. QED  BY <1>c, <2>1, <2>2, <2>3, <2>11, <2>12 DEF Sending
<1>9. CASE SendMapFails
  BY <1>9, <1>c DEF SendMapFails, processorVars, Sending, Taken, MapsLeaveIntact
<1>10. CASE UNCHANGED vars
  BY <1>1, <1>10 DEF vars, processorVars
<1>. QED
  BY <1>2, <1>3, <1>4, <1>5, <1>6, <1>7, <1>8, <1>9, <1>10 DEF Next

(***************************************************************************)
(* However many packets a map has and whenever the processor computes the  *)
(* next one, the packets of each map leave in order, complete up to the    *)
(* last map, and show the map that was pushed.                             *)
(***************************************************************************)
THEOREM MapsIntact == Spec => []MapsLeaveIntact
<1>1. Sending => MapsLeaveIntact
  BY DEF Sending
<1>. QED
  BY <1>1, TypeInit, TypeStep, SendingInit, SendingStep, PTL DEF Spec

-----------------------------------------------------------------------------
(* What is safe of NewestIsReported                                        *)

\* One of the reports is of scan s.
Reported(reports, s) == \E k \in 1 .. Len(reports) : reports[k].from = {s}

\* A scan that was processed is in process() still, or its report is queued or
\* sent, or the target sender's thread has taken it into its end.
Tracked(s) ==
    \/ stage = "detected" /\ current.scan = s
    \/ Reported(target_queue, s)
    \/ Reported(target_wire, s)
    \/ target_sender = "dead"

Tracking == \A s \in Scan : HasMap(s) => Tracked(s)

LEMMA ReportedMoves ==
  ASSUME NEW reports \in Seq(Product), NEW s
  PROVE  /\ \A x \in Product : Reported(Append(reports, x), s)
                <=> Reported(reports, s) \/ x.from = {s}
         /\ reports # <<>> =>
                (Reported(reports, s) <=>
                     Reported(Tail(reports), s) \/ Head(reports).from = {s})
<1>1. ASSUME NEW x \in Product
      PROVE  Reported(Append(reports, x), s) <=> Reported(reports, s) \/ x.from = {s}
  <2>1. /\ Len(reports) \in Nat
        /\ Len(Append(reports, x)) = Len(reports) + 1
        /\ \A k \in 1 .. Len(reports) : Append(reports, x)[k] = reports[k]
        /\ Append(reports, x)[Len(reports) + 1] = x
    OBVIOUS
  <2>2. \A k : k \in 1 .. Len(reports) + 1 <=> k \in 1 .. Len(reports) \/ k = Len(reports) + 1
    BY <2>1
  <2>. QED  BY <2>1, <2>2 DEF Reported
<1>2. ASSUME reports # <<>>
      PROVE  Reported(reports, s) <=>
                 Reported(Tail(reports), s) \/ Head(reports).from = {s}
  <2>1. /\ Len(reports) \in Nat /\ Len(reports) > 0
        /\ Head(reports) = reports[1]
        /\ Len(Tail(reports)) = Len(reports) - 1
        /\ \A k \in 1 .. Len(Tail(reports)) : Tail(reports)[k] = reports[k + 1]
    BY <1>2
  <2>2. ASSUME Reported(reports, s), ~(Head(reports).from = {s})
        PROVE  Reported(Tail(reports), s)
    <3>1. PICK k \in 1 .. Len(reports) : reports[k].from = {s}
      BY <2>2 DEF Reported
    <3>2. k # 1
      BY <2>1, <2>2, <3>1
    <3>3. k - 1 \in 1 .. Len(Tail(reports)) /\ Tail(reports)[k - 1] = reports[k]
      BY <2>1, <3>2
    <3>. QED  BY <3>1, <3>3 DEF Reported
  <2>3. Reported(Tail(reports), s) => Reported(reports, s)
    <3>1. \A k \in 1 .. Len(Tail(reports)) : k + 1 \in 1 .. Len(reports)
      BY <2>1
    <3>. QED  BY <2>1, <3>1 DEF Reported
  <2>4. Head(reports).from = {s} => Reported(reports, s)
    <3>1. 1 \in 1 .. Len(reports)
      BY <2>1
    <3>. QED  BY <2>1, <3>1 DEF Reported
  <2>. QED  BY <2>2, <2>3, <2>4
<1>. QED  BY <1>1, <1>2

LEMMA TrackingStep ==
  TypeInv /\ Provenance /\ Tracking /\ [Next]_vars => Tracking'
<1> SUFFICES ASSUME TypeInv, Provenance, Tracking, [Next]_vars, NEW s \in Scan, HasMap(s)'
             PROVE  Tracked(s)'
  BY DEF Tracking
<1>a. maps \in Seq(Product) /\ target_queue \in Seq(Product) /\ target_wire \in Seq(Product)
  BY DEF TypeInv, TypeOK
<1>b. HasMap(s)' <=> Reported(maps', s)
  BY DEF HasMap, Reported
<1>c. Reported(maps, s) => Tracked(s)
  BY DEF Tracking, HasMap, Reported
<1>1. ASSUME UNCHANGED <<maps, current, targetVars>>,
             stage' = stage \/ (stage # "detected" /\ stage' # "detected")
      PROVE  Tracked(s)'
  BY <1>b, <1>c, <1>1 DEF Tracked, targetVars
<1>2. CASE \E f \in FrameIds : PushRadarFrame(f)
  BY <1>1, <1>2 DEF PushRadarFrame, processorVars
<1>3. CASE InitProcessor \/ InitFails \/ Drop
  BY <1>1, <1>3 DEF InitProcessor, InitFails, Drop, processorVars
<1>4. CASE Detect
  <2>1. PICK map : map = [frame_id |-> current'.frame_id, from |-> {power'}]
    OBVIOUS
  <2>2. /\ stage # "detected" /\ stage' = "detected"
        /\ maps' = Append(maps, map)
        /\ current' = Head(frame_queue) /\ frame_queue # <<>>
        /\ power' = current'.scan
        /\ UNCHANGED targetVars
    BY <1>4, <2>1 DEF Detect
  <2>3. current' \in RadarFrame
    BY <2>2 DEF TypeInv, TypeOK
  <2>4. map \in Product /\ map.from = {current'.scan}
    BY <2>1, <2>2, <2>3 DEF RadarFrame, Product
  <2>5. Reported(maps, s) \/ map.from = {s}
    BY <1>a, <1>b, <2>2, <2>4, ReportedMoves
  <2>6. CASE Reported(maps, s)
    BY <1>c, <2>2, <2>6 DEF Tracked, targetVars
  <2>7. CASE map.from = {s}
    BY <2>2, <2>4, <2>7 DEF Tracked
  <2>. QED  BY <2>5, <2>6, <2>7
<1>5. CASE Locate
  <2>1. PICK report : report = [frame_id |-> current.frame_id, from |-> {points, rdm}]
    OBVIOUS
  <2>2. /\ stage = "detected" /\ stage' = "ready"
        /\ target_queue' = Append(target_queue, report)
        /\ UNCHANGED <<maps, target_sender, target_wire>>
    BY <1>5, <2>1 DEF Locate
  <2>3. report \in Product
    <3>1. current.frame_id \in FrameIds /\ {points, rdm} \subseteq Scan
      BY <2>2 DEF TypeInv, TypeOK, RadarFrame
    <3>. QED  BY <2>1, <3>1 DEF Product
  <2>4. report.from = {current.scan}
    BY <2>1, <2>2 DEF Provenance
  <2>5. Reported(target_queue', s) <=> Reported(target_queue, s) \/ current.scan = s
    BY <1>a, <2>2, <2>3, <2>4, ReportedMoves
  <2>. QED  BY <1>b, <1>c, <2>2, <2>5 DEF Tracked
<1>6. CASE SendTarget
  <2>1. /\ target_queue # <<>>
        /\ target_queue' = Tail(target_queue)
        /\ target_wire' = Append(target_wire, Head(target_queue))
        /\ UNCHANGED <<stage, current, maps, target_sender>>
    BY <1>6 DEF SendTarget, processorVars
  <2>2. Head(target_queue) \in Product
    BY <1>a, <2>1
  <2>3. Reported(target_queue, s) => Reported(target_queue', s) \/ Reported(target_wire', s)
    BY <1>a, <2>1, <2>2, ReportedMoves
  <2>4. Reported(target_wire, s) => Reported(target_wire', s)
    BY <1>a, <2>1, <2>2, ReportedMoves
  <2>. QED  BY <1>b, <1>c, <2>1, <2>3, <2>4 DEF Tracked
<1>7. CASE SendTargetFails
  BY <1>7 DEF SendTargetFails, Tracked
<1>8. CASE TakeMap \/ SendMapPacket \/ SendMapFails \/ UNCHANGED vars
  BY <1>1, <1>8 DEF TakeMap, SendMapPacket, SendMapFails, processorVars, vars
<1>. QED
  BY <1>2, <1>3, <1>4, <1>5, <1>6, <1>7, <1>8 DEF Next

\* A scan newer than all before it waits in frame_queue, or is tracked.
NewestIsKept ==
    \A s \in 1 .. Len(input) :
        (\A r \in 1 .. s - 1 : input[r] < input[s]) =>
            \/ \E k \in 1 .. Len(frame_queue) : frame_queue[k].scan = s
            \/ Tracked(s)

(***************************************************************************)
(* At no moment is a frame newer than all before it lost between the       *)
(* reassembler and the PC: it waits for the processor, is in process(), or *)
(* its report is queued or sent, unless the target sender's thread ended.  *)
(***************************************************************************)
THEOREM NewestIsNeverLost == Spec => []NewestIsKept
<1>1. Init => Tracking
  BY DEF Init, Tracking, HasMap
<1>2. TypeInv /\ Provenance /\ Staleness /\ Tracking => NewestIsKept
  <2> SUFFICES ASSUME TypeInv, Provenance, Staleness, Tracking,
                      NEW s \in 1 .. Len(input),
                      \A r \in 1 .. s - 1 : input[r] < input[s]
               PROVE  \/ \E k \in 1 .. Len(frame_queue) : frame_queue[k].scan = s
                      \/ Tracked(s)
    BY DEF NewestIsKept
  <2>1. /\ input \in Seq(FrameIds) /\ Len(input) \in Nat /\ Len(frame_queue) \in Nat
        /\ Len(frame_queue) <= Len(input)
        /\ Consumed = Len(input) - Len(frame_queue)
    BY DEF TypeInv, TypeOK, Provenance, Consumed
  <2>2. CASE s \in 1 .. Consumed
    <3>1. Justified(s)
      BY <2>2 DEF Staleness
    <3>2. ASSUME NEW r \in 1 .. s - 1 PROVE ~(input[r] >= input[s])
      <4>1. r \in 1 .. Len(input)
        BY <2>1
      <4>2. input[r] \in FrameIds /\ input[s] \in FrameIds
        BY <2>1, <4>1
      <4>3. FrameIds \subseteq Nat
        BY PipelineAssumption DEF PipelineAssumption
      <4>4. input[r] < input[s]
        OBVIOUS
      <4>5. \A x, y \in FrameIds : x < y => ~(x >= y)
        BY <4>3
      <4>. QED  BY <4>2, <4>4, <4>5
    <3>3. HasMap(s)
      BY <3>1, <3>2 DEF Justified
    <3>. QED  BY <2>1, <3>3 DEF Tracking, Scan
  <2>3. CASE s \notin 1 .. Consumed
    <3>1. s - Consumed \in 1 .. Len(frame_queue)
      BY <2>1, <2>3
    <3>2. frame_queue[s - Consumed].scan = Consumed + (s - Consumed)
      BY <3>1 DEF Provenance
    <3>3. Consumed + (s - Consumed) = s
      BY <2>1
    <3>. QED  BY <3>1, <3>2, <3>3
  <2>. QED  BY <2>2, <2>3
<1>. QED
  BY <1>1, <1>2, TypeInit, TypeStep, ProvenanceInit, ProvenanceStep, StalenessInit,
     StalenessStep, TrackingStep, PTL DEF Spec
=============================================================================

# A verification development of the FMCW radar / ACC HILS pipeline

These TLA+ modules model the Raspberry Pi radar software (`src/rpi`) and the
PC side that feeds it (`src/simulink_hils`). They are translated from the
source; the repository's README and comments only supply claims to check the
source against.

- [The system](#the-system)
- [Modules](#modules)
- [Runs](#runs)
- [Proofs](#proofs)
- [Findings](#findings)
- [What is not modelled](#what-is-not-modelled)
- [Open ends](#open-ends)

## The system

```
 PC (Simulink, one thread)                Raspberry Pi (one thread per box)

 RadarIQGenerator                         PacketReceiver
   | rawIQ                                  | packet_queue
 RadarPacketizer    110 UDP datagrams     RadarReassembler
   | packets       ------------------>      | frame_queue
 RadarUdpSender      port 5000            RadarProcessor
                                            | target_queue    | power_map_queue
 decodeLeadTargetFrame <--- 1 datagram --- TargetSender       |
 power map view        <-- 28 datagrams ------------------- PowerMapSender
   |
 ACCControllerVector
```

Every arrow inside the Raspberry Pi is a `ThreadSafeQueue<T>`; `main` creates
the queues, the sockets and the five worker objects, starts the threads and
sleeps in `pause()`.

### Inventory

| component | state | operations | interacts by | what is hard |
|---|---|---|---|---|
| `ThreadSafeQueue<T>` | `queue_`, `mutex_`, `cond_`, `closed_` | `push`, `pop`, `close` | shared by two worker threads and by whoever stops them | wakeups, close while threads sleep, items left at close |
| `RadarPacketizer`, `RadarUdpSender` | `frameId_`, `udp_` | `stepImpl` | a Simulink step writes 110 datagrams | restart begins again at id 0; the peer is not told |
| `PacketReceiver` | `running_`, `thread_id_`, socket | `start`, `run`, `stop`, destructor | `recvfrom` with a 100 ms timeout, pushes to `packet_queue` | loss, reordering, short datagrams, a socket error ends the thread |
| `RadarReassembler` | `frames_` (frame id -> payloads, `recv_counts`), `running_` | `run`, `ConvertToComplex`, `start`, `stop` | pops `packet_queue`, pushes `frame_queue` | interleaved frames, duplicates, holes, buffers that never complete, stop without close |
| `RadarProcessor` | FFT plans and buffers, `rdm_`, `power_`, `detections_`, `detected_points_`, `peaks_`, `angles_`, `last_frame_id_`, `is_first_frame_` | `init`, `process`, `start`, `run`, `stop` | pops `frame_queue`, pushes `power_map_queue` and `target_queue` | frames out of order, buffers that outlive the frame, parallel CFAR loop |
| `DBSCAN` | `labels`, `clusters` | `scan` | called by `process` | a neighbour list that grows while it is walked, noise that becomes border |
| `TargetSender` | socket, `running_` | `find_LeadTarget`, `run`, `start`, `stop` | pops `target_queue`, one datagram per frame | a failed send ends the thread; targets without an angle, ties, an empty lane |
| `PowerMapSender` | socket, `running_` | `run`, `start`, `stop` | pops `power_map_queue`, 28 datagrams per map | sends while the next map is computed; a failed send in the middle of a map |
| `UDPSocket` | `socket_fd_` | move, `bind`, `receive`, `send`, `set_receive_timeout` | owned by one worker after a move from `main` | ownership of the descriptor, error codes |
| `main` | all objects | construct, start, `pause` | | a start that throws in the middle |
| `decodeLeadTargetFrame`, `ACCControllerVector` | none / last acceleration | `stepImpl` | reads the newest report | late or missing reports |
| Simulink radar, scenario, MATLAB twin of the processing | scene state | `stepImpl` | the twin writes the same vector as the decoder | numerical; the controller must not be able to tell the two sources apart |

### What makes each component correct

- **ThreadSafeQueue**: FIFO, every item once, no wakeup lost, nobody blocked
  after `close()`, nothing discarded by `close()`.
- **Link, receiver, reassembler**: what `RadarProcessor` gets is a whole scan,
  every packet at its place; a scan reaches it at most once, and does reach it
  if no datagram of it is lost; buffers do not accumulate except for damage.
- **RadarProcessor**: the reports made of its targets are sent in ascending order
  of their frame ids; what it hands on is computed from
  the frame it is labelled with; only superseded frames are dropped.
- **Signal processing**: a detection is what the definition of CA-CFAR finds in
  this frame, whatever the threads do; a target's distance, velocity and angle
  belong to one cell of the latest scan.
- **Senders**: one report per processed frame; a power map leaves whole and in
  order, independent of what the processor does meanwhile.
- **Lead report and controller**: the vector shows the nearest target in the lane
  of one frame, or no target; the command never speeds the car up towards one that
  is nearer than the distance to keep at the car's speed, and in the end follows a
  lead that stays.
- **DBSCAN**: the clusters are those of the definition: a target is neither
  split nor merged nor lost, each detection is listed once, and `scan` returns.
- **Lifecycle**: a thread ends only when it is told or its own work fails, every
  `stop()` returns, no thread is joined twice.

`PROJECT.json` lists the hazards line by line with the properties that cover
them.

## Modules

| module | models |
|---|---|
| `FifoQueue` | abstract: what `ThreadSafeQueue` promises, without lock and condition variable |
| `ThreadSafeQueue` | `ThreadSafeQueue.hpp`; refines `FifoQueue` |
| `MCThreadSafeQueue` | its instance: two producers, two consumers, one closer |
| `ThreadSafeQueueProofs` | proofs about it |
| `FrameSource` | abstract: what link and reassembler owe to the processor |
| `FrameReassembly` | `RadarPacketizer`, `RadarUdpSender`, UDP, `PacketReceiver`, `RadarReassembler`; refines `FrameSource` |
| `FrameReassemblyProofs` | proofs about it |
| `RadarPipeline` | `RadarProcessor`'s thread, `TargetSender`, `PowerMapSender` and the queues between them |
| `RadarPipelineProofs` | proofs about it |
| `SignalProcessing` | the rest of `RadarProcessor::process`: FFT stages, CFAR with its OpenMP loop, peaks, angles, targets |
| `MCSignalProcessing` | its instance: scenes on a map of 6 x 4 cells |
| `SignalProcessingProofs` | proofs about it |
| `Places` | lemmas for the proofs about the order of a finite set of numbers |
| `DBSCAN` | `DBSCAN::scan`, frame after frame on the same object |
| `MCDBSCAN` | its instance: all detections in a small grid |
| `DBSCANProofs` | proofs about it |
| `LeadReport` | `TargetSender::find_LeadTarget`, the report's way to the PC, the decoder, `MatlabRadarLeadTargetVectorSource`'s choice, `ACCControllerVector` |
| `MCLeadReport` | its instance: five target lists |
| `LeadReportProofs` | proofs about it |
| `Lifecycle` | `start`, the loops and `stop` of the five workers, and `main` as their owner |
| `LifecycleProofs` | proofs about it |

The definitions whose name contains an underscore followed by a description
(`Accepts_Repeated`, `PushItem_SignalIfWasEmpty`, ...) are *mutants*: a
definition of the model with a plausible bug. They are part of no
specification. `PROJECT.json` names for each property the mutant that violates
it, which is the evidence that the property depends on the code.

### ThreadSafeQueue

A call is cut where another thread can run: taking `mutex_`, the critical
section, releasing it, and in `pop` the two halves of `pthread_cond_wait`.

| model | code |
|---|---|
| `mutex`, `condWaiters`, `queue`, `closed` | `mutex_`, the sleepers of `cond_`, `queue_`, `closed_` |
| `PushLock`, `PushItem`, `Unlock` | `push` |
| `PopLock`, `PopWait`, `Reacquire`, `PopTake` + `Unlock`, `PopThrow` | `pop`: the loop, the return, the exception |
| `CloseLock`, `CloseQueue`, `Unlock` | `close` |
| `SpuriousWakeup` | allowed by POSIX; the reason for the `while` in `pop` |

`pthread_cond_signal` is `Signal`: it wakes one sleeper of its choice. A woken
consumer has to win the mutex again like any other thread (`Reacquire`), so
another consumer can take its item first. `popped` and `sent` are history.

The other modules use a queue as a plain sequence. The refinement
`ImplementsFifo` is what allows that.

### FrameReassembly

| model | code |
|---|---|
| `Packetize`, `WritePacket` | a Simulink step: `RadarPacketizer.stepImpl`, then the rounds of `RadarUdpSender.stepImpl` |
| `Restart` | a new simulation: new `RadarPacketizer` object, `frameId_ = 0`; may interrupt a half-written scan |
| `Lose`, `ReceiveCopy` | UDP drops, or delivers a second time; the order of delivery is free since `network` is a set |
| `Receive`, `ReceiveFails` | a round of `PacketReceiver::run` that gets a datagram; `recvfrom` failing, which ends `run` |
| `HandlePacket` | a round of `RadarReassembler::run`: buffer, store, count, compare, push, erase |
| `frames`, `FrameBuffer`, `ConvertToComplex` | the members of the same names |

The bytes of a packet are the triple <<session, frame id, packet id>>. A
payload of 1200 bytes is exactly 150 complex samples (and the last one, 272
bytes, 34), so no sample straddles two packets and `ConvertToComplex`, which
floors each payload to whole samples, is concatenation of payloads. An empty
slot contributes no samples: that is how a hole shifts everything behind it.
`frame_queue` is the history of pushed frames; taking them out again is
`RadarPipeline`'s business.

### RadarPipeline

| model | code |
|---|---|
| `PushRadarFrame` | `frame_queue_.push` in the reassembler, any id at any time |
| `InitProcessor`, `InitFails` | `RadarProcessor::init`; its exceptions end the thread in `thread_func` |
| `Drop`, `Detect` | `process`: the early return; FFTs, CFAR and the push of the power map |
| `Locate` | the rest of `process`: DBSCAN, peaks, angles, the push of the targets, `last_frame_id_` |
| `SendTarget`, `SendTargetFails` | a round of `TargetSender::run`; `sendto` throws and the thread ends |
| `TakeMap`, `SendMapPacket`, `SendMapFails` | a round of `PowerMapSender::run`, packet by packet |

`process` is cut after its push of the power map because from there on two
other threads work in parallel with it. Signal processing is abstracted to its
data flow: `rdm`, `power` and `points` hold the number of the scan they were
computed from, and a product carries the set of scans that went into it.

### SignalProcessing

| model | code |
|---|---|
| `range_fft_data`, `rdm`, `power`, `detections`, `detected_points`, `peaks`, `angles` | the members of the same names, kept from frame to frame |
| `TakeFrame`, `IqData` | the call of `process`; the order of the samples on the wire |
| `Range_FFT`, `Doppler_FFT` | the functions of the same names, with `ShiftedBin` for the shift of the Doppler spectrum |
| `BeginCFAR` | `PowerCalculation`, the `fill` and the `clear` at the head of `CFAR` |
| `SumTraining`, `MarkDetection`, `EndParallel` | an iteration of the parallel loop, cut between its reads and its write; the barrier at its end |
| `CollectDetection` | a round of the sequential loops that list the detections |
| `ScanClusters` | `dbscan_.scan`, which is module `DBSCAN`'s: here any grouping |
| `PeakDetection`, `AngleEstimation`, `TargetConversion` | the functions of the same names |

A number that comes out of an FFT is the set of numbers that went in and the bin
it is for. `FFT` over the wrong elements, an index with the wrong stride, a
shift left out, or a buffer of the frame before then show as a wrong set, not as
a wrong value. Power is a whole number, looked up in what the radar sees at the
cell which an element turns out to be about; the comparison with the threshold is
multiplied out. `Minus` is subtraction of `size_t`: it wraps, so a training
window that left the map at its lower border would be empty and not negative.
An angle is the pair of elements it compares.

### LeadReport

| model | code |
|---|---|
| `PushTargets`, `PopTargets` | `RadarProcessor`'s push to `target_queue_`, the `pop` in `TargetSender::run` |
| `Choose`, `ConsiderTarget`, `OutsideLane`, `Replaces` | `find_LeadTarget` and a round of its loop |
| `SendReport`, `SendFails` | the frame's datagram; `sendto` throws and the thread ends |
| `LoseReport`, `Deliver` | UDP; reports may overtake each other |
| `decodeLeadTargetFrame` | the function of that name: the datagram becomes the `LeadTarget` vector |
| `MatlabFrame`, `MatlabConsider`, `MatlabOutput` | a step of `MatlabRadarLeadTargetVectorSource`, the vector's second source |
| `accelCmd`, `ControlStep` | `ACCControllerVector.stepImpl` |

Lengths are in tenths of a metre, speeds in tenths of a metre per second,
accelerations in hundredths of a metre per second squared, so the control law is
arithmetic of whole numbers. Where a target is to the side stands for its angle,
with `NaN` for an angle that does not exist: a target that is straight beside the
car, whose sine rounds to more than one. The properties' lane (`InLane`) does not
contain it, on either source; the code's lane test (`OutsideLane`) lets it pass. A
report carries, as history, the list it was chosen from. The frame id in a report
is left out: neither the decoder's user nor the controller looks at it. The
decoder's error for a packet that is not 20 bytes long is left out too, since the
only sender is `TargetSender`, whose datagrams are.

### DBSCAN

A step is a round of the outer loop or a round of the loop that expands a
cluster. The second one walks a list, `neighbours`, that its own rounds extend.

| model | code |
|---|---|
| `labels`, `clusters`, `min_samples` | the members, which survive a call; nothing changes `min_samples` |
| `cluster`, `point`, `neighbours`, `i`, `cluster_id` | the locals of `scan` of the same names |
| `Near`, `scan_neighbour`, `IsCore` | `scan_neighbour` and the comparison of its size with `min_samples` |
| `BeginScan`, `Reset`, `EndScan` | the call, its `assign` and `clear`, the return |
| `SkipProcessed`, `MarkNoise`, `StartCluster`, `CloseCluster` | the outer loop |
| `PromoteNoise`, `PassProcessed`, `Absorb` | the expansion: former noise, a point that has a cluster, a new point, whose neighbours are listed if it is a core point |

The code compares the squared distance, a `float`, with `eps * eps = 2.25f`.
Cells have small integer coordinates, so their squared distances are exact
integers, and comparing them with `EpsSquared`, `eps * eps` rounded down, decides
the same.

The definition it is checked against does not mention any order of visits: a
cluster is the smallest set that has its first point and is closed under
expansion from core points (`ClustersAreConnected`); what is near a core point
shares its cluster, or is a border point of an earlier one
(`ClustersAreMaximal`).

### Lifecycle

| model | code |
|---|---|
| `StartWorker`, `StartIgnoresFailure`, `StartThrows` | the five `start` functions, in `main`'s order; receiver and reassembler ignore what `pthread_create` returns |
| `StopSender`, `StopProcessor`, `StopWithoutClose`, `CloseInput`, `JoinReturns` | the five `stop` functions, cut where the stopped thread can run between |
| `JoinUndefined` | `pthread_join` on a `thread_id_` that no `pthread_create` has set |
| `EnterRun`, `TestRunning`, `Pop`, `PopThrows`, `FinishRound` and the actions built from it | `run` of the five classes and their thread functions |
| `ReceiveFails`, `SendFails`, `EnterRun` of the processor | the exceptions that leave `run` and end the thread with `running_` still set |

`main` itself starts the workers and sleeps in `pause()`; nothing in the
repository calls `stop` but `~PacketReceiver`. Where `main` sleeps, the owner of the
model may call `stop` on any worker at any time, which is what the functions
are public for. If a `start` throws, the model ends: what follows is the
unwinding of `main`'s block, listed under [What is not
modelled](#what-is-not-modelled). The queues are counters with a flag, which is
all that their users can tell apart by `FifoQueue`.

## Runs

| run | module, cfg | what it shows |
|---|---|---|
| `queue` | `MCThreadSafeQueue` | no lost wakeup, mutual exclusion across `pthread_cond_wait`, refinement of `FifoQueue`, items reach consumers, `close()` releases everybody |
| `reassembly` | `FrameReassembly.cfg` | under loss, reordering and a dying receiver: whole frames, at most once (refinement of `FrameSource`), leaks only by loss, undamaged scans arrive |
| `reassembly_faults` | `FrameReassembly_faults.cfg` | what still holds with a duplicated datagram and a restart, with two frames interleaved or one in each session: counters, payloads in order and of their frame id, and what each duplicate may cost at most |
| `reassembly_dup` | `FrameReassembly_dup.cfg` | *violation*: a duplicate completes a frame that has a hole |
| `reassembly_restart` | `FrameReassembly_restart.cfg` | *violation*: a frame that mixes two sessions |
| `pipeline` | `RadarPipeline.cfg` | reports are sent in ascending order, products are genuine, maps leave intact, only stale frames are dropped, the newest frame is reported |
| `clustering` | `MCDBSCAN`, `DBSCAN.cfg` | with the code's `eps`, and `min_samples` 3, as in the code, and 4: each detection listed once, targets neither merged nor split nor lost nor (for 3) too small, contended border points with the first cluster, clusters numbered in the order the processor lists them, `scan` returns |
| `detection` | `MCSignalProcessing`, `SignalProcessing.cfg` | CFAR's parallel loop reads and writes what it may and finds what the definition finds, in order and in this frame; targets show one cell of the latest scan |
| `reports` | `MCLeadReport`, `LeadReport.cfg` | both sources show the nearest target in the lane if the angles exist, and never an earlier frame's; at every speed no speeding up towards a lead nearer than the distance to keep; a lead that stays is followed |
| `reports_noangle` | `MCLeadReport`, `LeadReport_noangle.cfg` | *violation*: a target without an angle is reported as the lead |
| `lifecycle` | `Lifecycle.cfg` | no thread ends unless told or failed, senders are joined once, `stop` of four workers returns in every state of the thread |
| `lifecycle_reassembler` | `Lifecycle_reassembler.cfg` | *violation*: `RadarReassembler::stop` hangs when no packet comes |

### Bounds

- `queue`: two producers with two pushes each, two consumers, one closer. The
  pipeline has one of each; two consumers are what it takes to steal an item
  from a woken consumer, two producers to signal twice before anyone wakes.
- `FrameReassembly`: `PacketCount = 3` instead of 110 (first, middle and last
  packet; one can be missing while another is duplicated). `MaxFrames = 2` bounds
  the scans of a session, `MaxScans` those of all sessions. Every run has two frames
  in flight at once. `reassembly_faults` has two scans, one duplicate and one
  restart: two frames of one session, interleaved packet by packet with the duplicate
  in either, or a frame of the same id in each session. `reassembly_restart` has up
  to two scans in each of two sessions. `recv_counts` is a
  `uint16_t` and the counter never exceeds 110 (`BuffersStayOpen`), so its width
  does not matter.
- `pipeline`: ids 0, 1, 2 in any order and with repetitions, four frames, two
  packets per power map instead of 28. Four frames with three ids include a
  repeated, an overtaken and a skipped id.
- `clustering`: all 4096 sets of detections in a grid of 3 x 4 cells, in
  row-major order as CFAR lists them, and after each of them, with the same
  object, the cells that were left out. `EpsSquared = 2` is `eps = 1.5`, under
  which a cell has eight neighbours. Four columns hold two clusters with a border
  between them; the second frame shows that nothing of the first is left over.
  With the code's `min_samples = 3` a border point cannot be near core points of
  two clusters (they and the point itself would make it a core point), so the test
  that only core points expand a cluster makes no difference. `min_samples = 4` is
  the smallest value for which it does, so the run begins with either.
  `ClustersHaveMinSamples` speaks of values up to 3: with 4, a contended point can
  leave the later cluster with three points.
- `detection`: 6 x 4 cells and two antennas, one training cell on each side in both
  directions and one guard cell in range, so that range and Doppler differ in
  everything; four cells under test, all of whose windows touch the map's
  borders; two threads; two scans of twelve
  (a dead receiver, noise, and noise with echoes from one or two of four cells,
  one of which is only ever a training cell), so that every scene follows every other.
  `alpha` is the code's 14.14; `SizeT = 256` is more than any index, as 2^64 is.
- `reports`, `reports_noangle`: no target; one beside the lane; a lead at the lane's
  edge behind a farther target; two equally near leads behind a nearer target beside
  the lane; a lead behind a nearer target without an angle. All are beyond 11 m,
  where CFAR begins. Speeds are one below zero, zero, below and above `SetSpeed`. The
  leads at 15 m are nearer than the distance to keep at 15 and 23 m/s (25 and 33 m),
  and farther than it at rest (10 m); the one at 24 m moves away. One list waits and two reports are on their way, which is what it
  takes for one to overtake the other. The gains and limits are the code's.
- `lifecycle`: two datagrams; one is on its way through the pipeline while a
  worker is stopped, and another waits behind it.

`CHECK_DEADLOCK FALSE` is set where the inputs are bounded and the threads then
wait for more, as the program does. `LeadReport.cfg` keeps the deadlock check.

### Fairness

- A thread inside a critical section goes on (weak fairness); a thread that
  waits for `mutex_` gets it if it becomes free again and again (strong
  fairness, since a pthread mutex is not FIFO). Nothing forces anybody to push,
  to close or to wake up spuriously.
- The PC finishes the step it has begun; a datagram is eventually delivered or
  lost; the reassembler's thread runs. Nothing forces the PC to take a scan.
- Each worker thread runs when its queue has work. `NewestIsReported` does not
  assume that `sendto` works or `init` succeeds: it names the dead thread as the
  only alternative.
- `scan` runs on once it is called; nothing obliges the processor to call it.
- The controller runs every `SampleTime`. `LeadIsFollowed` assumes nothing of the
  radar or the link beyond its own premise, that reports keep coming through:
  without it the property is false, since the controller has no timeout.
- `Lifecycle`: every thread runs when it can, and the owner goes on inside a
  call of `stop`. The receiver's thread can always go on, because `recvfrom`
  times out after 100 ms. Nothing forces a datagram to arrive or the owner to
  call `stop`, and nothing forces an undefined join to return.

## Proofs

`tlapm` checks `Places` and the seven `*Proofs` modules to the last leaf; the
theorems hold for all values of the constants that satisfy the named assumptions
(`ThreadsAssumption`, `ReassemblyAssumption`, `PipelineAssumption`,
`ProcessingAssumption`, `DBSCANAssumption`, `ReportAssumption`,
`LifecycleAssumption`).

| theorem | statement | argument |
|---|---|---|
| `ThreadSafeQueueProofs!TypeCorrect`, `Exclusion` | `[]TypeOK`, `[]MutualExclusion` | `TypeOK` is inductive; `MutualExclusion` is inductive with it |
| `WakeupsAreKept` | `[]NoLostWakeup` | inductive with the two above: a push adds one item and, if anyone sleeps, one awake consumer; a take removes one item and one awake consumer |
| `Refinement` | `ImplementsFifo` | step by step: only `PushItem`, `PopTake`, `CloseQueue`, `PopThrow` are visible |
| `NothingLostOrDoubled` | each item pushed has been popped or waits, once, in its producer's order | what was popped, followed by the queue, is only ever appended to, and by the next number of a producer |
| `NeverStuck` | `SomebodyRuns`: while an item or the end of the queue waits for a consumer, the holder of `mutex_` or an awake consumer can go on | `WakeupsAreKept`: not all of them sleep |
| `FrameReassemblyProofs!CountersStayBelow` | `[]BuffersStayOpen` | for every number of duplicates and restarts: the counter moves by one and the buffer is erased when it meets `PacketCount` |
| `PayloadsKeepOrder` | `[]PayloadsInOrder` | `Origin`: for every number of duplicates and restarts, a slot holds a payload of its own frame id and packet id; `NthFilled` finds filled slots by ascending id, a counting argument (`Places!PlacesAreTaken`) |
| `TypeCorrect` | `[]TypeOK` | for every number of duplicates and restarts: with `Origin`, what `ConvertToComplex` makes is a sequence of payloads, holes or not |
| `DamageIsPaid` | `[]DamageIsBounded` | for every number of duplicates and restarts: a conservation law, see below |
| `CompleteUntilDisturbed`, `LeaksUntilDisturbed`, `SourceUntilDisturbed` | `CompleteFrames`, `BufferedFramesWait`, the steps of `FrameSource` | until the first duplicate or restart (`Undisturbed`) |
| `NoScanForgotten` | a scan whose packets have all passed has been pushed | until the first duplicate or restart: the packets of a scan are conserved, and a full buffer does not stay |
| `FramesAreComplete`, `BuffersLeakOnlyByLoss`, `Refinement` | `CompleteFrames`, `BufferedFramesWait`, `ImplementsFrameSource` | their corollaries under `Reliable` (no duplicate and no restart ever) |
| `RadarPipelineProofs!TypeCorrect` | `[]TypeOK` | with: the frame in `process` and the map being sent are real ones |
| `ReportsAdvance` | `[]TargetsOnlyAdvance` | `Advancing`: sent reports are below queued ones, all at most `last_frame_id`, the frame in `process` above all of them |
| `GenuineProducts` | `[]ProductsAreGenuine` | `Provenance`: `frame_queue` is a suffix of the inputs, and between the two pushes of `process` the buffers show the current frame |
| `DropsAreStale` | `[]OnlyStaleDropped` | `Staleness`: `last_frame_id` is the id of a frame that came before and was processed |
| `MapsIntact` | `[]MapsLeaveIntact` | `Sending`: the packets sent are those of the maps taken so far, packet by packet; a whole map more moves both sides by its length |
| `NewestIsNeverLost` | `[]NewestIsKept`: a frame newer than all before it is still on its way to a report, or reported, or the sender's thread is dead | `Tracking`: a scan with a power map is in `process`, in `target_queue` or sent; with `Staleness`, such a frame was not dropped |
| `SignalProcessingProofs!TypeCorrect`, `LoopIsSafe` | `[]TypeOK`, `[]ParallelLoopIsSafe` | the window of a cell under test stays inside the map, so no subtraction wraps; `PowerIndex` is one-to-one on the map; a window minus its guard has `N_Cells` cells |
| `DetectionsCorrect` | `[]DetectionsAsDefined` | `Echoes`: each stage's vector holds the latest scan in its layout; `Loop`: a cell neither to do nor in a thread's hands is marked exactly if it stands out; `Collected`: the list is the marked cells before `next_cut`, ascending |
| `TargetsCorrect` | `[]TargetsShowTheScan` | `Traced`: what each stage behind the FFTs has made is of the latest scan; a finite cluster has a strongest point (`StrongestIsPeak`) |
| `LeadReportProofs!TypeCorrect`, `ReportsCorrect` | `[]TypeOK`, `[]VectorShowsLead` | `Loop`: `lead_target` is the best of the `Candidates` seen so far, those the source's lane test lets pass; where the angles exist, the candidates are the targets in the lane |
| `CommandCorrect` | `[]CommandRespectsLead` | for all gains, limits and speeds: for a lead within `DesiredDistance` the spacing term is not positive, nor is the minimum of the two terms; and that minimum is at most the speed term, which limiting preserves |
| `SettledStays` | for every speed `v`, once every frame on its way has a lead too near for `v` and no command for `v` or more is positive, it stays so while only such frames are found | step by step over queue, loop, link and vector, with `CommandCorrect`'s argument for the controller; a lead too near for `v` is too near for more (`TooNearForMore`) |
| `DBSCANProofs!TypeCorrect`, `OncePerPoint` | `[]TypeOK`, `[]ListedOnce` | labels and lists agree for finished clusters (`FinishedClusters`) and for the one being built (`Growing`), and no list repeats a point |
| `Connected` | `[]ClustersAreConnected` | all that is listed or waiting to be is in `Reach` of the first point |
| `Maximal` | `[]ClustersAreMaximal` | the frontier: what is near a core point of the current cluster has a label or is still in the list ahead of `i` |
| `LargeEnough` | `[]ClustersHaveMinSamples` | by `Connected` and `Maximal`; the property speaks of `min_samples` up to 3 |
| `InOrder` | `[]ClustersInOrder` | `SeedOrder`: first points ascend, and each is the least core point of its cluster |
| `RoundsAreFew` | a call on `n` detections has `(n + 1)^2` rounds to spend, and each spends some | `RoundsLeft`: an unvisited detection stands for its own round and for the neighbours it may list, `n` at most |
| `ListStaysSmall` | the list that the expansion walks holds at most `n^2` entries | `ListIsPaid`: only detections that were unvisited have listed their neighbours |
| `LifecycleProofs!TypeCorrect` | `[]TypeOK`: no queue holds more than has arrived | `QueueInv`: the items and the busy workers between the socket and a sender's queue are at most the datagrams that came |
| `NoneEndsUntold`, `SendersJoinOnce` | `[]EndsOnlyWhenTold`, `[]SenderJoins` | `OwnerInv`: a thread has its flag set or its stop called; a queue is closed by its reader's stop only; a sender with its flag set has a thread nobody joined |
| `JoinWaitsForARunningThread` | the thread that a `stop` of a worker other than the reassembler joins can take a step | its queue is closed by then, and the receiver's `recvfrom` times out |
| `StoppedThreadsEnd` | while a `stop` is under way, each step of the worker's thread brings it nearer to its end | `StepsLeft`, a measure on the places of `run` |

The heart of `FrameReassemblyProofs` is that counting is sound without
duplicates. `IInv` says that, as long as nothing was duplicated or restarted,
each packet written is in at most one of the wire, `packet_queue`, the buffer and
the lost ones, and that a buffer's counter is the number of its filled slots.
`CompleteFrames` alone is not inductive: that a counter equal to `PacketCount`
means a full buffer needs the connection between the counter and the slots, and
that connection needs the other places a packet can be. `Undisturbed` is a state
of the model, not an assumption about its constants: the theorems say that what
came before the first fault is right, whatever comes later. It is necessary: the
runs `reassembly_dup` and `reassembly_restart` are counterexamples without it.

What those faults can do beyond it is `DamageIsPaid`. For a frame id, `Charge`
counts the packets that can still be received (`Coming`: on the wire, or not
written yet by the running session), those in `packet_queue`, those its buffer has
counted, and `PacketCount` for each frame pushed with it; `Budget` is
`PacketCount` for each session plus the duplicates. Every step keeps
`Charge <= Budget`: a duplicate may add one to both, a restart `PacketCount`, a loss
only takes away, and counting or pushing moves a charge from one place to another.
In the first session, a packet that the reassembler neither has nor will find in its
queue stays on the account until the frame is pushed (`Missing`), also when it was
lost. So the holes of a frame are at most the duplicates that were counted in their
stead (`FewHoles`).

`DBSCANProofs` holds for every list of detections, every `eps` and every
`min_samples`; `LargeEnough` states something up to 3 only. Its induction runs over the rounds of the two loops, so nothing
has to be known of how far the list will grow. `scan_neighbour` lists by index
what is near (`NeighboursListed`): that each index gets a place in the list is the
counting argument of `Places`, which `FrameReassemblyProofs` uses for `NthFilled`. `Maximal` uses that
nearness is mutual, and that a finished cluster takes no part in later rounds
(`FinishedStay`). That the list does not grow for ever is an argument of its own:
a detection lists its neighbours in the round that visits it, and is visited once.

`LargeEnough` needs nothing of the plane the detections lie in: a point that an
earlier cluster has taken from a core point has itself, that core point and one of
the earlier cluster near it, which are three, so it is a core point and belongs to
both clusters, which are then one.

Only model-checked: the liveness properties, which need `ENABLED` and are out of
the prover's reach. Of each a safety half is proved, that nothing can go wrong on
the way or that each step comes nearer:

| liveness, TLC | its safety half, proved |
|---|---|
| `ItemsReachConsumers`, `CloseReleasesConsumers` | `NeverStuck`, `NothingLostOrDoubled` |
| `WholeScansArrive` | `NoScanForgotten` |
| `NewestIsReported` | `NewestIsNeverLost` |
| `ScanReturns` | `RoundsAreFew` |
| `StopReturns` | `JoinWaitsForARunningThread`, `StoppedThreadsEnd` |
| `LeadIsFollowed` | `SettledStays` |

Every safety property of a passing run is proved, where noted under an assumption
(`Undisturbed`, `Reliable`).

## Findings

1. **A duplicated datagram completes a frame with a hole** (`reassembly_dup`).
   `RadarReassembler::run` counts datagrams, not distinct packet ids;
   `received_packet` in `FrameBuffer`, which would tell them apart, is commented
   out. The pushed frame is shorter than a scan, and `Range_FFT` reads
   `iq_data[idx]` for all 16384 samples without looking at the size.
2. **A restart of the simulation mixes two scans** (`reassembly_restart`).
   `frames_` is keyed by the frame id alone and never cleaned.
3. **`RadarReassembler::stop` can hang** (`lifecycle_reassembler`). It clears
   `running_` and joins, but does not close `packet_queue_`. The comment at
   `ThreadSafeQueue.hpp:71` says that the parent thread uses `close()` so that
   `pop` does not block; processor and senders do so. The trace: no packet is in
   the queue, the thread waits in `pop`, and the join waits for the thread. After
   `PacketReceiver::stop`, no packet can come any more.
4. **A target without an angle is taken for the lead** (`reports_noangle`).
   `std::asin` is given `radian / M_PI` with `radian` a `float`, and the `float`
   nearest to pi is greater than `M_PI`: if the antennas are in opposite phase, the
   angle is NaN. The comparison in `TargetSender.cpp:40` is false then, so that the
   target, which is straight beside the car, passes the lane test. The trace: it is
   nearer than the target in the lane and is reported in its place. The comments at
   lines 27 and 39 say that targets outside the lane are left out, as the twin does,
   which clamps the sine.

Seen while reading, and not among the findings.

In the models as it is, since no document says otherwise and the properties permit
it:

- The controller ignores the frame id of a report and has no timeout for it:
  reports overtake each other, and the last one counts for ever.
- CFAR's comparison is `>=`: a map of zeros makes every cell under test a detection.
- A new session's frames are dropped until their ids exceed the old session's last.

Outside the models:

- `UDPSocket.hpp` calls the parameter of `set_receive_timeout` `timeout_us`, the
  definition takes milliseconds.
- `RadarIQGenerator` samples every 0.2 s where the repository's README says 0.1 s.
- CFAR starts at range bin 11, so nothing nearer than about 11 m is detected, while
  the ACC's minimum distance is 10 m.
- `~PacketReceiver` calls `stop`, which joins `thread_id_` also if `start` was never
  called or failed.
- The TO-DO at `PacketReceiver.cpp:51`, that a blocking receive would keep `stop`
  waiting, is settled by the 100 ms timeout that `start` sets.
- In `simulink_hils.slx` the controller's `LeadTarget` input is wired to
  `MatlabRadarLeadTargetVectorSource` and not to the decoder of the Raspberry Pi's
  report, where the repository's README (lines 22 and 141) says that the latter is
  used.
- An odd number of Doppler bins would break the shift and its undoing (lines 262 and
  488 of `RadarProcessor.cpp`).

## What is not modelled

- The arithmetic of the FFTs, of the windows and of the angle, rounding in the
  power and in CFAR's sum, the radar scene and the twin's own processing: floating
  point. What is modelled of them is which numbers go where.
- The layout of a power map's packet: nothing in the repository receives it. The
  byte order of the headers, which is the same on both sides.
- The moves of `UDPSocket`: straight-line code with one owner at a time.
- Foreign datagrams on port 5000. `RadarReassembler` trusts `packet_id` and
  `packet_count` of whatever arrives; the models let only `RadarUdpSender` write.
- Exhaustion of memory. No queue is bounded in the code; `push` never refuses.
- The unwinding of `main` after a `start` that throws: the destructors run while
  the workers that were started still use the objects. That is undefined
  behaviour, and a model would say no more than that. The objects go
  in reverse order of construction, `~PacketReceiver` joins a `thread_id_` that its
  own failed `start` may never have set, and the reassembler and the queues go
  while the reassembler's thread uses them. The destructors are not modelled
  otherwise either, since `main` does not leave its block in any other way.
- In `FrameReassembly` and `RadarPipeline` the threads run from the start and end
  only by their own errors; starting and stopping is `Lifecycle`'s business.

## Open ends

Every part of the system that keeps state has its module, `UDPSocket` apart. What could still be
added:

1. `Packetization`: the byte ranges of the 110 packets cover a scan exactly, and
   the 28 packets of a power map cover the map.
2. `EndToEnd`: `FrameReassembly`, `RadarPipeline` and `LeadReport` composed, from
   a step of the simulation to the controller's command.

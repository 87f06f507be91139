-------------------------- MODULE SignalProcessing --------------------------
(***************************************************************************)
(* What RadarProcessor::process does with one frame after another: the two *)
(* FFT stages, CA-CFAR with its OpenMP loop, peaks, angles and targets.    *)
(*                                                                         *)
(* A number that comes out of an FFT remembers what went in: the layouts   *)
(* of the flat vectors decide what that is.  Power is computed from what   *)
(* the radar sees (scenes) at the cell the number belongs to.  Clustering  *)
(* is module DBSCAN's; here it groups the detections in any way.           *)
(***************************************************************************)
EXTENDS Integers, Sequences, FiniteSets

LOCAL INSTANCE Functions   \* SumFunction

CONSTANTS
    RangeBins,     \* range_bins, and the samples of a chirp
    DopplerBins,   \* doppler_bins, and the chirps of a frame
    T_Range, T_Doppler, G_Range, G_Doppler,   \* training and guard cells
    AlphaPercent,  \* alpha * 100
    SizeT,         \* 2^w for a size_t of w bits
    Threads,       \* the number of OpenMP threads
    Scenes,        \* what the radar may see: power by range and velocity
    MaxScans,      \* bound: frames processed
    MaxClusters    \* bound: clusters per frame

Ranges == 0 .. RangeBins - 1
Dopplers == 0 .. DopplerBins - 1
Velocities == -(DopplerBins \div 2) .. DopplerBins \div 2 - 1
\* AngleEstimation has the two antennas written into it.
RxChannels == 2
Rx == 0 .. RxChannels - 1

HalfRange == G_Range + T_Range
HalfDoppler == G_Doppler + T_Doppler

ASSUME ProcessingAssumption ==
    /\ {RangeBins, DopplerBins, SizeT, Threads} \subseteq Nat \ {0}
    /\ {T_Range, T_Doppler, G_Range, G_Doppler, AlphaPercent} \subseteq Nat
    /\ DopplerBins % 2 = 0
    /\ RangeBins > 2 * HalfRange
    /\ DopplerBins > 2 * HalfDoppler
    /\ RangeBins * DopplerBins * RxChannels < SizeT
    /\ Scenes \subseteq [Ranges \X Velocities -> Nat]
    /\ MaxScans \in Nat
    /\ MaxClusters \in Nat

VARIABLES
    stage,            \* what process has finished
    scenes,           \* history: what the radar saw, scan by scan
    range_fft_data,   \* range_fft_data_ [chirp][range][rx]
    rdm,              \* rdm_ [range][doppler][rx]
    power,            \* power_ [range][doppler]
    detections,       \* detections_
    todo,             \* iterations of the parallel loop not yet begun
    training,         \* training_sum of the iterations a thread is in
    next_cut,         \* range_bin and doppler_bin of the collecting loops
    detected_points,  \* detected_points_
    clusters,         \* what DBSCAN::scan returned
    peaks,            \* peaks_
    angles,           \* angles_
    targets           \* the list of targets pushed to target_queue_

vars == <<stage, scenes, range_fft_data, rdm, power, detections, todo,
          training, next_cut, detected_points, clusters, peaks, angles, targets>>
-----------------------------------------------------------------------------
(* Layouts *)

\* [chirp][sample][rx]: the wire, iq_data and range_fft_data_.
ScanIndex(chirp, sample, rx) == (chirp * RangeBins + sample) * RxChannels + rx

\* [range][doppler][rx]
RdmIndex(range, doppler, rx) == (range * DopplerBins + doppler) * RxChannels + rx

\* [range][doppler]: power_ and detections_.
PowerIndex(range, doppler) == DopplerBins * range + doppler

ScanSize == RangeBins * DopplerBins * RxChannels
MapSize == RangeBins * DopplerBins

\* A loop assigns value[w] to element at[w] for each w in its iterations; the
\* elements that no iteration meets keep what they had.
Assign(array, at, value) ==
    [i \in DOMAIN array |->
        IF \E w \in DOMAIN at : at[w] = i
        THEN value[CHOOSE w \in DOMAIN at : at[w] = i]
        ELSE array[i]]

Zero == [from |-> {}, bin |-> 0]

Blank(size, v) == [i \in 0 .. size - 1 |-> v]

\* iq_data of the current scan: which chirp and antenna each element is from.
IqData ==
    Assign(Blank(ScanSize, Zero),
           [w \in Rx \X Dopplers \X Ranges |-> ScanIndex(w[2], w[3], w[1])],
           [w \in Rx \X Dopplers \X Ranges |-> <<Len(scenes), w[2], w[1]>>])

RangeSpectra ==
    LET iq_data == IqData
    IN  [w \in Rx \X Dopplers \X Ranges |->
           [from |-> {iq_data[ScanIndex(w[2], sample, w[1])] : sample \in Ranges},
            bin  |-> w[3]]]

\* Mutant: the FFT's output is stored without moving velocity 0 to the middle.
ShiftedBin_None(doppler) == doppler

\* The bin of the Doppler FFT's output that goes to column doppler.
ShiftedBin(doppler) == (doppler + DopplerBins \div 2) % DopplerBins

DopplerSpectra ==
    [w \in Rx \X Ranges \X Dopplers |->
        [from |-> {range_fft_data[ScanIndex(chirp, w[2], w[1])] : chirp \in Dopplers},
         bin  |-> ShiftedBin(w[3])]]

\* Bin k of an n-point FFT is frequency k, or k - n in the upper half.
Frequency(bin) == IF bin < DopplerBins \div 2 THEN bin ELSE bin - DopplerBins

\* std::norm of an element of rdm_: the power of the scene at its cell.
Norm(z) ==
    IF z = Zero THEN 0
    ELSE LET line == CHOOSE l \in z.from : TRUE
             iq == CHOOSE s \in line.from : TRUE
         IN  scenes[iq[1]][<<line.bin, Frequency(z.bin)>>]

PowerOf(range, doppler) ==
    Norm(rdm[RdmIndex(range, doppler, 0)]) + Norm(rdm[RdmIndex(range, doppler, 1)])
-----------------------------------------------------------------------------
(* CFAR *)

\* Subtraction of size_t wraps around.
Minus(a, b) == IF b <= a THEN a - b ELSE SizeT + a - b

\* Mutant: <= in the loop over range_bin.
CutRanges_Inclusive == HalfRange .. Minus(RangeBins, HalfRange)

CutRanges == HalfRange .. Minus(RangeBins, HalfRange) - 1
CutDopplers == HalfDoppler .. Minus(DopplerBins, HalfDoppler) - 1

\* The iterations of the collapsed loop: one per cell under test.
Cuts == CutRanges \X CutDopplers

Guarded(cut, cell) ==
    /\ cell[1] >= Minus(cut[1], G_Range)
    /\ cell[1] <= cut[1] + G_Range
    /\ cell[2] >= Minus(cut[2], G_Doppler)
    /\ cell[2] <= cut[2] + G_Doppler

\* The cells whose power an iteration adds up.
TrainingCells(cut) ==
    {cell \in (Minus(cut[1], HalfRange) .. cut[1] + HalfRange) \X
              (Minus(cut[2], HalfDoppler) .. cut[2] + HalfDoppler) :
        ~Guarded(cut, cell)}

TrainingSum(cut) ==
    SumFunction([cell \in TrainingCells(cut) |-> power[PowerIndex(cell[1], cell[2])]])

N_Cells ==
    (2 * HalfRange + 1) * (2 * HalfDoppler + 1)
        - (2 * G_Range + 1) * (2 * G_Doppler + 1)

\* power_[cut] >= training_sum / N_Cells * alpha, in whole numbers.
Exceeds(p, sum) == p * N_Cells * 100 >= sum * AlphaPercent

\* The loops over range_bin and doppler_bin go on.
Successor(cut) ==
    IF cut[2] + 1 \in CutDopplers
    THEN <<cut[1], cut[2] + 1>>
    ELSE <<cut[1] + 1, HalfDoppler>>

Detection(cut) ==
    [range_idx |-> cut[1], doppler_idx |-> cut[2],
     power |-> power[PowerIndex(cut[1], cut[2])]]
-----------------------------------------------------------------------------
\* The vectors as init() sizes them: filled with zeros.
Init ==
    /\ stage = "idle"
    /\ scenes = <<>>
    /\ range_fft_data = Blank(ScanSize, Zero)
    /\ rdm = Blank(ScanSize, Zero)
    /\ power = Blank(MapSize, 0)
    /\ detections = Blank(MapSize, 0)
    /\ todo = {}
    /\ training = <<>>
    /\ next_cut = <<HalfRange, HalfDoppler>>
    /\ detected_points = <<>>
    /\ clusters = <<>>
    /\ peaks = <<>>
    /\ angles = <<>>
    /\ targets = <<>>

\* process is called with the next scan.
TakeFrame(scene) ==
    /\ stage = "idle"
    /\ Len(scenes) < MaxScans
    /\ scenes' = Append(scenes, scene)
    /\ stage' = "scan"
    /\ UNCHANGED <<next_cut, range_fft_data, rdm, power, detections, todo, training,
                   detected_points, clusters, peaks, angles, targets>>

Range_FFT ==
    /\ stage = "scan"
    /\ range_fft_data' =
          Assign(range_fft_data,
                 [w \in Rx \X Dopplers \X Ranges |-> ScanIndex(w[2], w[3], w[1])],
                 RangeSpectra)
    /\ stage' = "range"
    /\ UNCHANGED <<next_cut, scenes, rdm, power, detections, todo, training,
                   detected_points, clusters, peaks, angles, targets>>

Doppler_FFT ==
    /\ stage = "range"
    /\ rdm' = Assign(rdm,
                     [w \in Rx \X Ranges \X Dopplers |-> RdmIndex(w[2], w[3], w[1])],
                     DopplerSpectra)
    /\ stage' = "rdm"
    /\ UNCHANGED <<next_cut, scenes, range_fft_data, power, detections, todo, training,
                   detected_points, clusters, peaks, angles, targets>>

PowerCalculation ==
    power' = Assign(power,
                    [w \in Ranges \X Dopplers |-> PowerIndex(w[1], w[2])],
                    [w \in Ranges \X Dopplers |-> PowerOf(w[1], w[2])])

\* Mutant: detections_ is not filled with 0.
BeginCFAR_NoFill ==
    /\ stage = "rdm"
    /\ PowerCalculation
    /\ detected_points' = <<>>
    /\ todo' = Cuts
    /\ stage' = "parallel"
    /\ UNCHANGED <<next_cut, scenes, range_fft_data, rdm, detections, training, clusters,
                   peaks, angles, targets>>

\* Mutant: detected_points_ is not cleared.
BeginCFAR_NoClear ==
    /\ stage = "rdm"
    /\ PowerCalculation
    /\ detections' = Blank(MapSize, 0)
    /\ todo' = Cuts
    /\ stage' = "parallel"
    /\ UNCHANGED <<next_cut, scenes, range_fft_data, rdm, training, detected_points,
                   clusters, peaks, angles, targets>>

\* CFAR up to its parallel loop.
BeginCFAR ==
    /\ stage = "rdm"
    /\ PowerCalculation
    /\ detections' = Blank(MapSize, 0)
    /\ detected_points' = <<>>
    /\ todo' = Cuts
    /\ stage' = "parallel"
    /\ UNCHANGED <<next_cut, scenes, range_fft_data, rdm, training, clusters, peaks,
                   angles, targets>>

\* A thread begins an iteration and adds up the training cells.  Which
\* iterations a thread gets is OpenMP's choice; schedule(static) is one.
SumTraining(cut) ==
    /\ stage = "parallel"
    /\ cut \in todo
    /\ Cardinality(DOMAIN training) < Threads
    /\ todo' = todo \ {cut}
    /\ training' = [c \in DOMAIN training \cup {cut} |->
                       IF c = cut THEN TrainingSum(cut) ELSE training[c]]
    /\ UNCHANGED <<next_cut, stage, scenes, range_fft_data, rdm, power, detections,
                   detected_points, clusters, peaks, angles, targets>>

\* The thread compares and ends the iteration.
MarkDetection(cut) ==
    /\ stage = "parallel"
    /\ cut \in DOMAIN training
    /\ LET index == PowerIndex(cut[1], cut[2])
       IN  detections' = IF Exceeds(power[index], training[cut])
                         THEN [detections EXCEPT ![index] = 1]
                         ELSE detections
    /\ training' = [c \in DOMAIN training \ {cut} |-> training[c]]
    /\ UNCHANGED <<next_cut, stage, scenes, range_fft_data, rdm, power, todo,
                   detected_points, clusters, peaks, angles, targets>>

\* All threads have met at the end of the loop.
EndParallel ==
    /\ stage = "parallel"
    /\ todo = {}
    /\ DOMAIN training = {}
    /\ next_cut' = <<HalfRange, HalfDoppler>>
    /\ stage' = "collecting"
    /\ UNCHANGED <<scenes, range_fft_data, rdm, power, detections, todo,
                   training, detected_points, clusters, peaks, angles, targets>>

\* A round of the loops that collect the detections.
CollectDetection ==
    /\ stage = "collecting"
    /\ detected_points' = IF detections[PowerIndex(next_cut[1], next_cut[2])] # 0
                          THEN Append(detected_points, Detection(next_cut))
                          ELSE detected_points
    /\ next_cut' = Successor(next_cut)
    /\ stage' = IF Successor(next_cut)[1] \in CutRanges THEN stage ELSE "detected"
    /\ UNCHANGED <<scenes, range_fft_data, rdm, power, detections, todo,
                   training, clusters, peaks, angles, targets>>

\* dbscan_.scan: each detection goes to one cluster or to none, no cluster is
\* empty, and a cluster lists its points in some order: here as detected.
ScanClusters(label) ==
    /\ stage = "detected"
    /\ LET number == Cardinality({label[i] : i \in DOMAIN label} \ {0})
           places(c) == {i \in DOMAIN label : label[i] = c}
           nth(c, k) == CHOOSE i \in places(c) :
                            Cardinality({j \in places(c) : j <= i}) = k
       IN  /\ \A i \in DOMAIN label : label[i] <= number
           /\ clusters' = [c \in 1 .. number |->
                             [k \in 1 .. Cardinality(places(c)) |->
                                 detected_points[nth(c, k)]]]
    /\ stage' = "clustered"
    /\ UNCHANGED <<next_cut, scenes, range_fft_data, rdm, power, detections, todo,
                   training, detected_points, peaks, angles, targets>>

\* std::max_element: the first of the strongest.
Strongest(cluster) ==
    cluster[CHOOSE i \in DOMAIN cluster :
                /\ \A j \in DOMAIN cluster : cluster[j].power <= cluster[i].power
                /\ \A j \in 1 .. i - 1 : cluster[j].power < cluster[i].power]

PeakDetection ==
    /\ stage = "clustered"
    /\ peaks' = [c \in DOMAIN clusters |-> Strongest(clusters[c])]
    /\ stage' = "peaks"
    /\ UNCHANGED <<next_cut, scenes, range_fft_data, rdm, power, detections, todo,
                   training, detected_points, clusters, angles, targets>>

\* An angle is computed from two elements of rdm_.
AngleOf(peak) ==
    LET rx1 == RdmIndex(peak.range_idx, peak.doppler_idx, 0)
    IN  <<rdm[rx1], rdm[rx1 + 1]>>

AngleEstimation ==
    /\ stage = "peaks"
    /\ angles' = [i \in DOMAIN peaks |-> AngleOf(peaks[i])]
    /\ stage' = "angles"
    /\ UNCHANGED <<next_cut, scenes, range_fft_data, rdm, power, detections, todo,
                   training, detected_points, clusters, peaks, targets>>

\* Distances and velocities are in multiples of their resolution.
TargetConversion ==
    /\ stage = "angles"
    /\ targets' = [i \in DOMAIN peaks |->
                     [distance          |-> peaks[i].range_idx,
                      relative_velocity |-> peaks[i].doppler_idx - DopplerBins \div 2,
                      angle             |-> angles[i]]]
    /\ stage' = "idle"
    /\ UNCHANGED <<next_cut, scenes, range_fft_data, rdm, power, detections, todo,
                   training, detected_points, clusters, peaks, angles>>
-----------------------------------------------------------------------------
Next ==
    \/ \E scene \in Scenes : TakeFrame(scene)
    \/ Range_FFT
    \/ Doppler_FFT
    \/ BeginCFAR
    \/ \E cut \in Cuts : SumTraining(cut) \/ MarkDetection(cut)
    \/ EndParallel
    \/ CollectDetection
    \/ \E label \in [DOMAIN detected_points -> 0 .. MaxClusters] : ScanClusters(label)
    \/ PeakDetection
    \/ AngleEstimation
    \/ TargetConversion

Spec == Init /\ [][Next]_vars
-----------------------------------------------------------------------------
Stages == {"idle", "scan", "range", "rdm", "parallel", "collecting", "detected", "clustered",
           "peaks", "angles"}

DetectionSet == [range_idx : CutRanges, doppler_idx : CutDopplers, power : Nat]

\* Types.  No vector changes its size, and no list is longer than the cells
\* under test: nothing grows from frame to frame.
TypeOK ==
    /\ stage \in Stages
    /\ scenes \in Seq([Ranges \X Velocities -> Nat])
    /\ DOMAIN range_fft_data = 0 .. ScanSize - 1
    /\ DOMAIN rdm = 0 .. ScanSize - 1
    /\ power \in [0 .. MapSize - 1 -> Nat]
    /\ detections \in [0 .. MapSize - 1 -> {0, 1}]
    /\ todo \subseteq Cuts
    /\ DOMAIN training \subseteq Cuts \ todo
    /\ next_cut \in Nat \X Nat
    /\ detected_points \in Seq(DetectionSet)
    /\ Len(detected_points) <= Cardinality(Cuts)

\* While the threads are in CFAR's loop, an iteration reads N_Cells different
\* elements of power_, all of them in its own rows, and no two iterations write
\* the same element of detections_.  This is what makes the loop legal to
\* parallelise without a lock, and its index arithmetic sound at the borders.
ParallelLoopIsSafe ==
    stage = "parallel" =>
        /\ \A cut \in todo \cup DOMAIN training :
              /\ Cardinality({PowerIndex(cell[1], cell[2]) :
                                 cell \in TrainingCells(cut)}) = N_Cells
              /\ \A cell \in TrainingCells(cut) :
                    cell \in Ranges \X Dopplers /\ PowerIndex(cell[1], cell[2]) < MapSize
        /\ \A c, d \in todo \cup DOMAIN training :
              PowerIndex(c[1], c[2]) = PowerIndex(d[1], d[2]) => c = d

\* The cells that a detector without windows' arithmetic, threads and memory of
\* earlier frames finds: all that reach alpha times the mean of the cells
\* around them, at most HalfRange and HalfDoppler away, the guard cells apart.
Distance(a, b) == IF a < b THEN b - a ELSE a - b

Around(cut, range, doppler) ==
    {cell \in Ranges \X Dopplers :
        Distance(cell[1], cut[1]) <= range /\ Distance(cell[2], cut[2]) <= doppler}

StandsOut(cut) ==
    LET cells == Around(cut, HalfRange, HalfDoppler) \ Around(cut, G_Range, G_Doppler)
        sum == SumFunction([cell \in cells |-> power[PowerIndex(cell[1], cell[2])]])
    IN  power[PowerIndex(cut[1], cut[2])] * Cardinality(cells) * 100 >= sum * AlphaPercent

Tested == {cut \in Ranges \X Dopplers :
              /\ cut[1] >= HalfRange /\ cut[1] < RangeBins - HalfRange
              /\ cut[2] >= HalfDoppler /\ cut[2] < DopplerBins - HalfDoppler}

\* However the threads share and interleave the loop, CFAR lists the cells that
\* the sequential definition finds in this frame, each once, by ascending range
\* and then Doppler bin; a detection of an earlier frame never stays.
DetectionsAsDefined ==
    stage \in {"detected", "clustered", "peaks", "angles"} =>
        /\ {<<p.range_idx, p.doppler_idx>> : p \in {detected_points[i] : i \in DOMAIN detected_points}}
              = {cut \in Tested : StandsOut(cut)}
        /\ \A i, j \in DOMAIN detected_points :
              i < j => PowerIndex(detected_points[i].range_idx, detected_points[i].doppler_idx)
                         < PowerIndex(detected_points[j].range_idx, detected_points[j].doppler_idx)

\* What the radar received on antenna rx from one range and velocity in the
\* latest scan, through both FFT stages.
Echo(range, velocity, rx) ==
    [from |-> {[from |-> {<<Len(scenes), chirp, rx>>}, bin |-> range] : chirp \in Dopplers},
     bin  |-> IF velocity < 0 THEN velocity + DopplerBins ELSE velocity]

\* The targets handed to the sender are what is in the scan: a target's
\* distance, velocity and angle belong to one cell of the latest scan, the
\* angle compares the two antennas there, and the cell is the strongest of its
\* cluster in power.  It takes the layouts of five vectors, the shift of
\* the Doppler spectrum and its undoing to agree.
TargetsShowTheScan ==
    stage = "idle" =>
        /\ Len(targets) = Len(clusters)
        /\ \A i \in DOMAIN targets :
              LET t == targets[i]
              IN  /\ t.angle = <<Echo(t.distance, t.relative_velocity, 0),
                                 Echo(t.distance, t.relative_velocity, 1)>>
                  /\ \A j \in DOMAIN clusters[i] :
                        LET p == clusters[i][j]
                        IN  scenes[Len(scenes)][<<p.range_idx, p.doppler_idx - DopplerBins \div 2>>]
                              <= scenes[Len(scenes)][<<t.distance, t.relative_velocity>>]
=============================================================================

----------------------- MODULE SignalProcessingProofs -----------------------
(***************************************************************************)
(* CFAR's parallel loop is safe and computes what the sequential           *)
(* definition asks for, for maps, windows and numbers of threads of any    *)
(* size; and the targets that leave process show the latest scan.          *)
(***************************************************************************)
EXTENDS SignalProcessing, Places, FiniteSetTheorems, SequenceTheorems, TLAPS
-----------------------------------------------------------------------------
(***************************************************************************)
(* Index arithmetic.                                                       *)
(***************************************************************************)

\* Rows of n elements one after the other: an index grows with its row, and
\* inside the row.
LEMMA Strided ==
    ASSUME NEW n \in Nat \ {0}, NEW a \in Nat, NEW b \in Nat,
           NEW x \in 0 .. n - 1, NEW y \in 0 .. n - 1
    PROVE  (n * a + x < n * b + y) <=> (a < b \/ (a = b /\ x < y))
<1>1. ASSUME NEW k \in Nat, NEW l \in Nat, k < l
      PROVE  n * k + n <= n * l
  <2>1. n * (k + 1) <= n * l
    BY <1>1
  <2> QED  BY <2>1
<1>2. n * a \in Nat /\ n * b \in Nat
  OBVIOUS
<1>3. CASE a < b
  BY <1>1, <1>2, <1>3
<1>4. CASE b < a
  BY <1>1, <1>2, <1>4
<1>5. CASE a = b
  BY <1>2, <1>5
<1> QED  BY <1>3, <1>4, <1>5

\* An index in one of m rows of n elements is below n * m.
LEMMA StridedBound ==
    ASSUME NEW n \in Nat \ {0}, NEW m \in Nat, NEW a \in 0 .. m - 1, NEW x \in 0 .. n - 1
    PROVE  n * a + x \in 0 .. n * m - 1
<1>1. n * (a + 1) <= n * m
  OBVIOUS
<1>2. n * (a + 1) = n * a + n /\ n * a \in Nat /\ n * m \in Nat
  OBVIOUS
<1> QED  BY <1>1, <1>2

\* The constants are numbers, and both halves of a window fit twice.
LEMMA Sizes ==
    /\ RangeBins \in Nat \ {0} /\ DopplerBins \in Nat \ {0}
    /\ HalfRange \in Nat /\ HalfDoppler \in Nat
    /\ G_Range \in Nat /\ G_Doppler \in Nat
    /\ G_Range <= HalfRange /\ G_Doppler <= HalfDoppler
    /\ RangeBins > 2 * HalfRange /\ DopplerBins > 2 * HalfDoppler
    /\ MapSize \in Nat
BY ProcessingAssumption DEF HalfRange, HalfDoppler, MapSize

LEMMA CutBounds ==
    /\ CutRanges = HalfRange .. RangeBins - HalfRange - 1
    /\ CutDopplers = HalfDoppler .. DopplerBins - HalfDoppler - 1
    /\ Cuts = Tested
    /\ Cuts \subseteq Ranges \X Dopplers
<1>1. /\ CutRanges = HalfRange .. RangeBins - HalfRange - 1
      /\ CutDopplers = HalfDoppler .. DopplerBins - HalfDoppler - 1
  BY Sizes DEF CutRanges, CutDopplers, Minus
<1>2. CutRanges \subseteq Ranges /\ CutDopplers \subseteq Dopplers
  BY <1>1, Sizes DEF Ranges, Dopplers
<1>3. Cuts \subseteq Ranges \X Dopplers
  BY <1>2 DEF Cuts
<1>4. ASSUME NEW c \in Ranges \X Dopplers
      PROVE  c \in Cuts <=> c \in Tested
  <2>1. c[1] \in Nat /\ c[2] \in Nat /\ c = <<c[1], c[2]>>
    BY DEF Ranges, Dopplers
  <2>2. c \in Cuts <=> c[1] \in CutRanges /\ c[2] \in CutDopplers
    BY <2>1 DEF Cuts
  <2> QED  BY <2>1, <2>2, <1>1, <1>4, Sizes DEF Tested
<1> QED  BY <1>1, <1>3, <1>4 DEF Tested

\* power_ and detections_ are rows of Doppler bins: the index orders the cells
\* by range, then Doppler bin, and stays inside the vector.
LEMMA Indices ==
    /\ \A c \in Ranges \X Dopplers : PowerIndex(c[1], c[2]) \in 0 .. MapSize - 1
    /\ \A c, d \in Nat \X Dopplers :
          (PowerIndex(c[1], c[2]) < PowerIndex(d[1], d[2]))
             <=> (c[1] < d[1] \/ (c[1] = d[1] /\ c[2] < d[2]))
    /\ \A c, d \in Nat \X Dopplers :
          PowerIndex(c[1], c[2]) = PowerIndex(d[1], d[2]) => c = d
    /\ \A c \in Nat \X Dopplers : PowerIndex(c[1], c[2]) \in Nat
<1>1. ASSUME NEW c \in Ranges \X Dopplers
      PROVE  PowerIndex(c[1], c[2]) \in 0 .. MapSize - 1
  <2>1. c[1] \in 0 .. RangeBins - 1 /\ c[2] \in 0 .. DopplerBins - 1
    BY DEF Ranges, Dopplers
  <2>2. DopplerBins * c[1] + c[2] \in 0 .. DopplerBins * RangeBins - 1
    BY <2>1, Sizes, StridedBound
  <2> QED  BY <2>2, Sizes DEF PowerIndex, MapSize
<1>2. ASSUME NEW c \in Nat \X Dopplers, NEW d \in Nat \X Dopplers
      PROVE  /\ (PowerIndex(c[1], c[2]) < PowerIndex(d[1], d[2]))
                   <=> (c[1] < d[1] \/ (c[1] = d[1] /\ c[2] < d[2]))
             /\ PowerIndex(c[1], c[2]) = PowerIndex(d[1], d[2]) => c = d
             /\ PowerIndex(c[1], c[2]) \in Nat
  <2>1. /\ c[1] \in Nat /\ c[2] \in 0 .. DopplerBins - 1 /\ c = <<c[1], c[2]>>
        /\ d[1] \in Nat /\ d[2] \in 0 .. DopplerBins - 1 /\ d = <<d[1], d[2]>>
    BY DEF Dopplers
  <2>2. /\ (PowerIndex(c[1], c[2]) < PowerIndex(d[1], d[2]))
              <=> (c[1] < d[1] \/ (c[1] = d[1] /\ c[2] < d[2]))
        /\ (PowerIndex(d[1], d[2]) < PowerIndex(c[1], c[2]))
              <=> (d[1] < c[1] \/ (d[1] = c[1] /\ d[2] < c[2]))
    BY <2>1, Sizes, Strided DEF PowerIndex
  <2>3. PowerIndex(c[1], c[2]) \in Nat /\ PowerIndex(d[1], d[2]) \in Nat
    BY <2>1, Sizes DEF PowerIndex
  <2>4. PowerIndex(c[1], c[2]) = PowerIndex(d[1], d[2]) => c[1] = d[1] /\ c[2] = d[2]
    BY <2>1, <2>2, <2>3
  <2> QED  BY <2>1, <2>2, <2>3, <2>4
<1> QED  BY <1>1, <1>2
-----------------------------------------------------------------------------
(***************************************************************************)
(* The training window.                                                    *)
(***************************************************************************)

\* A stretch of cells on both sides of one.
Span(center, half) == center - half .. center + half

\* At a cell under test nothing wraps around: the loops and the comparisons of
\* size_t describe rectangles inside the map.
LEMMA Windows ==
    ASSUME NEW cut \in Cuts
    PROVE  /\ cut[1] \in Nat /\ cut[2] \in Nat /\ cut = <<cut[1], cut[2]>>
           /\ Span(cut[1], HalfRange) \subseteq Ranges
           /\ Span(cut[2], HalfDoppler) \subseteq Dopplers
           /\ Around(cut, HalfRange, HalfDoppler) =
                 Span(cut[1], HalfRange) \X Span(cut[2], HalfDoppler)
           /\ Around(cut, G_Range, G_Doppler) =
                 Span(cut[1], G_Range) \X Span(cut[2], G_Doppler)
           /\ TrainingCells(cut) =
                 Around(cut, HalfRange, HalfDoppler) \ Around(cut, G_Range, G_Doppler)
<1>1. /\ cut[1] \in Nat /\ cut[2] \in Nat /\ cut = <<cut[1], cut[2]>>
      /\ cut[1] >= HalfRange /\ cut[1] < RangeBins - HalfRange
      /\ cut[2] >= HalfDoppler /\ cut[2] < DopplerBins - HalfDoppler
  BY CutBounds, Sizes DEF Cuts
<1>2. /\ Span(cut[1], HalfRange) \subseteq Ranges
      /\ Span(cut[2], HalfDoppler) \subseteq Dopplers
      /\ Span(cut[1], G_Range) \subseteq Span(cut[1], HalfRange)
      /\ Span(cut[2], G_Doppler) \subseteq Span(cut[2], HalfDoppler)
  BY <1>1, Sizes DEF Span, Ranges, Dopplers
<1>3. ASSUME NEW range \in Nat, NEW doppler \in Nat,
             Span(cut[1], range) \subseteq Ranges, Span(cut[2], doppler) \subseteq Dopplers
      PROVE  Around(cut, range, doppler) = Span(cut[1], range) \X Span(cut[2], doppler)
  <2>1. ASSUME NEW c \in Ranges \X Dopplers
        PROVE  c \in Around(cut, range, doppler)
                 <=> c \in Span(cut[1], range) \X Span(cut[2], doppler)
    <3>1. c[1] \in Nat /\ c[2] \in Nat /\ c = <<c[1], c[2]>>
      BY DEF Ranges, Dopplers
    <3>2. Distance(c[1], cut[1]) <= range <=> c[1] \in Span(cut[1], range)
      BY <3>1, <1>1 DEF Distance, Span
    <3>3. Distance(c[2], cut[2]) <= doppler <=> c[2] \in Span(cut[2], doppler)
      BY <3>1, <1>1 DEF Distance, Span
    <3>4. c \in Around(cut, range, doppler)
             <=> Distance(c[1], cut[1]) <= range /\ Distance(c[2], cut[2]) <= doppler
      BY DEF Around
    <3>5. c \in Span(cut[1], range) \X Span(cut[2], doppler)
             <=> c[1] \in Span(cut[1], range) /\ c[2] \in Span(cut[2], doppler)
      BY <3>1
    <3> QED  BY <3>2, <3>3, <3>4, <3>5
  <2>2. Around(cut, range, doppler) \subseteq Ranges \X Dopplers
    BY DEF Around
  <2>3. Span(cut[1], range) \X Span(cut[2], doppler) \subseteq Ranges \X Dopplers
    BY <1>3
  <2> QED  BY <2>1, <2>2, <2>3
<1>4. /\ Around(cut, HalfRange, HalfDoppler) =
            Span(cut[1], HalfRange) \X Span(cut[2], HalfDoppler)
      /\ Around(cut, G_Range, G_Doppler) =
            Span(cut[1], G_Range) \X Span(cut[2], G_Doppler)
  BY <1>2, <1>3, Sizes
<1>5. (Minus(cut[1], HalfRange) .. cut[1] + HalfRange) \X
         (Minus(cut[2], HalfDoppler) .. cut[2] + HalfDoppler)
            = Around(cut, HalfRange, HalfDoppler)
  BY <1>1, <1>4, Sizes DEF Minus, Span
<1>6. ASSUME NEW c \in Around(cut, HalfRange, HalfDoppler)
      PROVE  Guarded(cut, c) <=> c \in Around(cut, G_Range, G_Doppler)
  <2>1. c[1] \in Nat /\ c[2] \in Nat /\ c = <<c[1], c[2]>>
    BY DEF Around, Ranges, Dopplers
  <2>2. Minus(cut[1], G_Range) = cut[1] - G_Range /\ Minus(cut[2], G_Doppler) = cut[2] - G_Doppler
    BY <1>1, Sizes DEF Minus
  <2>3. c \in Around(cut, G_Range, G_Doppler)
           <=> c[1] \in Span(cut[1], G_Range) /\ c[2] \in Span(cut[2], G_Doppler)
    BY <2>1, <1>4
  <2> QED  BY <2>1, <2>2, <2>3, <1>1, Sizes DEF Guarded, Span
<1>7. TrainingCells(cut) = {c \in Around(cut, HalfRange, HalfDoppler) : ~Guarded(cut, c)}
  BY <1>5 DEF TrainingCells
<1>8. TrainingCells(cut) =
         Around(cut, HalfRange, HalfDoppler) \ Around(cut, G_Range, G_Doppler)
  BY <1>6, <1>7
<1> QED  BY <1>1, <1>2, <1>4, <1>8

\* The training average divides by the number of cells that were added up, and
\* they are as many elements of power_.
LEMMA WindowSize ==
    ASSUME NEW cut \in Cuts
    PROVE  /\ Cardinality(TrainingCells(cut)) = N_Cells
           /\ Cardinality({PowerIndex(cell[1], cell[2]) : cell \in TrainingCells(cut)})
                 = N_Cells
           /\ TrainingCells(cut) \subseteq Ranges \X Dopplers
<1> DEFINE Window == Around(cut, HalfRange, HalfDoppler)
           Inner == Around(cut, G_Range, G_Doppler)
           Places == {PowerIndex(cell[1], cell[2]) : cell \in TrainingCells(cut)}
<1>1. /\ cut[1] \in Nat /\ cut[2] \in Nat
      /\ Window = Span(cut[1], HalfRange) \X Span(cut[2], HalfDoppler)
      /\ Inner = Span(cut[1], G_Range) \X Span(cut[2], G_Doppler)
      /\ TrainingCells(cut) = Window \ Inner
  BY Windows
<1>2. ASSUME NEW center \in Nat, NEW half \in Nat
      PROVE  /\ IsFiniteSet(Span(center, half))
             /\ Cardinality(Span(center, half)) = 2 * half + 1
  <2>1. /\ IsFiniteSet(center - half .. center + half)
        /\ Cardinality(center - half .. center + half) =
              IF center - half > center + half THEN 0
              ELSE (center + half) - (center - half) + 1
    BY FS_Interval, center - half \in Int, center + half \in Int
  <2> QED  BY <2>1 DEF Span
<1>3. ASSUME NEW r \in Nat, NEW d \in Nat
      PROVE  LET cells == Span(cut[1], r) \X Span(cut[2], d)
             IN  IsFiniteSet(cells) /\ Cardinality(cells) = (2 * r + 1) * (2 * d + 1)
  <2>1. /\ IsFiniteSet(Span(cut[1], r)) /\ Cardinality(Span(cut[1], r)) = 2 * r + 1
        /\ IsFiniteSet(Span(cut[2], d)) /\ Cardinality(Span(cut[2], d)) = 2 * d + 1
    BY <1>1, <1>2
  <2>2. /\ IsFiniteSet(Span(cut[1], r) \X Span(cut[2], d))
        /\ Cardinality(Span(cut[1], r) \X Span(cut[2], d)) =
              Cardinality(Span(cut[1], r)) * Cardinality(Span(cut[2], d))
    BY <2>1, FS_Product
  <2> QED  BY <2>1, <2>2
<1>4. /\ IsFiniteSet(Window)
      /\ Cardinality(Window) = (2 * HalfRange + 1) * (2 * HalfDoppler + 1)
  BY <1>1, <1>3, Sizes
<1>5. Cardinality(Inner) = (2 * G_Range + 1) * (2 * G_Doppler + 1)
  BY <1>1, <1>3, Sizes
<1>6. Inner \subseteq Window
  <2>1. /\ Span(cut[1], G_Range) \subseteq Span(cut[1], HalfRange)
        /\ Span(cut[2], G_Doppler) \subseteq Span(cut[2], HalfDoppler)
    BY <1>1, Sizes DEF Span
  <2> QED  BY <1>1, <2>1
<1>7. /\ IsFiniteSet(Window \ Inner)
      /\ Cardinality(Window \ Inner) = Cardinality(Window) - Cardinality(Window \cap Inner)
  BY <1>4, FS_Difference
<1>8. Window \cap Inner = Inner
  BY <1>6
<1>9. IsFiniteSet(TrainingCells(cut)) /\ Cardinality(TrainingCells(cut)) = N_Cells
  BY <1>1, <1>4, <1>5, <1>7, <1>8 DEF N_Cells
<1>10. TrainingCells(cut) \subseteq Ranges \X Dopplers
  BY <1>1 DEF Around
<1>11. Cardinality(Places) = Cardinality(TrainingCells(cut))
  <2> DEFINE place == [cell \in TrainingCells(cut) |-> PowerIndex(cell[1], cell[2])]
  <2>1. place \in [TrainingCells(cut) -> Places]
    OBVIOUS
  <2>2. ASSUME NEW c \in TrainingCells(cut), NEW d \in TrainingCells(cut), place[c] = place[d]
        PROVE  c = d
    <3>1. c \in Nat \X Dopplers /\ d \in Nat \X Dopplers
      BY <1>10 DEF Ranges
    <3>2. PowerIndex(c[1], c[2]) = PowerIndex(d[1], d[2])
      BY <2>2
    <3> QED  BY <3>1, <3>2, Indices
  <2>3. \A i \in Places : \E c \in TrainingCells(cut) : place[c] = i
    OBVIOUS
  <2>4. place \in Bijection(TrainingCells(cut), Places)
    BY <2>1, <2>2, <2>3 DEF Bijection, Injection, Surjection, IsInjective
  <2>5. ExistsBijection(TrainingCells(cut), Places)
    BY <2>4 DEF ExistsBijection
  <2> QED  BY <2>5, <1>9, FS_Bijection
<1> QED  BY <1>9, <1>10, <1>11

\* CFAR's loop is safe in any state: this needs no invariant.
LEMMA SafeLoop ==
    ASSUME todo \cup DOMAIN training \subseteq Cuts
    PROVE  ParallelLoopIsSafe
<1>1. ASSUME NEW cut \in Cuts, NEW cell \in TrainingCells(cut)
      PROVE  cell \in Ranges \X Dopplers /\ PowerIndex(cell[1], cell[2]) < MapSize
  <2>1. cell \in Ranges \X Dopplers
    BY WindowSize
  <2>2. PowerIndex(cell[1], cell[2]) \in 0 .. MapSize - 1
    BY <2>1, Indices
  <2> QED  BY <2>1, <2>2, Sizes
<1>2. ASSUME NEW c \in Cuts, NEW d \in Cuts, PowerIndex(c[1], c[2]) = PowerIndex(d[1], d[2])
      PROVE  c = d
  <2>1. c \in Nat \X Dopplers /\ d \in Nat \X Dopplers
    BY CutBounds DEF Ranges
  <2> QED  BY <2>1, <1>2, Indices
<1>3. \A cut \in Cuts :
         Cardinality({PowerIndex(cell[1], cell[2]) : cell \in TrainingCells(cut)}) = N_Cells
  BY WindowSize
<1> QED  BY <1>1, <1>2, <1>3 DEF ParallelLoopIsSafe

\* What the loop tests is what the definition asks for.
Marked(cut) == Exceeds(power[PowerIndex(cut[1], cut[2])], TrainingSum(cut))

LEMMA MarkedStandsOut ==
    ASSUME NEW cut \in Cuts
    PROVE  Marked(cut) <=> StandsOut(cut)
<1>1. Around(cut, HalfRange, HalfDoppler) \ Around(cut, G_Range, G_Doppler) = TrainingCells(cut)
  BY Windows
<1>2. Cardinality(TrainingCells(cut)) = N_Cells
  BY WindowSize
<1> QED  BY <1>1, <1>2 DEF Marked, StandsOut, Exceeds, TrainingSum
-----------------------------------------------------------------------------
(***************************************************************************)
(* The FFT stages: what each element of the map is computed from.          *)
(***************************************************************************)

\* An element that one iteration assigns to, and no other, has its value.
LEMMA Assigned ==
    ASSUME NEW array, NEW at, NEW value, NEW w \in DOMAIN at,
           at[w] \in DOMAIN array,
           \A v \in DOMAIN at : at[v] = at[w] => v = w
    PROVE  Assign(array, at, value)[at[w]] = value[w]
<1>1. (CHOOSE v \in DOMAIN at : at[v] = at[w]) = w
  OBVIOUS
<1>2. Assign(array, at, value)[at[w]] = value[CHOOSE v \in DOMAIN at : at[v] = at[w]]
  BY DEF Assign
<1> QED  BY <1>1, <1>2

LEMMA AssignDomain ==
    ASSUME NEW array, NEW at, NEW value
    PROVE  DOMAIN Assign(array, at, value) = DOMAIN array
BY DEF Assign

LEMMA VectorSizes ==
    /\ ScanSize = 2 * (RangeBins * DopplerBins)
    /\ ScanSize \in Nat
    /\ RangeBins * DopplerBins \in Nat
    /\ DopplerBins * RangeBins = RangeBins * DopplerBins
<1>1. RangeBins * DopplerBins \in Nat /\ DopplerBins * RangeBins = RangeBins * DopplerBins
  BY Sizes
<1> HIDE DEF ScanSize
<1>2. ScanSize = (RangeBins * DopplerBins) * 2
  BY DEF ScanSize, RxChannels
<1> QED  BY <1>1, <1>2

\* Both layouts give each chirp or Doppler bin, range and antenna a place of
\* its own inside the vector.
LEMMA ScanPlaces ==
    ASSUME NEW c \in Dopplers, NEW s \in Ranges, NEW x \in Rx
    PROVE  /\ ScanIndex(c, s, x) \in 0 .. ScanSize - 1
           /\ \A d \in Dopplers, t \in Ranges, y \in Rx :
                 ScanIndex(d, t, y) = ScanIndex(c, s, x) => d = c /\ t = s /\ y = x
<1>1. c \in 0 .. DopplerBins - 1 /\ s \in 0 .. RangeBins - 1 /\ x \in 0 .. 1
  BY DEF Dopplers, Ranges, Rx, RxChannels
<1>2. RangeBins * c + s \in 0 .. RangeBins * DopplerBins - 1
  BY <1>1, Sizes, StridedBound
<1>3. ScanIndex(c, s, x) = 2 * (RangeBins * c + s) + x
  <2>1. c * RangeBins = RangeBins * c
    BY <1>1, Sizes
  <2> QED  BY <2>1, <1>1, <1>2 DEF ScanIndex, RxChannels
<1>4. ScanIndex(c, s, x) \in 0 .. ScanSize - 1
  BY <1>1, <1>2, <1>3, VectorSizes
<1>5. ASSUME NEW d \in Dopplers, NEW t \in Ranges, NEW y \in Rx,
             ScanIndex(d, t, y) = ScanIndex(c, s, x)
      PROVE  d = c /\ t = s /\ y = x
  <2>1. d \in 0 .. DopplerBins - 1 /\ t \in 0 .. RangeBins - 1 /\ y \in 0 .. 1
    BY DEF Dopplers, Ranges, Rx, RxChannels
  <2>2. RangeBins * d + t \in Nat /\ RangeBins * c + s \in Nat
    BY <1>1, <2>1, Sizes
  <2>3. ScanIndex(d, t, y) = 2 * (RangeBins * d + t) + y
    <3>1. d * RangeBins = RangeBins * d
      BY <2>1, Sizes
    <3> QED  BY <3>1, <2>1, <2>2 DEF ScanIndex, RxChannels
  <2>4. RangeBins * d + t = RangeBins * c + s /\ y = x
    BY <1>1, <1>3, <1>5, <2>1, <2>2, <2>3
  <2>5. ~(RangeBins * d + t < RangeBins * c + s) /\ ~(RangeBins * c + s < RangeBins * d + t)
    BY <2>2, <2>4
  <2>6. ~(d < c \/ (d = c /\ t < s)) /\ ~(c < d \/ (c = d /\ s < t))
    BY <1>1, <2>1, <2>5, Sizes, Strided
  <2> QED  BY <1>1, <2>1, <2>4, <2>6
<1> QED  BY <1>4, <1>5

LEMMA RdmPlaces ==
    ASSUME NEW r \in Ranges, NEW d \in Dopplers, NEW x \in Rx
    PROVE  /\ RdmIndex(r, d, x) \in 0 .. ScanSize - 1
           /\ \A q \in Ranges, e \in Dopplers, y \in Rx :
                 RdmIndex(q, e, y) = RdmIndex(r, d, x) => q = r /\ e = d /\ y = x
<1>1. r \in 0 .. RangeBins - 1 /\ d \in 0 .. DopplerBins - 1 /\ x \in 0 .. 1
  BY DEF Dopplers, Ranges, Rx, RxChannels
<1>2. DopplerBins * r + d \in 0 .. DopplerBins * RangeBins - 1
  BY <1>1, Sizes, StridedBound
<1>3. RdmIndex(r, d, x) = 2 * (DopplerBins * r + d) + x
  <2>1. r * DopplerBins = DopplerBins * r
    BY <1>1, Sizes
  <2> QED  BY <2>1, <1>1, <1>2 DEF RdmIndex, RxChannels
<1>4. RdmIndex(r, d, x) \in 0 .. ScanSize - 1
  BY <1>1, <1>2, <1>3, VectorSizes
<1>5. ASSUME NEW q \in Ranges, NEW e \in Dopplers, NEW y \in Rx,
             RdmIndex(q, e, y) = RdmIndex(r, d, x)
      PROVE  q = r /\ e = d /\ y = x
  <2>1. q \in 0 .. RangeBins - 1 /\ e \in 0 .. DopplerBins - 1 /\ y \in 0 .. 1
    BY DEF Dopplers, Ranges, Rx, RxChannels
  <2>2. DopplerBins * q + e \in Nat /\ DopplerBins * r + d \in Nat
    BY <1>1, <2>1, Sizes
  <2>3. RdmIndex(q, e, y) = 2 * (DopplerBins * q + e) + y
    <3>1. q * DopplerBins = DopplerBins * q
      BY <2>1, Sizes
    <3> QED  BY <3>1, <2>1, <2>2 DEF RdmIndex, RxChannels
  <2>4. DopplerBins * q + e = DopplerBins * r + d /\ y = x
    BY <1>1, <1>3, <1>5, <2>1, <2>2, <2>3
  <2>5. ~(DopplerBins * q + e < DopplerBins * r + d) /\ ~(DopplerBins * r + d < DopplerBins * q + e)
    BY <2>2, <2>4
  <2>6. ~(q < r \/ (q = r /\ e < d)) /\ ~(r < q \/ (r = q /\ d < e))
    BY <1>1, <2>1, <2>5, Sizes, Strided
  <2> QED  BY <1>1, <2>1, <2>4, <2>6
<1> QED  BY <1>4, <1>5
-----------------------------------------------------------------------------
RangeEcho(chirp, range, rx) == [from |-> {<<Len(scenes), chirp, rx>>}, bin |-> range]

\* range_fft_data_ holds the latest scan, chirp by chirp.
RangeEchoes ==
    \A c \in Dopplers, s \in Ranges, x \in Rx :
        range_fft_data[ScanIndex(c, s, x)] = RangeEcho(c, s, x)

\* rdm_ holds the latest scan, the velocities in ascending order.
MapEchoes ==
    \A r \in Ranges, d \in Dopplers, x \in Rx :
        rdm[RdmIndex(r, d, x)] = Echo(r, d - (DopplerBins \div 2), x)

LEMMA WireInOrder ==
    ASSUME NEW c \in Dopplers, NEW s \in Ranges, NEW x \in Rx
    PROVE  IqData[ScanIndex(c, s, x)] = <<Len(scenes), c, x>>
<1> DEFINE W == Rx \X Dopplers \X Ranges
           at == [w \in W |-> ScanIndex(w[2], w[3], w[1])]
           value == [w \in W |-> <<Len(scenes), w[2], w[1]>>]
           blank == Blank(ScanSize, Zero)
<1>1. <<x, c, s>> \in DOMAIN at /\ at[<<x, c, s>>] = ScanIndex(c, s, x)
  OBVIOUS
<1>2. at[<<x, c, s>>] \in DOMAIN blank
  BY <1>1, ScanPlaces DEF Blank
<1>3. ASSUME NEW v \in DOMAIN at, at[v] = at[<<x, c, s>>]
      PROVE  v = <<x, c, s>>
  <2>1. v[1] \in Rx /\ v[2] \in Dopplers /\ v[3] \in Ranges /\ v = <<v[1], v[2], v[3]>>
    OBVIOUS
  <2>2. ScanIndex(v[2], v[3], v[1]) = ScanIndex(c, s, x)
    BY <1>1, <1>3
  <2>3. v[2] = c /\ v[3] = s /\ v[1] = x
    BY <2>1, <2>2, ScanPlaces
  <2> QED  BY <2>1, <2>3
<1> HIDE DEF at, value, blank
<1>4. Assign(blank, at, value)[at[<<x, c, s>>]] = value[<<x, c, s>>]
  BY <1>1, <1>2, <1>3, Assigned
<1>5. IqData = Assign(blank, at, value)
  BY DEF IqData, at, value, blank
<1>6. value[<<x, c, s>>] = <<Len(scenes), c, x>>
  BY DEF value
<1> QED  BY <1>1, <1>4, <1>5, <1>6

LEMMA RangeStage ==
    ASSUME DOMAIN range_fft_data = 0 .. ScanSize - 1, Range_FFT
    PROVE  RangeEchoes'
<1> DEFINE W == Rx \X Dopplers \X Ranges
           at == [w \in W |-> ScanIndex(w[2], w[3], w[1])]
<1>1. range_fft_data' = Assign(range_fft_data, at, RangeSpectra) /\ scenes' = scenes
  BY DEF Range_FFT
<1>2. ASSUME NEW c \in Dopplers, NEW s \in Ranges, NEW x \in Rx
      PROVE  range_fft_data'[ScanIndex(c, s, x)] = RangeEcho(c, s, x)
  <2>1. <<x, c, s>> \in DOMAIN at /\ at[<<x, c, s>>] = ScanIndex(c, s, x)
    OBVIOUS
  <2>2. at[<<x, c, s>>] \in DOMAIN range_fft_data
    BY <2>1, ScanPlaces
  <2>3. ASSUME NEW v \in DOMAIN at, at[v] = at[<<x, c, s>>]
        PROVE  v = <<x, c, s>>
    <3>1. v[1] \in Rx /\ v[2] \in Dopplers /\ v[3] \in Ranges /\ v = <<v[1], v[2], v[3]>>
      OBVIOUS
    <3>2. ScanIndex(v[2], v[3], v[1]) = ScanIndex(c, s, x)
      BY <2>1, <2>3
    <3>3. v[2] = c /\ v[3] = s /\ v[1] = x
      BY <3>1, <3>2, ScanPlaces
    <3> QED  BY <3>1, <3>3
  <2>4. Assign(range_fft_data, at, RangeSpectra)[at[<<x, c, s>>]] = RangeSpectra[<<x, c, s>>]
    <3> DEFINE data == range_fft_data
               value == RangeSpectra
    <3>1. at[<<x, c, s>>] \in DOMAIN data
      BY <2>2
    <3> HIDE DEF at, data, value
    <3>2. Assign(data, at, value)[at[<<x, c, s>>]] = value[<<x, c, s>>]
      BY <2>1, <2>3, <3>1, Assigned
    <3> QED  BY <3>2 DEF data, value
  <2>5. RangeSpectra[<<x, c, s>>] =
           [from |-> {IqData[ScanIndex(c, sample, x)] : sample \in Ranges}, bin |-> s]
    BY DEF RangeSpectra
  <2>6. {IqData[ScanIndex(c, sample, x)] : sample \in Ranges} = {<<Len(scenes), c, x>>}
    <3>1. \A sample \in Ranges : IqData[ScanIndex(c, sample, x)] = <<Len(scenes), c, x>>
      BY WireInOrder
    <3> QED  BY <3>1
  <2> QED  BY <1>1, <2>1, <2>4, <2>5, <2>6 DEF RangeEcho
<1> QED  BY <1>1, <1>2 DEF RangeEchoes, RangeEcho

\* The shift puts velocity 0 in the middle column, since the number of Doppler
\* bins is even.
LEMMA ShiftUndone ==
    ASSUME NEW d \in Dopplers
    PROVE  LET v == d - (DopplerBins \div 2)
           IN  /\ ShiftedBin(d) = IF v < 0 THEN v + DopplerBins ELSE v
               /\ v \in Velocities
               /\ Frequency(ShiftedBin(d)) = v
<1> DEFINE h == DopplerBins \div 2
           v == d - h
<1>1. h \in Nat /\ DopplerBins = 2 * h /\ h > 0
  BY Sizes, ProcessingAssumption
<1>2. d \in 0 .. 2 * h - 1
  BY <1>1 DEF Dopplers
<1> HIDE DEF h
<1>3. CASE d < h
  <2>1. (d + h) % (2 * h) = d + h
    BY <1>1, <1>2, <1>3
  <2>2. ShiftedBin(d) = d + h
    BY <1>1, <2>1 DEF ShiftedBin, h
  <2> QED  BY <1>1, <1>2, <1>3, <2>2 DEF Velocities, Frequency, h
<1>4. CASE d >= h
  <2>1. (d + h) % (2 * h) = d - h
    BY <1>1, <1>2, <1>4
  <2>2. ShiftedBin(d) = d - h
    BY <1>1, <2>1 DEF ShiftedBin, h
  <2> QED  BY <1>1, <1>2, <1>4, <2>2 DEF Velocities, Frequency, h
<1> QED  BY <1>1, <1>2, <1>3, <1>4

LEMMA DopplerStage ==
    ASSUME DOMAIN rdm = 0 .. ScanSize - 1, RangeEchoes, Doppler_FFT
    PROVE  MapEchoes'
<1> DEFINE W == Rx \X Ranges \X Dopplers
           at == [w \in W |-> RdmIndex(w[2], w[3], w[1])]
<1>1. rdm' = Assign(rdm, at, DopplerSpectra) /\ scenes' = scenes
  BY DEF Doppler_FFT
<1>2. ASSUME NEW r \in Ranges, NEW d \in Dopplers, NEW x \in Rx
      PROVE  rdm'[RdmIndex(r, d, x)] = Echo(r, d - (DopplerBins \div 2), x)
  <2>1. <<x, r, d>> \in DOMAIN at /\ at[<<x, r, d>>] = RdmIndex(r, d, x)
    OBVIOUS
  <2>2. at[<<x, r, d>>] \in DOMAIN rdm
    BY <2>1, RdmPlaces
  <2>3. ASSUME NEW v \in DOMAIN at, at[v] = at[<<x, r, d>>]
        PROVE  v = <<x, r, d>>
    <3>1. v[1] \in Rx /\ v[2] \in Ranges /\ v[3] \in Dopplers /\ v = <<v[1], v[2], v[3]>>
      OBVIOUS
    <3>2. RdmIndex(v[2], v[3], v[1]) = RdmIndex(r, d, x)
      BY <2>1, <2>3
    <3>3. v[2] = r /\ v[3] = d /\ v[1] = x
      BY <3>1, <3>2, RdmPlaces
    <3> QED  BY <3>1, <3>3
  <2>4. Assign(rdm, at, DopplerSpectra)[at[<<x, r, d>>]] = DopplerSpectra[<<x, r, d>>]
    <3> DEFINE map == rdm
               value == DopplerSpectra
    <3>1. at[<<x, r, d>>] \in DOMAIN map
      BY <2>2
    <3> HIDE DEF at, map, value
    <3>2. Assign(map, at, value)[at[<<x, r, d>>]] = value[<<x, r, d>>]
      BY <2>1, <2>3, <3>1, Assigned
    <3> QED  BY <3>2 DEF map, value
  <2>5. DopplerSpectra[<<x, r, d>>] =
           [from |-> {range_fft_data[ScanIndex(chirp, r, x)] : chirp \in Dopplers},
            bin  |-> ShiftedBin(d)]
    BY DEF DopplerSpectra
  <2>6. {range_fft_data[ScanIndex(chirp, r, x)] : chirp \in Dopplers} =
           {RangeEcho(chirp, r, x) : chirp \in Dopplers}
    BY DEF RangeEchoes
  <2>7. Echo(r, d - (DopplerBins \div 2), x) =
           [from |-> {RangeEcho(chirp, r, x) : chirp \in Dopplers}, bin |-> ShiftedBin(d)]
    BY ShiftUndone DEF Echo, RangeEcho
  <2> QED  BY <1>1, <2>1, <2>4, <2>5, <2>6, <2>7
<1>3. ASSUME NEW r, NEW v, NEW x
      PROVE  Echo(r, v, x)' = Echo(r, v, x)
  BY <1>1 DEF Echo
<1>4. ASSUME NEW r \in Ranges, NEW d \in Dopplers, NEW x \in Rx
      PROVE  (rdm[RdmIndex(r, d, x)] = Echo(r, d - (DopplerBins \div 2), x))'
  BY <1>2, <1>3
<1> QED  BY <1>4 DEF MapEchoes

LEMMA LastOf ==
    ASSUME NEW S, NEW s \in Seq(S), s # <<>>
    PROVE  s[Len(s)] \in S
<1>1. Len(s) \in 1 .. Len(s)
  OBVIOUS
<1> QED  BY <1>1

\* The norm of what both stages made of a cell is the power of the scene there.
LEMMA NormOfEcho ==
    ASSUME NEW r \in Ranges, NEW d \in Dopplers, NEW x \in Rx
    PROVE  LET v == d - (DopplerBins \div 2)
           IN  Norm(Echo(r, v, x)) = scenes[Len(scenes)][<<r, v>>]
<1> DEFINE v == d - (DopplerBins \div 2)
           n == Len(scenes)
<1>1. v \in Velocities /\ Frequency(ShiftedBin(d)) = v
      /\ ShiftedBin(d) = IF v < 0 THEN v + DopplerBins ELSE v
  BY ShiftUndone
<1>2. PICK z : z = Echo(r, v, x)
  OBVIOUS
<1>3. z.bin = ShiftedBin(d)
  BY <1>1, <1>2 DEF Echo
<1>4. z.from = {RangeEcho(chirp, r, x) : chirp \in Dopplers}
  BY <1>2 DEF Echo, RangeEcho
<1>5. RangeEcho(0, r, x) \in z.from
  <2>1. 0 \in Dopplers
    BY Sizes, ProcessingAssumption DEF Dopplers
  <2> QED  BY <1>4, <2>1
<1>6. z # Zero
  <2>1. Zero.from = {}
    BY DEF Zero
  <2> QED  BY <1>5, <2>1
<1>7. PICK line : line = CHOOSE l \in z.from : TRUE
  OBVIOUS
<1>8. line \in z.from
  BY <1>5, <1>7, Zenon
<1>9. PICK chirp \in Dopplers : line = RangeEcho(chirp, r, x)
  BY <1>4, <1>8
<1>10. line.bin = r /\ line.from = {<<n, chirp, x>>}
  BY <1>9 DEF RangeEcho
<1>11. PICK iq : iq = CHOOSE s \in line.from : TRUE
  OBVIOUS
<1>12. iq = <<n, chirp, x>>
  <2>1. <<n, chirp, x>> \in line.from
    BY <1>10
  <2>2. iq \in line.from
    BY <1>11, <2>1, Zenon
  <2> QED  BY <1>10, <2>2
<1>13. Norm(z) = scenes[iq[1]][<<line.bin, Frequency(z.bin)>>]
  BY <1>6, <1>7, <1>11, Zenon DEF Norm
<1>14. iq[1] = n
  BY <1>12
<1>15. Frequency(z.bin) = v
  BY <1>1, <1>3
<1> QED  BY <1>2, <1>10, <1>13, <1>14, <1>15

\* The power of a cell is what the latest scene has there, once per antenna.
LEMMA PowerOfCell ==
    ASSUME MapEchoes, scenes \in Seq([Ranges \X Velocities -> Nat]), scenes # <<>>,
           NEW r \in Ranges, NEW d \in Dopplers
    PROVE  LET v == d - (DopplerBins \div 2)
           IN  /\ PowerOf(r, d) = 2 * scenes[Len(scenes)][<<r, v>>]
               /\ PowerOf(r, d) \in Nat
<1> DEFINE v == d - (DopplerBins \div 2)
<1>1. PICK scene : scene = scenes[Len(scenes)]
  OBVIOUS
<1>2. scene \in [Ranges \X Velocities -> Nat]
  BY <1>1, LastOf
<1>3. <<r, v>> \in Ranges \X Velocities
  BY ShiftUndone
<1>4. ASSUME NEW x \in Rx
      PROVE  Norm(rdm[RdmIndex(r, d, x)]) = scene[<<r, v>>]
  <2>1. rdm[RdmIndex(r, d, x)] = Echo(r, v, x)
    BY DEF MapEchoes
  <2>2. Norm(Echo(r, v, x)) = scene[<<r, v>>]
    BY <1>1, NormOfEcho
  <2> QED  BY <2>1, <2>2
<1>5. 0 \in Rx /\ 1 \in Rx
  BY DEF Rx, RxChannels
<1>6. PICK p : p = scene[<<r, v>>]
  OBVIOUS
<1>7. p \in Nat
  BY <1>2, <1>3, <1>6
<1>8. PowerOf(r, d) = p + p
  BY <1>4, <1>5, <1>6 DEF PowerOf
<1>9. p + p = 2 * p
  BY <1>7
<1> QED  BY <1>1, <1>6, <1>7, <1>8, <1>9

LEMMA PowerStage ==
    ASSUME MapEchoes, scenes \in Seq([Ranges \X Velocities -> Nat]), scenes # <<>>,
           DOMAIN power = 0 .. MapSize - 1, power \in [DOMAIN power -> Nat],
           PowerCalculation
    PROVE  /\ power' \in [0 .. MapSize - 1 -> Nat]
           /\ \A r \in Ranges, d \in Dopplers : power'[PowerIndex(r, d)] =
                 2 * scenes[Len(scenes)][<<r, d - (DopplerBins \div 2)>>]
<1> DEFINE W == Ranges \X Dopplers
           at == [w \in W |-> PowerIndex(w[1], w[2])]
           value == [w \in W |-> PowerOf(w[1], w[2])]
<1>1. power' = Assign(power, at, value)
  BY DEF PowerCalculation
<1>2. ASSUME NEW w \in W
      PROVE  value[w] \in Nat
  <2>1. w[1] \in Ranges /\ w[2] \in Dopplers
    OBVIOUS
  <2>2. PowerOf(w[1], w[2]) \in Nat
    BY <2>1, PowerOfCell
  <2> QED  BY <2>2
<1>3. power' \in [0 .. MapSize - 1 -> Nat]
  <2>1. ASSUME NEW i \in DOMAIN power
        PROVE  power'[i] \in Nat
    <3>1. CASE \E w \in DOMAIN at : at[w] = i
      <4>1. PICK w : w = CHOOSE u \in DOMAIN at : at[u] = i
        OBVIOUS
      <4>2. w \in W
        BY <3>1, <4>1
      <4>3. power'[i] = value[w]
        BY <1>1, <3>1, <4>1 DEF Assign
      <4> QED  BY <1>2, <4>2, <4>3
    <3>2. CASE ~\E w \in DOMAIN at : at[w] = i
      BY <1>1, <3>2 DEF Assign
    <3> QED  BY <3>1, <3>2
  <2>2. power' = [i \in DOMAIN power |-> power'[i]]
    BY <1>1 DEF Assign
  <2> QED  BY <2>1, <2>2
<1>4. ASSUME NEW r \in Ranges, NEW d \in Dopplers
      PROVE  power'[PowerIndex(r, d)] = PowerOf(r, d)
  <2>1. <<r, d>> \in DOMAIN at /\ at[<<r, d>>] = PowerIndex(r, d)
        /\ value[<<r, d>>] = PowerOf(r, d)
    OBVIOUS
  <2>2. at[<<r, d>>] \in DOMAIN power
    <3>1. <<r, d>> \in Ranges \X Dopplers
      OBVIOUS
    <3>2. PowerIndex(<<r, d>>[1], <<r, d>>[2]) \in 0 .. MapSize - 1
      BY <3>1, Indices
    <3> QED  BY <3>2, <2>1
  <2>3. ASSUME NEW u \in DOMAIN at, at[u] = at[<<r, d>>]
        PROVE  u = <<r, d>>
    <3>1. u \in Nat \X Dopplers /\ <<r, d>> \in Nat \X Dopplers
      BY DEF Ranges
    <3>2. PowerIndex(u[1], u[2]) = PowerIndex(<<r, d>>[1], <<r, d>>[2])
      BY <2>1, <2>3
    <3> QED  BY <3>1, <3>2, Indices
  <2>4. Assign(power, at, value)[at[<<r, d>>]] = value[<<r, d>>]
    <3> DEFINE p == power
    <3>1. PICK w : w = <<r, d>>
      OBVIOUS
    <3>2. at[w] \in DOMAIN p /\ w \in DOMAIN at
      BY <2>1, <2>2, <3>1
    <3>3. \A u \in DOMAIN at : at[u] = at[w] => u = w
      BY <2>3, <3>1
    <3> HIDE DEF at, p, value
    <3>4. Assign(p, at, value)[at[w]] = value[w]
      BY <3>2, <3>3, Assigned
    <3> QED  BY <3>1, <3>4 DEF p
  <2> QED  BY <1>1, <2>1, <2>4
<1> QED  BY <1>3, <1>4, PowerOfCell
-----------------------------------------------------------------------------
(***************************************************************************)
(* The inductive invariant.                                                *)
(***************************************************************************)

LEMMA SameSum ==
    ASSUME power' = power, NEW cut
    PROVE  TrainingSum(cut)' = TrainingSum(cut)
BY DEF TrainingSum

LEMMA SameMark ==
    ASSUME power' = power, NEW cut
    PROVE  Marked(cut)' <=> Marked(cut)
BY SameSum DEF Marked

\* Lists of detections.
Cell(p) == <<p.range_idx, p.doppler_idx>>

Listed(s) == {Cell(s[i]) : i \in DOMAIN s}

Ascending(s) ==
    \A i, j \in DOMAIN s :
        i < j => PowerIndex(s[i].range_idx, s[i].doppler_idx)
                   < PowerIndex(s[j].range_idx, s[j].doppler_idx)

Before(cut) == {c \in Cuts : PowerIndex(c[1], c[2]) < PowerIndex(cut[1], cut[2])}

LEMMA CutCells ==
    ASSUME NEW c \in Cuts
    PROVE  c \in Nat \X Dopplers /\ c \in Ranges \X Dopplers /\ c = <<c[1], c[2]>>
BY CutBounds DEF Ranges

LEMMA AppendListed ==
    ASSUME NEW s \in Seq(DetectionSet), NEW e \in DetectionSet
    PROVE  /\ Append(s, e) \in Seq(DetectionSet)
           /\ Listed(Append(s, e)) = Listed(s) \cup {Cell(e)}
           /\ Ascending(s)
                 /\ (\A c \in Listed(s) : PowerIndex(c[1], c[2])
                                            < PowerIndex(e.range_idx, e.doppler_idx))
              => Ascending(Append(s, e))
<1> DEFINE t == Append(s, e)
<1>1. /\ t \in Seq(DetectionSet)
      /\ DOMAIN s = 1 .. Len(s) /\ DOMAIN t = 1 .. Len(s) + 1 /\ Len(s) \in Nat
      /\ \A i \in DOMAIN s : t[i] = s[i]
      /\ t[Len(s) + 1] = e
  OBVIOUS
<1> HIDE DEF t
<1>2. \A i \in DOMAIN t : i \in DOMAIN s \/ i = Len(s) + 1
  BY <1>1
<1>3. Listed(t) = Listed(s) \cup {Cell(e)}
  <2>1. ASSUME NEW c \in Listed(t)
        PROVE  c \in Listed(s) \cup {Cell(e)}
    BY <1>1, <1>2, <2>1 DEF Listed
  <2>2. ASSUME NEW c \in Listed(s)
        PROVE  c \in Listed(t)
    <3>1. PICK i \in DOMAIN s : c = Cell(s[i])
      BY <2>2 DEF Listed
    <3>2. i \in DOMAIN t /\ t[i] = s[i]
      BY <1>1
    <3> QED  BY <3>1, <3>2 DEF Listed
  <2>3. Cell(e) \in Listed(t)
    <3>1. Len(s) + 1 \in DOMAIN t
      BY <1>1
    <3> QED  BY <1>1, <3>1 DEF Listed
  <2> QED  BY <2>1, <2>2, <2>3
<1>4. ASSUME Ascending(s),
             \A c \in Listed(s) : PowerIndex(c[1], c[2])
                                    < PowerIndex(e.range_idx, e.doppler_idx)
      PROVE  Ascending(t)
  <2>1. ASSUME NEW i \in DOMAIN t, NEW j \in DOMAIN t, i < j
        PROVE  PowerIndex(t[i].range_idx, t[i].doppler_idx)
                 < PowerIndex(t[j].range_idx, t[j].doppler_idx)
    <3>1. i \in DOMAIN s /\ t[i] = s[i]
      BY <1>1, <2>1
    <3>2. CASE j \in DOMAIN s
      BY <1>1, <1>4, <2>1, <3>1, <3>2 DEF Ascending
    <3>3. CASE j = Len(s) + 1
      <4>1. Cell(s[i]) \in Listed(s)
        BY <3>1 DEF Listed
      <4>2. Cell(s[i])[1] = s[i].range_idx /\ Cell(s[i])[2] = s[i].doppler_idx
        BY DEF Cell
      <4>3. t[j] = e
        BY <1>1, <3>3
      <4> QED  BY <1>4, <3>1, <4>1, <4>2, <4>3
    <3> QED  BY <1>2, <3>2, <3>3
  <2> QED  BY <2>1 DEF Ascending
<1> QED  BY <1>1, <1>3, <1>4 DEF t

\* An ascending list has each cell once: it is no longer than there are cells
\* under test.
LEMMA AscendingLength ==
    ASSUME NEW s \in Seq(DetectionSet), Ascending(s)
    PROVE  Len(s) <= Cardinality(Cuts)
<1> DEFINE D == 1 .. Len(s)
           f == [i \in D |-> Cell(s[i])]
<1>1. Len(s) \in Nat /\ DOMAIN s = D
  OBVIOUS
<1>2. ASSUME NEW i \in D
      PROVE  f[i] \in Cuts /\ f[i] = Cell(s[i])
  <2>1. s[i] \in DetectionSet
    BY <1>1
  <2>2. s[i].range_idx \in CutRanges /\ s[i].doppler_idx \in CutDopplers
    BY <2>1 DEF DetectionSet
  <2> QED  BY <2>2 DEF Cell, Cuts
<1>3. ASSUME NEW i \in D, NEW j \in D, i < j
      PROVE  f[i] # f[j]
  <2>1. /\ s[i].range_idx = f[i][1] /\ s[i].doppler_idx = f[i][2]
        /\ s[j].range_idx = f[j][1] /\ s[j].doppler_idx = f[j][2]
    BY <1>2 DEF Cell
  <2>2. PowerIndex(f[i][1], f[i][2]) < PowerIndex(f[j][1], f[j][2])
    BY <1>1, <1>3, <2>1 DEF Ascending
  <2>3. PowerIndex(f[i][1], f[i][2]) \in Nat
    BY <1>2, CutCells, Indices
  <2> HIDE DEF f
  <2> QED  BY <2>2, <2>3
<1>4. f \in Injection(D, Cuts)
  <2>1. f \in [D -> Cuts]
    BY <1>2
  <2>2. ASSUME NEW i \in D, NEW j \in D, f[i] = f[j]
        PROVE  i = j
    <3>1. i \in Int /\ j \in Int
      OBVIOUS
    <3> HIDE DEF f
    <3> QED  BY <1>3, <2>2, <3>1
  <2> HIDE DEF f
  <2> QED  BY <2>1, <2>2 DEF Injection, IsInjective
<1>5. IsFiniteSet(Cuts)
  <2>1. IsFiniteSet(CutRanges) /\ IsFiniteSet(CutDopplers)
    BY CutBounds, Sizes, FS_Interval
  <2> QED  BY <2>1, FS_Product DEF Cuts
<1>6. Cardinality(D) = Len(s)
  BY <1>1, FS_Interval
<1> HIDE DEF f, D
<1> QED  BY <1>4, <1>5, <1>6, FS_Injection

\* The order of the collecting loops.
LEMMA FirstCut ==
    /\ <<HalfRange, HalfDoppler>> \in Cuts
    /\ Before(<<HalfRange, HalfDoppler>>) = {}
<1>1. <<HalfRange, HalfDoppler>> \in Cuts
  BY CutBounds, Sizes DEF Cuts
<1>2. ASSUME NEW c \in Cuts
      PROVE  c \notin Before(<<HalfRange, HalfDoppler>>)
  <2>1. c[1] >= HalfRange /\ c[2] >= HalfDoppler /\ c[1] \in Nat /\ c[2] \in Nat
    BY CutBounds, CutCells, Sizes DEF Cuts, Dopplers
  <2>2. ~(c[1] < HalfRange \/ (c[1] = HalfRange /\ c[2] < HalfDoppler))
    BY <2>1, Sizes
  <2>3. PICK first : first = <<HalfRange, HalfDoppler>>
    OBVIOUS
  <2>4. first[1] = HalfRange /\ first[2] = HalfDoppler /\ first \in Nat \X Dopplers
    BY <1>1, <2>3, CutCells
  <2>5. ~(PowerIndex(c[1], c[2]) < PowerIndex(first[1], first[2]))
    BY <2>2, <2>4, CutCells, Indices
  <2> QED  BY <2>3, <2>5 DEF Before
<1> QED  BY <1>1, <1>2 DEF Before

LEMMA NextCut ==
    ASSUME NEW cut \in Cuts
    PROVE  IF Successor(cut)[1] \in CutRanges
           THEN /\ Successor(cut) \in Cuts
                /\ Before(Successor(cut)) = Before(cut) \cup {cut}
           ELSE Cuts = Before(cut) \cup {cut}
<1> DEFINE Less(c, d) == c[1] < d[1] \/ (c[1] = d[1] /\ c[2] < d[2])
<1>1. ASSUME NEW d \in Nat \X Dopplers
      PROVE  Before(d) = {c \in Cuts : Less(c, d)}
  <2>1. \A c \in Cuts : PowerIndex(c[1], c[2]) < PowerIndex(d[1], d[2]) <=> Less(c, d)
    BY CutCells, Indices
  <2> QED  BY <2>1 DEF Before
<1>2. /\ CutRanges = HalfRange .. RangeBins - HalfRange - 1
      /\ CutDopplers = HalfDoppler .. DopplerBins - HalfDoppler - 1
  BY CutBounds
<1>3. ASSUME NEW c \in Cuts
      PROVE  c[1] \in CutRanges /\ c[2] \in CutDopplers /\ c = <<c[1], c[2]>>
             /\ c[1] \in Nat /\ c[2] \in Nat
  BY CutCells, CutBounds DEF Cuts, Dopplers
<1>4. CASE cut[2] + 1 \in CutDopplers
  <2>1. PICK next : next = <<cut[1], cut[2] + 1>>
    OBVIOUS
  <2>2. Successor(cut) = next /\ next[1] = cut[1] /\ next[2] = cut[2] + 1
    BY <1>4, <2>1 DEF Successor
  <2>3. next \in Cuts /\ next[1] \in CutRanges
    BY <1>3, <1>4, <2>1 DEF Cuts
  <2>4. ASSUME NEW c \in Cuts
        PROVE  Less(c, next) <=> Less(c, cut) \/ c = cut
    BY <1>3, <2>2
  <2>5. Before(next) = Before(cut) \cup {cut}
    BY <1>1, <2>3, <2>4, CutCells
  <2> QED  BY <2>2, <2>3, <2>5
<1>5. CASE cut[2] + 1 \notin CutDopplers
  <2>1. PICK next : next = <<cut[1] + 1, HalfDoppler>>
    OBVIOUS
  <2>2. Successor(cut) = next /\ next[1] = cut[1] + 1 /\ next[2] = HalfDoppler
    BY <1>5, <2>1 DEF Successor
  <2>3. ASSUME NEW c \in Cuts
        PROVE  c[2] >= HalfDoppler /\ c[2] <= cut[2]
    <3>1. PICK low, high : low = HalfDoppler /\ high = DopplerBins - HalfDoppler - 1
      OBVIOUS
    <3>2. /\ low \in Nat /\ high \in Int
          /\ c[2] \in Nat /\ low <= c[2] /\ c[2] <= high
          /\ cut[2] \in Nat /\ low <= cut[2]
      BY <1>2, <1>3, <3>1, Sizes
    <3>3. ~(low <= cut[2] + 1 /\ cut[2] + 1 <= high)
      BY <1>2, <1>5, <3>1, <3>2
    <3> QED  BY <3>1, <3>2, <3>3
  <2>4. CASE next[1] \in CutRanges
    <3>1. next \in Cuts
      BY <1>2, <2>1, <2>2, <2>4, Sizes DEF Cuts
    <3>2. ASSUME NEW c \in Cuts
          PROVE  Less(c, next) <=> Less(c, cut) \/ c = cut
      BY <1>3, <2>2, <2>3, Sizes
    <3>3. Before(next) = Before(cut) \cup {cut}
      BY <1>1, <3>1, <3>2, CutCells
    <3> QED  BY <2>2, <2>4, <3>1, <3>3
  <2>5. CASE next[1] \notin CutRanges
    <3>1. ASSUME NEW c \in Cuts
          PROVE  c[1] <= cut[1]
      <4>1. PICK low, high : low = HalfRange /\ high = RangeBins - HalfRange - 1
        OBVIOUS
      <4>2. /\ low \in Nat /\ high \in Int
            /\ c[1] \in Nat /\ c[1] <= high
            /\ cut[1] \in Nat /\ low <= cut[1]
        BY <1>2, <1>3, <4>1, Sizes
      <4>3. ~(low <= cut[1] + 1 /\ cut[1] + 1 <= high)
        BY <1>2, <2>2, <2>5, <4>1, <4>2
      <4> QED  BY <4>2, <4>3
    <3>2. ASSUME NEW c \in Cuts
          PROVE  Less(c, cut) \/ c = cut
      BY <1>3, <2>3, <3>1
    <3>3. Cuts = Before(cut) \cup {cut}
      BY <1>1, <3>2, CutCells
    <3> QED  BY <2>2, <2>5, <3>3
  <2> QED  BY <2>4, <2>5
<1> QED  BY <1>4, <1>5
-----------------------------------------------------------------------------
Listing == {"detected", "clustered", "peaks", "angles"}

Types ==
    /\ stage \in Stages
    /\ scenes \in Seq([Ranges \X Velocities -> Nat])
    /\ DOMAIN range_fft_data = 0 .. ScanSize - 1
    /\ DOMAIN rdm = 0 .. ScanSize - 1
    /\ power \in [0 .. MapSize - 1 -> Nat]
    /\ detections \in [0 .. MapSize - 1 -> {0, 1}]
    /\ todo \subseteq Cuts
    /\ DOMAIN training \subseteq Cuts \ todo
    /\ next_cut \in Nat \X Nat
    /\ detected_points \in Seq(DetectionSet)

\* What the FFT stages have done so far shows the latest scan.
Echoes ==
    /\ stage # "idle" => scenes # <<>>
    /\ stage = "range" => RangeEchoes
    /\ stage = "rdm" => MapEchoes

Mark(c) == detections[PowerIndex(c[1], c[2])]

\* An iteration that a thread is in has its sum; one that has not ended has
\* left no mark; one that has ended has marked its cell if it is to be marked.
Loop ==
    /\ stage # "parallel" => todo = {} /\ DOMAIN training = {}
    /\ stage = "parallel" =>
          /\ \A c \in DOMAIN training : training[c] = TrainingSum(c)
          /\ \A c \in todo \cup DOMAIN training : Mark(c) = 0
    /\ stage \in Listing \cup {"parallel", "collecting"} =>
          \A c \in Cuts \ (todo \cup DOMAIN training) : Mark(c) = 1 <=> Marked(c)

\* The cells the collecting loops have passed are listed if they are marked.
Collected ==
    /\ Ascending(detected_points)
    /\ stage = "parallel" => detected_points = <<>>
    /\ stage = "collecting" =>
          /\ next_cut \in Cuts
          /\ Listed(detected_points) = {c \in Before(next_cut) : Marked(c)}
    /\ stage \in Listing => Listed(detected_points) = {c \in Cuts : Marked(c)}

IInv == Types /\ Echoes /\ Loop /\ Collected

LEMMA InitIInv == Init => IInv
<1> SUFFICES ASSUME Init PROVE IInv
  OBVIOUS
<1>1. Types
  <2>1. MapSize \in Nat /\ <<HalfRange, HalfDoppler>> \in Nat \X Nat
    BY Sizes
  <2> QED  BY <2>1 DEF Init, Types, Stages, Blank
<1>2. Echoes
  BY DEF Init, Echoes
<1>3. Loop
  BY DEF Init, Loop, Listing
<1>4. Collected
  BY DEF Init, Collected, Listing, Ascending
<1> QED  BY <1>1, <1>2, <1>3, <1>4 DEF IInv

\* A step that leaves the loop, the power map and the lists alone.
Outside ==
    /\ scenes' = scenes \/ scenes' # <<>>
    /\ scenes' \in Seq([Ranges \X Velocities -> Nat])
    /\ DOMAIN range_fft_data' = 0 .. ScanSize - 1
    /\ DOMAIN rdm' = 0 .. ScanSize - 1
    /\ stage' \in Stages
    /\ stage # "parallel" /\ stage' \notin {"parallel", "collecting"}
    /\ stage' \in Listing => stage \in Listing
    /\ stage' # "idle" => stage # "idle" \/ scenes' # <<>>
    /\ UNCHANGED <<power, detections, todo, training, next_cut, detected_points>>

LEMMA OutsideKeeps ==
    ASSUME IInv, Outside
    PROVE  Types' /\ Loop' /\ Collected' /\ (stage # "idle" => scenes # <<>>)'
<1>1. Types'
  BY DEF IInv, Outside, Types
<1>2. \A c : Marked(c)' <=> Marked(c)
  BY SameMark DEF Outside
<1>3. Loop'
  BY <1>2 DEF IInv, Outside, Loop, Mark, Listing
<1>4. Collected'
  BY <1>2 DEF IInv, Outside, Collected, Listing
<1>5. (stage # "idle" => scenes # <<>>)'
  BY DEF IInv, Outside, Echoes
<1> QED  BY <1>1, <1>3, <1>4, <1>5

LEMMA TakeFrameKeeps ==
    ASSUME IInv, NEW scene \in Scenes, TakeFrame(scene)
    PROVE  IInv'
<1>1. scenes' \in Seq([Ranges \X Velocities -> Nat]) /\ scenes' # <<>>
  <2>1. scene \in [Ranges \X Velocities -> Nat]
    BY ProcessingAssumption
  <2>2. PICK A : A = [Ranges \X Velocities -> Nat]
    OBVIOUS
  <2>3. scenes \in Seq(A) /\ scene \in A /\ scenes' = Append(scenes, scene)
    BY <2>1, <2>2 DEF IInv, Types, TakeFrame
  <2>4. scenes' \in Seq(A) /\ Len(scenes') = Len(scenes) + 1 /\ Len(scenes) \in Nat
    BY <2>3
  <2> QED  BY <2>2, <2>4
<1>2. Outside
  BY <1>1 DEF IInv, Types, TakeFrame, Outside, Stages, Listing
<1>3. stage' = "scan"
  BY DEF TakeFrame
<1> QED  BY <1>2, <1>3, OutsideKeeps DEF IInv, Echoes

LEMMA Range_FFTKeeps ==
    ASSUME IInv, Range_FFT
    PROVE  IInv'
<1>1. DOMAIN range_fft_data' = 0 .. ScanSize - 1
  BY AssignDomain DEF IInv, Types, Range_FFT
<1>2. Outside
  BY <1>1 DEF IInv, Types, Range_FFT, Outside, Stages, Listing
<1>3. RangeEchoes'
  BY RangeStage DEF IInv, Types
<1>4. stage' = "range"
  BY DEF Range_FFT
<1> QED  BY <1>2, <1>3, <1>4, OutsideKeeps DEF IInv, Echoes

LEMMA Doppler_FFTKeeps ==
    ASSUME IInv, Doppler_FFT
    PROVE  IInv'
<1>1. DOMAIN rdm' = 0 .. ScanSize - 1
  BY AssignDomain DEF IInv, Types, Doppler_FFT
<1>2. Outside
  BY <1>1 DEF IInv, Types, Doppler_FFT, Outside, Stages, Listing
<1>3. MapEchoes'
  BY DopplerStage DEF IInv, Types, Echoes, Doppler_FFT
<1>4. stage' = "rdm"
  BY DEF Doppler_FFT
<1> QED  BY <1>2, <1>3, <1>4, OutsideKeeps DEF IInv, Echoes

\* The stages after CFAR.
LEMMA LaterKeeps ==
    ASSUME IInv,
           \/ \E label \in [DOMAIN detected_points -> 0 .. MaxClusters] : ScanClusters(label)
           \/ PeakDetection
           \/ AngleEstimation
           \/ TargetConversion
    PROVE  IInv'
<1>1. /\ UNCHANGED <<scenes, range_fft_data, rdm, power, detections, todo, training,
                     next_cut, detected_points>>
      /\ stage \in Listing
      /\ stage' \in {"clustered", "peaks", "angles", "idle"}
  BY DEF ScanClusters, PeakDetection, AngleEstimation, TargetConversion, Listing
<1>2. Outside
  BY <1>1 DEF IInv, Types, Outside, Stages, Listing
<1> QED  BY <1>1, <1>2, OutsideKeeps DEF IInv, Echoes

LEMMA BeginCFARKeeps ==
    ASSUME IInv, BeginCFAR
    PROVE  IInv'
<1>1. power' \in [0 .. MapSize - 1 -> Nat]
  <2>1. /\ MapEchoes /\ PowerCalculation /\ scenes # <<>>
        /\ scenes \in Seq([Ranges \X Velocities -> Nat])
        /\ power \in [0 .. MapSize - 1 -> Nat]
    BY DEF IInv, Types, Echoes, BeginCFAR
  <2>2. DOMAIN power = 0 .. MapSize - 1 /\ power \in [DOMAIN power -> Nat]
    BY <2>1
  <2> QED  BY <2>1, <2>2, PowerStage
<1>2. /\ detections' = Blank(MapSize, 0) /\ detected_points' = <<>> /\ todo' = Cuts
      /\ stage = "rdm" /\ stage' = "parallel"
      /\ UNCHANGED <<next_cut, scenes, range_fft_data, rdm, training>>
  BY DEF BeginCFAR
<1>3. DOMAIN training = {}
  BY <1>2 DEF IInv, Loop
<1>4. Types'
  BY <1>1, <1>2, <1>3 DEF IInv, Types, Stages, Blank
<1>5. Echoes'
  BY <1>2 DEF IInv, Echoes
<1>6. Loop'
  <2>1. ASSUME NEW c \in Cuts
        PROVE  detections'[PowerIndex(c[1], c[2])] = 0
    BY <1>2, CutCells, Indices DEF Blank
  <2> QED  BY <1>2, <1>3, <2>1 DEF Loop, Mark
<1>7. Collected'
  BY <1>2 DEF Collected, Ascending, Listing
<1> QED  BY <1>4, <1>5, <1>6, <1>7 DEF IInv

LEMMA SumTrainingKeeps ==
    ASSUME IInv, NEW cut \in Cuts, SumTraining(cut)
    PROVE  IInv'
<1>1. /\ stage = "parallel" /\ stage' = "parallel"
      /\ cut \in todo /\ todo' = todo \ {cut}
      /\ training' = [c \in DOMAIN training \cup {cut} |->
                         IF c = cut THEN TrainingSum(cut) ELSE training[c]]
      /\ UNCHANGED <<next_cut, scenes, range_fft_data, rdm, power, detections, detected_points>>
  BY DEF SumTraining
<1>2. /\ DOMAIN training' = DOMAIN training \cup {cut}
      /\ todo' \cup DOMAIN training' = todo \cup DOMAIN training
  BY <1>1
<1>3. Types'
  BY <1>1, <1>2 DEF IInv, Types
<1>4. Echoes'
  BY <1>1 DEF IInv, Echoes
<1>5. \A c : TrainingSum(c)' = TrainingSum(c) /\ (Marked(c)' <=> Marked(c)) /\ Mark(c)' = Mark(c)
  BY <1>1, SameSum, SameMark DEF Mark
<1>6. \A c \in DOMAIN training' : training'[c] = TrainingSum(c)
  BY <1>1, <1>2 DEF IInv, Loop
<1>7. Loop'
  BY <1>1, <1>2, <1>5, <1>6 DEF IInv, Loop, Listing
<1>8. Collected'
  BY <1>1 DEF IInv, Collected, Listing
<1> QED  BY <1>3, <1>4, <1>7, <1>8 DEF IInv

LEMMA MarkDetectionKeeps ==
    ASSUME IInv, NEW cut \in Cuts, MarkDetection(cut)
    PROVE  IInv'
<1> DEFINE index == PowerIndex(cut[1], cut[2])
<1>1. /\ stage = "parallel" /\ stage' = "parallel"
      /\ cut \in DOMAIN training
      /\ training' = [c \in DOMAIN training \ {cut} |-> training[c]]
      /\ UNCHANGED <<next_cut, scenes, range_fft_data, rdm, power, todo, detected_points>>
      /\ detections' = IF Exceeds(power[index], training[cut])
                       THEN [detections EXCEPT ![index] = 1]
                       ELSE detections
  BY DEF MarkDetection
<1>2. training[cut] = TrainingSum(cut) /\ Mark(cut) = 0
  BY <1>1 DEF IInv, Loop
<1>3. detections' = IF Marked(cut) THEN [detections EXCEPT ![index] = 1] ELSE detections
  BY <1>1, <1>2 DEF Marked
<1>4. /\ detections \in [0 .. MapSize - 1 -> {0, 1}]
      /\ index \in 0 .. MapSize - 1
  BY CutCells, Indices DEF IInv, Types
<1>5. /\ DOMAIN training' = DOMAIN training \ {cut}
      /\ cut \notin todo
      /\ todo' \cup DOMAIN training' = (todo \cup DOMAIN training) \ {cut}
  BY <1>1 DEF IInv, Types
<1>6. ASSUME NEW c \in Cuts, c # cut
      PROVE  Mark(c)' = Mark(c)
  <2>1. PowerIndex(c[1], c[2]) # index
    BY <1>6, CutCells, Indices
  <2> HIDE DEF index
  <2>2. detections'[PowerIndex(c[1], c[2])] = detections[PowerIndex(c[1], c[2])]
    BY <1>3, <1>4, <2>1
  <2> QED  BY <2>2 DEF Mark
<1>7. Mark(cut)' = 1 <=> Marked(cut)
  <2>1. detections[index] = 0
    BY <1>2 DEF Mark
  <2>2. detections'[index] = 1 <=> Marked(cut)
    <3> HIDE DEF index
    <3> QED  BY <1>3, <1>4, <2>1
  <2> QED  BY <2>2 DEF Mark
<1>8. Types'
  <2>1. detections' \in [0 .. MapSize - 1 -> {0, 1}]
    BY <1>3, <1>4
  <2> QED  BY <1>1, <1>5, <2>1 DEF IInv, Types
<1>9. Echoes'
  BY <1>1 DEF IInv, Echoes
<1>10. \A c : TrainingSum(c)' = TrainingSum(c) /\ (Marked(c)' <=> Marked(c))
  BY <1>1, SameSum, SameMark
<1>11. todo \cup DOMAIN training \subseteq Cuts
  BY DEF IInv, Types
<1>12. \A c \in DOMAIN training' : training'[c] = TrainingSum(c)'
  BY <1>1, <1>5, <1>10 DEF IInv, Loop
<1>13. \A c \in todo' \cup DOMAIN training' : Mark(c)' = 0
  BY <1>1, <1>5, <1>6, <1>11 DEF IInv, Loop
<1>14. ASSUME NEW c \in Cuts \ (todo' \cup DOMAIN training')
       PROVE  Mark(c)' = 1 <=> Marked(c)'
  <2>1. CASE c = cut
    BY <1>7, <1>10, <2>1
  <2>2. CASE c # cut
    BY <1>1, <1>5, <1>6, <1>10, <2>2 DEF IInv, Loop
  <2> QED  BY <2>1, <2>2
<1>15. Loop'
  BY <1>1, <1>12, <1>13, <1>14 DEF Loop
<1>16. Collected'
  BY <1>1 DEF IInv, Collected, Listing
<1> QED  BY <1>8, <1>9, <1>15, <1>16 DEF IInv

LEMMA EndParallelKeeps ==
    ASSUME IInv, EndParallel
    PROVE  IInv'
<1>1. /\ stage = "parallel" /\ stage' = "collecting"
      /\ todo = {} /\ DOMAIN training = {}
      /\ next_cut' = <<HalfRange, HalfDoppler>>
      /\ UNCHANGED <<scenes, range_fft_data, rdm, power, detections, todo, training,
                     detected_points>>
  BY DEF EndParallel
<1>2. Types'
  BY <1>1, Sizes DEF IInv, Types, Stages
<1>3. Echoes'
  BY <1>1 DEF IInv, Echoes
<1>4. \A c : (Marked(c)' <=> Marked(c)) /\ Mark(c)' = Mark(c)
  BY <1>1, SameMark DEF Mark
<1>5. Loop'
  BY <1>1, <1>4 DEF IInv, Loop, Listing
<1>6. Collected'
  <2>1. detected_points' = <<>> /\ Ascending(detected_points')
    BY <1>1 DEF IInv, Collected
  <2>2. Listed(detected_points') = {}
    BY <2>1 DEF Listed
  <2>3. next_cut' \in Cuts /\ Before(next_cut') = {}
    BY <1>1, FirstCut
  <2> QED  BY <1>1, <2>1, <2>2, <2>3 DEF Collected, Listing
<1> QED  BY <1>2, <1>3, <1>5, <1>6 DEF IInv

LEMMA CollectDetectionKeeps ==
    ASSUME IInv, CollectDetection
    PROVE  IInv'
<1>1. /\ stage = "collecting"
      /\ detected_points' = IF Mark(next_cut) # 0
                            THEN Append(detected_points, Detection(next_cut))
                            ELSE detected_points
      /\ next_cut' = Successor(next_cut)
      /\ stage' = IF Successor(next_cut)[1] \in CutRanges THEN stage ELSE "detected"
      /\ UNCHANGED <<scenes, range_fft_data, rdm, power, detections, todo, training>>
  BY DEF CollectDetection, Mark
<1>2. /\ next_cut \in Cuts
      /\ Listed(detected_points) = {c \in Before(next_cut) : Marked(c)}
      /\ Ascending(detected_points)
      /\ detected_points \in Seq(DetectionSet)
      /\ todo = {} /\ DOMAIN training = {}
  BY <1>1 DEF IInv, Collected, Loop, Types
<1>3. Mark(next_cut) # 0 <=> Marked(next_cut)
  <2>1. PowerIndex(next_cut[1], next_cut[2]) \in 0 .. MapSize - 1
    BY <1>2, CutCells, Indices
  <2>2. Mark(next_cut) \in {0, 1}
    BY <2>1 DEF IInv, Types, Mark
  <2>3. Mark(next_cut) = 1 <=> Marked(next_cut)
    BY <1>1, <1>2 DEF IInv, Loop
  <2> QED  BY <2>2, <2>3
<1>4. PICK e : e = Detection(next_cut)
  OBVIOUS
<1>5. /\ e \in DetectionSet /\ Cell(e) = next_cut
      /\ e.range_idx = next_cut[1] /\ e.doppler_idx = next_cut[2]
  <2>1. power[PowerIndex(next_cut[1], next_cut[2])] \in Nat
    BY <1>2, CutCells, Indices DEF IInv, Types
  <2>2. next_cut[1] \in CutRanges /\ next_cut[2] \in CutDopplers
        /\ next_cut = <<next_cut[1], next_cut[2]>>
    BY <1>2, CutCells DEF Cuts
  <2> QED  BY <1>4, <2>1, <2>2 DEF Detection, DetectionSet, Cell
<1>6. /\ detected_points' \in Seq(DetectionSet)
      /\ Ascending(detected_points')
      /\ Listed(detected_points') = {c \in Before(next_cut) \cup {next_cut} : Marked(c)}
  <2>1. CASE Marked(next_cut)
    <3>1. detected_points' = Append(detected_points, e)
      BY <1>1, <1>3, <1>4, <2>1
    <3>2. \A c \in Listed(detected_points) :
             PowerIndex(c[1], c[2]) < PowerIndex(e.range_idx, e.doppler_idx)
      BY <1>2, <1>5 DEF Before
    <3>3. /\ detected_points' \in Seq(DetectionSet)
          /\ Listed(detected_points') = Listed(detected_points) \cup {next_cut}
          /\ Ascending(detected_points')
      BY <1>2, <1>5, <3>1, <3>2, AppendListed
    <3> QED  BY <1>2, <2>1, <3>3
  <2>2. CASE ~Marked(next_cut)
    BY <1>1, <1>2, <1>3, <2>2
  <2> QED  BY <2>1, <2>2
<1>7. Types'
  <2>1. next_cut' \in Nat \X Nat
    BY <1>1, <1>2, CutCells, Sizes, SMTT(30) DEF Successor, Dopplers
  <2> QED  BY <1>1, <1>6, <2>1 DEF IInv, Types, Stages
<1>8. Echoes'
  BY <1>1 DEF IInv, Echoes
<1>9. \A c : (Marked(c)' <=> Marked(c)) /\ Mark(c)' = Mark(c)
  BY <1>1, SameMark DEF Mark
<1>10. Loop'
  BY <1>1, <1>9 DEF IInv, Loop, Listing
<1>11. Collected'
  <2>1. CASE Successor(next_cut)[1] \in CutRanges
    <3>1. /\ next_cut' \in Cuts
          /\ Before(next_cut') = Before(next_cut) \cup {next_cut}
          /\ stage' = "collecting"
      BY <1>1, <1>2, <2>1, NextCut
    <3> QED  BY <1>6, <1>9, <3>1 DEF Collected, Listing
  <2>2. CASE Successor(next_cut)[1] \notin CutRanges
    <3>1. Cuts = Before(next_cut) \cup {next_cut} /\ stage' = "detected"
      BY <1>1, <1>2, <2>2, NextCut
    <3> QED  BY <1>6, <1>9, <3>1 DEF Collected, Listing
  <2> QED  BY <2>1, <2>2
<1> QED  BY <1>7, <1>8, <1>10, <1>11 DEF IInv

LEMMA StutterKeeps == IInv /\ UNCHANGED vars => IInv'
<1> SUFFICES ASSUME IInv, UNCHANGED vars PROVE IInv'
  OBVIOUS
<1>1. \A c : TrainingSum(c)' = TrainingSum(c) /\ (Marked(c)' <=> Marked(c)) /\ Mark(c)' = Mark(c)
  BY SameSum, SameMark DEF vars, Mark
<1>2. Types'
  BY DEF IInv, vars, Types
<1>3. Echoes'
  <2>1. RangeEchoes' <=> RangeEchoes
    BY DEF vars, RangeEchoes, RangeEcho
  <2>2. MapEchoes' <=> MapEchoes
    <3>1. \A r, v, x : Echo(r, v, x)' = Echo(r, v, x)
      BY DEF vars, Echo
    <3> QED  BY <3>1 DEF vars, MapEchoes
  <2> QED  BY <2>1, <2>2 DEF IInv, vars, Echoes
<1>4. Loop'
  BY <1>1 DEF IInv, vars, Loop
<1>5. Collected'
  BY <1>1 DEF IInv, vars, Collected
<1> QED  BY <1>2, <1>3, <1>4, <1>5 DEF IInv

\* The invariant is inductive.
THEOREM Invariance == Spec => []IInv
<1>1. ASSUME IInv, Next
      PROVE  IInv'
  <2>1. CASE \E scene \in Scenes : TakeFrame(scene)
    BY <1>1, <2>1, TakeFrameKeeps
  <2>2. CASE Range_FFT
    BY <1>1, <2>2, Range_FFTKeeps
  <2>3. CASE Doppler_FFT
    BY <1>1, <2>3, Doppler_FFTKeeps
  <2>4. CASE BeginCFAR
    BY <1>1, <2>4, BeginCFARKeeps
  <2>5. CASE \E cut \in Cuts : SumTraining(cut) \/ MarkDetection(cut)
    BY <1>1, <2>5, SumTrainingKeeps, MarkDetectionKeeps
  <2>6. CASE EndParallel
    BY <1>1, <2>6, EndParallelKeeps
  <2>7. CASE CollectDetection
    BY <1>1, <2>7, CollectDetectionKeeps
  <2>8. CASE \/ \E label \in [DOMAIN detected_points -> 0 .. MaxClusters] : ScanClusters(label)
             \/ PeakDetection
             \/ AngleEstimation
             \/ TargetConversion
    BY <1>1, <2>8, LaterKeeps
  <2> QED  BY <1>1, <2>1, <2>2, <2>3, <2>4, <2>5, <2>6, <2>7, <2>8 DEF Next
<1>2. IInv /\ [Next]_vars => IInv'
  BY <1>1, StutterKeeps
<1> QED  BY <1>2, InitIInv, PTL DEF Spec
-----------------------------------------------------------------------------
(***************************************************************************)
(* What it shows.                                                          *)
(***************************************************************************)

\* Every vector keeps its size, and the list of detections never outgrows the
\* cells under test, for maps and windows of any size: there is no leftover
\* from frame to frame.
THEOREM TypeCorrect == Spec => []TypeOK
<1>1. IInv => TypeOK
  <2> SUFFICES ASSUME IInv PROVE TypeOK
    OBVIOUS
  <2>1. Len(detected_points) <= Cardinality(Cuts)
    BY AscendingLength DEF IInv, Types, Collected
  <2> QED  BY <2>1 DEF IInv, Types, TypeOK
<1> QED  BY <1>1, Invariance, PTL

\* CFAR's loop can be run in parallel without a lock, by any number of threads
\* and under any schedule: its iterations read power_ inside the map and write
\* different elements of detections_.
THEOREM LoopIsSafe == Spec => []ParallelLoopIsSafe
<1>1. IInv => ParallelLoopIsSafe
  BY SafeLoop DEF IInv, Types
<1> QED  BY <1>1, Invariance, PTL

\* The parallel CFAR lists what the sequential definition finds, by ascending
\* cell, whatever the schedule and the frames before.
THEOREM DetectionsCorrect == Spec => []DetectionsAsDefined
<1>1. IInv => DetectionsAsDefined
  <2> SUFFICES ASSUME IInv, stage \in Listing PROVE
          /\ {<<p.range_idx, p.doppler_idx>> :
                 p \in {detected_points[i] : i \in DOMAIN detected_points}}
                = {cut \in Tested : StandsOut(cut)}
          /\ Ascending(detected_points)
    BY DEF DetectionsAsDefined, Listing, Ascending
  <2>1. Listed(detected_points) = {c \in Cuts : Marked(c)} /\ Ascending(detected_points)
    BY DEF IInv, Collected
  <2>2. {c \in Cuts : Marked(c)} = {cut \in Tested : StandsOut(cut)}
    BY CutBounds, MarkedStandsOut
  <2>3. {<<p.range_idx, p.doppler_idx>> :
            p \in {detected_points[i] : i \in DOMAIN detected_points}}
           = Listed(detected_points)
    BY DEF Listed, Cell
  <2> QED  BY <2>1, <2>2, <2>3
<1> QED  BY <1>1, Invariance, PTL
-----------------------------------------------------------------------------
(***************************************************************************)
(* From the detections to the targets.                                     *)
(***************************************************************************)

Half == DopplerBins \div 2

Latest == scenes[Len(scenes)]

\* power_ holds the latest scan: both antennas' power of each cell.
PowerShows ==
    \A r \in Ranges, d \in Dopplers :
        power[PowerIndex(r, d)] = 2 * Latest[<<r, d - Half>>]

\* A detection's power is that of its cell in the latest scan.
Shown(p) ==
    /\ p \in DetectionSet
    /\ p.power = 2 * Latest[<<p.range_idx, p.doppler_idx - Half>>]

\* No cluster is empty, and its points are detections of the latest scan.
ShownCluster(cluster) ==
    \E n \in Nat \ {0} :
        /\ DOMAIN cluster = 1 .. n
        /\ \A k \in 1 .. n : Shown(cluster[k])

ShownClusters ==
    /\ DOMAIN clusters = 1 .. Len(clusters) /\ Len(clusters) \in Nat
    /\ \A c \in DOMAIN clusters : ShownCluster(clusters[c])

IsPeak(peak, cluster) ==
    /\ Shown(peak)
    /\ \A k \in DOMAIN cluster : cluster[k].power <= peak.power

PeaksStand ==
    /\ DOMAIN peaks = DOMAIN clusters
    /\ \A c \in DOMAIN clusters : IsPeak(peaks[c], clusters[c])

AnglesShow ==
    /\ DOMAIN angles = DOMAIN peaks
    /\ \A c \in DOMAIN peaks :
          angles[c] = <<Echo(peaks[c].range_idx, peaks[c].doppler_idx - Half, 0),
                        Echo(peaks[c].range_idx, peaks[c].doppler_idx - Half, 1)>>

\* What each stage behind the FFTs has made shows the latest scan.
Traced ==
    /\ stage \in Listing \cup {"parallel", "collecting"} => MapEchoes /\ PowerShows
    /\ stage \in Listing \cup {"parallel", "collecting"} =>
          \A i \in DOMAIN detected_points : Shown(detected_points[i])
    /\ stage \in {"clustered", "peaks", "angles"} => ShownClusters
    /\ stage \in {"peaks", "angles"} => PeaksStand
    /\ stage = "angles" => AnglesShow
    /\ TargetsShowTheScan

LEMMA TracedInit == Init => Traced
BY DEF Init, Traced, Listing, TargetsShowTheScan

\* Shown depends on the scan only.
LEMMA SameShown ==
    ASSUME scenes' = scenes
    PROVE  /\ \A p : Shown(p)' <=> Shown(p)
           /\ \A c : ShownCluster(c)' <=> ShownCluster(c)
           /\ \A p, c : IsPeak(p, c)' <=> IsPeak(p, c)
           /\ \A r, v, x : Echo(r, v, x)' = Echo(r, v, x)
           /\ rdm' = rdm => (MapEchoes' <=> MapEchoes)
           /\ power' = power => (PowerShows' <=> PowerShows)
<1>1. Latest' = Latest
  BY DEF Latest
<1>2. \A p : Shown(p)' <=> Shown(p)
  BY <1>1 DEF Shown
<1>3. \A c : ShownCluster(c)' <=> ShownCluster(c)
  BY <1>2 DEF ShownCluster
<1>4. \A p, c : IsPeak(p, c)' <=> IsPeak(p, c)
  BY <1>2 DEF IsPeak
<1>5. \A r, v, x : Echo(r, v, x)' = Echo(r, v, x)
  BY DEF Echo
<1>6. rdm' = rdm => (MapEchoes' <=> MapEchoes)
  BY <1>5 DEF MapEchoes
<1>7. power' = power => (PowerShows' <=> PowerShows)
  BY <1>1 DEF PowerShows
<1> QED  BY <1>2, <1>3, <1>4, <1>5, <1>6, <1>7

\* The places that carry label c.
Carrying(label, c) == {i \in DOMAIN label : label[i] = c}

\* The labels are 1 to their number: every cluster has a point.
LEMMA LabelsAreTaken ==
    ASSUME NEW D, NEW label \in [D -> 0 .. MaxClusters], NEW number,
           number = Cardinality({label[i] : i \in DOMAIN label} \ {0}),
           \A i \in DOMAIN label : label[i] <= number
    PROVE  /\ number \in Nat
           /\ \A c \in 1 .. number : Carrying(label, c) # {}
<1> DEFINE V == {label[i] : i \in DOMAIN label} \ {0}
<1>1. \A i \in DOMAIN label : label[i] \in 0 .. MaxClusters
  OBVIOUS
<1>2. V \in SUBSET Nat /\ \A v \in V : v <= MaxClusters
  BY <1>1, ProcessingAssumption DEF ProcessingAssumption
<1>3. IsFiniteSet(V)
  BY <1>2, FS_BoundedSetOfNaturals, ProcessingAssumption DEF ProcessingAssumption
<1>4. number = Cardinality(V) /\ number \in Nat
  BY <1>3, FS_CardinalityType
<1>5. V \in SUBSET (1 .. number)
  BY <1>1, <1>2, <1>4
<1>6. V = 1 .. number
  <2>1. IsFiniteSet(1 .. number) /\ Cardinality(1 .. number) = number
    BY <1>4, FS_Interval
  <2> HIDE DEF V
  <2> QED  BY <1>4, <1>5, <2>1, FS_Subset
<1>7. ASSUME NEW c \in 1 .. number
      PROVE  Carrying(label, c) # {}
  <2>1. PICK i \in DOMAIN label : label[i] = c
    BY <1>6
  <2> QED  BY <2>1 DEF Carrying
<1> QED  BY <1>4, <1>7

\* dbscan_ groups the detections: whatever the grouping, they stay shown.
LEMMA ClustersShow ==
    ASSUME IInv, Traced,
           NEW label \in [DOMAIN detected_points -> 0 .. MaxClusters],
           ScanClusters(label)
    PROVE  ShownClusters'
<1> DEFINE n == Len(detected_points)
           nth(c, k) == CHOOSE i \in Carrying(label, c) :
                            Cardinality(UpTo(Carrying(label, c), i)) = k
<1>1. n \in Nat /\ DOMAIN detected_points = 1 .. n /\ DOMAIN label = 1 .. n
  BY DEF IInv, Types
<1>2. PICK number : number = Cardinality({label[i] : i \in DOMAIN label} \ {0})
  OBVIOUS
<1>3. /\ stage = "detected" /\ scenes' = scenes
      /\ \A i \in DOMAIN label : label[i] <= number
      /\ clusters' = [c \in 1 .. number |->
                        [k \in 1 .. Cardinality(Carrying(label, c)) |->
                            detected_points[nth(c, k)]]]
  BY <1>2 DEF ScanClusters, Carrying, UpTo
<1>4. /\ number \in Nat
      /\ \A c \in 1 .. number : Carrying(label, c) # {}
  BY <1>2, <1>3, LabelsAreTaken
<1>5. \A i \in 1 .. n : Shown(detected_points[i])
  BY <1>1, <1>3 DEF Traced, Listing
<1> HIDE DEF n, nth
<1>6. ASSUME NEW c \in 1 .. number
      PROVE  ShownCluster(clusters'[c])
  <2>1. PICK S : S = Carrying(label, c)
    OBVIOUS
  <2>2. S \in SUBSET (1 .. n) /\ S \in SUBSET Nat /\ S # {}
    BY <1>1, <1>4, <2>1 DEF Carrying
  <2>3. IsFiniteSet(S) /\ Cardinality(S) \in Nat \ {0}
    <3>1. IsFiniteSet(1 .. n)
      BY <1>1, FS_Interval
    <3>2. IsFiniteSet(S)
      BY <2>2, <3>1, FS_Subset
    <3> QED  BY <2>2, <3>2, FS_CardinalityType, FS_EmptySet
  <2>4. ASSUME NEW k \in 1 .. Cardinality(S)
        PROVE  nth(c, k) \in 1 .. n
    <3>1. \E i \in S : Cardinality(UpTo(S, i)) = k
      BY <2>2, <2>3, PlacesAreTaken
    <3>2. nth(c, k) = CHOOSE i \in S : Cardinality(UpTo(S, i)) = k
      BY <2>1 DEF nth
    <3>3. nth(c, k) \in S
      BY <3>1, <3>2
    <3> QED  BY <2>2, <3>3
  <2>5. clusters'[c] = [k \in 1 .. Cardinality(S) |-> detected_points[nth(c, k)]]
    BY <1>3, <2>1
  <2>6. /\ DOMAIN clusters'[c] = 1 .. Cardinality(S)
        /\ \A k \in 1 .. Cardinality(S) : clusters'[c][k] = detected_points[nth(c, k)]
    BY <2>5
  <2>7. \A k \in 1 .. Cardinality(S) : Shown(clusters'[c][k])
    BY <1>5, <2>4, <2>6
  <2> QED  BY <2>3, <2>6, <2>7 DEF ShownCluster
<1>7. DOMAIN clusters' = 1 .. number /\ Len(clusters') = number
  BY <1>3, <1>4
<1>8. ASSUME NEW c \in DOMAIN clusters'
      PROVE  ShownCluster(clusters[c])'
  <2>1. ShownCluster(clusters'[c])
    BY <1>6, <1>7
  <2> QED  BY <1>3, <2>1 DEF ShownCluster, Shown, Latest
<1> QED  BY <1>4, <1>7, <1>8 DEF ShownClusters

\* A cluster that is not empty has a strongest point.
LEMMA StrongestIsPeak ==
    ASSUME NEW cluster, ShownCluster(cluster)
    PROVE  IsPeak(Strongest(cluster), cluster)
<1>1. PICK n \in Nat \ {0} :
          DOMAIN cluster = 1 .. n /\ \A k \in 1 .. n : Shown(cluster[k])
  BY DEF ShownCluster
<1>2. \A k \in 1 .. n : cluster[k].power \in Nat
  BY <1>1 DEF Shown, DetectionSet
<1> DEFINE P == {cluster[k].power : k \in 1 .. n}
<1>3. IsFiniteSet(1 .. n)
  BY <1>1, FS_Interval
<1>4. IsFiniteSet(P)
  <2>1. PICK f : f = [k \in 1 .. n |-> cluster[k].power]
    OBVIOUS
  <2>2. f \in Surjection(1 .. n, P)
    BY <2>1 DEF Surjection
  <2> QED  BY <1>3, <2>2, FS_Surjection
<1>5. P \in SUBSET Nat /\ P # {}
  <2>1. 1 \in 1 .. n
    BY <1>1
  <2> QED  BY <1>2, <2>1
<1>6. PICK m \in P : \A j \in P : j <= m
  <2> HIDE DEF P
  <2> QED  BY <1>4, <1>5, GreatestMember
<1> DEFINE T == {k \in 1 .. n : cluster[k].power = m}
<1>7. T \in SUBSET Nat /\ T # {} /\ IsFiniteSet(T)
  <2>1. T \in SUBSET (1 .. n) /\ T # {}
    BY <1>6
  <2> QED  BY <1>3, <2>1, FS_Subset
<1>8. PICK first \in T : \A j \in T : first <= j
  <2> HIDE DEF T
  <2> QED  BY <1>7, LeastMember
<1>9. /\ first \in 1 .. n
      /\ \A j \in 1 .. n : cluster[j].power <= cluster[first].power
      /\ \A j \in 1 .. first - 1 : cluster[j].power < cluster[first].power
  <2>1. first \in 1 .. n /\ cluster[first].power = m /\ m \in Nat
    BY <1>5, <1>6, <1>8
  <2>2. \A j \in 1 .. n : cluster[j].power <= m
    BY <1>6
  <2>3. ASSUME NEW j \in 1 .. first - 1
        PROVE  cluster[j].power < m
    <3>1. j \in 1 .. n /\ j < first
      BY <1>1, <2>1
    <3>2. j \notin T
      BY <1>8, <2>1, <3>1
    <3>3. cluster[j].power # m
      BY <3>1, <3>2
    <3> QED  BY <1>2, <2>1, <2>2, <3>1, <3>3
  <2> QED  BY <2>1, <2>2, <2>3
<1> HIDE DEF P, T
<1>10. PICK k \in 1 .. n :
          /\ Strongest(cluster) = cluster[k]
          /\ \A j \in 1 .. n : cluster[j].power <= cluster[k].power
  <2>1. PICK k : k = CHOOSE i \in DOMAIN cluster :
                        /\ \A j \in DOMAIN cluster : cluster[j].power <= cluster[i].power
                        /\ \A j \in 1 .. i - 1 : cluster[j].power < cluster[i].power
    OBVIOUS
  <2>2. /\ k \in DOMAIN cluster
        /\ \A j \in DOMAIN cluster : cluster[j].power <= cluster[k].power
    BY <1>1, <1>9, <2>1
  <2>3. Strongest(cluster) = cluster[k]
    BY <2>1 DEF Strongest
  <2> QED  BY <1>1, <2>2, <2>3
<1> QED  BY <1>1, <1>10 DEF IsPeak

\* AngleEstimation reads the two antennas of the peak's cell.
LEMMA AngleShows ==
    ASSUME MapEchoes, NEW peak, Shown(peak)
    PROVE  AngleOf(peak) = <<Echo(peak.range_idx, peak.doppler_idx - Half, 0),
                             Echo(peak.range_idx, peak.doppler_idx - Half, 1)>>
<1>1. PICK r, d : r = peak.range_idx /\ d = peak.doppler_idx
  OBVIOUS
<1>2. r \in Ranges /\ d \in Dopplers
  <2>1. <<r, d>> \in Cuts
    BY <1>1 DEF Shown, DetectionSet, Cuts
  <2> QED  BY <2>1, CutBounds
<1>3. 0 \in Rx /\ 1 \in Rx
  BY DEF Rx, RxChannels
<1>4. RdmIndex(r, d, 1) = RdmIndex(r, d, 0) + 1
  <2>1. RdmIndex(r, d, 0) \in Int
    BY <1>2, <1>3, RdmPlaces
  <2>2. PICK w : w = r * DopplerBins + d
    OBVIOUS
  <2>3. w \in Nat
    BY <1>2, <2>2, Sizes DEF Ranges, Dopplers
  <2> QED  BY <2>2, <2>3 DEF RdmIndex, RxChannels
<1>5. /\ rdm[RdmIndex(r, d, 0)] = Echo(r, d - Half, 0)
      /\ rdm[RdmIndex(r, d, 1)] = Echo(r, d - Half, 1)
  BY <1>2, <1>3 DEF MapEchoes, Half
<1> QED  BY <1>1, <1>4, <1>5 DEF AngleOf

-----------------------------------------------------------------------------
TargetShown(t, cluster) ==
    /\ t.angle = <<Echo(t.distance, t.relative_velocity, 0),
                   Echo(t.distance, t.relative_velocity, 1)>>
    /\ \A j \in DOMAIN cluster :
          Latest[<<cluster[j].range_idx, cluster[j].doppler_idx - Half>>]
            <= Latest[<<t.distance, t.relative_velocity>>]

\* A target shows its cell, and no point of its cluster is stronger there.
LEMMA TargetsShow ==
    ASSUME IInv, Traced, TargetConversion
    PROVE  TargetsShowTheScan'
<1>1. /\ stage = "angles"
      /\ targets' = [i \in DOMAIN peaks |->
                       [distance          |-> peaks[i].range_idx,
                        relative_velocity |-> peaks[i].doppler_idx - Half,
                        angle             |-> angles[i]]]
      /\ UNCHANGED <<scenes, clusters, peaks, angles>>
  BY DEF TargetConversion, Half
<1>2. /\ ShownClusters /\ PeaksStand /\ AnglesShow
      /\ scenes # <<>> /\ scenes \in Seq([Ranges \X Velocities -> Nat])
  BY <1>1 DEF IInv, Types, Echoes, Traced
<1>3. PICK n \in Nat : n = Len(clusters)
  BY <1>2 DEF ShownClusters
<1>4. DOMAIN clusters = 1 .. n /\ DOMAIN peaks = 1 .. n /\ DOMAIN angles = 1 .. n
  BY <1>2, <1>3 DEF ShownClusters, PeaksStand, AnglesShow
<1>5. DOMAIN targets' = 1 .. n /\ Len(targets') = n
  BY <1>1, <1>4
<1>6. ASSUME NEW i \in 1 .. n
      PROVE  /\ targets'[i].distance = peaks[i].range_idx
             /\ targets'[i].relative_velocity = peaks[i].doppler_idx - Half
             /\ targets'[i].angle = <<Echo(peaks[i].range_idx, peaks[i].doppler_idx - Half, 0),
                                      Echo(peaks[i].range_idx, peaks[i].doppler_idx - Half, 1)>>
  BY <1>1, <1>2, <1>4 DEF AnglesShow
<1>7. ASSUME NEW p, Shown(p)
      PROVE  Latest[<<p.range_idx, p.doppler_idx - Half>>] \in Nat
  <2>1. Latest \in [Ranges \X Velocities -> Nat]
    BY <1>2, LastOf DEF Latest
  <2>2. <<p.range_idx, p.doppler_idx>> \in Cuts
    BY <1>7 DEF Shown, DetectionSet, Cuts
  <2>3. p.range_idx \in Ranges /\ p.doppler_idx \in Dopplers
    BY <2>2, CutBounds
  <2>4. p.doppler_idx - Half \in Velocities
    BY <2>3, ShiftUndone DEF Half
  <2> QED  BY <2>1, <2>3, <2>4
<1>8. ASSUME NEW i \in 1 .. n, NEW j \in DOMAIN clusters[i]
      PROVE  Latest[<<clusters[i][j].range_idx, clusters[i][j].doppler_idx - Half>>]
               <= Latest[<<peaks[i].range_idx, peaks[i].doppler_idx - Half>>]
  <2>1. PICK p, q : p = clusters[i][j] /\ q = peaks[i]
    OBVIOUS
  <2>2. Shown(p) /\ Shown(q) /\ p.power <= q.power
    BY <1>2, <1>4, <2>1 DEF ShownClusters, ShownCluster, PeaksStand, IsPeak
  <2>3. PICK a, b : /\ a = Latest[<<p.range_idx, p.doppler_idx - Half>>]
                    /\ b = Latest[<<q.range_idx, q.doppler_idx - Half>>]
    OBVIOUS
  <2>4. a \in Nat /\ b \in Nat
    BY <1>7, <2>2, <2>3
  <2>5. p.power = 2 * a /\ q.power = 2 * b
    BY <2>2, <2>3 DEF Shown
  <2>6. a <= b
    BY <2>2, <2>4, <2>5
  <2> QED  BY <2>1, <2>3, <2>6
<1>9. ASSUME NEW i \in DOMAIN targets'
      PROVE  TargetShown(targets[i], clusters[i])'
  <2>1. i \in 1 .. n
    BY <1>5
  <2>2. PICK t, q, cluster : t = targets'[i] /\ q = peaks[i] /\ cluster = clusters[i]
    OBVIOUS
  <2>3. /\ t.distance = q.range_idx
        /\ t.relative_velocity = q.doppler_idx - Half
        /\ t.angle = <<Echo(q.range_idx, q.doppler_idx - Half, 0),
                       Echo(q.range_idx, q.doppler_idx - Half, 1)>>
    BY <1>6, <2>1, <2>2
  <2>4. ASSUME NEW j \in DOMAIN cluster
        PROVE  Latest[<<cluster[j].range_idx, cluster[j].doppler_idx - Half>>]
                 <= Latest[<<t.distance, t.relative_velocity>>]
    BY <1>8, <2>1, <2>2, <2>3
  <2>5. TargetShown(t, cluster)
    BY <2>3, <2>4 DEF TargetShown
  <2>6. clusters'[i] = cluster /\ scenes' = scenes
    BY <1>1, <2>2
  <2> QED  BY <2>2, <2>5, <2>6 DEF TargetShown, Echo, Latest
<1>10. Len(targets') = Len(clusters')
  BY <1>1, <1>3, <1>5
<1> QED  BY <1>9, <1>10, SMTT(30) DEF TargetsShowTheScan, TargetShown, Latest, Half

LEMMA ParallelTraces ==
    ASSUME IInv, Traced,
           \/ \E cut \in Cuts : SumTraining(cut) \/ MarkDetection(cut)
           \/ EndParallel
    PROVE  Traced'
<1>1. /\ stage = "parallel" /\ stage' \in {"parallel", "collecting"}
      /\ UNCHANGED <<rdm, power, scenes, detected_points>>
  BY DEF SumTraining, MarkDetection, EndParallel
<1>2. /\ MapEchoes /\ PowerShows
      /\ \A i \in DOMAIN detected_points : Shown(detected_points[i])
  BY <1>1 DEF Traced
<1>3. MapEchoes' /\ PowerShows'
  BY <1>1, <1>2, SameShown
<1>4. ASSUME NEW i \in DOMAIN detected_points'
      PROVE  Shown(detected_points[i])'
  BY <1>1, <1>2 DEF Shown, Latest
<1> QED  BY <1>1, <1>3, <1>4 DEF Traced, TargetsShowTheScan

LEMMA BeginCFARTraces ==
    ASSUME IInv, Traced, BeginCFAR
    PROVE  Traced'
<1>1. /\ stage = "rdm" /\ stage' = "parallel" /\ PowerCalculation
      /\ UNCHANGED <<rdm, scenes>> /\ detected_points' = <<>>
  BY DEF BeginCFAR
<1>2. /\ MapEchoes /\ scenes # <<>>
      /\ scenes \in Seq([Ranges \X Velocities -> Nat])
      /\ power \in [0 .. MapSize - 1 -> Nat]
  BY <1>1 DEF IInv, Types, Echoes
<1>3. DOMAIN power = 0 .. MapSize - 1 /\ power \in [DOMAIN power -> Nat]
  BY <1>2
<1>4. \A r \in Ranges, d \in Dopplers :
         power'[PowerIndex(r, d)] = 2 * Latest[<<r, d - Half>>]
  BY <1>1, <1>2, <1>3, PowerStage DEF Latest, Half
<1>5. PowerShows'
  BY <1>1, <1>4 DEF PowerShows, Latest
<1>6. MapEchoes'
  BY <1>1, <1>2, SameShown
<1>7. DOMAIN detected_points' = {}
  BY <1>1
<1> QED  BY <1>1, <1>5, <1>6, <1>7 DEF Traced, TargetsShowTheScan

LEMMA CollectTraces ==
    ASSUME IInv, Traced, CollectDetection
    PROVE  Traced'
<1>1. /\ stage = "collecting" /\ stage' \in {"collecting", "detected"}
      /\ UNCHANGED <<rdm, power, scenes>>
      /\ \/ detected_points' = detected_points
         \/ detected_points' = Append(detected_points, Detection(next_cut))
  BY DEF CollectDetection
<1>2. /\ MapEchoes /\ PowerShows
      /\ \A i \in DOMAIN detected_points : Shown(detected_points[i])
      /\ next_cut \in Cuts
      /\ detected_points \in Seq(DetectionSet)
      /\ power \in [0 .. MapSize - 1 -> Nat]
  BY <1>1 DEF IInv, Types, Collected, Traced
<1>3. MapEchoes' /\ PowerShows'
  BY <1>1, <1>2, SameShown
<1>4. PICK e : e = Detection(next_cut)
  OBVIOUS
<1>5. Shown(e)
  <2>1. /\ next_cut[1] \in CutRanges /\ next_cut[2] \in CutDopplers
        /\ next_cut[1] \in Ranges /\ next_cut[2] \in Dopplers
    BY <1>2, CutCells DEF Cuts
  <2>2. PICK p : p = power[PowerIndex(next_cut[1], next_cut[2])]
    OBVIOUS
  <2>3. p \in Nat
    BY <1>2, <2>2, CutCells, Indices
  <2>4. p = 2 * Latest[<<next_cut[1], next_cut[2] - Half>>]
    BY <1>2, <2>1, <2>2 DEF PowerShows
  <2>5. e = [range_idx |-> next_cut[1], doppler_idx |-> next_cut[2], power |-> p]
    BY <1>4, <2>2 DEF Detection
  <2> QED  BY <2>1, <2>3, <2>4, <2>5 DEF Shown, DetectionSet
<1>6. \A i \in DOMAIN detected_points' : Shown(detected_points'[i])
  <2>1. CASE detected_points' = detected_points
    BY <1>2, <2>1
  <2>2. CASE detected_points' = Append(detected_points, e)
    <3>1. /\ Len(detected_points) \in Nat
          /\ DOMAIN detected_points = 1 .. Len(detected_points)
          /\ DOMAIN detected_points' = 1 .. Len(detected_points) + 1
          /\ \A i \in 1 .. Len(detected_points) : detected_points'[i] = detected_points[i]
          /\ detected_points'[Len(detected_points) + 1] = e
      BY <1>2, <2>2
    <3>2. \A i \in DOMAIN detected_points' :
             i \in DOMAIN detected_points \/ i = Len(detected_points) + 1
      BY <3>1
    <3> QED  BY <1>2, <1>5, <3>1, <3>2
  <2> QED  BY <1>1, <1>4, <2>1, <2>2
<1>7. ASSUME NEW i \in DOMAIN detected_points'
      PROVE  Shown(detected_points[i])'
  BY <1>1, <1>6 DEF Shown, Latest
<1> QED  BY <1>1, <1>3, <1>7 DEF Traced, TargetsShowTheScan, Listing

\* The stages behind CFAR keep the list of detections and what it shows.
LEMMA ListingTraces ==
    ASSUME Traced, stage \in Listing, UNCHANGED <<rdm, power, scenes, detected_points>>
    PROVE  /\ MapEchoes' /\ PowerShows'
           /\ \A i \in DOMAIN detected_points' : Shown(detected_points[i])'
<1>1. /\ MapEchoes /\ PowerShows
      /\ \A i \in DOMAIN detected_points : Shown(detected_points[i])
  BY DEF Traced
<1>2. MapEchoes' /\ PowerShows'
  BY <1>1, SameShown
<1>3. ASSUME NEW i \in DOMAIN detected_points'
      PROVE  Shown(detected_points[i])'
  BY <1>1 DEF Shown, Latest
<1> QED  BY <1>2, <1>3

LEMMA ClusteredKept ==
    ASSUME ShownClusters, UNCHANGED <<scenes, clusters>>
    PROVE  ShownClusters'
BY DEF ShownClusters, ShownCluster, Shown, Latest

LEMMA ScanTraces ==
    ASSUME IInv, Traced,
           NEW label \in [DOMAIN detected_points -> 0 .. MaxClusters],
           ScanClusters(label)
    PROVE  Traced'
<1>1. /\ stage \in Listing /\ stage' = "clustered"
      /\ UNCHANGED <<rdm, power, scenes, detected_points>>
  BY DEF ScanClusters, Listing
<1>2. ShownClusters'
  BY ClustersShow
<1> QED  BY <1>1, <1>2, ListingTraces DEF Traced, TargetsShowTheScan

LEMMA PeaksTrace ==
    ASSUME IInv, Traced, PeakDetection
    PROVE  Traced'
<1>1. /\ stage = "clustered" /\ stage \in Listing /\ stage' = "peaks"
      /\ UNCHANGED <<rdm, power, scenes, detected_points, clusters>>
      /\ peaks' = [c \in DOMAIN clusters |-> Strongest(clusters[c])]
  BY DEF PeakDetection, Listing
<1>2. ShownClusters /\ ShownClusters'
  BY <1>1, ClusteredKept DEF Traced
<1>3. PeaksStand'
  <2>1. DOMAIN peaks' = DOMAIN clusters'
    BY <1>1
  <2>2. ASSUME NEW c \in DOMAIN clusters'
        PROVE  IsPeak(peaks[c], clusters[c])'
    <3>1. PICK peak, cluster : peak = peaks'[c] /\ cluster = clusters[c]
      OBVIOUS
    <3>2. peak = Strongest(cluster) /\ ShownCluster(cluster)
      BY <1>1, <1>2, <3>1 DEF ShownClusters
    <3>3. IsPeak(peak, cluster)
      BY <3>2, StrongestIsPeak
    <3>4. clusters'[c] = cluster /\ scenes' = scenes
      BY <1>1, <3>1
    <3> QED  BY <3>1, <3>3, <3>4 DEF IsPeak, Shown, Latest
  <2> QED  BY <2>1, <2>2 DEF PeaksStand
<1> QED  BY <1>1, <1>2, <1>3, ListingTraces DEF Traced, TargetsShowTheScan

LEMMA AnglesTrace ==
    ASSUME IInv, Traced, AngleEstimation
    PROVE  Traced'
<1>1. /\ stage = "peaks" /\ stage \in Listing /\ stage' = "angles"
      /\ UNCHANGED <<rdm, power, scenes, detected_points, clusters, peaks>>
      /\ angles' = [c \in DOMAIN peaks |-> AngleOf(peaks[c])]
  BY DEF AngleEstimation, Listing
<1>2. ShownClusters /\ ShownClusters' /\ PeaksStand /\ MapEchoes
  BY <1>1, ClusteredKept DEF Traced
<1>3. PeaksStand'
  BY <1>1, <1>2 DEF PeaksStand, IsPeak, Shown, Latest
<1>4. AnglesShow'
  <2>1. DOMAIN angles' = DOMAIN peaks'
    BY <1>1
  <2>2. ASSUME NEW c \in DOMAIN peaks'
        PROVE  (angles[c] = <<Echo(peaks[c].range_idx, peaks[c].doppler_idx - Half, 0),
                              Echo(peaks[c].range_idx, peaks[c].doppler_idx - Half, 1)>>)'
    <3>1. PICK peak : peak = peaks[c]
      OBVIOUS
    <3>2. Shown(peak)
      BY <1>1, <1>2, <2>2, <3>1 DEF PeaksStand, IsPeak
    <3>3. AngleOf(peak) = <<Echo(peak.range_idx, peak.doppler_idx - Half, 0),
                            Echo(peak.range_idx, peak.doppler_idx - Half, 1)>>
      BY <1>2, <3>2, AngleShows
    <3>4. angles'[c] = AngleOf(peak) /\ peaks'[c] = peak /\ scenes' = scenes
      BY <1>1, <3>1
    <3> QED  BY <3>3, <3>4 DEF Echo
  <2> QED  BY <2>1, <2>2 DEF AnglesShow
<1> QED  BY <1>1, <1>2, <1>3, <1>4, ListingTraces DEF Traced, TargetsShowTheScan

LEMMA EarlyTraces ==
    ASSUME \/ \E scene \in Scenes : TakeFrame(scene)
           \/ Range_FFT
           \/ Doppler_FFT
    PROVE  Traced'
<1>1. stage' \in {"scan", "range", "rdm"}
  BY DEF TakeFrame, Range_FFT, Doppler_FFT
<1> QED  BY <1>1 DEF Traced, TargetsShowTheScan, Listing

LEMMA StutterTraces ==
    ASSUME Traced, UNCHANGED vars
    PROVE  Traced'
<1>1. UNCHANGED <<stage, scenes, rdm, power, detected_points, clusters, peaks, angles, targets>>
  BY DEF vars
<1>2. /\ stage \in Listing \cup {"parallel", "collecting"} => MapEchoes' /\ PowerShows'
      /\ stage \in Listing \cup {"parallel", "collecting"} =>
            \A i \in DOMAIN detected_points' : Shown(detected_points[i])'
  BY <1>1, SameShown DEF Traced, Shown, Latest
<1>3. stage \in {"clustered", "peaks", "angles"} => ShownClusters'
  BY <1>1, ClusteredKept DEF Traced
<1>4. stage \in {"peaks", "angles"} => PeaksStand'
  BY <1>1 DEF Traced, PeaksStand, IsPeak, Shown, Latest
<1>5. stage = "angles" => AnglesShow'
  BY <1>1 DEF Traced, AnglesShow, Echo
<1>6. TargetsShowTheScan'
  BY <1>1 DEF Traced, TargetsShowTheScan, Echo
<1> QED  BY <1>1, <1>2, <1>3, <1>4, <1>5, <1>6 DEF Traced

\* Every target handed to the sender shows one cell of the latest scan, for
\* maps of any size and whatever the grouping of the detections: its distance,
\* velocity and angle belong together, and no point of its cluster is stronger.
THEOREM TargetsCorrect == Spec => []TargetsShowTheScan
<1>1. ASSUME IInv, Traced, Next
      PROVE  Traced'
  <2>1. CASE \/ \E scene \in Scenes : TakeFrame(scene)
             \/ Range_FFT
             \/ Doppler_FFT
    BY <2>1, EarlyTraces
  <2>2. CASE BeginCFAR
    BY <1>1, <2>2, BeginCFARTraces
  <2>3. CASE (\E cut \in Cuts : SumTraining(cut) \/ MarkDetection(cut)) \/ EndParallel
    BY <1>1, <2>3, ParallelTraces
  <2>4. CASE CollectDetection
    BY <1>1, <2>4, CollectTraces
  <2>5. CASE \E label \in [DOMAIN detected_points -> 0 .. MaxClusters] : ScanClusters(label)
    BY <1>1, <2>5, ScanTraces
  <2>6. CASE PeakDetection
    BY <1>1, <2>6, PeaksTrace
  <2>7. CASE AngleEstimation
    BY <1>1, <2>7, AnglesTrace
  <2>8. CASE TargetConversion
    <3>1. TargetsShowTheScan'
      BY <1>1, <2>8, TargetsShow
    <3>2. stage' = "idle"
      BY <2>8 DEF TargetConversion
    <3> QED  BY <3>1, <3>2 DEF Traced, Listing
  <2> QED  BY <1>1, <2>1, <2>2, <2>3, <2>4, <2>5, <2>6, <2>7, <2>8 DEF Next
<1>2. IInv /\ Traced /\ [Next]_vars => Traced'
  BY <1>1, StutterTraces
<1>3. Traced => TargetsShowTheScan
  BY DEF Traced
<1> QED  BY <1>2, <1>3, TracedInit, Invariance, PTL DEF Spec
=============================================================================

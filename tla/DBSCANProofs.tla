---------------------------- MODULE DBSCANProofs ----------------------------
(***************************************************************************)
(* DBSCAN::scan computes the clusters that the definition of DBSCAN asks   *)
(* for: for every list of detections, every eps and every min_samples.     *)
(***************************************************************************)
EXTENDS DBSCAN, Places, SequenceTheorems, TLAPS
-----------------------------------------------------------------------------
(***************************************************************************)
(* scan_neighbour lists what is near a point.                              *)
(***************************************************************************)

Below(S, q) == {r \in S : r < q}

\* As many are below a member as its place says, but for itself.
LEMMA RankIsPlace ==
    ASSUME NEW S \in SUBSET Nat, IsFiniteSet(S), NEW q \in S
    PROVE  /\ Cardinality(Below(S, q)) = Cardinality(UpTo(S, q)) - 1
           /\ Cardinality(UpTo(S, q)) \in 1 .. Cardinality(S)
           /\ Cardinality(S) \in Nat
<1>1. /\ IsFiniteSet(UpTo(S, q))
      /\ Cardinality(UpTo(S, q)) \in 1 .. Cardinality(S)
  BY PlaceTypes
<1>2. Below(S, q) = UpTo(S, q) \ {q} /\ q \in UpTo(S, q)
  <2>1. q \in Nat /\ \A r \in S : r \in Nat
    OBVIOUS
  <2>2. \A r \in S : r < q <=> r <= q /\ r # q
    BY <2>1
  <2>3. q \in UpTo(S, q)
    BY <2>1 DEF UpTo
  <2> QED  BY <2>2, <2>3 DEF Below, UpTo
<1>3. Cardinality(UpTo(S, q) \ {q}) = Cardinality(UpTo(S, q)) - 1
  BY <1>1, <1>2, FS_RemoveElement
<1> QED  BY <1>1, <1>2, <1>3, FS_CardinalityType

\* Every rank below the cardinality is taken.
LEMMA RanksAreTaken ==
    ASSUME NEW S \in SUBSET Nat, IsFiniteSet(S), NEW k \in 0 .. Cardinality(S) - 1
    PROVE  \E q \in S : Cardinality(Below(S, q)) = k
<1>1. k + 1 \in 1 .. Cardinality(S)
  BY FS_CardinalityType
<1>2. PICK q \in S : Cardinality(UpTo(S, q)) = k + 1
  BY <1>1, PlacesAreTaken
<1>3. Cardinality(Below(S, q)) = k + 1 - 1
  BY <1>2, RankIsPlace
<1> QED  BY <1>3

\* A number is determined by its rank, so Ranked finds it.
LEMMA RankedFinds ==
    ASSUME NEW S \in SUBSET Nat, IsFiniteSet(S), NEW q \in S
    PROVE  /\ Cardinality(Below(S, q)) \in 0 .. Cardinality(S) - 1
           /\ Ranked(S, Cardinality(Below(S, q))) = q
<1>1. Cardinality(Below(S, q)) \in 0 .. Cardinality(S) - 1
  BY RankIsPlace
<1>2. ASSUME NEW p \in S, Cardinality(Below(S, p)) = Cardinality(Below(S, q))
      PROVE  p = q
  <2>1. Cardinality(UpTo(S, p)) = Cardinality(UpTo(S, q))
        /\ Cardinality(UpTo(S, q)) \in Int
    BY <1>2, RankIsPlace
  <2>2. ~(p < q) /\ ~(q < p)
    BY <2>1, PlacesGrow
  <2> QED  BY <2>2
<1>3. Ranked(S, Cardinality(Below(S, q)))
         = CHOOSE p \in S : Cardinality(Below(S, p)) = Cardinality(Below(S, q))
  BY DEF Ranked, Below
<1> QED  BY <1>1, <1>2, <1>3

LEMMA NearIsFinite ==
    ASSUME detected_points \in Seq(Int \X Int), NEW p \in Points
    PROVE  /\ Near(p) \in SUBSET Points
           /\ Near(p) \in SUBSET Nat
           /\ IsFiniteSet(Near(p))
           /\ Cardinality(Near(p)) \in Nat
<1>1. Near(p) \in SUBSET Points
  BY DEF Near
<1>2. Points \subseteq Nat
  BY DEF Points
<1>3. IsFiniteSet(Points)
  BY FS_Interval DEF Points
<1>4. IsFiniteSet(Near(p))
  BY <1>1, <1>3, FS_Subset
<1> QED  BY <1>1, <1>2, <1>4, FS_CardinalityType

\* What scan_neighbour returns: every detection near p, none else, and none twice.
THEOREM NeighboursListed ==
    ASSUME detected_points \in Seq(Int \X Int), NEW p \in Points
    PROVE  /\ scan_neighbour(p) \in Seq(Points)
           /\ PointsOf(scan_neighbour(p)) = Near(p)
           /\ Len(scan_neighbour(p)) = Cardinality(Near(p))
<1> DEFINE S == Near(p)
           n == Cardinality(S)
<1>1. S \in SUBSET Nat /\ S \in SUBSET Points /\ IsFiniteSet(S) /\ n \in Nat
  BY NearIsFinite
<1>2. ASSUME NEW k \in 1 .. n
      PROVE  Ranked(S, k - 1) \in S
  <2>1. k - 1 \in 0 .. n - 1
    BY <1>1
  <2>2. \E q \in S : Cardinality(Below(S, q)) = k - 1
    BY <1>1, <2>1, RanksAreTaken
  <2>3. Ranked(S, k - 1) = CHOOSE q \in S : Cardinality(Below(S, q)) = k - 1
    BY DEF Ranked, Below
  <2> QED  BY <2>2, <2>3
<1>3. scan_neighbour(p) = [k \in 1 .. n |-> Ranked(S, k - 1)]
  BY DEF scan_neighbour
<1> HIDE DEF S, n
<1>4. scan_neighbour(p) \in [1 .. n -> S]
  BY <1>2, <1>3
<1>5. scan_neighbour(p) \in Seq(S) /\ Len(scan_neighbour(p)) = n
  BY <1>1, <1>4
<1>6. scan_neighbour(p) \in Seq(Points)
  <2>1. scan_neighbour(p) \in [1 .. n -> Points]
    BY <1>1, <1>4
  <2> QED  BY <1>1, <2>1
<1>7. PointsOf(scan_neighbour(p)) \subseteq S
  BY <1>4, <1>5 DEF PointsOf
<1>8. ASSUME NEW q \in S
      PROVE  q \in PointsOf(scan_neighbour(p))
  <2> DEFINE k == Cardinality(Below(S, q)) + 1
  <2>1. k \in 1 .. n /\ k - 1 = Cardinality(Below(S, q))
    <3>1. Cardinality(Below(S, q)) \in 0 .. Cardinality(S) - 1
      BY <1>1, RankedFinds
    <3>2. Cardinality(Below(S, q)) \in 0 .. n - 1
      BY <3>1 DEF n
    <3> QED  BY <1>1, <3>2
  <2>2. Ranked(S, k - 1) = q
    BY <1>1, <2>1, RankedFinds
  <2>3. scan_neighbour(p)[k] = q
    BY <1>3, <2>1, <2>2
  <2> QED  BY <1>5, <2>1, <2>3 DEF PointsOf
<1> QED  BY <1>5, <1>6, <1>7, <1>8 DEF S, n

\* Nearness is symmetric and reflexive.
LEMMA NearIsMutual ==
    ASSUME detected_points \in Seq(Int \X Int), DBSCANAssumption,
           NEW p \in Points
    PROVE  /\ p \in Near(p)
           /\ \A q \in Near(p) : p \in Near(q)
<1>1. detected_points[p] \in Int \X Int
  BY DEF Points
<1>2. distance_squared(detected_points[p], detected_points[p]) = 0
  <2>1. PICK a \in Int, b \in Int : detected_points[p] = <<a, b>>
    BY ONLY <1>1
  <2>2. a - a = 0 /\ b - b = 0
    OBVIOUS
  <2> QED  BY <2>1, <2>2 DEF distance_squared
<1>3. p \in Near(p)
  BY <1>2 DEF Near, DBSCANAssumption
<1>4. ASSUME NEW q \in Near(p)
      PROVE  p \in Near(q)
  <2>1. q \in Points /\ detected_points[q] \in Int \X Int
    BY DEF Points, Near
  <2>2. ASSUME NEW a \in Int, NEW b \in Int
        PROVE  (a - b) * (a - b) = (b - a) * (b - a)
    <3>1. b - a = -(a - b) /\ a - b \in Int
      OBVIOUS
    <3>2. \A c \in Int : (-c) * (-c) = c * c
      OBVIOUS
    <3> QED  BY <3>1, <3>2
  <2>3. distance_squared(detected_points[q], detected_points[p])
           = distance_squared(detected_points[p], detected_points[q])
    BY <1>1, <2>1, <2>2 DEF distance_squared
  <2> QED  BY <2>1, <2>3 DEF Near
<1> QED  BY <1>3, <1>4
-----------------------------------------------------------------------------
(***************************************************************************)
(* The inductive invariant.                                                *)
(***************************************************************************)

NoRepeats(list) ==
    \A j, k \in 1 .. Len(list) : list[j] = list[k] => j = k

\* What appending to a list does to its elements.
LEMMA Appending ==
    ASSUME NEW S, NEW list \in Seq(S), NEW e \in S
    PROVE  /\ Append(list, e) \in Seq(S)
           /\ Append(list, e) # <<>>
           /\ list # <<>> => Append(list, e)[1] = list[1]
           /\ PointsOf(Append(list, e)) = PointsOf(list) \cup {e}
           /\ NoRepeats(list) /\ e \notin PointsOf(list) => NoRepeats(Append(list, e))
<1> DEFINE longer == Append(list, e)
<1>1. /\ Len(list) \in Nat
      /\ longer \in Seq(S)
      /\ Len(longer) = Len(list) + 1
      /\ longer[Len(list) + 1] = e
      /\ \A j \in 1 .. Len(list) : longer[j] = list[j]
  OBVIOUS
<1>2. longer # <<>>
  BY <1>1
<1>3. list # <<>> => longer[1] = list[1]
  <2>1. list # <<>> => 1 \in 1 .. Len(list)
    OBVIOUS
  <2> QED  BY <1>1, <2>1
<1> HIDE DEF longer
<1>4. PointsOf(longer) = PointsOf(list) \cup {e}
  <2>1. ASSUME NEW j \in 1 .. Len(longer)
        PROVE  longer[j] \in PointsOf(list) \cup {e}
    <3>1. j = Len(list) + 1 \/ j \in 1 .. Len(list)
      BY <1>1
    <3> QED  BY <1>1, <3>1 DEF PointsOf
  <2>2. ASSUME NEW j \in 1 .. Len(list)
        PROVE  list[j] \in PointsOf(longer)
    <3>1. j \in 1 .. Len(longer) /\ longer[j] = list[j]
      BY <1>1
    <3> QED  BY <3>1 DEF PointsOf
  <2>3. e \in PointsOf(longer)
    <3>1. Len(list) + 1 \in 1 .. Len(longer)
      BY <1>1
    <3> QED  BY <1>1, <3>1 DEF PointsOf
  <2>4. PointsOf(longer) \subseteq PointsOf(list) \cup {e}
    BY <2>1 DEF PointsOf
  <2>5. PointsOf(list) \subseteq PointsOf(longer)
    BY <2>2 DEF PointsOf
  <2> QED  BY <2>3, <2>4, <2>5
<1>5. ASSUME NoRepeats(list), e \notin PointsOf(list)
      PROVE  NoRepeats(longer)
  <2>1. \A j \in 1 .. Len(list) : list[j] # e
    BY <1>5 DEF PointsOf
  <2>2. ASSUME NEW j \in 1 .. Len(longer), NEW k \in 1 .. Len(longer), longer[j] = longer[k]
        PROVE  j = k
    <3>1. /\ j = Len(list) + 1 \/ j \in 1 .. Len(list)
          /\ k = Len(list) + 1 \/ k \in 1 .. Len(list)
      BY <1>1
    <3> QED  BY <1>1, <1>5, <2>1, <2>2, <3>1 DEF NoRepeats
  <2> QED  BY <2>2 DEF NoRepeats
<1> QED  BY <1>1, <1>2, <1>3, <1>4, <1>5 DEF longer

\* What a concatenation lists.
LEMMA Concatenating ==
    ASSUME NEW S, NEW front \in Seq(S), NEW back \in Seq(S)
    PROVE  LET both == front \o back IN
           /\ both \in Seq(S)
           /\ Len(both) = Len(front) + Len(back)
           /\ \A j \in 1 .. Len(front) : both[j] = front[j]
           /\ \A j \in 1 .. Len(back) : both[Len(front) + j] = back[j]
           /\ PointsOf(both) \subseteq PointsOf(front) \cup PointsOf(back)
<1> DEFINE both == front \o back
<1>1. /\ Len(front) \in Nat /\ Len(back) \in Nat
      /\ both \in Seq(S)
      /\ Len(both) = Len(front) + Len(back)
      /\ \A j \in 1 .. Len(front) : both[j] = front[j]
      /\ \A j \in 1 .. Len(both) : j > Len(front) => both[j] = back[j - Len(front)]
  OBVIOUS
<1> HIDE DEF both
<1>2. ASSUME NEW j \in 1 .. Len(back)
      PROVE  both[Len(front) + j] = back[j]
  <2>1. /\ Len(front) + j \in 1 .. Len(both)
        /\ Len(front) + j > Len(front)
        /\ (Len(front) + j) - Len(front) = j
    BY <1>1
  <2> QED  BY <1>1, <2>1
<1>3. ASSUME NEW j \in 1 .. Len(both)
      PROVE  both[j] \in PointsOf(front) \cup PointsOf(back)
  <2>1. CASE j <= Len(front)
    <3>1. j \in 1 .. Len(front)
      BY <1>1, <2>1
    <3> QED  BY <1>1, <3>1 DEF PointsOf
  <2>2. CASE j > Len(front)
    <3>1. j - Len(front) \in 1 .. Len(back)
      BY <1>1, <2>2
    <3> QED  BY <1>1, <2>2, <3>1 DEF PointsOf
  <2> QED  BY <1>1, <2>1, <2>2
<1>4. PointsOf(both) \subseteq PointsOf(front) \cup PointsOf(back)
  BY <1>3 DEF PointsOf
<1> QED  BY <1>1, <1>2, <1>4 DEF both

Cores == {p \in Points : IsCore(p)}

NearCores == {q \in Points : \E m \in Cores : q \in Near(m)}

\* For each point, what every set that contains it and is closed under expansion
\* contains.
Reach ==
    [s \in Points |->
        {q \in Points :
            \A X \in SUBSET Points : s \in X /\ ClosedUnderExpansion(X) => q \in X}]

\* Between two scans the locals are gone and the outer loop is through.
Idle ==
    stage = "idle" =>
        /\ cluster = <<>>
        /\ neighbours = <<>>
        /\ i = 1
        /\ point = Len(detected_points) + 1

\* What a label says.
Marks ==
    \A p \in Points :
        /\ p < point => labels[p] # UNVISITED
        /\ labels[p] < cluster_id \/ (stage = "expand" /\ labels[p] = cluster_id)
        /\ labels[p] = NOISE => p \notin Cores
        /\ labels[p] >= 0 => p \in NearCores

\* A finished cluster is reached from its first point, which is its first core
\* point, and has no unlabelled neighbours.
FinishedClusters ==
    \A c \in 1 .. Len(clusters) :
        /\ clusters[c] # <<>>
        /\ PointsOf(clusters[c]) = {p \in Points : labels[p] = c - 1}
        /\ NoRepeats(clusters[c])
        /\ clusters[c][1] \in Cores
        /\ clusters[c][1] < point
        /\ PointsOf(clusters[c]) \subseteq Reach[clusters[c][1]]
        /\ \A q \in Cores :
              labels[q] = c - 1 =>
                  /\ clusters[c][1] <= q
                  /\ \A r \in Near(q) : labels[r] \in 0 .. c - 1

SeedOrder ==
    \A c, d \in 1 .. Len(clusters) : c < d => clusters[c][1] < clusters[d][1]

\* The cluster under construction is reached from the outer loop's point; the
\* neighbours of its core points are labelled or still listed.
Growing ==
    /\ point \in Cores
    /\ cluster # <<>>
    /\ cluster[1] = point
    /\ PointsOf(cluster) = {p \in Points : labels[p] = cluster_id}
    /\ NoRepeats(cluster)
    /\ PointsOf(cluster) \subseteq Reach[point]
    /\ PointsOf(neighbours) \subseteq Reach[point] \cap NearCores
    /\ \A q \in Cores :
          labels[q] = cluster_id =>
              /\ point <= q
              /\ \A r \in Near(q) :
                    \/ labels[r] \in 0 .. cluster_id
                    \/ \E j \in i .. Len(neighbours) : neighbours[j] = r

CurrentCluster == stage = "expand" => Growing

IInv ==
    /\ TypeOK
    /\ Idle
    /\ Marks
    /\ FinishedClusters
    /\ SeedOrder
    /\ CurrentCluster
-----------------------------------------------------------------------------
(***************************************************************************)
(* The steps preserve it.                                                  *)
(***************************************************************************)

LEMMA InitIInv == Init => IInv
<1> SUFFICES ASSUME Init PROVE IInv
  OBVIOUS
<1> USE DEF Init
<1>1. Points = {}
  BY DEF Points
<1>2. TypeOK
  BY <1>1, DBSCANAssumption DEF TypeOK
<1> QED
  BY <1>1, <1>2 DEF IInv, Idle, Marks, FinishedClusters, SeedOrder, CurrentCluster

\* Within a scan, the geometry stays.
LEMMA GeometryStays ==
    ASSUME detected_points' = detected_points, min_samples' = min_samples
    PROVE  /\ Points' = Points
           /\ \A p : Near(p)' = Near(p)
           /\ \A p : IsCore(p)' = IsCore(p)
           /\ Cores' = Cores
           /\ NearCores' = NearCores
           /\ Reach' = Reach
<1>1. Points' = Points
  BY DEF Points
<1>2. ASSUME NEW p
      PROVE  Near(p)' = Near(p)
  BY <1>1 DEF Near
<1>3. ASSUME NEW p
      PROVE  IsCore(p)' = IsCore(p)
  BY <1>2 DEF IsCore
<1>4. Cores' = Cores
  BY <1>1, <1>3 DEF Cores
<1>5. NearCores' = NearCores
  BY <1>1, <1>2, <1>4 DEF NearCores
<1>6. ASSUME NEW X
      PROVE  ClosedUnderExpansion(X)' = ClosedUnderExpansion(X)
  BY <1>2, <1>3 DEF ClosedUnderExpansion
<1>7. Reach' = Reach
  BY <1>1, <1>6 DEF Reach
<1> QED  BY <1>1, <1>2, <1>3, <1>4, <1>5, <1>7

\* A label, once it is a cluster's id, stays; so a step that only labels other
\* points, as noise or with the next id, leaves the finished clusters alone.
LEMMA FinishedStay ==
    ASSUME TypeOK, FinishedClusters, SeedOrder,
           detected_points' = detected_points,
           clusters' = clusters, min_samples' = min_samples,
           point' \in Int, point' >= point,
           \A p \in Points : labels[p] >= 0 => labels'[p] = labels[p],
           \A p \in Points : labels'[p] \in {labels[p], NOISE, cluster_id}
    PROVE  FinishedClusters' /\ SeedOrder'
<1> USE DEF TypeOK
<1>1. /\ Points' = Points
      /\ \A p : Near(p)' = Near(p)
      /\ Cores' = Cores
      /\ Reach' = Reach
  BY GeometryStays
<1>2. ASSUME NEW c \in 1 .. Len(clusters)
      PROVE  {p \in Points : labels'[p] = c - 1} = {p \in Points : labels[p] = c - 1}
  <2>1. c - 1 \in Nat /\ c - 1 < cluster_id
    OBVIOUS
  <2>2. ASSUME NEW p \in Points
        PROVE  labels'[p] = c - 1 <=> labels[p] = c - 1
    <3>1. labels[p] \in {UNVISITED, NOISE} \cup Nat
      OBVIOUS
    <3> QED  BY <2>1, <3>1, SMTT(30) DEF UNVISITED, NOISE
  <2> QED  BY <2>2
<1>3. ASSUME NEW c \in 1 .. Len(clusters)
      PROVE  /\ clusters[c] # <<>>
             /\ PointsOf(clusters[c]) = {p \in Points : labels'[p] = c - 1}
             /\ NoRepeats(clusters[c])
             /\ clusters[c][1] \in Cores
             /\ clusters[c][1] < point'
             /\ PointsOf(clusters[c]) \subseteq Reach[clusters[c][1]]
             /\ \A q \in Cores :
                   labels'[q] = c - 1 =>
                       /\ clusters[c][1] <= q
                       /\ \A r \in Near(q) : labels'[r] \in 0 .. c - 1
  <2>1. clusters[c][1] \in Points /\ clusters[c][1] < point
    BY DEF FinishedClusters, Cores
  <2>2. clusters[c][1] < point'
    BY <2>1, SMTT(30) DEF Points
  <2>3. ASSUME NEW q \in Cores, labels'[q] = c - 1
        PROVE  /\ clusters[c][1] <= q
               /\ \A r \in Near(q) : labels'[r] \in 0 .. c - 1
    <3>1. q \in Points
      BY DEF Cores
    <3>2. labels[q] = c - 1
      BY <1>2, <2>3, <3>1
    <3>3. ASSUME NEW r \in Near(q)
          PROVE  labels'[r] \in 0 .. c - 1
      <4>1. r \in Points /\ labels[r] \in 0 .. c - 1
        BY <3>2 DEF FinishedClusters, Near
      <4>2. labels[r] >= 0
        BY <4>1
      <4> QED  BY <4>1, <4>2
    <3> QED  BY <3>2, <3>3 DEF FinishedClusters
  <2> QED  BY <1>2, <2>2, <2>3 DEF FinishedClusters
<1>4. FinishedClusters'
  BY <1>1, <1>3 DEF FinishedClusters
<1>5. SeedOrder'
  BY DEF SeedOrder
<1> QED  BY <1>4, <1>5

LEMMA BeginScanStep ==
    ASSUME IInv, BeginScan PROVE IInv'
<1> USE DEF IInv, TypeOK, Idle, BeginScan, Reset
<1>1. Head(frames) \in Seq(Int \X Int) /\ Tail(frames) \in Seq(Seq(Int \X Int))
  OBVIOUS
<1>2. Points' = 1 .. Len(Head(frames))
  BY DEF Points
<1>3. TypeOK'
  BY <1>1, <1>2 DEF Points
<1>4. Marks'
  <2>1. ASSUME NEW p \in Points'
        PROVE  p \in Nat /\ p >= 1 /\ labels'[p] = UNVISITED
    BY <1>1, <1>2
  <2>2. ASSUME NEW p \in Points'
        PROVE  /\ ~(p < point')
               /\ labels'[p] < cluster_id'
               /\ labels'[p] # NOISE
               /\ ~(labels'[p] >= 0)
    <3>1. p \in Nat /\ p >= 1 /\ labels'[p] = -1
      BY <2>1 DEF UNVISITED
    <3>2. point' = 1 /\ cluster_id' = 0
      OBVIOUS
    <3> HIDE DEF IInv, TypeOK, Idle, BeginScan, Reset
    <3> QED  BY <3>1, <3>2 DEF NOISE
  <2> QED  BY <2>2 DEF Marks
<1>5. FinishedClusters' /\ SeedOrder'
  BY DEF FinishedClusters, SeedOrder
<1>6. Idle' /\ CurrentCluster'
  BY DEF CurrentCluster
<1> QED  BY <1>3, <1>4, <1>5, <1>6 DEF IInv

LEMMA SkipProcessedStep ==
    ASSUME IInv, SkipProcessed PROVE IInv'
<1> USE DEF IInv, TypeOK, SkipProcessed
<1>1. /\ Points' = Points
      /\ Cores' = Cores
      /\ NearCores' = NearCores
  BY GeometryStays
<1>2. TypeOK'
  BY <1>1 DEF Points
<1>3. FinishedClusters' /\ SeedOrder'
  BY FinishedStay DEF Points
<1>4. Marks'
  <2>1. ASSUME NEW p \in Points, p < point + 1
        PROVE  labels[p] # UNVISITED
    <3>1. p < point \/ p = point
      BY <2>1 DEF Points
    <3> QED  BY <3>1 DEF Marks
  <2> QED  BY <1>1, <2>1 DEF Marks
<1>5. Idle' /\ CurrentCluster'
  BY DEF Idle, CurrentCluster
<1> QED  BY <1>2, <1>3, <1>4, <1>5 DEF IInv

LEMMA MarkNoiseStep ==
    ASSUME IInv, MarkNoise PROVE IInv'
<1> USE DEF IInv, TypeOK, MarkNoise
<1>1. /\ Points' = Points
      /\ Cores' = Cores
      /\ NearCores' = NearCores
  BY GeometryStays
<1>2. ASSUME NEW p \in Points
      PROVE  labels'[p] = IF p = point THEN NOISE ELSE labels[p]
  OBVIOUS
<1>3. TypeOK'
  BY <1>1 DEF Points
<1>4. FinishedClusters' /\ SeedOrder'
  <2>1. \A p \in Points : labels[p] >= 0 => labels'[p] = labels[p]
    BY <1>2 DEF UNVISITED
  <2>2. \A p \in Points : labels'[p] \in {labels[p], NOISE, cluster_id}
    BY <1>2
  <2>3. point' \in Int /\ point' >= point
    OBVIOUS
  <2>4. detected_points' = detected_points /\ clusters' = clusters
    OBVIOUS
  <2> QED  BY <2>1, <2>2, <2>3, <2>4, FinishedStay
<1>5. Marks'
  <2> SUFFICES ASSUME NEW p \in Points
               PROVE  /\ p < point' => labels'[p] # UNVISITED
                      /\ labels'[p] < cluster_id
                      /\ labels'[p] = NOISE => p \notin Cores
                      /\ labels'[p] >= 0 => p \in NearCores
    BY <1>1 DEF Marks
  <2>1. CASE p = point
    BY <1>2, <2>1 DEF Cores, UNVISITED, NOISE
  <2>2. CASE p # point
    <3>1. labels'[p] = labels[p]
      BY <1>2, <2>2
    <3>2. p < point' => p < point
      BY <2>2 DEF Points
    <3> QED  BY <3>1, <3>2 DEF Marks
  <2> QED  BY <2>1, <2>2
<1>6. Idle' /\ CurrentCluster'
  BY DEF Idle, CurrentCluster
<1> QED  BY <1>3, <1>4, <1>5, <1>6 DEF IInv

\* Reach starts at the point itself and goes on from core points.
LEMMA ReachGoesOn ==
    ASSUME NEW s \in Points
    PROVE  /\ s \in Reach[s]
           /\ \A q \in Reach[s] \cap Cores : Near(q) \subseteq Reach[s]
<1>1. Reach[s] = {q \in Points : \A X \in SUBSET Points :
                     s \in X /\ ClosedUnderExpansion(X) => q \in X}
  BY DEF Reach
<1>2. ASSUME NEW q \in Reach[s] \cap Cores, NEW r \in Near(q)
      PROVE  r \in Reach[s]
  <2>1. r \in Points /\ IsCore(q)
    BY DEF Near, Cores
  <2>2. ASSUME NEW X \in SUBSET Points, s \in X, ClosedUnderExpansion(X)
        PROVE  r \in X
    <3>1. q \in X
      BY <1>1, <2>2
    <3> QED  BY <2>1, <2>2, <3>1 DEF ClosedUnderExpansion
  <2> QED  BY <1>1, <2>1, <2>2
<1> QED  BY <1>1, <1>2

LEMMA StartClusterStep ==
    ASSUME IInv, StartCluster PROVE IInv'
<1> USE DEF IInv, TypeOK, StartCluster
<1>1. /\ Points' = Points
      /\ \A p : Near(p)' = Near(p)
      /\ Cores' = Cores
      /\ NearCores' = NearCores
      /\ Reach' = Reach
  BY GeometryStays
<1>2. point \in Cores /\ point \in Points
  BY DEF Cores
<1>3. /\ neighbours' \in Seq(Points)
      /\ PointsOf(neighbours') = Near(point)
  BY NeighboursListed
<1>4. point \in Near(point) /\ Near(point) \subseteq Points
  BY NearIsMutual, DBSCANAssumption DEF Near
<1>5. cluster_id \in Nat
  OBVIOUS
<1>6. ASSUME NEW p \in Points
      PROVE  labels'[p] = IF p = point THEN cluster_id ELSE labels[p]
  OBVIOUS
<1>7. ASSUME NEW p \in Points
      PROVE  labels[p] < cluster_id
  BY DEF Marks
<1>8. TypeOK'
  BY <1>1, <1>3, <1>5
<1>9. FinishedClusters' /\ SeedOrder'
  <2>1. \A p \in Points : labels[p] >= 0 => labels'[p] = labels[p]
    BY <1>6 DEF UNVISITED
  <2>2. \A p \in Points : labels'[p] \in {labels[p], NOISE, cluster_id}
    BY <1>6
  <2>3. point' \in Int /\ point' >= point
    OBVIOUS
  <2>4. detected_points' = detected_points /\ clusters' = clusters
    OBVIOUS
  <2> QED  BY <2>1, <2>2, <2>3, <2>4, FinishedStay
<1>10. Marks'
  <2> SUFFICES ASSUME NEW p \in Points
               PROVE  /\ p < point => labels'[p] # UNVISITED
                      /\ labels'[p] < cluster_id \/ labels'[p] = cluster_id
                      /\ labels'[p] = NOISE => p \notin Cores
                      /\ labels'[p] >= 0 => p \in NearCores
    BY <1>1 DEF Marks
  <2>1. CASE p = point
    <3>1. labels'[p] = cluster_id
      BY <1>6, <2>1
    <3>2. p \in NearCores
      BY <1>2, <1>4, <2>1 DEF NearCores
    <3> QED  BY <1>5, <3>1, <3>2 DEF UNVISITED, NOISE
  <2>2. CASE p # point
    <3>1. labels'[p] = labels[p]
      BY <1>6, <2>2
    <3> QED  BY <1>7, <3>1 DEF Marks
  <2> QED  BY <2>1, <2>2
<1>11. Growing'
  <2>1. /\ cluster' # <<>>
        /\ cluster'[1] = point
        /\ PointsOf(cluster') = {point}
        /\ NoRepeats(cluster')
    <3>1. cluster' = <<point>>
      OBVIOUS
    <3> HIDE DEF IInv, TypeOK, StartCluster
    <3>2. Len(cluster') = 1 /\ cluster'[1] = point /\ cluster' # <<>>
      BY <3>1
    <3>3. 1 .. 1 = {1}
      OBVIOUS
    <3> QED  BY <3>2, <3>3 DEF PointsOf, NoRepeats
  <2>2. {p \in Points : labels'[p] = cluster_id} = {point}
    <3>1. ASSUME NEW p \in Points
          PROVE  labels'[p] = cluster_id <=> p = point
      <4>1. labels[p] # cluster_id
        BY <1>5, <1>7
      <4> HIDE DEF IInv, TypeOK, StartCluster
      <4> QED  BY <1>6, <4>1
    <3> HIDE DEF IInv, TypeOK, StartCluster
    <3> QED  BY <1>2, <3>1
  <2>3. point \in Reach[point] /\ Near(point) \subseteq Reach[point]
    BY <1>2, ReachGoesOn
  <2>4. Near(point) \subseteq NearCores
    BY <1>2, <1>4 DEF NearCores
  <2>5. ASSUME NEW q \in Cores, labels'[q] = cluster_id
        PROVE  /\ point <= q
               /\ \A r \in Near(q) : \E j \in 1 .. Len(neighbours') : neighbours'[j] = r
    <3>1. q = point
      BY <2>2, <2>5 DEF Cores
    <3>2. point <= q
      BY <3>1
    <3> QED  BY <1>3, <3>1, <3>2 DEF PointsOf
  <2>6. /\ point' = point
        /\ cluster_id' = cluster_id
        /\ i' = 1
    OBVIOUS
  <2>7. PointsOf(cluster') \subseteq Reach[point]
    BY <2>1, <2>3
  <2>8. PointsOf(neighbours') \subseteq Reach[point] \cap NearCores
    BY <1>3, <2>3, <2>4
  <2> HIDE DEF IInv, TypeOK, StartCluster
  <2> QED
    BY <1>1, <1>2, <2>1, <2>2, <2>5, <2>6, <2>7, <2>8 DEF Growing
<1>12. Idle' /\ CurrentCluster'
  BY <1>11 DEF Idle, CurrentCluster
<1> QED  BY <1>8, <1>9, <1>10, <1>12 DEF IInv

LEMMA PassProcessedStep ==
    ASSUME IInv, PassProcessed PROVE IInv'
<1> USE DEF IInv, TypeOK, PassProcessed, Expanding
<1>1. /\ Points' = Points
      /\ \A p : Near(p)' = Near(p)
      /\ Cores' = Cores
      /\ NearCores' = NearCores
      /\ Reach' = Reach
  BY GeometryStays
<1>2. TypeOK'
  BY <1>1
<1>3. FinishedClusters' /\ SeedOrder'
  BY FinishedStay
<1>4. Marks'
  BY <1>1 DEF Marks
<1>5. Growing'
  <2>1. neighbours[i] \in Points /\ labels[neighbours[i]] \in 0 .. cluster_id
    <3>1. neighbours[i] \in Points
      OBVIOUS
    <3>2. labels[neighbours[i]] \in Nat
      BY <3>1
    <3>3. labels[neighbours[i]] < cluster_id \/ labels[neighbours[i]] = cluster_id
      BY <3>1 DEF Marks
    <3> QED  BY <3>1, <3>2, <3>3
  <2>2. ASSUME NEW q \in Cores, labels[q] = cluster_id, NEW r \in Near(q)
        PROVE  \/ labels[r] \in 0 .. cluster_id
               \/ \E j \in i + 1 .. Len(neighbours) : neighbours[j] = r
    <3>1. CASE labels[r] \in 0 .. cluster_id
      BY <3>1
    <3>2. CASE \E j \in i .. Len(neighbours) : neighbours[j] = r
      <4>1. PICK j \in i .. Len(neighbours) : neighbours[j] = r
        BY <3>2
      <4>2. CASE j = i
        BY <2>1, <4>1, <4>2
      <4>3. CASE j # i
        BY <4>1, <4>3
      <4> QED  BY <4>2, <4>3
    <3> QED  BY <2>2, <3>1, <3>2 DEF CurrentCluster, Growing
  <2>3. Growing
    BY DEF CurrentCluster
  <2> QED  BY <1>1, <2>2, <2>3 DEF Growing
<1>6. Idle' /\ CurrentCluster'
  BY <1>5 DEF Idle, CurrentCluster
<1> QED  BY <1>2, <1>3, <1>4, <1>6 DEF IInv

LEMMA EndScanStep ==
    ASSUME IInv, EndScan PROVE IInv'
<1> USE DEF IInv, TypeOK, EndScan
<1>1. /\ Points' = Points
      /\ Cores' = Cores
      /\ NearCores' = NearCores
  BY GeometryStays
<1>2. TypeOK'
  BY <1>1
<1>3. FinishedClusters' /\ SeedOrder'
  BY FinishedStay
<1>4. Marks'
  BY <1>1 DEF Marks
<1>5. Idle' /\ CurrentCluster'
  BY DEF Idle, CurrentCluster
<1> QED  BY <1>2, <1>3, <1>4, <1>5 DEF IInv

LEMMA CloseClusterStep ==
    ASSUME IInv, CloseCluster PROVE IInv'
<1> USE DEF IInv, TypeOK, CloseCluster
<1>1. /\ Points' = Points
      /\ \A p : Near(p)' = Near(p)
      /\ Cores' = Cores
      /\ NearCores' = NearCores
      /\ Reach' = Reach
  BY GeometryStays
<1>2. Growing /\ point \in Points
  BY DEF CurrentCluster, Growing, Cores
<1>3. /\ cluster_id \in Nat
      /\ Len(clusters') = cluster_id + 1
      /\ clusters'[cluster_id + 1] = cluster
      /\ \A c \in 1 .. cluster_id : clusters'[c] = clusters[c]
      /\ Len(clusters) = cluster_id
      /\ labels' = labels
      /\ point' = point + 1
      /\ point \in Nat
  OBVIOUS
<1>4. TypeOK'
  BY <1>1, <1>2 DEF Points
<1>5. labels[point] = cluster_id
  <2>1. 1 \in 1 .. Len(cluster) /\ cluster[1] = point
    BY <1>2 DEF Growing
  <2>2. point \in PointsOf(cluster)
    BY <2>1 DEF PointsOf
  <2> QED  BY <1>2, <2>2 DEF Growing
<1>6. Marks'
  <2> SUFFICES ASSUME NEW p \in Points
               PROVE  /\ p < point + 1 => labels[p] # UNVISITED
                      /\ labels[p] < cluster_id + 1
                      /\ labels[p] = NOISE => p \notin Cores
                      /\ labels[p] >= 0 => p \in NearCores
    BY <1>1 DEF Marks
  <2>1. p < point + 1 => p < point \/ p = point
    BY DEF Points
  <2>2. p = point => labels[p] # UNVISITED
    BY <1>3, <1>5 DEF UNVISITED
  <2>3. labels[p] < cluster_id + 1
    <3>1. labels[p] \in Int
      <4>1. labels[p] \in {UNVISITED, NOISE} \cup Nat
        OBVIOUS
      <4> HIDE DEF IInv, TypeOK, CloseCluster
      <4> QED  BY <4>1 DEF UNVISITED, NOISE
    <3>2. labels[p] < cluster_id \/ labels[p] = cluster_id
      BY DEF Marks
    <3> QED  BY <1>3, <3>1, <3>2
  <2> QED  BY <2>1, <2>2, <2>3 DEF Marks
<1>7. FinishedClusters'
  <2> SUFFICES ASSUME NEW c \in 1 .. cluster_id + 1
               PROVE  /\ clusters'[c] # <<>>
                      /\ PointsOf(clusters'[c]) = {p \in Points : labels[p] = c - 1}
                      /\ NoRepeats(clusters'[c])
                      /\ clusters'[c][1] \in Cores
                      /\ clusters'[c][1] < point + 1
                      /\ PointsOf(clusters'[c]) \subseteq Reach[clusters'[c][1]]
                      /\ \A q \in Cores :
                            labels[q] = c - 1 =>
                                /\ clusters'[c][1] <= q
                                /\ \A r \in Near(q) : labels[r] \in 0 .. c - 1
    <3> HIDE DEF IInv, TypeOK, CloseCluster
    <3> QED  BY <1>1, <1>3 DEF FinishedClusters
  <2>1. CASE c <= cluster_id
    <3>1. clusters'[c] = clusters[c] /\ c \in 1 .. Len(clusters)
      BY <1>3, <2>1
    <3>2. clusters[c][1] < point + 1
      <4>1. clusters[c][1] \in Points /\ clusters[c][1] < point
        BY <3>1 DEF FinishedClusters, Cores
      <4> HIDE DEF IInv, TypeOK, CloseCluster
      <4> QED  BY <1>3, <4>1 DEF Points
    <3> QED  BY <3>1, <3>2 DEF FinishedClusters
  <2>2. CASE c = cluster_id + 1
    <3>1. clusters'[c] = cluster /\ c - 1 = cluster_id
      BY <1>3, <2>2
    <3>2. cluster[1] < point + 1
      BY <1>2 DEF Growing, Points
    <3>3. ASSUME NEW q \in Cores, labels[q] = cluster_id
          PROVE  point <= q /\ \A r \in Near(q) : labels[r] \in 0 .. cluster_id
      <4>1. i .. Len(neighbours) = {}
        OBVIOUS
      <4> QED  BY <1>2, <3>3, <4>1 DEF Growing
    <3> HIDE DEF IInv, TypeOK, CloseCluster
    <3> QED  BY <1>2, <3>1, <3>2, <3>3 DEF Growing
  <2>3. c <= cluster_id \/ c = cluster_id + 1
    BY <1>3
  <2> HIDE DEF IInv, TypeOK, CloseCluster
  <2> QED  BY <2>1, <2>2, <2>3
<1>8. SeedOrder'
  <2> SUFFICES ASSUME NEW c \in 1 .. cluster_id + 1, NEW d \in 1 .. cluster_id + 1, c < d
               PROVE  clusters'[c][1] < clusters'[d][1]
    BY <1>3 DEF SeedOrder
  <2>1. clusters'[c] = clusters[c] /\ c \in 1 .. Len(clusters)
    BY <1>3
  <2>2. CASE d = cluster_id + 1
    BY <1>2, <1>3, <2>1, <2>2 DEF Growing, FinishedClusters
  <2>3. CASE d # cluster_id + 1
    <3>1. clusters'[d] = clusters[d] /\ d \in 1 .. Len(clusters)
      BY <1>3, <2>3
    <3> QED  BY <2>1, <3>1 DEF SeedOrder
  <2> QED  BY <2>2, <2>3
<1>9. Idle' /\ CurrentCluster'
  BY DEF Idle, CurrentCluster
<1> QED  BY <1>4, <1>6, <1>7, <1>8, <1>9 DEF IInv

\* A cluster that a new point is appended to.
LEMMA Appended ==
    ASSUME NEW list \in Seq(Points), NEW p \in Points,
           list # <<>>, NoRepeats(list), p \notin PointsOf(list)
    PROVE  /\ Append(list, p) \in Seq(Points)
           /\ Append(list, p) # <<>>
           /\ Append(list, p)[1] = list[1]
           /\ PointsOf(Append(list, p)) = PointsOf(list) \cup {p}
           /\ NoRepeats(Append(list, p))
BY Appending

\* What PromoteNoise and Absorb have in common: a point p without a cluster joins
\* the one under construction, and its neighbours are listed if it is a core point.
LEMMA Joining ==
    ASSUME IInv, Expanding,
           NEW p \in Points,
           p = neighbours[i],
           labels[p] \in {UNVISITED, NOISE},
           Join(p),
           i' = i + 1,
           UNCHANGED <<min_samples, frames, detected_points, clusters, cluster_id,
                       point, stage>>,
           NEW more \in Seq(Points),
           neighbours' = neighbours \o more,
           \/ p \notin Cores /\ more = <<>>
           \/ p \in Cores /\ PointsOf(more) = Near(p)
    PROVE  IInv'
<1>1. /\ Points' = Points
      /\ \A q : Near(q)' = Near(q)
      /\ Cores' = Cores
      /\ NearCores' = NearCores
      /\ Reach' = Reach
  BY GeometryStays
<1>2. TypeOK /\ Marks /\ FinishedClusters /\ SeedOrder /\ Growing
  BY DEF IInv, CurrentCluster, Expanding
<1>3. /\ cluster \in Seq(Points)
      /\ neighbours \in Seq(Points)
      /\ labels \in [Points -> {UNVISITED, NOISE} \cup Nat]
      /\ point \in Int
      /\ i \in 1 .. Len(neighbours)
      /\ Len(neighbours) \in Nat /\ Len(more) \in Nat
      /\ cluster_id \in Nat
  BY <1>2, SMTT(30) DEF TypeOK, Expanding
<1>4. p \in PointsOf(neighbours)
  BY <1>3 DEF PointsOf
<1>5. labels[p] \in Int /\ labels[p] < 0
  BY DEF UNVISITED, NOISE
<1>6. ASSUME NEW q \in Points
      PROVE  labels'[q] = IF q = p THEN cluster_id ELSE labels[q]
  BY <1>3 DEF Join
<1>7. cluster' = Append(cluster, p)
  BY DEF Join
<1>8. /\ neighbours' \in Seq(Points)
      /\ Len(neighbours') = Len(neighbours) + Len(more)
      /\ \A j \in 1 .. Len(neighbours) : neighbours'[j] = neighbours[j]
      /\ \A j \in 1 .. Len(more) : neighbours'[Len(neighbours) + j] = more[j]
      /\ PointsOf(neighbours') \subseteq PointsOf(neighbours) \cup PointsOf(more)
  BY <1>3, Concatenating
<1>9. /\ cluster' \in Seq(Points)
      /\ cluster' # <<>>
      /\ cluster'[1] = point
      /\ PointsOf(cluster') = PointsOf(cluster) \cup {p}
      /\ NoRepeats(cluster')
  <2>1. /\ cluster # <<>>
        /\ cluster[1] = point
        /\ NoRepeats(cluster)
        /\ p \notin PointsOf(cluster)
    BY <1>2, <1>3, <1>5 DEF Growing
  <2>2. PICK list : list = cluster
    OBVIOUS
  <2>3. /\ list \in Seq(Points) /\ list # <<>> /\ list[1] = point
        /\ NoRepeats(list) /\ p \notin PointsOf(list)
    BY <1>3, <2>1, <2>2
  <2>4. /\ Append(list, p) \in Seq(Points)
        /\ Append(list, p) # <<>>
        /\ Append(list, p)[1] = list[1]
        /\ PointsOf(Append(list, p)) = PointsOf(list) \cup {p}
        /\ NoRepeats(Append(list, p))
    BY <2>3, Appended, Zenon
  <2> QED  BY <1>7, <2>2, <2>3, <2>4
<1>10. TypeOK'
  <2>1. labels' \in [Points' -> {UNVISITED, NOISE} \cup Nat]
    <3>1. labels' = [labels EXCEPT ![p] = cluster_id]
      BY DEF Join
    <3>2. labels' \in [Points -> {UNVISITED, NOISE} \cup Nat]
      BY <1>3, <3>1
    <3> QED  BY <1>1, <3>2
  <2>2. i' \in 1 .. Len(neighbours') + 1
    BY <1>3, <1>8
  <2>3. cluster' \in Seq(Points') /\ neighbours' \in Seq(Points')
    BY <1>1, <1>8, <1>9
  <2>4. clusters' \in Seq(Seq(Points'))
    BY <1>1, <1>2 DEF TypeOK
  <2>5. /\ min_samples' \in MinSamples
        /\ frames' \in Seq(Seq(Int \X Int))
        /\ detected_points' \in Seq(Int \X Int)
        /\ cluster_id' = Len(clusters')
        /\ point' \in 1 .. Len(detected_points') + 1
        /\ stage' \in {"idle", "scan", "expand"}
    BY <1>2 DEF TypeOK
  <2> QED  BY <2>1, <2>2, <2>3, <2>4, <2>5 DEF TypeOK
<1>11. FinishedClusters' /\ SeedOrder'
  <2>1. \A q \in Points : labels[q] >= 0 => labels'[q] = labels[q]
    BY <1>5, <1>6
  <2>2. \A q \in Points : labels'[q] \in {labels[q], NOISE, cluster_id}
    BY <1>6
  <2>3. point' \in Int /\ point' >= point
    BY <1>3
  <2> QED  BY <1>2, <2>1, <2>2, <2>3, FinishedStay
<1>12. point \in Cores /\ point \in Points /\ p \in Reach[point] /\ p \in NearCores
  BY <1>2, <1>4 DEF Growing, Cores
<1>13. Marks'
  <2> SUFFICES ASSUME NEW q \in Points
               PROVE  /\ q < point => labels'[q] # UNVISITED
                      /\ labels'[q] < cluster_id \/ labels'[q] = cluster_id
                      /\ labels'[q] = NOISE => q \notin Cores
                      /\ labels'[q] >= 0 => q \in NearCores
    BY <1>1 DEF Marks, Expanding
  <2>1. CASE q = p
    <3>1. labels'[q] = cluster_id
      BY <1>6, <2>1
    <3> QED  BY <1>3, <1>12, <2>1, <3>1 DEF UNVISITED, NOISE
  <2>2. CASE q # p
    <3>1. labels'[q] = labels[q]
      BY <1>6, <2>2
    <3> QED  BY <1>2, <3>1 DEF Marks
  <2> QED  BY <2>1, <2>2
<1>14. PointsOf(cluster') = {q \in Points : labels'[q] = cluster_id}
  <2>1. PointsOf(cluster) = {q \in Points : labels[q] = cluster_id}
    BY <1>2 DEF Growing
  <2> QED  BY <1>6, <1>9, <2>1
<1>15. PointsOf(cluster') \subseteq Reach[point]
  BY <1>2, <1>9, <1>12 DEF Growing
<1>16. PointsOf(more) \subseteq Reach[point] \cap NearCores
  <2>1. CASE p \notin Cores /\ more = <<>>
    <3>1. Len(more) = 0
      BY <2>1
    <3> QED  BY <3>1 DEF PointsOf
  <2>2. CASE p \in Cores /\ PointsOf(more) = Near(p)
    <3>1. Near(p) \subseteq Reach[point]
      BY <1>12, <2>2, ReachGoesOn
    <3>2. Near(p) \subseteq NearCores
      BY <2>2 DEF NearCores, Near
    <3> QED  BY <2>2, <3>1, <3>2
  <2> QED  BY <2>1, <2>2
<1>17. PointsOf(neighbours') \subseteq Reach[point] \cap NearCores
  BY <1>2, <1>8, <1>16 DEF Growing
<1>18. ASSUME NEW q \in Cores, labels'[q] = cluster_id
       PROVE  /\ point <= q
              /\ \A r \in Near(q) :
                    \/ labels'[r] \in 0 .. cluster_id
                    \/ \E j \in i + 1 .. Len(neighbours') : neighbours'[j] = r
  <2>1. q \in Points /\ q \in Nat
    BY DEF Cores, Points
  <2>2. CASE q = p
    <3>1. point <= q
      <4>1. labels[q] = UNVISITED
        BY <1>2, <2>1, <2>2 DEF Marks
      <4>2. ~(q < point)
        BY <1>2, <2>1, <4>1 DEF Marks
      <4> QED  BY <1>3, <2>1, <4>2
    <3>2. PointsOf(more) = Near(q)
      BY <2>2
    <3>3. ASSUME NEW r \in Near(q)
          PROVE  \E j \in i + 1 .. Len(neighbours') : neighbours'[j] = r
      <4>1. PICK k \in 1 .. Len(more) : more[k] = r
        BY <3>2 DEF PointsOf
      <4>2. Len(neighbours) + k \in i + 1 .. Len(neighbours')
        BY <1>3, <1>8
      <4> QED  BY <1>8, <4>1, <4>2
    <3> QED  BY <3>1, <3>3
  <2>3. CASE q # p
    <3>1. labels[q] = cluster_id
      BY <1>6, <1>18, <2>1, <2>3
    <3>2. ASSUME NEW r \in Near(q)
          PROVE  \/ labels'[r] \in 0 .. cluster_id
                 \/ \E j \in i + 1 .. Len(neighbours') : neighbours'[j] = r
      <4>0. r \in Points
        BY DEF Near
      <4>1. CASE r = p
        <5>1. labels'[r] = cluster_id
          BY <1>6, <4>0, <4>1
        <5> QED  BY <1>3, <5>1
      <4>2. CASE r # p /\ labels[r] \in 0 .. cluster_id
        BY <1>6, <4>0, <4>2
      <4>3. CASE r # p /\ \E j \in i .. Len(neighbours) : neighbours[j] = r
        <5>1. PICK j \in i .. Len(neighbours) : neighbours[j] = r
          BY <4>3
        <5>2. j # i
          BY <4>3, <5>1
        <5>3. j \in i + 1 .. Len(neighbours') /\ j \in 1 .. Len(neighbours)
          BY <1>3, <1>8, <5>1, <5>2
        <5> QED  BY <1>8, <5>1, <5>3
      <4> QED  BY <1>2, <3>1, <4>1, <4>2, <4>3 DEF Growing
    <3>3. point <= q
      BY <1>2, <3>1 DEF Growing
    <3> QED  BY <3>2, <3>3
  <2> QED  BY <2>2, <2>3
<1>19. Growing'
  BY <1>1, <1>9, <1>12, <1>14, <1>15, <1>17, <1>18 DEF Growing
<1>20. Idle' /\ CurrentCluster'
  BY <1>19 DEF Idle, CurrentCluster, Expanding
<1> QED  BY <1>10, <1>11, <1>13, <1>20 DEF IInv

LEMMA PromoteNoiseStep ==
    ASSUME IInv, PromoteNoise PROVE IInv'
<1> DEFINE none == <<>>
<1>1. TypeOK /\ Marks /\ Expanding
  BY DEF IInv, PromoteNoise
<1>2. neighbours \in Seq(Points) /\ i \in 1 .. Len(neighbours)
  BY <1>1 DEF TypeOK, Expanding
<1>3. PICK p \in Points : p = neighbours[i]
  BY <1>2
<1>4. labels[p] = NOISE /\ p \notin Cores
  BY <1>1, <1>3 DEF PromoteNoise, Marks
<1>5. none \in Seq(Points) /\ neighbours' = neighbours \o none
  BY <1>2 DEF PromoteNoise
<1>6. /\ Join(p)
      /\ i' = i + 1
      /\ UNCHANGED <<min_samples, frames, detected_points, clusters, cluster_id,
                     point, stage>>
  BY <1>3 DEF PromoteNoise
<1> QED  BY <1>1, <1>3, <1>4, <1>5, <1>6, Joining

LEMMA AbsorbStep ==
    ASSUME IInv, Absorb PROVE IInv'
<1>1. TypeOK /\ Expanding
  BY DEF IInv, Absorb
<1>2. neighbours \in Seq(Points) /\ i \in 1 .. Len(neighbours)
  BY <1>1 DEF TypeOK, Expanding
<1>3. PICK p \in Points : p = neighbours[i]
  BY <1>2
<1>4. /\ labels[p] = UNVISITED
      /\ Join(p)
      /\ neighbours' = Extended(p)
      /\ i' = i + 1
      /\ UNCHANGED <<min_samples, frames, detected_points, clusters, cluster_id,
                     point, stage>>
  BY <1>3 DEF Absorb
<1>5. CASE IsCore(p)
  <2>1. PICK more \in Seq(Points) : more = scan_neighbour(p) /\ PointsOf(more) = Near(p)
    BY <1>1, NeighboursListed DEF TypeOK
  <2>2. p \in Cores /\ neighbours' = neighbours \o more
    BY <1>4, <1>5, <2>1 DEF Cores, Extended
  <2> QED  BY <1>1, <1>3, <1>4, <2>1, <2>2, Joining
<1>6. CASE ~IsCore(p)
  <2> DEFINE none == <<>>
  <2>1. p \notin Cores
    BY <1>6 DEF Cores
  <2>2. none \in Seq(Points) /\ neighbours' = neighbours \o none
    BY <1>2, <1>4, <1>6 DEF Extended
  <2> QED  BY <1>1, <1>3, <1>4, <2>1, <2>2, Joining
<1> QED  BY <1>5, <1>6

LEMMA StutterStep ==
    ASSUME IInv, UNCHANGED vars PROVE IInv'
<1> USE DEF vars
<1>1. /\ Points' = Points
      /\ \A p : Near(p)' = Near(p)
      /\ Cores' = Cores
      /\ NearCores' = NearCores
      /\ Reach' = Reach
  BY GeometryStays
<1>2. TypeOK'
  BY <1>1 DEF IInv, TypeOK
<1>3. Idle' /\ Marks' /\ FinishedClusters' /\ SeedOrder'
  BY <1>1 DEF IInv, Idle, Marks, FinishedClusters, SeedOrder
<1>4. CurrentCluster'
  BY <1>1 DEF IInv, CurrentCluster, Growing
<1> QED  BY <1>2, <1>3, <1>4 DEF IInv

LEMMA Invariant == Spec => []IInv
<1>1. Init => IInv
  BY InitIInv
<1>2. IInv /\ [Next]_vars => IInv'
  BY BeginScanStep, SkipProcessedStep, MarkNoiseStep, StartClusterStep,
     PromoteNoiseStep, PassProcessedStep, AbsorbStep, CloseClusterStep,
     EndScanStep, StutterStep
     DEF Next, Round
<1> QED  BY <1>1, <1>2, PTL DEF Spec
-----------------------------------------------------------------------------
(***************************************************************************)
(* What the invariant means.                                               *)
(***************************************************************************)

\* scan's members and locals keep their types: every index the expansion uses
\* is inside the list it walks, also after the list has grown (DBSCAN.cpp:133).
THEOREM TypeCorrect == Spec => []TypeOK
<1>1. IInv => TypeOK
  BY DEF IInv
<1> QED  BY <1>1, Invariant, PTL

\* A list without repetitions is as long as the set of its elements is large.
LEMMA LengthIsCardinality ==
    ASSUME NEW S, NEW list \in Seq(S), NoRepeats(list)
    PROVE  Cardinality(PointsOf(list)) = Len(list)
<1> DEFINE n == Len(list)
<1>1. n \in Nat /\ list \in [1 .. n -> PointsOf(list)]
  BY DEF PointsOf
<1>2. list \in Bijection(1 .. n, PointsOf(list))
  <2>1. \A a, b \in 1 .. n : list[a] = list[b] => a = b
    BY DEF NoRepeats
  <2>2. \A q \in PointsOf(list) : \E k \in 1 .. n : list[k] = q
    BY DEF PointsOf
  <2> HIDE DEF n
  <2> QED
    BY <1>1, <2>1, <2>2 DEF Bijection, Injection, Surjection, IsInjective
<1>3. IsFiniteSet(1 .. n) /\ Cardinality(1 .. n) = n
  BY <1>1, FS_Interval, SMTT(30)
<1>4. ExistsBijection(1 .. n, PointsOf(list))
  BY <1>2 DEF ExistsBijection
<1> QED  BY <1>3, <1>4, FS_Bijection

\* In every round, a detection is listed in the cluster whose id it is labelled
\* with, exactly once, and in no other: labels and lists agree although
\* DBSCAN.cpp:113-117 and 139-171 write them apart.
THEOREM OncePerPoint == Spec => []ListedOnce
<1>1. ASSUME IInv PROVE ListedOnce
  <2> SUFFICES ASSUME NEW c \in 1 .. Len(AllClusters)
               PROVE  /\ AllClusters[c] \in Seq(Points)
                      /\ PointsOf(AllClusters[c]) = {p \in Points : labels[p] = c - 1}
                      /\ NoRepeats(AllClusters[c])
    BY LengthIsCardinality DEF ListedOnce
  <2>1. /\ clusters \in Seq(Seq(Points))
        /\ cluster \in Seq(Points)
        /\ cluster_id = Len(clusters)
    BY <1>1 DEF IInv, TypeOK
  <2>2. ASSUME NEW d \in 1 .. Len(clusters)
        PROVE  /\ clusters[d] \in Seq(Points)
               /\ PointsOf(clusters[d]) = {p \in Points : labels[p] = d - 1}
               /\ NoRepeats(clusters[d])
    BY <1>1, <2>1 DEF IInv, FinishedClusters
  <2>3. CASE stage # "expand"
    BY <2>2, <2>3 DEF AllClusters
  <2>4. CASE stage = "expand"
    <3>1. AllClusters = Append(clusters, cluster)
      BY <2>4 DEF AllClusters
    <3>2. /\ Len(AllClusters) = Len(clusters) + 1
          /\ AllClusters[Len(clusters) + 1] = cluster
          /\ \A d \in 1 .. Len(clusters) : AllClusters[d] = clusters[d]
          /\ Len(clusters) \in Nat
      BY <2>1, <3>1
    <3>3. CASE c = Len(clusters) + 1
      <4>1. /\ PointsOf(cluster) = {p \in Points : labels[p] = cluster_id}
            /\ NoRepeats(cluster)
        BY <1>1, <2>4 DEF IInv, CurrentCluster, Growing
      <4>2. c - 1 = cluster_id /\ AllClusters[c] = cluster
        BY <2>1, <3>2, <3>3
      <4> QED  BY <2>1, <4>1, <4>2
    <3>4. CASE c # Len(clusters) + 1
      <4>1. c \in 1 .. Len(clusters)
        BY <3>2, <3>4
      <4> QED  BY <2>2, <3>2, <4>1
    <3> QED  BY <3>3, <3>4
  <2> QED  BY <2>3, <2>4
<1> QED  BY <1>1, Invariant, PTL

\* When scan returns, every cluster is what its first point, a core point,
\* reaches through core points and no more: scan never merges two targets.
THEOREM Connected == Spec => []ClustersAreConnected
<1>1. ASSUME IInv PROVE ClustersAreConnected
  <2> SUFFICES ASSUME NEW c \in 1 .. Len(clusters)
               PROVE  /\ IsCore(clusters[c][1])
                      /\ \A X \in SUBSET Points :
                            clusters[c][1] \in X /\ ClosedUnderExpansion(X)
                                => PointsOf(clusters[c]) \subseteq X
    BY DEF ClustersAreConnected
  <2>1. PICK s \in Points : s = clusters[c][1]
    BY <1>1 DEF IInv, FinishedClusters, Cores
  <2>2. s \in Cores /\ PointsOf(clusters[c]) \subseteq Reach[s]
    BY <1>1, <2>1 DEF IInv, FinishedClusters
  <2>3. Reach[s] = {q \in Points : \A X \in SUBSET Points :
                       s \in X /\ ClosedUnderExpansion(X) => q \in X}
    BY DEF Reach
  <2> QED  BY <2>1, <2>2, <2>3 DEF Cores
<1> QED  BY <1>1, Invariant, PTL

\* When scan returns, no target is split and none is lost: what is within eps of
\* a core point has that point's cluster or, at the border, an earlier one; what
\* is left as noise is near no core point.
THEOREM Maximal == Spec => []ClustersAreMaximal
<1>1. ASSUME IInv PROVE ClustersAreMaximal
  <2> SUFFICES ASSUME stage = "idle", NEW p \in Points
               PROVE  /\ labels[p] = NOISE <=> \A k \in Points : IsCore(k) => p \notin Near(k)
                      /\ \A k \in Points :
                            IsCore(k) /\ p \in Near(k) =>
                                /\ labels[p] <= labels[k]
                                /\ IsCore(p) => labels[p] = labels[k]
    BY DEF ClustersAreMaximal
  <2>1. TypeOK /\ Idle /\ Marks /\ FinishedClusters
    BY <1>1 DEF IInv
  <2>2. cluster_id = Len(clusters) /\ cluster_id \in Nat
    BY <2>1 DEF TypeOK
  <2>3. ASSUME NEW q \in Points
        PROVE  labels[q] \in {NOISE} \cup (0 .. cluster_id - 1)
    <3>1. q < point
      <4>1. point = Len(detected_points) + 1 /\ Len(detected_points) \in Nat
        BY <2>1 DEF Idle, TypeOK
      <4> QED  BY <4>1 DEF Points
    <3>2. labels[q] # UNVISITED /\ labels[q] < cluster_id
      BY <2>1, <3>1 DEF Marks
    <3>3. labels[q] \in {UNVISITED, NOISE} \cup Nat
      BY <2>1 DEF TypeOK
    <3> QED  BY <2>2, <3>2, <3>3
  <2>4. ASSUME NEW k \in Points, IsCore(k), NEW r \in Near(k)
        PROVE  r \in Points /\ labels[k] \in Nat /\ labels[r] \in 0 .. labels[k]
    <3>1. k \in Cores /\ r \in Points
      BY <2>4 DEF Cores, Near
    <3>2. labels[k] \in 0 .. cluster_id - 1
      BY <2>1, <2>3, <3>1 DEF Marks
    <3>3. PICK c \in 1 .. Len(clusters) : labels[k] = c - 1
      <4>1. labels[k] + 1 \in 1 .. Len(clusters) /\ labels[k] = (labels[k] + 1) - 1
        BY <2>2, <3>2
      <4> QED  BY <4>1
    <3>4. labels[r] \in 0 .. c - 1
      BY <2>1, <3>1, <3>3 DEF FinishedClusters
    <3> QED  BY <3>1, <3>2, <3>3, <3>4
  <2>5. ASSUME NEW k \in Points, IsCore(k), p \in Near(k)
        PROVE  /\ labels[p] <= labels[k]
               /\ IsCore(p) => labels[p] = labels[k]
               /\ labels[p] # NOISE
    <3>1. labels[p] \in 0 .. labels[k] /\ labels[k] \in Nat
      BY <2>4, <2>5
    <3>2. ASSUME IsCore(p) PROVE labels[k] \in 0 .. labels[p]
      <4>1. k \in Near(p)
        BY <2>1, <2>5, NearIsMutual, DBSCANAssumption DEF TypeOK
      <4> QED  BY <2>4, <3>2, <4>1
    <3> QED  BY <3>1, <3>2 DEF NOISE
  <2>6. ASSUME labels[p] # NOISE
        PROVE  \E k \in Points : IsCore(k) /\ p \in Near(k)
    <3>1. labels[p] >= 0
      BY <2>2, <2>3, <2>6
    <3>2. p \in NearCores
      BY <2>1, <3>1 DEF Marks
    <3> QED  BY <3>2 DEF NearCores, Cores
  <2> QED  BY <2>5, <2>6
<1> QED  BY <1>1, Invariant, PTL

\* Clusters are numbered in the order of their first core points, the order in
\* which the processor lists a frame's targets.
THEOREM InOrder == Spec => []ClustersInOrder
<1>1. ASSUME IInv PROVE ClustersInOrder
  <2> SUFFICES ASSUME stage = "idle",
                      NEW p \in Points, NEW q \in Points,
                      IsCore(p), IsCore(q), labels[p] < labels[q]
               PROVE  clusters[labels[p] + 1][1] < q
    BY DEF ClustersInOrder
  <2>1. TypeOK /\ Idle /\ Marks /\ FinishedClusters /\ SeedOrder
    BY <1>1 DEF IInv
  <2>2. cluster_id = Len(clusters) /\ cluster_id \in Nat
    BY <2>1 DEF TypeOK
  <2>3. ASSUME NEW k \in Points, IsCore(k)
        PROVE  labels[k] \in 0 .. cluster_id - 1
    <3>1. k < point
      <4>1. point = Len(detected_points) + 1 /\ Len(detected_points) \in Nat
        BY <2>1 DEF Idle, TypeOK
      <4> QED  BY <4>1 DEF Points
    <3>2. k \in Cores
      BY <2>3 DEF Cores
    <3>3. labels[k] # UNVISITED /\ labels[k] # NOISE /\ labels[k] < cluster_id
      BY <2>1, <3>1, <3>2 DEF Marks
    <3>4. labels[k] \in {UNVISITED, NOISE} \cup Nat
      BY <2>1 DEF TypeOK
    <3> QED  BY <2>2, <3>3, <3>4
  <2>4. labels[p] \in 0 .. cluster_id - 1 /\ labels[q] \in 0 .. cluster_id - 1
    BY <2>3
  <2>5. PICK c \in 1 .. Len(clusters), d \in 1 .. Len(clusters) :
            c = labels[p] + 1 /\ d = labels[q] + 1
    BY <2>2, <2>4
  <2>6. c < d /\ labels[q] = d - 1
    BY <2>4, <2>5
  <2>7. clusters[c][1] < clusters[d][1]
    BY <2>1, <2>6 DEF SeedOrder
  <2>8. q \in Cores /\ clusters[d][1] <= q
    <3>1. q \in Cores
      BY DEF Cores
    <3> QED  BY <2>1, <2>6, <3>1 DEF FinishedClusters
  <2>9. clusters[c][1] \in Nat /\ clusters[d][1] \in Nat /\ q \in Nat
    BY <2>1 DEF FinishedClusters, Cores, Points
  <2> QED  BY <2>5, <2>7, <2>8, <2>9
<1> QED  BY <1>1, Invariant, PTL

\* A point with three others' company, itself counted, has three neighbours.
LEMMA ThreeNear ==
    ASSUME detected_points \in Seq(Int \X Int), NEW q \in Points,
           NEW r \in Near(q), NEW s \in Near(q), NEW t \in Near(q),
           r # s, s # t, r # t
    PROVE  Cardinality(Near(q)) >= 3
<1>1. PICK one : one = {r}
  OBVIOUS
<1>2. IsFiniteSet(one) /\ Cardinality(one) = 1 /\ s \notin one
  <2>1. IsFiniteSet({r}) /\ Cardinality({r}) = 1
    BY FS_Singleton, Zenon
  <2>2. s \notin one
    BY <1>1
  <2> QED  BY <1>1, <2>1, <2>2
<1>3. PICK two : two = one \cup {s}
  OBVIOUS
<1>4. IsFiniteSet(two) /\ Cardinality(two) = 2 /\ t \notin two
  <2>1. t \notin two
    BY <1>1, <1>3
  <2>2. /\ IsFiniteSet(one \cup {s})
        /\ Cardinality(one \cup {s}) = IF s \in one THEN Cardinality(one)
                                                    ELSE Cardinality(one) + 1
    BY <1>2, FS_AddElement, Zenon
  <2> QED  BY <1>2, <1>3, <2>1, <2>2
<1>5. PICK three : three = two \cup {t}
  OBVIOUS
<1>6. IsFiniteSet(three) /\ Cardinality(three) = 3
  <2>1. /\ IsFiniteSet(two \cup {t})
        /\ Cardinality(two \cup {t}) = IF t \in two THEN Cardinality(two)
                                                    ELSE Cardinality(two) + 1
    BY <1>4, FS_AddElement, Zenon
  <2> QED  BY <1>4, <1>5, <2>1
<1>7. three \in SUBSET Near(q)
  BY <1>1, <1>3, <1>5
<1>8. Cardinality(three) <= Cardinality(Near(q))
  BY <1>7, NearIsFinite, FS_Subset
<1> QED  BY <1>6, <1>8

\* What is in a cluster is near one of its core points.
LEMMA NearItsCore ==
    ASSUME IInv, stage = "idle", ListedOnce, ClustersAreConnected, ClustersAreMaximal,
           NEW d \in 1 .. Len(clusters), NEW q \in Points, labels[q] = d - 1
    PROVE  \E k \in Points : IsCore(k) /\ labels[k] = d - 1 /\ q \in Near(k)
<1> DEFINE X == {p \in Points : \E k \in Points :
                     IsCore(k) /\ labels[k] = d - 1 /\ p \in Near(k)}
<1>1. /\ PointsOf(clusters[d]) = {p \in Points : labels[p] = d - 1}
      /\ clusters[d][1] \in PointsOf(clusters[d])
  <2>1. /\ PointsOf(clusters[d]) = {p \in Points : labels[p] = d - 1}
        /\ clusters[d] # <<>> /\ clusters[d] \in Seq(Points)
    BY DEF IInv, TypeOK, FinishedClusters
  <2>2. 1 \in 1 .. Len(clusters[d])
    BY <2>1
  <2> QED  BY <2>1, <2>2 DEF PointsOf
<1>2. IsCore(clusters[d][1])
  BY DEF ClustersAreConnected
<1>3. clusters[d][1] \in X
  <2>1. clusters[d][1] \in Points /\ labels[clusters[d][1]] = d - 1
    BY <1>1
  <2>2. clusters[d][1] \in Near(clusters[d][1])
    BY <2>1, NearIsMutual, DBSCANAssumption DEF IInv, TypeOK
  <2> QED  BY <1>2, <2>1, <2>2
<1>4. ASSUME NEW p \in X, IsCore(p)
      PROVE  Near(p) \subseteq X
  <2>1. PICK k \in Points : IsCore(k) /\ labels[k] = d - 1 /\ p \in Near(k)
    OBVIOUS
  <2>2. p \in Points /\ labels[p] = d - 1
    BY <1>4, <2>1 DEF ClustersAreMaximal
  <2> QED  BY <1>4, <2>2 DEF Near
<1>5. PointsOf(clusters[d]) \subseteq X
  <2>1. X \in SUBSET Points /\ ClosedUnderExpansion(X)
    BY <1>4 DEF ClosedUnderExpansion
  <2> HIDE DEF X
  <2> QED  BY <1>3, <2>1 DEF ClustersAreConnected
<1> QED  BY <1>1, <1>5

\* With the code's min_samples = 3, or less, a border point is never contended.
LEMMA NothingContended ==
    ASSUME IInv, stage = "idle", ListedOnce, ClustersAreConnected, ClustersAreMaximal,
           min_samples <= 3,
           NEW s \in Points, IsCore(s), NEW q \in Near(s)
    PROVE  labels[q] = labels[s]
<1>1. detected_points \in Seq(Int \X Int) /\ q \in Points /\ DBSCANAssumption
  BY DBSCANAssumption DEF IInv, TypeOK, Near
<1>2. labels[q] <= labels[s] /\ labels[q] # NOISE /\ (IsCore(q) => labels[q] = labels[s])
  BY <1>1 DEF ClustersAreMaximal
<1>3. CASE IsCore(q)
  BY <1>2, <1>3
<1>4. CASE ~IsCore(q)
  <2>1. SUFFICES ASSUME labels[q] # labels[s] PROVE FALSE
    OBVIOUS
  <2>2. labels[q] \in 0 .. Len(clusters) - 1 /\ Len(clusters) \in Nat
    <3>1. /\ cluster_id = Len(clusters) /\ cluster_id \in Nat
          /\ labels[q] \in {UNVISITED, NOISE} \cup Nat
          /\ point = Len(detected_points) + 1 /\ Len(detected_points) \in Nat
      BY <1>1 DEF IInv, TypeOK, Idle
    <3>2. labels[q] # UNVISITED /\ labels[q] < cluster_id
      BY <1>1, <3>1 DEF IInv, Marks, Points
    <3> QED  BY <1>2, <3>1, <3>2
  <2>3. PICK d \in 1 .. Len(clusters) : labels[q] = d - 1
    <3>1. labels[q] + 1 \in 1 .. Len(clusters) /\ labels[q] = (labels[q] + 1) - 1
      BY <2>2
    <3> QED  BY <3>1
  <2>4. PICK k \in Points : IsCore(k) /\ labels[k] = d - 1 /\ q \in Near(k)
    BY <1>1, <2>3, NearItsCore
  <2>5. q \in Near(q) /\ s \in Near(q) /\ k \in Near(q)
    BY <1>1, <2>4, NearIsMutual
  <2>6. q # s /\ q # k /\ s # k
    BY <1>4, <2>1, <2>3, <2>4
  <2>7. Cardinality(Near(q)) >= 3
    BY <1>1, <2>5, <2>6, ThreeNear
  <2>8. IsCore(q)
    BY <1>1, <2>7, NearIsFinite DEF IsCore, DBSCANAssumption, IInv, TypeOK
  <2> QED  BY <1>4, <2>8
<1> QED  BY <1>3, <1>4

\* With min_samples = 3 as in the code, or less, and any eps, no cluster that
\* scan returns is smaller than min_samples: a point that two clusters contend
\* for would itself be a core point.
THEOREM LargeEnough == Spec => []ClustersHaveMinSamples
<1>1. ASSUME IInv, ListedOnce, ClustersAreConnected, ClustersAreMaximal
      PROVE  ClustersHaveMinSamples
  <2> SUFFICES ASSUME stage = "idle", min_samples <= 3, NEW c \in 1 .. Len(clusters)
               PROVE  Len(clusters[c]) >= min_samples
    BY DEF ClustersHaveMinSamples
  <2>1. /\ clusters[c] # <<>> /\ clusters[c] \in Seq(Points) /\ NoRepeats(clusters[c])
        /\ PointsOf(clusters[c]) = {p \in Points : labels[p] = c - 1}
        /\ detected_points \in Seq(Int \X Int)
    BY <1>1 DEF IInv, TypeOK, FinishedClusters
  <2>2. PICK s : s = clusters[c][1]
    OBVIOUS
  <2>3. s \in Points /\ labels[s] = c - 1 /\ IsCore(s)
    <3>1. 1 \in 1 .. Len(clusters[c])
      BY <2>1
    <3>2. s \in PointsOf(clusters[c])
      BY <2>2, <3>1 DEF PointsOf
    <3> QED  BY <1>1, <2>1, <2>2, <3>2 DEF ClustersAreConnected
  <2>4. Near(s) \in SUBSET PointsOf(clusters[c])
    <3>1. \A q \in Near(s) : labels[q] = labels[s]
      BY <1>1, <2>3, NothingContended
    <3> QED  BY <2>1, <2>3, <3>1 DEF Near
  <2>5. IsFiniteSet(PointsOf(clusters[c]))
    <3>1. PointsOf(clusters[c]) \in SUBSET Points /\ IsFiniteSet(Points)
      BY <2>1, FS_Interval DEF Points
    <3> QED  BY <3>1, FS_Subset
  <2>6. Cardinality(Near(s)) <= Cardinality(PointsOf(clusters[c]))
    BY <2>4, <2>5, FS_Subset
  <2>7. Cardinality(PointsOf(clusters[c])) = Len(clusters[c])
    BY <2>1, LengthIsCardinality
  <2>8. Cardinality(Near(s)) \in Nat /\ Len(clusters[c]) \in Nat /\ min_samples \in Nat
    BY <1>1, <2>1, <2>3, NearIsFinite, DBSCANAssumption DEF DBSCANAssumption, IInv, TypeOK
  <2> QED  BY <2>3, <2>6, <2>7, <2>8 DEF IsCore
<1> QED  BY <1>1, Invariant, OncePerPoint, Connected, Maximal, PTL
-----------------------------------------------------------------------------
(***************************************************************************)
(* How long a call of scan takes, and how long the list grows.             *)
(***************************************************************************)

Size == Len(detected_points)

Unvisited == {p \in Points : labels[p] = UNVISITED}

\* What the expansion has yet to look at, as far as it is listed.
WalkLeft == IF stage = "expand" THEN Len(neighbours) + 1 - i ELSE 0

\* An unvisited point pays for its own round and for the neighbours it may list.
RoundsLeft ==
    IF stage = "idle"
    THEN 0
    ELSE (Size + 1) * Cardinality(Unvisited) + (Size + 1 - point) + WalkLeft + 1

\* A call begins with a budget of rounds, and every round spends some of it.
ScanComesNearer ==
    /\ BeginScan => RoundsLeft' = (Size' + 1) * (Size' + 1)
    /\ Round => RoundsLeft' \in Nat /\ RoundsLeft' < RoundsLeft

\* The list the expansion walks, which Absorb appends to.
NeighboursAreFew == stage = "expand" => Len(neighbours) <= Size * Size

\* Only unvisited points list their neighbours.
ListIsPaid ==
    stage = "expand" => Len(neighbours) + Size * Cardinality(Unvisited) <= Size * Size

LEMMA UnvisitedTypes ==
    ASSUME TypeOK
    PROVE  /\ Size \in Nat /\ Points = 1 .. Size
           /\ IsFiniteSet(Unvisited)
           /\ Cardinality(Unvisited) \in 0 .. Size
<1>1. Size \in Nat /\ Points = 1 .. Size
  BY DEF TypeOK, Size, Points
<1>2. IsFiniteSet(Points) /\ Cardinality(Points) = Size
  <2>1. /\ IsFiniteSet(1 .. Size)
        /\ Cardinality(1 .. Size) = IF 1 > Size THEN 0 ELSE Size - 1 + 1
    BY <1>1, FS_Interval
  <2> QED  BY <1>1, <2>1
<1>3. Unvisited \in SUBSET Points
  BY DEF Unvisited
<1>4. IsFiniteSet(Unvisited) /\ Cardinality(Unvisited) <= Cardinality(Points)
  BY <1>2, <1>3, FS_Subset
<1>5. Cardinality(Unvisited) \in Nat
  BY <1>4, FS_CardinalityType
<1> QED  BY <1>1, <1>2, <1>4, <1>5

Counters ==
    /\ Size \in Nat
    /\ Cardinality(Unvisited) \in 0 .. Size
    /\ point \in 1 .. Size + 1
    /\ WalkLeft \in Nat

LEMMA CountersNow == TypeOK => Counters
<1> SUFFICES ASSUME TypeOK PROVE Counters
  OBVIOUS
<1>1. Size \in Nat /\ Cardinality(Unvisited) \in 0 .. Size
  BY UnvisitedTypes
<1>2. point \in 1 .. Size + 1
  BY DEF TypeOK, Size
<1>3. WalkLeft \in Nat
  <2>1. Len(neighbours) \in Nat /\ i \in 1 .. Len(neighbours) + 1
    BY DEF TypeOK
  <2> QED  BY <2>1 DEF WalkLeft
<1> QED  BY <1>1, <1>2, <1>3 DEF Counters

LEMMA CountersThen == TypeOK' => Counters'
  BY CountersNow, PTL

LEMMA NeighboursCounted ==
    ASSUME TypeOK, NEW p \in Points
    PROVE  Len(scan_neighbour(p)) \in 0 .. Size
<1>1. detected_points \in Seq(Int \X Int) /\ Size \in Nat /\ Points = 1 .. Size
  BY UnvisitedTypes DEF TypeOK
<1>2. Near(p) \in SUBSET Points /\ Cardinality(Near(p)) \in Nat
  BY <1>1, NearIsFinite
<1>3. IsFiniteSet(1 .. Size)
      /\ Cardinality(1 .. Size) = IF 1 > Size THEN 0 ELSE Size - 1 + 1
  BY <1>1, FS_Interval
<1>4. Cardinality(Near(p)) <= Cardinality(1 .. Size)
  BY <1>1, <1>2, <1>3, FS_Subset
<1>5. Len(scan_neighbour(p)) = Cardinality(Near(p))
  BY <1>1, NeighboursListed
<1> QED  BY <1>1, <1>2, <1>3, <1>4, <1>5

\* A point that was not visited is labelled.
LEMMA OneLessUnvisited ==
    ASSUME TypeOK, NEW p \in Points, labels[p] = UNVISITED, NEW label \in {NOISE} \cup Nat,
           labels' = [labels EXCEPT ![p] = label], detected_points' = detected_points
    PROVE  Size' = Size /\ Cardinality(Unvisited)' = Cardinality(Unvisited) - 1
<1>1. \A q \in Points : labels'[q] = IF q = p THEN label ELSE labels[q]
  BY DEF TypeOK
<1>2. label # UNVISITED
  BY DEF NOISE, UNVISITED
<1>3. Points' = Points /\ Size' = Size
  BY DEF Points, Size
<1>4. Unvisited' = Unvisited \ {p}
  BY <1>1, <1>2, <1>3 DEF Unvisited
<1>5. p \in Unvisited
  BY DEF Unvisited
<1>6. Cardinality(Unvisited \ {p})
        = IF p \in Unvisited THEN Cardinality(Unvisited) - 1 ELSE Cardinality(Unvisited)
  BY UnvisitedTypes, FS_RemoveElement
<1> QED  BY <1>3, <1>4, <1>5, <1>6

\* A point that was visited is labelled, or none.
LEMMA AsManyUnvisited ==
    ASSUME TypeOK, detected_points' = detected_points,
           \A q \in Points : labels'[q] = UNVISITED <=> labels[q] = UNVISITED
    PROVE  Size' = Size /\ Cardinality(Unvisited)' = Cardinality(Unvisited)
<1>1. Points' = Points /\ Size' = Size
  BY DEF Points, Size
<1>2. Unvisited' = Unvisited
  BY <1>1 DEF Unvisited
<1> QED  BY <1>1, <1>2

\* The arithmetic: n detections, u of them unvisited.
LEMMA Budget ==
    ASSUME NEW n \in Nat, NEW u \in 0 .. n
    PROVE  /\ (n + 1) * u \in Nat /\ n * u \in Nat /\ n * n \in Nat
           /\ (n + 1) * (u - 1) = (n + 1) * u - (n + 1)
           /\ n * (u - 1) = n * u - n
           /\ n * u <= n * n
           /\ (n + 1) * n + (n + 1 - 1) + 0 + 1 = (n + 1) * (n + 1)
<1>1. n * (n - u) \in Nat
  OBVIOUS
<1>2. n * (n - u) = n * n - n * u
  OBVIOUS
<1>3. n * u \in Nat /\ n * n \in Nat
  OBVIOUS
<1>4. n * u <= n * n
  BY <1>1, <1>2, <1>3
<1> QED  BY <1>3, <1>4

\* A round that visits no new point moves the outer loop or the walk on.
LEMMA RoundOn ==
    ASSUME TypeOK, TypeOK', stage # "idle", stage' # "idle",
           Size' = Size, Cardinality(Unvisited)' = Cardinality(Unvisited),
           Size + 1 - point' + WalkLeft' < Size + 1 - point + WalkLeft
    PROVE  RoundsLeft' \in Nat /\ RoundsLeft' < RoundsLeft
<1>1. PICK n \in Nat, u \in Nat : n = Size /\ u = Cardinality(Unvisited) /\ u <= n
  BY UnvisitedTypes
<1>c. /\ Size \in Nat
      /\ point \in 1 .. Size + 1 /\ WalkLeft \in Nat
      /\ point' \in 1 .. Size + 1 /\ WalkLeft' \in Nat
      /\ Cardinality(Unvisited)' \in Nat
  BY CountersNow, CountersThen DEF Counters
<1>2. PICK a \in Int, b \in Int :
         /\ a = Size + 1 - point + WalkLeft
         /\ b = Size + 1 - point' + WalkLeft'
         /\ b >= 0
  <2>1. Size + 1 - point + WalkLeft \in Int
    BY <1>c
  <2>2. \A s \in Nat, w \in Nat : \A p \in 1 .. s + 1 : s + 1 - p + w \in Nat
    OBVIOUS
  <2>3. Size + 1 - point' + WalkLeft' \in Nat
    BY <1>c, <2>2
  <2> QED  BY <2>1, <2>3
<1>3. PICK c \in Nat : c = (n + 1) * u
  BY <1>1, Budget
<1>4. RoundsLeft = c + a + 1
  BY <1>1, <1>2, <1>3, <1>c DEF RoundsLeft
<1>5. RoundsLeft' = c + b + 1
  <2>1. RoundsLeft' = (Size' + 1) * Cardinality(Unvisited)' + (Size' + 1 - point') + WalkLeft' + 1
    BY DEF RoundsLeft
  <2>2. RoundsLeft' = c + (n + 1 - point') + WalkLeft' + 1
    BY <1>1, <1>3, <2>1
  <2> QED  BY <1>1, <1>2, <1>c, <2>2
<1> QED  BY <1>2, <1>4, <1>5

\* A round that visits a point may list up to Size neighbours.
LEMMA RoundVisits ==
    ASSUME TypeOK, TypeOK', stage # "idle", stage' # "idle",
           Size' = Size, Cardinality(Unvisited)' = Cardinality(Unvisited) - 1,
           Size + 1 - point' + WalkLeft' <= Size + 1 - point + WalkLeft + Size
    PROVE  RoundsLeft' \in Nat /\ RoundsLeft' < RoundsLeft
<1>1. PICK n \in Nat, u \in Nat : n = Size /\ u = Cardinality(Unvisited) /\ u <= n
  BY UnvisitedTypes
<1>c. /\ Size \in Nat
      /\ point \in 1 .. Size + 1 /\ WalkLeft \in Nat
      /\ point' \in 1 .. Size + 1 /\ WalkLeft' \in Nat
      /\ Cardinality(Unvisited)' \in Nat
  BY CountersNow, CountersThen DEF Counters
<1>2. PICK a \in Int, b \in Int :
         /\ a = Size + 1 - point + WalkLeft
         /\ b = Size + 1 - point' + WalkLeft'
         /\ b >= 0
  <2>1. Size + 1 - point + WalkLeft \in Int
    BY <1>c
  <2>2. \A s \in Nat, w \in Nat : \A p \in 1 .. s + 1 : s + 1 - p + w \in Nat
    OBVIOUS
  <2>3. Size + 1 - point' + WalkLeft' \in Nat
    BY <1>c, <2>2
  <2> QED  BY <2>1, <2>3
<1>3. PICK c \in Nat : c = (n + 1) * u
  BY <1>1, Budget
<1>4. RoundsLeft = c + a + 1
  BY <1>1, <1>2, <1>3, <1>c DEF RoundsLeft
<1>5. RoundsLeft' = c - (n + 1) + b + 1
  <2>1. RoundsLeft' = (Size' + 1) * Cardinality(Unvisited)' + (Size' + 1 - point') + WalkLeft' + 1
    BY DEF RoundsLeft
  <2>2. (n + 1) * (u - 1) = c - (n + 1)
    BY <1>3, Budget
  <2>3. RoundsLeft' = c - (n + 1) + (n + 1 - point') + WalkLeft' + 1
    BY <1>1, <2>1, <2>2
  <2> QED  BY <1>1, <1>2, <1>c, <2>3
<1>6. c - (n + 1) \in Nat
  <2>1. u - 1 \in Nat
    BY <1>1, <1>c
  <2>2. (n + 1) * (u - 1) \in Nat
    BY <2>1
  <2> QED  BY <1>3, <2>2, Budget
<1> QED  BY <1>1, <1>2, <1>4, <1>5, <1>6

LEMMA ExtendedLength ==
    ASSUME TypeOK, NEW p \in Points
    PROVE  /\ Len(Extended(p)) \in Nat
           /\ Len(Extended(p)) <= Len(neighbours) + Size
<1>1. neighbours \in Seq(Points) /\ Len(neighbours) \in Nat /\ Size \in Nat
  BY UnvisitedTypes DEF TypeOK
<1>2. PICK more : more = scan_neighbour(p)
  OBVIOUS
<1>3. more \in Seq(Points) /\ Len(more) \in 0 .. Size
  BY <1>2, NeighboursListed, NeighboursCounted DEF TypeOK
<1>4. Len(neighbours \o more) = Len(neighbours) + Len(more)
  BY <1>1, <1>3
<1>5. Extended(p) = neighbours \/ Extended(p) = neighbours \o more
  BY <1>2 DEF Extended
<1> QED  BY <1>1, <1>3, <1>4, <1>5

LEMMA BeginScanBudget ==
    ASSUME IInv, IInv', BeginScan
    PROVE  RoundsLeft' = (Size' + 1) * (Size' + 1) /\ ListIsPaid'
<1>1. /\ detected_points' = Head(frames)
      /\ labels' = [p \in 1 .. Len(Head(frames)) |-> UNVISITED]
      /\ point' = 1 /\ stage' = "scan"
  BY DEF BeginScan, Reset
<1>2. PICK n : n = Size'
  OBVIOUS
<1>3. n \in Nat /\ Points' = 1 .. n
  BY <1>2 DEF IInv, TypeOK, Size, Points
<1>4. Unvisited' = 1 .. n
  BY <1>1, <1>2, <1>3 DEF Unvisited, Size
<1>5. Cardinality(1 .. n) = IF 1 > n THEN 0 ELSE n - 1 + 1
  BY <1>3, FS_Interval
<1>6. Cardinality(Unvisited)' = n
  BY <1>3, <1>4, <1>5
<1>7. RoundsLeft' = (n + 1) * n + (n + 1 - 1) + 0 + 1
  BY <1>1, <1>2, <1>6 DEF RoundsLeft, WalkLeft
<1> QED  BY <1>1, <1>2, <1>3, <1>7, Budget DEF ListIsPaid

LEMMA RoundBudget ==
    ASSUME IInv, IInv', Round
    PROVE  RoundsLeft' \in Nat /\ RoundsLeft' < RoundsLeft
<1> DEFINE Typed ==
        /\ labels \in [Points -> {UNVISITED, NOISE} \cup Nat]
        /\ cluster_id \in Nat
        /\ point \in Int /\ i \in Int /\ Len(neighbours) \in Nat
        /\ neighbours \in Seq(Points)
<1>t. TypeOK /\ TypeOK' /\ Typed
  <2>1. TypeOK /\ TypeOK'
    BY DEF IInv
  <2>2. Len(clusters) \in Nat /\ Len(neighbours) \in Nat
    <3>1. clusters \in Seq(Seq(Points)) /\ neighbours \in Seq(Points)
      BY <2>1 DEF TypeOK
    <3>2. \A S : \A list \in Seq(S) : Len(list) \in Nat
      OBVIOUS
    <3> QED  BY <3>1, <3>2
  <2>3. point \in Int /\ i \in Int
    <3>1. /\ point \in 1 .. Len(detected_points) + 1
          /\ i \in 1 .. Len(neighbours) + 1
      BY <2>1 DEF TypeOK
    <3> QED  BY <3>1
  <2>4. /\ labels \in [Points -> {UNVISITED, NOISE} \cup Nat]
        /\ cluster_id = Len(clusters) /\ neighbours \in Seq(Points)
    BY <2>1 DEF TypeOK
  <2> QED  BY <2>1, <2>2, <2>3, <2>4
<1>n. Size \in Nat /\ Points = 1 .. Size
  BY <1>t, UnvisitedTypes
<1>1. CASE SkipProcessed
  <2>1. Size' = Size /\ Cardinality(Unvisited)' = Cardinality(Unvisited)
    BY <1>t, <1>1, AsManyUnvisited DEF SkipProcessed
  <2>2. /\ stage # "idle" /\ stage' # "idle" /\ point' = point + 1
        /\ WalkLeft = 0 /\ WalkLeft' = 0
    BY <1>1 DEF SkipProcessed, WalkLeft
  <2>3. Size + 1 - point' + WalkLeft' < Size + 1 - point + WalkLeft
    BY <1>t, <1>n, <2>2
  <2> QED  BY <1>t, <2>1, <2>2, <2>3, RoundOn
<1>2. CASE MarkNoise
  <2>1. Size' = Size /\ Cardinality(Unvisited)' = Cardinality(Unvisited) - 1
    BY <1>t, <1>2, OneLessUnvisited DEF MarkNoise
  <2>2. /\ stage # "idle" /\ stage' # "idle" /\ point' = point + 1
        /\ WalkLeft = 0 /\ WalkLeft' = 0
    BY <1>2 DEF MarkNoise, WalkLeft
  <2>3. Size + 1 - point' + WalkLeft' <= Size + 1 - point + WalkLeft + Size
    BY <1>t, <1>n, <2>2
  <2> QED  BY <1>t, <2>1, <2>2, <2>3, RoundVisits
<1>3. CASE StartCluster
  <2>1. Size' = Size /\ Cardinality(Unvisited)' = Cardinality(Unvisited) - 1
    BY <1>t, <1>3, OneLessUnvisited DEF StartCluster
  <2>2. Len(neighbours') \in 0 .. Size
    BY <1>t, <1>3, NeighboursCounted DEF StartCluster
  <2>3. /\ stage # "idle" /\ stage' # "idle" /\ point' = point
        /\ WalkLeft = 0 /\ WalkLeft' = Len(neighbours') + 1 - 1
    BY <1>3 DEF StartCluster, WalkLeft
  <2>4. Size + 1 - point' + WalkLeft' <= Size + 1 - point + WalkLeft + Size
    BY <1>t, <1>n, <2>2, <2>3
  <2> QED  BY <1>t, <2>1, <2>3, <2>4, RoundVisits
<1>4. CASE PromoteNoise
  <2>1. /\ labels' = [labels EXCEPT ![neighbours[i]] = cluster_id]
        /\ labels[neighbours[i]] = NOISE
        /\ detected_points' = detected_points
    BY <1>4 DEF PromoteNoise, Join
  <2>2. \A q \in Points : labels'[q] = UNVISITED <=> labels[q] = UNVISITED
    BY <1>t, <2>1 DEF NOISE, UNVISITED
  <2>3. Size' = Size /\ Cardinality(Unvisited)' = Cardinality(Unvisited)
    BY <1>t, <2>1, <2>2, AsManyUnvisited
  <2>4. /\ stage # "idle" /\ stage' # "idle" /\ point' = point
        /\ WalkLeft = Len(neighbours) + 1 - i
        /\ WalkLeft' = Len(neighbours) + 1 - (i + 1)
    BY <1>4 DEF PromoteNoise, Expanding, WalkLeft
  <2>5. Size + 1 - point' + WalkLeft' < Size + 1 - point + WalkLeft
    BY <1>t, <1>n, <2>4
  <2> QED  BY <1>t, <2>3, <2>4, <2>5, RoundOn
<1>5. CASE PassProcessed
  <2>1. Size' = Size /\ Cardinality(Unvisited)' = Cardinality(Unvisited)
    BY <1>t, <1>5, AsManyUnvisited DEF PassProcessed
  <2>2. /\ stage # "idle" /\ stage' # "idle" /\ point' = point
        /\ WalkLeft = Len(neighbours) + 1 - i
        /\ WalkLeft' = Len(neighbours) + 1 - (i + 1)
    BY <1>5 DEF PassProcessed, Expanding, WalkLeft
  <2>3. Size + 1 - point' + WalkLeft' < Size + 1 - point + WalkLeft
    BY <1>t, <1>n, <2>2
  <2> QED  BY <1>t, <2>1, <2>2, <2>3, RoundOn
<1>6. CASE Absorb
  <2>1. PICK p \in Points : p = neighbours[i]
    <3>1. i \in 1 .. Len(neighbours)
      BY <1>t, <1>6 DEF Absorb, Expanding, TypeOK
    <3> QED  BY <1>t, <3>1
  <2>2. Size' = Size /\ Cardinality(Unvisited)' = Cardinality(Unvisited) - 1
    BY <1>t, <1>6, <2>1, OneLessUnvisited DEF Absorb, Join
  <2>3. Len(neighbours') \in Nat /\ Len(neighbours') <= Len(neighbours) + Size
    BY <1>t, <1>6, <2>1, ExtendedLength DEF Absorb
  <2>4. /\ stage # "idle" /\ stage' # "idle" /\ point' = point
        /\ WalkLeft = Len(neighbours) + 1 - i
        /\ WalkLeft' = Len(neighbours') + 1 - (i + 1)
    BY <1>6 DEF Absorb, Expanding, WalkLeft
  <2>5. Size + 1 - point' + WalkLeft' <= Size + 1 - point + WalkLeft + Size
    BY <1>t, <1>n, <2>3, <2>4
  <2> QED  BY <1>t, <2>2, <2>4, <2>5, RoundVisits
<1>7. CASE CloseCluster
  <2>1. Size' = Size /\ Cardinality(Unvisited)' = Cardinality(Unvisited)
    BY <1>t, <1>7, AsManyUnvisited DEF CloseCluster
  <2>2. /\ stage # "idle" /\ stage' # "idle" /\ point' = point + 1
        /\ WalkLeft = Len(neighbours) + 1 - i /\ i <= Len(neighbours) + 1
        /\ WalkLeft' = 0
    BY <1>t, <1>7 DEF CloseCluster, WalkLeft, TypeOK
  <2>3. Size + 1 - point' + WalkLeft' < Size + 1 - point + WalkLeft
    BY <1>t, <1>n, <2>2
  <2> QED  BY <1>t, <2>1, <2>2, <2>3, RoundOn
<1>8. CASE EndScan
  <2>1. stage = "scan" /\ stage' = "idle"
    BY <1>8 DEF EndScan
  <2>2. RoundsLeft' = 0
    BY <2>1 DEF RoundsLeft
  <2>3. PICK n \in Nat, u \in Nat : n = Size /\ u = Cardinality(Unvisited) /\ u <= n
    BY <1>t, UnvisitedTypes
  <2>4. RoundsLeft = (n + 1) * u + (n + 1 - point) + 0 + 1
    BY <2>1, <2>3 DEF RoundsLeft, WalkLeft
  <2>5. (n + 1) * u \in Nat /\ n + 1 - point \in Nat
    BY <1>t, <2>3, Budget, CountersNow DEF Counters
  <2> QED  BY <2>2, <2>4, <2>5
<1> QED  BY <1>1, <1>2, <1>3, <1>4, <1>5, <1>6, <1>7, <1>8 DEF Round

LEMMA ListIsPaidStep ==
    ASSUME IInv, IInv', ListIsPaid, [Next]_vars
    PROVE  ListIsPaid'
<1> DEFINE Typed ==
        /\ labels \in [Points -> {UNVISITED, NOISE} \cup Nat]
        /\ cluster_id \in Nat
        /\ i \in Int /\ Len(neighbours) \in Nat
        /\ neighbours \in Seq(Points)
<1>t. TypeOK /\ TypeOK' /\ Typed
  <2>1. TypeOK /\ TypeOK'
    BY DEF IInv
  <2>2. Len(clusters) \in Nat /\ Len(neighbours) \in Nat
    <3>1. clusters \in Seq(Seq(Points)) /\ neighbours \in Seq(Points)
      BY <2>1 DEF TypeOK
    <3>2. \A S : \A list \in Seq(S) : Len(list) \in Nat
      OBVIOUS
    <3> QED  BY <3>1, <3>2
  <2>3. point \in Int /\ i \in Int
    <3>1. /\ point \in 1 .. Len(detected_points) + 1
          /\ i \in 1 .. Len(neighbours) + 1
      BY <2>1 DEF TypeOK
    <3> QED  BY <3>1
  <2>4. /\ labels \in [Points -> {UNVISITED, NOISE} \cup Nat]
        /\ cluster_id = Len(clusters) /\ neighbours \in Seq(Points)
    BY <2>1 DEF TypeOK
  <2> QED  BY <2>1, <2>2, <2>3, <2>4
<1>n. PICK n \in Nat, u \in Nat : n = Size /\ u = Cardinality(Unvisited) /\ u <= n
  BY <1>t, UnvisitedTypes
<1>0. ASSUME Size' = Size, Cardinality(Unvisited)' = Cardinality(Unvisited),
             UNCHANGED <<stage, neighbours>>
      PROVE  ListIsPaid'
  BY <1>0 DEF ListIsPaid
<1>1. CASE BeginScan
  BY <1>1, BeginScanBudget
<1>2. CASE SkipProcessed \/ MarkNoise \/ CloseCluster \/ EndScan
  BY <1>2 DEF SkipProcessed, MarkNoise, CloseCluster, EndScan, ListIsPaid
<1>3. CASE StartCluster
  <2>1. Size' = n /\ Cardinality(Unvisited)' = u - 1
    BY <1>t, <1>n, <1>3, OneLessUnvisited DEF StartCluster
  <2>2. Len(neighbours') \in 0 .. n
    BY <1>t, <1>n, <1>3, NeighboursCounted DEF StartCluster
  <2>3. PICK c \in Nat, s \in Nat : c = n * u /\ s = n * n /\ c <= s
    BY <1>n, Budget
  <2>4. n * (u - 1) = c - n
    BY <1>n, <2>3, Budget
  <2>5. Len(neighbours') + (c - n) <= s
    BY <1>n, <2>2, <2>3
  <2> QED  BY <2>1, <2>3, <2>4, <2>5 DEF ListIsPaid
<1>4. CASE PromoteNoise
  <2>1. /\ labels' = [labels EXCEPT ![neighbours[i]] = cluster_id]
        /\ labels[neighbours[i]] = NOISE
        /\ detected_points' = detected_points
        /\ UNCHANGED <<stage, neighbours>>
    BY <1>4 DEF PromoteNoise, Join
  <2>2. \A q \in Points : labels'[q] = UNVISITED <=> labels[q] = UNVISITED
    BY <1>t, <2>1 DEF NOISE, UNVISITED
  <2> QED  BY <1>t, <1>0, <2>1, <2>2, AsManyUnvisited
<1>5. CASE PassProcessed
  BY <1>t, <1>0, <1>5, AsManyUnvisited DEF PassProcessed
<1>6. CASE Absorb
  <2>1. PICK p \in Points : p = neighbours[i]
    <3>1. i \in 1 .. Len(neighbours)
      BY <1>t, <1>6 DEF Absorb, Expanding, TypeOK
    <3> QED  BY <1>t, <3>1
  <2>2. Size' = n /\ Cardinality(Unvisited)' = u - 1
    BY <1>t, <1>n, <1>6, <2>1, OneLessUnvisited DEF Absorb, Join
  <2>3. Len(neighbours') \in Nat /\ Len(neighbours') <= Len(neighbours) + n
    BY <1>t, <1>n, <1>6, <2>1, ExtendedLength DEF Absorb
  <2>4. PICK c \in Nat, s \in Nat : c = n * u /\ s = n * n /\ c <= s
    BY <1>n, Budget
  <2>5. n * (u - 1) = c - n
    BY <1>n, <2>4, Budget
  <2>6. Len(neighbours) + c <= s
    BY <1>n, <1>6, <2>4 DEF ListIsPaid, Absorb, Expanding
  <2>7. Len(neighbours') + (c - n) <= s
    BY <1>t, <1>n, <2>3, <2>4, <2>6
  <2> QED  BY <2>2, <2>4, <2>5, <2>7 DEF ListIsPaid
<1>7. CASE UNCHANGED vars
  BY <1>t, <1>0, <1>7, AsManyUnvisited DEF vars
<1> QED
  BY <1>1, <1>2, <1>3, <1>4, <1>5, <1>6, <1>7 DEF Next, Round

(***************************************************************************)
(* scan returns after at most (n + 1) * (n + 1) rounds on n detections,    *)
(* although every core point it visits lengthens the list it walks: the    *)
(* half of ScanReturns that is no liveness.                                *)
(***************************************************************************)
THEOREM RoundsAreFew == Spec => [][ScanComesNearer]_vars
<1>1. IInv /\ IInv' /\ [Next]_vars => [ScanComesNearer]_vars
  <2> SUFFICES ASSUME IInv, IInv', Next PROVE ScanComesNearer
    OBVIOUS
  <2>1. BeginScan => RoundsLeft' = (Size' + 1) * (Size' + 1)
    BY BeginScanBudget
  <2>2. Round => RoundsLeft' \in Nat /\ RoundsLeft' < RoundsLeft
    BY RoundBudget
  <2> QED  BY <2>1, <2>2 DEF ScanComesNearer
<1> QED  BY <1>1, Invariant, PTL DEF Spec

\* The list that the expansion walks and Absorb appends to never holds more than
\* the square of the detections, in no cluster of no frame (DBSCAN.cpp:124-205).
THEOREM ListStaysSmall == Spec => []NeighboursAreFew
<1>1. Init => ListIsPaid
  BY DEF Init, ListIsPaid
<1>2. IInv /\ IInv' /\ ListIsPaid /\ [Next]_vars => ListIsPaid'
  BY ListIsPaidStep
<1>3. IInv /\ ListIsPaid => NeighboursAreFew
  <2> SUFFICES ASSUME IInv, ListIsPaid, stage = "expand"
               PROVE  Len(neighbours) <= Size * Size
    BY DEF NeighboursAreFew
  <2>1. PICK n \in Nat, u \in Nat : n = Size /\ u = Cardinality(Unvisited) /\ u <= n
    BY UnvisitedTypes DEF IInv
  <2>2. n * u \in Nat /\ n * n \in Nat
    BY <2>1, Budget
  <2>3. Len(neighbours) \in Nat /\ Len(neighbours) + n * u <= n * n
    BY <2>1 DEF ListIsPaid, IInv, TypeOK
  <2> QED  BY <2>1, <2>2, <2>3
<1> QED  BY <1>1, <1>2, <1>3, Invariant, PTL DEF Spec
=============================================================================

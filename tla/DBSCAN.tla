------------------------------- MODULE DBSCAN -------------------------------
(***************************************************************************)
(* DBSCAN.cpp: scan groups the cells that CFAR detected in one range-      *)
(* Doppler map into clusters.  RadarProcessor keeps one DBSCAN object and  *)
(* calls scan once per frame, so labels and clusters outlive a frame.      *)
(*                                                                         *)
(* A step is one round of the outer loop over the detections, or one round *)
(* of the loop that expands a cluster; the list that loop walks grows      *)
(* while it is walked.  Detections are named by their index, from 1 where  *)
(* the code counts from 0.                                                 *)
(***************************************************************************)
EXTENDS Integers, Sequences, FiniteSets

CONSTANTS
    FrameSequences,  \* what a run of the program hands to scan, frame by frame
    EpsSquared,      \* eps * eps, rounded down: distances of cells are integers
    MinSamples       \* what min_samples may be: 3 in the code

ASSUME DBSCANAssumption ==
    /\ FrameSequences \subseteq Seq(Seq(Int \X Int))
    /\ EpsSquared \in Nat
    /\ MinSamples \subseteq Nat \ {0}

UNVISITED == -1
NOISE == -2

VARIABLES
    min_samples,      \* the member of the DBSCAN object
    frames,           \* the detections of the frames still to come
    detected_points,  \* the detections of this frame, <<range_idx, doppler_idx>>
    labels,           \* per detection: UNVISITED, NOISE or its cluster's id
    clusters,         \* the finished clusters, in the order of their ids
    cluster_id,       \* the id of the next cluster
    cluster,          \* the points of the cluster under construction
    point,            \* the outer loop's index
    neighbours,       \* the list the expansion walks
    i,                \* the expansion's index
    stage             \* "idle", "scan" (outer loop) or "expand"

vars == <<min_samples, frames, detected_points, labels, clusters, cluster_id,
          cluster, point, neighbours, i, stage>>

Points == 1 .. Len(detected_points)

distance_squared(a, b) ==
    (a[1] - b[1]) * (a[1] - b[1]) + (a[2] - b[2]) * (a[2] - b[2])

\* The detections within eps of p, p itself included.
Near(p) ==
    {q \in Points :
        distance_squared(detected_points[p], detected_points[q]) <= EpsSquared}

\* The element of a finite set of numbers with k smaller ones.
Ranked(S, k) == CHOOSE q \in S : Cardinality({r \in S : r < q}) = k

\* The list scan_neighbour builds: the detections near p, by index.
scan_neighbour(p) ==
    [k \in 1 .. Cardinality(Near(p)) |-> Ranked(Near(p), k - 1)]

\* Mutant: min_samples does not count the point itself.
IsCore_OfOthers(p) == Cardinality(Near(p)) >= min_samples - 1

IsCore(p) == Cardinality(Near(p)) >= min_samples

Init ==
    /\ min_samples \in MinSamples
    /\ frames \in FrameSequences
    /\ detected_points = <<>>
    /\ labels = <<>>
    /\ clusters = <<>>
    /\ cluster_id = 0
    /\ cluster = <<>>
    /\ point = 1
    /\ neighbours = <<>>
    /\ i = 1
    /\ stage = "idle"

\* Mutant: labels is set up only once.
Reset_KeepingLabels(n) ==
    /\ labels' = IF labels = <<>> THEN [p \in 1 .. n |-> UNVISITED] ELSE labels
    /\ clusters' = <<>>

\* Mutant: clusters.clear() is missing.
Reset_KeepingClusters(n) ==
    /\ labels' = [p \in 1 .. n |-> UNVISITED]
    /\ UNCHANGED clusters

\* The members start afresh for a frame of n detections.
Reset(n) ==
    /\ labels' = [p \in 1 .. n |-> UNVISITED]
    /\ clusters' = <<>>

\* scan is called with the next frame's detections.
BeginScan ==
    /\ stage = "idle"
    /\ frames # <<>>
    /\ frames' = Tail(frames)
    /\ detected_points' = Head(frames)
    /\ Reset(Len(Head(frames)))
    /\ cluster_id' = 0
    /\ point' = 1
    /\ stage' = "scan"
    /\ UNCHANGED <<min_samples, cluster, neighbours, i>>

\* An earlier expansion has clustered this detection.
SkipProcessed ==
    /\ stage = "scan"
    /\ point \in Points
    /\ labels[point] # UNVISITED
    /\ point' = point + 1
    /\ UNCHANGED <<min_samples, frames, detected_points, labels, clusters,
                   cluster_id, cluster, neighbours, i, stage>>

MarkNoise ==
    /\ stage = "scan"
    /\ point \in Points
    /\ labels[point] = UNVISITED
    /\ ~IsCore(point)
    /\ labels' = [labels EXCEPT ![point] = NOISE]
    /\ point' = point + 1
    /\ UNCHANGED <<min_samples, frames, detected_points, clusters, cluster_id, cluster,
                   neighbours, i, stage>>

StartCluster ==
    /\ stage = "scan"
    /\ point \in Points
    /\ labels[point] = UNVISITED
    /\ IsCore(point)
    /\ labels' = [labels EXCEPT ![point] = cluster_id]
    /\ cluster' = <<point>>
    /\ neighbours' = scan_neighbour(point)
    /\ i' = 1
    /\ stage' = "expand"
    /\ UNCHANGED <<min_samples, frames, detected_points, clusters, cluster_id, point>>

Expanding == stage = "expand" /\ i <= Len(neighbours)

Join(p) ==
    /\ labels' = [labels EXCEPT ![p] = cluster_id]
    /\ cluster' = Append(cluster, p)

\* Mutant: noise stays noise.
PromoteNoise_Never ==
    /\ Expanding
    /\ labels[neighbours[i]] = NOISE
    /\ i' = i + 1
    /\ UNCHANGED <<min_samples, frames, detected_points, labels, clusters,
                   cluster_id, cluster, point, neighbours, stage>>

\* A point the outer loop took for noise is a border point of this cluster.
PromoteNoise ==
    /\ Expanding
    /\ labels[neighbours[i]] = NOISE
    /\ Join(neighbours[i])
    /\ i' = i + 1
    /\ UNCHANGED <<min_samples, frames, detected_points, clusters, cluster_id, point,
                   neighbours, stage>>

\* Mutant: the round goes on without i = i + 1, which MATLAB's clusterDetections
\* has to spell out in every branch.
PassProcessed_Stuck ==
    /\ Expanding
    /\ labels[neighbours[i]] \notin {NOISE, UNVISITED}
    /\ UNCHANGED vars

\* Mutant: a cluster takes border points from earlier clusters.
PassProcessed_Stealing ==
    /\ Expanding
    /\ labels[neighbours[i]] \notin {NOISE, UNVISITED}
    /\ Join(neighbours[i])
    /\ i' = i + 1
    /\ UNCHANGED <<min_samples, frames, detected_points, clusters, cluster_id, point,
                   neighbours, stage>>

PassProcessed ==
    /\ Expanding
    /\ labels[neighbours[i]] \notin {NOISE, UNVISITED}
    /\ i' = i + 1
    /\ UNCHANGED <<min_samples, frames, detected_points, labels, clusters,
                   cluster_id, cluster, point, neighbours, stage>>

\* Mutant: border points expand the cluster, too.
Extended_ByAnyPoint(p) == neighbours \o scan_neighbour(p)

\* A core point adds its own neighbours to the list.
Extended(p) == IF IsCore(p) THEN neighbours \o scan_neighbour(p) ELSE neighbours

\* A new point of the cluster.
Absorb ==
    /\ Expanding
    /\ labels[neighbours[i]] = UNVISITED
    /\ Join(neighbours[i])
    /\ neighbours' = Extended(neighbours[i])
    /\ i' = i + 1
    /\ UNCHANGED <<min_samples, frames, detected_points, clusters, cluster_id,
                   point, stage>>

\* Mutant: the newest cluster comes first.
CloseCluster_InFront ==
    /\ stage = "expand"
    /\ i > Len(neighbours)
    /\ clusters' = <<cluster>> \o clusters
    /\ cluster_id' = cluster_id + 1
    /\ point' = point + 1
    /\ stage' = "scan"
    /\ UNCHANGED <<min_samples, frames, detected_points, labels, cluster, neighbours, i>>

CloseCluster ==
    /\ stage = "expand"
    /\ i > Len(neighbours)
    /\ clusters' = Append(clusters, cluster)
    /\ cluster_id' = cluster_id + 1
    /\ point' = point + 1
    /\ stage' = "scan"
    /\ UNCHANGED <<min_samples, frames, detected_points, labels, cluster, neighbours, i>>

\* scan returns; its local variables are gone.
EndScan ==
    /\ stage = "scan"
    /\ point > Len(detected_points)
    /\ cluster' = <<>>
    /\ neighbours' = <<>>
    /\ i' = 1
    /\ stage' = "idle"
    /\ UNCHANGED <<min_samples, frames, detected_points, labels, clusters,
                   cluster_id, point>>

Round ==
    \/ SkipProcessed
    \/ MarkNoise
    \/ StartCluster
    \/ PromoteNoise
    \/ PassProcessed
    \/ Absorb
    \/ CloseCluster
    \/ EndScan

Next == BeginScan \/ Round

Spec == Init /\ [][Next]_vars

\* A call of scan runs on; nothing obliges the processor to call it again.
FairSpec == Spec /\ WF_vars(Round)
-----------------------------------------------------------------------------
\* The types of the members and locals of scan; one label per detection.
TypeOK ==
    /\ min_samples \in MinSamples
    /\ frames \in Seq(Seq(Int \X Int))
    /\ detected_points \in Seq(Int \X Int)
    /\ labels \in [Points -> {UNVISITED, NOISE} \cup Nat]
    /\ clusters \in Seq(Seq(Points))
    /\ cluster_id = Len(clusters)
    /\ cluster \in Seq(Points)
    /\ point \in 1 .. Len(detected_points) + 1
    /\ neighbours \in Seq(Points)
    /\ i \in 1 .. Len(neighbours) + 1
    /\ stage \in {"idle", "scan", "expand"}

PointsOf(list) == {list[k] : k \in 1 .. Len(list)}

\* The lists, with the one under construction.
AllClusters == IF stage = "expand" THEN Append(clusters, cluster) ELSE clusters

\* Every detection that carries a cluster's id is listed in that cluster, once,
\* and in no other: in every round, also for the cluster under construction
\* (DBSCAN.cpp:113-117, 139-171 write both places; the peak search reads only
\* the lists, nothing but the labels keeps the expansion from listing twice).
ListedOnce ==
    \A c \in 1 .. Len(AllClusters) :
        /\ PointsOf(AllClusters[c]) = {p \in Points : labels[p] = c - 1}
        /\ Cardinality(PointsOf(AllClusters[c])) = Len(AllClusters[c])

\* X contains, with every core point, all that is within eps of it.
ClosedUnderExpansion(X) == \A p \in X : IsCore(p) => Near(p) \subseteq X

\* When scan returns, a cluster is nothing but what a core point, its first,
\* reaches through core points: every set that has that point and is closed
\* under expansion contains the cluster.  Two targets are not merged.
ClustersAreConnected ==
    stage = "idle" =>
        \A c \in 1 .. Len(clusters) :
            /\ IsCore(clusters[c][1])
            /\ \A X \in SUBSET Points :
                  clusters[c][1] \in X /\ ClosedUnderExpansion(X)
                      => PointsOf(clusters[c]) \subseteq X

\* When scan returns, no target is split and none is lost: what is within eps
\* of a core point is clustered, and a core point there is in the same cluster;
\* a border point between clusters belongs to the first of them; noise is what
\* no core point is near.
ClustersAreMaximal ==
    stage = "idle" =>
        \A p \in Points :
            /\ labels[p] = NOISE <=> \A k \in Points : IsCore(k) => p \notin Near(k)
            /\ \A k \in Points :
                  IsCore(k) /\ p \in Near(k) =>
                      /\ labels[p] <= labels[k]
                      /\ IsCore(p) => labels[p] = labels[k]

\* Clusters are numbered in the order of their first core points, which is the
\* order in which the processor lists the targets of a frame, and the order in
\* which test_dbscan.cpp compares them with MATLAB's.
ClustersInOrder ==
    stage = "idle" =>
        \A p, q \in Points :
            IsCore(p) /\ IsCore(q) /\ labels[p] < labels[q]
                => clusters[labels[p] + 1][1] < q

\* With min_samples up to 3, the code's, no cluster is smaller than that.  A
\* border point is lost to an earlier cluster if both have a core point near it;
\* those two and the point itself would make it a core point.  With 4 this fails.
ClustersHaveMinSamples ==
    stage = "idle" /\ min_samples <= 3 =>
        \A c \in 1 .. Len(clusters) : Len(clusters[c]) >= min_samples

\* scan returns although the list it walks grows while it is walked.
ScanReturns == (stage # "idle") ~> (stage = "idle")
=============================================================================

-------------------------- MODULE LeadReportProofs --------------------------
(***************************************************************************)
(* Proofs about LeadReport, for every list of targets and every setting of *)
(* the controller: the choosing loop's invariant, that every report and    *)
(* the vector at the controller show the lead if the angles exist, and     *)
(* that the command respects it.                                           *)
(***************************************************************************)
EXTENDS LeadReport, TLAPS

Nearer(list, k, j) ==
    \/ list[k].distance < list[j].distance
    \/ list[k].distance = list[j].distance /\ k <= j

\* The places of the targets that the loop may choose: on the Raspberry Pi also
\* those without an angle.
Candidates(list) ==
    {k \in DOMAIN list :
        IF list[k].lateral = NaN
        THEN source = "rpi"
        ELSE Abs(list[k].lateral) <= center_lane_distance_from_ego}

IsBest(k, list) ==
    /\ k \in Candidates(list)
    /\ \A j \in Candidates(list) : Nearer(list, k, j)

ShowsBest(report) ==
    IF Candidates(report.of) = {}
    THEN ~report.valid /\ report.target = NoTarget
    ELSE report.valid /\ \E k \in Candidates(report.of) :
                            IsBest(k, report.of) /\ report.target = report.of[k]

\* What holds of every report, with or without angles.
ReportsShowBest ==
    \A report \in in_flight \cup {LeadTarget} : ShowsBest(report)

\* The candidates among the first n - 1 targets.
Seen(list, n) == {k \in Candidates(list) : k < n}

\* The best of the first n - 1 targets.
Best(lead, list, n) ==
    IF Seen(list, n) = {}
    THEN lead = None
    ELSE \E k \in Seen(list, n) :
            lead = list[k] /\ \A j \in Seen(list, n) : Nearer(list, k, j)

\* The choosing loop's invariant.
Loop == sender = "choosing" => Best(lead_target, targets, next)

IInv == TypeOK /\ Loop /\ ReportsShowBest
-----------------------------------------------------------------------------
(* The types of a list *)

LEMMA ListTypes ==
    ASSUME NEW list \in TargetLists \cup {<<>>}
    PROVE  /\ list \in Seq(Target)
           /\ Len(list) \in Nat
           /\ DOMAIN list = 1 .. Len(list)
           /\ \A k \in DOMAIN list : list[k] \in Target
  <1>1. list \in Seq(Target)
    <2>1. TargetLists \subseteq Seq(Target)
      BY ReportAssumption DEF ReportAssumption
    <2>2. <<>> \in Seq(Target)
      OBVIOUS
    <2> QED
      BY <2>1, <2>2
  <1>2. Len(list) \in Nat /\ DOMAIN list = 1 .. Len(list)
    BY <1>1
  <1>3. \A k \in DOMAIN list : list[k] \in Target
    BY <1>1
  <1> QED
    BY <1>1, <1>2, <1>3

LEMMA TargetTypes ==
    ASSUME NEW target \in Target
    PROVE  /\ target.distance \in Nat
           /\ target.distance > 0
           /\ target.relative_velocity \in Int
           /\ target.lateral \in Int \cup {NaN}
           /\ target # None
  BY ReportAssumption DEF ReportAssumption, Target

\* A frame's candidates are of the list.
LEMMA CandidatesOfList ==
    ASSUME NEW list
    PROVE  Candidates(list) \subseteq DOMAIN list
  BY DEF Candidates

\* If the angles exist, the candidates are the targets in the lane.
LEMMA CandidatesInLane ==
    ASSUME NEW list, AnglesExist(list)
    PROVE  /\ Candidates(list) = InLane(list)
           /\ \A k : IsBest(k, list) <=> IsLead(k, list)
  <1>1. Candidates(list) = InLane(list)
    BY DEF AnglesExist, Candidates, InLane
  <1> QED
    BY <1>1 DEF IsBest, IsLead, Nearer

\* A report that shows the best shows the lead, or at least a target of its list.
LEMMA BestShowsLead ==
    ASSUME NEW report, ShowsBest(report)
    PROVE  /\ AnglesExist(report.of) => ShowsLead(report)
           /\ IF report.valid
              THEN \E k \in DOMAIN report.of : report.target = report.of[k]
              ELSE report.target = NoTarget
  <1>1. AnglesExist(report.of) => ShowsLead(report)
    BY CandidatesInLane DEF ShowsBest, ShowsLead
  <1>2. Candidates(report.of) \subseteq DOMAIN report.of
    BY CandidatesOfList
  <1> QED
    BY <1>1, <1>2 DEF ShowsBest

LEMMA AbsTypes == ASSUME NEW x \in Int PROVE Abs(x) \in Nat
  BY DEF Abs
-----------------------------------------------------------------------------
(* The choosing loop *)

LEMMA NothingSeen == ASSUME NEW list \in TargetLists \cup {<<>>} PROVE Seen(list, 1) = {}
  <1> SUFFICES ASSUME NEW k \in Candidates(list), k < 1 PROVE FALSE
    BY DEF Seen
  <1>1. k \in 1 .. Len(list) /\ Len(list) \in Nat
    BY ListTypes, CandidatesOfList
  <1> QED
    BY <1>1

LEMMA AllSeen ==
    ASSUME NEW list \in TargetLists \cup {<<>>}
    PROVE  Seen(list, Len(list) + 1) = Candidates(list)
  <1>1. \A k \in Candidates(list) : k \in 1 .. Len(list)
    BY ListTypes, CandidatesOfList
  <1>2. Len(list) \in Nat
    BY ListTypes
  <1>3. \A k \in Candidates(list) : k < Len(list) + 1
    BY <1>1, <1>2
  <1> QED
    BY <1>3 DEF Seen

LEMMA OneMoreSeen ==
    ASSUME NEW list \in TargetLists \cup {<<>>}, NEW n \in 1 .. Len(list)
    PROVE  Seen(list, n + 1) = IF n \in Candidates(list)
                               THEN Seen(list, n) \cup {n} ELSE Seen(list, n)
  <1>1. \A k \in Candidates(list) : k \in 1 .. Len(list)
    BY ListTypes, CandidatesOfList
  <1>2. Len(list) \in Nat
    BY ListTypes
  <1>3. \A k \in Candidates(list) : k < n + 1 <=> (k < n \/ k = n)
    BY <1>1, <1>2
  <1> QED
    BY <1>3 DEF Seen

\* Whether a round takes the target over.
Taken(lead, list, n) ==
    /\ n \in Candidates(list)
    /\ lead = None \/ list[n].distance < lead.distance

LEMMA BestStep ==
    ASSUME NEW list \in TargetLists \cup {<<>>}, NEW n \in 1 .. Len(list), NEW lead,
           Best(lead, list, n)
    PROVE  Best(IF Taken(lead, list, n) THEN list[n] ELSE lead, list, n + 1)
  <1> DEFINE S == Seen(list, n)
             T == Seen(list, n + 1)
             new == IF Taken(lead, list, n) THEN list[n] ELSE lead
  <1>1. T = IF n \in Candidates(list) THEN S \cup {n} ELSE S
    BY OneMoreSeen
  <1>2. \A k \in T : list[k] \in Target
    BY ListTypes, CandidatesOfList DEF Seen
  <1>3. \A k \in S : k \in Int /\ k < n
    BY ListTypes, CandidatesOfList DEF Seen
  <1>4. /\ S = {} => lead = None
        /\ S # {} => \E k \in S : lead = list[k] /\ \A j \in S : Nearer(list, k, j)
    BY DEF Best
  <1>5. n \in Int
    BY ListTypes
  <1> HIDE DEF S, T
  <1>6. SUFFICES /\ T = {} => new = None
                 /\ T # {} => \E k \in T : new = list[k] /\ \A j \in T : Nearer(list, k, j)
    BY DEF Best, T
  <1>7. CASE n \notin Candidates(list)
    BY <1>1, <1>4, <1>7 DEF Taken
  <1>8. CASE n \in Candidates(list) /\ S = {}
    <2>1. T = {n} /\ new = list[n]
      BY <1>1, <1>4, <1>8 DEF Taken
    <2>2. Nearer(list, n, n)
      BY <1>2, <1>5, <2>1, TargetTypes DEF Nearer
    <2> QED
      BY <2>1, <2>2
  <1>9. CASE n \in Candidates(list) /\ S # {}
    <2>1. PICK k \in S : lead = list[k] /\ \A j \in S : Nearer(list, k, j)
      BY <1>4, <1>9
    <2>2. T = S \cup {n} /\ n \in T /\ k \in T
      BY <1>1, <1>9
    <2>3. \A j \in T : list[j].distance \in Nat
      BY <1>2, TargetTypes
    <2>4. lead # None
      BY <1>2, <2>1, <2>2, TargetTypes
    <2>5. CASE list[n].distance < list[k].distance
      <3>1. new = list[n]
        BY <1>9, <2>1, <2>5 DEF Taken
      <3>2. \A j \in S : Nearer(list, n, j)
        BY <2>1, <2>2, <2>3, <2>5 DEF Nearer
      <3>3. Nearer(list, n, n)
        BY <1>5, <2>2, <2>3 DEF Nearer
      <3> QED
        BY <2>2, <3>1, <3>2, <3>3
    <2>6. CASE ~(list[n].distance < list[k].distance)
      <3>1. new = list[k]
        BY <2>1, <2>4, <2>6 DEF Taken
      <3>2. Nearer(list, k, n)
        BY <1>3, <1>5, <2>2, <2>3, <2>6 DEF Nearer
      <3> QED
        BY <2>1, <2>2, <3>1, <3>2
    <2> QED
      BY <2>5, <2>6
  <1> QED
    BY <1>7, <1>8, <1>9

\* At the end of the loop the report shows the best.
LEMMA ReportShowsBest ==
    ASSUME TypeOK, Loop, sender = "choosing", next > Len(targets)
    PROVE  LeadTargetFrame \in Reports /\ ShowsBest(LeadTargetFrame)
  <1>1. targets \in TargetLists \cup {<<>>}
    BY DEF TypeOK
  <1>2. next = Len(targets) + 1
    BY <1>1, ListTypes DEF TypeOK
  <1>3. Best(lead_target, targets, next) /\ Seen(targets, next) = Candidates(targets)
    BY <1>1, <1>2, AllSeen DEF Loop
  <1>4. \A k \in Candidates(targets) : targets[k] \in Target /\ targets[k] # None
    BY <1>1, ListTypes, CandidatesOfList, TargetTypes
  <1>5. CASE Candidates(targets) = {}
    <2>1. LeadTargetFrame = Report(FALSE, NoTarget, targets)
      BY <1>3, <1>5 DEF Best, LeadTargetFrame
    <2> QED
      BY <1>1, <1>5, <2>1 DEF Report, Reports, ShowsBest
  <1>6. CASE Candidates(targets) # {}
    <2>1. PICK k \in Candidates(targets) :
                lead_target = targets[k] /\ \A j \in Candidates(targets) : Nearer(targets, k, j)
      BY <1>3, <1>6 DEF Best
    <2>2. LeadTargetFrame = Report(TRUE, targets[k], targets)
      BY <1>4, <2>1 DEF LeadTargetFrame
    <2>3. IsBest(k, targets)
      BY <2>1 DEF IsBest, Nearer
    <2>4. LeadTargetFrame \in Reports
      BY <1>1, <1>4, <2>2 DEF Report, Reports
    <2>5. ShowsBest(LeadTargetFrame)
      BY <1>6, <2>1, <2>2, <2>3 DEF Report, ShowsBest
    <2> QED
      BY <2>4, <2>5
  <1> QED
    BY <1>5, <1>6
-----------------------------------------------------------------------------
(* The controller *)

LEMMA SettingTypes ==
    /\ center_lane_distance_from_ego \in Int
    /\ SetSpeed \in Int /\ MinDistance \in Int /\ KpSpeed \in Int
    /\ TimeHeadway \in Nat /\ KpGap \in Nat /\ KvRelative \in Nat
    /\ MaxAcceleration \in Nat
    /\ MaxDeceleration \in Int /\ MaxDeceleration <= 0
    /\ EgoSpeeds \subseteq Int
  BY ReportAssumption DEF ReportAssumption

LEMMA VectorTypes ==
    ASSUME NEW vector \in Reports
    PROVE  /\ vector.target.distance \in Nat
           /\ vector.target.relative_velocity \in Int
           /\ vector.of \in TargetLists \cup {<<>>}
  <1>1. vector.target \in Target \cup {NoTarget} /\ vector.of \in TargetLists \cup {<<>>}
    BY DEF Reports
  <1> QED
    BY <1>1, TargetTypes DEF NoTarget

LEMMA ProductTypes ==
    ASSUME NEW a \in Int, NEW b \in Int
    PROVE  a * b \in Int /\ (a \in Nat /\ b <= 0 => a * b <= 0)
                         /\ (a \in Nat /\ b >= 0 => a * b >= 0)
  OBVIOUS

LEMMA ProductsGrow ==
    ASSUME NEW a \in Nat, NEW b \in Int, NEW c \in Int, b <= c
    PROVE  a * b <= a * c
  <1>1. a * (c - b) >= 0
    BY ProductTypes
  <1>2. a * (c - b) = a * c - a * b
    OBVIOUS
  <1> QED
    BY <1>1, <1>2

\* What is wanted of the car, before the limits.
Desired(egoSpeed) == MinDistance + TimeHeadway * egoSpeed

Spacing(vector, egoSpeed) ==
    KpGap * (vector.target.distance - Desired(egoSpeed))
      + KvRelative * vector.target.relative_velocity

Cruising(egoSpeed) == KpSpeed * (SetSpeed - egoSpeed)

Wanted(vector, egoSpeed) ==
    IF vector.valid /\ vector.target.distance > 0
    THEN Least(Cruising(egoSpeed), Spacing(vector, egoSpeed))
    ELSE Cruising(egoSpeed)

Limited(wanted) == Greatest(Least(wanted, MaxAcceleration), MaxDeceleration)

AtRest(egoSpeed, limited) == IF egoSpeed = 0 /\ limited < 0 THEN 0 ELSE limited

LEMMA accelCmdSteps ==
    ASSUME NEW vector, NEW speed
    PROVE  accelCmd(vector, speed)
             = AtRest(Greatest(speed, 0), Limited(Wanted(vector, Greatest(speed, 0))))
  BY DEF accelCmd, AtRest, Limited, Wanted, Cruising, Spacing, Desired

LEMMA LimitedTypes ==
    ASSUME NEW wanted \in Int, NEW egoSpeed \in Int
    PROVE  /\ AtRest(egoSpeed, Limited(wanted)) \in MaxDeceleration .. MaxAcceleration
           /\ wanted <= 0 => AtRest(egoSpeed, Limited(wanted)) <= 0
  BY SettingTypes DEF AtRest, Limited, Least, Greatest

LEMMA WantedTypes ==
    ASSUME NEW vector \in Reports, NEW egoSpeed \in Nat
    PROVE  /\ Wanted(vector, egoSpeed) \in Int
           /\ Desired(egoSpeed) \in Int
           /\ Desired(egoSpeed) >= MinDistance
           /\ Cruising(egoSpeed) \in Int
           /\ Spacing(vector, egoSpeed) \in Int
  <1>1. TimeHeadway * egoSpeed \in Int /\ TimeHeadway * egoSpeed >= 0
    BY SettingTypes, ProductTypes
  <1>2. Desired(egoSpeed) \in Int /\ Desired(egoSpeed) >= MinDistance
    BY <1>1, SettingTypes DEF Desired
  <1>3. Cruising(egoSpeed) \in Int
    <2>1. SetSpeed - egoSpeed \in Int
      BY SettingTypes
    <2> QED
      BY <2>1, SettingTypes, ProductTypes DEF Cruising
  <1>4. Spacing(vector, egoSpeed) \in Int
    <2>1. vector.target.distance - Desired(egoSpeed) \in Int
      BY <1>2, VectorTypes
    <2>2. KpGap * (vector.target.distance - Desired(egoSpeed)) \in Int
      BY <2>1, SettingTypes, ProductTypes
    <2>3. KvRelative * vector.target.relative_velocity \in Int
      BY SettingTypes, VectorTypes, ProductTypes
    <2> QED
      BY <2>2, <2>3 DEF Spacing
  <1>5. Wanted(vector, egoSpeed) \in Int
    BY <1>3, <1>4 DEF Wanted, Least
  <1> QED
    BY <1>2, <1>3, <1>4, <1>5

LEMMA CommandTypes ==
    ASSUME NEW vector \in Reports, NEW speed \in Int
    PROVE  accelCmd(vector, speed) \in MaxDeceleration .. MaxAcceleration
  <1>1. Greatest(speed, 0) \in Nat
    BY DEF Greatest
  <1> QED
    BY <1>1, accelCmdSteps, WantedTypes, LimitedTypes, SMTT(30)

LEMMA DesiredTypes ==
    ASSUME NEW speed \in Int
    PROVE  /\ DesiredDistance(speed) = Desired(Greatest(speed, 0))
           /\ DesiredDistance(speed) \in Int
  <1>1. Greatest(speed, 0) \in Nat
    BY DEF Greatest
  <1>2. TimeHeadway * Greatest(speed, 0) \in Int
    BY <1>1, SettingTypes, ProductTypes
  <1> QED
    BY <1>2, SettingTypes DEF DesiredDistance, Desired

\* What is too near for a speed is too near for any higher one.
LEMMA TooNearForMore ==
    ASSUME NEW list \in TargetLists \cup {<<>>}, NEW v \in Int, NEW speed \in Int,
           v <= speed, TooNear(list, v)
    PROVE  TooNear(list, speed)
  <1>1. /\ Greatest(v, 0) \in Int /\ Greatest(speed, 0) \in Int
        /\ Greatest(v, 0) <= Greatest(speed, 0)
    BY DEF Greatest
  <1>2. TimeHeadway * Greatest(v, 0) <= TimeHeadway * Greatest(speed, 0)
    BY <1>1, SettingTypes, ProductsGrow
  <1>3. TimeHeadway * Greatest(v, 0) \in Int /\ TimeHeadway * Greatest(speed, 0) \in Int
    BY <1>1, SettingTypes, ProductTypes
  <1>4. DesiredDistance(v) <= DesiredDistance(speed)
    BY <1>2, <1>3, SettingTypes DEF DesiredDistance
  <1>5. DesiredDistance(v) \in Int /\ DesiredDistance(speed) \in Int
    BY DesiredTypes
  <1>6. PICK k \in DOMAIN list : /\ IsLead(k, list)
                                 /\ list[k].distance <= DesiredDistance(v)
                                 /\ list[k].relative_velocity <= 0
    BY DEF TooNear
  <1>7. list[k].distance \in Nat
    BY <1>6, ListTypes, TargetTypes
  <1>8. list[k].distance <= DesiredDistance(speed)
    BY <1>4, <1>5, <1>6, <1>7
  <1> QED
    BY <1>6, <1>8 DEF TooNear

\* A lead too near, that does not move away, is not sped up towards.
LEMMA TooNearCommand ==
    ASSUME NEW vector \in Reports, ShowsBest(vector), NEW speed \in Int,
           TooNear(vector.of, speed)
    PROVE  accelCmd(vector, speed) <= 0
  <1> DEFINE list == vector.of
             egoSpeed == Greatest(speed, 0)
  <1>1. egoSpeed \in Nat
    BY DEF Greatest
  <1>2. PICK k \in DOMAIN list : /\ IsLead(k, list)
                                 /\ list[k].distance <= DesiredDistance(speed)
                                 /\ list[k].relative_velocity <= 0
    BY DEF TooNear
  <1>3. ShowsLead(vector)
    BY BestShowsLead DEF TooNear
  <1>4. k \in InLane(list)
    BY <1>2 DEF IsLead
  <1>5. PICK j \in InLane(list) : IsLead(j, list) /\ vector.target = list[j]
    BY <1>3, <1>4 DEF ShowsLead
  <1>6. vector.valid
    BY <1>3, <1>4 DEF ShowsLead
  <1>7. /\ list[j].distance \in Nat /\ list[j].distance > 0
        /\ list[k].distance \in Nat
        /\ j \in Int /\ k \in Int
    <2>1. j \in DOMAIN list /\ k \in DOMAIN list
      BY DEF InLane
    <2>2. list \in TargetLists \cup {<<>>}
      BY VectorTypes
    <2>3. list[j] \in Target /\ list[k] \in Target
      BY <2>1, <2>2, ListTypes
    <2>4. j \in Int /\ k \in Int
      BY <2>1, <2>2, ListTypes
    <2> QED
      BY <2>3, <2>4, TargetTypes
  <1>8. j = k
    BY <1>2, <1>4, <1>5, <1>7 DEF IsLead
  <1>9. /\ vector.target.distance \in Nat
        /\ vector.target.distance > 0
        /\ vector.target.distance <= Desired(egoSpeed)
        /\ vector.target.relative_velocity \in Int
        /\ vector.target.relative_velocity <= 0
    BY <1>2, <1>5, <1>7, <1>8, VectorTypes, DesiredTypes
  <1> HIDE DEF egoSpeed
  <1>10. vector.target.distance - Desired(egoSpeed) \in Int
        /\ vector.target.distance - Desired(egoSpeed) <= 0
    BY <1>1, <1>9, WantedTypes, SettingTypes
  <1>11. Spacing(vector, egoSpeed) <= 0
    <2>1. KpGap * (vector.target.distance - Desired(egoSpeed)) \in Int
          /\ KpGap * (vector.target.distance - Desired(egoSpeed)) <= 0
      BY <1>10, SettingTypes, ProductTypes
    <2>2. KvRelative * vector.target.relative_velocity \in Int
          /\ KvRelative * vector.target.relative_velocity <= 0
      BY <1>9, SettingTypes, ProductTypes
    <2> QED
      BY <2>1, <2>2 DEF Spacing
  <1>12. Wanted(vector, egoSpeed) <= 0
    BY <1>1, <1>6, <1>9, <1>11, WantedTypes DEF Wanted, Least
  <1>13. accelCmd(vector, speed) = AtRest(egoSpeed, Limited(Wanted(vector, egoSpeed)))
    BY accelCmdSteps DEF egoSpeed
  <1> QED
    BY <1>1, <1>12, <1>13, WantedTypes, LimitedTypes

\* The limits keep the order of what is wanted.
LEMMA LimitedGrows ==
    ASSUME NEW a \in Int, NEW b \in Int, a <= b, NEW egoSpeed \in Int
    PROVE  AtRest(egoSpeed, Limited(a)) <= AtRest(egoSpeed, Limited(b))
  <1>1. Limited(a) \in Int /\ Limited(b) \in Int /\ Limited(a) <= Limited(b)
    BY SettingTypes DEF Limited, Least, Greatest
  <1> QED
    BY <1>1 DEF AtRest

\* No report makes the command greater than a free road's.
LEMMA FreeCommand ==
    ASSUME NEW vector \in Reports, NEW speed \in Int
    PROVE  accelCmd(vector, speed) <= accelCmd(FreeRoad, speed)
  <1> DEFINE egoSpeed == Greatest(speed, 0)
  <1>1. egoSpeed \in Nat
    BY DEF Greatest
  <1> HIDE DEF egoSpeed
  <1>2. Wanted(FreeRoad, egoSpeed) = Cruising(egoSpeed)
    BY DEF Wanted, FreeRoad, Report
  <1>3. Wanted(vector, egoSpeed) \in Int /\ Cruising(egoSpeed) \in Int
    BY <1>1, WantedTypes
  <1>4. Wanted(vector, egoSpeed) <= Cruising(egoSpeed)
    BY <1>1, <1>3, WantedTypes DEF Wanted, Least
  <1>5. AtRest(egoSpeed, Limited(Wanted(vector, egoSpeed)))
          <= AtRest(egoSpeed, Limited(Wanted(FreeRoad, egoSpeed)))
    BY <1>1, <1>2, <1>3, <1>4, LimitedGrows
  <1> QED
    BY <1>5, accelCmdSteps DEF egoSpeed
-----------------------------------------------------------------------------
(* The invariant *)

LEMMA InitIInv == Init => IInv
  <1> SUFFICES ASSUME Init PROVE IInv
    OBVIOUS
  <1>1. Candidates(<<>>) = {}
    BY DEF Candidates
  <1>2. FreeRoad \in Reports /\ ShowsBest(FreeRoad)
    BY <1>1 DEF FreeRoad, Report, Reports, ShowsBest
  <1>3. ReportsShowBest
    BY <1>2 DEF Init, ReportsShowBest
  <1>4. Loop
    BY DEF Init, Loop
  <1>5. command \in [accelCmd : MaxDeceleration .. MaxAcceleration, egoSpeed : Int]
    BY SettingTypes DEF Init
  <1>6. TypeOK
    BY <1>2, <1>5 DEF Init, TypeOK
  <1> QED
    BY <1>3, <1>4, <1>6 DEF IInv

\* The candidates do not change while the source does not.
LEMMA SameCandidates ==
    ASSUME source' = source
    PROVE  /\ \A list : Candidates(list)' = Candidates(list)
           /\ \A report : ShowsBest(report)' <=> ShowsBest(report)
           /\ \A lead, list, n : Best(lead, list, n)' <=> Best(lead, list, n)
  BY DEF Candidates, ShowsBest, IsBest, Best, Seen, Nearer

\* Reports that come from those there were, or from the loop's end, show the best.
LEMMA ReportsKept ==
    ASSUME IInv, source' = source,
           \A report \in in_flight' \cup {LeadTarget'} :
              report \in Reports /\ ShowsBest(report)
    PROVE  ReportsShowBest' /\ in_flight' \subseteq Reports /\ LeadTarget' \in Reports
  BY SameCandidates DEF ReportsShowBest

LEMMA ReportsNow ==
    ASSUME IInv
    PROVE  \A report \in in_flight \cup {LeadTarget} : report \in Reports /\ ShowsBest(report)
  BY DEF IInv, TypeOK, ReportsShowBest

\* The loop begins with no target seen.
LEMMA ChooseStep ==
    ASSUME IInv, NEW list \in TargetLists \cup {<<>>}, Choose(list), source' = source
    PROVE  /\ Loop'
           /\ sender' = "choosing" /\ targets' = list
           /\ next' \in 1 .. Len(targets') + 1
           /\ lead_target' = None
  <1>1. next' = 1 /\ targets' = list /\ lead_target' = None /\ sender' = "choosing"
    BY DEF Choose
  <1>2. next' \in 1 .. Len(targets') + 1
    BY <1>1, ListTypes
  <1>3. Best(None, list, 1)
    BY NothingSeen DEF Best
  <1>4. Best(lead_target, targets, next)'
    BY <1>1, <1>3, SameCandidates DEF Best, Seen, Candidates, Nearer
  <1> QED
    BY <1>1, <1>2, <1>4 DEF Loop

\* A round of the loop, on either source, takes the nearest candidate.
LEMMA ConsiderStep ==
    ASSUME IInv, source' = source, NEW chosen \in BOOLEAN, Consider(chosen),
           chosen <=> Taken(lead_target, targets, next)
    PROVE  /\ Loop'
           /\ next' \in 1 .. Len(targets') + 1
           /\ lead_target' \in {targets'[k] : k \in 1 .. next' - 1} \cup {None}
  <1>1. targets \in TargetLists \cup {<<>>}
    BY DEF IInv, TypeOK
  <1>2. Len(targets) \in Nat /\ next \in 1 .. Len(targets)
    BY <1>1, ListTypes DEF Consider, IInv, TypeOK
  <1>3. targets' = targets /\ next' = next + 1
        /\ lead_target' = IF Taken(lead_target, targets, next)
                          THEN targets[next] ELSE lead_target
    BY DEF Consider
  <1>4. next' \in 1 .. Len(targets') + 1
    BY <1>2, <1>3
  <1>5. lead_target' \in {targets'[k] : k \in 1 .. next' - 1} \cup {None}
    <2>1. lead_target \in {targets[k] : k \in 1 .. next - 1} \cup {None}
      BY DEF IInv, TypeOK
    <2>2. \A k \in 1 .. next - 1 : k \in 1 .. next' - 1
      BY <1>2, <1>3
    <2>3. next \in 1 .. next' - 1
      BY <1>2, <1>3
    <2> QED
      BY <1>3, <2>1, <2>2, <2>3
  <1>6. Best(lead_target, targets, next)
    BY DEF IInv, Loop, Consider
  <1>7. PICK b : b = lead_target'
    OBVIOUS
  <1>8. Best(b, targets, next + 1)
    BY <1>1, <1>2, <1>3, <1>6, <1>7, BestStep
  <1>9. Best(lead_target, targets, next)'
    BY <1>3, <1>7, <1>8, SameCandidates DEF Best, Seen, Candidates, Nearer
  <1> QED
    BY <1>4, <1>5, <1>9 DEF Loop

LEMMA StepIInv == IInv /\ [Next]_vars => IInv'
  <1> SUFFICES ASSUME IInv, [Next]_vars PROVE IInv'
    OBVIOUS
  <1> USE DEF senderVars
  <1>s. source' = source
    BY DEF Next, vars, PushTargets, MatlabFrame, PopTargets, ConsiderTarget, Consider,
           SendReport, SendFails, LoseReport, Deliver, decodeLeadTargetFrame,
           MatlabConsider, MatlabOutput, Control, ControlStep
  <1>t. /\ source \in {"rpi", "matlab"}
        /\ target_queue \in Seq(TargetLists)
        /\ sender \in {"popping", "choosing", "dead"}
        /\ targets \in TargetLists \cup {<<>>}
        /\ next \in 1 .. Len(targets) + 1
        /\ lead_target \in {targets[k] : k \in 1 .. next - 1} \cup {None}
        /\ command \in [accelCmd : MaxDeceleration .. MaxAcceleration, egoSpeed : Int]
    BY DEF IInv, TypeOK
  <1>l. \A lead, list, n : Best(lead, list, n)' <=> Best(lead, list, n)
    BY <1>s, SameCandidates
  <1>k. ASSUME UNCHANGED <<sender, targets, next, lead_target>> PROVE Loop'
    BY <1>k, <1>s DEF IInv, Loop, Best, Seen, Candidates, Nearer
  <1>r. ASSUME UNCHANGED <<in_flight, LeadTarget>>
        PROVE  ReportsShowBest' /\ in_flight' \subseteq Reports /\ LeadTarget' \in Reports
    BY <1>r, <1>s, ReportsKept, ReportsNow
  <1>1. ASSUME NEW list \in TargetLists, PushTargets(list) PROVE IInv'
    <2>1. target_queue' \in Seq(TargetLists)
      BY <1>1, <1>t DEF PushTargets
    <2> QED
      BY <1>1, <1>s, <1>t, <1>k, <1>r, <2>1 DEF PushTargets, IInv, TypeOK
  <1>2. ASSUME NEW list \in TargetLists, MatlabFrame(list) PROVE IInv'
    <2>1. Loop' /\ sender' = "choosing" /\ targets' = list
          /\ next' \in 1 .. Len(targets') + 1 /\ lead_target' = None
      BY <1>2, <1>s, ChooseStep DEF MatlabFrame
    <2> QED
      BY <1>2, <1>s, <1>t, <1>r, <2>1 DEF MatlabFrame, IInv, TypeOK
  <1>3. CASE PopTargets
    <2>1. PICK list : list = Head(target_queue)
      OBVIOUS
    <2>2. list \in TargetLists /\ target_queue' \in Seq(TargetLists)
      BY <1>3, <1>t, <2>1 DEF PopTargets
    <2>3. Loop' /\ sender' = "choosing" /\ targets' = list
          /\ next' \in 1 .. Len(targets') + 1 /\ lead_target' = None
      BY <1>3, <1>s, <2>1, <2>2, ChooseStep DEF PopTargets
    <2> QED
      BY <1>3, <1>s, <1>t, <1>r, <2>2, <2>3 DEF PopTargets, IInv, TypeOK
  <1>4. ASSUME NEW chosen \in BOOLEAN, Consider(chosen),
               chosen <=> Taken(lead_target, targets, next)
        PROVE  IInv'
    <2>1. Loop' /\ next' \in 1 .. Len(targets') + 1
          /\ lead_target' \in {targets'[k] : k \in 1 .. next' - 1} \cup {None}
      BY <1>4, <1>s, ConsiderStep
    <2> QED
      BY <1>4, <1>s, <1>t, <1>r, <2>1 DEF Consider, IInv, TypeOK
  <1>5. ASSUME sender = "choosing", next <= Len(targets)
        PROVE  /\ targets[next] \in Target /\ next \in DOMAIN targets
               /\ targets[next].lateral # NaN => Abs(targets[next].lateral) \in Nat
    <2>1. Len(targets) \in Nat /\ DOMAIN targets = 1 .. Len(targets)
      BY <1>t, ListTypes
    <2>2. next \in DOMAIN targets
      BY <1>5, <1>t, <2>1
    <2>3. targets[next] \in Target
      BY <1>t, <2>2, ListTypes
    <2> QED
      BY <2>2, <2>3, TargetTypes, AbsTypes
  <1>6. CASE ConsiderTarget
    <2>1. next \in Candidates(targets) <=> ~OutsideLane(targets[next])
      BY <1>5, <1>6, SettingTypes DEF ConsiderTarget, Consider, Candidates, OutsideLane
    <2> QED
      BY <1>4, <1>6, <2>1 DEF ConsiderTarget, Taken, Replaces
  <1>7. CASE MatlabConsider
    <2>1. next \in Candidates(targets) <=>
            /\ targets[next].distance > 0
            /\ targets[next].lateral # NaN
            /\ Abs(targets[next].lateral) <= center_lane_distance_from_ego
      BY <1>5, <1>7, TargetTypes DEF MatlabConsider, Consider, Candidates
    <2> QED
      BY <1>4, <1>7, <2>1 DEF MatlabConsider, Taken, Replaces
  <1>8. CASE SendReport
    <2>1. LeadTargetFrame \in Reports /\ ShowsBest(LeadTargetFrame)
      BY <1>8, ReportShowsBest DEF SendReport, IInv
    <2>2. ReportsShowBest' /\ in_flight' \subseteq Reports /\ LeadTarget' \in Reports
      BY <1>8, <1>s, <2>1, ReportsKept, ReportsNow DEF SendReport
    <2> QED
      BY <1>8, <1>s, <1>t, <2>2 DEF SendReport, IInv, TypeOK, Loop
  <1>9. CASE SendFails
    BY <1>9, <1>s, <1>t, <1>r DEF SendFails, IInv, TypeOK, Loop
  <1>10. ASSUME NEW report \in in_flight, LoseReport(report) PROVE IInv'
    <2>1. ReportsShowBest' /\ in_flight' \subseteq Reports /\ LeadTarget' \in Reports
      BY <1>10, <1>s, ReportsKept, ReportsNow DEF LoseReport
    <2> QED
      BY <1>10, <1>s, <1>t, <1>k, <2>1 DEF LoseReport, IInv, TypeOK
  <1>11. ASSUME NEW report \in in_flight, decodeLeadTargetFrame(report) PROVE IInv'
    <2>1. ReportsShowBest' /\ in_flight' \subseteq Reports /\ LeadTarget' \in Reports
      BY <1>11, <1>s, ReportsKept, ReportsNow DEF decodeLeadTargetFrame
    <2> QED
      BY <1>11, <1>s, <1>t, <1>k, <2>1 DEF decodeLeadTargetFrame, IInv, TypeOK
  <1>12. CASE MatlabOutput
    <2>1. LeadTargetFrame \in Reports /\ ShowsBest(LeadTargetFrame)
      BY <1>12, ReportShowsBest DEF MatlabOutput, IInv
    <2>2. ReportsShowBest' /\ in_flight' \subseteq Reports /\ LeadTarget' \in Reports
      BY <1>12, <1>s, <2>1, ReportsKept, ReportsNow DEF MatlabOutput
    <2> QED
      BY <1>12, <1>s, <1>t, <2>2 DEF MatlabOutput, IInv, TypeOK, Loop
  <1>13. ASSUME NEW speed \in EgoSpeeds, ControlStep(speed) PROVE IInv'
    <2>1. speed \in Int /\ LeadTarget \in Reports
      BY SettingTypes DEF IInv, TypeOK
    <2>2. command' \in [accelCmd : MaxDeceleration .. MaxAcceleration, egoSpeed : Int]
      BY <1>13, <2>1, CommandTypes DEF ControlStep
    <2> QED
      BY <1>13, <1>s, <1>t, <1>k, <1>r, <2>2 DEF ControlStep, IInv, TypeOK
  <1>14. CASE UNCHANGED vars
    BY <1>14, <1>s, <1>t, <1>k, <1>r DEF vars, IInv, TypeOK
  <1> QED
    BY <1>1, <1>2, <1>3, <1>6, <1>7, <1>8, <1>9, <1>10, <1>11, <1>12, <1>13, <1>14
       DEF Next, Deliver, Control
-----------------------------------------------------------------------------
(* The theorems *)

\* The choosing loop's invariant, with the types and the reports.
THEOREM Invariance == Spec => []IInv
  BY InitIInv, StepIInv, PTL DEF Spec

\* Types: among them, that every command is within the limits.
THEOREM TypeCorrect == Spec => []TypeOK
  BY Invariance, PTL DEF IInv

LEMMA IInvVector == IInv => VectorShowsLead
  BY BestShowsLead DEF IInv, ReportsShowBest, VectorShowsLead

\* Every report and the controller's vector show the lead of one frame, on
\* either source and for every list of targets whose angles exist, and of any
\* list no target of another frame.
THEOREM ReportsCorrect == Spec => []VectorShowsLead
  BY Invariance, IInvVector, PTL

LEMMA IInvCommand == IInv => CommandRespectsLead
  <1> SUFFICES ASSUME IInv, NEW speed \in EgoSpeeds
               PROVE  /\ TooNear(LeadTarget.of, speed) => accelCmd(LeadTarget, speed) <= 0
                      /\ accelCmd(LeadTarget, speed) <= accelCmd(FreeRoad, speed)
    BY DEF CommandRespectsLead
  <1>1. LeadTarget \in Reports /\ ShowsBest(LeadTarget) /\ speed \in Int
    BY ReportsNow, SettingTypes
  <1> QED
    BY <1>1, TooNearCommand, FreeCommand

\* The command respects the lead, for every setting of the controller and
\* every speed: no acceleration towards one nearer than the distance to keep.
THEOREM CommandCorrect == Spec => []CommandRespectsLead
  BY Invariance, IInvCommand, PTL
-----------------------------------------------------------------------------
(* A lead that stays *)

\* Every frame on its way from the radar to the controller has a lead too near.
OnlyNearPending(v) ==
    /\ \A k \in 1 .. Len(target_queue) : TooNear(target_queue[k], v)
    /\ sender = "choosing" => TooNear(targets, v)
    /\ \A report \in in_flight \cup {LeadTarget} : TooNear(report.of, v)

Settled(v) ==
    /\ OnlyNearPending(v)
    /\ command.egoSpeed >= v => command.accelCmd <= 0

\* What LeadIsFollowed assumes of the radar: only such frames are found.
OnlyNearFound(v) ==
    \A list \in TargetLists : PushTargets(list) \/ MatlabFrame(list) => TooNear(list, v)

LEMMA SettledThen ==
    ASSUME NEW v \in Int, source' = source,
           \A k \in 1 .. Len(target_queue') : TooNear(target_queue'[k], v),
           sender' = "choosing" => TooNear(targets', v),
           \A report \in in_flight' \cup {LeadTarget'} : TooNear(report.of, v),
           command'.egoSpeed >= v => command'.accelCmd <= 0
    PROVE  Settled(v)'
  BY DEF Settled, OnlyNearPending, TooNear, AnglesExist

LEMMA SettledNow ==
    ASSUME NEW v \in Int, Settled(v)
    PROVE  /\ \A k \in 1 .. Len(target_queue) : TooNear(target_queue[k], v)
           /\ sender = "choosing" => TooNear(targets, v)
           /\ \A report \in in_flight \cup {LeadTarget} : TooNear(report.of, v)
           /\ command.egoSpeed >= v => command.accelCmd <= 0
  BY DEF Settled, OnlyNearPending

LEMMA SettledStep ==
    ASSUME IInv, [Next]_vars, NEW v \in Int, Settled(v), OnlyNearFound(v)
    PROVE  Settled(v)'
  <1> USE DEF senderVars
  <1>s. source' = source
    BY DEF Next, vars, PushTargets, MatlabFrame, PopTargets, ConsiderTarget, Consider,
           SendReport, SendFails, LoseReport, Deliver, decodeLeadTargetFrame,
           MatlabConsider, MatlabOutput, Control, ControlStep
  <1>q. target_queue \in Seq(TargetLists) /\ Len(target_queue) \in Nat
    BY DEF IInv, TypeOK
  <1>f. LeadTargetFrame.of = targets
    BY DEF LeadTargetFrame, Report
  <1>1. ASSUME NEW list \in TargetLists, PushTargets(list) PROVE Settled(v)'
    <2>1. TooNear(list, v)
      BY <1>1 DEF OnlyNearFound
    <2>2. \A k \in 1 .. Len(target_queue') : TooNear(target_queue'[k], v)
      <3> SUFFICES ASSUME NEW k \in 1 .. Len(target_queue') PROVE TooNear(target_queue'[k], v)
        OBVIOUS
      <3>1. \/ k \in 1 .. Len(target_queue) /\ target_queue'[k] = target_queue[k]
            \/ target_queue'[k] = list
        BY <1>1, <1>q DEF PushTargets
      <3> QED
        BY <2>1, <3>1, SettledNow
    <2> QED
      BY <1>1, <1>s, <2>2, SettledNow, SettledThen DEF PushTargets
  <1>2. ASSUME NEW list \in TargetLists, MatlabFrame(list) PROVE Settled(v)'
    <2>1. TooNear(list, v)
      BY <1>2 DEF OnlyNearFound
    <2> QED
      BY <1>2, <1>s, <2>1, SettledNow, SettledThen DEF MatlabFrame, Choose
  <1>3. CASE PopTargets
    <2>1. target_queue # <<>> /\ target_queue' = Tail(target_queue)
          /\ targets' = Head(target_queue)
      BY <1>3 DEF PopTargets, Choose
    <2>2. TooNear(targets', v)
      <3>1. 1 \in 1 .. Len(target_queue) /\ targets' = target_queue[1]
        BY <1>q, <2>1
      <3> QED
        BY <3>1, SettledNow
    <2>3. \A k \in 1 .. Len(target_queue') : TooNear(target_queue'[k], v)
      <3> SUFFICES ASSUME NEW k \in 1 .. Len(target_queue') PROVE TooNear(target_queue'[k], v)
        OBVIOUS
      <3>1. k + 1 \in 1 .. Len(target_queue) /\ target_queue'[k] = target_queue[k + 1]
        BY <1>q, <2>1
      <3> QED
        BY <3>1, SettledNow
    <2> QED
      BY <1>3, <1>s, <2>2, <2>3, SettledNow, SettledThen DEF PopTargets
  <1>4. ASSUME UNCHANGED <<target_queue, sender, targets, command>>,
               in_flight' \cup {LeadTarget'} \subseteq in_flight \cup {LeadTarget}
        PROVE  Settled(v)'
    BY <1>4, <1>s, SettledNow, SettledThen
  <1>5. CASE ConsiderTarget \/ MatlabConsider
    BY <1>4, <1>5 DEF ConsiderTarget, MatlabConsider, Consider
  <1>6. CASE SendReport
    <2>1. \A report \in in_flight' \cup {LeadTarget'} : TooNear(report.of, v)
      BY <1>6, <1>f, SettledNow DEF SendReport
    <2> QED
      BY <1>6, <1>s, <2>1, SettledNow, SettledThen DEF SendReport
  <1>7. CASE SendFails
    BY <1>7, <1>s, SettledNow, SettledThen DEF SendFails
  <1>8. ASSUME NEW report \in in_flight, LoseReport(report) PROVE Settled(v)'
    BY <1>4, <1>8 DEF LoseReport
  <1>9. ASSUME NEW report \in in_flight, decodeLeadTargetFrame(report) PROVE Settled(v)'
    BY <1>4, <1>9 DEF decodeLeadTargetFrame
  <1>10. CASE MatlabOutput
    <2>1. \A report \in in_flight' \cup {LeadTarget'} : TooNear(report.of, v)
      BY <1>10, <1>f, SettledNow DEF MatlabOutput
    <2> QED
      BY <1>10, <1>s, <2>1, SettledNow, SettledThen DEF MatlabOutput
  <1>11. ASSUME NEW speed \in EgoSpeeds, ControlStep(speed) PROVE Settled(v)'
    <2>1. speed \in Int /\ LeadTarget \in Reports /\ ShowsBest(LeadTarget)
      BY ReportsNow, SettingTypes
    <2>2. speed >= v => accelCmd(LeadTarget, speed) <= 0
      <3>1. TooNear(LeadTarget.of, v)
        BY SettledNow
      <3> QED
        BY <2>1, <3>1, VectorTypes, TooNearForMore, TooNearCommand
    <2>3. command'.egoSpeed >= v => command'.accelCmd <= 0
      BY <1>11, <2>2 DEF ControlStep
    <2> QED
      BY <1>11, <1>s, <2>3, SettledNow, SettledThen DEF ControlStep
  <1>12. CASE UNCHANGED vars
    BY <1>4, <1>12 DEF vars
  <1> QED
    BY <1>1, <1>2, <1>3, <1>5, <1>6, <1>7, <1>8, <1>9, <1>10, <1>11, <1>12
       DEF Next, Deliver, Control

(***************************************************************************)
(* The half of LeadIsFollowed that is no liveness, for every speed v: once *)
(* every frame on its way to the controller has a lead too near for v and  *)
(* the car is not sped up at v or more, it is not sped up at v or more     *)
(* again while only such frames are found, whatever the link loses or      *)
(* reorders.                                                               *)
(***************************************************************************)
THEOREM SettledStays ==
    ASSUME NEW v \in Int
    PROVE  Spec => [][Settled(v) /\ OnlyNearFound(v) => Settled(v)']_vars
  <1>1. IInv /\ [Next]_vars => [Settled(v) /\ OnlyNearFound(v) => Settled(v)']_vars
    BY SettledStep
  <1> QED
    BY <1>1, InitIInv, StepIInv, PTL DEF Spec
=============================================================================

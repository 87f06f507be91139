----------------------------- MODULE LeadReport -----------------------------
(***************************************************************************)
(* From a list of targets to a command for the car: TargetSender chooses   *)
(* the lead target and reports it to the PC over UDP, the PC decodes the   *)
(* report into the LeadTarget vector, and the ACC controller turns the     *)
(* vector and the car's speed into an acceleration.  The vector has a      *)
(* second source, a MATLAB twin of the radar, which the controller is to   *)
(* be unable to tell from the first.                                       *)
(*                                                                         *)
(* Lengths are in tenths of a metre, speeds in tenths of a metre per       *)
(* second, accelerations in hundredths of a metre per second squared.      *)
(* Where a target is to the side stands for its angle.                     *)
(***************************************************************************)
EXTENDS Integers, Sequences, FiniteSets

CONSTANTS
    TargetLists,      \* what may be found in a frame
    NaN,              \* the angle of a target whose arcsine does not exist
    None,             \* std::nullopt
    center_lane_distance_from_ego,
    SetSpeed, MinDistance, TimeHeadway,
    KpSpeed, KpGap, KvRelative,       \* ten times the gains
    MaxAcceleration, MaxDeceleration,
    EgoSpeeds,        \* what the speed may be when the controller runs
    MaxQueue,         \* bound: target lists in the queue
    MaxInFlight       \* bound: reports on their way

\* A cell under test is never at distance 0.
Target ==
    [distance : Nat \ {0}, relative_velocity : Int, lateral : Int \cup {NaN}]

ASSUME ReportAssumption ==
    /\ NaN \notin Int
    /\ None \notin Target
    /\ TargetLists \subseteq Seq(Target)
    /\ EgoSpeeds \subseteq Int
    /\ {center_lane_distance_from_ego, SetSpeed, MinDistance, TimeHeadway, KpSpeed,
        KpGap, KvRelative, MaxAcceleration, MaxDeceleration} \subseteq Int
    /\ {TimeHeadway, KvRelative, MaxAcceleration} \subseteq Nat
    /\ KpGap \in Nat \ {0}
    /\ MaxDeceleration <= 0
    /\ {MaxQueue, MaxInFlight} \subseteq Nat

VARIABLES
    source,          \* where the LeadTarget vector comes from: "rpi" or "matlab"
    target_queue,    \* target_queue_: the target lists
    sender,          \* where TargetSender's thread, or the twin's step, is
    targets,         \* the targets of the frame in hand
    next,            \* the target the choosing loop looks at next
    lead_target,     \* the best so far, or None
    in_flight,       \* reports on their way to the PC
    LeadTarget,      \* the vector at the controller's input
    command          \* accelCmd, and the speed it was made for

vars == <<source, target_queue, sender, targets, next, lead_target, in_flight,
          LeadTarget, command>>

senderVars == <<target_queue, sender, targets, next, lead_target>>

NoTarget == [distance |-> 0, relative_velocity |-> 0, lateral |-> 0]

\* A report, or the vector: valid, the target, and, for the properties, the
\* list it was chosen from.
Report(valid, target, list) == [valid |-> valid, target |-> target, of |-> list]

\* Simulink's signals are zero before the first report.
FreeRoad == Report(FALSE, NoTarget, <<>>)

Init ==
    /\ source \in {"rpi", "matlab"}
    /\ target_queue = <<>>
    /\ sender = "popping"
    /\ targets = <<>>
    /\ next = 1
    /\ lead_target = None
    /\ in_flight = {}
    /\ LeadTarget = FreeRoad
    /\ command = [accelCmd |-> 0, egoSpeed |-> 0]
-----------------------------------------------------------------------------
(* TargetSender *)

\* RadarProcessor pushes the targets of a frame.
PushTargets(list) ==
    /\ source = "rpi"
    /\ Len(target_queue) < MaxQueue
    /\ target_queue' = Append(target_queue, list)
    /\ UNCHANGED <<source, sender, targets, next, lead_target, in_flight, LeadTarget,
                   command>>

\* Mutant: the place in the list is not reset.
Choose_KeepsPlace(list) ==
    /\ sender = "popping"
    /\ targets' = list
    /\ next' = next
    /\ lead_target' = None
    /\ sender' = "choosing"

\* The choosing loop begins.
Choose(list) ==
    /\ sender = "popping"
    /\ targets' = list
    /\ next' = 1
    /\ lead_target' = None
    /\ sender' = "choosing"

PopTargets ==
    /\ target_queue # <<>>
    /\ Choose(Head(target_queue))
    /\ target_queue' = Tail(target_queue)
    /\ UNCHANGED <<source, in_flight, LeadTarget, command>>

Abs(x) == IF x < 0 THEN -x ELSE x

\* abs(lateral) > center_lane_distance_from_ego: false if the angle is NaN.
OutsideLane(target) ==
    /\ target.lateral # NaN
    /\ Abs(target.lateral) > center_lane_distance_from_ego

\* Mutant: a target takes the place of any before it.
Replaces_Last(target) == TRUE

\* A target takes the place of the lead target.
Replaces(target) == lead_target = None \/ target.distance < lead_target.distance

\* A round of a choosing loop.
Consider(chosen) ==
    /\ sender = "choosing"
    /\ next <= Len(targets)
    /\ lead_target' = IF chosen THEN targets[next] ELSE lead_target
    /\ next' = next + 1
    /\ UNCHANGED <<source, target_queue, sender, targets, in_flight, LeadTarget, command>>

\* find_LeadTarget
ConsiderTarget ==
    /\ source = "rpi"
    /\ Consider(~OutsideLane(targets[next]) /\ Replaces(targets[next]))

LeadTargetFrame ==
    IF lead_target = None
    THEN Report(FALSE, NoTarget, targets)
    ELSE Report(TRUE, lead_target, targets)

SendReport ==
    /\ source = "rpi"
    /\ sender = "choosing"
    /\ next > Len(targets)
    /\ Cardinality(in_flight) < MaxInFlight
    /\ in_flight' = in_flight \cup {LeadTargetFrame}
    /\ sender' = "popping"
    /\ UNCHANGED <<source, target_queue, targets, next, lead_target, LeadTarget, command>>

\* send throws: the thread ends.
SendFails ==
    /\ source = "rpi"
    /\ sender = "choosing"
    /\ next > Len(targets)
    /\ sender' = "dead"
    /\ UNCHANGED <<source, target_queue, targets, next, lead_target, in_flight, LeadTarget,
                   command>>
-----------------------------------------------------------------------------
(* The link and the PC *)

LoseReport(report) ==
    /\ report \in in_flight
    /\ in_flight' = in_flight \ {report}
    /\ UNCHANGED <<source, senderVars, LeadTarget, command>>

\* Mutant: the vector is written once.
decodeLeadTargetFrame_Once(report) ==
    /\ report \in in_flight
    /\ in_flight' = in_flight \ {report}
    /\ LeadTarget' = IF LeadTarget = FreeRoad THEN report ELSE LeadTarget
    /\ UNCHANGED <<source, senderVars, command>>

\* Reports may overtake each other: the vector is the one that came last.
decodeLeadTargetFrame(report) ==
    /\ report \in in_flight
    /\ in_flight' = in_flight \ {report}
    /\ LeadTarget' = report
    /\ UNCHANGED <<source, senderVars, command>>

\* A step of MatlabRadarLeadTargetVectorSource, which finds targets itself.
MatlabFrame(list) ==
    /\ source = "matlab"
    /\ Choose(list)
    /\ UNCHANGED <<source, target_queue, in_flight, LeadTarget, command>>

\* The twin clamps the sine: its angles exist, and such a target is far aside.
MatlabConsider ==
    /\ source = "matlab"
    /\ Consider(/\ targets[next].distance > 0
                /\ targets[next].lateral # NaN
                /\ Abs(targets[next].lateral) <= center_lane_distance_from_ego
                /\ Replaces(targets[next]))

MatlabOutput ==
    /\ source = "matlab"
    /\ sender = "choosing"
    /\ next > Len(targets)
    /\ LeadTarget' = LeadTargetFrame
    /\ sender' = "popping"
    /\ UNCHANGED <<source, target_queue, targets, next, lead_target, in_flight, command>>

Least(a, b) == IF a < b THEN a ELSE b
Greatest(a, b) == IF a < b THEN b ELSE a

\* Mutant: the greater of the two accelerations is wanted.
accelCmd_Greatest(vector, speed) ==
    LET egoSpeed == Greatest(speed, 0)
        desiredDistance == MinDistance + TimeHeadway * egoSpeed
        accelSpeed == KpSpeed * (SetSpeed - egoSpeed)
        accelSpacing == KpGap * (vector.target.distance - desiredDistance)
                          + KvRelative * vector.target.relative_velocity
        wanted == IF vector.valid THEN Greatest(accelSpeed, accelSpacing) ELSE accelSpeed
        limited == Greatest(Least(wanted, MaxAcceleration), MaxDeceleration)
    IN  IF egoSpeed = 0 /\ limited < 0 THEN 0 ELSE limited

\* ACCControllerVector.stepImpl: a speed up to 0.05 m/s rounds to 0.
accelCmd(vector, speed) ==
    LET egoSpeed == Greatest(speed, 0)
        desiredDistance == MinDistance + TimeHeadway * egoSpeed
        accelSpeed == KpSpeed * (SetSpeed - egoSpeed)
        accelSpacing == KpGap * (vector.target.distance - desiredDistance)
                          + KvRelative * vector.target.relative_velocity
        wanted == IF vector.valid /\ vector.target.distance > 0
                  THEN Least(accelSpeed, accelSpacing)
                  ELSE accelSpeed
        limited == Greatest(Least(wanted, MaxAcceleration), MaxDeceleration)
    IN  IF egoSpeed = 0 /\ limited < 0 THEN 0 ELSE limited

ControlStep(speed) ==
    /\ command' = [accelCmd |-> accelCmd(LeadTarget, speed), egoSpeed |-> speed]
    /\ UNCHANGED <<source, senderVars, in_flight, LeadTarget>>
-----------------------------------------------------------------------------
Deliver == \E report \in in_flight : decodeLeadTargetFrame(report)

Control == \E speed \in EgoSpeeds : ControlStep(speed)

Next ==
    \/ \E list \in TargetLists : PushTargets(list) \/ MatlabFrame(list)
    \/ PopTargets
    \/ ConsiderTarget
    \/ SendReport
    \/ SendFails
    \/ \E report \in in_flight : LoseReport(report)
    \/ Deliver
    \/ MatlabConsider
    \/ MatlabOutput
    \/ Control

Spec == Init /\ [][Next]_vars

\* The controller runs every SampleTime; what the radar finds, and what the
\* link does, is left open.
FairSpec == Spec /\ WF_vars(Control)
-----------------------------------------------------------------------------
Reports == [valid : BOOLEAN, target : Target \cup {NoTarget}, of : TargetLists \cup {<<>>}]

\* Types.
TypeOK ==
    /\ source \in {"rpi", "matlab"}
    /\ target_queue \in Seq(TargetLists)
    /\ sender \in {"popping", "choosing", "dead"}
    /\ targets \in TargetLists \cup {<<>>}
    /\ next \in 1 .. Len(targets) + 1
    /\ lead_target \in {targets[k] : k \in 1 .. next - 1} \cup {None}
    /\ in_flight \subseteq Reports
    /\ LeadTarget \in Reports
    /\ command \in [accelCmd : MaxDeceleration .. MaxAcceleration, egoSpeed : Int]

\* The places in a list of the targets in the lane.  A target without an angle is
\* none of them: its arcsine does not exist because it is straight beside the car.
InLane(list) ==
    {k \in DOMAIN list :
        /\ list[k].lateral # NaN
        /\ Abs(list[k].lateral) <= center_lane_distance_from_ego}

\* The place of the lead: the nearest in the lane, the first of equally near.
IsLead(k, list) ==
    /\ k \in InLane(list)
    /\ \A j \in InLane(list) :
          \/ list[k].distance < list[j].distance
          \/ list[k].distance = list[j].distance /\ k <= j

ShowsLead(report) ==
    IF InLane(report.of) = {}
    THEN ~report.valid /\ report.target = NoTarget
    ELSE report.valid /\ \E k \in InLane(report.of) :
                            IsLead(k, report.of) /\ report.target = report.of[k]

\* Whether the source compares an angle for each target: the twin always does.
AnglesExist(list) == source = "matlab" \/ \A k \in DOMAIN list : list[k].lateral # NaN

\* Every report on its way, and the vector at the controller whichever source
\* it has, shows the lead of one frame's targets, valid, or all zeros if there
\* is none; if an angle does not exist, it is still one of that frame's targets
\* or all zeros, and never what an earlier frame left behind.
VectorShowsLead ==
    \A report \in in_flight \cup {LeadTarget} :
        /\ AnglesExist(report.of) => ShowsLead(report)
        /\ IF report.valid
           THEN \E k \in DOMAIN report.of : report.target = report.of[k]
           ELSE report.target = NoTarget

\* "The nearest of the targets in the same lane" (TargetSender.cpp:27), for every
\* list of targets: the code takes a target without an angle for one of them.
LeadIsInLane ==
    \A report \in in_flight \cup {LeadTarget} : ShowsLead(report)

\* The distance the controller keeps at a speed.
DesiredDistance(speed) == MinDistance + TimeHeadway * Greatest(speed, 0)

\* The lead is too near for the speed, and does not move away.
TooNear(list, speed) ==
    /\ AnglesExist(list)
    /\ \E k \in DOMAIN list :
          /\ IsLead(k, list)
          /\ list[k].distance <= DesiredDistance(speed)
          /\ list[k].relative_velocity <= 0

\* From the targets to the command, at every speed: the car is not sped up
\* towards a lead, in the frame the controller's vector is from, that is nearer
\* than the distance to keep at that speed; and no report, of whatever targets,
\* speeds it up more than a free road would.
CommandRespectsLead ==
    \A speed \in EgoSpeeds :
        LET accel == accelCmd(LeadTarget, speed)
        IN  /\ TooNear(LeadTarget.of, speed) => accel <= 0
            /\ accel <= accelCmd(FreeRoad, speed)

\* A lead that stays is followed: if from some time on every frame that is found
\* has a lead too near for a speed, and reports keep coming through, then in the
\* end the car is never sped up while it is as fast as that or faster, though
\* reports of earlier frames may overtake later ones.  Nothing holds when no
\* report comes through: the controller has no timeout for one.
LeadIsFollowed ==
    \A speed \in EgoSpeeds :
        /\ <>[][\A list \in TargetLists :
                  PushTargets(list) \/ MatlabFrame(list) => TooNear(list, speed)]_vars
        /\ []<><<Deliver \/ MatlabOutput>>_vars
        => <>[](command.egoSpeed >= speed => command.accelCmd <= 0)
=============================================================================

CONSTANTS
    NaN = NaN
    None = None
    center_lane_distance_from_ego = 18
    SetSpeed = 200
    MinDistance = 100
    TimeHeadway = 1
    KpSpeed = 25
    KpGap = 12
    KvRelative = 25
    MaxAcceleration = 400
    MaxDeceleration <- MCMaxDeceleration
    TargetLists <- MCTargetLists
    EgoSpeeds <- MCEgoSpeeds
    MaxQueue = 1
    MaxInFlight = 2
SPECIFICATION Spec
INVARIANT
    LeadIsInLane

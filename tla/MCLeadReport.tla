---------------------------- MODULE MCLeadReport ----------------------------
(***************************************************************************)
(* Target lists for LeadReport: none, one and two leads, equally near ones,*)
(* a nearer target beside the lane, one on its edge, and one without angle.*)
(* The distances are beyond 11 m, the first that CFAR tests, and the leads *)
(* at 15 m are too near for the higher speeds, not for the lower.          *)
(***************************************************************************)
EXTENDS LeadReport

T(distance, relative_velocity, lateral) ==
    [distance |-> distance, relative_velocity |-> relative_velocity, lateral |-> lateral]

MCEgoSpeeds == {-1, 0, 150, 230}

MCMaxDeceleration == -1000

MCTargetLists ==
    {<<>>,
     <<T(150, 0, 19)>>,
     <<T(300, 0, 0), T(150, -20, -18)>>,
     <<T(120, -10, -19), T(150, 0, 0), T(150, 30, 0)>>,
     <<T(240, 40, 18), T(150, 0, NaN)>>}
=============================================================================

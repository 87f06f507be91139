------------------------- MODULE MCSignalProcessing -------------------------
(* Scenes for SignalProcessing: a dead receiver, and even noise with echoes *)
(* from at most two of some cells.                                         *)
EXTENDS SignalProcessing

CONSTANT Strong

\* Three of the four cells under test of the 6 x 4 map, and a corner of it.
Spots == {<<2, -1>>, <<2, 0>>, <<3, 0>>, <<0, -2>>}

Scene(noise, echoes) ==
    [cell \in Ranges \X Velocities |-> IF cell \in echoes THEN Strong ELSE noise]

MCScenes ==
    {Scene(0, {}), Scene(1, {})} \cup {Scene(1, {c, d}) : c, d \in Spots}
=============================================================================

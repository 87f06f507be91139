---------------------------- MODULE FrameSource ----------------------------
(***************************************************************************)
(* What the UDP link and the reassembler together owe to RadarProcessor:   *)
(* the PC captures scans, and each scan reaches the processor whole and at *)
(* most once.  Scans may be skipped (UDP loses packets) and may overtake   *)
(* one another (UDP reorders them).                                        *)
(***************************************************************************)
EXTENDS Naturals, Sequences

CONSTANT
    Scans        \* the scans the PC can take, as <<session, frame id>>

VARIABLES
    captured,    \* the scans the PC has taken
    delivered    \* the scans handed to the processor, in that order

vars == <<captured, delivered>>

Init ==
    /\ captured = {}
    /\ delivered = <<>>

Capture(scan) ==
    /\ scan \notin captured
    /\ captured' = captured \cup {scan}
    /\ UNCHANGED delivered

Deliver(scan) ==
    /\ scan \in captured
    /\ \A k \in 1 .. Len(delivered) : delivered[k] # scan
    /\ delivered' = Append(delivered, scan)
    /\ UNCHANGED captured

Next == \E scan \in Scans : Capture(scan) \/ Deliver(scan)

Spec == Init /\ [][Next]_vars
=============================================================================

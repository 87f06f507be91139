------------------------------ MODULE MCDBSCAN ------------------------------
(***************************************************************************)
(* Every set of detections in a grid of Rows x Columns cells, in the       *)
(* row-major order in which CFAR collects them, and after it, with the     *)
(* same DBSCAN object, the cells of the grid that were left out.           *)
(***************************************************************************)
EXTENDS DBSCAN

CONSTANTS Rows, Columns

Cells == (1 .. Rows) \X (1 .. Columns)

Grid == [k \in 1 .. Rows * Columns |-> <<((k - 1) \div Columns) + 1, ((k - 1) % Columns) + 1>>]

InRowMajorOrder(S) ==
    LET Detected(cell) == cell \in S IN SelectSeq(Grid, Detected)

MCFrameSequences ==
    {<<InRowMajorOrder(S), InRowMajorOrder(Cells \ S)>> : S \in SUBSET Cells}
=============================================================================

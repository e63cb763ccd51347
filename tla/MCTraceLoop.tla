---------------------------- MODULE MCTraceLoop -----------------------------
(***************************************************************************)
(* Instances of TraceLoop.tla for TLC.                                     *)
(***************************************************************************)
EXTENDS TraceLoop

\* No byte, a few, and as many as the region holds.
Boundary == {0, 5, RegionSize - 9}

=============================================================================

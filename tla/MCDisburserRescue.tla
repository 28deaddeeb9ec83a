-------------------------- MODULE MCDisburserRescue --------------------------
(* Two overlapping rescue ticks, windows of one and two time units.          *)
EXTENDS DisburserRescue

CONSTANTS r1, r2

MCRTick == {r1, r2}
=============================================================================

---------------------------- MODULE MCDisburser ----------------------------
(* Small instances of Disburser for TLC.  One time unit is a quarter of the *)
(* age denominator, so ages in the run reach the cap: a batch of 200 splits *)
(* into three planned transfers once the neuron has aged, into one before.  *)
EXTENDS Disburser, TLC

CONSTANTS p1, p2

MCProc == {p1, p2}
MCSymmetry == Permutations(MCProc)
=============================================================================

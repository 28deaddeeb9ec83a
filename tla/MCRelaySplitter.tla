-------------------------- MODULE MCRelaySplitter --------------------------
(* Small instances of RelaySplitter and its reader.                         *)
EXTENDS SplitterProvenance, TLC

MCTwo == <<30, 50>>

\* Activations are interchangeable.
MCSymmetry == Permutations(Proc)
=============================================================================

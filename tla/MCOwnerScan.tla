---------------------------- MODULE MCOwnerScan ----------------------------
(* A small instance of OwnerScan for TLC: principals 1 and 2; neurons of    *)
(* one principal, of two with more rights for principal 2, or unstaked.     *)
EXTENDS OwnerScan, TLC

One  == [stake |-> 2, fees |-> 1, perms |-> {<<1, {1}>>}]
Two  == [stake |-> 2, fees |-> 1, perms |-> {<<1, {1}>>, <<2, {1}>>, <<2, {2}>>}]
Bare == [stake |-> 1, fees |-> 1, perms |-> {<<1, {1}>>}]

MCKinds == {One, Two, Bare}

\* Two neurons of different owners everywhere; a third one may be created.
MCStarts == {[r \in Roots |-> <<One, Two, Absent>>]}

TickSymmetry == Permutations(Ticks)
=============================================================================

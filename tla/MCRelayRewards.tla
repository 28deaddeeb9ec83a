--------------------------- MODULE MCRelayRewards ---------------------------
(* A small instance of RelayRewards for TLC: a recent commitment funded by  *)
(* accounts 1 and 2, and an older one by account 3.                         *)
EXTENDS RelayRewards, TLC

CONSTANT SecondRoot

MCBatches == <<[a \in Owners |-> IF a = 3 THEN 0 ELSE a],
               [a \in Owners |-> IF a = 3 THEN 1 ELSE 0]>>

\* The recent funders own neurons of one SNS, nobody one of the other.
MCDirectories ==
  {<<r, IF r = SecondRoot THEN {} ELSE {1, 2}>> : r \in Roots}

ProcSymmetry == Permutations(Proc)
=============================================================================

-------------------------- MODULE MCHistorianIndex --------------------------
(* A small instance of HistorianIndex for TLC: a busy staking account, or   *)
(* busy routes, and an upgrade where the accounts are quieter.              *)
EXTENDS HistorianIndex, TLC

MCLoads == {[staking |-> 4, output |-> 0, rewards |-> 0, upgrades |-> 0],
            [staking |-> 3, output |-> 0, rewards |-> 0, upgrades |-> 1],
            [staking |-> 0, output |-> 5, rewards |-> 0, upgrades |-> 0],
            [staking |-> 0, output |-> 1, rewards |-> 1, upgrades |-> 1]}

\* The third staking transaction is under the threshold.
MCTarget == [i \in 1..5 |-> IF i = 3 THEN NoTarget ELSE "g"]

TickSymmetry == Permutations(Ticks)
=============================================================================

---------------------------- MODULE PayoutSplit ----------------------------
(***************************************************************************)
(* The payout arithmetic of the disburser (canisters/disburser/src/         *)
(* logic.rs): the age multiplier, the three-way split of a staged balance,  *)
(* and the amounts that are planned for transfer.                           *)
(*                                                                         *)
(* The code works in seconds and e8s with u128 intermediates, so no         *)
(* intermediate overflows; here both are naturals.  AgeDen and AgeCap are   *)
(* the code's "16 years" and MAX_AGE_FOR_BONUS_SECS ("4 years").            *)
(***************************************************************************)
EXTENDS Integers

CONSTANTS AgeDen,     \* 16 * SECS_PER_YEAR
          AgeCap,     \* 4 * SECS_PER_YEAR
          BonusPct    \* BONUS_RECIPIENT_1_PCT

ASSUME AgeAssumption == AgeDen \in Nat \ {0} /\ AgeCap \in Nat

ASSUME PctAssumption == BonusPct \in 0 .. 100

\* The three destinations, in the order plan_payout_transfers pushes them:
\* 1 the age-neutral base, 2 and 3 the two shares of the age bonus.
Recipients == 1 .. 3

\* u64::saturating_sub
Monus(a, b) == IF a >= b THEN a - b ELSE 0

\* The numerator of the multiplier 1 + min(age, 4y) / 16y over AgeDen.
AgeNum(age) == AgeDen + (IF age <= AgeCap THEN age ELSE AgeCap)

\* floor(total / multiplier)
BaseShare(total, age) == (total * AgeDen) \div AgeNum(age)

\* u128::div_ceil(100) of the percentage
CeilPct(n) == (n * BonusPct + 99) \div 100

\* compute_gross_split
GrossSplit(total, age) ==
  LET base  == BaseShare(total, age)
      bonus == Monus(total, base)
  IN  [r \in Recipients |-> CASE r = 1 -> base
                              [] r = 2 -> CeilPct(bonus)
                              [] r = 3 -> Monus(bonus, CeilPct(bonus))]

\* Mutant: the fee is not deducted from the planned amount.
PlannedAmountsGross(total, fee, age) ==
  [r \in Recipients |-> LET share == GrossSplit(total, age)[r]
                        IN  IF share <= fee THEN 0 ELSE share]

\* plan_payout_transfers: the net amount per destination.  A share that does
\* not exceed the fee is skipped and stays in staging: amount 0 stands for
\* "no transfer planned" (a planned amount is share - fee > 0).
PlannedAmounts(total, fee, age) ==
  [r \in Recipients |-> Monus(GrossSplit(total, age)[r], fee)]

\* What a planned transfer debits from the staging account.
DebitOf(amt, fee) == IF amt = 0 THEN 0 ELSE amt + fee
=============================================================================

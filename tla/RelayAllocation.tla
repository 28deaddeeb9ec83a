-------------------------- MODULE RelayAllocation ---------------------------
(***************************************************************************)
(* canisters/relay/src/logic.rs: how a Relay divides its ICP.  Every target *)
(* needs what it burned (plus headroom) and what it is still owed; a short  *)
(* balance is divided in proportion; what is left after the top-ups is      *)
(* shared equally among the surplus recipients.                             *)
(* Needs, grosses and amounts are functions over the indices of a job.      *)
(***************************************************************************)
EXTENDS Naturals, FiniteSets, FiniteSetsExt

CONSTANTS HeadroomNum, HeadroomDen,  \* TOPUP_HEADROOM_NUMERATOR, .._DENOMINATOR
          MinRaw                     \* MIN_RAW_ICP_RECIPIENT_AMOUNT_E8S

ASSUME AllocationAssumption ==
  /\ HeadroomNum \in Nat /\ HeadroomDen \in Nat \ {0}
  /\ HeadroomNum >= HeadroomDen /\ MinRaw \in Nat

Monus(a, b) == IF a > b THEN a - b ELSE 0
CeilDiv(n, d) == (n + d - 1) \div d
SumOf(f) == MapThenSumSet(LAMBDA i : f[i], DOMAIN f)

\* compute_burn: what the Relay minted itself since the last sample is added.
ComputeBurn(previous, minted, current) == Monus(previous + minted, current)

\* burn_plans: headroom only where the rest goes to raw-ICP recipients.
TargetTopup(raw, burn, deficit) ==
  deficit + (IF raw THEN CeilDiv(burn * HeadroomNum, HeadroomDen) ELSE burn)

Desired(need, fee, rate) ==
  [i \in DOMAIN need |-> IF need[i] = 0 THEN 0 ELSE CeilDiv(need[i], rate) + fee]

\* proportional_topup_gross_allocations: shares rounded down, and one e8 more
\* for the largest remainders (the earlier first) until nothing is left.
Proportional(desired, balance) ==
  LET total == SumOf(desired)
      floor == [i \in DOMAIN desired |-> (balance * desired[i]) \div total]
      rest  == [i \in DOMAIN desired |-> (balance * desired[i]) % total]
      before(i) == {k \in DOMAIN desired : /\ desired[k] > 0
                      /\ \/ rest[k] > rest[i]
                         \/ rest[k] = rest[i] /\ k < i}
  IN  [i \in DOMAIN desired |->
         IF desired[i] > 0 /\ Cardinality(before(i)) < balance - SumOf(floor)
         THEN floor[i] + 1 ELSE floor[i]]

\* build_allocation_plan
AllocationPlan(need, balance, fee, rate) ==
  LET desired == Desired(need, fee, rate)
      funded == SumOf(desired) <= balance
      share == IF funded THEN desired ELSE Proportional(desired, balance)
      gross == [i \in DOMAIN need |-> IF share[i] > fee THEN share[i] ELSE 0]
  IN  [gross |-> gross, amount |-> [i \in DOMAIN need |-> Monus(gross[i], fee)],
       funded |-> funded]

\* build_spend_all_cycles_plan
SpendAllPlan(need, balance, fee) ==
  LET total == SumOf(need)
      gross == [i \in DOMAIN need |->
                  IF total = 0 THEN 0 ELSE (balance * need[i]) \div total]
  IN  [gross |-> gross, funded |-> TRUE,
       amount |-> [i \in DOMAIN need |->
                     IF gross[i] < 2 * fee \/ gross[i] <= fee THEN 0
                     ELSE gross[i] - fee]]

\* allocate_equal_surplus_shares for n recipients
SurplusShare(n, balance, fee) ==
  LET gross == balance \div n
  IN  [gross |-> gross,
       amount |-> IF gross <= fee \/ gross - fee < MinRaw THEN 0 ELSE gross - fee]
=============================================================================

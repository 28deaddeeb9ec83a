----------------------------- MODULE MCRelayJob -----------------------------
EXTENDS RelayJob, TLC

CONSTANTS self, t1, r1

TwoTargets == <<self, t1>>
OneRecipient == <<r1>>
Activations == Permutations(Proc)

\* One job that is taken over, one that meets two faults, two in a row.
Budget(jobs, steals, faults) ==
  [jobs |-> jobs, steals |-> steals, faults |-> faults, burns |-> 1, deposits |-> 1]
SmallBudgets == {Budget(1, 1, 1), Budget(2, 0, 2)}
=============================================================================

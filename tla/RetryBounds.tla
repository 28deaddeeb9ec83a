---------------------------- MODULE RetryBounds ----------------------------
(* The parameters of the main tick's one-shot retry (canisters/disburser/   *)
(* src/scheduler/tick.rs), declared apart from its state in MainRetry.      *)
EXTENDS Naturals

CONSTANTS MaxTicks,  \* bound: firings of the interval timer
          MaxMarker, \* bound: the marker stops here
          NoRetry    \* SCHEDULED_MAIN_RETRY_PENDING = None

ASSUME BoundAssumption ==
  MaxTicks \in Nat /\ MaxMarker \in Nat

ASSUME NoRetryAssumption == NoRetry \notin Nat
=============================================================================

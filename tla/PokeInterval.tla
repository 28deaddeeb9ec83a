---------------------------- MODULE PokeInterval ----------------------------
(* The parameters of the hint admission (canisters/disburser/src/scheduler/ *)
(* poke.rs), shared by PokeCoalescer and its composition DisburserTimers.   *)
EXTENDS Naturals

CONSTANTS Interval,   \* EVENT_HORIZON_POKE_INTERVAL_SECONDS
          MaxHintTime \* bound: no hint arrives after this time

ASSUME IntervalAssumption == Interval \in Nat \ {0} /\ MaxHintTime \in Nat
=============================================================================

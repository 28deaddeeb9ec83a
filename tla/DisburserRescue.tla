--------------------------- MODULE DisburserRescue ---------------------------
(***************************************************************************)
(* Autonomous rescue of the disburser: the rescue tick (scheduler/           *)
(* rescue.rs), its policy (policy.rs), and the upgrade arguments that arm,   *)
(* disarm and reset it (lib.rs).                                             *)
(*                                                                         *)
(* A rescue tick decides from the state it reads, awaits update_settings,    *)
(* and writes the outcome without reading the state again.  Ticks of the     *)
(* interval timer and of the one-shot reconcile timer may overlap.  The      *)
(* management call has no deadline: its answer says what happened.           *)
(* Time 0 stands for a timestamp of None.                                    *)
(***************************************************************************)
EXTENDS Naturals, Sequences

CONSTANTS RTick,      \* rescue ticks that may be in flight together
          Healthy,    \* HEALTHY_WINDOW_SECS
          Broken,     \* BROKEN_WINDOW_SECS
          Bootstrap,  \* BOOTSTRAP_RESCUE_WINDOW_SECS
          MaxTime,    \* bound: the clock stops here
          MaxUpgrades \* bound: upgrades with arguments

ASSUME WindowAssumption ==
  /\ Healthy \in Nat /\ Broken \in Nat /\ Bootstrap \in Nat
  /\ Healthy <= Broken /\ MaxTime \in Nat \ {0} /\ MaxUpgrades \in Nat

VARIABLES now,
          armed, armedSince,  \* autonomous_rescue_armed, .._armed_since_ts
          lastXfer,           \* last_successful_transfer_ts
          forced,             \* forced_rescue_reason = BootstrapNoSuccess
          triggered,          \* rescue_triggered
          lastCheck,          \* last_rescue_check_ts
          controllers,        \* "install", "self" or "both" (self + Lifeline)
          tick,               \* the rescue ticks
          mgmtQ,              \* update_settings requests under way
          upgrades

policyState == <<armed, armedSince, lastXfer, forced, triggered, lastCheck>>
vars == <<now, policyState, controllers, tick, mgmtQ, upgrades>>

Free == [pc |-> "idle", at |-> 0, want |-> "none"]

TypeOK ==
  /\ now \in 1 .. MaxTime
  /\ armed \in BOOLEAN /\ armedSince \in 0 .. now
  /\ lastXfer \in 0 .. now /\ forced \in BOOLEAN /\ triggered \in BOOLEAN
  /\ lastCheck \in 0 .. now
  /\ controllers \in {"install", "self", "both"}
  /\ tick \in [RTick -> [pc : {"idle", "sent", "done", "failed"},
                         at : 0 .. MaxTime, want : {"none", "self", "both"}]]
  /\ mgmtQ \in Seq(RTick)
  /\ upgrades \in 0 .. MaxUpgrades

Init ==
  /\ now = 1
  /\ armed \in BOOLEAN /\ armedSince = (IF armed THEN 1 ELSE 0)
  /\ lastXfer = 0 /\ forced = FALSE /\ triggered = FALSE /\ lastCheck = 0
  /\ controllers = "install"
  /\ tick = [p \in RTick |-> Free]
  /\ mgmtQ = <<>> /\ upgrades = 0

-----------------------------------------------------------------------------
\* policy::bootstrap_rescue_due
BootstrapDue ==
  lastXfer = 0 /\ armedSince # 0 /\ now - armedSince > Bootstrap

\* policy::desired_controllers; "none" in the middle window and before the
\* first success.
PolicyTarget ==
  CASE lastXfer = 0                -> "none"
    [] now - lastXfer <= Healthy   -> "self"
    [] now - lastXfer > Broken     -> "both"
    [] OTHER                       -> "none"

\* Mutant: pending narrowing after clear_forced_rescue is forgotten.
DesiredNoPending(latch) == IF latch THEN "both" ELSE PolicyTarget

\* desired_controllers_for_rescue_state
Desired(latch) ==
  IF latch THEN "both"
  ELSE IF triggered /\ lastXfer = 0 THEN "self"
  ELSE PolicyTarget

-----------------------------------------------------------------------------
Advance ==
  /\ now < MaxTime
  /\ now' = now + 1
  /\ UNCHANGED <<policyState, controllers, tick, mgmtQ, upgrades>>

\* A main tick or poke records a transfer under the time it began; these
\* times never go back (module Disburser, PlanOnlyAdvances).
TransferSucceeds ==
  /\ \E t \in {now - 1, now} : t > lastXfer /\ lastXfer' = t
  /\ UNCHANGED <<now, armed, armedSince, forced, triggered, lastCheck,
                 controllers, tick, mgmtQ, upgrades>>

\* rescue_tick up to its await.  The latch is set even if nothing is sent.
RescueStart(p) ==
  LET latch == forced \/ BootstrapDue
      want  == Desired(latch)
      sends == armed /\ want # "none"
  IN  /\ tick[p].pc = "idle"
      /\ forced' = latch
      /\ tick' = IF sends
                 THEN [tick EXCEPT ![p] = [pc |-> "sent", at |-> now,
                                           want |-> want]]
                 ELSE tick
      /\ mgmtQ' = IF sends THEN Append(mgmtQ, p) ELSE mgmtQ
      /\ UNCHANGED <<now, armed, armedSince, lastXfer, triggered, lastCheck,
                     controllers, upgrades>>

\* The management canister applies or rejects the oldest update_settings.
SettingsApplied ==
  /\ mgmtQ # <<>>
  /\ controllers' = tick[Head(mgmtQ)].want
  /\ tick' = [tick EXCEPT ![Head(mgmtQ)].pc = "done"]
  /\ mgmtQ' = Tail(mgmtQ)
  /\ UNCHANGED <<now, policyState, upgrades>>

SettingsRejected ==
  /\ mgmtQ # <<>>
  /\ tick' = [tick EXCEPT ![Head(mgmtQ)].pc = "failed"]
  /\ mgmtQ' = Tail(mgmtQ)
  /\ UNCHANGED <<now, policyState, controllers, upgrades>>

\* The end of rescue_tick.
RescueReply(p) ==
  /\ \/ /\ tick[p].pc = "done"
        /\ triggered' = (tick[p].want = "both")
        /\ lastCheck' = tick[p].at
     \/ /\ tick[p].pc = "failed"
        /\ UNCHANGED <<triggered, lastCheck>>
  /\ tick' = [tick EXCEPT ![p] = Free]
  /\ UNCHANGED <<now, armed, armedSince, lastXfer, forced, controllers, mgmtQ,
                 upgrades>>

\* apply_upgrade_args_to_state on a stopped canister: arm is "keep", or the
\* value of autonomous_rescue_armed; clear is clear_forced_rescue.
ApplyUpgradeArgs(arm, clear) ==
  LET on == IF arm = "keep" THEN armed ELSE arm = "arm"
  IN  /\ armed' = on
      /\ forced' = (forced /\ ~clear)
      /\ armedSince' = CASE clear        -> IF on THEN now ELSE 0
                         [] arm = "keep" -> armedSince
                         [] OTHER        -> IF on THEN now ELSE 0
      /\ triggered' = CASE clear            -> on
                        [] arm = "disarm"   -> FALSE
                        [] OTHER            -> triggered

Upgrade ==
  /\ upgrades < MaxUpgrades
  /\ \A p \in RTick : tick[p].pc = "idle"
  /\ \E arm \in {"keep", "arm", "disarm"}, clear \in BOOLEAN :
       ApplyUpgradeArgs(arm, clear)
  /\ upgrades' = upgrades + 1
  /\ UNCHANGED <<now, lastXfer, lastCheck, controllers, tick, mgmtQ>>

Next ==
  \/ Advance \/ TransferSucceeds \/ SettingsApplied \/ SettingsRejected
  \/ Upgrade
  \/ \E p \in RTick : RescueStart(p) \/ RescueReply(p)

Spec == Init /\ [][Next]_vars

\* Timers keep firing and are answered, and update_settings does not fail
\* forever: the canister stays a controller of itself.
Fairness ==
  /\ WF_vars(Advance)
  /\ WF_vars(\E p \in RTick : RescueReply(p))
  /\ WF_vars(SettingsApplied \/ SettingsRejected) /\ SF_vars(SettingsApplied)
  /\ \A p \in RTick : SF_vars(RescueStart(p) /\ tick' # tick)

FairSpec == Spec /\ Fairness

-----------------------------------------------------------------------------
IsBroken == forced \/ BootstrapDue \/ (lastXfer # 0 /\ now - lastXfer > Broken)
IsHealthy == ~forced /\ lastXfer # 0 /\ now - lastXfer <= Healthy

\* An armed disburser whose payouts stopped, or never worked, hands control
\* to the rescue controller, whatever ticks overlap or fail, unless payouts
\* resume or an upgrade intervenes.
BrokenEscalates == armed /\ IsBroken ~> controllers = "both" \/ ~IsBroken \/ ~armed

\* An armed disburser whose payouts work ends with itself as the only
\* controller, also after a recovery.
HealthyNarrows ==
  armed /\ IsHealthy ~> controllers = "self" \/ ~IsHealthy \/ ~armed

NarrowingPending == armed /\ triggered /\ ~forced /\ lastXfer = 0

\* Narrowing requested by clear_forced_rescue before any payout succeeded is
\* retried until it succeeds, however often update_settings fails.
ClearedNarrows ==
  NarrowingPending ~> controllers = "self" \/ ~NarrowingPending

\* However rescue ticks, failed update_settings calls, transfers and upgrades
\* overlap, the controllers converge to what the policy asks for.
ControllersConverge == BrokenEscalates /\ HealthyNarrows /\ ClearedNarrows

\* README: "A later healthy transfer narrows the canister back to self-only
\* control."  Every reconciliation of an armed canister that begins within
\* the healthy window after a transfer asks for self-only control.
HealthyTransferNarrows ==
  [][\A p \in RTick :
       /\ armed /\ lastXfer # 0 /\ now - lastXfer <= Healthy
       /\ tick[p].pc = "idle" /\ tick'[p].pc = "sent"
       => tick'[p].want = "self"]_vars
=============================================================================

--------------------------- MODULE PokeCoalescer ---------------------------
(***************************************************************************)
(* Admission of Event Horizon hints in the disburser (canisters/disburser/  *)
(* src/scheduler/poke.rs): a hint attempts the staging worker at once when  *)
(* the last attempt is Interval old, and always leaves a trailing attempt   *)
(* due Interval after the newest hint, on one shared deferred timer.        *)
(*                                                                         *)
(* Timers may fire arbitrarily late.  An attempt runs the worker of module  *)
(* Disburser (PokeStart), which the main lease may still refuse; only the   *)
(* admission is modelled here; module DisburserTimers adds the lease.  The  *)
(* state is heap-only: an upgrade resets it and drops the timers.           *)
(***************************************************************************)
EXTENDS PokeInterval

\* due_at_ns = None
NotDue == 0

VARIABLES now,
          due,       \* due_at_ns
          pending,   \* timer_pending
          allowed,   \* next_attempt_allowed_at_ns
          timers,    \* the deferred timers that are armed, as a count
          lastHint,  \* history: the newest hint, the newest attempt, and
          lastTry,   \* when a trailing attempt was last refused, 0 for never
          refused

runtime == <<due, pending, allowed>>
vars == <<now, runtime, timers, lastHint, lastTry, refused>>

Init ==
  /\ now = 1
  /\ due = NotDue /\ pending = FALSE /\ allowed = 0
  /\ timers = 0
  /\ lastHint = 0 /\ lastTry = 0 /\ refused = 0

-----------------------------------------------------------------------------
\* admit_attempt, and the worker run it guards.
AdmitAttempt ==
  IF allowed > now THEN allowed' = allowed /\ lastTry' = lastTry
                   ELSE allowed' = now + Interval /\ lastTry' = now

\* Mutant: a hint during the window does not move the deadline.
DueAfterHintFixed == IF pending THEN due ELSE now + Interval

\* record_hint: every hint moves the deadline.
DueAfterHint == now + Interval

\* handle_event_horizon_poke
Hint ==
  /\ now <= MaxHintTime
  /\ due' = DueAfterHint
  /\ pending' = TRUE
  /\ timers' = IF pending THEN timers ELSE timers + 1
  /\ lastHint' = now
  /\ AdmitAttempt
  /\ UNCHANGED <<now, refused>>

\* Mutant: the deferred timer leaves timer_pending set.
PendingAfterFireStuck == pending

\* timer_pending after the deferred timer ran out.
PendingAfterFire == FALSE

\* deferred_timer_action and schedule_deferred: the timer is armed again for
\* the rest of the wait, or it is used up, with an attempt if one was due.
DeferredTimer ==
  /\ timers > 0
  /\ IF due > now
     THEN UNCHANGED <<runtime, timers, lastTry, refused>>
     ELSE /\ due' = NotDue /\ pending' = PendingAfterFire
          /\ timers' = timers - 1
          /\ IF due = NotDue
             THEN UNCHANGED <<allowed, lastTry, refused>>
             ELSE /\ AdmitAttempt
                  /\ refused' = (IF allowed > now THEN now ELSE refused)
  /\ UNCHANGED <<now, lastHint>>

Tick == /\ now < MaxHintTime + 2 * Interval
        /\ now' = now + 1
        /\ UNCHANGED <<runtime, timers, lastHint, lastTry, refused>>

\* A new instance of the module: thread-locals at their defaults, no timers.
Upgrade ==
  /\ due' = NotDue /\ pending' = FALSE /\ allowed' = 0 /\ timers' = 0
  /\ lastHint' = 0 /\ lastTry' = 0 /\ refused' = 0
  /\ UNCHANGED now

Next == Hint \/ DeferredTimer \/ Tick \/ Upgrade

Spec == Init /\ [][Next]_vars

\* Time passes and armed timers fire, some time after they are due.
Fairness == WF_vars(Tick) /\ WF_vars(due <= now /\ DeferredTimer)

-----------------------------------------------------------------------------
\* The runtime state, the timers and the history variables keep their types.
TypeOK ==
  /\ now \in Nat /\ due \in Nat /\ pending \in BOOLEAN /\ allowed \in Nat
  /\ timers \in Nat /\ lastHint \in Nat /\ lastTry \in Nat
  /\ refused \in Nat

\* However hints, late timers and attempts interleave, the trailing attempt
\* passes admit_attempt when its deadline is found reached: the immediate
\* attempts of later hints never close the gate on it.
TrailingAdmitted == refused = 0

\* timer_pending is set exactly while one deferred timer is armed: hints never
\* arm a second one and never find themselves without one.
OneTimer == timers = (IF pending THEN 1 ELSE 0)

\* A stream of hints, each of which postpones the trailing attempt, cannot
\* starve the worker: a hint not attempted since came within Interval of the
\* last attempt.
NoStarvation == lastHint > lastTry => lastHint < lastTry + Interval

\* Attempts are at least Interval apart.
AttemptsSpaced ==
  [][lastTry' \in {0, lastTry} \/ lastTry = 0 \/ lastTry' >= lastTry + Interval]_vars

\* After the newest hint there is always an attempt, unless an upgrade drops
\* the timers.
HintServed == lastHint > lastTry ~> lastHint <= lastTry

-----------------------------------------------------------------------------
\* A hint is waiting exactly while the timer is armed, and its deadline does
\* not precede the gate.
Waiting ==
  /\ pending <=> due # NotDue
  /\ due # NotDue => due = lastHint + Interval /\ due >= allowed
  /\ lastHint <= now /\ lastTry <= now /\ now > 0
  /\ allowed = (IF lastTry = 0 THEN 0 ELSE lastTry + Interval)
  /\ lastHint > lastTry => due # NotDue

IInv == TypeOK /\ OneTimer /\ Waiting /\ TrailingAdmitted /\ NoStarvation
=============================================================================

------------------------------ MODULE MainRetry ------------------------------
(***************************************************************************)
(* The one-shot retry of a refused scheduled main tick (canisters/disburser/ *)
(* src/scheduler/tick.rs, MAIN_RUN_MARKER and SCHEDULED_MAIN_RETRY_PENDING;  *)
(* the faucet's tick.rs keeps the same two cells).  A tick refused by the    *)
(* lease or the cadence reserves the current marker and arms a timer; the    *)
(* admission and the completion of a main run move the marker and so retire  *)
(* the reservations made before.                                            *)
(*                                                                         *)
(* Times are abstracted: a timer may fire at any moment, the lease of a run  *)
(* may expire at any moment, and early says that the cadence refuses a tick. *)
(* A run that lost its lease changes nothing here (module Disburser,         *)
(* IsCurrent), so only the lease holder is kept.                            *)
(***************************************************************************)
EXTENDS RetryBounds

VARIABLES marker,   \* MAIN_RUN_MARKER
          pending,  \* SCHEDULED_MAIN_RETRY_PENDING
          timers,   \* armed retry timers, by the reservation they carry
          holder,   \* the lease: "free", "main" or "poke"
          early,    \* last_main_run_ts is less than the cadence ago
          armed,    \* the forced tick armed by post_upgrade
          ticks,
          waiting   \* history: a tick was refused, and no main run was
                    \* admitted or completed since

markerVars == <<marker, pending, timers, holder, early, armed, ticks, waiting>>

Markers == 0 .. MaxMarker

NoTimers == [m \in Markers |-> 0]

MarkerInit ==
  /\ marker = 0 /\ pending = NoRetry /\ timers = NoTimers
  /\ holder = "free" /\ early = FALSE /\ armed = FALSE
  /\ ticks = 0 /\ waiting = FALSE

-----------------------------------------------------------------------------
\* advance_main_run_marker: older reservations are retired.
AdvanceMarker == marker' = marker + 1 /\ pending' = NoRetry /\ waiting' = FALSE

\* reserve_scheduled_main_retry and the timer it schedules; before are the
\* timers before it.
Reserve(before) ==
  /\ pending' = marker
  /\ timers' = IF pending = marker THEN before
               ELSE [before EXCEPT ![marker] = @ + 1]

Refused == holder # "free" \/ early

\* run_main_tick_with_clients, admitted.
Admit ==
  /\ holder = "free" /\ marker + 1 < MaxMarker
  /\ holder' = "main"
  /\ AdvanceMarker

\* run_scheduled_main_tick by the interval timer.
IntervalTick ==
  /\ ticks < MaxTicks /\ ticks' = ticks + 1
  /\ \/ /\ Refused
        /\ Reserve(timers)
        /\ waiting' = TRUE
        /\ UNCHANGED <<marker, holder>>
     \/ ~Refused /\ Admit /\ UNCHANGED timers
  /\ UNCHANGED <<early, armed>>

\* The callback owns the reservation it carries, and no run came since.
Owns(r) == pending = r /\ marker = r

\* Mutant: a refused retry leaves its own reservation in place.
RetryRefusedStuck(r) ==
  /\ pending' = pending
  /\ timers' = [timers EXCEPT ![r] = @ - 1]

\* A retry that is refused again: it gave its reservation up before running,
\* so that the marker can be reserved anew.
RetryRefused(r) ==
  /\ pending' = marker
  /\ timers' = [timers EXCEPT ![r] = @ - 1, ![marker] = @ + 1]

\* run_scheduled_main_retry.
RetryTick(r) ==
  /\ timers[r] > 0
  /\ \/ /\ Owns(r) /\ Refused
        /\ RetryRefused(r)
        /\ waiting' = TRUE
        /\ UNCHANGED <<marker, holder>>
     \/ /\ Owns(r) /\ ~Refused
        /\ Admit
        /\ timers' = [timers EXCEPT ![r] = @ - 1]
     \/ /\ ~Owns(r)
        /\ timers' = [timers EXCEPT ![r] = @ - 1]
        /\ pending' = IF pending = r THEN NoRetry ELSE pending
        /\ UNCHANGED <<marker, holder, waiting>>
  /\ UNCHANGED <<early, armed, ticks>>

\* main_tick(true) of the resume timer: no cadence test, and no retry.
ResumeTick ==
  /\ armed /\ armed' = FALSE
  /\ \/ Admit
     \/ holder # "free" /\ UNCHANGED <<marker, pending, holder, waiting>>
  /\ UNCHANGED <<timers, early, ticks>>

\* run_poke_with_clients takes the lease for an admitted attempt.
PokeTakes ==
  /\ holder = "free" /\ holder' = "poke"
  /\ UNCHANGED <<marker, pending, timers, early, armed, ticks, waiting>>

PokeEnd ==
  /\ holder = "poke" /\ holder' = "free"
  /\ UNCHANGED <<marker, pending, timers, early, armed, ticks, waiting>>

\* MainGuard::finish by the lease holder.
MainFinish ==
  /\ holder = "main" /\ holder' = "free"
  /\ AdvanceMarker
  /\ early' = TRUE
  /\ UNCHANGED <<timers, armed, ticks>>

\* The lease runs out during a call of its holder.
LeaseExpires ==
  /\ holder # "free" /\ holder' = "free"
  /\ UNCHANGED <<marker, pending, timers, early, armed, ticks, waiting>>

CadenceElapses ==
  /\ early /\ early' = FALSE
  /\ UNCHANGED <<marker, pending, timers, holder, armed, ticks, waiting>>

\* A new instance on a stopped canister: both cells at their defaults, no timers, no lease; the
\* resume timer is armed if a payout plan is stored.
HeapReset ==
  /\ marker' = 0 /\ pending' = NoRetry /\ timers' = NoTimers
  /\ holder' = "free" /\ armed' \in BOOLEAN /\ waiting' = FALSE
  /\ UNCHANGED <<early, ticks>>

MarkerNext ==
  \/ IntervalTick \/ ResumeTick \/ PokeTakes \/ PokeEnd \/ MainFinish
  \/ LeaseExpires \/ CadenceElapses \/ HeapReset
  \/ \E r \in Markers : RetryTick(r)

MarkerSpec == MarkerInit /\ [][MarkerNext]_markerVars

\* Armed timers fire, runs end or lose their lease, time passes.  The interval
\* timer is not assumed to fire again.
MarkerFairness ==
  /\ \A r \in Markers : WF_markerVars(RetryTick(r))
  /\ WF_markerVars(PokeEnd \/ MainFinish \/ LeaseExpires)
  /\ WF_markerVars(CadenceElapses)

-----------------------------------------------------------------------------
\* Both cells, the timers and the bounded counters keep their types.
MarkerTypeOK ==
  /\ marker \in Markers /\ pending \in Markers \cup {NoRetry}
  /\ timers \in [Markers -> Nat]
  /\ holder \in {"free", "main", "poke"}
  /\ early \in BOOLEAN /\ armed \in BOOLEAN /\ waiting \in BOOLEAN
  /\ ticks \in 0 .. MaxTicks

\* At most one armed timer carries the current marker, so at most one retry
\* can start a run; the others are stale.
OneLiveRetry == timers[marker] <= 1

\* A refused tick that no main run has made up for has its retry armed and
\* reserved: no order of refusals, retries, pokes and expiries loses it.
RefusedHasRetry == waiting => pending = marker /\ timers[marker] = 1

\* A refused scheduled tick is followed by a main run, admitted or completed,
\* without waiting for the interval timer.
RefusedTickRuns == waiting ~> ~waiting

-----------------------------------------------------------------------------
\* The reservation is the current marker's, and is held by one timer.
Reserved ==
  /\ pending \in {marker, NoRetry}
  /\ timers[marker] = (IF pending = marker THEN 1 ELSE 0)
  /\ \A m \in Markers : m > marker => timers[m] = 0
  /\ waiting => pending = marker
  /\ holder = "main" => marker < MaxMarker

MarkerInv == MarkerTypeOK /\ Reserved
=============================================================================

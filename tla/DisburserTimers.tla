-------------------------- MODULE DisburserTimers --------------------------
(***************************************************************************)
(* The disburser's two ways into its lease, together: the scheduled main    *)
(* tick with its one-shot retry (module MainRetry) and the staging worker   *)
(* that hints start (module PokeCoalescer).  An attempt the admission gate  *)
(* lets through takes the main lease when it is free, and a tick that comes *)
(* meanwhile is refused; both sets of cells are heap-only, so an upgrade    *)
(* resets them in one step.                                                 *)
(***************************************************************************)
EXTENDS MainRetry, PokeInterval

VARIABLES clock, due, hintPending, allowed, hintTimers, lastHint, lastTry, refused

hintVars == <<clock, due, hintPending, allowed, hintTimers, lastHint, lastTry,
              refused>>

Hints == INSTANCE PokeCoalescer WITH now <- clock, pending <- hintPending,
                                     timers <- hintTimers

TimersInit == MarkerInit /\ Hints!Init

\* run_poke_with_clients: without the lease the worker returns at once, and
\* nothing is retried.
Worker == PokeTakes \/ (holder # "free" /\ UNCHANGED markerVars)

\* A hint or the deferred timer, with the attempt it is admitted to.
HintStep(A) ==
  /\ A
  /\ IF lastTry' # lastTry THEN Worker ELSE UNCHANGED markerVars

HintTick == Hints!Tick /\ UNCHANGED markerVars

\* The scheduled side moves, and the hints wait.
MainStep ==
  /\ \/ IntervalTick \/ ResumeTick \/ PokeEnd \/ MainFinish
     \/ LeaseExpires \/ CadenceElapses
     \/ \E r \in Markers : RetryTick(r)
  /\ UNCHANGED hintVars

TimersNext ==
  \/ HintStep(Hints!Hint) \/ HintStep(Hints!DeferredTimer) \/ HintTick
  \/ MainStep
  \/ HeapReset /\ Hints!Upgrade

TimersSpec ==
  /\ TimersInit /\ [][TimersNext]_<<markerVars, hintVars>>
  /\ MarkerFairness /\ Hints!Fairness

-----------------------------------------------------------------------------
\* However hints, late timers, attempts and main runs interleave, the trailing
\* attempt passes admit_attempt when its deadline is found reached.
TrailingAdmitted == Hints!TrailingAdmitted

\* After the newest hint there is always an attempt, unless an upgrade drops
\* the timers, also while main runs hold the lease.
HintServed == Hints!HintServed
=============================================================================

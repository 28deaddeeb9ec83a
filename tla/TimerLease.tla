----------------------------- MODULE TimerLease -----------------------------
(***************************************************************************)
(* crates/ic-clients/src/timer_guard.rs: the expiring lease every timer-    *)
(* driven job of the suite runs under.  A lease is identified by the second *)
(* at which it expires; the canister state holds the expiry of the newest   *)
(* holder, or 0 when the lease was given back.                              *)
(***************************************************************************)
EXTENDS Naturals

\* The lock word of a lease nobody holds.
Unlocked == 0

\* Mutant: a lease is taken over one second before it expires.
CanAcquireEarly(lock, t) == lock <= t + 1

\* TimerLeaseGuard::acquire succeeds unless an unexpired lease is recorded.
CanAcquire(lock, t) == lock <= t

\* The expiry, and so the identity, of a lease taken at t.
LeaseExpiry(t, lease) == t + lease

\* TimerLeaseGuard::release gives back its own lease and nobody else's.
Released(lock, expiry) == IF lock = expiry THEN Unlocked ELSE lock
=============================================================================

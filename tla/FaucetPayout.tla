---------------------------- MODULE FaucetPayout ----------------------------
(***************************************************************************)
(* The payout of one funding tranche by the faucet canister (canisters/     *)
(* faucet/src/scheduler: route_accounting.rs, cmc_notify.rs and             *)
(* cmc_notify_transfer.rs), with the ICP ledger and the cycles minting      *)
(* canister (CMC) it calls.                                                 *)
(*                                                                         *)
(* A job divides a tranche among the commitments of the staking history in  *)
(* proportion to their weights.  Each commitment is paid by one transfer    *)
(* whose identity is persisted before it is sent; a cycles top-up that the  *)
(* ledger rejects or the CMC refunds is paid as raw ICP instead.            *)
(*                                                                         *)
(* A process is one activation of the main tick or of the poke worker.  The *)
(* code between two awaits is one action; act[p].pc names the awaited call. *)
(* Any call may fail without telling whether it was executed, a request may *)
(* be executed after its caller gave up on it, and a callback may trap.     *)
(*                                                                         *)
(* The history is the part at or before the tranche, newest first: later    *)
(* records are passed over by both scans.  Awaits that read values which    *)
(* cannot change here (the fee, the staking balance, canister status) and   *)
(* the pages of the funding scan are merged with their neighbours.          *)
(***************************************************************************)
EXTENDS TimerLease, Integers, Sequences, FiniteSetsExt, Functions

CONSTANTS Proc,         \* activations that may be in flight together
          Rounds,       \* the histories and ledgers a run starts from
          PageSize,     \* records per Index page
          Fee,          \* the ledger fee, captured by the job
          Pot,          \* e8s of a funding tranche
          Stride,       \* nanoseconds of one clock step
          Lease,        \* MAIN_TICK_LEASE_SECONDS
          MaxAge,       \* LEDGER_CREATED_AT_MAX_AGE_NANOS
          Skew,         \* LEDGER_CREATED_AT_MAX_FUTURE_SKEW_NANOS
          NoJob, NoPending, NoDispatch   \* None

ASSUME RoundAssumption ==
  /\ PageSize \in Nat \ {0}
  /\ \A r \in Rounds :
       /\ r.kind \in Seq({"topup", "raw", "stake"})
       /\ r.weight \in [1 .. Len(r.kind) -> Nat]
       /\ r.dust \in Nat /\ r.tranches \in Nat /\ r.end \in Nat

ASSUME AmountAssumption ==
  /\ Fee \in Nat \ {0} /\ Pot \in Nat /\ Pot > Fee

ASSUME TimeAssumption ==
  /\ Stride \in Nat \ {0} /\ Lease \in Nat \ {0}
  /\ MaxAge \in Nat /\ Skew \in Nat

\* A clock step has a nanosecond for each transfer of a job, and so has the
\* ledger's tolerance: a commitment is paid by two of them at most.
ASSUME PaceAssumption ==
  \A r \in Rounds : 2 * Len(r.kind) < Stride /\ 2 * Len(r.kind) <= Skew

VARIABLES
  now,       \* nanoseconds
  lastStart, \* when the last activation began
  st,        \* the canister state: lease, nonce, funding cursor, job, dispatch
  act,       \* the activations
  funded,    \* the ledger: tranches received,
  balance,   \* payout account,
  blocks,    \* executed transfers,
  late,      \* requests given up by their caller and still on their way
  minted, refunded, rejected,  \* the CMC: what became of notified blocks
  closed,    \* history: the jobs finalised so far
  round      \* the element of Rounds this behaviour started from

ledger == <<funded, balance, blocks>>
cmc    == <<minted, refunded, rejected>>
vars   == <<now, lastStart, st, act, ledger, late, cmc, closed, round>>

\* The pinned history: what each commitment's memo asks for, all for one
\* beneficiary, and its weighted amount.
NItems == Len(round.kind)
Items == 1 .. NItems
Kind == round.kind
Weight == round.weight

\* e8s in the payout account that no tranche brought, and the bounds: tranches
\* that arrive, and where the clock stops.
Dust == round.dust
MaxTranches == round.tranches
MaxTime == round.end

-----------------------------------------------------------------------------
(* The canister state and the activations.                                  *)

\* ActivePayoutJob::new.  The counters of paid, failed and ambiguous payouts
\* are kept as the outcome of each commitment.
NewJob(id, tranche, start) ==
  [id |-> id, tranche |-> tranche, pot |-> Pot, gross |-> 0,
   denom |-> 0, denomDone |-> FALSE, next |-> 0, scanned |-> FALSE,
   cat |-> start, pending |-> NoPending, remSent |-> FALSE,
   outcome |-> [i \in Items |-> "none"]]

Idle == [pc |-> "idle", start |-> 0, expiry |-> 0,
         job |-> 0,            \* id of the job it works on
         mode |-> "top",       \* where the transfer driver returns to
         cursor |-> 0,         \* last_persisted_cursor
         pos |-> 0, end |-> 0, \* position in the page and its last record
         pend |-> NoPending,   \* the pending transfer it expects
         attempt |-> 0, prior |-> FALSE, terminal |-> FALSE,
         got |-> FALSE, verdict |-> "none",
         bal |-> 0, processed |-> 0, nonce |-> 0]

\* The local state of activation a with nothing but its lease.
At(a, pc) == [Idle EXCEPT !.pc = pc, !.start = a.start, !.expiry = a.expiry]

\* MainLeaseToken::is_current: the token is compared, not the clock.
Current(p) == st.lock = act[p].expiry

Init ==
  /\ round \in Rounds
  /\ now = Stride /\ lastStart = 0
  /\ st = [lock |-> Unlocked, nonce |-> 1, processed |-> 0, job |-> NoJob,
           dispatch |-> NoDispatch, forced |-> "none"]
  /\ act = [p \in Proc |-> Idle]
  /\ funded = 0 /\ balance = round.dust /\ blocks = {} /\ late = {}
  /\ minted = {} /\ refunded = {} /\ rejected = {}
  /\ closed = <<>>

-----------------------------------------------------------------------------
(* Transfers as the ledger sees them.                                       *)

\* The owner of the destination account class, by deposit_account_for_pending.
Account(kind) ==
  CASE kind = "topup" -> "cmc"
    [] kind \in {"raw", "fallback"} -> "account"
    [] kind = "stake" -> "neuron"
    [] kind = "remainder" -> "relay"

Tx(id, pend) == [job |-> id, item |-> pend.item, kind |-> pend.kind,
                 amt |-> pend.share - Fee, cat |-> pend.cat]

\* What deduplication compares: no job, no commitment.
Key(tx) == <<Account(tx.kind), tx.amt, tx.cat>>

Executed(tx) == \E b \in blocks : Key(b) = Key(tx)

\* created_at_time_is_valid_for_ledger
CreatedAtValid(cat, n) == n - cat <= MaxAge /\ cat <= n + Skew

CanExecute(tx) ==
  ~Executed(tx) /\ CreatedAtValid(tx.cat, now) /\ balance >= tx.amt + Fee

\* Replies of icrc1_transfer as transfer_once sorts them; "refused" stands for
\* every typed error but Duplicate and TemporarilyUnavailable.
VerdictsFor(tx) ==
  {"refused", "unavailable"} \cup
  (IF CanExecute(tx) \/ (Executed(tx) /\ CreatedAtValid(tx.cat, now))
   THEN {"accepted", "unusable"} ELSE {})

\* e8s a proven refund returns: the CMC keeps its own transfer fee and twice
\* the fee for the attempt.
Credit(amt) == amt - 3 * Fee

-----------------------------------------------------------------------------
(* State updates.  s is the canister state, s.job the active job.           *)

\* Mutant: a rejected dispatch is trusted although an earlier one is unknown.
MayHaveDispatchedNever(s) == FALSE

\* pending_transfer_may_have_dispatched: no matching record counts as yes.
MayHaveDispatched(s) ==
  \/ s.dispatch = NoDispatch
  \/ s.dispatch.job # s.job.id
  \/ s.dispatch.pending # s.job.pending
  \/ s.dispatch.started

SetDispatch(s, started) ==
  [s EXCEPT !.dispatch = [job |-> s.job.id, pending |-> s.job.pending,
                          started |-> started]]

\* allocate_created_at_time_nanos
AllocatedAt(j, n) == IF CreatedAtValid(j.cat, n) THEN j.cat ELSE n

\* fresh_transition_created_at_time
FreshAt(j, n, previous) ==
  IF AllocatedAt(j, n) = previous THEN previous + 1 ELSE AllocatedAt(j, n)

NextAt(cat) == cat + 1

\* stage_pending_transfer: the identity is stored, marked as not dispatched.
Stage(s, kind, item, share, cat) ==
  SetDispatch([s EXCEPT
    !.job.cat = NextAt(cat),
    !.job.pending = [kind |-> kind, item |-> item, share |-> share,
                     cat |-> cat, phase |-> "awaiting"]], FALSE)

\* The payout of commitment item has ended; the remainder is not counted.
Count(j, item, status) ==
  IF item = 0 THEN j.outcome ELSE [j.outcome EXCEPT ![item] = status]

\* clear_pending_transfer and record_completed_transfer
Cleared(s, status) ==
  [s EXCEPT !.job.outcome = Count(s.job, s.job.pending.item, status),
            !.job.remSent = @ \/ (s.job.pending.item = 0 /\ status = "paid"),
            !.job.pending = NoPending, !.dispatch = NoDispatch]

\* mark_pending_transfer_accepted
Accepted(s) == [s EXCEPT !.job.gross = @ + s.job.pending.share,
                         !.job.pending.phase = "accepted"]

\* latch_forced_rescue_reason: the first reason stays.
Latch(s, reason) ==
  [s EXCEPT !.forced = IF @ = "none" THEN reason ELSE @]

GrossFits(s) == s.job.gross + s.job.pending.share <= s.job.pot

\* Mutant: an unresolved transfer is dropped without reserving its share.
ReservedNothing(s) == Cleared(s, "ambiguous")

\* The share of a transfer that may have been executed is booked as spent.
Reserved(s) ==
  Cleared([s EXCEPT !.job.gross = @ + s.job.pending.share], "ambiguous")

-----------------------------------------------------------------------------
(* Ends of an activation, and the calls it goes on to await.  a is the local *)
(* state of activation p, s the canister state the code has reached.         *)

\* The guard is dropped or finished: the lease is given back.
Finish(p, a, s) ==
  /\ st' = [s EXCEPT !.lock = Released(@, a.expiry)]
  /\ act' = [act EXCEPT ![p] = Idle]

\* process_payout returned true: health reads and the rescue of a main tick
\* may follow under the lease; they do not touch the job.
Return(p, a, s) ==
  \/ Finish(p, a, s)
  \/ s.lock = a.expiry /\ st' = s /\ act' = [act EXCEPT ![p] = At(a, "tail")]

Wait(p, a, s) ==
  /\ st' = s
  /\ act' = [act EXCEPT ![p] = [a EXCEPT !.job = s.job.id, !.got = FALSE,
                                         !.verdict = "none"]]

\* Each identity is sent twice at most, and so is each notification.
NextAttempt(n) == n + 1

\* One attempt of transfer_identity_with_one_retry: the dispatch record is
\* set in the message that sends the request.
Send(p, a, s, attempt) ==
  Wait(p, [a EXCEPT !.pc = "transfer", !.pend = s.job.pending,
                    !.attempt = attempt, !.prior = MayHaveDispatched(s),
                    !.terminal = FALSE],
       SetDispatch(s, TRUE))

Notify(p, a, s, attempt, terminal) ==
  Wait(p, [a EXCEPT !.pc = "notify", !.pend = s.job.pending,
                    !.attempt = attempt, !.prior = FALSE,
                    !.terminal = terminal], s)

\* finalize_completed_job, up to its await.
Finalize(p, a, s) == Wait(p, At(a, "status"), s)

Remainder(j) == j.pot - j.gross

\* The main loop for a job without a pending transfer.
Loop(p, a, s) ==
  LET j == s.job
      remainderDue == Remainder(j) > Fee /\ ~j.remSent
  IN
  \/ /\ ~j.scanned
     /\ Wait(p, [At(a, "index") EXCEPT !.cursor = j.next,
                   !.mode = IF j.denomDone THEN "page" ELSE "denom"], s)
  \/ /\ j.scanned /\ remainderDue
     /\ Send(p, [At(a, "transfer") EXCEPT !.mode = "remainder"],
             Stage(s, "remainder", 0, Remainder(j), AllocatedAt(j, a.start)), 1)
  \/ j.scanned /\ ~remainderDue /\ Finalize(p, a, s)

\* compute_raw_share_e8s
Share(j, i) == IF j.denom = 0 THEN 0 ELSE (Weight[i] * j.pot) \div j.denom

\* Mutant: the page's end is persisted before its payouts are made.
CursorAtEnd(a, i) == a.end

\* Mutant: the cursor is not persisted before the transfer is staged.
CursorBefore(a, i) == a.cursor

\* The cursor persisted before the transfer of record i is staged.
CursorAt(a, i) == i

\* flush_scan_progress, then send_and_notify for record i of the page.
StageItem(p, a, s, i) ==
  Send(p, [a EXCEPT !.mode = "page", !.pos = i, !.cursor = CursorAt(a, i)],
       Stage([s EXCEPT !.job.next = CursorAt(a, i)], Kind[i], i,
             Share(s.job, i), AllocatedAt(s.job, a.start)), 1)

\* The rest of the page: records whose share does not exceed the fee are
\* passed over, the next one that does is paid.  At its end the cursor is
\* persisted, and the page budget may stop the activation.
NextItem(p, a, s) ==
  LET due  == {i \in a.pos + 1 .. a.end : Share(s.job, i) > Fee}
      i    == Min(due)
      fits == s.job.gross + Share(s.job, i) <= s.job.pot
      s1   == [s EXCEPT !.job.next = a.end, !.job.scanned = (a.end = NItems)]
  IN  \/ due = {} /\ Loop(p, a, s1)
      \/ due = {} /\ a.end # NItems /\ Return(p, a, s1)
      \/ /\ due # {} /\ ~fits
         /\ Return(p, a, Latch(s, "AccountingInvariantBroken"))
      \/ /\ due # {} /\ fits
         /\ IF Kind[i] = "stake"
            THEN Wait(p, [a EXCEPT !.pc = "subaccount", !.pos = i,
                             !.pend = NoPending, !.attempt = 0,
                             !.prior = FALSE, !.terminal = FALSE], s)
            ELSE StageItem(p, a, s, i)

\* drive_pending_transfer returned true.
Driven(p, a, s) ==
  CASE a.mode = "page" -> NextItem(p, a, s)
    [] a.mode = "remainder" -> Finalize(p, a, s)
    [] a.mode = "top" -> Loop(p, a, s)

\* The transfer is on the ledger: a top-up is notified, a stake refreshed, any
\* other transfer is complete.
Settle(p, a, s) ==
  CASE s.job.pending.kind = "topup" -> Notify(p, a, s, 1, FALSE)
    [] s.job.pending.kind = "stake" ->
         Wait(p, [a EXCEPT !.pc = "claim", !.pend = s.job.pending,
                           !.attempt = 0, !.prior = FALSE], s)
    [] OTHER -> Driven(p, a, Cleared(s, "paid"))

\* reserve_then_clear_ambiguous_awaiting_transfer and
\* record_accepted_transfer_with_unusable_block_index
Unresolved(p, a, s) ==
  IF GrossFits(s) THEN Driven(p, a, Reserved(s))
  ELSE Return(p, a, Latch(s, "AccountingInvariantBroken"))

\* The loop's first turn: a pending transfer left by an earlier activation is
\* driven on, or given up as ambiguous once its creation time has expired.
Resume(p, a, s) ==
  LET pend == s.job.pending IN
  CASE pend = NoPending -> Loop(p, a, s)
    [] pend # NoPending /\ pend.phase = "accepted" -> Settle(p, a, s)
    [] pend # NoPending /\ pend.phase = "awaiting" ->
         IF CreatedAtValid(pend.cat, a.start) THEN Send(p, a, s, 1)
         ELSE Unresolved(p, a, s)

\* The transfer was never made.  A top-up is paid as raw ICP instead, under a
\* fresh identity.
NotDebited(p, a, s) ==
  LET pend == s.job.pending
      cat  == FreshAt(s.job, a.start, pend.cat)
  IN  \/ /\ pend.kind = "topup" /\ CreatedAtValid(cat, a.start)
         /\ Send(p, a, Stage(s, "fallback", pend.item, pend.share, cat), 1)
      \/ /\ pend.kind = "topup" /\ ~CreatedAtValid(cat, a.start)
         /\ Driven(p, a, Cleared(Latch(s, "AccountingInvariantBroken"),
                                 "failed"))
      \/ pend.kind # "topup" /\ Driven(p, a, Cleared(s, "failed"))

\* transition_refunded_beneficiary_to_raw_fallback: the refund is available
\* again and, if it exceeds the fee, paid as raw ICP.
Refunded(p, a, s) ==
  LET pend   == s.job.pending
      credit == Credit(pend.share - Fee)
      cat    == FreshAt(s.job, a.start, pend.cat)
      s1     == [s EXCEPT !.job.gross = @ - credit]
      broken == \/ credit < 0 \/ s1.job.gross < 0
                \/ credit > Fee /\ ~CreatedAtValid(cat, a.start)
  IN  \/ broken /\ Driven(p, a, Cleared(Latch(s, "AccountingInvariantBroken"),
                                        "ambiguous"))
      \/ ~broken /\ credit <= Fee /\ Driven(p, a, Cleared(s1, "failed"))
      \/ /\ ~broken /\ credit > Fee
         /\ Send(p, a, Stage(s1, "fallback", pend.item, credit, cat), 1)

-----------------------------------------------------------------------------
(* Environment.                                                             *)

Tick == /\ now < MaxTime
        /\ now' = now + Stride
        /\ UNCHANGED <<lastStart, st, act, ledger, late, cmc, closed>>

\* The disburser pays a tranche into the payout account.
Fund == /\ funded < MaxTranches
        /\ funded' = funded + 1 /\ balance' = balance + Pot
        /\ UNCHANGED <<now, lastStart, st, act, blocks, late, cmc, closed>>

Execute(tx) == /\ blocks' = blocks \cup {tx}
               /\ balance' = balance - (tx.amt + Fee)
               /\ UNCHANGED funded

\* The ledger answers a transfer request.
ServeTransfer(p) ==
  /\ act[p].pc = "transfer" /\ ~act[p].got
  /\ LET tx == Tx(act[p].job, act[p].pend)
     IN  \E v \in VerdictsFor(tx) :
           /\ act' = [act EXCEPT ![p].got = TRUE, ![p].verdict = v]
           /\ IF v \in {"accepted", "unusable"} /\ ~Executed(tx)
              THEN Execute(tx) ELSE UNCHANGED ledger
  /\ UNCHANGED <<now, lastStart, st, late, cmc, closed>>

\* A request its caller has given up on is executed after all.
LateExecute ==
  /\ \E tx \in late : CanExecute(tx) /\ Execute(tx) /\ late' = late \ {tx}
  /\ UNCHANGED <<now, lastStart, st, act, cmc, closed>>

\* The CMC answers notify_top_up.  A block it has settled keeps its result;
\* only an amount above its fees is refunded.
ServeNotify(p) ==
  /\ act[p].pc = "notify" /\ ~act[p].got
  /\ \E b \in blocks : /\ Key(b) = Key(Tx(act[p].job, act[p].pend))
       /\ LET new == b \notin minted \cup refunded \cup rejected IN
          \E v \in {"minted", "refund", "terminal", "transient"} :
            /\ v = "minted" => new \/ b \in minted
            /\ v = "refund" => (new /\ Credit(b.amt) > 0) \/ b \in refunded
            /\ v = "terminal" => new \/ b \in rejected
            /\ act' = [act EXCEPT ![p].got = TRUE, ![p].verdict = v]
            /\ minted' = IF v = "minted" THEN minted \cup {b} ELSE minted
            /\ rejected' = IF v = "terminal" THEN rejected \cup {b}
                                              ELSE rejected
            /\ refunded' = IF v = "refund" THEN refunded \cup {b}
                                            ELSE refunded
            /\ balance' = IF v = "refund" /\ new
                          THEN balance + Credit(b.amt) ELSE balance
  /\ UNCHANGED <<now, lastStart, st, funded, blocks, late, closed>>

\* A transfer request whose reply p does not wait for any longer.
Abandoned(p) ==
  IF act[p].pc = "transfer" /\ ~act[p].got
  THEN late \cup {Tx(act[p].job, act[p].pend)} ELSE late

\* The callback traps: its changes are rolled back, those committed before
\* the await stay, and dropping the guard gives the lease back.
Trap(p) ==
  /\ act[p].pc # "idle"
  /\ Finish(p, act[p], st)
  /\ late' = Abandoned(p)
  /\ UNCHANGED <<now, lastStart, ledger, cmc, closed>>

-----------------------------------------------------------------------------
(* Activations begin and create the job.                                    *)

\* MainGuard::acquire by a main tick or a poke, and process_payout up to its
\* first await.  IC time advances between rounds and every activation awaits,
\* so two lease holders never begin at the same time; one clock step is long
\* enough for a nanosecond per transfer.
Start(p) ==
  LET s == [st EXCEPT !.lock = LeaseExpiry(now, Lease)]
      a == [Idle EXCEPT !.start = now, !.expiry = LeaseExpiry(now, Lease)]
  IN
  /\ act[p].pc = "idle" /\ CanAcquire(st.lock, now) /\ lastStart < now
  /\ lastStart' = now
  /\ \/ /\ st.job = NoJob
        /\ st' = s
        /\ act' = [act EXCEPT ![p] = [a EXCEPT !.pc = "balance"]]
     \/ st.job # NoJob /\ Resume(p, a, s)
  /\ UNCHANGED <<now, ledger, late, cmc, closed>>

\* The payout balance is read, together with the fee and the staking balance.
ReadBalance(p) ==
  /\ act[p].pc = "balance" /\ ~act[p].got
  /\ act' = [act EXCEPT ![p].got = TRUE, ![p].bal = balance]
  /\ UNCHANGED <<now, lastStart, st, ledger, late, cmc, closed>>

BalanceReply(p) ==
  /\ act[p].pc = "balance" /\ act[p].got
  /\ \/ (~Current(p) \/ act[p].bal <= Fee) /\ Return(p, act[p], st)
     \/ /\ Current(p) /\ act[p].bal > Fee
        /\ act' = [act EXCEPT ![p] = [At(act[p], "discover") EXCEPT
                      !.bal = act[p].bal, !.processed = st.processed,
                      !.nonce = st.nonce]]
        /\ UNCHANGED st
  /\ UNCHANGED <<now, lastStart, ledger, late, cmc, closed>>

\* Mutant: a job is created whatever happened since the cursor was read.
MayCreateAlways(p) == st.job = NoJob

\* The lease, the funding cursor and the nonce p captured still hold.
MayCreate(p) ==
  /\ Current(p) /\ st.job = NoJob
  /\ st.processed = act[p].processed /\ st.nonce = act[p].nonce

\* ensure_active_job_with_boundary, and the first turn of the loop.
CreateJob(p) ==
  Loop(p, act[p],
       [st EXCEPT !.nonce = @ + 1,
          !.job = NewJob(st.nonce, act[p].processed + 1, act[p].start)])

\* discover_oldest_unprocessed_funding_tranche answers, or the Index has not
\* seen one yet.  A balance read too early for the tranche is read again.
DiscoverReply(p) ==
  /\ act[p].pc = "discover"
  /\ \/ Return(p, act[p], st)
     \/ /\ MayCreate(p) /\ funded > act[p].processed /\ act[p].bal >= Pot
        /\ CreateJob(p)
     \/ /\ MayCreate(p) /\ funded > act[p].processed /\ act[p].bal < Pot
        /\ act' = [act EXCEPT ![p].pc = "reread"]
        /\ UNCHANGED st
  /\ UNCHANGED <<now, lastStart, ledger, late, cmc, closed>>

RereadServe(p) ==
  /\ act[p].pc = "reread" /\ ~act[p].got
  /\ act' = [act EXCEPT ![p].got = TRUE, ![p].bal = balance]
  /\ UNCHANGED <<now, lastStart, st, ledger, late, cmc, closed>>

RereadReply(p) ==
  /\ act[p].pc = "reread" /\ act[p].got
  /\ \/ ~MayCreate(p) /\ Return(p, act[p], st)
     \/ /\ MayCreate(p) /\ act[p].bal < Pot
        /\ Return(p, act[p], Latch(st, "FundingTrancheBalanceMismatch"))
     \/ MayCreate(p) /\ act[p].bal >= Pot /\ CreateJob(p)
  /\ UNCHANGED <<now, lastStart, ledger, late, cmc, closed>>

\* A read failed: process_payout returns false.
ReadFailed(p) ==
  /\ act[p].pc \in {"balance", "discover", "reread", "index"}
  /\ Finish(p, act[p], st)
  /\ UNCHANGED <<now, lastStart, ledger, late, cmc, closed>>

-----------------------------------------------------------------------------
(* The two scans of the history.                                            *)

\* The job and the cursor for which the activation fetched its page.
OwnsPage(p) ==
  /\ Current(p) /\ st.job # NoJob
  /\ st.job.id = act[p].job /\ st.job.next = act[p].cursor /\ ~st.job.scanned

PageEnd(cursor) == IF cursor + PageSize <= NItems THEN cursor + PageSize
                   ELSE NItems

\* Mutant: each page starts the denominator afresh.
DenominatorLastPage(j, end) ==
  SumFunctionOnSet(Weight, j.next + 1 .. end)

\* The denominator with the weights of the page up to end added.
Denominator(j, end) ==
  j.denom + SumFunctionOnSet(Weight, j.next + 1 .. end)

\* A page of the denominator scan; after the last one the payout scan starts
\* again at the newest record.
DenomPage(p) ==
  LET end  == PageEnd(act[p].cursor)
      last == end = NItems
      s    == [st EXCEPT !.job.denom = Denominator(st.job, end),
                         !.job.denomDone = last,
                         !.job.next = IF last THEN 0 ELSE end]
  IN
  /\ act[p].pc = "index" /\ act[p].mode = "denom"
  /\ \/ ~(OwnsPage(p) /\ ~st.job.denomDone) /\ Return(p, act[p], st)
     \/ OwnsPage(p) /\ ~st.job.denomDone /\ Loop(p, act[p], s)
     \/ /\ OwnsPage(p) /\ ~st.job.denomDone /\ ~last
        /\ Return(p, act[p], s)
  /\ UNCHANGED <<now, lastStart, ledger, late, cmc, closed>>

\* A page of the payout scan.
PayoutPage(p) ==
  /\ act[p].pc = "index" /\ act[p].mode = "page"
  /\ \/ ~(OwnsPage(p) /\ st.job.denomDone) /\ Return(p, act[p], st)
     \/ /\ OwnsPage(p) /\ st.job.denomDone
        /\ NextItem(p, [act[p] EXCEPT !.pos = act[p].cursor,
                                      !.end = PageEnd(act[p].cursor)], st)
  /\ UNCHANGED <<now, lastStart, ledger, late, cmc, closed>>

\* neuron_staking_subaccount answered, or failed twice: the commitment is
\* counted as failed and the page goes on, its cursor not yet persisted.
SubaccountReply(p) ==
  LET failed == [st EXCEPT !.job.outcome = Count(st.job, act[p].pos, "failed")]
  IN
  /\ act[p].pc = "subaccount"
  /\ \/ ~OwnsPage(p) /\ Return(p, act[p], st)
     \/ OwnsPage(p) /\ NextItem(p, act[p], failed)
     \/ OwnsPage(p) /\ StageItem(p, act[p], st, act[p].pos)
  /\ UNCHANGED <<now, lastStart, ledger, late, cmc, closed>>

-----------------------------------------------------------------------------
(* Transfers.                                                               *)

\* pending_transfer_matches, under the lease.
Matches(p) ==
  /\ Current(p) /\ st.job # NoJob
  /\ st.job.id = act[p].job /\ st.job.pending = act[p].pend

\* A reply proves that this dispatch was not executed.
Rejected(p) ==
  LET s == IF act[p].prior THEN st ELSE SetDispatch(st, FALSE) IN
  \/ /\ act[p].verdict = "unavailable" /\ act[p].attempt = 1
     /\ Send(p, act[p], s, NextAttempt(1))
  \/ /\ act[p].verdict = "refused" \/ act[p].attempt = 2
     /\ IF act[p].prior THEN Unresolved(p, act[p], s)
        ELSE NotDebited(p, act[p], s)

\* icrc1_transfer answered.
TransferReply(p) ==
  /\ act[p].pc = "transfer" /\ act[p].got
  /\ \/ ~Matches(p) /\ Return(p, act[p], st)
     \/ /\ Matches(p) /\ act[p].verdict = "accepted"
        /\ Settle(p, [act[p] EXCEPT !.pend = Accepted(st).job.pending],
                  Accepted(st))
     \/ Matches(p) /\ act[p].verdict = "unusable" /\ Unresolved(p, act[p], st)
     \/ /\ Matches(p) /\ act[p].verdict \in {"unavailable", "refused"}
        /\ Rejected(p)
  /\ UNCHANGED <<now, lastStart, ledger, late, cmc, closed>>

\* The call failed: the transfer may have been executed, or may still be.
TransferUnknown(p) ==
  /\ act[p].pc = "transfer"
  /\ late' = Abandoned(p)
  /\ \/ ~Matches(p) /\ Return(p, act[p], st)
     \/ Matches(p) /\ act[p].attempt = 1 /\ Send(p, act[p], st, NextAttempt(1))
     \/ Matches(p) /\ act[p].attempt = 2 /\ Unresolved(p, act[p], st)
  /\ UNCHANGED <<now, lastStart, ledger, cmc, closed>>

\* claim_or_refresh_neuron answered or failed.
ClaimReply(p) ==
  /\ act[p].pc = "claim"
  /\ \/ ~Matches(p) /\ Return(p, act[p], st)
     \/ Matches(p) /\ Driven(p, act[p], Cleared(st, "paid"))
  /\ UNCHANGED <<now, lastStart, ledger, late, cmc, closed>>

\* notify_top_up answered v, or failed, which counts as transient.
Notified(p, v) ==
  \/ v = "minted" /\ Driven(p, act[p], Cleared(st, "paid"))
  \/ v = "refund" /\ Refunded(p, act[p], st)
  \/ /\ v \in {"terminal", "transient"} /\ act[p].attempt = 1
     /\ Notify(p, act[p], st, NextAttempt(1), v = "terminal")
  \/ /\ v \in {"terminal", "transient"} /\ act[p].attempt = 2
     /\ Driven(p, act[p],
               Cleared(st, IF v = "terminal" /\ act[p].terminal
                           THEN "failed" ELSE "ambiguous"))

NotifyReply(p) ==
  /\ act[p].pc = "notify"
  /\ \/ ~Matches(p) /\ Return(p, act[p], st)
     \/ Matches(p) /\ act[p].got /\ Notified(p, act[p].verdict)
     \/ Matches(p) /\ Notified(p, "transient")
  /\ UNCHANGED <<now, lastStart, ledger, late, cmc, closed>>

-----------------------------------------------------------------------------
(* The end of the job.                                                      *)

\* finalize_completed_job, after its await.
StatusReply(p) ==
  /\ act[p].pc = "status"
  /\ \/ /\ ~(Current(p) /\ st.job # NoJob /\ st.job.id = act[p].job)
        /\ Return(p, act[p], st) /\ UNCHANGED closed
     \/ /\ Current(p) /\ st.job # NoJob /\ st.job.id = act[p].job
        /\ Return(p, act[p], [st EXCEPT !.job = NoJob,
                                        !.processed = st.job.tranche])
        /\ closed' = Append(closed, st.job)
  /\ UNCHANGED <<now, lastStart, ledger, late, cmc>>

\* guard.finish
TailEnds(p) ==
  /\ act[p].pc = "tail"
  /\ Finish(p, act[p], st)
  /\ UNCHANGED <<now, lastStart, ledger, late, cmc, closed>>

Callback(p) ==
  \/ BalanceReply(p) \/ DiscoverReply(p) \/ RereadReply(p) \/ ReadFailed(p)
  \/ DenomPage(p) \/ PayoutPage(p) \/ SubaccountReply(p)
  \/ TransferReply(p) \/ TransferUnknown(p) \/ ClaimReply(p)
  \/ NotifyReply(p) \/ StatusReply(p) \/ TailEnds(p)

Next ==
  /\ \/ Tick \/ Fund \/ LateExecute
     \/ \E p \in Proc : \/ Start(p) \/ Callback(p) \/ Trap(p)
                        \/ ReadBalance(p) \/ RereadServe(p)
                        \/ ServeTransfer(p) \/ ServeNotify(p)
  /\ UNCHANGED round

Spec == Init /\ [][Next]_vars

-----------------------------------------------------------------------------
Kinds == {"topup", "raw", "stake", "fallback", "remainder"}
PendingsOf(n) == [kind : Kinds, item : 0 .. n, share : Nat, cat : Nat,
                  phase : {"awaiting", "accepted"}]
JobsOf(n) ==
  [id : Nat, tranche : Nat, pot : Nat, gross : Nat, denom : Nat,
   denomDone : BOOLEAN, next : 0 .. n, scanned : BOOLEAN,
   cat : Nat, pending : PendingsOf(n) \cup {NoPending}, remSent : BOOLEAN,
   outcome : [1 .. n -> {"none", "paid", "failed", "ambiguous"}]]
DispatchesOf(n) == [job : Nat, pending : PendingsOf(n), started : BOOLEAN]
Pendings == PendingsOf(NItems)
Jobs == JobsOf(NItems)
Dispatches == DispatchesOf(NItems)
Txs == [job : Nat, item : 0 .. NItems, kind : Kinds, amt : Nat, cat : Nat]

\* The values that stand for None are no jobs, transfers or records.
ASSUME NoneAssumption ==
  \A r \in Rounds : /\ NoJob \notin JobsOf(Len(r.kind))
                     /\ NoPending \notin PendingsOf(Len(r.kind))
                     /\ NoDispatch \notin DispatchesOf(Len(r.kind))

Pcs == {"idle", "balance", "discover", "reread", "index", "subaccount",
        "transfer", "claim", "notify", "status", "tail"}
Activations ==
  [pc : Pcs, start : Nat, expiry : Nat, job : Nat,
   mode : {"top", "denom", "page", "remainder"},
   cursor : 0 .. NItems, pos : 0 .. NItems, end : 0 .. NItems,
   pend : Pendings \cup {NoPending}, attempt : 0 .. 2, prior : BOOLEAN,
   terminal : BOOLEAN, got : BOOLEAN,
   verdict : {"none", "accepted", "unusable", "refused", "unavailable",
              "minted", "refund", "terminal", "transient"},
   bal : Nat, processed : Nat, nonce : Nat]

\* Every variable keeps its type: no amount, gross total or balance is ever
\* negative, and no cursor leaves the history.
TypeOK ==
  /\ now \in Nat /\ lastStart \in Nat
  /\ st \in [lock : Nat, nonce : Nat, processed : Nat,
             job : Jobs \cup {NoJob},
             dispatch : Dispatches \cup {NoDispatch},
             forced : {"none", "AccountingInvariantBroken",
                       "FundingTrancheBalanceMismatch"}]
  /\ act \in [Proc -> Activations]
  /\ funded \in Nat /\ balance \in Nat
  /\ blocks \subseteq Txs /\ late \subseteq Txs
  /\ minted \subseteq blocks /\ refunded \subseteq blocks
  /\ rejected \subseteq blocks
  /\ closed \in Seq(Jobs) /\ round \in Rounds

-----------------------------------------------------------------------------
(* Safety.                                                                  *)

BlocksOf(id) == {b \in blocks : b.job = id}

\* Net e8s the ledger and the CMC took from the payout account for job id.
Debited(id) ==
  SumFunctionOnSet([b \in blocks |-> b.amt + Fee], BlocksOf(id))
    - SumFunctionOnSet([b \in blocks |-> Credit(b.amt)],
                       BlocksOf(id) \cap refunded)

\* The gross outflow with the share of a transfer whose fate is open.
Committed(j) ==
  j.gross + (IF j.pending # NoPending /\ j.pending.phase = "awaiting"
             THEN j.pending.share ELSE 0)

\* What really left the payout account for a job never exceeds what the job
\* has booked, and the job never books more than its tranche: whatever is
\* lost, late, refused or refunded, and whichever activation drives it, no
\* other tranche's ICP is spent, not even after the job is closed.
Accounted ==
  /\ st.job # NoJob => /\ Debited(st.job.id) <= Committed(st.job)
                       /\ Committed(st.job) <= st.job.pot
  /\ \A k \in 1 .. Len(closed) : /\ Debited(closed[k].id) <= closed[k].gross
                                 /\ closed[k].gross <= closed[k].pot

\* A commitment is paid at most once per job: a second transfer for it exists
\* only if the first was a top-up that the CMC refunded.
PaidOnce ==
  \A b, c \in blocks :
    b.job = c.job /\ b.item = c.item => b = c \/ {b, c} \cap refunded # {}

AllJobs == {closed[k] : k \in 1 .. Len(closed)}
           \cup (IF st.job = NoJob THEN {} ELSE {st.job})

\* A payout counted as made was made for this very commitment and job, a
\* top-up to the point of minting: the ledger never answers Duplicate for
\* somebody else's transfer, and no uncertain answer counts as success.
CountedIsPaid ==
  \A j \in AllJobs : \A i \in Items : j.outcome[i] = "paid" =>
    \E b \in BlocksOf(j.id) : b.item = i /\ (b.kind = "topup" => b \in minted)

\* The record of commitment i is being paid.
BeingPaid(j, i) == j.pending # NoPending /\ j.pending.item = i

\* A payout counted as failed, not as ambiguous, reached nobody, and never
\* will: there is no transfer for it, executed or on its way, except top-ups
\* that minted nothing.  The exception is a commitment whose subaccount could
\* not be read before the scan stopped and came to its record again.
FailedIsUnpaid ==
  \A j \in AllJobs : \A i \in Items :
    j.outcome[i] = "failed" /\ ~BeingPaid(j, i) =>
      \A b \in BlocksOf(j.id) \cup {tx \in late \ blocks : tx.job = j.id} :
        b.item = i => b.kind = "topup" /\ b \in blocks \ minted

\* What a job counts is what happened, paid or failed.
OutcomesTrue == CountedIsPaid /\ FailedIsUnpaid

\* No commitment whose share exceeds the fee is passed over by a finalised
\* job, although scans stop and are resumed at any await.
NoneSkipped ==
  \A k \in 1 .. Len(closed) : \A i \in Items :
    Share(closed[k], i) > Fee => closed[k].outcome[i] # "none"

\* The accounting checks of the code never trip: rounding, refunds and
\* reservations keep every job within its tranche, and the payout account
\* always covers the tranche a new job is created for.
NoFalseRescue == st.forced = "none"

\* Tranches are paid out one at a time, in order, each by one job, although an
\* activation looks for the tranche before it creates the job.
TranchesInOrder ==
  /\ \A k \in 1 .. Len(closed) : closed[k].tranche = k
  /\ st.processed = Len(closed)
  /\ st.job # NoJob => /\ st.job.tranche = Len(closed) + 1
                       /\ st.job.tranche <= funded
=============================================================================

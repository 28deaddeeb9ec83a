----------------------------- MODULE Disburser -----------------------------
(***************************************************************************)
(* The main tick and the poke of the disburser canister (canisters/         *)
(* disburser/src/scheduler/tick.rs and payout_plan.rs), with the ICP ledger *)
(* and NNS Governance it calls.                                             *)
(*                                                                         *)
(* A process is one activation of a timer callback or of the poke worker.   *)
(* The code between two awaits is one action; pc[p] names the call p is     *)
(* awaiting.  Requests of one canister to another are delivered in the      *)
(* order they were sent, but a bounded-wait request may be dropped, and its *)
(* reply may be lost or late.  The lease may expire during any await.       *)
(*                                                                         *)
(* The heap-only retry marker that the same functions maintain is the       *)
(* subject of module MainRetry: nothing here reads it.                      *)
(***************************************************************************)
EXTENDS PayoutSplit, TimerLease, Sequences

CONSTANTS Proc,          \* activations that may be in flight together
          Lease,         \* MAIN_TICK_LEASE_SECONDS
          MinGap,        \* main_interval_seconds - 60
          StartTime,     \* the clock at installation
          MaxTime,       \* bound: the clock stops here
          DedupWindow,   \* the ledger refuses older transfers as TooOld
          Fees,          \* transfer fees the ledger may charge
          AgingSince,    \* neuron.aging_since_timestamp_seconds
          BatchAmount,   \* e8s that one maturity disbursement yields
          MaxBatches,    \* bound: disbursements the neuron's maturity allows
          DepositAmount, \* e8s of a third party's deposit into staging
          MaxDeposits,   \* bound: number of such deposits
          MaxPlans,      \* bound: plans built
          NoPlan         \* payout_plan = None

PlanSet == [id : Nat, fee : Nat, base : Nat,
            amt : [Recipients -> Nat], sent : SUBSET Recipients]

ASSUME TimeAssumption ==
  /\ Lease \in Nat \ {0} /\ MinGap \in Nat /\ DedupWindow \in Nat
  /\ StartTime \in Nat \ {0} /\ MaxTime \in Nat /\ AgingSince \in Nat

ASSUME AmountAssumption ==
  /\ Fees \subseteq Nat /\ Fees # {}
  /\ BatchAmount \in Nat /\ MaxBatches \in Nat
  /\ DepositAmount \in Nat /\ MaxDeposits \in Nat /\ MaxPlans \in Nat

ASSUME NoPlanAssumption == NoPlan \notin PlanSet

VARIABLES
  now,
  \* persisted canister state (state.rs, State)
  main_lock, last_main_run, payout_nonce, payout_plan, prev_age,
  last_success,   \* last_successful_transfer_ts, 0 for None
  resume,         \* the one-shot forced tick armed by post_upgrade
  \* the activations: program counter, local variables, reply
  act,
  \* requests under way, in sending order
  ledgerQ, govQ,
  \* the ledger: staging balance, fee, executed transfers, deposits made
  balance, fee, blocks, deposits,
  \* Governance: undisbursed batches, ages of the disbursements in progress
  maturity, disb,
  \* history: the ages of the disbursements that reached staging and are not
  \* paid out, and of those the stored plan pays out
  staged, planCover

persisted == <<main_lock, last_main_run, payout_nonce, payout_plan, prev_age,
               last_success, resume>>
ledger    == <<balance, fee, blocks, deposits>>
gov       == <<maturity, disb>>
history   == <<staged, planCover>>
vars == <<now, persisted, act, ledgerQ, govQ, ledger, gov, history>>

-----------------------------------------------------------------------------
Calls == {"claim", "refresh", "neuron", "balance", "fee", "transfer",
          "disburse"}
Verdicts == {"none", "ok", "duplicate", "refused", "unavailable"}

\* The activation of a free process.
Idle == [pc |-> "idle",          \* the call being awaited
         kind |-> "main",        \* main tick or poke
         start |-> 0,            \* now_secs of the activation
         expiry |-> 0,           \* lease_expires_at_ts of its guard
         nonce |-> 0,            \* expected_nonce
         plan |-> NoPlan,        \* expected_plan, then the plan sent from
         age |-> 0,              \* prev_age
         got |-> FALSE,          \* a reply is waiting, and what it says:
         bal |-> 0, feeOf |-> 0, verdict |-> "none", inflight |-> FALSE,
         seen |-> {}]            \* history: staged when bal was read

\* p awaits call, keeping its lease and no other local variable.
Await(p, call) ==
  [Idle EXCEPT !.pc = call, !.kind = act[p].kind,
               !.start = act[p].start, !.expiry = act[p].expiry]

\* A transfer as the ledger identifies it: memo (id, recipient), creation
\* time, amount and fee.  The code numbers the planned transfers 0, 1, ..;
\* the recipient's rank is the same number up to the skipped shares.
TxOf(plan, r) == [id |-> plan.id, to |-> r, base |-> plan.base,
                  amt |-> plan.amt[r], fee |-> plan.fee]

\* Planned transfers still marked Pending.
Pending(plan) == {r \in Recipients : plan.amt[r] > 0 /\ r \notin plan.sent}

\* .position(): the first of them.
NextIdx(plan) == CHOOSE r \in Pending(plan) : \A q \in Pending(plan) : r <= q

\* MainGuard::is_current
IsCurrent(p) == now < act[p].expiry /\ main_lock = act[p].expiry

\* payout_generation_matches
GenerationMatches(p) ==
  payout_nonce = act[p].nonce /\ payout_plan = act[p].plan

\* The neuron's age when the activation began.
AgeSeconds(p) == Monus(act[p].start, AgingSince)

-----------------------------------------------------------------------------
Init ==
  /\ now = StartTime
  /\ main_lock = Unlocked /\ last_main_run = 0
  /\ payout_nonce = 1 /\ payout_plan = NoPlan
  /\ prev_age = 0 /\ last_success = 0 /\ resume = FALSE
  /\ act = [p \in Proc |-> Idle]
  /\ ledgerQ = <<>> /\ govQ = <<>>
  /\ balance = 0 /\ fee \in Fees /\ blocks = {} /\ deposits = 0
  /\ maturity = MaxBatches /\ disb = <<>>
  /\ staged = {} /\ planCover = {}

-----------------------------------------------------------------------------
(* The environment: time, the ledger, Governance, the message system.       *)

Tick == /\ now < MaxTime
        /\ now' = now + 1
        /\ UNCHANGED <<persisted, act, ledgerQ, govQ, ledger, gov, history>>

FeeChange == /\ \E f \in Fees \ {fee} : fee' = f
             /\ UNCHANGED <<now, persisted, act, ledgerQ, govQ, balance,
                            blocks, deposits, gov, history>>

Deposit == /\ deposits < MaxDeposits
           /\ deposits' = deposits + 1
           /\ balance' = balance + DepositAmount
           /\ UNCHANGED <<now, persisted, act, ledgerQ, govQ, fee, blocks,
                          gov, history>>

\* A disbursement in progress matures: its ICP arrives in staging.
Finalize ==
  /\ disb # <<>>
  /\ disb' = Tail(disb)
  /\ balance' = balance + BatchAmount
  /\ staged' = staged \cup {Head(disb)}
  /\ UNCHANGED <<now, persisted, act, ledgerQ, govQ, fee, blocks, deposits,
                 maturity, planCover>>

\* The transfer verdicts the ledger may give to tx now.  "refused" stands for
\* BadFee, BadBurn, InsufficientFunds, TooOld, CreatedInFuture, GenericError.
VerdictsFor(tx) ==
  {"refused", "unavailable"}
    \cup (IF tx \in blocks /\ tx.base + DedupWindow >= now
          THEN {"duplicate"} ELSE {})
    \cup (IF /\ tx \notin blocks /\ tx.base + DedupWindow >= now
             /\ tx.fee = fee /\ balance >= tx.amt + tx.fee
          THEN {"ok"} ELSE {})

ServeBalance(p) ==
  /\ act[p].pc = "balance"
  /\ act' = [act EXCEPT ![p].got = TRUE, ![p].bal = balance,
                        ![p].seen = staged]
  /\ UNCHANGED ledger

ServeFee(p) ==
  /\ act[p].pc = "fee"
  /\ act' = [act EXCEPT ![p].got = TRUE, ![p].feeOf = fee]
  /\ UNCHANGED ledger

ServeTransfer(p) ==
  /\ act[p].pc = "transfer"
  /\ LET tx == TxOf(act[p].plan, NextIdx(act[p].plan))
     IN  \E v \in VerdictsFor(tx) :
           /\ act' = [act EXCEPT ![p].got = TRUE, ![p].verdict = v]
           /\ blocks' = IF v = "ok" THEN blocks \cup {tx} ELSE blocks
           /\ balance' = IF v = "ok" THEN balance - (tx.amt + tx.fee)
                                     ELSE balance
  /\ UNCHANGED <<fee, deposits>>

\* The ledger answers the oldest request.
LedgerServe ==
  /\ ledgerQ # <<>>
  /\ LET p == Head(ledgerQ)
     IN  ServeBalance(p) \/ ServeFee(p) \/ ServeTransfer(p)
  /\ ledgerQ' = Tail(ledgerQ)
  /\ UNCHANGED <<now, persisted, govQ, gov, history>>

ServeNeuron(p) ==
  /\ act[p].pc = "neuron"
  /\ act' = [act EXCEPT ![p].got = TRUE, ![p].inflight = (disb # <<>>)]
  /\ UNCHANGED gov

\* The disbursement is recorded with the age its initiator snapshotted.
ServeDisburse(p) ==
  /\ act[p].pc = "disburse"
  /\ act' = [act EXCEPT ![p].got = TRUE]
  /\ IF maturity > 0
     THEN maturity' = maturity - 1 /\ disb' = Append(disb, AgeSeconds(p))
     ELSE UNCHANGED gov

\* Governance answers the oldest request.
GovServe ==
  /\ govQ # <<>>
  /\ ServeNeuron(Head(govQ)) \/ ServeDisburse(Head(govQ))
  /\ govQ' = Tail(govQ)
  /\ UNCHANGED <<now, persisted, ledgerQ, ledger, history>>

\* The oldest request expires on the way and is never executed.
DropRequest ==
  /\ \/ ledgerQ # <<>> /\ ledgerQ' = Tail(ledgerQ) /\ UNCHANGED govQ
     \/ govQ # <<>> /\ govQ' = Tail(govQ) /\ UNCHANGED ledgerQ
  /\ UNCHANGED <<now, persisted, act, ledger, gov, history>>

\* The callback of p runs with a call error once the request is no longer on
\* its way: dropped, rejected, or executed with the reply lost.  A caller that
\* gives up earlier is left out: its request is still delivered before those
\* that any later activation sends to the same canister.
Queued(q, p) == \E i \in 1 .. Len(q) : q[i] = p
Failed(p) == ~Queued(ledgerQ, p) /\ ~Queued(govQ, p)

-----------------------------------------------------------------------------
(* Ends of an activation and of the payout stage.  Each fixes act,          *)
(* main_lock, last_main_run, prev_age and govQ.                             *)

\* The guard is dropped: the lease is given back, nothing else changes.
DropGuard(p) ==
  /\ act' = [act EXCEPT ![p] = Idle]
  /\ main_lock' = Released(main_lock, act[p].expiry)
  /\ UNCHANGED <<last_main_run, prev_age, govQ>>

\* MainGuard::finish
Finish(p) ==
  /\ act' = [act EXCEPT ![p] = Idle]
  /\ main_lock' = Released(main_lock, act[p].expiry)
  /\ last_main_run' = IF IsCurrent(p) THEN act[p].start ELSE last_main_run
  /\ UNCHANGED <<prev_age, govQ>>

\* The end of an activation of either kind that the code runs to its end.
Complete(p) == IF act[p].kind = "main" THEN Finish(p) ELSE DropGuard(p)

\* The age is persisted before DisburseMaturity is dispatched.
InitiateDisbursement(p) ==
  /\ act' = [act EXCEPT ![p] = Await(p, "disburse")]
  /\ prev_age' = AgeSeconds(p)
  /\ govQ' = Append(govQ, p)
  /\ UNCHANGED <<main_lock, last_main_run>>

\* Mutant: a new disbursement is initiated although the payout is not done.
EndPayoutUnchecked(p, ok) ==
  \/ act[p].kind = "poke" /\ Complete(p)
  \/ /\ act[p].kind = "main"
     /\ IF IsCurrent(p) THEN InitiateDisbursement(p) ELSE DropGuard(p)

\* process_payout returned ok.
EndPayout(p, ok) ==
  \/ (act[p].kind = "poke" \/ ~ok) /\ Complete(p)
  \/ /\ act[p].kind = "main" /\ ok
     /\ IF IsCurrent(p) THEN InitiateDisbursement(p) ELSE DropGuard(p)

\* One turn of the execution loop, from the plan the state now holds.
SendNext(p, plan) ==
  \/ /\ ~IsCurrent(p)
     /\ EndPayout(p, FALSE)
     /\ payout_plan' = plan
     /\ UNCHANGED <<ledgerQ, staged>>
  \/ /\ IsCurrent(p) /\ Pending(plan) = {}
     /\ EndPayout(p, TRUE)
     /\ payout_plan' = NoPlan
     /\ staged' = staged \ planCover'
     /\ UNCHANGED ledgerQ
  \/ /\ IsCurrent(p) /\ Pending(plan) # {}
     /\ payout_plan' = plan
     /\ act' = [act EXCEPT ![p] = [Await(p, "transfer") EXCEPT !.plan = plan]]
     /\ ledgerQ' = Append(ledgerQ, p)
     /\ UNCHANGED <<main_lock, last_main_run, prev_age, govQ, staged>>

\* process_payout up to its first await.
StartPayout(p) ==
  /\ act' = [act EXCEPT ![p] = [Await(p, "balance") EXCEPT
                                  !.nonce = payout_nonce,
                                  !.plan = payout_plan, !.age = prev_age]]
  /\ ledgerQ' = Append(ledgerQ, p)
  /\ UNCHANGED <<main_lock, last_main_run, prev_age, govQ>>

-----------------------------------------------------------------------------
(* Activations begin.                                                       *)

\* MainGuard::acquire, and the dispatch of the activation's first call.
Acquire(p, k, call) ==
  /\ act[p].pc = "idle"
  /\ CanAcquire(main_lock, now)
  /\ main_lock' = LeaseExpiry(now, Lease)
  /\ act' = [act EXCEPT ![p] = [Idle EXCEPT
                !.pc = call, !.kind = k, !.start = now,
                !.expiry = LeaseExpiry(now, Lease)]]

\* run_main_tick_with_clients, admitted: by the interval timer or an
\* admission retry when the cadence allows it, by the resume timer always.
MainStart(p) ==
  /\ Acquire(p, "main", "claim")
  /\ \/ last_main_run + MinGap <= now /\ UNCHANGED resume
     \/ resume /\ resume' = FALSE
  /\ UNCHANGED <<now, last_main_run, payout_nonce, payout_plan, prev_age,
                 last_success, ledgerQ, govQ, ledger, gov, history>>

\* Too early: the lease just taken is dropped again.
MainDeferred ==
  /\ CanAcquire(main_lock, now)
  /\ last_main_run + MinGap > now
  /\ main_lock' = Unlocked
  /\ UNCHANGED <<now, last_main_run, payout_nonce, payout_plan, prev_age,
                 last_success, resume, act, ledgerQ, govQ, ledger, gov,
                 history>>

\* The resume timer fires under a live lease: main_tick(true) returns
\* MainGuardBusy, and a one-shot timer is not armed again.
ResumeBusy ==
  /\ resume /\ ~CanAcquire(main_lock, now)
  /\ resume' = FALSE
  /\ UNCHANGED <<now, main_lock, last_main_run, payout_nonce, payout_plan,
                 prev_age, last_success, act, ledgerQ, govQ, ledger, gov,
                 history>>

\* run_poke_with_clients
PokeStart(p) ==
  /\ Acquire(p, "poke", "neuron")
  /\ govQ' = Append(govQ, p)
  /\ UNCHANGED <<now, last_main_run, payout_nonce, payout_plan, prev_age,
                 last_success, resume, ledgerQ, ledger, gov, history>>

\* Upgrades happen on a stopped canister, which has no open calls.
\* post_upgrade clears the lease and arms the resume timer for a stored plan.
Upgrade ==
  /\ \A p \in Proc : act[p].pc = "idle"
  /\ main_lock' = Unlocked
  /\ resume' = (payout_plan # NoPlan)
  /\ UNCHANGED <<now, last_main_run, payout_nonce, payout_plan, prev_age,
                 last_success, act, ledgerQ, govQ, ledger, gov, history>>

-----------------------------------------------------------------------------
(* Callbacks.                                                               *)

\* claim_or_refresh_neuron answered or failed: only the lease matters.
ClaimReply(p) ==
  /\ act[p].pc = "claim"
  /\ \/ /\ IsCurrent(p)
        /\ act' = [act EXCEPT ![p] = Await(p, "refresh")]
        /\ UNCHANGED <<main_lock, last_main_run, prev_age, govQ>>
     \/ ~IsCurrent(p) /\ DropGuard(p)
  /\ UNCHANGED <<now, payout_nonce, payout_plan, last_success, resume,
                 ledgerQ, ledger, gov, history>>

\* refresh_voting_power likewise, then get_full_neuron is dispatched.
RefreshReply(p) ==
  /\ act[p].pc = "refresh"
  /\ \/ /\ IsCurrent(p)
        /\ act' = [act EXCEPT ![p] = Await(p, "neuron")]
        /\ govQ' = Append(govQ, p)
        /\ UNCHANGED <<main_lock, last_main_run, prev_age>>
     \/ ~IsCurrent(p) /\ DropGuard(p)
  /\ UNCHANGED <<now, payout_nonce, payout_plan, last_success, resume,
                 ledgerQ, ledger, gov, history>>

\* get_full_neuron answered: with nothing in flight the payout stage starts.
NeuronReply(p) ==
  /\ act[p].pc = "neuron" /\ act[p].got
  /\ \/ IsCurrent(p) /\ ~act[p].inflight /\ StartPayout(p)
     \/ IsCurrent(p) /\ act[p].inflight /\ Complete(p) /\ UNCHANGED ledgerQ
     \/ ~IsCurrent(p) /\ DropGuard(p) /\ UNCHANGED ledgerQ
  /\ UNCHANGED <<now, payout_nonce, payout_plan, last_success, resume, ledger,
                 gov, history>>

\* get_full_neuron failed.
NeuronFailed(p) ==
  /\ act[p].pc = "neuron" /\ Failed(p)
  /\ Complete(p)
  /\ UNCHANGED <<now, payout_nonce, payout_plan, last_success, resume,
                 ledgerQ, ledger, gov, history>>

\* The staging balance arrived.
BalanceReply(p) ==
  /\ act[p].pc = "balance" /\ act[p].got
  /\ UNCHANGED <<now, payout_nonce, last_success, resume, ledger, gov,
                 planCover>>
  /\ \/ /\ ~(IsCurrent(p) /\ GenerationMatches(p))
        /\ EndPayout(p, FALSE)
        /\ UNCHANGED <<payout_plan, ledgerQ, staged>>
     \/ /\ IsCurrent(p) /\ GenerationMatches(p)
        /\ payout_plan = NoPlan /\ act[p].bal = 0
        /\ EndPayout(p, TRUE)
        /\ staged' = staged \ act[p].seen
        /\ UNCHANGED <<payout_plan, ledgerQ>>
     \/ /\ IsCurrent(p) /\ GenerationMatches(p)
        /\ payout_plan = NoPlan /\ act[p].bal > 0
        /\ act' = [act EXCEPT ![p].pc = "fee", ![p].got = FALSE]
        /\ ledgerQ' = Append(ledgerQ, p)
        /\ UNCHANGED <<main_lock, last_main_run, prev_age, govQ, payout_plan,
                       staged>>
     \/ /\ IsCurrent(p) /\ GenerationMatches(p)
        /\ payout_plan # NoPlan
        /\ SendNext(p, payout_plan)

\* Mutant: the nonce of a new plan is not consumed.
NextNonceStuck == payout_nonce

\* payout_nonce.saturating_add(1) when a plan is installed.
NextNonce == payout_nonce + 1

\* The plan built from the balance, fee and age p has read.
NewPlan(p) ==
  [id |-> act[p].nonce, fee |-> act[p].feeOf, base |-> act[p].start,
   amt |-> PlannedAmounts(act[p].bal, act[p].feeOf, act[p].age), sent |-> {}]

\* The ledger fee arrived: the plan is installed under a fresh nonce before
\* its first transfer is sent.
FeeReply(p) ==
  /\ act[p].pc = "fee" /\ act[p].got /\ payout_nonce <= MaxPlans
  /\ UNCHANGED <<now, last_success, resume, ledger, gov>>
  /\ \/ /\ ~(IsCurrent(p) /\ GenerationMatches(p))
        /\ EndPayout(p, FALSE)
        /\ UNCHANGED <<payout_nonce, payout_plan, ledgerQ, history>>
     \/ /\ IsCurrent(p) /\ GenerationMatches(p)
        /\ payout_nonce' = NextNonce
        /\ planCover' = act[p].seen
        /\ SendNext(p, NewPlan(p))

\* icrc1_balance_of or icrc1_fee failed, or icrc1_transfer: in that case
\* whether it executed is unknown, and the plan is kept.
LedgerFailed(p) ==
  /\ act[p].pc \in {"balance", "fee", "transfer"} /\ Failed(p)
  /\ EndPayout(p, FALSE)
  /\ UNCHANGED <<now, payout_nonce, payout_plan, last_success, resume,
                 ledgerQ, ledger, gov, history>>

\* Mutant: an unavailable ledger counts as success.
SucceededLenient(v) == v \in {"ok", "duplicate", "unavailable"}

\* Duplicate is success: an earlier attempt executed.
Succeeded(v) == v \in {"ok", "duplicate"}

\* Mutant: the plan is cleared by an activation that lost its lease.
ClearsPlanStale(p) == act[p].verdict = "refused"

\* should_clear_payout_plan_on_transfer_error, by the current holder only.
ClearsPlan(p) == IsCurrent(p) /\ act[p].verdict = "refused"

\* Mutant: the Sent status is not stored.
MarkSentLost(p) == act[p].plan

\* The plan p sent from, with the transfer it was waiting for marked Sent.
MarkSent(p) ==
  [act[p].plan EXCEPT !.sent = @ \cup {NextIdx(act[p].plan)}]

\* icrc1_transfer answered.  A success is recorded even after the lease has
\* expired, but only in the very plan it was sent from.
TransferReply(p) ==
  /\ act[p].pc = "transfer" /\ act[p].got
  /\ UNCHANGED <<now, payout_nonce, resume, ledger, gov, planCover>>
  /\ \/ /\ payout_plan # act[p].plan
        /\ EndPayout(p, FALSE)
        /\ UNCHANGED <<payout_plan, last_success, ledgerQ, staged>>
     \/ /\ payout_plan = act[p].plan
        /\ Succeeded(act[p].verdict)
        /\ last_success' = act[p].start
        /\ SendNext(p, MarkSent(p))
     \/ /\ payout_plan = act[p].plan
        /\ ~Succeeded(act[p].verdict)
        /\ payout_plan' = IF ClearsPlan(p) THEN NoPlan ELSE payout_plan
        /\ EndPayout(p, FALSE)
        /\ UNCHANGED <<last_success, ledgerQ, staged>>

\* disburse_maturity answered or failed.
DisburseReply(p) ==
  /\ act[p].pc = "disburse" /\ Failed(p)
  /\ Finish(p)
  /\ UNCHANGED <<now, payout_nonce, payout_plan, last_success, resume,
                 ledgerQ, ledger, gov, history>>

Callback(p) ==
  \/ ClaimReply(p) \/ RefreshReply(p) \/ NeuronReply(p) \/ NeuronFailed(p)
  \/ BalanceReply(p) \/ FeeReply(p) \/ LedgerFailed(p)
  \/ TransferReply(p) \/ DisburseReply(p)

Next ==
  \/ Tick \/ FeeChange \/ Deposit \/ Finalize
  \/ LedgerServe \/ GovServe \/ DropRequest
  \/ MainDeferred \/ ResumeBusy \/ Upgrade
  \/ \E p \in Proc : MainStart(p) \/ PokeStart(p) \/ Callback(p)

Spec == Init /\ [][Next]_vars

\* Messages are eventually delivered, dropped or answered, and callbacks run:
\* bounded-wait calls end by their deadline.
Fairness ==
  /\ WF_vars(LedgerServe) /\ WF_vars(GovServe)
  /\ \A p \in Proc : WF_vars(Callback(p))

FairSpec == Spec /\ Fairness

-----------------------------------------------------------------------------
Tx == [id : Nat, to : Recipients, base : Nat, amt : Nat, fee : Nat]

PersistedTypeOK ==
  /\ now \in Nat
  /\ main_lock \in Nat /\ last_main_run \in Nat
  /\ payout_nonce \in Nat /\ payout_plan \in PlanSet \cup {NoPlan}
  /\ prev_age \in Nat /\ last_success \in Nat /\ resume \in BOOLEAN

Activations ==
  [pc : Calls \cup {"idle"}, kind : {"main", "poke"}, start : Nat,
   expiry : Nat, nonce : Nat, plan : PlanSet \cup {NoPlan}, age : Nat,
   got : BOOLEAN, bal : Nat, feeOf : Nat, verdict : Verdicts,
   inflight : BOOLEAN, seen : SUBSET Nat]

LocalTypeOK ==
  /\ act \in [Proc -> Activations]
  /\ ledgerQ \in Seq(Proc) /\ govQ \in Seq(Proc)

WorldTypeOK ==
  /\ balance \in Nat /\ fee \in Nat /\ deposits \in Nat
  /\ blocks \subseteq Tx
  /\ maturity \in Nat /\ disb \in Seq(Nat)
  /\ staged \subseteq Nat /\ planCover \subseteq Nat

\* Every variable of the canister, its activations, the ledger and Governance
\* keeps its type; in particular the staging balance never goes negative.
TypeOK == PersistedTypeOK /\ LocalTypeOK /\ WorldTypeOK

-----------------------------------------------------------------------------
(* Safety.                                                                  *)

Holder(p) == act[p].pc # "idle" /\ IsCurrent(p)

\* Two activations never pass MainGuard::is_current at the same moment, over
\* expiry, takeover, late callbacks and upgrades.
LeaseExclusive == \A p, q \in Proc : Holder(p) /\ Holder(q) => p = q

\* No payout id and transfer index is ever paid twice with different
\* arguments: the identity of a planned transfer is fixed when the plan is
\* persisted, and nonces are not reused across plans, lost replies or retries.
IdentityPaidOnce ==
  \A s, t \in blocks : s.id = t.id /\ s.to = t.to => s = t

\* What the plan still owes for destination r.
Due(plan, r) == IF TxOf(plan, r) \in blocks THEN 0
                ELSE DebitOf(plan.amt[r], plan.fee)

\* The staging account always covers every transfer of the stored plan that
\* the ledger has not executed, so no plan is abandoned for insufficient
\* funds: the balance a plan was built from is never spent twice.
PlanFunded ==
  payout_plan # NoPlan =>
    Due(payout_plan, 1) + Due(payout_plan, 2) + Due(payout_plan, 3) <= balance

\* A transfer the plan shows as Sent was executed by the ledger, whichever
\* activation, current or stale, recorded it.
SentIsExecuted ==
  payout_plan # NoPlan =>
    \A r \in payout_plan.sent : TxOf(payout_plan, r) \in blocks

\* At most one maturity disbursement is in flight, and prev_age is the age
\* snapshot of every disbursement in flight or in staging and not yet paid
\* out: no other cycle's age is applied to its ICP.
AgeSnapshot ==
  /\ Len(disb) <= 1
  /\ \A i \in 1 .. Len(disb) : disb[i] = prev_age
  /\ staged \subseteq {prev_age}

\* A stored plan changes only by one more transfer being marked Sent, and is
\* given up only when all are Sent or by the lease holder on a typed refusal.
PlanStep ==
  payout_plan # NoPlan /\ payout_plan' # payout_plan =>
    \/ payout_plan' = NoPlan /\ Pending(payout_plan) = {}
    \/ /\ payout_plan' = NoPlan
       /\ \E p \in Proc : /\ Holder(p) /\ act[p].plan = payout_plan
                          /\ act[p].pc = "transfer" /\ act[p].got
                          /\ \/ act[p].verdict = "refused"
                             \/ Pending(payout_plan) = {NextIdx(act[p].plan)}
    \/ \E r \in Pending(payout_plan) :
         payout_plan' = [payout_plan EXCEPT !.sent = @ \cup {r}]

\* What a late callback writes never undoes what others did: a stored plan only
\* advances, and last_successful_transfer_ts, from which the rescue policy
\* derives the controllers, and last_main_run_ts never move backwards although
\* a callback writes the time at which its own activation began.
PlanOnlyAdvances ==
  [][/\ PlanStep
     /\ last_success' >= last_success /\ last_main_run' >= last_main_run]_vars

\* Every admitted activation ends and gives its lease back.
ActivationEnds == \A p \in Proc : act[p].pc # "idle" ~> act[p].pc = "idle"

-----------------------------------------------------------------------------
(* The strengthening that makes the safety invariants inductive.            *)

Sending(p) == act[p].pc = "transfer"

\* A transfer is awaited from a plan that still has one to send.
SendingOK ==
  \A p \in Proc : Sending(p) => /\ act[p].plan # NoPlan
                               /\ Pending(act[p].plan) # {}

\* Only the activation whose expiry is in the lock word is unexpired.
LeaseInv ==
  \A p \in Proc : act[p].pc # "idle" /\ now < act[p].expiry =>
    /\ main_lock = act[p].expiry
    /\ \A q \in Proc : act[q].pc # "idle" /\ now < act[q].expiry => p = q

\* A plan's id is spent, and the ledger holds no other use of it.
OwnsId(plan) ==
  /\ plan.id < payout_nonce
  /\ \A tx \in blocks : tx.id = plan.id => tx = TxOf(plan, tx.to)

SameTransfers(a, b) ==
  a.id = b.id => a.fee = b.fee /\ a.base = b.base /\ a.amt = b.amt

\* All copies of a plan, stored or held by a waiting activation, agree on the
\* identities of their transfers with each other and with the ledger.
IdInv ==
  /\ \A tx \in blocks : tx.id < payout_nonce
  /\ payout_plan # NoPlan => OwnsId(payout_plan)
  /\ \A p \in Proc : Sending(p) =>
       /\ OwnsId(act[p].plan)
       /\ payout_plan # NoPlan => SameTransfers(act[p].plan, payout_plan)
       /\ \A q \in Proc : Sending(q) => SameTransfers(act[p].plan, act[q].plan)

\* A success still to be recorded is on the ledger.
SuccessInv ==
  \A p \in Proc : Sending(p) /\ Succeeded(act[p].verdict) =>
    TxOf(act[p].plan, NextIdx(act[p].plan)) \in blocks

IInv == /\ TypeOK /\ SendingOK /\ LeaseInv /\ IdInv
        /\ IdentityPaidOnce /\ SuccessInv /\ SentIsExecuted
=============================================================================

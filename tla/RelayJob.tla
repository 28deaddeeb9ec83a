------------------------------ MODULE RelayJob ------------------------------
(***************************************************************************)
(* canisters/relay: the allocation job (scheduler/tick.rs,                  *)
(* scheduler/transfer.rs, scheduler/guards.rs).  An activation takes the    *)
(* main lease, probes the targets' cycles, plans top-ups and, once they are *)
(* all minted, surplus payments, and drives one transfer at a time through  *)
(* the ledger and the CMC.  A lease may expire while its holder still       *)
(* awaits an answer; the successor then finds the same job, and the late    *)
(* answers are checked against the pending transfer only.                   *)
(*                                                                          *)
(* The code between two awaits is one action.  The awaits for fee and rate  *)
(* are one.  The known_unspent_e8s a surplus plan is built from equals what *)
(* the top-up plan retained, as long as no top-up failed.                   *)
(***************************************************************************)
EXTENDS Integers, Sequences, Functions, RelayAllocation

CONSTANTS Proc,        \* activations that may overlap
          Targets,     \* effective_managed_canisters, as a sequence
          Self,        \* the Relay itself, which is always observed
          Recipients,  \* surplus recipients; <<>>: all ICP becomes cycles
          Threshold,   \* TARGET_UNAVAILABLE_FAILURE_THRESHOLD
          MaxPerTick,  \* max_transfers_per_tick
          Fees, Rates, \* what ledger and CMC may charge and pay
          Bootstrap,   \* BOOTSTRAP_CYCLES_PER_E8
          BootstrapFee, \* ICP_LEDGER_FEE_BOOTSTRAP_FALLBACK_E8S
          InitialCycles, DepositAmount,
          Budgets,     \* what a behaviour may spend on jobs, steals, faults, ...
          None

Target == {Targets[i] : i \in DOMAIN Targets}
Raw == Recipients # <<>>
Accounts == Target \cup {Recipients[i] : i \in DOMAIN Recipients}

BudgetSet == [jobs : Nat, steals : Nat, faults : Nat, burns : Nat, deposits : Nat]

\* effective_managed_canisters collects a BTreeSet: no target comes twice.
ASSUME JobAssumption ==
  /\ Targets \in Seq(Target) /\ IsInjective(Targets) /\ Recipients \in Seq(Accounts)
  /\ Self \in Target /\ Threshold \in Nat /\ MaxPerTick \in Nat \ {0}
  /\ Fees \subseteq Nat /\ Rates \subseteq Nat \ {0} /\ Bootstrap \in Nat \ {0}
  /\ BootstrapFee \in Fees
  /\ InitialCycles \in Nat /\ DepositAmount \in Nat
  /\ Budgets \subseteq BudgetSet
  /\ None \notin Proc

VARIABLES
  lease,     \* main_lock_state_ts: the activation whose token is current
  act,       \* the activations
  nextId, job,
  base, since, debt,  \* last_completed_cycles, relay_minted_.., recovery_..
  fails,     \* consecutive_probe_failures
  estimate, feeCache,  \* conversion_estimate, last_known_ledger_fee_e8s
  fee, balance,        \* the ledger
  executed, aged,      \* identities executed, and those now too old for it
  mint, refused,       \* the CMC: cycles minted by identity, and refusals
  cycles,    \* of the targets
  late,      \* requests still on their way after their sender gave up
  left,      \* of the budget
  failedTx, doubt  \* history: given up as failed; dispatched by two activations

accounting == <<base, since, debt>>
ledger == <<fee, balance, executed, aged>>
cmc    == <<mint, refused, cycles>>
vars == <<lease, act, nextId, job, accounting, fails, estimate, feeCache, ledger,
          cmc, late, left, failedTx, doubt>>

Idle == [pc |-> "idle", main |-> FALSE, id |-> 0, seen |-> None, bal |-> 0,
         own |-> 0,
         n |-> 0, expired |-> {}, tx |-> None, reply |-> "none"]

Init ==
  /\ lease = None /\ act = [p \in Proc |-> Idle]
  /\ nextId = 1 /\ job = None
  /\ base = [t \in Target |-> -1] /\ since = [t \in Target |-> 0]
  /\ debt = [t \in Target |-> 0]
  /\ fails = [t \in Target |-> 0]
  /\ estimate = 0 /\ feeCache = None
  /\ fee = BootstrapFee /\ balance = 0 /\ executed = {} /\ aged = {}
  /\ mint = <<>> /\ refused = {}
  /\ cycles = [t \in Target |-> InitialCycles]
  /\ late = {} /\ left \in Budgets
  /\ failedTx = {} /\ doubt = {}

-----------------------------------------------------------------------------
(* Jobs.                                                                    *)

Tx(id, kind, i, item) == [id |-> <<id, kind, i>>, t |-> item.t, gross |-> item.gross,
                          amount |-> item.amount, accepted |-> FALSE]

\* Indices from k on that are still to be paid.
Payable(items, k) == {i \in DOMAIN items : i >= k /\ items[i].amount > 0}
First(S) == CHOOSE i \in S : \A k \in S : i <= k

\* retained_e8s
Gross(items) == SumOf([i \in DOMAIN items |->
                         IF items[i].amount > 0 THEN items[i].gross ELSE 0])
Retained(j) == Monus(j.bal, Gross(j.items) + Gross(j.surplus))

\* Mutant: what was minted is not looked at.
SurplusAllowedDirty(j) == ~j.dirty

\* surplus_allowed_after_topups
SurplusAllowed(j) == /\ ~j.dirty
                     /\ \A i \in DOMAIN j.items : j.items[i].minted >= j.items[i].need

\* disable_surplus
Disabled(j) == [j EXCEPT !.surplus = <<>>, !.snext = 1, !.planned = TRUE]

\* The outcomes of a pending transfer.
Accepted(j)  == [j EXCEPT !.pending.accepted = TRUE]
Completed(j) == [j EXCEPT !.pending = None]
Minted(j, i, m) == [j EXCEPT !.pending = None, !.items[i].minted = @ + m]
Unclean(j)   == [j EXCEPT !.pending = None, !.dirty = TRUE]

\* Items are numbered by the place of their target in Targets.
TopupsDone(j) == \A i \in DOMAIN j.items : i < j.next
End == Len(Targets) + 1

\* Mutant: only the job and the phase are compared.
MatchesPhase(p) ==
  /\ job # None /\ job.id = act[p].id /\ job.pending # None
  /\ job.pending.accepted = act[p].tx.accepted

\* pending_matches
Matches(p) == job # None /\ job.id = act[p].id /\ job.pending = act[p].tx

\* job_generation_matches
Current(p) == lease = p /\ job = None /\ nextId = act[p].id

-----------------------------------------------------------------------------
(* The drive loop.  Each operator says how the activation goes on with job  *)
(* j: to the next await, or to its end.                                     *)

Finish(p) == /\ act' = [act EXCEPT ![p] = Idle]
             /\ lease' = IF lease = p THEN None ELSE lease
Wait(p, a) == act' = [act EXCEPT ![p] = a] /\ UNCHANGED lease

KeepSamples == UNCHANGED <<base, debt>>

\* drive_pending_transfer: dispatch the pending transfer or its notification.
Dispatch(p, j, n) ==
  /\ job' = j /\ KeepSamples
  /\ Wait(p, [act[p] EXCEPT !.pc = IF j.pending.accepted THEN "notify1" ELSE "send1",
                !.id = j.id, !.tx = j.pending, !.n = n, !.seen = None,
                !.reply = "none"])

\* complete_job
CompleteJob(p, j) ==
  /\ job' = None /\ Finish(p)
  /\ base' = [t \in Target |-> IF j.seen[t] >= 0 THEN j.seen[t] ELSE base[t]]
  /\ debt' = [t \in Target |->
       IF \E i \in DOMAIN j.items : j.items[i].t = t
       THEN LET i == CHOOSE k \in DOMAIN j.items : j.items[k].t = t
            IN  Monus(j.items[i].need, j.items[i].minted)
       ELSE debt[t]]

\* plan_surplus_phase up to its await
PlanSurplus(p, j, n) ==
  IF SurplusAllowed(j)
  THEN /\ job' = j /\ KeepSamples
       /\ Wait(p, [act[p] EXCEPT !.pc = "resolve", !.id = j.id, !.n = n,
                     !.seen = None, !.tx = None, !.reply = "none"])
  ELSE CompleteJob(p, Disabled(j))

\* plan_next_transfer
PlanNext(p, j, n) ==
  LET topups  == Payable(j.items, j.next)
      surplus == Payable(j.surplus, j.snext)
  IN
  IF topups \cup surplus = {}
  THEN LET d == [j EXCEPT !.next = End, !.snext = Len(j.surplus) + 1]
       IN  IF d.planned THEN CompleteJob(p, d) ELSE PlanSurplus(p, d, n)
  ELSE IF n >= MaxPerTick THEN job' = j /\ KeepSamples /\ Finish(p)
  ELSE IF topups # {}
  THEN LET i == First(topups)
       IN  Dispatch(p, [j EXCEPT !.next = i + 1,
                          !.pending = Tx(j.id, "topup", i, j.items[i])], n + 1)
  ELSE IF SurplusAllowed(j)
  THEN LET i == First(surplus)
       IN  Dispatch(p, [j EXCEPT !.next = End, !.snext = i + 1,
                          !.pending = Tx(j.id, "surplus", i, j.surplus[i])], n + 1)
  ELSE CompleteJob(p, Disabled(j))

\* drive_active_job
Drive(p, j, n) ==
  IF j.pending # None THEN Dispatch(p, j, n)
  ELSE IF TopupsDone(j) /\ ~j.planned THEN PlanSurplus(p, j, n)
  ELSE PlanNext(p, j, n)

\* MainLeaseToken::is_current
Holds(p) == lease = p

\* A transfer is settled: the lease decides who goes on.
Settle(p, j) == IF Holds(p) THEN Drive(p, j, act[p].n)
                ELSE job' = j /\ KeepSamples /\ Finish(p)

-----------------------------------------------------------------------------
(* Activations.                                                             *)

Ident == IF job # None /\ job.pending # None THEN {job.pending.id} ELSE {}

\* MainGuard::acquire; a lease that is held may have expired.
Start(p) ==
  /\ act[p].pc = "idle"
  /\ \/ lease = None /\ UNCHANGED left
     \/ /\ lease # None /\ left.steals > 0
        /\ left' = [left EXCEPT !.steals = @ - 1]
  /\ lease' = p
  /\ \E main \in BOOLEAN :
       act' = [act EXCEPT ![p] = [Idle EXCEPT !.pc = "stage", !.main = main,
                 !.id = nextId, !.own = cycles[Self], !.expired = Ident \cap aged]]
  /\ UNCHANGED <<nextId, job, accounting, fails, estimate, feeCache, ledger, cmc,
                 late, failedTx, doubt>>

Leave(p) == /\ Finish(p)
            /\ UNCHANGED <<nextId, job, accounting, fails, estimate, feeCache,
                           ledger, cmc, late, left, failedTx, doubt>>

\* The splitters and the faucet commitment are done, or hold the tick up.
StageDone(p) ==
  /\ act[p].pc = "stage"
  /\ \/ Leave(p)
     \/ /\ lease = p /\ job = None /\ act[p].main /\ nextId <= left.jobs
        /\ Wait(p, [act[p] EXCEPT !.pc = "probe", !.id = nextId])
        /\ UNCHANGED <<nextId, job, accounting, fails, estimate, feeCache, ledger,
                       cmc, late, left, failedTx, doubt>>
     \/ /\ lease = p /\ job # None
        /\ IF job.pending # None /\ ~job.pending.accepted /\ Ident \cap act[p].expired # {}
           THEN Drive(p, Unclean(job), 0)
           ELSE Drive(p, job, 0)
        /\ doubt' = doubt \cup Ident
        /\ UNCHANGED <<nextId, since, fails, estimate, feeCache, ledger, cmc,
                       late, left, failedTx>>

\* update_consecutive_probe_failures
Counted(seen) == [t \in Target |-> IF seen[t] >= 0 THEN 0 ELSE fails[t] + 1]

\* Mutant: a baseline sample also starts the known targets afresh.
BaselineResets(t, seen) == seen[t] >= 0

\* complete_baseline_sample: only targets never sampled get a baseline.
BaselineMissing(t, seen) == seen[t] >= 0 /\ base[t] = -1

ProbeReply(p) ==
  /\ act[p].pc = "probe"
  /\ \E up \in SUBSET Target :
     LET seen == [t \in Target |-> IF t \in up \cup {Self} THEN IF t = Self THEN act[p].own ELSE cycles[t]
                                     ELSE -1]
     IN
     IF ~Current(p) THEN Finish(p) /\ UNCHANGED <<accounting, fails>>
     ELSE
     /\ fails' = [t \in Target |->
                    IF Counted(seen)[t] > Threshold THEN Threshold ELSE Counted(seen)[t]]
     /\ \/ /\ \E t \in Target : fails'[t] \in 1 .. (Threshold - 1)
           /\ Finish(p) /\ UNCHANGED accounting   \* degraded
        \/ /\ \A t \in Target : fails'[t] \in {0, Threshold}
           /\ \E t \in Target : seen[t] >= 0 /\ base[t] = -1
           /\ base' = [t \in Target |-> IF BaselineMissing(t, seen) THEN seen[t]
                                        ELSE base[t]]
           /\ since' = [t \in Target |-> IF BaselineMissing(t, seen) THEN 0
                                         ELSE since[t]]
           /\ Finish(p) /\ UNCHANGED debt
        \/ /\ \A t \in Target : fails'[t] \in {0, Threshold}
           /\ \A t \in Target : seen[t] >= 0 => base[t] >= 0
           /\ Wait(p, [act[p] EXCEPT !.pc = "balance", !.seen = seen])
           /\ UNCHANGED accounting
  /\ UNCHANGED <<nextId, job, estimate, feeCache, ledger, cmc, late, left, failedTx,
                 doubt>>

BalanceReply(p) ==
  /\ act[p].pc = "balance"
  /\ \/ Leave(p)
     \/ /\ Current(p)
        /\ Wait(p, [act[p] EXCEPT !.pc = "quote", !.bal = balance])
        /\ UNCHANGED <<nextId, job, accounting, fails, estimate, feeCache, ledger,
                       cmc, late, left, failedTx, doubt>>

Observed(seen) == {i \in DOMAIN Targets : seen[Targets[i]] >= 0}
Need(t, seen) == TargetTopup(Raw, ComputeBurn(base[t], since[t], seen[t]), debt[t])

\* start_job_with_self_with_lease from the plan on
NewJob(seen, bal, f, rate) ==
  LET need == [i \in Observed(seen) |-> Need(Targets[i], seen)]
      plan == IF Raw THEN AllocationPlan(need, bal, f, rate)
              ELSE SpendAllPlan(need, bal, f)
  IN  [id |-> nextId, fee |-> f, bal |-> bal, seen |-> seen,
       items |-> [i \in DOMAIN need |->
                    [t |-> Targets[i], need |-> need[i], gross |-> plan.gross[i],
                     amount |-> plan.amount[i], minted |-> 0]],
       next |-> 1, surplus |-> <<>>, snext |-> 1,
       planned |-> ~Raw \/ ~plan.funded, pending |-> None, dirty |-> FALSE]

\* resolve_icp_ledger_fee_e8s, refresh_conversion_estimate_from_cmc, the plan;
\* complete_no_funds_sample if there is nothing to divide.
QuoteReply(p) ==
  LET seen == act[p].seen IN
  /\ act[p].pc = "quote"
  /\ \E live \in BOOLEAN, r \in Rates \cup {estimate} :
     /\ feeCache' = IF live THEN fee ELSE feeCache
     /\ IF ~Current(p)
        THEN Finish(p) /\ UNCHANGED <<nextId, job, accounting, estimate>>
        ELSE
        /\ \/ /\ act[p].bal = 0 /\ Finish(p)
              /\ base' = [t \in Target |-> IF seen[t] >= 0 THEN seen[t] ELSE base[t]]
              /\ debt' = [t \in Target |-> IF seen[t] >= 0 THEN Need(t, seen)
                                           ELSE debt[t]]
              /\ UNCHANGED <<nextId, job, estimate>>
           \/ /\ act[p].bal # 0
              /\ estimate' = IF Raw THEN r ELSE estimate
              /\ nextId' = nextId + 1
              /\ \E rate \in {estimate', Bootstrap} \ {0} :  \* it may be too old
                   Drive(p, NewJob(seen, act[p].bal, IF feeCache' = None THEN BootstrapFee
                                                     ELSE feeCache', rate), 0)
        /\ since' = [t \in Target |-> IF seen[t] >= 0 THEN 0 ELSE since[t]]
  /\ UNCHANGED <<fails, ledger, cmc, late, left, failedTx, doubt>>

\* plan_surplus_phase after its await
ResolveReply(p) ==
  /\ act[p].pc = "resolve"
  /\ IF ~Holds(p) THEN Finish(p) /\ KeepSamples /\ UNCHANGED job
     ELSE IF ~(job # None /\ job.id = act[p].id /\ ~job.planned)
     THEN IF job = None THEN Finish(p) /\ KeepSamples /\ UNCHANGED job
          ELSE Drive(p, job, act[p].n)
     ELSE \/ Drive(p, Disabled(job), act[p].n)   \* resolution failed
          \/ /\ estimate # 0
             /\ LET s == SurplusShare(Len(Recipients), Retained(job), job.fee)
                IN  Drive(p, [job EXCEPT !.planned = TRUE, !.snext = 1,
                      !.surplus = [i \in DOMAIN Recipients |->
                          [t |-> Recipients[i], gross |-> s.gross,
                           amount |-> s.amount]]], act[p].n)
  /\ UNCHANGED <<nextId, since, fails, estimate, feeCache, ledger, cmc, late, left,
                 failedTx, doubt>>

-----------------------------------------------------------------------------
(* Replies of ledger and CMC.                                               *)

SamplesKept == UNCHANGED <<nextId, fails, estimate, ledger, cmc, late, left, doubt>>

\* stop_active_job_for_ledger_fee_change: whoever learns of it ends the job.
StopForFee(p, j) == CompleteJob(p, [j EXCEPT !.pending = None])

\* Mutant: the second refusal counts as if it were the only answer.
SecondVerdictFailed == "failed"

\* After an unknown first outcome no refusal is definite.
SecondVerdict == "ambiguous"

\* The verdict on a refused transfer, for attempt k.
Verdict(k) == IF k = 1 THEN "failed" ELSE SecondVerdict

\* mark_pending_failed or mark_pending_ambiguous
NoteVerdict(p, v) == failedTx' = IF v = "failed" THEN failedTx \cup {act[p].tx.id} ELSE failedTx

SendReply(p, k) ==
  LET r == act[p].reply IN
  /\ act[p].pc = (IF k = 1 THEN "send1" ELSE "send2") /\ r # "none"
  /\ IF ~Matches(p)
     THEN Finish(p) /\ KeepSamples /\ UNCHANGED <<job, feeCache, failedTx>>
     ELSE
     \/ /\ r = "ok" /\ UNCHANGED <<feeCache, failedTx>>
        /\ IF act[p].tx.id[2] = "topup"
           THEN Dispatch(p, Accepted(job), act[p].n)
           ELSE Settle(p, Completed(job))
     \/ /\ r = "retry" /\ k = 1
        /\ Wait(p, [act[p] EXCEPT !.pc = "send2", !.reply = "none"])
        /\ KeepSamples /\ UNCHANGED <<job, feeCache, failedTx>>
     \/ /\ r = "badfee" /\ feeCache' = fee
        /\ NoteVerdict(p, Verdict(k)) /\ StopForFee(p, job)
     \/ /\ r = "failed" \/ (r = "retry" /\ k = 2)
        /\ NoteVerdict(p, Verdict(k)) /\ Settle(p, Unclean(job))
        /\ UNCHANGED feeCache
  /\ UNCHANGED since /\ SamplesKept

\* mark_pending_completed: relay_minted_cycles_since_sample
Corrected(t, m) == [since EXCEPT ![t] = @ + m]

NotifyReply(p, k) ==
  LET r == act[p].reply
      i == act[p].tx.id[3] IN
  /\ act[p].pc = (IF k = 1 THEN "notify1" ELSE "notify2") /\ r # "none"
  /\ IF ~Matches(p) THEN Finish(p) /\ KeepSamples /\ UNCHANGED <<job, since>>
     ELSE
     \/ /\ r = "ok"
        /\ LET m == mint[act[p].tx.id]
           IN  /\ Settle(p, Minted(job, i, m))
               /\ since' = Corrected(job.items[i].t, m)
       
     \/ /\ r # "ok" /\ k = 1
        /\ Wait(p, [act[p] EXCEPT !.pc = "notify2", !.reply = "none"])
        /\ KeepSamples /\ UNCHANGED <<job, since>>
     \/ /\ r # "ok" /\ k = 2
        /\ Settle(p, Unclean(job)) /\ UNCHANGED since
  /\ UNCHANGED <<feeCache, failedTx>> /\ SamplesKept

\* Faults of the world are bounded.
Fault == left.faults > 0 /\ left' = [left EXCEPT !.faults = @ - 1]

\* A callback traps: the guard is dropped, the journalled state stays.
Trap(p) == /\ act[p].pc # "idle" /\ act[p].reply # "none" /\ Finish(p) /\ Fault
           /\ UNCHANGED <<nextId, job, accounting, fails, estimate, feeCache,
                          ledger, cmc, late, failedTx, doubt>>

-----------------------------------------------------------------------------
(* The outside world.                                                       *)

Sending(p) == act[p].pc \in {"send1", "send2"} /\ act[p].reply = "none"
Asking(p)  == act[p].pc \in {"notify1", "notify2"} /\ act[p].reply = "none"
Answer(p, r) == act' = [act EXCEPT ![p].reply = r]
Mine == <<lease, nextId, job, accounting, fails, estimate, feeCache, failedTx, doubt>>

\* The ledger debits the transfer once.
Debit(x) == /\ x.id \notin executed /\ balance >= x.gross
            /\ executed' = executed \cup {x.id} /\ balance' = balance - x.gross
            /\ UNCHANGED <<fee, aged>>

\* The fee a transfer was planned with; jobs carry it.
FeeIsRight(x) == x.gross - x.amount = fee

LedgerReply(p) ==
  LET x == act[p].tx IN
  /\ Sending(p)
  /\ \/ ~FeeIsRight(x) /\ Answer(p, "badfee") /\ UNCHANGED <<ledger, late, left>>
     \/ /\ FeeIsRight(x) /\ x.id \in aged
        /\ Answer(p, "failed") /\ UNCHANGED <<ledger, late, left>>
     \/ /\ FeeIsRight(x) /\ x.id \notin aged /\ x.id \in executed
        /\ Answer(p, "ok") /\ UNCHANGED <<ledger, late, left>>   \* Duplicate
     \/ /\ FeeIsRight(x) /\ x.id \notin aged
        /\ Debit(x) /\ Answer(p, "ok") /\ UNCHANGED <<late, left>>
     \/ /\ FeeIsRight(x) /\ x.id \notin aged \cup executed /\ balance < x.gross
        /\ Answer(p, "failed") /\ UNCHANGED <<ledger, late, left>>
     \/ /\ Fault /\ Answer(p, "retry") /\ UNCHANGED ledger   \* unavailable, or given up
        /\ late' \in {late, late \cup {[kind |-> "send", tx |-> x]}}
  /\ UNCHANGED <<Mine, cmc>>

MintCycles(x) ==
  /\ x.id \in executed /\ x.id \notin refused \cup DOMAIN mint
  /\ \E r \in Rates :
       /\ mint' = [i \in DOMAIN mint \cup {x.id} |->
                     IF i = x.id THEN x.amount * r ELSE mint[i]]
       /\ cycles' = [cycles EXCEPT ![x.t] = @ + x.amount * r]
  /\ UNCHANGED refused

CmcReply(p) ==
  /\ Asking(p)
  /\ LET x == act[p].tx IN
     \/ /\ x.id \in DOMAIN mint /\ Answer(p, "ok") /\ UNCHANGED <<cmc, late, left>>
     \/ MintCycles(x) /\ Answer(p, "ok") /\ UNCHANGED <<late, left>>
     \/ /\ x.id \in refused /\ Answer(p, "terminal") /\ UNCHANGED <<cmc, late, left>>
     \/ /\ x.id \notin DOMAIN mint \cup refused /\ Fault
        /\ refused' = refused \cup {x.id}
        /\ Answer(p, "terminal") /\ UNCHANGED <<mint, cycles, late>>
     \/ /\ Fault /\ Answer(p, "retry") /\ UNCHANGED cmc
        /\ late' \in {late, late \cup {[kind |-> "notify", tx |-> x]}}
  /\ UNCHANGED <<Mine, ledger>>

LateRequest ==
  /\ \E r \in late :
       /\ late' = late \ {r}
       /\ \/ /\ r.kind = "send" /\ r.tx.id \notin aged /\ FeeIsRight(r.tx)
             /\ Debit(r.tx) /\ UNCHANGED cmc
          \/ r.kind = "notify" /\ MintCycles(r.tx) /\ UNCHANGED ledger
  /\ UNCHANGED <<Mine, act, left>>

\* More than a day passes: the ledger refuses the identity from now on.
Age == /\ aged' = aged \cup Ident /\ aged' # aged
       /\ job.pending.accepted = FALSE /\ Fault
       /\ UNCHANGED <<Mine, act, fee, balance, executed, cmc, late>>

\* Cycles are read when an activation starts and when it probes, the balance
\* when it plans: while a job runs, both commute with what it does.
Burn == /\ left.burns > 0 /\ job = None
        /\ \E S \in SUBSET {t \in Target : cycles[t] > 0} :
             cycles' = [t \in Target |-> IF t \in S THEN cycles[t] - 1 ELSE cycles[t]]
        /\ cycles' # cycles
        /\ left' = [left EXCEPT !.burns = @ - 1]
        /\ UNCHANGED <<Mine, act, ledger, mint, refused, late>>

Deposit == /\ left.deposits > 0 /\ job = None
           /\ left' = [left EXCEPT !.deposits = @ - 1]
           /\ balance' = balance + DepositAmount
           /\ UNCHANGED <<Mine, act, fee, executed, aged, cmc, late>>

FeeChange == /\ Fault
             /\ fee' \in Fees \ {fee}
             /\ UNCHANGED <<Mine, act, balance, executed, aged, cmc, late>>

-----------------------------------------------------------------------------
Replies(p) == \/ StageDone(p) \/ ProbeReply(p) \/ BalanceReply(p)
              \/ QuoteReply(p) \/ ResolveReply(p)
              \/ \E k \in 1 .. 2 : SendReply(p, k) \/ NotifyReply(p, k)
Outside(p) == LedgerReply(p) \/ CmcReply(p)

Next == \/ \E p \in Proc : Start(p) \/ Replies(p) \/ Outside(p) \/ Trap(p)
        \/ LateRequest \/ Age \/ Deposit \/ FeeChange \/ Burn

Spec == Init /\ [][Next]_vars

-----------------------------------------------------------------------------
(* Types.                                                                   *)

Kinds == {"topup", "surplus"}
Ids == Nat \X Kinds \X (Nat \ {0})
Txs == [id : Ids, t : Accounts, gross : Nat, amount : Nat, accepted : BOOLEAN]
Samples == [Target -> Int]
Item  == [t : Target, need : Nat, gross : Nat, amount : Nat, minted : Nat]
Share == [t : Accounts, gross : Nat, amount : Nat]
Jobs(I) == [id : Nat, fee : Nat, bal : Nat, seen : Samples, items : I,
            next : Nat, surplus : Seq(Share), snext : Nat, planned : BOOLEAN,
            pending : Txs \cup {None}, dirty : BOOLEAN]
IsJob(j) ==
  /\ j \in Jobs({j.items})
  /\ j.items \in [DOMAIN j.items -> Item] /\ DOMAIN j.items \subseteq DOMAIN Targets
Sends == {"send1", "send2"}
Asks  == {"notify1", "notify2"}
Acts == [pc : {"idle", "stage", "probe", "balance", "quote", "resolve"}
              \cup Sends \cup Asks,
         main : BOOLEAN, id : Nat, seen : Samples \cup {None}, bal : Nat,
         own : Nat, n : Nat, expired : SUBSET Ids, tx : Txs \cup {None},
         reply : {"none", "ok", "retry", "badfee", "failed", "terminal"}]

\* The value that stands for None is no transfer and no job.
ASSUME NoneAssumption ==
  /\ None \notin Txs
  /\ None \notin Jobs(UNION {[D -> Item] : D \in SUBSET DOMAIN Targets})

\* Every variable keeps its type: no balance and no debt goes negative.
TypeOK ==
  /\ lease \in Proc \cup {None} /\ act \in [Proc -> Acts]
  /\ nextId \in Nat /\ (job # None => IsJob(job))
  /\ base \in Samples /\ since \in [Target -> Nat] /\ debt \in [Target -> Nat]
  /\ fails \in [Target -> Nat] /\ estimate \in Nat /\ feeCache \in Nat \cup {None}
  /\ fee \in Nat /\ balance \in Nat /\ executed \subseteq Ids /\ aged \subseteq Ids
  /\ DOMAIN mint \subseteq Ids /\ mint \in [DOMAIN mint -> Nat] /\ refused \subseteq Ids
  /\ cycles \in [Target -> Nat]
  /\ late \subseteq [kind : {"send", "notify"}, tx : Txs]
  /\ left \in BudgetSet /\ failedTx \subseteq Ids /\ doubt \subseteq Ids

-----------------------------------------------------------------------------
(* Properties.                                                              *)

\* What the books hold of a target: its sample, what was minted for it since,
\* and what it is still owed.
Book(t) ==
  LET mine == IF job = None THEN {} ELSE {i \in DOMAIN job.items : job.items[i].t = t}
  IN  IF mine = {} THEN base[t] + since[t] + debt[t]
      ELSE LET i == CHOOSE k \in mine : TRUE
           IN  job.seen[t] + since[t] + Monus(job.items[i].need, job.items[i].minted)

\* Infrastructure need is not forgotten: whatever failed, was unobserved, not
\* funded, or taken over by another activation, no step of the Relay lets the
\* books of a sampled target shrink (complete_job, complete_baseline_sample,
\* complete_no_funds_sample, mark_pending_completed).
DebtRemembered == [][\A t \in Target : base[t] >= 0 => Book(t)' >= Book(t)]_vars

\* Surplus leaves only when every top-up of the same job was really minted in
\* full, also when a successor took the job over while the recipients were
\* being resolved (plan_surplus_phase, next_surplus_pending).
SurplusAfterRecovery ==
  job # None /\ job.pending # None /\ job.pending.id[2] = "surplus" =>
    \A i \in DOMAIN job.items :
      LET id == <<job.id, "topup", i>>
      IN  (IF id \in DOMAIN mint THEN mint[id] ELSE 0) >= job.items[i].need

\* A transfer counted as failed, and so as known_unspent, was not executed and
\* never will be, unless two activations had dispatched it: an open outcome of
\* the first attempt makes it ambiguous (drive_pending_transfer).
FailedIsUnspent ==
  \A id \in failedTx \ doubt : /\ id \notin executed
                       /\ \A r \in late : r.tx.id = id => r.kind # "send"

\* What the job believes was minted for a target was minted for it, once: no
\* late answer of a superseded activation is counted again
\* (mark_pending_completed).
MintedOnce ==
  job # None => \A i \in DOMAIN job.items :
    LET id == <<job.id, "topup", i>>
    IN  job.items[i].minted \in {0} \cup (IF id \in DOMAIN mint THEN {mint[id]} ELSE {})
=============================================================================

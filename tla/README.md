# TLA+ specifications of the Jupiter Faucet suite

The suite turns the maturity of one NNS neuron into ICP and cycles for many
canisters. This directory holds TLA+ models of its value-moving and
bookkeeping parts, the TLC configurations that check them on small instances,
and TLAPS proofs of nearly all safety properties for every instance. `PROJECT.json`
maps each definition to the source lines it models and lists components, runs,
mutants, hazards and theorems.

## The system

| part | state it keeps | operations | who it talks to |
| --- | --- | --- | --- |
| disburser | lease, payout plan and nonce, age snapshot, last run and last success, rescue state | main tick, poke, rescue tick, upgrade | ICP ledger, NNS Governance, management canister |
| faucet | lease, active payout job, skip ranges, summary, rescue latches, pending transfer and its dispatch record | main tick, poke, rescue tick, upgrade | ICP ledger and Index, CMC, Governance, management canister |
| relay | main and splitter leases, allocation job with baselines and debts, splitter job and quarantine, pinned reward plan | daily tick, poke, continuation, splitter retry, reward sweep | ICP and SNS ledgers and Indexes, CMC, sns-rewards, the probed canisters |
| historian | journal of the Relay factory with its admission tickets, cursors and totals of three ledger accounts, registries | main tick, endowment poke, factory notify, upgrade | management canister, CMC, ledger, Index, XRC |
| sns-rewards | daily snapshot of neuron owners in two slots | scan tick, context and resolve queries | SNS Root and Governance |
| lifeline | none | none | none |
| frontend | certified assets | queries | historian |
| ic-clients | none (`TimerLeaseGuard`, typed clients) | lease, calls | all external canisters |

The value flows one way. The disburser disburses the neuron's maturity into
its staging account and splits it by the neuron's age over three destinations,
one of which is the faucet's payout account. A deposit there is a *tranche*;
the faucet divides each tranche over the commitments recorded on the ledger:
cycles top-ups through the CMC, raw ICP, neuron stakes. Relays are canisters
made by the historian's factory for one user each; they top up the canisters
they manage, pay the surplus on, split what arrives on their splitter
accounts, and pass SNS rewards on to the neuron owners behind the ICP. The
historian indexes the accounts and answers for what it has seen.

Canisters of the suite meet on the ledger, with one exception: the Relay's
reward sweep asks sns-rewards for the neuron owners. That interface has an
abstract specification of its own (`OwnerDirectory`); the scan is shown to
implement it and the sweep is checked against it.

### What is hard

* **Awaits.** Between two awaits a canister is atomic; at every await any other
  message may run. A timer tick and a poke both drive the same stored plan or
  job. They are kept apart by a lease stored as an expiry time, which may run
  out while its holder waits for a reply; the commitment index has a second,
  renewable lease that a tick may take from a poke; the factory has no lease
  at all once money has moved, only the phase of a journal entry.
* **Calls without an answer.** Value-moving calls use bounded waits: the
  request or the reply may be lost, and a request may be executed after the
  caller gave up. The ledger recognises a repeated transfer only while its
  creation time is inside its window.
* **Traps and upgrades.** A callback may trap after the call it belongs to took
  effect; heap state and timers do not survive an upgrade, stable state does.
* **Stale readings.** Balance, fee, neuron age, cursor, owner and price are
  read before awaits and used afterwards.
* **Partial work.** One transfer of several fails, one page of a scan is lost,
  one target is not observed; what was not done must not be forgotten.
* **Readers of what others wrote.** The reward sweep reconstructs from the
  ledger's history what a splitter did, with no other record of it.
* **Arithmetic.** Shares are rounded, fees change between planning and sending,
  amounts at or below the fee are not sent.

### Component by component

**Disburser payout** (`tick.rs`, `payout_plan.rs`, `logic.rs`, `state.rs`).
A main tick pays out the staging account (existing plan first, otherwise
balance, fee, new plan), reads the neuron, starts the disbursement, refreshes
voting power; a poke only pays out. Correct when: one lease holder; an identity
is paid once; the stored plan is always covered; the age applied is that of the
disbursement the ICP came from; late callbacks do not damage newer state; every
activation ends.

**Disburser scheduled retry** and **poke coalescer** (`MAIN_RUN_MARKER`,
`SCHEDULED_MAIN_RETRY_PENDING`, `poke.rs`). Both compete for the one lease.
Correct when a refused tick is followed by a main run, with one live retry at a
time, and when hints are spaced, do not starve, and the newest is followed by
an attempt.

**Disburser rescue** (`rescue.rs`, `policy.rs`). Correct when the controllers
converge to what the policy asks for although decision and record are separated
by an await.

**Faucet payout job** (`scheduler/tick.rs`, `route_accounting.rs`,
`cmc_notify.rs`, `cmc_notify_transfer.rs`, `state.rs`). Correct when no
commitment is paid twice or skipped, what is spent stays within what is booked
and that within the tranche, an outcome that is counted is true, tranches are
paid in order, the accounting checks never trip by themselves.

**Relay allocation job** (`scheduler/tick.rs`, `transfer.rs`, `guards.rs`,
`logic.rs`, `state.rs`). An activation probes the targets' cycles, computes
what each burned since its baseline plus what it is still owed, divides the
balance, mints cycles through the CMC, then pays a surplus to raw-ICP
recipients. Correct when need is never forgotten, surplus leaves only after
full recovery, nothing minted is counted twice, and what is counted as unspent
is unspent.

**Relay splitters** (`splitter.rs`, `splitter_state.rs`). Correct when a leg is
paid once under whichever identity, a dropped job moved nothing, a completed
one everything, no activation overwrites another's job, quarantine is
justified, and the history left on the ledger can be attributed.

**Relay reward sweep** (`reward_sweep.rs`, `reward_state.rs`,
`reward_splitter.rs`, `reward_history.rs`). Correct when a pinned plan stays
payable to the end, is derived from one owner directory, is never replaced, and
nobody in it is passed over without cause.

**Historian Relay factory** (`relay_setup.rs`, `relay_setup/admission.rs`).
Correct when each irreversible effect of a creation happens at most once and
in order, a reservation is not taken from a live call, capacity is kept, money
spent is never forgotten, and the price that was quoted is enough.

**Historian indexing** (`scheduler/tick.rs`, `commitment_index*.rs`,
`endowment_poke.rs`, `route_transfer_indexer*.rs`). Correct when every
transaction enters the totals exactly once although histories forget old
entries, and when what callers are told about coverage is true.

**sns-rewards owner scan** (`scheduler.rs`, `state.rs`, `policy.rs`). Correct
when what is answered is one whole scan, an id never names two directories, and
the scan never stalls.

## Modules

| module | models | checked by |
| --- | --- | --- |
| `TimerLease` | `TimerLeaseGuard`: acquire at `expiry <= now`, release only of one's own token | used by most below |
| `PayoutSplit` | the age-dependent split and the plan built from it | through `Disburser`, `DisburserProofs` |
| `Disburser` | main tick and poke, ledger and Governance | `MCDisburser*.cfg`, `DisburserProofs` |
| `RetryBounds`, `MainRetry` | the refused tick's retry | through `DisburserTimers`, `DisburserProofs` |
| `PokeInterval`, `PokeCoalescer` | hints, immediate and trailing attempts | through `DisburserTimers`, `DisburserProofs` |
| `DisburserTimers` | the composition of the two over one lease | `DisburserTimers.cfg`, `DisburserProofs` |
| `DisburserRescue` | rescue tick, policy, upgrade arguments | `MCDisburserRescue*.cfg` |
| `FaucetPayout` | the faucet's payout job, ledger, Index, CMC | `MCFaucetPayout.cfg`, `FaucetPayoutProofs` |
| `RelayAllocation` | the arithmetic of `logic.rs`: needs, proportional division, surplus shares | through `RelayJob`, `RelayJobProofs` |
| `RelayJob` | the allocation job, ledger, CMC, probes | `MCRelayJob.cfg`, `RelayJobProofs` |
| `RelaySplitter` | splitter jobs, ledger | `MCRelaySplitter.cfg`, `RelaySplitterProofs` |
| `SplitterProvenance` | the reward sweep's replay of a splitter's history, over `RelaySplitter` | `MCRelaySplitter.cfg` |
| `OwnerDirectory` | abstract: what sns-rewards promises to the Relays | implemented by `OwnerScan`, used by `RelayRewards` |
| `OwnerScan` | the daily owner scan | `MCOwnerScan.cfg`, `OwnerScanProofs` |
| `RelayRewards` | the weekly reward sweep, over `OwnerDirectory` | `MCRelayRewards.cfg`, `RelayRewardsProofs` |
| `RelaySetupContract` | abstract: the effects of one creation, once each and in order | implemented by `RelaySetup` |
| `RelaySetup` | the factory: quote, admission, journal, recovery | `MCRelaySetup.cfg`, `RelaySetupProofs` |
| `HistorianIndex` | commitment and route indexing, coverage answers | `MCHistorianIndex.cfg`, `HistorianIndexProofs` |

The models share one shape. An activation is a member of `Proc` (or `Ticks`,
`Pokes`, `RTick`) with a record `act[p]`: `pc` names the call it awaits, the
other fields are its local variables and the reply. **The code between two
awaits is one action.** A reply makes the callback enabled; the callback runs
the whole code up to the next await. The environment (ledger, CMC, Governance,
Index, clock, loss, trap, upgrade) has its own actions. A definition introduced
by a comment `Mutant:` is a wrong variant of the mapped definition that follows
it, used to show that a property can fail; no specification contains it.

Two modules have a variable that is chosen in `Init` and never changes:
`round` in `FaucetPayout` (the pinned history and the ledger the behaviour
starts from) and `load` in `HistorianIndex` (how many transactions each account
may receive). One run then covers several scenarios, each with bounds of its
own.

### Disburser

Requests to one canister are delivered in the order they were sent (`ledgerQ`,
`govQ`), which the Internet Computer guarantees; a bounded-wait request may be
dropped and a reply may be lost, which the caller sees as an unknown outcome.
A caller does not give up a request that is still queued: because of the order,
such a request is executed before anything a later activation asks of the same
canister, as it is when the lease of its waiting sender is taken over.
The lease is tested with the clock of the message, so it may expire during any
await. A share of 0 stands for one that is at or below the fee and not sent.
An upgrade happens only on a stopped canister, that is with no call open, since
a callback of the old code could not run in the new one; it clears the lease
and arms the forced tick. Governance finalises a disbursement in one step.
`staged` and `planCover` are history variables: the ages of the disbursements
whose ICP is in staging, and of those the plan pays out.

### DisburserTimers

`MainRetry` and `PokeCoalescer` are the two ways into the disburser's lease.
The composition extends the first and instantiates the second: an attempt the
admission gate lets through takes the lease if it is free, and a tick that
comes meanwhile is refused. Both sets of cells are heap-only, so one upgrade
resets both. Timers may fire arbitrarily late.

### FaucetPayout

Variables: the clock `now` and `lastStart`, the canister state `st` (`lock`,
`nonce`, `processed`, `job`, `dispatch`, `forced`), the activations `act`, the
outside world (`funded` tranches, `balance`, `blocks`, requests still on their
way `late`, `minted`, `refunded`, `rejected`), and `closed`, the history of
finalised jobs. A transfer a caller gave up may be executed later. A callback
may trap; the drop of the guard then releases the lease and what was not
written is lost. Two activations never start at the same reading of the clock,
because the clock moves between rounds. An upgrade is refused while a job is
active (`state.rs:508`), so it is not an action. The round's dust is ICP in the
payout account that no tranche brought; without it a second payment would fail
for lack of funds and a fault would be hidden. Fee and staking balance reads
and the funding search are merged into neighbouring awaits; counters are kept
as one outcome for each commitment.

Two assumptions go beyond types. `PaceAssumption`: between two rounds of the
Internet Computer the clock advances by more nanoseconds than a job has
transfers, and the ledger's tolerance for the future (60 s) is at least as
many. The job allocates creation times one nanosecond apart from its start, or
from the start of the activation that finds them outside the ledger's window
(`cmc_notify.rs:13-26`), at most two for each commitment, so they stay apart
from the times a later start brings and are never refused as too new.
`NoneAssumption`: the values that stand for `None` are no values.

### RelayAllocation and RelayJob

`RelayAllocation` holds the arithmetic of `logic.rs` as operators over the
indices of a job: burn, headroom, the proportional division with the largest
remainders, the spend-all plan, equal surplus shares. `RelayJob` drives it: an
activation takes the main lease, waits for the stages before it, probes every
target, reads balance, fee and rate, plans, and sends one transfer at a time
through ledger and CMC, with a second attempt where the code makes one; when
the top-ups are closed the surplus recipients are resolved over one await each.
A lease may be taken over while its holder awaits an answer, and the late
answer is compared with the pending transfer only, as in the code. What can go
wrong is bounded by a budget of jobs, takeovers, faults, burns and deposits
that a behaviour may spend. `doubt` records transfers that two activations had
dispatched, which `FailedIsUnspent` excludes; it speaks of the two attempts of
one activation, the first of which may have an unknown outcome. Across
activations it would not hold: a refusal of the successor's first
attempt marks the transfer failed, although its predecessor's attempt may have
been executed (`transfer.rs:245-260`). Such a transfer is booked as unspent
when it may be spent; the job is then unclean and pays no surplus, which
`SurplusAfterRecovery` confirms.
The faucet commitment of subaccount 1 is a stage before the job that may hold
the tick up.

### RelaySplitter and SplitterProvenance

Activations are the main stage of a tick or poke, and the hourly retry; both
take the splitter lease. The main lease around the main stage is left out,
which allows more interleavings than the code. The ledger is trusted on one
point: a typed error means that this request was not executed; it may report
insufficient funds without cause. It may deduplicate and accept for longer than
the code believes (`LedgerWindow >= Window`). The pinned ledger is left out
(an upgrade that would change it is refused while a job is active), and so is
the overflow of a nanosecond timestamp.

`log` is the ordered history of each splitter account. `SplitterProvenance` is
its reader: `reward_splitter.rs` walks the account's history back to a moment
at which the account was empty and replays it, a default leg opening a job and
a subaccount 1 leg closing it over whole deposits, oldest first. A history that
does not fit makes the sweep refuse the reward. `Attributable` says that every
history the writer can leave behind can be read, from every place at which the
reader may begin, and that the shares it attributes add up.

### OwnerDirectory, OwnerScan, RelayRewards

`OwnerDirectory` has two operations, publish and withdraw; ids only grow and
the content of an id never changes. `OwnerScan` models the scan with its timer,
continuations, lease, pages, owner selection by permissions, the two slots,
page cap, failures, a change of the SNS and upgrades, while neurons change
hands; under the mapping in `Directory` it implements `OwnerDirectory`.
`RelayRewards` extends `OwnerDirectory` and models the sweep over it: context,
pot and fee, the batch, resolution of owners one call at a time, the plan
pinned in stable memory, two attempts for each recipient, slices that share the
lease, expiry, late requests. The lease is that of the tick and is taken before
the funding pipeline, which is one wait (`TickBegins`, `TickEnds`); the work
budget begins with the sweep (`Process`), so it may outlive the lease. A ledger
may refuse a recipient (`BadBurn`) or a plan. A slice may run out of its work
budget before any call, which stands for the budget's counters, and also after
the last recipient (`reward_sweep.rs:1200-1211`). Then the plan is gone, the
drive counts as held and no sweep is recorded: the next one is due with the
next tick, not a week later. `st.uncounted` is the history of such plans. While
their requests are young enough for a ledger to take them, a new plan has to
share the pot with them, so `PotCovers` says nothing of a plan pinned within
`LedgerWindow` of one, and `OldRequestsDead` nothing of their requests.

### RelaySetup

The whole life of a setup: admission ticket, first balance reading, reservation
under the capacity limit, quote, neuron and target probes, payment, minting,
child creation, install, reconciliation, seed funding, hand-over of control,
activation, manual recovery, reclaim of abandoned reservations, and the
reconciliation that follows an upgrade. A ledger or CMC call may be given up
and executed later; a management call that reports an error may have taken
effect. A setup is canonicalised (order and duplicates) and otherwise a model
value. `broken` is a history variable: setups that failed for want of money or
cycles although the fee had not risen since their quote. `RateAssumption` says
what the safety margin of the configuration is for: cycles bought at one rate of
`Rates` are enough at any other. The run has one rate and an operator who may
change `relay_initial_cycles`; changing rates are left to the proof.
`RequestAssumption`: targets come as a list.

### HistorianIndex

A tick that finds the lease taken does nothing; one that comes too early after
the last run gives its lease back at once and counts as that run
(`TickTooEarly`). The staking account is indexed by the main tick and by pokes under the index
lease, the two route accounts by the main tick alone under the main lease and
the identity of the route sweep. The Index serves pages newest first. Cursors,
catch-up, backfill, retained history and the renewal and generation of the
lease are as in the code; `counted` says how often each transaction entered the
totals, and the retained histories forget all but the newest entries, as the
configuration bounds them.

## Runs

Distinct states are those of the instance in the `.cfg`; each run ends within
three minutes on two cores.

| run | bounds | states | properties |
| --- | --- | --- | --- |
| `disburser` | 2 activations, clock 1..3, lease 1, 2 batches of 200, 2 plans | 1.09M | `LeaseExclusive`, `IdentityPaidOnce`, `PlanFunded`, `SentIsExecuted`, `AgeSnapshot`, `PlanOnlyAdvances` |
| `disburser_live` | fees {1, 2}, 1 deposit of 200, 1 plan, fairness | 181k | `PlanFunded` when the fee changes at any moment, `ActivationEnds` |
| `rescue` | windows 1, 2, 2; clock to 5; 1 upgrade; fairness | 59k | `ControllersConverge` |
| `rescue_latch` | same | stops at the violation | the finding below |
| `disburser_timers` | interval 3, hints until 7, 3 ticks, marker to 10, fairness | 261k | `TrailingAdmitted`, `RefusedHasRetry`, `HintServed`, `RefusedTickRuns` |
| `faucet` | 5 rounds: a top-up with dust; raw + top-up on one page; stake + 2 raws on two pages; 2 stakes on one page; 2 tranches | 1.19M | `Accounted`, `PaidOnce`, `OutcomesTrue`, `NoneSkipped`, `NoFalseRescue`, `TranchesInOrder` |
| `splitters` | 2 splitters, 2 deposits of 10, fees {1, 6}, clock in strides of 4 to 16 | 1.30M | `EndsJustified`, `LegPaidOnce`, `Covered`, `Attributable` |
| `relay_job` | 2 targets and 1 recipient; 1 job with a takeover and a fault, or 2 jobs with 2 faults | 1.53M | `SurplusAfterRecovery`, `FailedIsUnspent`, `MintedOnce`, `DebtRemembered` |
| `relay_rewards` | 2 activations, 2 batches, 3 owners, 2 SNS, clock 1..4, lease 2, 1 outside event or plan completed uncounted | 1.86M | `PotCovers`, `OldRequestsDead`, `PlanFromOneDirectory`, `NobodySkipped` |
| `relay_setup` | 2 calls over 2 setups, capacity 1, 3 tickets, clock to 2 | 635k | `ReservationSafe`, `SpendingIsJournalled`, `PromiseKept`, `ImplementsContract` |
| `owner_scan` | 2 ticks, 3 neurons, pages of 1, 2 scans, 1 change of a neuron, 1 upgrade | 525k | `SnapshotFaithful`, `ScanMovesOn`, `ImplementsDirectory` |
| `historian_index` | 2 ticks and a poke, pages of 2, up to 5 transactions, 4 loads, gap between runs 2, clock 0..2 | 517k | `TotalsExact`, `ClaimsTrue` |

What they show, beyond the component's own sentences above:

* `disburser`, `faucet`, `relay_job` and `splitters` ask the same question of
  four different protocols: an activation loses its lease during a call, a
  second one drives the same work, and both answers arrive in either order.
  Nothing is paid under two identities, nothing is recorded that did not
  happen, nothing is dropped that did.
* `splitters` also composes a writer and a reader that never talk to each
  other: whatever deposits, late legs, new identities and changed fees the
  writer meets, the sweep can attribute the history it leaves
  (`Attributable`).
* `relay_job` follows the need of each target through unobserved probes,
  failed and partly funded jobs (`DebtRemembered`): the books of a sampled
  target never shrink by a step of the Relay.
* `relay_setup` and `owner_scan` are refinements. The first hides eleven
  journal phases behind six effects that happen once and in order; the second
  hides slots, pages and leases behind a directory with ids.
* `relay_rewards` is the client of that directory: while owners are resolved
  one call at a time, a scan may complete or the SNS may be changed. The lease
  may be taken over while a budget is live, because the tick's funding stage
  uses it up; the holder must then stop at its next check.
* `historian_index` gives two walks over the same range every chance to count a
  transaction twice; retained histories are one entry long, so nothing but
  leases and cursors prevents it.

**Why the bounds are enough to be interesting.** Two activations are the
smallest number in which one takes over the other's lease; a third would only
be one more holder that lost it. Two plans, two jobs, two scans or two tranches
are what a reused identity or an overwritten record needs. The disburser's
clock has room for start, takeover and the next cadence, and the batch of 200
with an age denominator of 4 yields plans with one and with three transfers. In
`FaucetPayout` the clock moves in strides of 8 with a lease of 8 and a maximal
age of 12: a second activation resumes a transfer in its window, a third finds
it expired; in the round of two payouts the refund of the top-up is below the
fee. In `RelaySplitter` the bootstrap fee is 6 and the ledger may ask for 1 or
6: with 6 the plan of a single deposit is infeasible and two deposits must be
split together, with 1 it is not; a job planned under one fee may be refused
under the other, leg by leg. The window of the code (4) is shorter than the
ledger's (12), so a transfer may be executed long after the code gave it up.
In `RelayJob` one e8 buys one cycle, and the deposit of 9 covers the needs of
both targets or falls short of them according to fee and burn. In `RelaySetup`
the capacity of one lets two calls pass the first check together. In
`HistorianIndex` four transactions over pages of two leave a catch-up
unfinished between two pages, with arrivals above it; five take more than one
tick's pages; and with a gap of 2 a tick that comes too early frees the lease
of one that is still waiting. In `RelayRewards` a week is 2 and a ledger's
window 1, the closest `RewardAssumption` allows, and the clock of 4 has room for
a plan, its expiry and the next sweep. The runs of safety
properties use the symmetry of the activations, which no definition tells
apart. `CHECK_DEADLOCK FALSE` stands where the bounded clock or budget lets the
system stop.

**Fairness.**
* `Disburser`: `WF` of the ledger's and Governance's next step and of each
  callback. Bounded-wait calls end by their deadline; the replica runs a
  callback once there is a reply or a timeout. Starting an activation is not
  fair.
* `DisburserRescue`: `WF` of the clock, of replies and of an outcome of each
  request; `SF` of starting a tick and of `update_settings` being applied. The
  last says that a call repeated for ever is not refused for ever; without it no
  controller change can be promised.
* `MainRetry`: `WF` of armed retry timers, of the end or expiry of a run, of
  the cadence. The interval timer is not assumed to fire again.
* `PokeCoalescer`: `WF` of the clock and of due timers.
* `DisburserTimers` conjoins the last two.

The other modules are checked for safety only. `ScanMovesOn` is the safety half
of the scan's progress: there is always a timer, a continuation or a lease
holder that will move it.

**Finding.** `rescue_latch` checks the sentence "A later healthy transfer
narrows the canister back to self-only control." (disburser `README.md:192`).
Once the bootstrap latch is set, the code keeps asking for both controllers
after a healthy transfer (`rescue.rs:98-100`), until an upgrade passes
`clear_forced_rescue`.

A remark on the faucet's `failed_topups`, which its `README.md:389` calls
"deterministic beneficiary failures". A failed lookup of a neuron's staking
subaccount is counted at once (`route_accounting.rs:811-821`), and the cursor
moves past its record later. When the activation ends between the two, the next
one reads the record again and may pay the commitment that the job has counted
as failed. No ICP is at risk: `PaidOnce` and `NoneSkipped` hold, and
`OutcomesTrue` names this case as its exception.

## Proofs

All theorems hold for every value of the constants allowed by the named
`ASSUME`s of the modules, in particular for any set of activations, any lease
length, any fees and any number of plans.

**`DisburserProofs`.** First the arithmetic. `SplitConserves`: the three gross shares add up to the
staged balance for every balance, age and percentage. `PlanWithinBalance`: the
debits of a new plan stay within the balance it was built from. Both are
arithmetic: bounds of the integer divisions, then sums.

Then `TypeCorrect`, `LeaseIsExclusive`, `IdentityIsPaidOnce` and
`SentWasExecuted`, from one inductive invariant:

    IInv == TypeOK /\ SendingOK /\ LeaseInv /\ IdInv
            /\ IdentityPaidOnce /\ SuccessInv /\ SentIsExecuted

`LeaseExclusive` alone is not inductive: it needs that an unexpired activation
holds the stored expiry (`LeaseInv`). `IdentityPaidOnce` needs `IdInv`: every
id in use is below the nonce, and all copies of a plan (the stored one, those
held by waiting activations, what the ledger executed) agree on its transfers.
`SentIsExecuted` needs `SuccessInv`: a success not yet recorded is already on
the ledger. The proof has one step for each action; actions that change only
one activation go through the lemma `OwnStep`, the money part is separated in
`MoneyInv`. `IInv` is stated in `Disburser` itself so that TLC can evaluate it.

The rest of the disburser's safety, `PlanIsFunded`, `AgeIsSnapshot` and
`PlanAlwaysAdvances`, needs what is on its way to the services:

    FullInv == IInv /\ QueueInv /\ FundInv /\ AgeInv /\ StampInv

The queue of each service is ordered by lease (`QueueInv`): only the last
request can be of an activation whose lease is unexpired. So once a live
activation has its balance, nobody else's transfer is under way, and the
balance it plans from stays unspent. A transfer under way belongs to the stored
plan (`FundInv`), so the ledger debits exactly what the plan then owes no more.
From the neuron's answer until the plan is paid out no disbursement is in
flight or on its way (`AgeInv`), so one age is enough. A stale activation that
may still record a success began after the last one recorded, because the
plan's marks only grow (`StampInv`). The callbacks are grouped by the shape of
what they write (`Shape`), and each part of `FullInv` has one lemma per shape
and per action of the environment.

**The timers, in `DisburserProofs` too** (it extends `DisburserTimers`;
their state is apart from the payout's). Of the hints: `TrailingIsAdmitted`,
`WorkerNotStarved`, `AttemptsAreSpaced`, from `Waiting`: the deadline is the
newest hint plus the interval and not before the gate. Of the ticks:
`LiveRetryIsUnique`, `RefusedKeepsRetry`, from `Reserved`: a reservation is the
current marker's or none and is held by exactly one timer. The composition
implements both of its parts: `StepOfHints` and `StepOfTicks` show that every
step of `DisburserTimers` is a step of `PokeCoalescer`, and of `MainRetry`, or
leaves it alone. So `TrailingIsAdmittedBesideTicks` and
`RefusedKeepsRetryBesideHints` follow for the two together, which is the system
the run `disburser_timers` checks.

**`OwnerScanProofs`.** `SnapshotIsFaithful`, `ScanAlwaysMovesOn` and
`ScanImplementsDirectory`. The invariant follows the lease: leases of ticks in
flight differ and all but the newest have expired (`LeaseInv`), so what the
holder read before its call is unchanged when it comes back (`HolderInv`); a
scan stages the slot that is not active (`ScanInv`); the staging slot has the
kept owners of all pages below the cursor (`StageInv`), because a page that will
be stored has every kept neuron it stands for (`PageInv`). The last needs that a
full page of the least ids above a cursor leaves none out, an argument about
least and greatest elements of finite sets, which the module proves from the
well-foundedness of the natural numbers. The refinement is proved step by step
from the same invariant: only the end of a scan changes the directory, and it
publishes a slot nobody reads yet under a fresh id. Assumed of the constants
beyond the types: neurons and permission lists are finite, and the values that
stand for `None` are not values.

**`HistorianIndexProofs`.** `TotalsAreExact` and `ClaimsAreTrue`. Lemmas about
one page (`BackfillExact`, `CatchUpExact`, `ReadPageExact`) show that what a
page adds is exactly what the cursors cover after it and did not before,
whether it backfills or catches up. The invariant says why this is enough: the
call that holds the lease of an account goes on from the cursors that are saved
and its page is no older than they are (`StakingInv` for the fenced lease with
its generations, `RouteInv` for the main lease), and no other call writes.
Histories hold only transactions that are covered (`KeptInv`), which is what
the answer about a missing commitment rests on.

**`RelaySetupProofs`.** `ReservationIsSafe`, `SpendingJournalled`, `PromiseIsKept`
and `FactoryImplementsContract`. `JournalInv` reads each phase of the journal as a
statement about the world: what has been paid, minted, created, installed,
funded and handed over, and which requests are on their way. `WorldInv` says
each effect happens at most once and never while a request for it is on its
way; `OwnerInv` that between certain awaits an entry belongs to one call;
`CallInv` what an answer that has not been handled says of the world. The
phases alone are not inductive: a late request could repeat an effect whose
reply was lost, and only what the journal kept of it excludes that. Each step
of the factory is then a step of the contract of one setup, or none.

`PromiseIsKept` needs a second layer, `PriceInv`, on top of this one. From the
prepared payment until the child is funded, the account of a creation in
progress holds the payment, two fees and the minimum of the child, and after the
payment one fee less (`Affordable`); the payment buys the configured cycles at a
rate the CMC may use, and what was minted is enough (`Solvent`). A request that
may still be carried out is about the payment on record (`SameInv`), and what a
call read of the balance before its awaits is a lower bound until the payment is
made (`ToldInv`). An upgrade may change the configured cycles only while no
creation is in progress, and it ends every quote. So the two branches in which
the factory would break its promise are unreachable.

**`RelaySplitterProofs`.** `LegIsPaidOnce`, `SharesAreCovered` and
`JobsEndJustified`, from the invariant `IInv` of the module. It speaks of `Wild`,
the transfers that were executed or may yet be: the blocks, the late requests
and those of activations that still wait, current or not.

* `WildInv`: `Wild` has one transfer for each leg of each job, and no two of
  them have the same deduplication key, so an accepted reply, `Duplicate`
  included, stands for the very transfer that was asked for. Transfers of
  different jobs of a splitter differ in `created_at_time`: a job is pinned at
  the start of its activation, and everything pinned before is at most two
  nanoseconds beyond an earlier start. This is what `StrideAssumption` is for.
* `DeadInv`: a transfer that may yet be executed is of the active job or of a
  quarantined splitter, so a balance read for planning stays unspent.
* `JobInv`: a leg of the active job that shows no attempt has no transfer in
  `Wild`, so it may be dropped or get a new identity; its unpaid shares are
  covered.
* `EndedInv` and `QuarInv`: what became of the other jobs.
* `LeaseInv`, `HolderInv`: only the last activation to start can hold the
  lease, its job is the one stored, and with no earlier attempt in doubt nobody
  else has sent its leg.

The parts are operators of the state they speak of. Lemmas on jobs (`JobRepins`,
`JobAccepts`, `JobSeen`, `JobWaits`, `JobPlanned`) and on the store
(`StoreSends`, `StoreCompletes`, `StoreQuarantines`, `StoreExecutes`, ...) are
proved once; `DriveSettles` does so for the driver, which every callback that
goes on with a job enters,
and then each action is one step.

**`RelayRewardsProofs`.** `PotIsCovered`, `OldRequestsAreDead`,
`PlanIsFromOneDirectory`, the action property `NobodyIsSkipped`, and
`TypesHold`, from one invariant, `SweepIsSafe`:

* `StoreOK`: a stored plan was pinned when the last sweep was due again, and its
  recipients were owners in one directory, that of the SNS whose token it pays.
* `LateOK` and `SendOK`: a request on its way is one of the stored plan's or was
  born before the last sweep ended or with a plan completed uncounted. A sweep
  is due only after a week, the ledger takes a request for a shorter window, so
  those of counted sweeps are dead (`RewardAssumption`) and nothing but the
  stored plan and uncounted ones takes from its pot.
* `ReadOK`: what an activation read under the lease, the store and the pot, is
  still so when it pins the plan. This needs the fence of the lease
  (`LeaseInv`): two activations never have the same expiry.
* `Covered`: the pot pays for everything of the plan that the ledger has not
  executed, fees included, once the requests of plans completed uncounted are
  too old for the ledger (`Settled`). When a plan is pinned this is `AllocationsFit`: the
  shares are differences of rounded prefix sums and so add up to no more than
  the pot.
* `DirOK`: the directory of an id never changes, so pages with one id are pages
  of one directory.

**`RelayJobProofs`.** `MintedAtMostOnce`, `SurplusWaitsForRecovery`,
`FailedStaysUnspent`, the action property `DebtIsRemembered`, and `TypesHold`,
from one invariant, `AllocationIsSafe`:

* `JobOK`: every observed target has its item; an item counts what the CMC
  minted under its identity or nothing (`ItemsOK`); the pending transfer belongs
  to an index already passed, and a surplus transfer is pending only when every
  item has been minted what it needs (`PendingOK`).
* `History` and `Used`: an identity that was executed, given up or is on its way
  belongs to an earlier job or to an index the job has passed. Indices only
  grow, so a newly staged transfer has an identity nobody used.
* `Alone`: activations that wait with the same identity have it in `doubt`. So
  the first attempt of a transfer that is not in doubt was sent by nobody else,
  and its refusal is definite (`ActOK`, `FailedOK`).
* `Quiet`: while the holder of the lease resolves the recipients no transfer is
  pending; a successor that finds the job resolves them again.

The driver is a chain of operators that every callback enters. `Ends` says what
such a chain may leave behind, one lemma for each operator shows it (`StopEnds`,
`DispatchEnds`, `CompleteEnds`, `PlanNextEnds`, `DriveEnds`, ...), and
`EndsStep` shows that it keeps the invariant; the environment goes through
`WorldStep`. That no step lets the books of a target shrink is shown on
`BookOf`, the books as an operator of the job and the samples: the driver moves
a target's need between the job and the samples without changing the sum
(`SameBooks`), minted cycles move from need to what was minted since the sample
(`MintedBooks`), and a new sample is made up for by the new need, because
headroom is at least the burn (`NeedCovers`, from `AllocationAssumption`).
Assumed of the constants beyond the types: no target comes twice, as they are
collected in a `BTreeSet`, and `None` is neither a transfer nor a job.

Sums and least elements of finite sets are defined by recursion or choice. What
the proofs need of them (`SumUnfold`, `SumIsNat`, `LeastExists`) is proved by
taking a smallest counterexample, from the well-foundedness of the natural
numbers.

**`FaucetPayoutProofs`.** `TranchesSpentOnce`, `CommitmentsPaidOnce`,
`CountsAreTrue`, `NobodyPassedOver`, `ChecksNeverTrip`, `OneTrancheAtATime` and
`Types`: every property of the run `faucet`, for every history, page size, fee,
tranche, lease length and number of activations. The invariant `IInv` speaks of
`Wild`, the transfers that were executed or may yet be.

* `WildOK`: a creation time belongs to one transfer, so `Duplicate` stands for
  the transfer that was asked for; two transfers for one commitment exist only
  if one was refunded.
* `MoneyOK`: the transfers of a job, without its pending one and net of refunds
  (`Total`), are within what the job has booked. All of `Wild` is within the
  tranches closed plus that, so with `LedgerOK` the account covers the next
  tranche. The booked total is within the share of the weights up to the cursor,
  so rounding never reaches the tranche's limit.
* `ScanOK`, `PassedOK`: the denominator is the sum of the weights scanned;
  records up to the cursor have an outcome or are being paid, those beyond it
  have no transfer.
* `PendingOK` and `DispatchOK`: the pending transfer is that of the cursor's
  record and the only one of its creation time; whoever may have sent it has
  left the dispatch record. This is why a refusal of a transfer that was never
  dispatched before is definite.
* `TimesOK`: the next creation time is at most two nanoseconds a record beyond
  the start of the newest activation; here `PaceAssumption` is used.
* `OutcomesOK`: outcomes against `Wild`, so "will never be paid" is a statement
  about the present state.
* `OwnOK` is what an activation knows whether or not it still has the lease (the
  answer it got is about a block that exists); `HolderOK` what only the holder
  knows of the store.

What the canister keeps is an operator of its state and of `Wild`, so each part
of the driver (scan, staging, sending, booking, fallback, finalisation) has one
lemma about the state it returns, and `HeldStep` and `StaleStep` combine
them. The environment only adds blocks from `Wild` and notifications, and what
holds of a job survives that (`Later`).

**Only model-checked.** All liveness properties (the prover does not handle
fairness). The rescue tick, whose property is a liveness property.
`Attributable`: `SplitterProvenance` replays a history with recursive functions;
what they compute for every history would need induction over that history,
which the installed provers do not do.

## Not modelled

* **Encoding, logging, event rings, queries and metrics**, and the historian's
  read model and API, which compute answers from the indexed state.
* **Faucet funding search, skip ranges and index health.** The search for the
  next tranche is one step that finds it or fails. A skip range leaves out
  pages that hold nothing payable; the model reads them.
* **Faucet rescue.** The tick and the controller policy are those of
  `DisburserRescue`, with more reasons to latch. `NoFalseRescue` of
  `FaucetPayout` covers the latches the payout itself sets.
* **The Relay's faucet commitment** (subaccount 1), a transfer of one account's
  balance to one destination, is a stage that may hold the allocation tick up.
  An attempt of unknown outcome is dropped there and planned anew
  (`transfer.rs:412`); if it is executed late, against a newer balance, the
  history of subaccount 1 may be one the reward sweep refuses. That fails
  closed: a reward waits, nothing is paid wrongly.
* **The histories of subaccount 1 and of the reward token**, and the choice
  among their cutoffs, are one step of `RelayRewards` that yields a batch. Only
  the splitters' part of the provenance is modelled in detail.
* **SNS discovery and the cycles sweep** of the historian, and the Relay's
  **cycles probes**: reads whose result the models take as an input.
* **Retry and deferred poke timers** of the faucet, the Relay and the
  historian, which repeat the disburser's with other intervals.
* **Weights of commitments.** The faucet's recognition delay and the share of a
  round a commitment took part in are a weight given with the round; the memo
  policy's parsing is the kind of a commitment or the route of a transfer.
* **Validation and hashing of a setup**, beyond order and duplicates.
* **`persistence-batch`** delays stable writes to the end of a message; since
  nothing runs inside a message, the models write at once.
* **Lifeline, frontend, shared types, tests, tools and deployment**: no
  protocol of their own.
* Ledger, CMC, Governance, Index, XRC and management canister are modelled from
  how the code uses them and are marked external in the map.

## Plan

1. The faucet's rescue latches and index health, on `DisburserRescue`'s tick.
2. The faucet commitment of subaccount 1 as a stage of `RelayJob`, and the
   second half of the provenance over it.
3. Weights computed from recognition times, against the round they belong to.

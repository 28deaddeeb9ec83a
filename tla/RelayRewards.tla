---------------------------- MODULE RelayRewards ----------------------------
(********************************************************************************)
(* canisters/relay: the weekly sweep of the SNS reward tokens.  It is the last  *)
(* stage of a main tick, under the lease of the tick: an activation asks the    *)
(* owner directory for its context, reads the reward pot and its fee,           *)
(* attributes the pot to a commitment, resolves the funders of the commitment   *)
(* to neuron owners, and pins a plan in stable memory.  The plan is then driven *)
(* recipient by recipient, two attempts each, in slices that share the lease.   *)
(* A plan survives upgrades and is only ever driven on, never replaced.         *)
(*                                                                              *)
(* Steps follow the awaits.  The stages of the tick before the sweep are one    *)
(* wait under the lease.  The work budget's counters are left out: a slice may  *)
(* run out of budget before any call, and after the last recipient.  The        *)
(* history behind an attribution is read in one step; Batches is what it holds, *)
(* newest first.  The owner directory is the abstract one; OwnerScan implements *)
(* it.                                                                          *)
(********************************************************************************)
EXTENDS OwnerDirectory, TimerLease, Sequences, FiniteSetsExt, Functions

CONSTANTS Proc,         \* activations that may be in flight together
          Batches,      \* funding weights of each commitment's sources
          Fees,         \* fees an SNS ledger may ask for
          Amount,       \* tokens of one reward
          Directories,  \* <<root, owners>> a scan may publish
          MaxEvents,    \* bound: rewards, changes of fee or directory,
                        \* upgrades, plans completed uncounted
          Attempt,      \* ATTEMPT_SECONDS of a work budget
          Lease,        \* the main lease
          Window,       \* LEDGER_CREATED_AT_VALID_WINDOW_NANOS
          LedgerWindow, \* the age up to which a ledger takes a transfer
          MaxAge,       \* REWARD_CONTEXT_MAX_AGE_NANOS
          Week,         \* REWARD_SWEEP_INTERVAL_SECONDS
          MaxTime,      \* bound: the clock stops here
          NoPlan        \* None

ASSUME RewardAssumption ==
  /\ Owners \subseteq Nat /\ Batches \in Seq([Owners -> Nat])
  /\ \A i \in DOMAIN Batches :   \* somebody funded it, and finitely many did
       LET sources == {a \in Owners : Batches[i][a] > 0}
       IN  sources # {} /\ IsFiniteSet(sources)
  /\ Directories \subseteq Roots \X SUBSET Owners
  /\ Fees \subseteq Nat \ {0} /\ Fees # {} /\ Amount \in Nat
  /\ Attempt \in Nat \ {0} /\ Lease \in Nat \ {0}
  /\ Window \in Nat /\ LedgerWindow \in Nat /\ Week \in Nat
  /\ LedgerWindow < Week /\ Window <= LedgerWindow

VARIABLES
  now,
  st,       \* the stable reward state: pinned plan and last sweep; the lease;
            \* history: birth of plans completed with no sweep recorded
  act,      \* the activations
  balance,  \* the SNS ledgers: the Relay's account,
  fee,      \* the fee, the same on each,
  blocks,   \* executed transfers,
  late,     \* requests given up by their caller and still on their way
  events

ledgers == <<balance, fee, blocks, late>>
vars    == <<now, st, act, ledgers, events, dvars>>

-----------------------------------------------------------------------------
(* The plan.                                                                *)

EconomyFactor == 10

\* terminal_reward_pot_hold_reason
PotHeld(bal, f) == bal <= f \/ EconomyFactor * f > bal - f

WeightOf(w, S) == SumFunctionOnSet(w, S)

\* proportional_reward_allocations: what principal a of the eligible set S is
\* due of bal, by differences of rounded prefixes.
Entitlement(bal, w, S, a) ==
  LET upTo(T) == (WeightOf(w, T) * bal) \div WeightOf(w, S)
  IN upTo({b \in S : b <= a}) - upTo({b \in S : b < a})

\* Mutant: the entitlement is transferred without taking off the fee.
TransferAmountGross(ent, f) == ent

TransferAmount(ent, f) == ent - f

\* The principals of S, in their order.
Ascending(S) ==
  CHOOSE q \in [1 .. Cardinality(S) -> S] :
    \A i, j \in DOMAIN q : i < j => q[i] < q[j]

Allocations(bal, f, w, S) ==
  LET paid == {a \in S : LET e == Entitlement(bal, w, S, a)
                         IN e > f /\ EconomyFactor * f <= e - f}
      order == Ascending(paid)
  IN [i \in DOMAIN order |->
        [to |-> order[i],
         amt |-> TransferAmount(Entitlement(bal, w, S, order[i]), f)]]

\* build_pending_payout; batch and dirId stand for the memo's commitment and
\* for where the owners came from.
Plan(ctx, batch, f, allocs, born) ==
  [root |-> ctx.root, batch |-> batch, fee |-> f, pay |-> allocs,
   born |-> born, next |-> 1, dir |-> ctx]

\* reward_transfer_arg: the identity of one transfer of a plan.
Transfer(plan, i) ==
  [root |-> plan.root, to |-> plan.pay[i].to, amt |-> plan.pay[i].amt,
   fee |-> plan.fee, born |-> plan.born, memo |-> <<plan.batch, i>>]

\* Mutant: a recipient whose turn has come is passed over with the rest.
AdvancedTwice(s) ==
  IF s.plan.next + 1 >= Len(s.plan.pay) THEN [s EXCEPT !.plan = NoPlan]
  ELSE [s EXCEPT !.plan.next = @ + 2]

\* advance_expected_payout
Advanced(s) ==
  IF s.plan.next = Len(s.plan.pay) THEN [s EXCEPT !.plan = NoPlan]
  ELSE [s EXCEPT !.plan.next = @ + 1]

\* Mutant: a sweep is due whenever no plan is pinned.
SweepIsDueAlways(last, t) == TRUE

\* sweep_is_due
SweepIsDue(last, t) == last = 0 \/ t - last >= Week

\* record_completed_payout_cadence, record_sweep_disposition_if_current
CadenceUsed(s, start) == [s EXCEPT !.last = Max({@, start})]

\* One event more may happen.
Spare == events + Cardinality(st.uncounted) < MaxEvents

\* The plan is gone and the sweep stays due: the drive was held, not completed.
Uncounted(s, born) == [s EXCEPT !.plan = NoPlan, !.uncounted = @ \cup {born}]

-----------------------------------------------------------------------------
(* Activations.                                                             *)

Idle == [pc |-> "idle", start |-> 0, expiry |-> 0,
         first |-> TRUE,     \* process, or a later slice
         before |-> 0,       \* next_recipient_index when the slice began
         gen |-> 0,          \* last sweep when the adjudication began
         ctx |-> NoDir, bal |-> 0, fee |-> 0,
         batch |-> 0, todo |-> {}, known |-> {},
         sent |-> NoPlan,    \* the plan when the transfer was sent
         second |-> FALSE,   \* the second attempt at a recipient
         out |-> "none"]     \* what the ledger did with the request

Current(p) == st.lock = act[p].expiry

\* WorkBudget::check
Live(p) == Current(p) /\ now < act[p].start + Attempt

\* The guard is dropped.
End(p, s) ==
  /\ st' = [s EXCEPT !.lock = Released(s.lock, act[p].expiry)]
  /\ act' = [act EXCEPT ![p] = Idle]

Await(p, s, a, pc) ==
  st' = s /\ act' = [act EXCEPT ![p] = [a EXCEPT !.pc = pc]]

\* The slice is held.  Another one follows while the lease is held, if this
\* was the first or made progress.
Hold(p, a, s) ==
  IF Current(p) /\ s.plan # NoPlan /\ (a.first \/ s.plan.next > a.before)
  THEN Await(p, s, [Idle EXCEPT !.start = a.start, !.expiry = a.expiry], "slice")
  ELSE End(p, s)

\* created_at_time_is_valid, by the time at which the slice began.
Expired(plan, start) == start - plan.born > Window

Send(p, a, s, second) ==
  Await(p, s, [Idle EXCEPT !.start = a.start, !.expiry = a.expiry,
                 !.first = a.first, !.before = a.before, !.sent = s.plan,
                 !.second = second], "send")

\* drive_pending_bounded, up to the next transfer or its end.  The budget is
\* charged before the plan is looked at, so it may run out after the last
\* recipient, too.  All recipients of a plan were given the same time, so they
\* expire together.
Drive(p, a, s) ==
  \/ /\ s.plan = NoPlan
     /\ \/ End(p, CadenceUsed(s, a.start))
        \/ st.plan # NoPlan /\ Spare /\ End(p, Uncounted(s, st.plan.born))
  \/ /\ s.plan # NoPlan /\ Expired(s.plan, a.start)
     /\ \/ End(p, CadenceUsed([s EXCEPT !.plan = NoPlan], a.start))
        \/ Spare /\ End(p, Uncounted(s, s.plan.born))
        \/ \E i \in s.plan.next .. Len(s.plan.pay) :
             Hold(p, a, [s EXCEPT !.plan.next = i])
  \/ /\ s.plan # NoPlan /\ ~Expired(s.plan, a.start)
     /\ Send(p, a, s, FALSE) \/ Hold(p, a, s)

\* MainGuard::acquire by a tick that is due; the funding pipeline runs.
TickBegins(p) ==
  LET e == LeaseExpiry(now, Lease) IN
  /\ act[p] = Idle /\ CanAcquire(st.lock, now)
  /\ Await(p, [st EXCEPT !.lock = e], [Idle EXCEPT !.start = now, !.expiry = e],
           "funding")
  /\ UNCHANGED <<now, ledgers, events, dvars>>

\* The pipeline stops the tick, its lease went over, or no sweep is due.
TickEnds(p) ==
  /\ act[p].pc = "funding"
  /\ End(p, st)
  /\ UNCHANGED <<now, ledgers, events, dvars>>

\* process, with a budget that begins now under the lease of the tick: a
\* pinned plan is driven on, otherwise a sweep begins if one is due.  The time
\* has nanoseconds, so no two sweeps begin, and no two plans are born, at once.
Process(p) ==
  LET a == [act[p] EXCEPT !.start = now] IN
  /\ act[p].pc = "funding" /\ Current(p)
  /\ \/ st.plan # NoPlan /\ Drive(p, a, st)
     \/ /\ st.plan = NoPlan /\ SweepIsDue(st.last, now) /\ now \notin st.uncounted
        /\ Await(p, st, [a EXCEPT !.gen = st.last], "context")
  /\ UNCHANGED <<now, ledgers, events, dvars>>

\* schedule_pinned_continuation: the next slice, with a new budget.
NextSlice(p) ==
  LET a == [act[p] EXCEPT !.start = now, !.first = FALSE,
              !.before = IF st.plan = NoPlan THEN 0 ELSE st.plan.next] IN
  /\ act[p].pc = "slice"
  /\ \/ Current(p) /\ now < act[p].expiry /\ Drive(p, a, st)
     \/ ~(Current(p) /\ now < act[p].expiry) /\ End(p, st)
  /\ UNCHANGED <<now, ledgers, events, dvars>>

Reading == {"context", "balance", "fee", "history", "owners"}

\* A call of the adjudication fails, or its reply comes after the deadline or
\* the end of the lease: the sweep is left for the next day.
AdjudicationFails(p) ==
  /\ act[p].pc \in Reading
  /\ End(p, st)
  /\ UNCHANGED <<now, ledgers, events, dvars>>

\* adjudicate: the context, unless there is none or it is too old,
ContextReply(p) ==
  /\ act[p].pc = "context" /\ Live(p)
  /\ Context # NoDir /\ act[p].start - Context.completed <= MaxAge
  /\ Await(p, st, [act[p] EXCEPT !.ctx = Context], "balance")
  /\ UNCHANGED <<now, ledgers, events, dvars>>

\* the pot,
BalanceReply(p) ==
  /\ act[p].pc = "balance" /\ Live(p)
  /\ Await(p, st, [act[p] EXCEPT !.bal = balance[act[p].ctx.root]], "fee")
  /\ UNCHANGED <<now, ledgers, events, dvars>>

\* the fee, which ends the sweep when the pot is too small,
FeeReply(p) ==
  LET a == act[p]
      f == fee IN
  /\ a.pc = "fee" /\ Live(p)
  /\ \/ PotHeld(a.bal, f) /\ End(p, CadenceUsed(st, a.start))
     \/ ~PotHeld(a.bal, f) /\ Await(p, st, [a EXCEPT !.fee = f], "history")
  /\ UNCHANGED <<now, ledgers, events, dvars>>

\* Sources of batch i that gave something.
Sources(i) == {a \in Owners : Batches[i][a] > 0}

\* find_eligible_batch asks for the owners of batch i, if there is one.
AskOwners(p, a, i) ==
  IF i > Len(Batches) THEN End(p, CadenceUsed(st, a.start))
  ELSE Await(p, st, [a EXCEPT !.batch = i, !.todo = Sources(i), !.known = {}],
             "owners")

\* the histories of the reward account and of subaccount 1,
HistoryReply(p) ==
  /\ act[p].pc = "history" /\ Live(p)
  /\ AskOwners(p, act[p], 1)
  /\ UNCHANGED <<now, ledgers, events, dvars>>

\* install_pending_if_current
CanInstall(p) == Current(p) /\ st.plan = NoPlan /\ st.last = act[p].gen

\* The plan is pinned, and its first slice begins.
Pin(p, a) ==
  LET allocs == Allocations(a.bal, a.fee, Batches[a.batch], a.known)
      plan == Plan(a.ctx, a.batch, a.fee, allocs, a.start) IN
  IF allocs = <<>> THEN End(p, CadenceUsed(st, a.start))
  ELSE IF CanInstall(p) THEN Drive(p, a, [st EXCEPT !.plan = plan])
  ELSE End(p, st)

\* resolve_accounts_bounded, one account per chunk, under the id of the
\* context; then classify_sources, an older batch if nobody is eligible, or
\* the plan.
OwnerReply(p) ==
  LET a == act[p]
      x == Min(a.todo)
      b == [a EXCEPT !.todo = @ \ {x},
                     !.known = IF Knows(x) THEN @ \cup {x} ELSE @] IN
  /\ a.pc = "owners" /\ Live(p) /\ Resolvable(a.ctx.id)
  /\ \/ b.todo # {} /\ Await(p, st, b, "owners")
     \/ b.todo = {} /\ b.known = {} /\ AskOwners(p, b, b.batch + 1)
     \/ b.todo = {} /\ b.known # {} /\ Pin(p, b)
  /\ UNCHANGED <<now, ledgers, events, dvars>>

-----------------------------------------------------------------------------
(* The SNS ledgers.                                                         *)

\* What a ledger answers to tx.
Verdict(tx) ==
  CASE tx \in blocks -> "Duplicate"
    [] tx \notin blocks /\ now - tx.born > LedgerWindow -> "TooOld"
    [] OTHER -> IF tx.fee # fee THEN "BadFee"
                ELSE IF tx.amt + tx.fee > balance[tx.root]
                THEN "InsufficientFunds" ELSE "Ok"

Execute(tx) ==
  IF Verdict(tx) = "Ok"
  THEN /\ blocks' = blocks \cup {tx}
       /\ balance' = [balance EXCEPT ![tx.root] = @ - tx.amt - tx.fee]
  ELSE UNCHANGED <<blocks, balance>>

Request(a) == Transfer(a.sent, a.sent.next)

\* Whether a recipient may not be paid at all, the account that mints or burns,
\* is the ledger's affair.
LedgerTakes(p) ==
  /\ act[p].pc = "send" /\ act[p].out = "none"
  /\ \/ /\ Execute(Request(act[p]))
        /\ act' = [act EXCEPT ![p].out = Verdict(Request(act[p]))]
     \/ /\ Request(act[p]) \notin blocks
        /\ act' = [act EXCEPT ![p].out = "BadBurn"]
        /\ UNCHANGED <<blocks, balance>>
  /\ UNCHANGED <<now, st, fee, late, events, dvars>>

LateRequest(tx) ==
  /\ Execute(tx) /\ late' = late \ {tx}
  /\ UNCHANGED <<now, st, act, fee, events, dvars>>

\* A request nobody waits for was executed or may still be; one that is lost
\* never is.
Abandon(a) ==
  late' = IF a.out = "none" /\ Request(a) \notin blocks
          THEN late \cup {Request(a)} ELSE late

\* transfer_once
Accepted          == {"Ok", "Duplicate"}
PlanRejected      == {"BadFee", "InsufficientFunds"}
RecipientRejected == {"BadBurn", "TooOld"}

\* There is an answer: the recipient is done with, or the plan is given up.
SendReply(p) ==
  LET a == act[p] IN
  /\ a.pc = "send" /\ a.out # "none" /\ Live(p) /\ st.plan = a.sent
  /\ \/ a.out \in Accepted \cup RecipientRejected /\ Drive(p, a, Advanced(st))
     \/ /\ a.out \in PlanRejected
        /\ End(p, CadenceUsed([st EXCEPT !.plan = NoPlan], a.start))
  /\ UNCHANGED <<now, ledgers, events, dvars>>

\* The ledger is busy or the call fails: a second attempt is made, and after
\* it the recipient is passed over.
SendUnknown(p) ==
  LET a == act[p] IN
  /\ a.pc = "send" /\ Live(p) /\ st.plan = a.sent
  /\ \/ ~a.second /\ (Send(p, a, st, TRUE) \/ Hold(p, a, st))
     \/ a.second /\ Drive(p, a, Advanced(st))
  /\ Abandon(a)
  /\ UNCHANGED <<now, balance, fee, blocks, events, dvars>>

\* The reply comes after the deadline or the end of the lease.
SendFenced(p) ==
  LET a == act[p] IN
  /\ a.pc = "send" /\ ~Live(p)
  /\ Hold(p, a, st)
  /\ Abandon(a)
  /\ UNCHANGED <<now, balance, fee, blocks, events, dvars>>

-----------------------------------------------------------------------------
(* Upgrades and the world.                                                  *)

\* post_upgrade: the lease is free, activations are gone, the plan stays;
\* their requests may still arrive.
Upgrade ==
  /\ Spare /\ events' = events + 1
  /\ st' = [st EXCEPT !.lock = Unlocked]
  /\ act' = [p \in Proc |-> Idle]
  /\ late' = late \cup {Request(act[p]) : p \in {q \in Proc :
                           act[q].pc = "send" /\ act[q].out = "none"}}
  /\ UNCHANGED <<now, balance, fee, blocks, dvars>>

RewardsArrive ==
  /\ Spare /\ events' = events + 1
  /\ balance' = [r \in Roots |-> balance[r] + Amount]
  /\ UNCHANGED <<now, st, act, fee, blocks, late, dvars>>

FeeChanges(f) ==
  /\ Spare /\ events' = events + 1
  /\ fee # f /\ fee' = f
  /\ UNCHANGED <<now, st, act, balance, blocks, late, dvars>>

DirectoryPublished(r, owners) ==
  /\ Spare /\ events' = events + 1
  /\ Publish(r, owners, now, now)
  /\ UNCHANGED <<now, st, act, ledgers>>

DirectoryWithdrawn ==
  /\ Spare /\ events' = events + 1
  /\ dir # NoDir /\ Withdraw
  /\ UNCHANGED <<now, st, act, ledgers>>

Advance ==
  /\ now < MaxTime /\ now' = now + 1
  /\ UNCHANGED <<st, act, ledgers, events, dvars>>

Init ==
  /\ now = 1
  /\ st = [plan |-> NoPlan, last |-> 0, lock |-> Unlocked, uncounted |-> {}]
  /\ act = [p \in Proc |-> Idle]
  /\ balance = [r \in Roots |-> Amount] /\ fee = Min(Fees)
  /\ blocks = {} /\ late = {} /\ events = 0
  /\ issued = 1
  /\ \E d \in Directories :
       dir = [id |-> 1, root |-> d[1], owners |-> d[2], started |-> 1, completed |-> 1]

Next ==
  \/ \E p \in Proc :
       \/ TickBegins(p) \/ TickEnds(p) \/ Process(p) \/ NextSlice(p)
       \/ AdjudicationFails(p)
       \/ ContextReply(p) \/ BalanceReply(p) \/ FeeReply(p) \/ HistoryReply(p)
       \/ OwnerReply(p) \/ LedgerTakes(p) \/ SendReply(p) \/ SendUnknown(p)
       \/ SendFenced(p)
  \/ \E tx \in late : LateRequest(tx)
  \/ Upgrade
  \/ RewardsArrive
  \/ \E f \in Fees : FeeChanges(f)
  \/ \E d \in Directories : DirectoryPublished(d[1], d[2])
  \/ DirectoryWithdrawn
  \/ Advance

Spec == Init /\ [][Next]_vars

-----------------------------------------------------------------------------
Dirs == [id : Nat, root : Roots, owners : SUBSET Owners, started : Nat,
         completed : Nat]
Plans == [root : Roots, batch : DOMAIN Batches, fee : Nat,
          pay : Seq([to : Owners, amt : Nat]), born : Nat, next : Nat, dir : Dirs]
Txs == [root : Roots, to : Owners, amt : Nat, fee : Nat, born : Nat,
        memo : Nat \X Nat]
Activations ==
  [pc : Reading \cup {"idle", "funding", "slice", "send"}, start : Nat, expiry : Nat,
   first : BOOLEAN, before : Nat, gen : Nat, ctx : Dirs \cup {NoDir}, bal : Nat,
   fee : Nat, batch : Nat, todo : SUBSET Owners, known : SUBSET Owners,
   sent : Plans \cup {NoPlan}, second : BOOLEAN,
   out : {"none"} \cup Accepted \cup PlanRejected \cup RecipientRejected]

\* The values that stand for None are neither plans nor directories.
ASSUME NoneAssumption == NoPlan \notin Plans /\ NoDir \notin Dirs

\* Every variable keeps its type: no amount is negative, and no pot is overdrawn.
TypeOK ==
  /\ now \in Nat \ {0}
  /\ st \in [plan : Plans \cup {NoPlan}, last : Nat, lock : Nat,
            uncounted : SUBSET Nat]
  /\ act \in [Proc -> Activations]
  /\ balance \in [Roots -> Nat] /\ fee \in Fees
  /\ blocks \subseteq Txs /\ late \subseteq Txs
  /\ dir \in Dirs \cup {NoDir} /\ issued \in Nat

-----------------------------------------------------------------------------
(* Properties.                                                              *)

Transfers(plan) == {Transfer(plan, i) : i \in DOMAIN plan.pay}

\* From t on, no ledger takes a request of a plan that was completed uncounted.
Settled(s, t) == \A b \in s.uncounted : t - b > LedgerWindow

\* The plan can be paid to the end: the pot still covers every transfer of
\* the pinned plan that was not executed, those passed over included, with
\* the fee that was pinned.  It takes the rounding of the shares, the fence
\* of superseded activations and the dead requests of older plans together.  A
\* plan completed uncounted leaves the next one due on the next day; until its
\* requests are dead a new plan has to share the pot with them.
PotCovers ==
  st.plan # NoPlan /\ Settled(st, st.plan.born) =>
    SumFunctionOnSet([i \in DOMAIN st.plan.pay |-> st.plan.pay[i].amt + st.plan.fee],
                     {i \in DOMAIN st.plan.pay : Transfer(st.plan, i) \notin blocks})
      <= balance[st.plan.root]

\* A recipient passed over with an unknown outcome is settled before anything
\* new is planned: no request of an older plan can still be executed while a
\* plan is pinned, unless the older plan was completed uncounted.
OldRequestsDead ==
  st.plan # NoPlan =>
    \A tx \in late \cup {Request(act[p]) : p \in {q \in Proc :
                            act[q].pc = "send" /\ act[q].out = "none"}} :
      \/ tx \in Transfers(st.plan) \/ tx \in blocks
      \/ now - tx.born > LedgerWindow \/ tx.born \in st.uncounted

\* Every recipient of a plan was an owner in one and the same directory, that
\* of the SNS in whose tokens it is paid, although the owners are resolved one
\* call at a time while scans complete and the SNS may be changed.
PlanFromOneDirectory ==
  st.plan # NoPlan =>
    /\ st.plan.root = st.plan.dir.root
    /\ \A i \in DOMAIN st.plan.pay : st.plan.pay[i].to \in st.plan.dir.owners

\* What a step may do to the pinned plan.
SkipsNobody ==
  st.plan # NoPlan /\ st'.plan # st.plan =>
    LET n == st.plan.next
        m == IF st'.plan = NoPlan THEN Len(st.plan.pay) + 1 ELSE st'.plan.next
        asked == {p \in Proc : act[p].pc = "send" /\ act[p].sent = st.plan}
    IN /\ st'.plan # NoPlan => st'.plan = [st.plan EXCEPT !.next = m]
       /\ \/ \E p \in asked : act[p].out \in PlanRejected
          \/ now - st.plan.born > Window
          \/ \A i \in n .. m - 1 :
               \/ Transfer(st.plan, i) \in blocks
               \/ /\ i = n
                  /\ \E p \in asked : act[p].second \/ act[p].out = "BadBurn"

\* A recipient is left behind only when the ledger has the transfer, when the
\* ledger could no longer take it, when its outcome was twice unknown, or when
\* the ledger refuses the recipient or the plan; and a plan is never replaced.
\* No slice, lease that is taken over, late reply or upgrade loses one.
NobodySkipped == [][SkipsNobody]_vars
=============================================================================

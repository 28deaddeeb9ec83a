--------------------------- MODULE RelaySplitter ---------------------------
(***************************************************************************)
(* canisters/relay: the numbered splitter accounts.  A deposit on splitter  *)
(* p is divided between the default account (p per cent) and subaccount 1   *)
(* (the rest), one transfer each, in that order.  The job lives in stable   *)
(* memory and is driven by two kinds of activation, the main stage of a     *)
(* tick or poke and the hourly retry, both under one splitter lease.  Every *)
(* await-capable step first claims the job by a new driver revision and     *)
(* marks the attempt; a leg whose attempt may have been executed is never   *)
(* replaced, and is quarantined once the ledger could no longer recognise   *)
(* it.                                                                      *)
(*                                                                          *)
(* Steps follow the awaits.  The ledger is trusted on one point only: a     *)
(* typed error means that this request was not executed.  The pinned ledger *)
(* is left out: an upgrade that would change it is refused while a job is   *)
(* active.                                                                  *)
(***************************************************************************)
EXTENDS TimerLease, Integers, Sequences, FiniteSetsExt

CONSTANTS Proc,         \* activations that may be in flight together
          Percentages,  \* SPLITTER_PERCENTAGES, in visiting order
          MinNet,       \* MIN_RAW_ICP_RECIPIENT_AMOUNT_E8S
          Bootstrap,    \* ICP_LEDGER_FEE_BOOTSTRAP_FALLBACK_E8S
          Fees,         \* fees the ledger may ask for
          Amount,       \* e8s of a deposit
          MaxDeposits,  \* bound: deposits that arrive
          Stride,       \* nanoseconds of one clock step
          Lease,        \* SPLITTER_LEASE_SECONDS
          MaxTime,      \* bound: the clock stops here
          Window,       \* LEDGER_CREATED_AT_VALID_WINDOW_NANOS
          LedgerWindow, \* the age up to which the ledger takes a transfer
          NoJob, NoFee  \* None

Splitters == 1 .. Len(Percentages)

ASSUME SplitAssumption ==
  /\ Percentages \in Seq(1 .. 99)
  /\ MinNet \in Nat /\ Bootstrap \in Nat /\ Fees \subseteq Nat
  /\ Fees # {} /\ Amount \in Nat /\ MaxDeposits \in Nat

ASSUME ClockAssumption ==
  /\ Lease \in Nat \ {0} /\ MaxTime \in Nat
  /\ Window \in Nat /\ LedgerWindow \in Nat

\* created_at_time moves on by single nanoseconds, at most two beyond the start
\* of an activation; the next round of the IC is later than that.
ASSUME StrideAssumption == Stride \in Nat /\ Stride > 2

VARIABLES
  now,        \* nanoseconds
  lastStart,  \* when the last activation began
  st,         \* lease, active job, quarantined jobs, revision, cached fee
  act,        \* the activations
  fee,        \* the ledger: its fee,
  balance,    \* the splitter accounts,
  deposits,   \* number of deposits made,
  blocks,     \* executed transfers,
  log,        \* the transactions of each splitter account, oldest first,
  late,       \* requests given up by their caller and still on their way
  created,    \* history: number of jobs created,
  ended       \* and what became of those that are no longer active

ledger  == <<fee, balance, deposits, blocks, log>>
history == <<created, ended>>
vars    == <<now, lastStart, st, act, ledger, late, history>>

-----------------------------------------------------------------------------
(* The job.  Leg 1 goes to the default account, leg 2 to subaccount 1.      *)

Legs == {1, 2}

NewLeg(gross, f, cat) ==
  [gross |-> gross, amt |-> gross - f, fee |-> f, cat |-> cat,
   status |-> "ready", started |-> FALSE, seen |-> FALSE]

DefaultGross(i, bal) == (bal * Percentages[i]) \div 100

\* build_splitter_plan succeeds: the net threshold, and both shares above
\* the fee.
PlanFeasible(i, bal, f) ==
  /\ bal > f /\ bal - f >= MinNet
  /\ DefaultGross(i, bal) > f /\ bal - DefaultGross(i, bal) > f

NewJob(id, i, bal, f, start) ==
  [id |-> id, splitter |-> i, start |-> bal, rev |-> 0,
   leg |-> <<NewLeg(DefaultGross(i, bal), f, start),
             NewLeg(bal - DefaultGross(i, bal), f, start + 1)>>]

\* active_plan_is_valid
PlanIsValid(j) ==
  /\ j.leg[1].gross = DefaultGross(j.splitter, j.start)
  /\ j.leg[1].gross + j.leg[2].gross = j.start
  /\ \A l \in Legs : /\ j.leg[l].amt + j.leg[l].fee = j.leg[l].gross
                     /\ j.leg[l].gross > j.leg[l].fee
  /\ j.leg[1].cat # j.leg[2].cat

\* The first leg that is not accepted, 0 when there is none.
CurrentLeg(j) ==
  IF \A l \in Legs : j.leg[l].status = "accepted" THEN 0
  ELSE Min({l \in Legs : j.leg[l].status # "accepted"})

\* repin_leg: a new identity, with nothing tried yet.
Repin(j, l, f, start) ==
  [j EXCEPT !.leg[l] = NewLeg(@.gross, f, Max({@.cat + 1, start}))]

\* Mutant: only an attempt whose reply was seen to be missing counts.
PriorSeen(leg) == leg.seen

\* had_prior_uncertain_attempt
Prior(leg) == leg.started \/ leg.seen

\* Mutant: the attempt is not marked.
ClaimUnmarked(j, l, rev) == [j EXCEPT !.rev = rev]

\* claim_active_job, for a transfer of leg l or, with l = 0, for a read.
Claim(j, l, rev) ==
  IF l = 0 THEN [j EXCEPT !.rev = rev]
  ELSE [j EXCEPT !.rev = rev, !.leg[l].started = TRUE]

-----------------------------------------------------------------------------
(* Activations.                                                             *)

Idle == [pc |-> "idle", start |-> 0, expiry |-> 0,
         main |-> FALSE,       \* main stage, or hourly retry
         resumed |-> 0,        \* splitter of the job it found
         at |-> 0,             \* splitter of the loop
         fee |-> 0,
         claimed |-> NoJob,    \* the job as it was claimed
         prior |-> FALSE,      \* had_prior_uncertain_attempt
         got |-> FALSE,
         val |-> 0,            \* balance or expected fee of the reply
         verdict |-> "none"]

\* SplitterGuard::is_current: the token is compared, not the clock.
Current(p) == st.lock = act[p].expiry

\* The lease and the claim both still hold.
Owns(p) == Current(p) /\ st.job = act[p].claimed

\* SplitterGuard::drop
End(p, a, s) ==
  /\ st' = [s EXCEPT !.lock = Released(s.lock, a.expiry)]
  /\ act' = [act EXCEPT ![p] = Idle]

Wait(p, a, s, pc) ==
  /\ st' = s
  /\ act' = [act EXCEPT ![p] = [a EXCEPT !.pc = pc, !.got = FALSE, !.val = 0,
                                          !.verdict = "none"]]

\* Mutant: a quarantined splitter is visited.
VisitableAll(a, s) == {i \in Splitters : i > a.at /\ i # a.resumed}

\* The splitters the loop still visits.
Visitable(a, s) ==
  {i \in Splitters : i > a.at /\ i # a.resumed /\ s.quar[i] = NoJob}

\* On to the next splitter's balance, or out of the stage.
NextSplitter(p, a, s) ==
  IF Visitable(a, s) = {} THEN End(p, a, s)
  ELSE Wait(p, [a EXCEPT !.at = Min(Visitable(a, s)), !.claimed = NoJob],
            s, "balance")

Record(j, how) ==
  ended' = ended \cup {[id |-> j.id, start |-> j.start, how |-> how]}

\* The job is finished; the main stage goes on.
Completed(p, a, s, j) ==
  LET t == [s EXCEPT !.job = NoJob] IN
  /\ Record(j, "completed")
  /\ \/ ~a.main /\ End(p, a, t)
     \/ a.main /\ a.at = 0 /\ Wait(p, [a EXCEPT !.claimed = NoJob], t, "fee")
     \/ a.main /\ a.at > 0 /\ NextSplitter(p, a, t)

ClearedPreSpend(p, a, s, j) ==
  Record(j, "cleared") /\ End(p, a, [s EXCEPT !.job = NoJob])

Quarantine(p, a, s, j, why) ==
  /\ Record(j, why)
  /\ End(p, a, [s EXCEPT !.job = NoJob, !.quar[j.splitter] = j])

\* The claimed job is stored and the call is sent.
ClaimAndWait(p, a, s, j, l, pc) ==
  LET k == Claim(j, l, s.rev + 1) IN
  /\ Wait(p, [a EXCEPT !.claimed = k], [s EXCEPT !.rev = @ + 1, !.job = k], pc)
  /\ UNCHANGED ended

Send(p, a, s, j, l) ==
  ClaimAndWait(p, [a EXCEPT !.prior = Prior(j.leg[l])], s, j, l, "transfer")

\* created_at_time_is_valid, by the time at which the activation began.
Expired(leg, start) == start - leg.cat > Window

\* drive_active_job with job j, up to its next await or its end.
Drive(p, a, s, j) ==
  LET l == CurrentLeg(j) IN
  \/ ~PlanIsValid(j) /\ Quarantine(p, a, s, j, "invalid plan")
  \/ PlanIsValid(j) /\ l = 0 /\ Completed(p, a, s, j)
  \/ /\ PlanIsValid(j) /\ l # 0
     /\ LET leg == j.leg[l] IN
        \/ leg.status = "funds" /\ ClaimAndWait(p, a, s, j, 0, "legFunds")
        \/ leg.status = "fee" /\ ClaimAndWait(p, a, s, j, 0, "legFee")
        \/ /\ leg.status = "ready" /\ ~Expired(leg, a.start)
           /\ Send(p, a, s, j, l)
        \/ /\ leg.status = "ready" /\ Expired(leg, a.start)
           /\ \/ Prior(leg) /\ Quarantine(p, a, s, j, "expired")
              \/ ~Prior(leg) /\ l = 1 /\ ClearedPreSpend(p, a, s, j)
              \/ /\ ~Prior(leg) /\ l = 2
                 /\ Send(p, a, s, Repin(j, l, leg.fee, a.start), l)

-----------------------------------------------------------------------------
(* Environment.                                                             *)

Init ==
  /\ now = Stride /\ lastStart = 0
  /\ st = [lock |-> Unlocked, job |-> NoJob, rev |-> 0, cached |-> NoFee,
           quar |-> [i \in Splitters |-> NoJob]]
  /\ act = [p \in Proc |-> Idle]
  /\ fee = Min(Fees) /\ balance = [i \in Splitters |-> 0] /\ deposits = 0
  /\ blocks = {} /\ log = [i \in Splitters |-> <<>>]
  /\ late = {} /\ created = 0 /\ ended = {}

Tick == /\ now < MaxTime /\ now' = now + Stride
        /\ UNCHANGED <<lastStart, st, act, ledger, late, history>>

Deposit(i) ==
  /\ deposits < MaxDeposits /\ deposits' = deposits + 1
  /\ balance' = [balance EXCEPT ![i] = @ + Amount]
  /\ log' = [log EXCEPT ![i] = Append(@, [leg |-> 0, amt |-> Amount, fee |-> 0])]
  /\ UNCHANGED <<now, lastStart, st, act, fee, blocks, late, history>>

FeeChange == /\ \E f \in Fees : f # fee /\ fee' = f
             /\ UNCHANGED <<now, lastStart, st, act, balance, deposits>>
             /\ UNCHANGED <<blocks, log, late, history>>

\* transfer_arg for leg l of job j; job and leg number only say whose it is.
Tx(j, l) == [job |-> j.id, leg |-> l, splitter |-> j.splitter,
             amt |-> j.leg[l].amt, fee |-> j.leg[l].fee, cat |-> j.leg[l].cat]

\* What deduplication compares; the leg stands for the destination.
Key(tx) == <<tx.splitter, tx.leg, tx.amt, tx.fee, tx.cat>>
IsExecuted(tx) == \E b \in blocks : Key(b) = Key(tx)
InLedgerWindow(tx) == now - tx.cat <= LedgerWindow

CanExecute(tx) ==
  /\ InLedgerWindow(tx) /\ tx.fee = fee /\ ~IsExecuted(tx)
  /\ balance[tx.splitter] >= tx.amt + tx.fee

Execute(tx) ==
  /\ blocks' = blocks \cup {tx}
  /\ balance' = [balance EXCEPT ![tx.splitter] = @ - (tx.amt + tx.fee)]
  /\ log' = [log EXCEPT ![tx.splitter] =
               Append(@, [leg |-> tx.leg, amt |-> tx.amt, fee |-> tx.fee])]
  /\ UNCHANGED <<fee, deposits>>

\* Replies of icrc1_transfer as transfer_once sorts them; Duplicate counts as
\* accepted.
VerdictsFor(tx) ==
  {"refused", "insufficient"}
    \cup (IF tx.fee # fee THEN {"badFee"} ELSE {})
    \cup (IF CanExecute(tx) \/ (IsExecuted(tx) /\ InLedgerWindow(tx))
          THEN {"accepted"} ELSE {})

ServeTransfer(p) ==
  /\ act[p].pc = "transfer" /\ ~act[p].got
  /\ LET j  == act[p].claimed
         tx == Tx(j, CurrentLeg(j))
     IN  \E v \in VerdictsFor(tx) :
           /\ act' = [act EXCEPT ![p].got = TRUE, ![p].verdict = v,
                                 ![p].val = fee]
           /\ IF v = "accepted" /\ ~IsExecuted(tx)
              THEN Execute(tx) ELSE UNCHANGED ledger
  /\ UNCHANGED <<now, lastStart, st, late, history>>

\* The balance of the splitter an activation asks for.
ServeBalance(p) ==
  /\ act[p].pc \in {"balance", "legFunds"} /\ ~act[p].got
  /\ LET i == IF act[p].pc = "balance" THEN act[p].at
                                       ELSE act[p].claimed.splitter
     IN  act' = [act EXCEPT ![p].got = TRUE, ![p].val = balance[i]]
  /\ UNCHANGED <<now, lastStart, st, ledger, late, history>>

\* A request its caller has given up on is executed after all.
LateExecute ==
  /\ \E tx \in late : CanExecute(tx) /\ Execute(tx) /\ late' = late \ {tx}
  /\ UNCHANGED <<now, lastStart, st, act, history>>

\* A transfer request whose reply p does not wait for any longer.
Abandoned(p) ==
  IF act[p].pc = "transfer" /\ ~act[p].got
  THEN late \cup {Tx(act[p].claimed, CurrentLeg(act[p].claimed))} ELSE late

\* A callback traps: what was committed before the await stays, and dropping
\* the guard gives the lease back.
Trap(p) == /\ act[p].pc # "idle"
           /\ End(p, act[p], st)
           /\ late' = Abandoned(p)
           /\ UNCHANGED <<now, lastStart, ledger, history>>

\* initialize_from_args on a stopped canister: the heap is new, the splitter
\* journal stays.
Upgrade == /\ \A p \in Proc : act[p].pc = "idle"
           /\ st' = [st EXCEPT !.lock = Unlocked, !.cached = NoFee]
           /\ UNCHANGED <<now, lastStart, act, ledger, late, history>>

-----------------------------------------------------------------------------
(* The stages.                                                              *)

\* process_main_stage and retry_active_splitter up to their first await.  IC
\* time advances between rounds and every activation awaits, so two lease
\* holders never begin at the same time.
Start(p, main) ==
  LET s == [st EXCEPT !.lock = LeaseExpiry(now, Lease)]
      a == [Idle EXCEPT !.start = now, !.expiry = LeaseExpiry(now, Lease),
                        !.main = main]
  IN
  /\ act[p].pc = "idle" /\ CanAcquire(st.lock, now) /\ lastStart < now
  /\ lastStart' = now
  /\ \/ main /\ st.job = NoJob /\ Wait(p, a, s, "fee") /\ UNCHANGED ended
     \/ /\ st.job # NoJob
        /\ Drive(p, [a EXCEPT !.resumed = st.job.splitter], s, st.job)
  /\ UNCHANGED <<now, ledger, late, created>>

MainStart(p)  == Start(p, TRUE)
RetryStart(p) == Start(p, FALSE)

\* resolve_icp_ledger_fee_e8s: the fee used, and the cache afterwards.
FeeResults ==
  {<<fee, fee>>, <<IF st.cached = NoFee THEN Bootstrap ELSE st.cached,
                   st.cached>>}

\* The planning fee of the main stage.
FeeReply(p) ==
  /\ act[p].pc = "fee"
  /\ \E r \in FeeResults :
       LET s == [st EXCEPT !.cached = r[2]] IN
       \/ ~Current(p) /\ End(p, act[p], s)
       \/ Current(p) /\ NextSplitter(p, [act[p] EXCEPT !.fee = r[1]], s)
  /\ UNCHANGED <<now, lastStart, ledger, late, history>>

BalanceFailed(p) ==
  /\ act[p].pc = "balance"
  /\ NextSplitter(p, act[p], st)
  /\ UNCHANGED <<now, lastStart, ledger, late, history>>

\* A job is planned from the balance and stored before its first transfer.
Plan(p) ==
  LET a == act[p]
      j == NewJob(created + 1, a.at, a.val, a.fee, a.start)
  IN  \/ /\ ~PlanFeasible(a.at, a.val, a.fee)
         /\ NextSplitter(p, a, st) /\ UNCHANGED history
      \/ /\ PlanFeasible(a.at, a.val, a.fee)
         /\ created' = created + 1
         /\ Drive(p, a, st, j)

\* Mutant: the lease is not looked at again after the balance was read.
BalanceReplyUnfenced(p) ==
  /\ act[p].pc = "balance" /\ act[p].got
  /\ Plan(p)
  /\ UNCHANGED <<now, lastStart, ledger, late>>

BalanceReply(p) ==
  /\ act[p].pc = "balance" /\ act[p].got
  /\ \/ ~Current(p) /\ End(p, act[p], st) /\ UNCHANGED history
     \/ Current(p) /\ Plan(p)
  /\ UNCHANGED <<now, lastStart, ledger, late>>

\* WaitingForFunds: the second leg is pinned again once its share is there.
LegFundsReply(p) ==
  LET a == act[p]  j == st.job IN
  /\ a.pc = "legFunds"
  /\ \/ ~(Owns(p) /\ a.got) /\ End(p, a, st) /\ UNCHANGED ended
     \/ /\ Owns(p) /\ a.got
        /\ LET l == CurrentLeg(j) IN
           \/ /\ a.val < j.leg[l].gross
              /\ End(p, a, st) /\ UNCHANGED ended
           \/ /\ a.val >= j.leg[l].gross
              /\ Drive(p, a, st, Repin(j, l, j.leg[l].fee, a.start))
  /\ UNCHANGED <<now, lastStart, ledger, late, created>>

\* WaitingForFeasibleFee
LegFeeReply(p) ==
  LET a == act[p]  j == st.job IN
  /\ a.pc = "legFee"
  /\ \E r \in FeeResults :
       LET s == [st EXCEPT !.cached = r[2]] IN
       \/ ~Owns(p) /\ End(p, a, s) /\ UNCHANGED ended
       \/ /\ Owns(p)
          /\ LET l == CurrentLeg(j) IN
             \/ /\ j.leg[l].gross <= r[1]
                /\ End(p, a, s) /\ UNCHANGED ended
             \/ /\ j.leg[l].gross > r[1]
                /\ Drive(p, a, s, Repin(j, l, r[1], a.start))
  /\ UNCHANGED <<now, lastStart, ledger, late, created>>

\* The second leg after a refusal that leaves no doubt.
AfterRefusal(j, a) ==
  LET leg == j.leg[2]  v == a.verdict IN
  CASE v = "badFee" /\ leg.gross > a.val -> Repin(j, 2, a.val, a.start)
    [] v = "badFee" /\ leg.gross <= a.val ->
         [j EXCEPT !.leg[2].started = FALSE, !.leg[2].status = "fee"]
    [] v = "insufficient" ->
         [j EXCEPT !.leg[2].started = FALSE, !.leg[2].status = "funds"]
    [] v = "refused" -> Repin(j, 2, leg.fee, a.start)

\* A typed error: with an earlier attempt of the same identity in doubt it
\* proves nothing; otherwise the first leg drops the job and the second gets
\* a new identity or waits.
Refused(p, a, s, j, l) ==
  \/ /\ a.prior
     /\ End(p, a, [s EXCEPT !.job.leg[l].seen = TRUE]) /\ UNCHANGED ended
  \/ ~a.prior /\ l = 1 /\ ClearedPreSpend(p, a, s, j)
  \/ /\ ~a.prior /\ l = 2
     /\ End(p, a, [s EXCEPT !.job = AfterRefusal(j, a)])
     /\ UNCHANGED ended

TransferReply(p) ==
  LET a == act[p]  j == st.job
      s == IF a.verdict = "badFee" THEN [st EXCEPT !.cached = a.val] ELSE st
  IN
  /\ a.pc = "transfer" /\ a.got
  /\ \/ ~Owns(p) /\ End(p, a, st) /\ UNCHANGED ended
     \/ /\ Owns(p)
        /\ LET l == CurrentLeg(j) IN
           \/ /\ a.verdict = "accepted"
              /\ Drive(p, a, st, [j EXCEPT !.leg[l].status = "accepted"])
           \/ a.verdict # "accepted" /\ Refused(p, a, s, j, l)
  /\ UNCHANGED <<now, lastStart, ledger, late, created>>

\* TransportUncertain: request or reply lost.
TransferUnknown(p) ==
  LET a == act[p] IN
  /\ a.pc = "transfer"
  /\ \/ ~Owns(p) /\ End(p, a, st)
     \/ Owns(p) /\ End(p, a, [st EXCEPT
                         !.job.leg[CurrentLeg(st.job)].seen = TRUE])
  /\ late' = Abandoned(p)
  /\ UNCHANGED <<now, lastStart, ledger, history>>

Next ==
  \/ Tick \/ FeeChange \/ LateExecute \/ Upgrade
  \/ \E i \in Splitters : Deposit(i)
  \/ \E p \in Proc :
       \/ MainStart(p) \/ RetryStart(p) \/ Trap(p)
       \/ ServeTransfer(p) \/ ServeBalance(p)
       \/ FeeReply(p) \/ BalanceFailed(p) \/ BalanceReply(p)
       \/ LegFundsReply(p) \/ LegFeeReply(p)
       \/ TransferReply(p) \/ TransferUnknown(p)

Spec == Init /\ [][Next]_vars

-----------------------------------------------------------------------------
LegSet == [gross : Nat, amt : Nat, fee : Nat, cat : Nat,
           status : {"ready", "funds", "fee", "accepted"},
           started : BOOLEAN, seen : BOOLEAN]
JobSet == [id : Nat, splitter : Splitters, start : Nat, rev : Nat,
           leg : [Legs -> LegSet]]

ASSUME NoneAssumption == NoJob \notin JobSet /\ NoFee \notin Nat

TxSet == [job : Nat, leg : Legs, splitter : Splitters, amt : Nat, fee : Nat,
          cat : Nat]
ActSet ==
  [pc : {"idle", "fee", "balance", "legFunds", "legFee", "transfer"},
   start : Nat, expiry : Nat, main : BOOLEAN, resumed : Splitters \cup {0},
   at : Splitters \cup {0}, fee : Nat, claimed : JobSet \cup {NoJob},
   prior : BOOLEAN, got : BOOLEAN, val : Nat,
   verdict : {"none", "accepted", "badFee", "insufficient", "refused"}]

\* Every variable keeps its type; no amount and no splitter balance is ever
\* negative.
TypeOK ==
  /\ now \in Nat /\ lastStart \in Nat
  /\ st \in [lock : Nat, job : JobSet \cup {NoJob}, rev : Nat,
             cached : Nat \cup {NoFee},
             quar : [Splitters -> JobSet \cup {NoJob}]]
  /\ act \in [Proc -> ActSet]
  /\ fee \in Fees /\ balance \in [Splitters -> Nat] /\ deposits \in Nat
  /\ log \in [Splitters -> Seq([leg : Legs \cup {0}, amt : Nat, fee : Nat])]
  /\ blocks \subseteq TxSet /\ late \subseteq TxSet
  /\ created \in Nat
  /\ ended \subseteq [id : Nat, start : Nat,
                      how : {"completed", "cleared", "expired", "invalid plan"}]

-----------------------------------------------------------------------------
(* Safety.                                                                  *)

BlocksOf(id) == {b \in blocks : b.job = id}
Debit(b) == b.amt + b.fee

\* A leg of a job is paid once, under whichever identity: a second leg gets a
\* new identity only when no attempt under the old one can be executed, not
\* even one still on its way from an activation that lost its lease.
LegPaidOnce ==
  \A b, c \in blocks : b.job = c.job /\ b.leg = c.leg => b = c

\* A job dropped before its first transfer has not moved anything, and no
\* request of it executes afterwards, so its deposit may be planned again.
ClearedIsUnpaid ==
  \A e \in ended : e.how = "cleared" => BlocksOf(e.id) = {}

\* A completed job has moved both shares, together exactly the balance it was
\* planned from: an accepted reply, Duplicate included, stands for a transfer
\* of this job and leg.
CompletedConserves ==
  \A e \in ended : e.how = "completed" =>
    \E b, c \in blocks : /\ BlocksOf(e.id) = {b, c} /\ b.leg = 1 /\ c.leg = 2
                          /\ Debit(b) + Debit(c) = e.start

\* What leg l of job j still has to take from its splitter account.
Owed(j, l) ==
  IF \E b \in blocks : b.job = j.id /\ b.leg = l THEN 0 ELSE j.leg[l].gross

\* The splitter account always covers the shares the active job has not moved
\* yet: no other job, no late request and no quarantined identity spends them.
Covered ==
  st.job # NoJob => Owed(st.job, 1) + Owed(st.job, 2) <= balance[st.job.splitter]

\* A job is quarantined only for an identity that may have been executed and
\* is too old to be tried again; the check of the stored plan never fails.
QuarantineJustified ==
  \A i \in Splitters : st.quar[i] # NoJob =>
    /\ PlanIsValid(st.quar[i])
    /\ Prior(st.quar[i].leg[CurrentLeg(st.quar[i])])
    /\ lastStart - st.quar[i].leg[CurrentLeg(st.quar[i])].cat > Window

\* Every job that was stored is still active, or was completed, cleared or
\* quarantined: no activation overwrites another's job.
NoJobLost ==
  \A id \in 1 .. created : \/ st.job # NoJob /\ st.job.id = id
                           \/ \E e \in ended : e.id = id

\* Every stored job ends, and ends as what the ledger did allows: none is
\* overwritten, a dropped one moved nothing, a completed one everything, and
\* only an expired identity in doubt is quarantined.
EndsJustified ==
  NoJobLost /\ ClearedIsUnpaid /\ CompletedConserves /\ QuarantineJustified
=============================================================================

-------------------------- MODULE DisburserProofs --------------------------
(* Theorems about the disburser for every number of activations, every       *)
(* lease length, cadence, fee and amount.                                    *)
EXTENDS Disburser, DisburserTimers, TLAPS

-----------------------------------------------------------------------------
(* The payout arithmetic conserves the staged balance.                       *)

\* Integer division by a positive number is monotone against a product bound.
LEMMA DivBound ==
  ASSUME NEW a \in Nat, NEW n \in Nat \ {0}, NEW b \in Nat, a <= b * n
  PROVE  (a \div n) \in Nat /\ (a \div n) <= b
<1> DEFINE q == a \div n
<1>1. q \in Int /\ n * q <= a /\ a < n * q + n
  BY SMT
<1>2. q >= 0
  <2>1. SUFFICES ASSUME q < 0 PROVE FALSE
    BY <1>1
  <2>2. n * q <= n * (-1)
    BY <1>1, <2>1, SMT
  <2>3. QED
    BY <1>1, <2>2, SMT
<1>3. q <= b
  <2>1. SUFFICES ASSUME q >= b + 1 PROVE FALSE
    BY <1>1
  <2>2. n * q >= n * (b + 1)
    BY <1>1, <2>1, SMT
  <2>3. n * (b + 1) = b * n + n
    BY SMT
  <2>4. QED
    BY <1>1, <2>2, <2>3, SMT
<1>4. QED
  BY <1>1, <1>2, <1>3

\* The age-neutral base never exceeds the balance it is taken from.
LEMMA BaseShareBound ==
  ASSUME NEW total \in Nat, NEW age \in Nat
  PROVE  BaseShare(total, age) \in Nat /\ BaseShare(total, age) <= total
<1>1. AgeNum(age) \in Nat \ {0} /\ AgeDen <= AgeNum(age)
  BY AgeAssumption DEF AgeNum
<1>2. total * AgeDen \in Nat
  BY AgeAssumption
<1>3. total * AgeDen <= total * AgeNum(age)
  BY <1>1, AgeAssumption, SMT
<1>4. QED
  BY <1>1, <1>2, <1>3, DivBound DEF BaseShare

\* The larger bonus share, rounded up, never exceeds the bonus.
LEMMA CeilPctBound ==
  ASSUME NEW n \in Nat
  PROVE  CeilPct(n) \in Nat /\ CeilPct(n) <= n
<1> DEFINE m == n * BonusPct
<1>1. m \in Nat /\ m <= n * 100
  BY PctAssumption, SMT
<1>2. CeilPct(n) = (m + 99) \div 100
  BY DEF CeilPct
<1> HIDE DEF m
<1>3. QED
  BY <1>1, <1>2, SMT

\* Every share is a natural number.
LEMMA SplitTyped ==
  ASSUME NEW total \in Nat, NEW age \in Nat
  PROVE  GrossSplit(total, age) \in [Recipients -> Nat]
<1> DEFINE base == BaseShare(total, age)
           bonus == Monus(total, base)
<1>1. base \in Nat /\ base <= total
  BY BaseShareBound
<1>2. bonus \in Nat
  BY <1>1 DEF Monus
<1>3. CeilPct(bonus) \in Nat /\ CeilPct(bonus) <= bonus
  BY <1>2, CeilPctBound
<1> HIDE DEF base, bonus
<1>4. Monus(bonus, CeilPct(bonus)) \in Nat
  BY <1>2, <1>3 DEF Monus
<1>5. QED
  BY <1>1, <1>2, <1>3, <1>4 DEF GrossSplit, Recipients, base, bonus

\* compute_gross_split neither creates nor loses an e8: base and bonus shares
\* add up to the staged balance, whatever the age and the rounding.
THEOREM SplitConserves ==
  ASSUME NEW total \in Nat, NEW age \in Nat
  PROVE  LET s == GrossSplit(total, age) IN s[1] + s[2] + s[3] = total
<1> DEFINE base == BaseShare(total, age)
           bonus == Monus(total, base)
           two == CeilPct(bonus)
           s == GrossSplit(total, age)
<1>1. base \in Nat /\ base <= total
  BY BaseShareBound
<1>2. bonus \in Nat /\ bonus = total - base
  BY <1>1 DEF Monus
<1>3. two \in Nat /\ two <= bonus
  BY <1>2, CeilPctBound
<1>4. s[1] = base /\ s[2] = two /\ s[3] = Monus(bonus, two)
  BY DEF GrossSplit, Recipients
<1> HIDE DEF base, bonus, two, s
<1>5. Monus(bonus, two) = bonus - two
  BY <1>2, <1>3 DEF Monus
<1>6. s[1] + s[2] + s[3] = total
  BY <1>1, <1>2, <1>3, <1>4, <1>5
<1>7. QED
  BY <1>6 DEF s

\* What plan_payout_transfers plans for one destination debits at most its
\* gross share.
LEMMA DebitWithinShare ==
  ASSUME NEW share \in Nat, NEW charge \in Nat
  PROVE  /\ Monus(share, charge) \in Nat
         /\ DebitOf(Monus(share, charge), charge) \in Nat
         /\ DebitOf(Monus(share, charge), charge) <= share
  BY DEF Monus, DebitOf

\* The planned amounts are natural numbers.
LEMMA PlannedTyped ==
  ASSUME NEW total \in Nat, NEW charge \in Nat, NEW age \in Nat
  PROVE  PlannedAmounts(total, charge, age) \in [Recipients -> Nat]
<1>1. GrossSplit(total, age) \in [Recipients -> Nat]
  BY SplitTyped
<1>2. \A r \in Recipients : Monus(GrossSplit(total, age)[r], charge) \in Nat
  BY <1>1, DebitWithinShare
<1>3. QED
  BY <1>2 DEF PlannedAmounts

\* A plan never overdraws the balance it was computed from: all its amounts
\* and fees together are at most that balance.
THEOREM PlanWithinBalance ==
  ASSUME NEW total \in Nat, NEW charge \in Nat, NEW age \in Nat
  PROVE  LET a == PlannedAmounts(total, charge, age)
         IN  DebitOf(a[1], charge) + DebitOf(a[2], charge) + DebitOf(a[3], charge)
               <= total
<1> DEFINE s == GrossSplit(total, age)
           d(r) == DebitOf(Monus(s[r], charge), charge)
<1>1. s \in [Recipients -> Nat]
  BY SplitTyped
<1>2. s[1] + s[2] + s[3] = total
  BY SplitConserves
<1> HIDE DEF s
<1>3. \A r \in Recipients : d(r) \in Nat /\ d(r) <= s[r] /\ s[r] \in Nat
  BY <1>1, DebitWithinShare
<1>4. 1 \in Recipients /\ 2 \in Recipients /\ 3 \in Recipients
  BY DEF Recipients
<1>5. \A r \in Recipients : PlannedAmounts(total, charge, age)[r] = Monus(s[r], charge)
  BY DEF PlannedAmounts, s
<1>6. d(1) + d(2) + d(3) <= total
  <2> HIDE DEF d
  <2>1. QED
    BY <1>2, <1>3, <1>4
<1>7. QED
  BY <1>4, <1>5, <1>6

-----------------------------------------------------------------------------
(* Plans, leases and identities.                                             *)

\* The first pending transfer exists and is pending.
LEMMA NextIdxPending ==
  ASSUME NEW plan, Pending(plan) # {}
  PROVE  NextIdx(plan) \in Pending(plan)
<1>1. Pending(plan) \subseteq 1 .. 3
  BY DEF Pending, Recipients
<1>2. \E r \in Pending(plan) : \A q \in Pending(plan) : r <= q
  <2>1. CASE 1 \in Pending(plan)
    BY <2>1, <1>1
  <2>2. CASE 1 \notin Pending(plan) /\ 2 \in Pending(plan)
    BY <2>2, <1>1
  <2>3. CASE 1 \notin Pending(plan) /\ 2 \notin Pending(plan)
    <3>1. Pending(plan) = {3}
      BY <2>3, <1>1
    <3>2. QED
      BY <3>1
  <2>4. QED
    BY <2>1, <2>2, <2>3
<1>3. QED
  BY <1>2 DEF NextIdx

LEMMA NextIdxRecipient ==
  ASSUME NEW plan, Pending(plan) # {}
  PROVE  NextIdx(plan) \in Recipients
  BY NextIdxPending DEF Pending

\* Record building keeps activations well typed.
LEMMA AwaitTyped ==
  ASSUME TypeOK, NEW p \in Proc, NEW call \in Calls
  PROVE  Await(p, call) \in Activations /\ Idle \in Activations
  BY DEF TypeOK, LocalTypeOK, Await, Idle, Activations, Calls, Verdicts

\* The initial state is well typed and satisfies the invariant.
LEMMA InitIInv == Init => IInv
<1> SUFFICES ASSUME Init PROVE IInv
  OBVIOUS
<1>1. Idle \in Activations
  BY DEF Idle, Activations, Calls, Verdicts
<1>2. TypeOK
  <2>1. resume \in BOOLEAN
    BY DEF Init
  <2>2. PersistedTypeOK
    BY <2>1, TimeAssumption DEF Init, PersistedTypeOK, Unlocked
  <2>3. LocalTypeOK
    BY <1>1 DEF Init, LocalTypeOK
  <2>4. WorldTypeOK
    BY AmountAssumption DEF Init, WorldTypeOK
  <2>5. QED
    BY <2>2, <2>3, <2>4 DEF TypeOK
<1>3. \A p \in Proc : act[p].pc = "idle"
  BY DEF Init, Idle
<1>4. SendingOK /\ LeaseInv /\ SuccessInv
  BY <1>3 DEF SendingOK, LeaseInv, SuccessInv, Sending
<1>5. IdInv /\ IdentityPaidOnce /\ SentIsExecuted
  BY <1>3 DEF Init, IdInv, IdentityPaidOnce, SentIsExecuted, Sending
<1>6. QED
  BY <1>2, <1>4, <1>5 DEF IInv

-----------------------------------------------------------------------------
(* Type correctness.                                                         *)

\* What the end of an activation assigns has its type.
LEMMA CompleteTyped ==
  ASSUME TypeOK, NEW p \in Proc, DropGuard(p) \/ Finish(p) \/ Complete(p)
  PROVE  /\ act' \in [Proc -> Activations]
         /\ main_lock' \in Nat /\ last_main_run' \in Nat /\ prev_age' \in Nat
         /\ govQ' \in Seq(Proc)
<1> USE DEF TypeOK, PersistedTypeOK, LocalTypeOK
<1>1. Idle \in Activations
  BY AwaitTyped DEF Calls
<1>2. act[p].start \in Nat
  BY DEF Activations
<1>3. Released(main_lock, act[p].expiry) \in Nat
  BY DEF Released, Unlocked
<1>4. [act EXCEPT ![p] = Idle] \in [Proc -> Activations]
  BY <1>1
<1>5. CASE DropGuard(p)
  BY <1>3, <1>4, <1>5 DEF DropGuard
<1>6. CASE Finish(p)
  BY <1>2, <1>3, <1>4, <1>6 DEF Finish
<1>7. QED
  BY <1>5, <1>6 DEF Complete

\* What the end of the payout stage assigns has its type.
LEMMA EndTyped ==
  ASSUME TypeOK, NEW p \in Proc, NEW ok \in BOOLEAN, EndPayout(p, ok)
  PROVE  /\ act' \in [Proc -> Activations]
         /\ main_lock' \in Nat /\ last_main_run' \in Nat /\ prev_age' \in Nat
         /\ govQ' \in Seq(Proc)
<1>1. CASE DropGuard(p) \/ Finish(p) \/ Complete(p)
  BY <1>1, CompleteTyped, Zenon
<1>2. CASE InitiateDisbursement(p)
  <2> USE DEF TypeOK, PersistedTypeOK, LocalTypeOK
  <2>1. Await(p, "disburse") \in Activations
    BY AwaitTyped DEF Calls
  <2>2. AgeSeconds(p) \in Nat
    BY TimeAssumption DEF Activations, AgeSeconds, Monus
  <2>3. act' \in [Proc -> Activations]
    BY <1>2, <2>1 DEF InitiateDisbursement
  <2>4. QED
    BY <1>2, <2>2, <2>3 DEF InitiateDisbursement
<1>3. QED
  BY <1>1, <1>2, Zenon DEF EndPayout

LEMMA SendTyped ==
  ASSUME TypeOK, NEW p \in Proc, NEW plan \in PlanSet, planCover' \subseteq Nat,
         SendNext(p, plan)
  PROVE  /\ act' \in [Proc -> Activations]
         /\ main_lock' \in Nat /\ last_main_run' \in Nat /\ prev_age' \in Nat
         /\ govQ' \in Seq(Proc) /\ ledgerQ' \in Seq(Proc)
         /\ payout_plan' \in PlanSet \cup {NoPlan} /\ staged' \subseteq Nat
<1>1. [Await(p, "transfer") EXCEPT !.plan = plan] \in Activations
  BY AwaitTyped DEF Calls, Activations
<1>2. CASE EndPayout(p, FALSE) /\ payout_plan' = plan
           /\ UNCHANGED <<ledgerQ, staged>>
  BY <1>2, EndTyped DEF TypeOK, PersistedTypeOK, LocalTypeOK, WorldTypeOK
<1>3. CASE EndPayout(p, TRUE) /\ payout_plan' = NoPlan
           /\ staged' = staged \ planCover' /\ UNCHANGED ledgerQ
  BY <1>3, EndTyped DEF TypeOK, PersistedTypeOK, LocalTypeOK, WorldTypeOK
<1>4. CASE /\ payout_plan' = plan
           /\ act' = [act EXCEPT ![p] =
                        [Await(p, "transfer") EXCEPT !.plan = plan]]
           /\ ledgerQ' = Append(ledgerQ, p)
           /\ UNCHANGED <<main_lock, last_main_run, prev_age, govQ, staged>>
  BY <1>1, <1>4 DEF TypeOK, PersistedTypeOK, LocalTypeOK, WorldTypeOK
<1>5. QED
  BY <1>2, <1>3, <1>4 DEF SendNext

\* The environment's steps preserve the types.
LEMMA TypeWorld ==
  ASSUME TypeOK, SendingOK,
         Tick \/ FeeChange \/ Deposit \/ Finalize \/ LedgerServe \/ GovServe
           \/ DropRequest
  PROVE  TypeOK'
<1> USE DEF TypeOK, PersistedTypeOK, LocalTypeOK, WorldTypeOK, persisted,
            ledger, gov, history
<1>0. resume' \in BOOLEAN
  BY DEF Tick, FeeChange, Deposit, Finalize, LedgerServe, GovServe, DropRequest
<1>1. CASE Tick
  BY <1>0, <1>1 DEF Tick
<1>2. CASE FeeChange
  BY <1>0, <1>2, AmountAssumption DEF FeeChange
<1>3. CASE Deposit
  BY <1>0, <1>3, AmountAssumption DEF Deposit
<1>4. CASE Finalize
  <2>1. Head(disb) \in Nat /\ Tail(disb) \in Seq(Nat)
    BY <1>4 DEF Finalize
  <2>2. balance' \in Nat
    BY <1>4, AmountAssumption DEF Finalize
  <2>3. disb' \in Seq(Nat) /\ staged' \subseteq Nat
    BY <1>4, <2>1, Zenon DEF Finalize
  <2>4. QED
    BY <1>0, <1>4, <2>2, <2>3 DEF Finalize
<1>5. CASE LedgerServe
  <2> DEFINE p == Head(ledgerQ)
  <2>1. p \in Proc /\ Tail(ledgerQ) \in Seq(Proc)
    BY <1>5 DEF LedgerServe
  <2>2. act[p] \in Activations
    BY <2>1
  <2> HIDE DEF p
  <2>3. CASE ServeBalance(p)
    <3>1. act' \in [Proc -> Activations]
      BY <2>1, <2>2, <2>3 DEF ServeBalance, Activations
    <3>2. QED
      BY <1>0, <1>5, <2>1, <2>3, <3>1 DEF LedgerServe, ServeBalance
  <2>4. CASE ServeFee(p)
    <3>1. act' \in [Proc -> Activations]
      BY <2>1, <2>2, <2>4 DEF ServeFee, Activations
    <3>2. QED
      BY <1>0, <1>5, <2>1, <2>4, <3>1 DEF LedgerServe, ServeFee
  <2>5. CASE ServeTransfer(p)
    <3> DEFINE tx == TxOf(act[p].plan, NextIdx(act[p].plan))
    <3>1. PICK v \in VerdictsFor(tx) :
            /\ act' = [act EXCEPT ![p].got = TRUE, ![p].verdict = v]
            /\ blocks' = IF v = "ok" THEN blocks \cup {tx} ELSE blocks
            /\ balance' = IF v = "ok" THEN balance - (tx.amt + tx.fee)
                                      ELSE balance
      BY <2>5 DEF ServeTransfer
    <3>2. v \in Verdicts /\ (v = "ok" => balance >= tx.amt + tx.fee)
      BY <3>1 DEF VerdictsFor, Verdicts
    <3>3. act[p].plan \in PlanSet /\ NextIdx(act[p].plan) \in Recipients
      BY <2>1, <2>2, <2>5, NextIdxRecipient
         DEF ServeTransfer, SendingOK, Sending, Activations
    <3>4. tx \in Tx /\ tx.amt \in Nat /\ tx.fee \in Nat
      BY <3>3 DEF TxOf, Tx, PlanSet
    <3>5. act' \in [Proc -> Activations]
      BY <2>1, <2>2, <3>1, <3>2 DEF Activations
    <3> HIDE DEF tx
    <3>6. balance' \in Nat /\ blocks' \subseteq Tx
      <4>1. CASE v = "ok"
        <5>1. balance' = balance - (tx.amt + tx.fee)
          BY <3>1, <4>1, Zenon
        <5>2. balance' \in Nat
          BY <3>2, <3>4, <4>1, <5>1
        <5>3. blocks' = blocks \cup {tx}
          BY <3>1, <4>1, Zenon
        <5>4. QED
          BY <3>4, <5>2, <5>3
      <4>2. CASE v # "ok"
        BY <3>1, <4>2, Zenon
      <4>3. QED
        BY <4>1, <4>2
    <3>7. QED
      BY <1>0, <1>5, <2>1, <2>5, <3>5, <3>6 DEF LedgerServe, ServeTransfer
  <2>6. QED
    BY <1>5, <2>3, <2>4, <2>5 DEF LedgerServe, p
<1>6. CASE GovServe
  <2> DEFINE p == Head(govQ)
  <2>1. p \in Proc /\ Tail(govQ) \in Seq(Proc)
    BY <1>6 DEF GovServe
  <2>2. act[p] \in Activations
    BY <2>1
  <2> HIDE DEF p
  <2>3. CASE ServeNeuron(p)
    <3>1. act' \in [Proc -> Activations]
      BY <2>1, <2>2, <2>3 DEF ServeNeuron, Activations
    <3>2. QED
      BY <1>0, <1>6, <2>1, <2>3, <3>1 DEF GovServe, ServeNeuron
  <2>4. CASE ServeDisburse(p)
    <3>1. act' \in [Proc -> Activations]
      BY <2>1, <2>2, <2>4 DEF ServeDisburse, Activations
    <3>2. AgeSeconds(p) \in Nat
      BY <2>2, TimeAssumption DEF AgeSeconds, Activations, Monus
    <3>3. Append(disb, AgeSeconds(p)) \in Seq(Nat)
      BY <3>2
    <3>4. maturity' \in Nat
      BY <2>4, SMTT(30) DEF ServeDisburse
    <3>5. disb' \in Seq(Nat)
      BY <2>4, <3>3, Zenon DEF ServeDisburse
    <3>6. QED
      BY <1>0, <1>6, <2>1, <3>1, <3>4, <3>5 DEF GovServe, p
  <2>5. QED
    BY <1>6, <2>3, <2>4 DEF GovServe, p
<1>7. CASE DropRequest
  <2>1. \A q \in Seq(Proc) : q # <<>> => Tail(q) \in Seq(Proc)
    OBVIOUS
  <2>2. ledgerQ' \in Seq(Proc) /\ govQ' \in Seq(Proc)
    BY <1>7, <2>1, Zenon DEF DropRequest
  <2>3. QED
    BY <1>0, <1>7, <2>2 DEF DropRequest
<1>8. QED
  BY <1>1, <1>2, <1>3, <1>4, <1>5, <1>6, <1>7

\* A refused tick and an upgrade preserve the types.
LEMMA TypeIdle ==
  ASSUME TypeOK, MainDeferred \/ ResumeBusy \/ Upgrade
  PROVE  TypeOK'
<1> USE DEF TypeOK, PersistedTypeOK, LocalTypeOK, WorldTypeOK, ledger, gov,
            history
<1>1. resume' \in BOOLEAN
  BY DEF MainDeferred, ResumeBusy, Upgrade
<1>2. CASE MainDeferred
  BY <1>1, <1>2 DEF MainDeferred, Unlocked
<1>3. CASE Upgrade
  BY <1>1, <1>3 DEF Upgrade, Unlocked
<1>4. CASE ResumeBusy
  BY <1>1, <1>4 DEF ResumeBusy
<1>5. QED
  BY <1>2, <1>3, <1>4

\* Starting an activation preserves the types.
LEMMA TypeStart ==
  ASSUME TypeOK, NEW p \in Proc, MainStart(p) \/ PokeStart(p)
  PROVE  TypeOK'
<1> USE DEF TypeOK, PersistedTypeOK, LocalTypeOK, WorldTypeOK, ledger, gov,
            history
<1>0. resume' \in BOOLEAN
  BY DEF MainStart, PokeStart
<1>1. now + Lease \in Nat
  BY TimeAssumption
<1>2. ASSUME NEW k \in {"main", "poke"}, NEW call \in Calls, Acquire(p, k, call)
      PROVE  act' \in [Proc -> Activations] /\ main_lock' \in Nat
  BY <1>1, <1>2 DEF Acquire, Idle, Activations, Calls, Verdicts, LeaseExpiry
<1>3. CASE MainStart(p)
  <2>1. act' \in [Proc -> Activations] /\ main_lock' \in Nat
    BY <1>2, <1>3 DEF MainStart, Calls
  <2>2. QED
    BY <1>0, <1>3, <2>1 DEF MainStart
<1>4. CASE PokeStart(p)
  <2>1. act' \in [Proc -> Activations] /\ main_lock' \in Nat
    BY <1>2, <1>4 DEF PokeStart, Calls
  <2>2. govQ' \in Seq(Proc)
    BY <1>4 DEF PokeStart
  <2>3. QED
    BY <1>0, <1>4, <2>1, <2>2 DEF PokeStart
<1>5. QED
  BY <1>3, <1>4

\* Every callback preserves the types.
LEMMA TypeCallback ==
  ASSUME TypeOK, SendingOK, NEW p \in Proc, Callback(p)
  PROVE  TypeOK'
<1> USE DEF TypeOK, PersistedTypeOK, LocalTypeOK, WorldTypeOK, ledger, gov,
            history
<1>0. resume' \in BOOLEAN
  BY DEF Callback, ClaimReply, RefreshReply, NeuronReply, NeuronFailed,
         BalanceReply, FeeReply, LedgerFailed, TransferReply, DisburseReply
<1>1. act[p] \in Activations
  OBVIOUS
<1>2. ASSUME DropGuard(p) \/ Finish(p) \/ Complete(p)
      PROVE  /\ act' \in [Proc -> Activations]
             /\ main_lock' \in Nat /\ last_main_run' \in Nat
             /\ prev_age' \in Nat /\ govQ' \in Seq(Proc)
  BY <1>2, CompleteTyped, Zenon
<1>3. CASE ClaimReply(p)
  <2>1. Await(p, "refresh") \in Activations
    BY AwaitTyped DEF Calls
  <2>2. CASE IsCurrent(p)
    BY <1>0, <1>3, <2>1, <2>2 DEF ClaimReply
  <2>3. CASE ~IsCurrent(p)
    BY <1>0, <1>2, <1>3, <2>3 DEF ClaimReply
  <2>4. QED
    BY <2>2, <2>3
<1>4. CASE RefreshReply(p)
  <2>1. Await(p, "neuron") \in Activations /\ Append(govQ, p) \in Seq(Proc)
    BY AwaitTyped DEF Calls
  <2>2. CASE IsCurrent(p)
    BY <1>0, <1>4, <2>1, <2>2 DEF RefreshReply
  <2>3. CASE ~IsCurrent(p)
    BY <1>0, <1>2, <1>4, <2>3 DEF RefreshReply
  <2>4. QED
    BY <2>2, <2>3
<1>5. CASE NeuronReply(p)
  <2>1. CASE StartPayout(p)
    <3>1. Await(p, "balance") \in Activations
      BY AwaitTyped DEF Calls
    <3>2. [Await(p, "balance") EXCEPT !.nonce = payout_nonce,
             !.plan = payout_plan, !.age = prev_age] \in Activations
      BY <3>1 DEF Activations
    <3>3. act' \in [Proc -> Activations] /\ ledgerQ' \in Seq(Proc)
      BY <2>1, <3>2 DEF StartPayout
    <3>4. QED
      BY <1>0, <1>5, <2>1, <3>3 DEF NeuronReply, StartPayout
  <2>2. CASE (Complete(p) \/ DropGuard(p)) /\ UNCHANGED ledgerQ
    BY <1>0, <1>2, <1>5, <2>2 DEF NeuronReply
  <2>3. QED
    BY <1>5, <2>1, <2>2 DEF NeuronReply
<1>6. CASE NeuronFailed(p)
  BY <1>0, <1>2, <1>6 DEF NeuronFailed
<1>7. CASE BalanceReply(p)
  <2> USE DEF BalanceReply
  <2>1. CASE EndPayout(p, FALSE) /\ UNCHANGED <<payout_plan, ledgerQ, staged>>
    BY <1>0, <1>7, <2>1, EndTyped
  <2>2. CASE EndPayout(p, TRUE) /\ UNCHANGED <<payout_plan, ledgerQ>>
             /\ staged' = staged \ act[p].seen
    BY <1>0, <1>7, <2>2, EndTyped
  <2>3. CASE /\ act' = [act EXCEPT ![p].pc = "fee", ![p].got = FALSE]
             /\ ledgerQ' = Append(ledgerQ, p)
             /\ UNCHANGED <<main_lock, last_main_run, prev_age, govQ,
                            payout_plan, staged>>
    <3>1. act' \in [Proc -> Activations]
      BY <1>1, <2>3 DEF Activations, Calls
    <3>2. ledgerQ' \in Seq(Proc)
      BY <2>3
    <3>3. QED
      BY <1>0, <1>7, <2>3, <3>1, <3>2
  <2>4. CASE payout_plan # NoPlan /\ SendNext(p, payout_plan)
    <3>1. payout_plan \in PlanSet /\ planCover' \subseteq Nat
      BY <1>7, <2>4
    <3>2. QED
      BY <1>0, <1>7, <2>4, <3>1, SendTyped
  <2>5. QED
    BY <1>7, <2>1, <2>2, <2>3, <2>4
<1>8. CASE FeeReply(p)
  <2>1. CASE EndPayout(p, FALSE)
             /\ UNCHANGED <<payout_nonce, payout_plan, ledgerQ, history>>
    BY <1>0, <1>8, <2>1, EndTyped DEF FeeReply
  <2>2. CASE /\ payout_nonce' = NextNonce /\ planCover' = act[p].seen
             /\ SendNext(p, NewPlan(p))
    <3>1. PlannedAmounts(act[p].bal, act[p].feeOf, act[p].age)
            \in [Recipients -> Nat]
      BY <1>1, PlannedTyped DEF Activations
    <3>2. NewPlan(p) \in PlanSet
      BY <1>1, <3>1 DEF NewPlan, PlanSet, Activations
    <3>3. planCover' \subseteq Nat /\ payout_nonce' \in Nat
      BY <1>1, <2>2 DEF Activations, NextNonce
    <3>4. QED
      BY <1>0, <1>8, <2>2, <3>2, <3>3, SendTyped DEF FeeReply
  <2>3. QED
    BY <1>8, <2>1, <2>2 DEF FeeReply
<1>9. CASE LedgerFailed(p)
  BY <1>0, <1>9, EndTyped DEF LedgerFailed
<1>10. CASE TransferReply(p)
  <2>1. CASE EndPayout(p, FALSE)
             /\ UNCHANGED <<last_success, ledgerQ, staged>>
             /\ payout_plan' \in {payout_plan, NoPlan}
    BY <1>0, <1>10, <2>1, EndTyped DEF TransferReply
  <2>2. CASE last_success' = act[p].start /\ SendNext(p, MarkSent(p))
    <3>1. act[p].plan \in PlanSet /\ NextIdx(act[p].plan) \in Recipients
      BY <1>1, <1>10, NextIdxRecipient
         DEF TransferReply, SendingOK, Sending, Activations
    <3>2. MarkSent(p) \in PlanSet
      BY <3>1 DEF MarkSent, PlanSet
    <3>3. planCover' \subseteq Nat /\ last_success' \in Nat
      BY <1>1, <1>10, <2>2 DEF TransferReply, Activations
    <3>4. QED
      BY <1>0, <1>10, <2>2, <3>2, <3>3, SendTyped DEF TransferReply
  <2>3. QED
    BY <1>10, <2>1, <2>2 DEF TransferReply
<1>11. CASE DisburseReply(p)
  BY <1>0, <1>2, <1>11 DEF DisburseReply
<1>12. QED
  BY <1>3, <1>4, <1>5, <1>6, <1>7, <1>8, <1>9, <1>10, <1>11 DEF Callback

-----------------------------------------------------------------------------
(* The lease.                                                                *)

\* What an activation's own step does to the activations and the lock word:
\* it goes on under its lease, or becomes idle and gives the lease back.
OwnStep(p) ==
  /\ now' = now
  /\ act[p].pc # "idle"
  /\ \A q \in Proc : q # p => act'[q] = act[q]
  /\ \/ act'[p].expiry = act[p].expiry /\ main_lock' = main_lock
     \/ act'[p].pc = "idle" /\ main_lock' = Released(main_lock, act[p].expiry)

LEMMA EndOwnStep ==
  ASSUME TypeOK, NEW p \in Proc, NEW ok \in BOOLEAN, EndPayout(p, ok),
         now' = now, act[p].pc # "idle"
  PROVE  OwnStep(p)
<1> USE DEF TypeOK, LocalTypeOK
<1>1. CASE /\ act' = [act EXCEPT ![p] = Idle]
           /\ main_lock' = Released(main_lock, act[p].expiry)
  BY <1>1 DEF OwnStep, Idle
<1>2. CASE /\ act' = [act EXCEPT ![p] = Await(p, "disburse")]
           /\ main_lock' = main_lock
  BY <1>2 DEF OwnStep, Await, Idle
<1>3. QED
  BY <1>1, <1>2 DEF EndPayout, Complete, Finish, DropGuard,
     InitiateDisbursement

LEMMA SendOwnStep ==
  ASSUME TypeOK, NEW p \in Proc, NEW plan, SendNext(p, plan),
         now' = now, act[p].pc # "idle"
  PROVE  OwnStep(p)
<1>1. CASE EndPayout(p, FALSE) \/ EndPayout(p, TRUE)
  BY <1>1, EndOwnStep
<1>2. CASE /\ act' = [act EXCEPT ![p] =
                        [Await(p, "transfer") EXCEPT !.plan = plan]]
           /\ main_lock' = main_lock
  BY <1>2 DEF OwnStep, TypeOK, LocalTypeOK, Idle, Await
<1>3. QED
  BY <1>1, <1>2 DEF SendNext

\* Every callback is a step of this form.
LEMMA CallbackOwnStep ==
  ASSUME TypeOK, NEW p \in Proc, Callback(p)
  PROVE  OwnStep(p)
<1> USE DEF TypeOK, LocalTypeOK
<1>0. ASSUME DropGuard(p) \/ Finish(p) \/ Complete(p),
             now' = now, act[p].pc # "idle"
      PROVE  OwnStep(p)
  BY <1>0 DEF OwnStep, DropGuard, Finish, Complete, Idle
<1>1. CASE ClaimReply(p)
  <2>1. CASE act' = [act EXCEPT ![p] = Await(p, "refresh")]
             /\ main_lock' = main_lock
    BY <1>1, <2>1 DEF ClaimReply, OwnStep, Await, Idle
  <2>2. QED
    BY <1>0, <1>1, <2>1 DEF ClaimReply
<1>2. CASE RefreshReply(p)
  <2>1. CASE act' = [act EXCEPT ![p] = Await(p, "neuron")]
             /\ main_lock' = main_lock
    BY <1>2, <2>1 DEF RefreshReply, OwnStep, Await, Idle
  <2>2. QED
    BY <1>0, <1>2, <2>1 DEF RefreshReply
<1>3. CASE NeuronReply(p)
  <2>1. CASE StartPayout(p)
    BY <1>3, <2>1 DEF NeuronReply, StartPayout, OwnStep, Await, Idle
  <2>2. QED
    BY <1>0, <1>3, <2>1 DEF NeuronReply
<1>4. CASE NeuronFailed(p)
  BY <1>0, <1>4 DEF NeuronFailed
<1>5. CASE BalanceReply(p)
  <2>1. CASE act' = [act EXCEPT ![p].pc = "fee", ![p].got = FALSE]
             /\ main_lock' = main_lock
    BY <1>5, <2>1 DEF BalanceReply, OwnStep
  <2>2. QED
    BY <1>5, <2>1, EndOwnStep, SendOwnStep DEF BalanceReply
<1>6. CASE FeeReply(p)
  BY <1>6, EndOwnStep, SendOwnStep DEF FeeReply
<1>7. CASE LedgerFailed(p)
  BY <1>7, EndOwnStep DEF LedgerFailed
<1>8. CASE TransferReply(p)
  BY <1>8, EndOwnStep, SendOwnStep DEF TransferReply
<1>9. CASE DisburseReply(p)
  BY <1>0, <1>9 DEF DisburseReply
<1>10. QED
  BY <1>1, <1>2, <1>3, <1>4, <1>5, <1>6, <1>7, <1>8, <1>9 DEF Callback

\* Such a step keeps the lease exclusive.
LEMMA LeaseOwnStep ==
  ASSUME TypeOK, LeaseInv, NEW p \in Proc, OwnStep(p)
  PROVE  LeaseInv'
<1>1. \A q \in Proc : act[q].expiry \in Nat
  BY DEF TypeOK, LocalTypeOK, Activations
<1>2. SUFFICES ASSUME NEW q \in Proc, act'[q].pc # "idle", now' < act'[q].expiry
               PROVE  /\ main_lock' = act'[q].expiry
                      /\ \A r \in Proc : act'[r].pc # "idle"
                           /\ now' < act'[r].expiry => q = r
  BY DEF LeaseInv
<1>3. CASE act'[p].expiry = act[p].expiry /\ main_lock' = main_lock
  BY <1>1, <1>2, <1>3 DEF OwnStep, LeaseInv
<1>4. CASE act'[p].pc = "idle" /\ main_lock' = Released(main_lock, act[p].expiry)
  <2>1. q # p /\ act[q].pc # "idle" /\ now < act[q].expiry
    BY <1>2, <1>4 DEF OwnStep
  <2>2. main_lock = act[q].expiry
    BY <2>1 DEF LeaseInv
  <2>3. act[p].expiry # act[q].expiry
    BY <2>1 DEF LeaseInv, OwnStep
  <2>4. QED
    BY <1>2, <1>4, <2>1, <2>2, <2>3 DEF OwnStep, LeaseInv, Released
<1>5. QED
  BY <1>3, <1>4 DEF OwnStep

\* Every step keeps the lease exclusive.
LEMMA LeaseNext ==
  ASSUME TypeOK, LeaseInv, [Next]_vars
  PROVE  LeaseInv'
<1> USE DEF TypeOK, PersistedTypeOK, LocalTypeOK
<1>1. \A q \in Proc : act[q].expiry \in Nat
  BY DEF Activations
<1>2. CASE Tick
  BY <1>1, <1>2 DEF Tick, LeaseInv, persisted
<1>3. CASE FeeChange \/ Deposit \/ Finalize \/ DropRequest \/ UNCHANGED vars
  BY <1>3 DEF FeeChange, Deposit, Finalize, DropRequest, LeaseInv, persisted,
     vars
<1>4. ASSUME NEW p \in Proc, act'[p].pc = act[p].pc,
             act'[p].expiry = act[p].expiry,
             \A q \in Proc : q # p => act'[q] = act[q],
             UNCHANGED <<now, persisted>>
      PROVE  LeaseInv'
  BY <1>4 DEF LeaseInv, persisted
<1>5. CASE LedgerServe
  <2> DEFINE p == Head(ledgerQ)
  <2>1. p \in Proc
    BY <1>5 DEF LedgerServe
  <2>2. ServeBalance(p) \/ ServeFee(p) \/ ServeTransfer(p)
    BY <1>5 DEF LedgerServe
  <2> HIDE DEF p
  <2>3. /\ act'[p].pc = act[p].pc /\ act'[p].expiry = act[p].expiry
        /\ \A q \in Proc : q # p => act'[q] = act[q]
    BY <2>1, <2>2 DEF ServeBalance, ServeFee, ServeTransfer, Activations
  <2>4. QED
    BY <1>4, <1>5, <2>1, <2>3 DEF LedgerServe
<1>6. CASE GovServe
  <2> DEFINE p == Head(govQ)
  <2>1. p \in Proc
    BY <1>6 DEF GovServe
  <2>2. ServeNeuron(p) \/ ServeDisburse(p)
    BY <1>6 DEF GovServe
  <2> HIDE DEF p
  <2>3. /\ act'[p].pc = act[p].pc /\ act'[p].expiry = act[p].expiry
        /\ \A q \in Proc : q # p => act'[q] = act[q]
    BY <2>1, <2>2 DEF ServeNeuron, ServeDisburse, Activations
  <2>4. QED
    BY <1>4, <1>6, <2>1, <2>3 DEF GovServe
<1>7. ASSUME CanAcquire(main_lock, now)
      PROVE  \A q \in Proc : act[q].pc # "idle" => ~(now < act[q].expiry)
  BY <1>1, <1>7 DEF LeaseInv, CanAcquire
<1>8. CASE MainDeferred
  BY <1>7, <1>8 DEF MainDeferred, LeaseInv
<1>9. CASE Upgrade
  BY <1>9 DEF Upgrade, LeaseInv
<1>10. ASSUME NEW p \in Proc, NEW k, NEW call, Acquire(p, k, call), now' = now
       PROVE  LeaseInv'
  <2>1. /\ act'[p].expiry = now + Lease /\ main_lock' = now + Lease
        /\ \A q \in Proc : q # p => act'[q] = act[q]
    BY <1>10 DEF Acquire, LeaseExpiry, Idle
  <2>2. \A q \in Proc : act[q].pc # "idle" => ~(now < act[q].expiry)
    BY <1>7, <1>10 DEF Acquire
  <2>3. QED
    BY <1>10, <2>1, <2>2 DEF LeaseInv
<1>11. CASE \E p \in Proc : MainStart(p) \/ PokeStart(p)
  BY <1>10, <1>11 DEF MainStart, PokeStart
<1>12. CASE \E p \in Proc : Callback(p)
  BY <1>12, CallbackOwnStep, LeaseOwnStep
<1>13. CASE ResumeBusy
  BY <1>13 DEF ResumeBusy, LeaseInv
<1>14. QED
  BY <1>2, <1>3, <1>5, <1>6, <1>8, <1>9, <1>11, <1>12, <1>13 DEF Next

-----------------------------------------------------------------------------
(* Transfer identities.                                                      *)

\* What the steps of p that send nothing do: no plan appears, p does not wait
\* for a transfer afterwards.
Quiet(p) ==
  /\ blocks' = blocks /\ payout_nonce' = payout_nonce
  /\ payout_plan' \in {payout_plan, NoPlan}
  /\ \A q \in Proc : q # p => act'[q] = act[q]
  /\ act'[p].pc # "transfer"

MoneyInv == /\ SendingOK /\ IdInv /\ IdentityPaidOnce
            /\ SuccessInv /\ SentIsExecuted

LEMMA QuietKeeps ==
  ASSUME MoneyInv, NEW p \in Proc, Quiet(p)
  PROVE  MoneyInv'
<1>1. \A q \in Proc : Sending(q)' => Sending(q) /\ act'[q] = act[q]
  BY DEF Quiet, Sending
<1>2. SendingOK' /\ SuccessInv'
  BY <1>1 DEF MoneyInv, SendingOK, SuccessInv, Quiet
<1>3. IdInv'
  BY <1>1 DEF MoneyInv, IdInv, Quiet, OwnsId
<1>4. IdentityPaidOnce' /\ SentIsExecuted'
  BY DEF MoneyInv, IdentityPaidOnce, SentIsExecuted, Quiet
<1>5. QED
  BY <1>2, <1>3, <1>4 DEF MoneyInv

\* A turn of the execution loop from a plan whose identities are its own
\* and whose Sent transfers are on the ledger.
LEMMA SendKeeps ==
  ASSUME TypeOK, MoneyInv, NEW p \in Proc, NEW plan \in PlanSet,
         SendNext(p, plan),
         blocks' = blocks, payout_nonce' \in Nat, payout_nonce <= payout_nonce',
         plan.id < payout_nonce',
         \A tx \in blocks : tx.id = plan.id => tx = TxOf(plan, tx.to),
         \A q \in Proc : Sending(q) => SameTransfers(act[q].plan, plan),
         \A r \in plan.sent : TxOf(plan, r) \in blocks
  PROVE  MoneyInv'
<1>1. /\ payout_plan' \in {plan, NoPlan}
      /\ \A q \in Proc : q # p => act'[q] = act[q]
      /\ act'[p].pc = "transfer" =>
           act'[p].plan = plan /\ act'[p].verdict = "none" /\ Pending(plan) # {}
  <2> USE DEF TypeOK, LocalTypeOK
  <2>1. ASSUME NEW ok \in BOOLEAN, EndPayout(p, ok)
        PROVE  /\ \A q \in Proc : q # p => act'[q] = act[q]
               /\ act'[p].pc # "transfer"
    <3>1. \/ act' = [act EXCEPT ![p] = Idle]
          \/ act' = [act EXCEPT ![p] = Await(p, "disburse")]
      BY <2>1 DEF EndPayout, Complete, Finish, DropGuard, InitiateDisbursement
    <3>2. Idle.pc = "idle" /\ Await(p, "disburse").pc = "disburse"
      BY DEF Idle, Await
    <3>3. QED
      BY <3>1, <3>2
  <2>2. CASE EndPayout(p, FALSE) /\ payout_plan' = plan
    BY <2>1, <2>2
  <2>3. CASE EndPayout(p, TRUE) /\ payout_plan' = NoPlan
    BY <2>1, <2>3
  <2>4. CASE /\ payout_plan' = plan /\ Pending(plan) # {}
             /\ act' = [act EXCEPT ![p] =
                          [Await(p, "transfer") EXCEPT !.plan = plan]]
    BY <2>4 DEF Await, Idle
  <2>5. QED
    BY <2>2, <2>3, <2>4 DEF SendNext
<1>2. plan # NoPlan
  BY NoPlanAssumption
<1>3. \A q \in Proc : Sending(q)' =>
        (act'[q] = act[q] /\ Sending(q)) \/ (q = p /\ act'[q].plan = plan)
  BY <1>1 DEF Sending
<1>4. SendingOK'
  BY <1>1, <1>2 DEF MoneyInv, SendingOK, Sending
<1>5. SuccessInv'
  BY <1>1 DEF MoneyInv, SuccessInv, Sending, Succeeded
<1>6. \A q \in Proc : Sending(q)' => SameTransfers(act'[q].plan, plan)
  BY <1>3 DEF SameTransfers
<1>7. \A q \in Proc : Sending(q)' => OwnsId(act[q].plan)'
  <2>1. \A q \in Proc : Sending(q) => act[q].plan.id \in Nat
    BY DEF MoneyInv, SendingOK, TypeOK, LocalTypeOK, Activations, PlanSet
  <2>2. payout_nonce \in Nat
    BY DEF TypeOK, PersistedTypeOK
  <2>3. QED
    BY <1>3, <2>1, <2>2 DEF MoneyInv, IdInv, OwnsId
<1>8. IdInv'
  <2>1. \A tx \in blocks : tx.id < payout_nonce'
    BY DEF MoneyInv, IdInv, TypeOK, WorldTypeOK, PersistedTypeOK, Tx
  <2>2. payout_plan' # NoPlan => OwnsId(payout_plan)'
    BY <1>1 DEF OwnsId
  <2>3. ASSUME NEW q \in Proc, Sending(q)', payout_plan' # NoPlan
        PROVE  SameTransfers(act'[q].plan, payout_plan')
    BY <1>1, <1>6, <2>3
  <2>4. ASSUME NEW q \in Proc, Sending(q)', NEW r \in Proc, Sending(r)'
        PROVE  SameTransfers(act'[q].plan, act'[r].plan)
    BY <1>3, <1>6, <2>4 DEF MoneyInv, IdInv, SameTransfers
  <2>5. QED
    BY <1>7, <2>1, <2>2, <2>3, <2>4 DEF IdInv
<1>9. IdentityPaidOnce' /\ SentIsExecuted'
  BY <1>1 DEF MoneyInv, IdentityPaidOnce, SentIsExecuted
<1>10. QED
  BY <1>4, <1>5, <1>8, <1>9 DEF MoneyInv

\* Every callback keeps the identities and the records of success in order.
LEMMA MoneyCallback ==
  ASSUME TypeOK, MoneyInv, NEW p \in Proc, Callback(p)
  PROVE  MoneyInv'
<1> USE DEF TypeOK, LocalTypeOK
<1>1. act[p] \in Activations
  OBVIOUS
<1>2. Idle.pc = "idle" /\ \A c \in Calls : Await(p, c).pc = c
  BY DEF Idle, Await
<1>3. ASSUME DropGuard(p) \/ Finish(p) \/ Complete(p)
             \/ EndPayout(p, FALSE) \/ EndPayout(p, TRUE),
             blocks' = blocks, payout_nonce' = payout_nonce,
             payout_plan' \in {payout_plan, NoPlan}
      PROVE  MoneyInv'
  <2>1. \/ act' = [act EXCEPT ![p] = Idle]
        \/ act' = [act EXCEPT ![p] = Await(p, "disburse")]
    BY <1>3 DEF EndPayout, Complete, Finish, DropGuard, InitiateDisbursement
  <2>2. Quiet(p)
    BY <1>2, <1>3, <2>1 DEF Quiet, Calls
  <2>3. QED
    BY <2>2, QuietKeeps
<1>4. CASE ClaimReply(p)
  <2>1. CASE act' = [act EXCEPT ![p] = Await(p, "refresh")]
    <3>1. Quiet(p)
      BY <1>2, <1>4, <2>1 DEF ClaimReply, Quiet, Calls, ledger
    <3>2. QED
      BY <3>1, QuietKeeps
  <2>2. QED
    BY <1>3, <1>4, <2>1 DEF ClaimReply, ledger
<1>5. CASE RefreshReply(p)
  <2>1. CASE act' = [act EXCEPT ![p] = Await(p, "neuron")]
    <3>1. Quiet(p)
      BY <1>2, <1>5, <2>1 DEF RefreshReply, Quiet, Calls, ledger
    <3>2. QED
      BY <3>1, QuietKeeps
  <2>2. QED
    BY <1>3, <1>5, <2>1 DEF RefreshReply, ledger
<1>6. CASE NeuronReply(p)
  <2>1. CASE StartPayout(p)
    <3>1. act'[p].pc = "balance" /\ \A q \in Proc : q # p => act'[q] = act[q]
      BY <2>1 DEF StartPayout, Await, Idle
    <3>2. Quiet(p)
      BY <1>6, <3>1 DEF NeuronReply, Quiet, ledger
    <3>3. QED
      BY <3>2, QuietKeeps
  <2>2. QED
    BY <1>3, <1>6, <2>1 DEF NeuronReply, ledger
<1>7. CASE NeuronFailed(p)
  BY <1>3, <1>7 DEF NeuronFailed, ledger
<1>8. CASE BalanceReply(p)
  <2>1. CASE act' = [act EXCEPT ![p].pc = "fee", ![p].got = FALSE]
             /\ payout_plan' = payout_plan
    <3>1. act'[p].pc = "fee" /\ \A q \in Proc : q # p => act'[q] = act[q]
      BY <1>1, <2>1 DEF Activations
    <3>2. Quiet(p)
      BY <1>8, <2>1, <3>1 DEF BalanceReply, Quiet, ledger
    <3>3. QED
      BY <3>2, QuietKeeps
  <2>2. CASE payout_plan # NoPlan /\ SendNext(p, payout_plan)
    <3>1. payout_plan \in PlanSet /\ payout_nonce \in Nat
      BY <2>2 DEF PersistedTypeOK
    <3>2. blocks' = blocks /\ payout_nonce' = payout_nonce
      BY <1>8 DEF BalanceReply, ledger
    <3>3. OwnsId(payout_plan)
      BY <2>2 DEF MoneyInv, IdInv
    <3>4. \A q \in Proc : Sending(q) => SameTransfers(act[q].plan, payout_plan)
      BY <2>2 DEF MoneyInv, IdInv
    <3>5. \A r \in payout_plan.sent : TxOf(payout_plan, r) \in blocks
      BY <2>2 DEF MoneyInv, SentIsExecuted
    <3>6. QED
      BY <2>2, <3>1, <3>2, <3>3, <3>4, <3>5, SendKeeps DEF OwnsId
  <2>3. QED
    BY <1>3, <1>8, <2>1, <2>2 DEF BalanceReply, ledger
<1>9. CASE FeeReply(p)
  <2>1. CASE GenerationMatches(p) /\ payout_nonce' = NextNonce
             /\ SendNext(p, NewPlan(p))
    <3>1. payout_nonce \in Nat /\ payout_nonce' = payout_nonce + 1
      BY <2>1 DEF PersistedTypeOK, NextNonce
    <3>2. PlannedAmounts(act[p].bal, act[p].feeOf, act[p].age)
            \in [Recipients -> Nat]
      BY <1>1, PlannedTyped DEF Activations
    <3>3. NewPlan(p) \in PlanSet
      BY <1>1, <3>2 DEF NewPlan, PlanSet, Activations
    <3>4. NewPlan(p).id = payout_nonce /\ NewPlan(p).sent = {}
      BY <2>1 DEF NewPlan, GenerationMatches
    <3>5. \A tx \in blocks : tx.id # NewPlan(p).id
      BY <3>1, <3>4 DEF MoneyInv, IdInv, WorldTypeOK, Tx
    <3>6. \A q \in Proc : Sending(q) => act[q].plan.id # NewPlan(p).id
      <4>1. \A q \in Proc : Sending(q) => act[q].plan.id \in Nat
        BY DEF MoneyInv, SendingOK, Activations, PlanSet
      <4>2. QED
        BY <3>1, <3>4, <4>1 DEF MoneyInv, IdInv, OwnsId
    <3>7. \A q \in Proc : Sending(q) => SameTransfers(act[q].plan, NewPlan(p))
      BY <3>6 DEF SameTransfers
    <3>8. blocks' = blocks
      BY <1>9 DEF FeeReply, ledger
    <3>9. /\ payout_nonce' \in Nat /\ payout_nonce <= payout_nonce'
          /\ NewPlan(p).id < payout_nonce'
      BY <3>1, <3>4
    <3>10. /\ \A tx \in blocks : tx.id = NewPlan(p).id =>
                                  tx = TxOf(NewPlan(p), tx.to)
           /\ \A r \in NewPlan(p).sent : TxOf(NewPlan(p), r) \in blocks
      BY <3>4, <3>5
    <3>11. QED
      BY <2>1, <3>3, <3>7, <3>8, <3>9, <3>10, SendKeeps
  <2>2. QED
    BY <1>3, <1>9, <2>1 DEF FeeReply, ledger
<1>10. CASE LedgerFailed(p)
  BY <1>3, <1>10 DEF LedgerFailed, ledger
<1>11. CASE TransferReply(p)
  <2>1. CASE /\ payout_plan = act[p].plan /\ Succeeded(act[p].verdict)
             /\ SendNext(p, MarkSent(p))
    <3> DEFINE plan == act[p].plan
    <3>1. Sending(p)
      BY <1>11 DEF TransferReply, Sending
    <3>2. plan \in PlanSet /\ plan # NoPlan /\ NextIdx(plan) \in Recipients
      BY <1>1, <3>1, NextIdxRecipient DEF MoneyInv, SendingOK, Activations
    <3>3. /\ MarkSent(p) \in PlanSet
          /\ MarkSent(p).id = plan.id /\ MarkSent(p).fee = plan.fee
          /\ MarkSent(p).base = plan.base /\ MarkSent(p).amt = plan.amt
          /\ MarkSent(p).sent = plan.sent \cup {NextIdx(plan)}
      BY <3>2 DEF MarkSent, PlanSet
    <3>4. \A r : TxOf(MarkSent(p), r) = TxOf(plan, r)
      BY <3>3 DEF TxOf
    <3>5. OwnsId(plan) /\ \A q \in Proc : Sending(q) =>
                            SameTransfers(act[q].plan, MarkSent(p))
      BY <3>1, <3>3 DEF MoneyInv, IdInv, SameTransfers
    <3>6. \A r \in MarkSent(p).sent : TxOf(MarkSent(p), r) \in blocks
      <4>1. TxOf(plan, NextIdx(plan)) \in blocks
        BY <2>1, <3>1 DEF MoneyInv, SuccessInv
      <4>2. \A r \in plan.sent : TxOf(plan, r) \in blocks
        BY <2>1, <3>2 DEF MoneyInv, SentIsExecuted
      <4>3. QED
        BY <3>3, <3>4, <4>1, <4>2
    <3>7. /\ blocks' = blocks /\ payout_nonce' = payout_nonce
          /\ payout_nonce \in Nat
      BY <1>11 DEF TransferReply, ledger, PersistedTypeOK
    <3> HIDE DEF plan
    <3>8. /\ MarkSent(p).id < payout_nonce'
          /\ \A tx \in blocks : tx.id = MarkSent(p).id =>
                                 tx = TxOf(MarkSent(p), tx.to)
      BY <3>3, <3>4, <3>5, <3>7 DEF OwnsId
    <3>9. QED
      BY <2>1, <3>3, <3>5, <3>6, <3>7, <3>8, SendKeeps
  <2>2. QED
    BY <1>3, <1>11, <2>1 DEF TransferReply, ledger
<1>12. CASE DisburseReply(p)
  BY <1>3, <1>12 DEF DisburseReply, ledger
<1>13. QED
  BY <1>4, <1>5, <1>6, <1>7, <1>8, <1>9, <1>10, <1>11, <1>12 DEF Callback

\* The ledger executing, refusing or recognising a transfer.
LEMMA MoneyServe ==
  ASSUME TypeOK, MoneyInv, NEW p \in Proc, ServeTransfer(p),
         UNCHANGED persisted
  PROVE  MoneyInv'
<1> DEFINE plan == act[p].plan
           tx == TxOf(plan, NextIdx(plan))
<1>1. PICK v \in VerdictsFor(tx) :
        /\ act' = [act EXCEPT ![p].got = TRUE, ![p].verdict = v]
        /\ blocks' = IF v = "ok" THEN blocks \cup {tx} ELSE blocks
  BY DEF ServeTransfer
<1>2. act \in [Proc -> Activations] /\ act[p] \in Activations /\ Sending(p)
  BY DEF TypeOK, LocalTypeOK, ServeTransfer, Sending
<1>3. /\ \A q \in Proc : q # p => act'[q] = act[q]
      /\ \A q \in Proc : act'[q].pc = act[q].pc /\ act'[q].plan = act[q].plan
      /\ act'[p].verdict = v
  BY <1>1, <1>2 DEF Activations
<1>4. v \in {"ok", "duplicate"} => tx \in blocks'
  BY <1>1 DEF VerdictsFor
<1>5. tx.id = plan.id /\ tx.to = NextIdx(plan)
  BY DEF TxOf
<1>6. /\ blocks \subseteq blocks' /\ blocks' \subseteq blocks \cup {tx}
      /\ payout_plan' = payout_plan /\ payout_nonce' = payout_nonce
  BY <1>1 DEF persisted
<1>7. OwnsId(plan)
  BY <1>2 DEF MoneyInv, IdInv
<1> HIDE DEF tx
<1>8. SendingOK'
  BY <1>3 DEF MoneyInv, SendingOK, Sending
<1>9. SuccessInv'
  <2>1. SUFFICES ASSUME NEW q \in Proc, Sending(q)', Succeeded(act'[q].verdict)
                 PROVE  TxOf(act'[q].plan, NextIdx(act'[q].plan)) \in blocks'
    BY DEF SuccessInv
  <2>2. CASE q = p
    BY <1>3, <1>4, <2>1, <2>2 DEF Succeeded, tx
  <2>3. CASE q # p
    BY <1>3, <1>6, <2>1, <2>3 DEF MoneyInv, SuccessInv, Sending
  <2>4. QED
    BY <2>2, <2>3
<1>10. SentIsExecuted'
  BY <1>6 DEF MoneyInv, SentIsExecuted
<1>11. IdentityPaidOnce'
  BY <1>5, <1>6, <1>7 DEF MoneyInv, IdentityPaidOnce, OwnsId, tx
<1>12. ASSUME NEW other, OwnsId(other), SameTransfers(plan, other)
       PROVE  OwnsId(other)'
  <2>1. tx.id = other.id => tx = TxOf(other, tx.to)
    BY <1>5, <1>12 DEF SameTransfers, TxOf, tx
  <2>2. QED
    BY <1>6, <1>12, <2>1 DEF OwnsId
<1>13. IdInv'
  <2>1. \A t \in blocks' : t.id < payout_nonce'
    BY <1>5, <1>6, <1>7 DEF MoneyInv, IdInv, OwnsId
  <2>2. payout_plan' # NoPlan => OwnsId(payout_plan)'
    BY <1>2, <1>6, <1>12 DEF MoneyInv, IdInv
  <2>3. ASSUME NEW q \in Proc, Sending(q)'
        PROVE  /\ OwnsId(act[q].plan)'
               /\ payout_plan' # NoPlan =>
                    SameTransfers(act'[q].plan, payout_plan')
               /\ \A r \in Proc : Sending(r)' =>
                    SameTransfers(act'[q].plan, act'[r].plan)
    <3>1. Sending(q)
      BY <1>3, <2>3 DEF Sending
    <3>2. OwnsId(act[q].plan) /\ SameTransfers(plan, act[q].plan)
      BY <1>2, <3>1 DEF MoneyInv, IdInv
    <3>3. OwnsId(act[q].plan)'
      <4>1. \A t \in blocks' : t.id = act[q].plan.id =>
                                 t = TxOf(act[q].plan, t.to)
        BY <1>5, <1>6, <3>2 DEF OwnsId, SameTransfers, TxOf, tx
      <4>2. QED
        BY <1>3, <1>6, <3>2, <4>1 DEF OwnsId
    <3>4. QED
      BY <1>3, <1>6, <3>1, <3>3 DEF MoneyInv, IdInv, Sending
  <2>4. QED
    BY <2>1, <2>2, <2>3 DEF IdInv
<1>14. QED
  BY <1>8, <1>9, <1>10, <1>11, <1>13 DEF MoneyInv

\* A step that leaves the plan, the nonce, the ledger's blocks and what every
\* activation awaits or was told about transfers as they are.
LEMMA MoneyStutter ==
  ASSUME MoneyInv, UNCHANGED <<payout_plan, payout_nonce, blocks>>,
         \A q \in Proc : act'[q] = act[q] \/ act'[q].pc # "transfer"
  PROVE  MoneyInv'
<1>1. \A q \in Proc : Sending(q)' => Sending(q) /\ act'[q] = act[q]
  BY DEF Sending
<1>2. SendingOK' /\ SuccessInv'
  BY <1>1 DEF MoneyInv, SendingOK, SuccessInv
<1>3. IdInv'
  BY <1>1 DEF MoneyInv, IdInv, OwnsId
<1>4. IdentityPaidOnce' /\ SentIsExecuted'
  BY DEF MoneyInv, IdentityPaidOnce, SentIsExecuted
<1>5. QED
  BY <1>2, <1>3, <1>4 DEF MoneyInv

LEMMA MoneyNext ==
  ASSUME TypeOK, MoneyInv, [Next]_vars
  PROVE  MoneyInv'
<1> USE DEF TypeOK, LocalTypeOK, persisted, ledger
<1>1. CASE Tick \/ FeeChange \/ Deposit \/ Finalize \/ DropRequest
           \/ MainDeferred \/ ResumeBusy \/ Upgrade \/ UNCHANGED vars
  <2>1. UNCHANGED <<payout_plan, payout_nonce, blocks, act>>
    BY <1>1 DEF Tick, FeeChange, Deposit, Finalize, DropRequest, MainDeferred,
                ResumeBusy, Upgrade, vars
  <2>2. QED
    BY <2>1, MoneyStutter
<1>2. CASE LedgerServe
  <2> DEFINE p == Head(ledgerQ)
  <2>1. p \in Proc
    BY <1>2 DEF LedgerServe
  <2>2. ServeBalance(p) \/ ServeFee(p) \/ ServeTransfer(p)
    BY <1>2 DEF LedgerServe
  <2> HIDE DEF p
  <2>3. CASE ServeTransfer(p)
    BY <1>2, <2>1, <2>3, MoneyServe DEF LedgerServe
  <2>4. CASE ServeBalance(p) \/ ServeFee(p)
    <3>1. \A q \in Proc : act'[q] = act[q] \/ act'[q].pc # "transfer"
      <4>1. act[p].pc # "transfer" /\ act[p] \in Activations
        BY <2>1, <2>4 DEF ServeBalance, ServeFee
      <4>2. CASE ServeBalance(p)
        BY <2>1, <4>1, <4>2 DEF ServeBalance, Activations
      <4>3. CASE ServeFee(p)
        BY <2>1, <4>1, <4>3 DEF ServeFee, Activations
      <4>4. QED
        BY <2>4, <4>2, <4>3
    <3>2. UNCHANGED <<payout_plan, payout_nonce, blocks>>
      BY <1>2, <2>4 DEF LedgerServe, ServeBalance, ServeFee
    <3>3. QED
      BY <3>1, <3>2, MoneyStutter
  <2>5. QED
    BY <2>2, <2>3, <2>4
<1>3. CASE GovServe
  <2> DEFINE p == Head(govQ)
  <2>1. p \in Proc
    BY <1>3 DEF GovServe
  <2>2. ServeNeuron(p) \/ ServeDisburse(p)
    BY <1>3 DEF GovServe
  <2> HIDE DEF p
  <2>3. \A q \in Proc : act'[q] = act[q] \/ act'[q].pc # "transfer"
    <3>1. act[p].pc # "transfer" /\ act[p] \in Activations
      BY <2>1, <2>2 DEF ServeNeuron, ServeDisburse
    <3>2. CASE ServeNeuron(p)
      BY <2>1, <3>1, <3>2 DEF ServeNeuron, Activations
    <3>3. CASE ServeDisburse(p)
      <4>1. act' = [act EXCEPT ![p].got = TRUE]
        BY <3>3 DEF ServeDisburse
      <4>2. QED
        BY <2>1, <3>1, <4>1 DEF Activations
    <3>4. QED
      BY <2>2, <3>2, <3>3
  <2>4. QED
    BY <1>3, <2>3, MoneyStutter DEF GovServe
<1>4. CASE \E p \in Proc : MainStart(p) \/ PokeStart(p)
  <2>1. PICK p \in Proc : MainStart(p) \/ PokeStart(p)
    BY <1>4
  <2>2. /\ \A q \in Proc : q # p => act'[q] = act[q]
        /\ act'[p].pc \in {"claim", "neuron"}
    <3>1. PICK call \in {"claim", "neuron"}, k \in {"main", "poke"} : Acquire(p, k, call)
      BY <2>1 DEF MainStart, PokeStart
    <3> DEFINE a == [Idle EXCEPT !.pc = call, !.kind = k, !.start = now,
                                 !.expiry = LeaseExpiry(now, Lease)]
    <3>2. a.pc = call
      BY DEF Idle
    <3>3. act' = [act EXCEPT ![p] = a]
      BY <3>1, Zenon DEF Acquire
    <3> HIDE DEF a
    <3> QED
      BY <3>1, <3>2, <3>3
  <2>3. UNCHANGED <<payout_plan, payout_nonce, blocks>>
    BY <2>1 DEF MainStart, PokeStart
  <2>4. QED
    BY <2>2, <2>3, MoneyStutter
<1>5. CASE \E p \in Proc : Callback(p)
  BY <1>5, MoneyCallback
<1>6. QED
  BY <1>1, <1>2, <1>3, <1>4, <1>5 DEF Next

\* The invariant is inductive.
LEMMA NextIInv == IInv /\ [Next]_vars => IInv'
<1> SUFFICES ASSUME IInv, [Next]_vars PROVE IInv'
  OBVIOUS
<1>1. TypeOK /\ SendingOK /\ LeaseInv /\ MoneyInv
  BY DEF IInv, MoneyInv
<1>2. TypeOK'
  <2>1. CASE UNCHANGED vars
    BY <1>1, <2>1 DEF vars, persisted, ledger, gov, history, TypeOK,
       PersistedTypeOK, LocalTypeOK, WorldTypeOK
  <2>2. CASE Tick \/ FeeChange \/ Deposit \/ Finalize \/ LedgerServe
             \/ GovServe \/ DropRequest
    BY <1>1, <2>2, TypeWorld
  <2>3. CASE MainDeferred \/ ResumeBusy \/ Upgrade
    BY <1>1, <2>3, TypeIdle
  <2>4. CASE \E p \in Proc : MainStart(p) \/ PokeStart(p) \/ Callback(p)
    BY <1>1, <2>4, TypeStart, TypeCallback
  <2>5. QED
    BY <2>1, <2>2, <2>3, <2>4 DEF Next
<1>3. LeaseInv'
  BY <1>1, LeaseNext
<1>4. MoneyInv'
  BY <1>1, MoneyNext
<1>5. QED
  BY <1>2, <1>3, <1>4 DEF IInv, MoneyInv

\* The inductive invariant holds in every reachable state.
THEOREM Invariance == Spec => []IInv
  BY InitIInv, NextIInv, PTL DEF Spec

\* Every reachable state is well typed; the staging balance is never negative.
THEOREM TypeCorrect == Spec => []TypeOK
<1>1. IInv => TypeOK
  BY DEF IInv
<1>2. QED
  BY <1>1, Invariance, PTL

\* Two activations never pass is_current together, for any lease length and
\* any number of concurrent ticks and pokes.
THEOREM LeaseIsExclusive == Spec => []LeaseExclusive
<1>1. IInv => LeaseExclusive
  BY DEF IInv, LeaseInv, LeaseExclusive, Holder, IsCurrent
<1>2. QED
  BY <1>1, Invariance, PTL

\* A payout id and transfer index stands for one transfer only, over all
\* plans, retries, lost replies and stale callbacks.
THEOREM IdentityIsPaidOnce == Spec => []IdentityPaidOnce
<1>1. IInv => IdentityPaidOnce
  BY DEF IInv
<1>2. QED
  BY <1>1, Invariance, PTL

\* A transfer recorded as Sent was executed by the ledger.
THEOREM SentWasExecuted == Spec => []SentIsExecuted
<1>1. IInv => SentIsExecuted
  BY DEF IInv
<1>2. QED
  BY <1>1, Invariance, PTL

-----------------------------------------------------------------------------
(* The second strengthening: what is on its way to the ledger and to         *)
(* Governance, under which the plan stays funded and the age snapshot true.  *)

\* p is in flight and its lease has not expired.
Live(p) == act[p].pc # "idle" /\ now < act[p].expiry

LedgerCalls == {"balance", "fee", "transfer"}
GovCalls == {"neuron", "disburse"}

\* The requests under way to one service, given the activations a at time t:
\* each is of an activation awaiting its answer, no activation has two, and
\* only the last one sent can be of an activation whose lease is unexpired.
QueueOK(q, a, t, calls) ==
  /\ \A i \in 1 .. Len(q) : a[q[i]].pc \in calls /\ a[q[i]].got = FALSE
  /\ \A i, j \in 1 .. Len(q) : q[i] = q[j] => i = j
  /\ \A i \in 1 .. Len(q) : t < a[q[i]].expiry => i = Len(q)

\* p has the balance it will plan from.
KnowsBalance(p) ==
  (act[p].pc = "balance" /\ act[p].got = TRUE) \/ act[p].pc = "fee"

\* Once a live activation has its balance, nobody else's request is under way
\* to the ledger: a stale transfer ahead of it was answered or dropped before.
QueueInv ==
  /\ QueueOK(ledgerQ, act, now, LedgerCalls)
  /\ QueueOK(govQ, act, now, GovCalls)
  /\ \A p \in Proc : Live(p) /\ (KnowsBalance(p) \/ Sending(p)) =>
       \A i \in 1 .. Len(ledgerQ) : ledgerQ[i] = p

\* A transfer under way to the ledger belongs to the stored plan, and the
\* balance a live activation read has not been spent.
FundInv ==
  /\ PlanFunded
  /\ \A i \in 1 .. Len(ledgerQ) :
       Sending(ledgerQ[i]) /\ payout_plan # NoPlan =>
         act[ledgerQ[i]].plan.id = payout_plan.id
  /\ \A p \in Proc : Live(p) /\ KnowsBalance(p) => act[p].bal <= balance

DisburseAt(i) == act[govQ[i]].pc = "disburse"

\* No maturity disbursement is in flight or on its way to Governance.
Quiesced == disb = <<>> /\ \A i \in 1 .. Len(govQ) : ~DisburseAt(i)

\* p learnt from the neuron that no disbursement is in flight.
PastNeuron(p) ==
  \/ act[p].pc = "neuron" /\ act[p].got = TRUE /\ act[p].inflight = FALSE
  \/ act[p].pc \in LedgerCalls

\* From the answer about the neuron until the plan is paid out no disbursement
\* is in flight, so what the plan covers is all that was staged.
AgeInv ==
  /\ AgeSnapshot
  /\ payout_plan # NoPlan => staged \subseteq planCover /\ Quiesced
  /\ \A p \in Proc : Live(p) /\ PastNeuron(p) => Quiesced
  /\ \A p \in Proc : Live(p) /\ KnowsBalance(p) => staged \subseteq act[p].seen
  /\ \A i \in 1 .. Len(govQ) : DisburseAt(i) =>
       /\ disb = <<>> /\ AgeSeconds(govQ[i]) = prev_age
       /\ \A j \in 1 .. Len(govQ) : DisburseAt(j) => i = j

\* The stored times never exceed the start of the live activation, and a stale
\* one that may still record a success began after the last recorded one.
StampInv ==
  /\ last_success <= now /\ last_main_run <= now
  /\ \A p \in Proc : act[p].start <= now
  /\ \A p \in Proc : Live(p) =>
       /\ last_success <= act[p].start /\ last_main_run <= act[p].start
       /\ \A q \in Proc : act[q].start <= act[p].start
  /\ \A p \in Proc : Sending(p) /\ payout_plan # NoPlan =>
       (act[p].plan.id = payout_plan.id =>
          act[p].plan.sent \subseteq payout_plan.sent)
  /\ \A p \in Proc : Sending(p) /\ act[p].plan = payout_plan =>
       last_success <= act[p].start
  /\ \A p \in Proc : act[p].pc = "fee" => act[p].plan = NoPlan

FullInv == IInv /\ QueueInv /\ FundInv /\ AgeInv /\ StampInv

-----------------------------------------------------------------------------
(* The queues.                                                               *)

\* The oldest request leaves a queue; only its own activation may change.
LEMMA QueueTail ==
  ASSUME NEW q \in Seq(Proc), q # <<>>, NEW a, NEW b, NEW t, NEW calls,
         QueueOK(q, a, t, calls),
         \A r \in Proc : r # Head(q) => b[r] = a[r]
  PROVE  QueueOK(Tail(q), b, t, calls)
<1>1. /\ Len(q) \in Nat \ {0} /\ Len(Tail(q)) = Len(q) - 1
      /\ \A i \in 1 .. Len(Tail(q)) : Tail(q)[i] = q[i + 1]
      /\ Head(q) = q[1] /\ \A i \in 1 .. Len(q) : q[i] \in Proc
  OBVIOUS
<1>2. \A i \in 1 .. Len(Tail(q)) : /\ i + 1 \in 1 .. Len(q) /\ i + 1 # 1
                                   /\ 1 \in 1 .. Len(q)
  BY <1>1
<1>3. \A i \in 1 .. Len(Tail(q)) : b[Tail(q)[i]] = a[q[i + 1]]
  BY <1>1, <1>2 DEF QueueOK
<1>4. \A i \in 1 .. Len(Tail(q)) : /\ b[Tail(q)[i]].pc \in calls
                                   /\ b[Tail(q)[i]].got = FALSE
  BY <1>2, <1>3 DEF QueueOK
<1>5. \A i, j \in 1 .. Len(Tail(q)) : Tail(q)[i] = Tail(q)[j] => i = j
  <2>1. SUFFICES ASSUME NEW i \in 1 .. Len(Tail(q)), NEW j \in 1 .. Len(Tail(q)),
                        Tail(q)[i] = Tail(q)[j]
                 PROVE  i = j
    OBVIOUS
  <2>2. q[i + 1] = q[j + 1]
    BY <1>1, <2>1
  <2>3. i + 1 = j + 1
    BY <1>2, <2>2 DEF QueueOK
  <2>4. QED
    BY <2>3
<1>6. \A i \in 1 .. Len(Tail(q)) : t < b[Tail(q)[i]].expiry => i = Len(Tail(q))
  <2>1. SUFFICES ASSUME NEW i \in 1 .. Len(Tail(q)), t < b[Tail(q)[i]].expiry
                 PROVE  i = Len(Tail(q))
    OBVIOUS
  <2>2. i + 1 = Len(q)
    BY <1>2, <1>3, <2>1 DEF QueueOK
  <2>3. i \in Int /\ Len(q) \in Int /\ Len(Tail(q)) = Len(q) - 1
    BY <1>1
  <2>4. QED
    BY <2>2, <2>3
<1>7. QED
  BY <1>4, <1>5, <1>6 DEF QueueOK

\* An activation with nothing under way sends, while the others have expired.
LEMMA QueueAppend ==
  ASSUME NEW q \in Seq(Proc), NEW p \in Proc, NEW a, NEW b, NEW t, NEW calls,
         QueueOK(q, a, t, calls),
         \A r \in Proc : r # p => b[r] = a[r],
         b[p].pc \in calls, b[p].got = FALSE,
         \A i \in 1 .. Len(q) : q[i] # p /\ ~(t < a[q[i]].expiry)
  PROVE  QueueOK(Append(q, p), b, t, calls)
<1> DEFINE s == Append(q, p)
<1>1. /\ Len(q) \in Nat /\ Len(s) = Len(q) + 1 /\ s[Len(s)] = p
      /\ \A i \in 1 .. Len(q) : s[i] = q[i] /\ q[i] \in Proc
  OBVIOUS
<1>2. \A i \in 1 .. Len(s) : i \in 1 .. Len(q) \/ i = Len(s)
  BY <1>1
<1> HIDE DEF s
<1>3. \A i \in 1 .. Len(q) : b[s[i]] = a[q[i]] /\ s[i] # p
  BY <1>1
<1>4. \A i \in 1 .. Len(s) : b[s[i]].pc \in calls /\ b[s[i]].got = FALSE
  BY <1>1, <1>2, <1>3 DEF QueueOK
<1>5. \A i, j \in 1 .. Len(s) : s[i] = s[j] => i = j
  BY <1>1, <1>2, <1>3 DEF QueueOK
<1>6. \A i \in 1 .. Len(s) : t < b[s[i]].expiry => i = Len(s)
  BY <1>2, <1>3
<1>7. QED
  BY <1>4, <1>5, <1>6 DEF QueueOK, s

\* Nothing is sent, and only an activation with nothing under way changes.
LEMMA QueueKeep ==
  ASSUME NEW q \in Seq(Proc), NEW a \in [Proc -> Activations], NEW b,
         NEW t \in Nat, NEW u \in Nat, t <= u, NEW calls,
         QueueOK(q, a, t, calls),
         \A i \in 1 .. Len(q) : b[q[i]] = a[q[i]]
  PROVE  QueueOK(q, b, u, calls)
<1>0. \A i \in 1 .. Len(q) : q[i] \in Proc
  OBVIOUS
<1>1. \A i \in 1 .. Len(q) : a[q[i]].expiry \in Nat
  BY <1>0 DEF Activations
<1>2. \A i \in 1 .. Len(q) : u < a[q[i]].expiry => t < a[q[i]].expiry
  BY <1>1
<1>3. QED
  BY <1>2 DEF QueueOK

\* The activation whose callback runs has no request under way.
LEMMA CallbackNotQueued ==
  ASSUME TypeOK, QueueInv, NEW p \in Proc, Callback(p)
  PROVE  /\ \A i \in 1 .. Len(ledgerQ) : ledgerQ[i] # p
         /\ \A i \in 1 .. Len(govQ) : govQ[i] # p
<1>1. \/ act[p].pc \in {"claim", "refresh"}
      \/ act[p].pc # "idle" /\ act[p].got
      \/ Failed(p)
  BY DEF Callback, ClaimReply, RefreshReply, NeuronReply, NeuronFailed,
     BalanceReply, FeeReply, LedgerFailed, TransferReply, DisburseReply
<1>2. CASE act[p].pc \in {"claim", "refresh"}
  BY <1>2 DEF QueueInv, QueueOK, LedgerCalls, GovCalls
<1>3. CASE act[p].got
  BY <1>3 DEF QueueInv, QueueOK
<1>4. CASE Failed(p)
  BY <1>4 DEF Failed, Queued
<1>5. QED
  BY <1>1, <1>2, <1>3, <1>4

\* The end of the payout stage: the activation ends, or the current holder of
\* a main tick goes on to initiate a disbursement.
Ends(p) ==
  /\ act' = [act EXCEPT ![p] = Idle]
  /\ UNCHANGED <<prev_age, govQ>>
  /\ \/ last_main_run' = last_main_run
     \/ IsCurrent(p) /\ last_main_run' = act[p].start

LEMMA EndForm ==
  ASSUME NEW p \in Proc, NEW ok \in BOOLEAN, EndPayout(p, ok)
  PROVE  Ends(p) \/ (ok /\ IsCurrent(p) /\ InitiateDisbursement(p))
  BY DEF EndPayout, Ends, Complete, Finish, DropGuard

LEMMA CompleteForm ==
  ASSUME NEW p \in Proc, DropGuard(p) \/ Finish(p) \/ Complete(p)
  PROVE  Ends(p)
  BY DEF Ends, Complete, Finish, DropGuard

\* What a callback does to the activations and the queues: it ends or waits
\* for a call that is not queued, or, under its lease, sends one request.
Moves(p) ==
  /\ now' = now /\ act[p].pc # "idle"
  /\ \A q \in Proc : q # p => act'[q] = act[q]
  /\ \/ act'[p].pc \in {"idle", "refresh"} /\ UNCHANGED <<ledgerQ, govQ>>
     \/ /\ Live(p) /\ act'[p].got = FALSE /\ act'[p].expiry = act[p].expiry
        /\ \/ /\ act'[p].pc \in LedgerCalls
              /\ act'[p].pc # "balance" => KnowsBalance(p) \/ Sending(p)
              /\ ledgerQ' = Append(ledgerQ, p) /\ govQ' = govQ
           \/ /\ act'[p].pc \in GovCalls
              /\ govQ' = Append(govQ, p) /\ ledgerQ' = ledgerQ

LEMMA EndMoves ==
  ASSUME TypeOK, NEW p \in Proc, Ends(p) \/ (IsCurrent(p) /\ InitiateDisbursement(p)),
         now' = now, act[p].pc # "idle", ledgerQ' = ledgerQ
  PROVE  Moves(p)
<1> USE DEF TypeOK, LocalTypeOK
<1>1. CASE Ends(p)
  <2>1. Idle.pc = "idle"
    BY DEF Idle
  <2>2. QED
    BY <1>1, <2>1 DEF Ends, Moves
<1>2. CASE IsCurrent(p) /\ InitiateDisbursement(p)
  <2>1. /\ Await(p, "disburse").pc = "disburse"
        /\ Await(p, "disburse").got = FALSE
        /\ Await(p, "disburse").expiry = act[p].expiry
    BY DEF Await, Idle
  <2>2. Live(p)
    BY <1>2 DEF Live, IsCurrent
  <2>3. /\ act'[p] = Await(p, "disburse") /\ govQ' = Append(govQ, p)
        /\ \A q \in Proc : q # p => act'[q] = act[q]
    BY <1>2 DEF InitiateDisbursement
  <2>4. QED
    BY <2>1, <2>2, <2>3 DEF Moves, GovCalls
<1>3. QED
  BY <1>1, <1>2

LEMMA SendMoves ==
  ASSUME TypeOK, NEW p \in Proc, NEW plan, SendNext(p, plan), now' = now,
         act[p].pc # "idle", KnowsBalance(p) \/ Sending(p)
  PROVE  Moves(p)
<1> USE DEF TypeOK, LocalTypeOK
<1>1. CASE (EndPayout(p, FALSE) \/ EndPayout(p, TRUE)) /\ UNCHANGED ledgerQ
  BY <1>1, EndForm, EndMoves
<1>2. CASE /\ IsCurrent(p)
           /\ act' = [act EXCEPT ![p] =
                        [Await(p, "transfer") EXCEPT !.plan = plan]]
           /\ ledgerQ' = Append(ledgerQ, p)
           /\ UNCHANGED <<main_lock, last_main_run, prev_age, govQ, staged>>
  <2>1. /\ act'[p] = [Await(p, "transfer") EXCEPT !.plan = plan]
        /\ \A q \in Proc : q # p => act'[q] = act[q]
    BY <1>2
  <2>2. /\ act'[p].pc = "transfer" /\ act'[p].got = FALSE
        /\ act'[p].expiry = act[p].expiry
    BY <2>1 DEF Await, Idle
  <2>3. Live(p)
    BY <1>2 DEF Live, IsCurrent
  <2>4. QED
    BY <1>2, <2>1, <2>2, <2>3 DEF Moves, LedgerCalls
<1>3. QED
  BY <1>1, <1>2 DEF SendNext

LEMMA CallbackMoves ==
  ASSUME TypeOK, NEW p \in Proc, Callback(p)
  PROVE  Moves(p)
<1> USE DEF TypeOK, LocalTypeOK
<1>0. ASSUME DropGuard(p) \/ Finish(p) \/ Complete(p),
             now' = now, act[p].pc # "idle", ledgerQ' = ledgerQ
      PROVE  Moves(p)
  BY <1>0, CompleteForm, EndMoves
<1>01. ASSUME EndPayout(p, FALSE) \/ EndPayout(p, TRUE),
              now' = now, act[p].pc # "idle", ledgerQ' = ledgerQ
       PROVE  Moves(p)
  BY <1>01, EndForm, EndMoves
<1>1. CASE ClaimReply(p)
  <2>1. CASE act' = [act EXCEPT ![p] = Await(p, "refresh")]
             /\ UNCHANGED <<govQ, ledgerQ>>
    <3>1. act'[p].pc = "refresh" /\ \A q \in Proc : q # p => act'[q] = act[q]
      BY <2>1 DEF Await, Idle
    <3>2. QED
      BY <1>1, <2>1, <3>1 DEF ClaimReply, Moves
  <2>2. QED
    BY <1>0, <1>1, <2>1 DEF ClaimReply
<1>2. CASE RefreshReply(p)
  <2>1. CASE IsCurrent(p) /\ act' = [act EXCEPT ![p] = Await(p, "neuron")]
             /\ govQ' = Append(govQ, p)
    <3>1. /\ act'[p].pc = "neuron" /\ act'[p].got = FALSE
          /\ act'[p].expiry = act[p].expiry
          /\ \A q \in Proc : q # p => act'[q] = act[q]
      BY <2>1 DEF Await, Idle
    <3>2. QED
      BY <1>2, <2>1, <3>1 DEF RefreshReply, Moves, Live, IsCurrent, GovCalls
  <2>2. QED
    BY <1>0, <1>2, <2>1 DEF RefreshReply
<1>3. CASE NeuronReply(p)
  <2>1. CASE IsCurrent(p) /\ StartPayout(p)
    <3>1. /\ act'[p].pc = "balance" /\ act'[p].got = FALSE
          /\ act'[p].expiry = act[p].expiry
          /\ \A q \in Proc : q # p => act'[q] = act[q]
      BY <2>1 DEF StartPayout, Await, Idle
    <3>2. QED
      BY <1>3, <2>1, <3>1
         DEF NeuronReply, StartPayout, Moves, Live, IsCurrent, LedgerCalls
  <2>2. QED
    BY <1>0, <1>3, <2>1 DEF NeuronReply
<1>4. CASE NeuronFailed(p)
  BY <1>0, <1>4 DEF NeuronFailed
<1>5. CASE BalanceReply(p)
  <2>0. KnowsBalance(p) /\ now' = now /\ act[p].pc # "idle"
    BY <1>5 DEF BalanceReply, KnowsBalance
  <2>1. CASE /\ IsCurrent(p)
             /\ act' = [act EXCEPT ![p].pc = "fee", ![p].got = FALSE]
             /\ ledgerQ' = Append(ledgerQ, p) /\ govQ' = govQ
    <3>1. /\ act'[p].pc = "fee" /\ act'[p].got = FALSE
          /\ act'[p].expiry = act[p].expiry
          /\ \A q \in Proc : q # p => act'[q] = act[q]
      BY <2>1 DEF Activations
    <3>2. QED
      BY <2>0, <2>1, <3>1 DEF Moves, Live, IsCurrent, LedgerCalls
  <2>2. QED
    BY <1>01, <1>5, <2>0, <2>1, SendMoves DEF BalanceReply
<1>6. CASE FeeReply(p)
  <2>0. KnowsBalance(p) /\ now' = now /\ act[p].pc # "idle"
    BY <1>6 DEF FeeReply, KnowsBalance
  <2>1. QED
    BY <1>01, <1>6, <2>0, SendMoves DEF FeeReply
<1>7. CASE LedgerFailed(p)
  BY <1>01, <1>7 DEF LedgerFailed
<1>8. CASE TransferReply(p)
  <2>0. Sending(p) /\ now' = now /\ act[p].pc # "idle"
    BY <1>8 DEF TransferReply, Sending
  <2>1. QED
    BY <1>01, <1>8, <2>0, SendMoves DEF TransferReply
<1>9. CASE DisburseReply(p)
  BY <1>0, <1>9 DEF DisburseReply
<1>10. QED
  BY <1>1, <1>2, <1>3, <1>4, <1>5, <1>6, <1>7, <1>8, <1>9 DEF Callback

\* Such a step keeps the queues in order.
LEMMA QueueMoves ==
  ASSUME TypeOK, LeaseInv, QueueInv, NEW p \in Proc, Moves(p),
         \A i \in 1 .. Len(ledgerQ) : ledgerQ[i] # p,
         \A i \in 1 .. Len(govQ) : govQ[i] # p
  PROVE  QueueInv'
<1> USE DEF TypeOK, LocalTypeOK, PersistedTypeOK
<1>0. /\ \A i \in 1 .. Len(ledgerQ) : ledgerQ[i] \in Proc
      /\ \A i \in 1 .. Len(govQ) : govQ[i] \in Proc
  OBVIOUS
<1>1. ASSUME NEW q \in Seq(Proc), NEW calls, QueueOK(q, act, now, calls),
             \A i \in 1 .. Len(q) : q[i] # p
      PROVE  QueueOK(q, act', now', calls)
  <2>1. \A i \in 1 .. Len(q) : q[i] \in Proc
    OBVIOUS
  <2>2. \A i \in 1 .. Len(q) : act'[q[i]] = act[q[i]]
    BY <1>1, <2>1 DEF Moves
  <2>3. now \in Nat /\ now <= now /\ now' = now
    BY DEF Moves
  <2>4. QED
    BY <1>1, <2>2, <2>3, QueueKeep
<1>2. Live(p) => \A q \in Proc : q # p => ~Live(q)
  BY DEF LeaseInv, Live
<1>3. CASE act'[p].pc \in {"idle", "refresh"} /\ UNCHANGED <<ledgerQ, govQ>>
  <2>1. /\ QueueOK(ledgerQ, act', now', LedgerCalls)
        /\ QueueOK(govQ, act', now', GovCalls)
    BY <1>1 DEF QueueInv
  <2>2. \A q \in Proc : (Live(q) /\ (KnowsBalance(q) \/ Sending(q)))' =>
          Live(q) /\ (KnowsBalance(q) \/ Sending(q))
    BY <1>3 DEF Live, KnowsBalance, Sending, Moves
  <2>3. QED
    BY <1>3, <2>1, <2>2 DEF QueueInv
<1>4. CASE /\ Live(p) /\ act'[p].got = FALSE /\ act'[p].expiry = act[p].expiry
           /\ act'[p].pc \in LedgerCalls
           /\ act'[p].pc # "balance" => KnowsBalance(p) \/ Sending(p)
           /\ ledgerQ' = Append(ledgerQ, p) /\ govQ' = govQ
  <2>1. QueueOK(govQ, act', now', GovCalls)
    BY <1>1 DEF QueueInv
  <2>2. \A i \in 1 .. Len(ledgerQ) :
          ledgerQ[i] # p /\ ~(now < act[ledgerQ[i]].expiry)
    BY <1>0, <1>2, <1>4 DEF Live, QueueInv, QueueOK, LedgerCalls
  <2>3. QueueOK(Append(ledgerQ, p), act', now, LedgerCalls)
    BY <1>4, <2>2, QueueAppend DEF QueueInv, Moves
  <2>4. now' = now
    BY DEF Moves
  <2>5. ASSUME NEW q \in Proc, Live(q)', (KnowsBalance(q) \/ Sending(q))',
               NEW i \in 1 .. Len(ledgerQ')
        PROVE  ledgerQ'[i] = q
    <3>1. q = p
      BY <1>2, <1>4, <2>5 DEF Moves, Live
    <3>2. KnowsBalance(p) \/ Sending(p)
      <4>1. act'[p].pc # "balance"
        BY <1>4, <2>5, <3>1 DEF KnowsBalance, Sending
      <4>2. QED
        BY <1>4, <4>1
    <3>3. \A j \in 1 .. Len(ledgerQ) : ledgerQ[j] = p
      BY <1>4, <3>2 DEF QueueInv
    <3>4. QED
      BY <1>4, <3>1, <3>3
  <2>6. QED
    BY <1>4, <2>1, <2>3, <2>4, <2>5 DEF QueueInv
<1>5. CASE /\ Live(p) /\ act'[p].got = FALSE /\ act'[p].expiry = act[p].expiry
           /\ act'[p].pc \in GovCalls
           /\ govQ' = Append(govQ, p) /\ ledgerQ' = ledgerQ
  <2>1. QueueOK(ledgerQ, act', now', LedgerCalls)
    BY <1>1 DEF QueueInv
  <2>2. \A i \in 1 .. Len(govQ) : govQ[i] # p /\ ~(now < act[govQ[i]].expiry)
    BY <1>0, <1>2, <1>5 DEF Live, QueueInv, QueueOK, GovCalls
  <2>3. QueueOK(Append(govQ, p), act', now, GovCalls)
    BY <1>5, <2>2, QueueAppend DEF QueueInv, Moves
  <2>4. now' = now
    BY DEF Moves
  <2>5. \A q \in Proc : (Live(q) /\ (KnowsBalance(q) \/ Sending(q)))' =>
          Live(q) /\ (KnowsBalance(q) \/ Sending(q))
    BY <1>5 DEF Live, KnowsBalance, Sending, Moves, GovCalls
  <2>6. QED
    BY <1>5, <2>1, <2>3, <2>4, <2>5 DEF QueueInv
<1>6. QED
  BY <1>3, <1>4, <1>5 DEF Moves

\* What an answer does to the activation it is for.
Answers(p) ==
  /\ p \in Proc /\ UNCHANGED <<now, persisted>>
  /\ \A q \in Proc : q # p => act'[q] = act[q]
  /\ act'[p].pc = act[p].pc /\ act'[p].got = TRUE
  /\ act'[p].start = act[p].start /\ act'[p].expiry = act[p].expiry
  /\ act'[p].plan = act[p].plan

LEMMA LedgerAnswers ==
  ASSUME TypeOK, LedgerServe
  PROVE  /\ Answers(Head(ledgerQ)) /\ ledgerQ # <<>>
         /\ ledgerQ' = Tail(ledgerQ) /\ govQ' = govQ
         /\ act[Head(ledgerQ)].pc \in LedgerCalls
         /\ act[Head(ledgerQ)].pc # "balance" =>
              act'[Head(ledgerQ)].bal = act[Head(ledgerQ)].bal
              /\ act'[Head(ledgerQ)].seen = act[Head(ledgerQ)].seen
<1> USE DEF TypeOK, LocalTypeOK
<1> DEFINE p == Head(ledgerQ)
<1>1. p \in Proc
  BY DEF LedgerServe
<1>2. act[p] \in Activations
  BY <1>1
<1>3. ServeBalance(p) \/ ServeFee(p) \/ ServeTransfer(p)
  BY DEF LedgerServe
<1> HIDE DEF p
<1>4. /\ \A q \in Proc : q # p => act'[q] = act[q]
      /\ act'[p].pc = act[p].pc /\ act'[p].got = TRUE
      /\ act'[p].start = act[p].start /\ act'[p].expiry = act[p].expiry
      /\ act'[p].plan = act[p].plan /\ act[p].pc \in LedgerCalls
      /\ act[p].pc # "balance" =>
           act'[p].bal = act[p].bal /\ act'[p].seen = act[p].seen
  <2>1. CASE ServeBalance(p)
    BY <1>1, <1>2, <2>1 DEF ServeBalance, Activations, LedgerCalls
  <2>2. CASE ServeFee(p)
    BY <1>1, <1>2, <2>2 DEF ServeFee, Activations, LedgerCalls
  <2>3. CASE ServeTransfer(p)
    BY <1>1, <1>2, <2>3 DEF ServeTransfer, Activations, LedgerCalls
  <2>4. QED
    BY <1>3, <2>1, <2>2, <2>3
<1>5. UNCHANGED <<now, persisted>>
  BY DEF LedgerServe
<1>6. ledgerQ # <<>> /\ ledgerQ' = Tail(ledgerQ) /\ govQ' = govQ
  BY DEF LedgerServe
<1>7. QED
  BY <1>1, <1>4, <1>5, <1>6 DEF Answers, p

LEMMA GovAnswers ==
  ASSUME TypeOK, GovServe
  PROVE  /\ Answers(Head(govQ)) /\ govQ # <<>>
         /\ govQ' = Tail(govQ) /\ ledgerQ' = ledgerQ
         /\ act[Head(govQ)].pc \in GovCalls
         /\ UNCHANGED <<ledger, history>>
<1> USE DEF TypeOK, LocalTypeOK
<1> DEFINE p == Head(govQ)
<1>1. p \in Proc
  BY DEF GovServe
<1>2. act[p] \in Activations
  BY <1>1
<1>3. ServeNeuron(p) \/ ServeDisburse(p)
  BY DEF GovServe
<1> HIDE DEF p
<1>4. /\ \A q \in Proc : q # p => act'[q] = act[q]
      /\ act'[p].pc = act[p].pc /\ act'[p].got = TRUE
      /\ act'[p].start = act[p].start /\ act'[p].expiry = act[p].expiry
      /\ act'[p].plan = act[p].plan /\ act[p].pc \in GovCalls
  <2>1. CASE ServeNeuron(p)
    BY <1>1, <1>2, <2>1 DEF ServeNeuron, Activations, GovCalls
  <2>2. CASE ServeDisburse(p)
    <3>1. act' = [act EXCEPT ![p].got = TRUE] /\ act[p].pc = "disburse"
      BY <2>2 DEF ServeDisburse
    <3>2. QED
      BY <1>1, <1>2, <3>1 DEF Activations, GovCalls
  <2>3. QED
    BY <1>3, <2>1, <2>2
<1>5. UNCHANGED <<now, persisted>>
  BY DEF GovServe
<1>6. /\ govQ # <<>> /\ govQ' = Tail(govQ) /\ ledgerQ' = ledgerQ
      /\ UNCHANGED <<ledger, history>>
  BY DEF GovServe
<1>7. QED
  BY <1>1, <1>4, <1>5, <1>6 DEF Answers, p

\* Entries of a queue after its oldest request has left it.
LEMMA TailEntries ==
  ASSUME NEW q \in Seq(Proc), q # <<>>
  PROVE  /\ Head(q) = q[1] /\ 1 \in 1 .. Len(q)
         /\ \A i \in 1 .. Len(Tail(q)) :
              /\ Tail(q)[i] = q[i + 1] /\ i + 1 \in 1 .. Len(q) /\ i + 1 # 1
              /\ q[i + 1] \in Proc
<1>1. /\ Len(q) \in Nat \ {0} /\ Len(Tail(q)) = Len(q) - 1
      /\ \A i \in 1 .. Len(Tail(q)) : Tail(q)[i] = q[i + 1]
      /\ Head(q) = q[1] /\ \A i \in 1 .. Len(q) : q[i] \in Proc
  OBVIOUS
<1>2. \A i \in 1 .. Len(Tail(q)) : i + 1 \in 1 .. Len(q) /\ i + 1 # 1
  BY <1>1
<1>3. 1 \in 1 .. Len(q)
  BY <1>1
<1>4. QED
  BY <1>1, <1>2, <1>3

\* If the oldest request is of a live activation, it is the only one.
LEMMA LiveIsLast ==
  ASSUME NEW q \in Seq(Proc), q # <<>>, NEW a, NEW t, NEW calls,
         QueueOK(q, a, t, calls), t < a[Head(q)].expiry
  PROVE  \A i \in 1 .. Len(Tail(q)) : FALSE
<1>1. Head(q) = q[1] /\ 1 \in 1 .. Len(q)
  BY TailEntries
<1>2. Len(q) = 1
  BY <1>1 DEF QueueOK
<1>3. Len(Tail(q)) = 0
  BY <1>2
<1>4. 1 .. Len(Tail(q)) = 1 .. 0
  BY <1>3
<1>5. \A i \in 1 .. 0 : FALSE
  OBVIOUS
<1>6. QED
  BY <1>4, <1>5

\* What the start of an activation does.
Starts(p) ==
  /\ now' = now /\ act[p].pc = "idle" /\ CanAcquire(main_lock, now)
  /\ \A q \in Proc : q # p => act'[q] = act[q]
  /\ act'[p].pc \in {"claim", "neuron"} /\ act'[p].got = FALSE
  /\ act'[p].start = now
  /\ govQ' = govQ \/ (govQ' = Append(govQ, p) /\ act'[p].pc = "neuron")
  /\ UNCHANGED <<last_main_run, payout_nonce, payout_plan, prev_age,
                 last_success, ledgerQ, ledger, gov, history>>

LEMMA StartForm ==
  ASSUME TypeOK, NEW p \in Proc, MainStart(p) \/ PokeStart(p)
  PROVE  Starts(p)
<1> USE DEF TypeOK, LocalTypeOK
<1>1. ASSUME NEW k, NEW call, Acquire(p, k, call)
      PROVE  /\ act[p].pc = "idle" /\ CanAcquire(main_lock, now)
             /\ \A q \in Proc : q # p => act'[q] = act[q]
             /\ act'[p].pc = call /\ act'[p].got = FALSE
             /\ act'[p].start = now
  BY <1>1 DEF Acquire, Idle
<1>2. CASE MainStart(p)
  BY <1>1, <1>2 DEF MainStart, Starts
<1>3. CASE PokeStart(p)
  BY <1>1, <1>3 DEF PokeStart, Starts
<1>4. QED
  BY <1>2, <1>3

\* Every step keeps the queues in order.
LEMMA QueueNext ==
  ASSUME TypeOK, LeaseInv, QueueInv, [Next]_vars
  PROVE  QueueInv'
<1> USE DEF TypeOK, LocalTypeOK, PersistedTypeOK
<1>0. \A q \in Proc : act[q].expiry \in Nat
  BY DEF Activations
<1>1. CASE Tick \/ FeeChange \/ Deposit \/ Finalize \/ MainDeferred
           \/ ResumeBusy \/ Upgrade \/ UNCHANGED vars
  <2>1. UNCHANGED <<act, ledgerQ, govQ>> /\ now' \in Nat /\ now <= now'
    BY <1>1 DEF Tick, FeeChange, Deposit, Finalize, MainDeferred, ResumeBusy,
       Upgrade, vars
  <2>2. QueueOK(ledgerQ, act, now', LedgerCalls)
        /\ QueueOK(govQ, act, now', GovCalls)
    BY <2>1, QueueKeep DEF QueueInv
  <2>3. \A q \in Proc : /\ Live(q)' => Live(q)
                        /\ (KnowsBalance(q) \/ Sending(q))' =>
                             KnowsBalance(q) \/ Sending(q)
    BY <1>0, <2>1 DEF Live, KnowsBalance, Sending
  <2>4. QED
    BY <2>1, <2>2, <2>3 DEF QueueInv
<1>2. CASE DropRequest
  <2>1. UNCHANGED <<act, now>>
    BY <1>2 DEF DropRequest
  <2>2. CASE ledgerQ # <<>> /\ ledgerQ' = Tail(ledgerQ) /\ UNCHANGED govQ
    <3>1. QueueOK(Tail(ledgerQ), act, now, LedgerCalls)
      BY <2>2, QueueTail DEF QueueInv
    <3>2. \A q \in Proc : Live(q) /\ (KnowsBalance(q) \/ Sending(q)) =>
            \A i \in 1 .. Len(ledgerQ') : ledgerQ'[i] = q
      BY <2>2, TailEntries DEF QueueInv
    <3>3. QED
      BY <2>1, <2>2, <3>1, <3>2 DEF QueueInv, Live, KnowsBalance, Sending
  <2>3. CASE govQ # <<>> /\ govQ' = Tail(govQ) /\ UNCHANGED ledgerQ
    <3>1. QueueOK(Tail(govQ), act, now, GovCalls)
      BY <2>3, QueueTail DEF QueueInv
    <3>2. QED
      BY <2>1, <2>3, <3>1 DEF QueueInv, Live, KnowsBalance, Sending
  <2>4. QED
    BY <1>2, <2>2, <2>3 DEF DropRequest
<1>3. CASE LedgerServe
  <2>1. PICK p \in Proc : p = Head(ledgerQ)
    BY <1>3 DEF LedgerServe
  <2>2. /\ Answers(p) /\ ledgerQ # <<>> /\ ledgerQ' = Tail(ledgerQ)
        /\ govQ' = govQ /\ act[p].pc \in LedgerCalls
    BY <1>3, <2>1, LedgerAnswers
  <2>3. now' = now
    BY <2>2 DEF Answers
  <2>4. QueueOK(Tail(ledgerQ), act', now, LedgerCalls)
    BY <2>1, <2>2, QueueTail DEF QueueInv, Answers
  <2>5. QueueOK(govQ, act', now, GovCalls)
    <3>1. \A i \in 1 .. Len(govQ) : govQ[i] # p /\ govQ[i] \in Proc
      BY <2>2, SMTT(30) DEF QueueInv, QueueOK, LedgerCalls, GovCalls
    <3>2. \A i \in 1 .. Len(govQ) : act'[govQ[i]] = act[govQ[i]]
      BY <2>2, <3>1 DEF Answers
    <3>3. now <= now
      OBVIOUS
    <3>4. QED
      BY <3>2, <3>3, QueueKeep DEF QueueInv
  <2>6. ASSUME NEW q \in Proc, Live(q)', (KnowsBalance(q) \/ Sending(q))',
               NEW i \in 1 .. Len(Tail(ledgerQ))
        PROVE  Tail(ledgerQ)[i] = q
    <3>1. CASE q = p
      BY <2>1, <2>2, <2>6, <3>1, LiveIsLast DEF Answers, Live, QueueInv
    <3>2. CASE q # p
      <4>1. Live(q) /\ (KnowsBalance(q) \/ Sending(q))
        BY <2>2, <2>6, <3>2 DEF Answers, Live, KnowsBalance, Sending
      <4>2. QED
        BY <2>2, <4>1, TailEntries DEF QueueInv
    <3>3. QED
      BY <3>1, <3>2
  <2>7. QED
    BY <2>2, <2>3, <2>4, <2>5, <2>6 DEF QueueInv
<1>4. CASE GovServe
  <2>1. PICK p \in Proc : p = Head(govQ)
    BY <1>4 DEF GovServe
  <2>2. /\ Answers(p) /\ govQ # <<>> /\ govQ' = Tail(govQ)
        /\ ledgerQ' = ledgerQ /\ act[p].pc \in GovCalls
    BY <1>4, <2>1, GovAnswers
  <2>3. now' = now
    BY <2>2 DEF Answers
  <2>4. QueueOK(Tail(govQ), act', now, GovCalls)
    BY <2>1, <2>2, QueueTail DEF QueueInv, Answers
  <2>5. QueueOK(ledgerQ, act', now, LedgerCalls)
    <3>1. \A i \in 1 .. Len(ledgerQ) : ledgerQ[i] # p /\ ledgerQ[i] \in Proc
      BY <2>2 DEF QueueInv, QueueOK, LedgerCalls, GovCalls
    <3>2. \A i \in 1 .. Len(ledgerQ) : act'[ledgerQ[i]] = act[ledgerQ[i]]
      BY <2>2, <3>1 DEF Answers
    <3>3. now <= now
      OBVIOUS
    <3>4. QED
      BY <3>2, <3>3, QueueKeep DEF QueueInv
  <2>6. \A q \in Proc : (Live(q) /\ (KnowsBalance(q) \/ Sending(q)))' =>
          Live(q) /\ (KnowsBalance(q) \/ Sending(q))
    BY <2>2 DEF Answers, Live, KnowsBalance, Sending, GovCalls
  <2>7. QED
    BY <2>2, <2>3, <2>4, <2>5, <2>6 DEF QueueInv
<1>5. CASE \E p \in Proc : MainStart(p) \/ PokeStart(p)
  <2>1. PICK p \in Proc : MainStart(p) \/ PokeStart(p)
    BY <1>5
  <2>2. /\ now' = now /\ act[p].pc = "idle" /\ ledgerQ' = ledgerQ
        /\ \A q \in Proc : q # p => act'[q] = act[q]
        /\ act'[p].pc \in {"claim", "neuron"} /\ act'[p].got = FALSE
        /\ CanAcquire(main_lock, now)
    BY <2>1, StartForm DEF Starts
  <2>3. \A q \in Proc : ~Live(q)
    BY <1>0, <2>2 DEF LeaseInv, CanAcquire, Live
  <2>4. /\ \A i \in 1 .. Len(ledgerQ) : /\ ledgerQ[i] # p /\ ledgerQ[i] \in Proc
                                        /\ act'[ledgerQ[i]] = act[ledgerQ[i]]
        /\ \A i \in 1 .. Len(govQ) :
             /\ govQ[i] # p /\ govQ[i] \in Proc
             /\ act'[govQ[i]] = act[govQ[i]]
             /\ ~(now < act[govQ[i]].expiry)
    BY <2>2, <2>3, SMTT(30) DEF QueueInv, QueueOK, Live, GovCalls, LedgerCalls
  <2>5. now <= now
    OBVIOUS
  <2>6. QueueOK(ledgerQ, act', now, LedgerCalls)
    BY <2>4, <2>5, QueueKeep DEF QueueInv
  <2>7. QueueOK(govQ', act', now, GovCalls)
    <3>1. CASE govQ' = govQ
      BY <2>4, <2>5, <3>1, QueueKeep DEF QueueInv
    <3>2. CASE govQ' = Append(govQ, p) /\ act'[p].pc = "neuron"
      <4>1. act'[p].pc \in GovCalls
        BY <3>2 DEF GovCalls
      <4>2. /\ QueueOK(govQ, act, now, GovCalls) /\ govQ \in Seq(Proc)
            /\ \A q \in Proc : q # p => act'[q] = act[q]
            /\ act'[p].got = FALSE
            /\ \A i \in 1 .. Len(govQ) :
                 govQ[i] # p /\ ~(now < act[govQ[i]].expiry)
        BY <2>2, <2>4 DEF QueueInv
      <4>3. QueueOK(Append(govQ, p), act', now, GovCalls)
        BY <4>1, <4>2, QueueAppend, Zenon
      <4>4. QED
        BY <3>2, <4>3
    <3>3. QED
      BY <2>1, <3>1, <3>2, StartForm DEF Starts
  <2>8. \A q \in Proc : ~(Live(q) /\ (KnowsBalance(q) \/ Sending(q)))'
    BY <2>2, <2>3 DEF Live, KnowsBalance, Sending
  <2>9. QED
    BY <2>2, <2>6, <2>7, <2>8 DEF QueueInv
<1>6. CASE \E p \in Proc : Callback(p)
  BY <1>6, CallbackMoves, CallbackNotQueued, QueueMoves
<1>7. QED
  BY <1>1, <1>2, <1>3, <1>4, <1>5, <1>6 DEF Next

-----------------------------------------------------------------------------
(* The five things a callback may do to the plan.                            *)

\* p waits for one more transfer of the plan now stored.
Sends(p) ==
  /\ Live(p) /\ UNCHANGED <<prev_age, last_main_run, govQ>>
  /\ act'[p].pc = "transfer" /\ act'[p].plan = payout_plan'
  /\ act'[p].verdict = "none"
  /\ act'[p].start = act[p].start /\ act'[p].expiry = act[p].expiry

\* p goes on to its next call before the transfers.
GoesOn(p) ==
  /\ Live(p) /\ UNCHANGED <<prev_age, last_main_run>>
  /\ act'[p].start = act[p].start /\ act'[p].expiry = act[p].expiry
  /\ act'[p].got = FALSE
  /\ \/ act'[p].pc \in {"refresh", "neuron"}
     \/ act'[p].pc = "balance" /\ PastNeuron(p)
     \/ /\ act'[p].pc = "fee" /\ act[p].pc = "balance" /\ act[p].got = TRUE
        /\ act'[p].bal = act[p].bal /\ act'[p].seen = act[p].seen
        /\ act'[p].plan = NoPlan

\* The payout stage is over, and p ends or initiates a disbursement.
Closes(p) == Ends(p) \/ InitiateDisbursement(p)

KeepsPlan(p) ==
  /\ UNCHANGED <<payout_plan, last_success, staged, planCover>>
  /\ \/ Ends(p) \/ GoesOn(p)
     \/ payout_plan # NoPlan /\ KnowsBalance(p) /\ Sends(p)

\* p waits for the verdict on a transfer of the stored plan, and has it.
Judged(p) == Sending(p) /\ act[p].got = TRUE /\ payout_plan = act[p].plan

ClearsIt(p) ==
  /\ Live(p) /\ IsCurrent(p) /\ Judged(p) /\ act[p].verdict = "refused"
  /\ Ends(p) /\ payout_plan' = NoPlan
  /\ UNCHANGED <<last_success, staged, planCover>>

Marks(p) ==
  /\ Judged(p) /\ payout_plan' = MarkSent(p) /\ last_success' = act[p].start
  /\ UNCHANGED <<staged, planCover>>
  /\ Ends(p) \/ Sends(p)

PaysOut(p) ==
  /\ Live(p) /\ IsCurrent(p) /\ Closes(p) /\ payout_plan' = NoPlan
  /\ \/ /\ KnowsBalance(p) /\ payout_plan = NoPlan
        /\ staged' = staged \ act[p].seen /\ last_success' = last_success
     \/ /\ KnowsBalance(p) /\ payout_plan # NoPlan /\ Pending(payout_plan) = {}
        /\ staged' = staged \ planCover /\ last_success' = last_success
     \/ /\ Judged(p) /\ Pending(MarkSent(p)) = {}
        /\ staged' = staged \ planCover /\ last_success' = act[p].start

Plans(p) ==
  /\ Sends(p) /\ KnowsBalance(p) /\ payout_plan = NoPlan
  /\ GenerationMatches(p) /\ payout_plan' = NewPlan(p)
  /\ planCover' = act[p].seen /\ UNCHANGED <<staged, last_success>>

Shape(p) ==
  /\ UNCHANGED <<now, ledger, gov>>
  /\ KeepsPlan(p) \/ ClearsIt(p) \/ Marks(p) \/ PaysOut(p) \/ Plans(p)

\* The fee is asked for only when no plan is stored.
FeeInv == \A p \in Proc : act[p].pc = "fee" => act[p].plan = NoPlan

LEMMA CurrentIsLive ==
  ASSUME NEW p \in Proc, IsCurrent(p), act[p].pc # "idle"
  PROVE  Live(p)
  BY DEF IsCurrent, Live

\* One turn of the execution loop.
LEMMA SendForm ==
  ASSUME TypeOK, NEW p \in Proc, NEW plan, SendNext(p, plan), act[p].pc # "idle"
  PROVE  \/ /\ ~IsCurrent(p) /\ Ends(p) /\ payout_plan' = plan
            /\ staged' = staged
         \/ /\ IsCurrent(p) /\ Pending(plan) = {} /\ Closes(p)
            /\ payout_plan' = NoPlan /\ staged' = staged \ planCover'
         \/ IsCurrent(p) /\ Sends(p) /\ payout_plan' = plan /\ staged' = staged
<1> USE DEF TypeOK, LocalTypeOK
<1>1. CASE /\ ~IsCurrent(p) /\ EndPayout(p, FALSE) /\ payout_plan' = plan
           /\ UNCHANGED <<ledgerQ, staged>>
  <2>1. Ends(p)
    BY <1>1, EndForm
  <2>2. QED
    BY <1>1, <2>1
<1>2. CASE /\ IsCurrent(p) /\ Pending(plan) = {} /\ EndPayout(p, TRUE)
           /\ payout_plan' = NoPlan /\ staged' = staged \ planCover'
  <2>1. Closes(p)
    BY <1>2, EndForm DEF Closes
  <2>2. QED
    BY <1>2, <2>1
<1>3. CASE /\ IsCurrent(p) /\ payout_plan' = plan
           /\ act' = [act EXCEPT ![p] =
                        [Await(p, "transfer") EXCEPT !.plan = plan]]
           /\ UNCHANGED <<main_lock, last_main_run, prev_age, govQ, staged>>
  <2>1. act'[p] = [Await(p, "transfer") EXCEPT !.plan = plan]
    BY <1>3
  <2>2. /\ act'[p].pc = "transfer" /\ act'[p].plan = plan
        /\ act'[p].verdict = "none"
        /\ act'[p].start = act[p].start /\ act'[p].expiry = act[p].expiry
    BY <2>1 DEF Await, Idle
  <2>3. Sends(p)
    BY <1>3, <2>2, CurrentIsLive DEF Sends
  <2>4. QED
    BY <1>3, <2>3
<1>4. QED
  BY <1>1, <1>2, <1>3 DEF SendNext

LEMMA CallbackShape ==
  ASSUME TypeOK, FeeInv, NEW p \in Proc, Callback(p)
  PROVE  Shape(p)
<1> USE DEF TypeOK, LocalTypeOK
<1>0. UNCHANGED <<now, ledger, gov>> /\ act[p].pc # "idle"
  BY DEF Callback, ClaimReply, RefreshReply, NeuronReply, NeuronFailed,
     BalanceReply, FeeReply, LedgerFailed, TransferReply, DisburseReply
<1>1. ASSUME \/ DropGuard(p) \/ Finish(p) \/ Complete(p)
             \/ EndPayout(p, FALSE),
             UNCHANGED <<payout_plan, last_success, staged, planCover>>
      PROVE  KeepsPlan(p)
  BY <1>1, EndForm, CompleteForm DEF KeepsPlan
<1>2. CASE ClaimReply(p)
  <2>1. CASE IsCurrent(p) /\ act' = [act EXCEPT ![p] = Await(p, "refresh")]
             /\ UNCHANGED <<main_lock, last_main_run, prev_age, govQ>>
    <3>1. /\ act'[p].pc = "refresh" /\ act'[p].got = FALSE
          /\ act'[p].start = act[p].start /\ act'[p].expiry = act[p].expiry
      BY <2>1 DEF Await, Idle
    <3>2. GoesOn(p)
      BY <1>0, <2>1, <3>1, CurrentIsLive DEF GoesOn
    <3>3. QED
      BY <1>0, <1>2, <3>2 DEF ClaimReply, Shape, KeepsPlan, history
  <2>2. QED
    BY <1>0, <1>1, <1>2, <2>1 DEF ClaimReply, history, Shape
<1>3. CASE RefreshReply(p)
  <2>1. CASE IsCurrent(p) /\ act' = [act EXCEPT ![p] = Await(p, "neuron")]
             /\ UNCHANGED <<main_lock, last_main_run, prev_age>>
    <3>1. /\ act'[p].pc = "neuron" /\ act'[p].got = FALSE
          /\ act'[p].start = act[p].start /\ act'[p].expiry = act[p].expiry
      BY <2>1 DEF Await, Idle
    <3>2. GoesOn(p)
      BY <1>0, <2>1, <3>1, CurrentIsLive DEF GoesOn
    <3>3. QED
      BY <1>0, <1>3, <3>2 DEF RefreshReply, Shape, KeepsPlan, history
  <2>2. QED
    BY <1>0, <1>1, <1>3, <2>1 DEF RefreshReply, history, Shape
<1>4. CASE NeuronReply(p)
  <2>1. CASE IsCurrent(p) /\ ~act[p].inflight /\ StartPayout(p)
    <3>1. /\ act'[p].pc = "balance" /\ act'[p].got = FALSE
          /\ act'[p].start = act[p].start /\ act'[p].expiry = act[p].expiry
      BY <2>1 DEF StartPayout, Await, Idle
    <3>2. act[p].got = TRUE /\ act[p].inflight = FALSE
      <4>1. act[p].got \in BOOLEAN /\ act[p].inflight \in BOOLEAN
        BY DEF Activations
      <4>2. QED
        BY <1>4, <2>1, <4>1 DEF NeuronReply
    <3>3. PastNeuron(p)
      BY <1>4, <3>2 DEF NeuronReply, PastNeuron
    <3>4. GoesOn(p)
      BY <1>0, <2>1, <3>1, <3>3, CurrentIsLive DEF GoesOn, StartPayout
    <3>5. QED
      BY <1>0, <1>4, <3>4 DEF NeuronReply, Shape, KeepsPlan, history
  <2>2. QED
    BY <1>0, <1>1, <1>4, <2>1 DEF NeuronReply, history, Shape
<1>5. CASE NeuronFailed(p)
  BY <1>0, <1>1, <1>5 DEF NeuronFailed, history, Shape
<1>6. CASE BalanceReply(p)
  <2>0. act[p].pc = "balance" /\ act[p].got = TRUE
    <3>1. act[p].got \in BOOLEAN
      BY DEF Activations
    <3>2. QED
      BY <1>6, <3>1 DEF BalanceReply
  <2>1. KnowsBalance(p) /\ UNCHANGED <<last_success, planCover>>
    BY <1>6, <2>0 DEF BalanceReply, KnowsBalance
  <2>2. CASE EndPayout(p, FALSE) /\ UNCHANGED <<payout_plan, staged>>
    BY <1>0, <1>1, <2>1, <2>2 DEF Shape
  <2>3. CASE /\ IsCurrent(p) /\ payout_plan = NoPlan /\ EndPayout(p, TRUE)
             /\ staged' = staged \ act[p].seen /\ UNCHANGED payout_plan
    <3>1. Closes(p) /\ Live(p)
      BY <1>0, <2>3, EndForm, CurrentIsLive DEF Closes
    <3>2. QED
      BY <1>0, <2>1, <2>3, <3>1 DEF Shape, PaysOut
  <2>4. CASE /\ IsCurrent(p) /\ GenerationMatches(p) /\ payout_plan = NoPlan
             /\ act' = [act EXCEPT ![p].pc = "fee", ![p].got = FALSE]
             /\ UNCHANGED <<main_lock, last_main_run, prev_age, govQ,
                            payout_plan, staged>>
    <3>1. /\ act'[p].pc = "fee" /\ act'[p].got = FALSE
          /\ act'[p].start = act[p].start /\ act'[p].expiry = act[p].expiry
          /\ act'[p].bal = act[p].bal /\ act'[p].seen = act[p].seen
          /\ act'[p].plan = act[p].plan
      BY <2>4 DEF Activations
    <3>2. GoesOn(p)
      BY <1>0, <2>0, <2>4, <3>1, CurrentIsLive DEF GoesOn, GenerationMatches
    <3>3. QED
      BY <1>0, <2>1, <2>4, <3>2 DEF Shape, KeepsPlan
  <2>5. CASE /\ IsCurrent(p) /\ payout_plan # NoPlan
             /\ SendNext(p, payout_plan)
    <3>1. Live(p)
      BY <1>0, <2>5, CurrentIsLive
    <3>2. \/ /\ Pending(payout_plan) = {} /\ Closes(p)
             /\ payout_plan' = NoPlan /\ staged' = staged \ planCover'
          \/ Sends(p) /\ payout_plan' = payout_plan /\ staged' = staged
      BY <1>0, <2>5, SendForm
    <3>3. QED
      BY <1>0, <2>1, <2>5, <3>1, <3>2 DEF Shape, KeepsPlan, PaysOut
  <2>6. QED
    BY <1>6, <2>2, <2>3, <2>4, <2>5 DEF BalanceReply
<1>7. CASE FeeReply(p)
  <2>1. KnowsBalance(p) /\ UNCHANGED last_success
    BY <1>7 DEF FeeReply, KnowsBalance
  <2>2. CASE EndPayout(p, FALSE) /\ UNCHANGED <<payout_plan, history>>
    BY <1>0, <1>1, <2>1, <2>2 DEF Shape, history
  <2>3. CASE /\ IsCurrent(p) /\ GenerationMatches(p)
             /\ planCover' = act[p].seen /\ SendNext(p, NewPlan(p))
    <3>1. Live(p)
      BY <1>0, <2>3, CurrentIsLive
    <3>2. payout_plan = NoPlan
      BY <1>7, <2>3 DEF FeeReply, FeeInv, GenerationMatches
    <3>3. \/ /\ Closes(p)
             /\ payout_plan' = NoPlan /\ staged' = staged \ planCover'
          \/ Sends(p) /\ payout_plan' = NewPlan(p) /\ staged' = staged
      BY <1>0, <2>3, SendForm
    <3>4. QED
      BY <1>0, <2>1, <2>3, <3>1, <3>2, <3>3 DEF Shape, Plans, PaysOut
  <2>4. QED
    BY <1>7, <2>2, <2>3 DEF FeeReply
<1>8. CASE LedgerFailed(p)
  BY <1>0, <1>1, <1>8 DEF LedgerFailed, history, Shape
<1>9. CASE TransferReply(p)
  <2>0. Sending(p) /\ act[p].got = TRUE
    <3>1. act[p].got \in BOOLEAN
      BY DEF Activations
    <3>2. QED
      BY <1>9, <3>1 DEF TransferReply, Sending
  <2>1. UNCHANGED planCover
    BY <1>9 DEF TransferReply
  <2>2. CASE EndPayout(p, FALSE) /\ UNCHANGED <<payout_plan, last_success, staged>>
    BY <1>0, <1>1, <2>1, <2>2 DEF Shape
  <2>3. CASE /\ payout_plan = act[p].plan
             /\ last_success' = act[p].start
             /\ SendNext(p, MarkSent(p))
    <3>1. Judged(p)
      BY <2>0, <2>3 DEF Judged
    <3>2. IsCurrent(p) => Live(p)
      BY <1>0, CurrentIsLive
    <3>3. \/ (Ends(p) \/ Sends(p)) /\ payout_plan' = MarkSent(p)
             /\ staged' = staged
          \/ /\ IsCurrent(p) /\ Pending(MarkSent(p)) = {} /\ Closes(p)
             /\ payout_plan' = NoPlan /\ staged' = staged \ planCover'
      BY <1>0, <2>3, SendForm
    <3>4. QED
      BY <1>0, <2>1, <2>3, <3>1, <3>2, <3>3 DEF Shape, Marks, PaysOut
  <2>4. CASE /\ payout_plan = act[p].plan
             /\ payout_plan' = IF ClearsPlan(p) THEN NoPlan ELSE payout_plan
             /\ EndPayout(p, FALSE)
             /\ UNCHANGED <<last_success, ledgerQ, staged>>
    <3>1. CASE ClearsPlan(p)
      <4>1. Ends(p)
        BY <2>4, EndForm
      <4>2. Judged(p) /\ Live(p)
        BY <1>0, <2>0, <2>4, <3>1, CurrentIsLive DEF Judged, ClearsPlan
      <4>3. QED
        BY <1>0, <2>1, <2>4, <3>1, <4>1, <4>2 DEF Shape, ClearsIt, ClearsPlan
    <3>2. CASE ~ClearsPlan(p)
      BY <1>0, <1>1, <2>1, <2>4, <3>2 DEF Shape
    <3>3. QED
      BY <3>1, <3>2
  <2>5. QED
    BY <1>9, <2>2, <2>3, <2>4 DEF TransferReply
<1>10. CASE DisburseReply(p)
  BY <1>0, <1>1, <1>10 DEF DisburseReply, history, Shape
<1>11. QED
  BY <1>2, <1>3, <1>4, <1>5, <1>6, <1>7, <1>8, <1>9, <1>10 DEF Callback

\* Recording a success changes the statuses of a plan and nothing else.
LEMMA MarkSentFields ==
  ASSUME TypeOK, SendingOK, NEW p \in Proc, Sending(p)
  PROVE  /\ act[p].plan \in PlanSet /\ act[p].plan # NoPlan
         /\ NextIdx(act[p].plan) \in Pending(act[p].plan)
         /\ MarkSent(p) \in PlanSet /\ MarkSent(p).id = act[p].plan.id
         /\ MarkSent(p).fee = act[p].plan.fee
         /\ MarkSent(p).base = act[p].plan.base
         /\ MarkSent(p).amt = act[p].plan.amt
         /\ MarkSent(p).sent = act[p].plan.sent \cup {NextIdx(act[p].plan)}
<1>1. act[p].plan \in PlanSet /\ act[p].plan # NoPlan
  BY DEF TypeOK, LocalTypeOK, SendingOK, Activations
<1>2. /\ NextIdx(act[p].plan) \in Pending(act[p].plan)
      /\ NextIdx(act[p].plan) \in Recipients
  BY NextIdxPending, NextIdxRecipient DEF SendingOK
<1>3. QED
  BY <1>1, <1>2 DEF MarkSent, PlanSet

\* What a callback leaves its own activation waiting for.
LEMMA ShapeAwaits ==
  ASSUME TypeOK, NEW p \in Proc, Shape(p)
  PROVE  /\ Sending(p)' => Sends(p)
         /\ KnowsBalance(p)' => GoesOn(p) /\ act'[p].pc = "fee"
         /\ \/ Ends(p) /\ act'[p] = Idle
            \/ /\ InitiateDisbursement(p) /\ PaysOut(p)
               /\ act'[p] = Await(p, "disburse")
            \/ GoesOn(p) \/ Sends(p)
<1> USE DEF TypeOK, LocalTypeOK
<1>1. Idle.pc = "idle" /\ Await(p, "disburse").pc = "disburse"
  BY DEF Idle, Await
<1>2. /\ Ends(p) => act'[p] = Idle
      /\ InitiateDisbursement(p) => act'[p] = Await(p, "disburse")
  BY DEF Ends, InitiateDisbursement
<1>3. \/ Ends(p) \/ (InitiateDisbursement(p) /\ PaysOut(p))
      \/ GoesOn(p) \/ Sends(p)
  BY DEF Shape, KeepsPlan, ClearsIt, Marks, PaysOut, Plans, Closes
<1>4. QED
  BY <1>1, <1>2, <1>3 DEF Sending, KnowsBalance, GoesOn, Sends

-----------------------------------------------------------------------------
(* The plan is funded.                                                       *)

LEMMA DueTyped ==
  ASSUME NEW plan \in PlanSet, NEW r \in Recipients
  PROVE  /\ Due(plan, r) \in Nat
         /\ DebitOf(plan.amt[r], plan.fee) \in Nat
         /\ Due(plan, r) <= DebitOf(plan.amt[r], plan.fee)
<1>1. plan.amt[r] \in Nat /\ plan.fee \in Nat
  BY DEF PlanSet
<1>2. DebitOf(plan.amt[r], plan.fee) \in Nat
  BY <1>1 DEF DebitOf
<1>3. QED
  BY <1>2 DEF Due

\* A callback keeps the stored plan funded: the only plan it installs is paid
\* from a balance nobody has spent since it was read.
LEMMA FundCallback ==
  ASSUME TypeOK, MoneyInv, QueueInv, FundInv, FeeInv, NEW p \in Proc,
         Callback(p)
  PROVE  FundInv'
<1> USE DEF TypeOK, LocalTypeOK
<1>1. /\ Shape(p) /\ Moves(p)
      /\ \A i \in 1 .. Len(ledgerQ) : ledgerQ[i] # p
  BY CallbackShape, CallbackMoves, CallbackNotQueued
<1>2. /\ \A q \in Proc : q # p => act'[q] = act[q]
      /\ now' = now /\ balance' = balance /\ blocks' = blocks
  BY <1>1 DEF Moves, Shape, ledger
<1>3. /\ Sending(p)' => Sends(p)
      /\ KnowsBalance(p)' => GoesOn(p) /\ act'[p].pc = "fee"
  BY <1>1, ShapeAwaits
<1>4. ASSUME NEW q \in Proc, Live(q)', KnowsBalance(q)'
      PROVE  act'[q].bal <= balance'
  <2>1. CASE q # p
    BY <1>2, <1>4, <2>1 DEF FundInv, Live, KnowsBalance
  <2>2. CASE q = p
    BY <1>2, <1>3, <1>4, <2>2 DEF FundInv, GoesOn, KnowsBalance
  <2>3. QED
    BY <2>1, <2>2
<1>5. Judged(p) => /\ MarkSent(p).id = payout_plan.id /\ payout_plan # NoPlan
                   /\ MarkSent(p).fee = payout_plan.fee
                   /\ MarkSent(p).base = payout_plan.base
                   /\ MarkSent(p).amt = payout_plan.amt
  BY MarkSentFields DEF Judged, MoneyInv
<1>6. ASSUME NEW i \in 1 .. Len(ledgerQ'), Sending(ledgerQ[i])',
             payout_plan' # NoPlan
      PROVE  act'[ledgerQ'[i]].plan.id = payout_plan'.id
  <2>1. \/ ledgerQ'[i] = p
        \/ \E j \in 1 .. Len(ledgerQ) : ledgerQ'[i] = ledgerQ[j]
    <3>1. CASE ledgerQ' = ledgerQ
      BY <3>1
    <3>2. CASE ledgerQ' = Append(ledgerQ, p)
      BY <3>2
    <3>3. QED
      BY <1>1, <3>1, <3>2 DEF Moves
  <2>2. CASE ledgerQ'[i] = p
    BY <1>3, <1>6, <2>2 DEF Sends
  <2>3. CASE \E j \in 1 .. Len(ledgerQ) : ledgerQ'[i] = ledgerQ[j]
    <3>1. PICK j \in 1 .. Len(ledgerQ) : ledgerQ'[i] = ledgerQ[j]
      BY <2>3
    <3>2. ledgerQ[j] \in Proc /\ ledgerQ[j] # p
      BY <1>1
    <3>3. act'[ledgerQ[j]] = act[ledgerQ[j]] /\ Sending(ledgerQ[j])
      BY <1>2, <1>6, <3>1, <3>2 DEF Sending
    <3>4. payout_plan # NoPlan => act[ledgerQ[j]].plan.id = payout_plan.id
      BY <3>3 DEF FundInv
    <3>5. ~Plans(p)
      BY <1>1 DEF Plans, Sends, QueueInv
    <3>6. payout_plan' = payout_plan \/ (Judged(p) /\ payout_plan' = MarkSent(p))
      BY <1>1, <1>6, <3>5 DEF Shape, KeepsPlan, ClearsIt, Marks, PaysOut
    <3>7. QED
      BY <1>5, <1>6, <3>1, <3>3, <3>4, <3>6
  <2>4. QED
    BY <2>1, <2>2, <2>3
<1>7. PlanFunded'
  <2>1. CASE payout_plan' = NoPlan
    BY <2>1 DEF PlanFunded
  <2>2. CASE payout_plan' = payout_plan
    BY <1>2, <2>2 DEF FundInv, PlanFunded, Due
  <2>3. CASE Judged(p) /\ payout_plan' = MarkSent(p)
    <3>1. \A r : TxOf(payout_plan', r) = TxOf(payout_plan, r)
      BY <1>5, <2>3 DEF TxOf
    <3>2. \A r : Due(payout_plan, r)' = Due(payout_plan, r)
      BY <1>2, <1>5, <2>3, <3>1 DEF Due
    <3>3. QED
      BY <1>2, <1>5, <2>3, <3>2 DEF FundInv, PlanFunded
  <2>4. CASE Plans(p)
    <3> DEFINE plan == NewPlan(p)
    <3>1. /\ act[p].bal \in Nat /\ act[p].feeOf \in Nat /\ act[p].age \in Nat
          /\ act[p].start \in Nat /\ act[p].nonce \in Nat
      BY DEF Activations
    <3>2. PlannedAmounts(act[p].bal, act[p].feeOf, act[p].age)
            \in [Recipients -> Nat]
      BY <3>1, PlannedTyped
    <3>3. /\ plan \in PlanSet /\ plan.fee = act[p].feeOf
          /\ plan.amt = PlannedAmounts(act[p].bal, act[p].feeOf, act[p].age)
      BY <3>1, <3>2 DEF NewPlan, PlanSet
    <3> HIDE DEF plan
    <3>4. DebitOf(plan.amt[1], plan.fee) + DebitOf(plan.amt[2], plan.fee)
            + DebitOf(plan.amt[3], plan.fee) <= act[p].bal
      BY <3>1, <3>3, PlanWithinBalance
    <3>5. act[p].bal <= balance
      BY <2>4 DEF Plans, Sends, FundInv
    <3>6. \A r \in Recipients : /\ Due(plan, r) \in Nat
                                /\ DebitOf(plan.amt[r], plan.fee) \in Nat
                                /\ Due(plan, r) <= DebitOf(plan.amt[r], plan.fee)
      BY <3>3, DueTyped
    <3>7. Due(plan, 1) + Due(plan, 2) + Due(plan, 3) <= balance
      <4>1. 1 \in Recipients /\ 2 \in Recipients /\ 3 \in Recipients
        BY DEF Recipients
      <4>2. balance \in Nat
        BY DEF WorldTypeOK
      <4> DEFINE a(r) == Due(plan, r)
                 b(r) == DebitOf(plan.amt[r], plan.fee)
      <4>3. /\ a(1) \in Nat /\ a(2) \in Nat /\ a(3) \in Nat
            /\ b(1) \in Nat /\ b(2) \in Nat /\ b(3) \in Nat
            /\ a(1) <= b(1) /\ a(2) <= b(2) /\ a(3) <= b(3)
            /\ b(1) + b(2) + b(3) <= act[p].bal
        BY <3>4, <3>6, <4>1
      <4> HIDE DEF a, b
      <4>4. a(1) + a(2) + a(3) <= balance
        BY <3>1, <3>5, <4>2, <4>3, SMTT(30)
      <4>5. QED
        BY <4>4 DEF a
    <3>8. payout_plan' = plan
      BY <2>4 DEF Plans, plan
    <3>9. \A r : Due(payout_plan, r)' = Due(plan, r)
      BY <1>2, <3>8 DEF Due
    <3>10. QED
      BY <1>2, <3>7, <3>9 DEF PlanFunded
  <2>5. QED
    BY <1>1, <2>1, <2>2, <2>3, <2>4
       DEF Shape, KeepsPlan, ClearsIt, Marks, PaysOut
<1>8. QED
  BY <1>4, <1>6, <1>7 DEF FundInv

\* A step that leaves the plan and the executed transfers alone, spends
\* nothing, sends nothing and tells nobody a balance.
LEMMA FundStutter ==
  ASSUME TypeOK, FundInv, UNCHANGED <<payout_plan, blocks>>,
         balance' \in Nat, balance <= balance', now' \in Nat, now <= now',
         \A q \in Proc :
           \/ act'[q] = act[q]
           \/ act'[q].pc \notin LedgerCalls,
         \A i \in 1 .. Len(ledgerQ') : \E j \in 1 .. Len(ledgerQ) :
           ledgerQ'[i] = ledgerQ[j] /\ ledgerQ[j] \in Proc
  PROVE  FundInv'
<1> USE DEF TypeOK, LocalTypeOK, PersistedTypeOK, WorldTypeOK
<1>1. \A q \in Proc : act[q].expiry \in Nat /\ act[q].bal \in Nat
  BY DEF Activations
<1>2. ASSUME NEW q \in Proc, Live(q)', KnowsBalance(q)'
      PROVE  act'[q].bal <= balance'
  <2>1. act'[q] = act[q]
    BY <1>2 DEF KnowsBalance, LedgerCalls
  <2>2. Live(q) /\ KnowsBalance(q)
    BY <1>1, <1>2, <2>1 DEF Live, KnowsBalance
  <2>3. act[q].bal <= balance
    BY <2>2 DEF FundInv
  <2>4. QED
    BY <1>1, <2>1, <2>3
<1>3. ASSUME NEW i \in 1 .. Len(ledgerQ'), Sending(ledgerQ[i])',
             payout_plan' # NoPlan
      PROVE  act'[ledgerQ'[i]].plan.id = payout_plan'.id
  <2>1. PICK j \in 1 .. Len(ledgerQ) :
               ledgerQ'[i] = ledgerQ[j] /\ ledgerQ[j] \in Proc
    OBVIOUS
  <2>2. act'[ledgerQ[j]] = act[ledgerQ[j]] /\ Sending(ledgerQ[j])
    BY <1>3, <2>1 DEF Sending, LedgerCalls
  <2>3. QED
    BY <1>3, <2>1, <2>2 DEF FundInv
<1>4. PlanFunded'
  <2>1. SUFFICES ASSUME payout_plan # NoPlan
                 PROVE  Due(payout_plan, 1)' + Due(payout_plan, 2)'
                          + Due(payout_plan, 3)' <= balance'
    BY DEF PlanFunded
  <2>2. \A r : Due(payout_plan, r)' = Due(payout_plan, r)
    BY DEF Due
  <2>3. payout_plan \in PlanSet /\ {1, 2, 3} \subseteq Recipients
    BY <2>1 DEF Recipients
  <2>4. /\ Due(payout_plan, 1) \in Nat /\ Due(payout_plan, 2) \in Nat
        /\ Due(payout_plan, 3) \in Nat
    BY <2>3, DueTyped
  <2>5. Due(payout_plan, 1) + Due(payout_plan, 2) + Due(payout_plan, 3) <= balance
    BY <2>1 DEF FundInv, PlanFunded
  <2>6. QED
    BY <2>2, <2>4, <2>5
<1>5. QED
  BY <1>2, <1>3, <1>4 DEF FundInv

\* The ledger executes, refuses or recognises a transfer: what it debits is
\* what the stored plan no longer owes.
LEMMA FundTransfer ==
  ASSUME TypeOK, MoneyInv, QueueInv, FundInv, LedgerServe,
         ServeTransfer(Head(ledgerQ))
  PROVE  FundInv'
<1> USE DEF TypeOK, LocalTypeOK
<1>1. PICK p \in Proc : p = Head(ledgerQ)
  BY DEF LedgerServe
<1>2. /\ Answers(p) /\ ledgerQ # <<>> /\ ledgerQ' = Tail(ledgerQ)
      /\ payout_plan' = payout_plan /\ now' = now
  BY <1>1, LedgerAnswers DEF Answers, persisted
<1>3. /\ p = ledgerQ[1] /\ 1 \in 1 .. Len(ledgerQ)
      /\ \A i \in 1 .. Len(Tail(ledgerQ)) :
           /\ Tail(ledgerQ)[i] = ledgerQ[i + 1] /\ i + 1 \in 1 .. Len(ledgerQ)
           /\ i + 1 # 1 /\ ledgerQ[i + 1] \in Proc
  BY <1>1, <1>2, TailEntries
<1>4. Sending(p)
  BY <1>1 DEF ServeTransfer, Sending
<1>5. ASSUME NEW q \in Proc, Live(q)', KnowsBalance(q)'
      PROVE  FALSE
  <2>1. q # p
    BY <1>2, <1>4, <1>5 DEF Answers, KnowsBalance, Sending
  <2>2. Live(q) /\ KnowsBalance(q)
    BY <1>2, <1>5, <2>1 DEF Answers, Live, KnowsBalance
  <2>3. QED
    BY <1>3, <2>1, <2>2 DEF QueueInv
<1>6. ASSUME NEW i \in 1 .. Len(ledgerQ'), Sending(ledgerQ[i])',
             payout_plan' # NoPlan
      PROVE  act'[ledgerQ'[i]].plan.id = payout_plan'.id
  <2>1. PICK j \in 1 .. Len(ledgerQ) :
               ledgerQ'[i] = ledgerQ[j] /\ ledgerQ[j] \in Proc
    BY <1>2, <1>3
  <2>2. /\ act'[ledgerQ[j]].pc = act[ledgerQ[j]].pc
        /\ act'[ledgerQ[j]].plan = act[ledgerQ[j]].plan
    BY <1>2, <2>1 DEF Answers
  <2>3. QED
    BY <1>2, <1>6, <2>1, <2>2 DEF FundInv, Sending
<1>7. PlanFunded'
  <2> DEFINE plan == act[p].plan
             tx == TxOf(plan, NextIdx(plan))
  <2>0. PICK k : k = NextIdx(plan)
    OBVIOUS
  <2>1. SUFFICES ASSUME payout_plan # NoPlan
                 PROVE  Due(payout_plan, 1)' + Due(payout_plan, 2)'
                          + Due(payout_plan, 3)' <= balance'
    BY <1>2 DEF PlanFunded
  <2>2. PICK v \in VerdictsFor(tx) :
          /\ blocks' = IF v = "ok" THEN blocks \cup {tx} ELSE blocks
          /\ balance' = IF v = "ok" THEN balance - (tx.amt + tx.fee)
                                    ELSE balance
    BY <1>1 DEF ServeTransfer
  <2>3. /\ plan.id = payout_plan.id /\ plan.fee = payout_plan.fee
        /\ plan.base = payout_plan.base /\ plan.amt = payout_plan.amt
    <3>1. plan.id = payout_plan.id
      BY <1>3, <1>4, <2>1 DEF FundInv
    <3>2. SameTransfers(plan, payout_plan)
      BY <1>4, <2>1 DEF MoneyInv, IdInv
    <3>3. QED
      BY <3>1, <3>2 DEF SameTransfers
  <2>4. k \in Recipients /\ plan.amt[k] > 0 /\ payout_plan \in PlanSet
    BY <1>4, <2>0, <2>1, MarkSentFields DEF Pending, MoneyInv, PersistedTypeOK
  <2>5. tx = TxOf(payout_plan, k) /\ tx.to = k
    BY <2>0, <2>3 DEF TxOf
  <2>6. tx.amt = payout_plan.amt[k] /\ tx.fee = payout_plan.fee
    BY <2>0, <2>3 DEF TxOf
  <2>7. \A r \in Recipients : /\ Due(payout_plan, r) \in Nat
                              /\ DebitOf(payout_plan.amt[r], payout_plan.fee) \in Nat
    BY <2>4, DueTyped
  <2>8. \A r : TxOf(payout_plan, r).to = r
    BY DEF TxOf
  <2>9. Due(payout_plan, 1) + Due(payout_plan, 2) + Due(payout_plan, 3) <= balance
    BY <2>1 DEF FundInv, PlanFunded
  <2>10. tx.amt \in Nat /\ tx.fee \in Nat /\ tx.amt > 0 /\ balance \in Nat
    BY <2>3, <2>4, <2>6 DEF PlanSet, WorldTypeOK
  <2> HIDE DEF tx, plan
  <2>11. CASE v # "ok"
    <3>1. blocks' = blocks /\ balance' = balance
      BY <2>2, <2>11
    <3>2. \A r : Due(payout_plan, r)' = Due(payout_plan, r)
      BY <1>2, <3>1 DEF Due
    <3>3. QED
      BY <2>9, <3>1, <3>2
  <2>12. CASE v = "ok"
    <3>1. blocks' = blocks \cup {tx} /\ balance' = balance - (tx.amt + tx.fee)
      BY <2>2, <2>12
    <3>2. tx \notin blocks
      BY <2>2, <2>12 DEF VerdictsFor
    <3>3. Due(payout_plan, k) = tx.amt + tx.fee
      <4>1. Due(payout_plan, k) = DebitOf(payout_plan.amt[k], payout_plan.fee)
        BY <2>5, <3>2 DEF Due
      <4>2. QED
        BY <2>6, <2>10, <4>1 DEF DebitOf
    <3>4. Due(payout_plan, k)' = 0
      BY <1>2, <2>5, <3>1 DEF Due
    <3>5. ASSUME NEW r \in Recipients, r # k
          PROVE  Due(payout_plan, r)' = Due(payout_plan, r)
      <4>1. TxOf(payout_plan, r) # tx
        BY <2>5, <2>8, <3>5
      <4>2. TxOf(payout_plan, r) \in blocks' <=> TxOf(payout_plan, r) \in blocks
        BY <3>1, <4>1
      <4>3. QED
        BY <1>2, <4>2 DEF Due
    <3>6. k \in {1, 2, 3} /\ {1, 2, 3} = Recipients
      BY <2>4 DEF Recipients
    <3> DEFINE a(r) == Due(payout_plan, r)
               b(r) == Due(payout_plan, r)'
               d == tx.amt + tx.fee
    <3>7. /\ a(1) \in Nat /\ a(2) \in Nat /\ a(3) \in Nat /\ d \in Nat
          /\ a(1) + a(2) + a(3) <= balance /\ balance' = balance - d
      <4>1. a(1) \in Nat /\ a(2) \in Nat /\ a(3) \in Nat
        BY <2>7, <3>6
      <4>2. d \in Nat
        BY <2>10
      <4>3. QED
        BY <2>9, <3>1, <4>1, <4>2
    <3>8. a(k) = d /\ b(k) = 0 /\ \A r \in {1, 2, 3} : r # k => b(r) = a(r)
      BY <3>3, <3>4, <3>5, <3>6
    <3> HIDE DEF a, b, d
    <3>9. b(1) + b(2) + b(3) <= balance'
      <4>1. CASE k = 1
        BY <2>10, <3>7, <3>8, <4>1
      <4>2. CASE k = 2
        BY <2>10, <3>7, <3>8, <4>2
      <4>3. CASE k = 3
        BY <2>10, <3>7, <3>8, <4>3
      <4>4. QED
        BY <3>6, <4>1, <4>2, <4>3
    <3>10. QED
      BY <3>9 DEF b
  <2>13. QED
    BY <2>11, <2>12
<1>8. QED
  BY <1>5, <1>6, <1>7 DEF FundInv

\* The ledger answers with a balance or a fee.
LEMMA FundAnswer ==
  ASSUME TypeOK, QueueInv, FundInv, LedgerServe,
         ServeBalance(Head(ledgerQ)) \/ ServeFee(Head(ledgerQ))
  PROVE  FundInv'
<1> USE DEF TypeOK, LocalTypeOK
<1>1. PICK p \in Proc : p = Head(ledgerQ)
  BY DEF LedgerServe
<1>2. /\ Answers(p) /\ ledgerQ # <<>> /\ ledgerQ' = Tail(ledgerQ)
      /\ payout_plan' = payout_plan /\ now' = now
      /\ act[p].pc # "balance" => act'[p].bal = act[p].bal
  BY <1>1, LedgerAnswers DEF Answers, persisted
<1>3. balance' = balance /\ blocks' = blocks /\ ~Sending(p)
  BY <1>1 DEF ServeBalance, ServeFee, ledger, Sending
<1>4. act[p].pc = "balance" => act'[p].bal = balance
  BY <1>1 DEF ServeBalance, ServeFee, Activations
<1>5. ASSUME NEW q \in Proc, Live(q)', KnowsBalance(q)'
      PROVE  act'[q].bal <= balance'
  <2>1. CASE q # p
    BY <1>2, <1>3, <1>5, <2>1 DEF Answers, Live, KnowsBalance, FundInv
  <2>2. CASE q = p /\ act[p].pc = "balance"
    BY <1>3, <1>4, <2>2 DEF WorldTypeOK
  <2>3. CASE q = p /\ act[p].pc # "balance"
    <3>1. Live(p) /\ KnowsBalance(p)
      BY <1>2, <1>5, <2>3 DEF Answers, Live, KnowsBalance
    <3>2. QED
      BY <1>2, <1>3, <2>3, <3>1 DEF FundInv
  <2>4. QED
    BY <2>1, <2>2, <2>3
<1>6. ASSUME NEW i \in 1 .. Len(ledgerQ'), Sending(ledgerQ[i])',
             payout_plan' # NoPlan
      PROVE  act'[ledgerQ'[i]].plan.id = payout_plan'.id
  <2>1. PICK j \in 1 .. Len(ledgerQ) :
               ledgerQ'[i] = ledgerQ[j] /\ ledgerQ[j] \in Proc
    BY <1>2, TailEntries
  <2>2. /\ act'[ledgerQ[j]].pc = act[ledgerQ[j]].pc
        /\ act'[ledgerQ[j]].plan = act[ledgerQ[j]].plan
    BY <1>2, <2>1 DEF Answers
  <2>3. QED
    BY <1>2, <1>6, <2>1, <2>2 DEF FundInv, Sending
<1>7. PlanFunded'
  BY <1>2, <1>3 DEF FundInv, PlanFunded, Due
<1>8. QED
  BY <1>5, <1>6, <1>7 DEF FundInv

\* Every step keeps the stored plan funded.
LEMMA FundNext ==
  ASSUME TypeOK, MoneyInv, QueueInv, FundInv, FeeInv, [Next]_vars
  PROVE  FundInv'
<1> USE DEF TypeOK, LocalTypeOK, PersistedTypeOK
<1>0. /\ now \in Nat /\ now <= now /\ balance \in Nat /\ balance <= balance
      /\ \A i \in 1 .. Len(ledgerQ) : ledgerQ[i] \in Proc
  BY DEF WorldTypeOK
<1>1. CASE Tick \/ FeeChange \/ Deposit \/ Finalize \/ MainDeferred
           \/ ResumeBusy \/ Upgrade \/ UNCHANGED vars
  <2>1. UNCHANGED <<act, ledgerQ, payout_plan, blocks>>
    BY <1>1 DEF Tick, FeeChange, Deposit, Finalize, MainDeferred, ResumeBusy,
       Upgrade, vars, persisted, ledger
  <2>2. now' \in Nat /\ now <= now'
    BY <1>0, <1>1 DEF Tick, FeeChange, Deposit, Finalize, MainDeferred,
       ResumeBusy, Upgrade, vars
  <2>3. balance' \in Nat /\ balance <= balance'
    BY <1>0, <1>1, AmountAssumption DEF Tick, FeeChange, Deposit, Finalize,
       MainDeferred, ResumeBusy, Upgrade, vars, ledger
  <2>4. QED
    BY <1>0, <2>1, <2>2, <2>3, FundStutter
<1>2. CASE DropRequest
  <2>1. UNCHANGED <<now, act, payout_plan, blocks, balance>>
    BY <1>2 DEF DropRequest, persisted, ledger
  <2>2. \A i \in 1 .. Len(ledgerQ') : \E j \in 1 .. Len(ledgerQ) :
           ledgerQ'[i] = ledgerQ[j] /\ ledgerQ[j] \in Proc
    <3>1. CASE ledgerQ' = ledgerQ
      BY <1>0, <3>1
    <3>2. CASE ledgerQ # <<>> /\ ledgerQ' = Tail(ledgerQ)
      BY <3>2, TailEntries
    <3>3. QED
      BY <1>2, <3>1, <3>2 DEF DropRequest
  <2>3. QED
    BY <1>0, <2>1, <2>2, FundStutter
<1>3. CASE LedgerServe
  BY <1>3, FundTransfer, FundAnswer DEF LedgerServe
<1>4. CASE GovServe
  <2>1. PICK p \in Proc : p = Head(govQ)
    BY <1>4 DEF GovServe
  <2>2. /\ Answers(p) /\ ledgerQ' = ledgerQ /\ act[p].pc \in GovCalls
        /\ UNCHANGED ledger
    BY <1>4, <2>1, GovAnswers
  <2>3. \A q \in Proc : act'[q] = act[q] \/ act'[q].pc \notin LedgerCalls
    BY <2>2 DEF Answers, GovCalls, LedgerCalls
  <2>4. UNCHANGED <<now, payout_plan, blocks, balance>>
    BY <2>2 DEF Answers, persisted, ledger
  <2>5. QED
    BY <1>0, <2>2, <2>3, <2>4, FundStutter
<1>5. CASE \E p \in Proc : MainStart(p) \/ PokeStart(p)
  <2>1. PICK p \in Proc : Starts(p)
    BY <1>5, StartForm
  <2>2. \A q \in Proc : act'[q] = act[q] \/ act'[q].pc \notin LedgerCalls
    BY <2>1 DEF Starts, LedgerCalls
  <2>3. UNCHANGED <<now, payout_plan, blocks, balance, ledgerQ>>
    BY <2>1 DEF Starts, ledger
  <2>4. QED
    BY <1>0, <2>2, <2>3, FundStutter
<1>6. CASE \E p \in Proc : Callback(p)
  BY <1>6, FundCallback
<1>7. QED
  BY <1>1, <1>2, <1>3, <1>4, <1>5, <1>6 DEF Next

-----------------------------------------------------------------------------
(* The age snapshot.                                                         *)

\* Requests to disburse that are under way after the step were under way
\* before it, d places further back.
OldDisburse(d) ==
  \A i \in 1 .. Len(govQ') : DisburseAt(i)' =>
    /\ i + d \in 1 .. Len(govQ) /\ DisburseAt(i + d)
    /\ AgeSeconds(govQ[i])' = AgeSeconds(govQ[i + d])

\* A step that initiates, executes and finalizes no disbursement.
LEMMA AgeKeep ==
  ASSUME AgeInv, UNCHANGED <<prev_age, disb>>, staged' \subseteq staged,
         NEW d \in {0, 1}, OldDisburse(d),
         payout_plan' # NoPlan => staged' \subseteq planCover' /\ Quiesced,
         \A q \in Proc : (Live(q) /\ PastNeuron(q))' => Quiesced,
         \A q \in Proc : (Live(q) /\ KnowsBalance(q))' =>
           staged' \subseteq act'[q].seen
  PROVE  AgeInv'
<1>1. AgeSnapshot'
  BY DEF AgeInv, AgeSnapshot
<1>2. Quiesced => Quiesced'
  BY DEF Quiesced, OldDisburse
<1>3. ASSUME NEW i \in 1 .. Len(govQ'), DisburseAt(i)'
      PROVE  /\ disb' = <<>> /\ AgeSeconds(govQ[i])' = prev_age'
             /\ \A j \in 1 .. Len(govQ') : DisburseAt(j)' => i = j
  <2>1. /\ i + d \in 1 .. Len(govQ) /\ DisburseAt(i + d)
        /\ AgeSeconds(govQ[i])' = AgeSeconds(govQ[i + d])
    BY <1>3 DEF OldDisburse
  <2>2. disb' = <<>> /\ AgeSeconds(govQ[i])' = prev_age'
    BY <2>1 DEF AgeInv
  <2>3. ASSUME NEW j \in 1 .. Len(govQ'), DisburseAt(j)'
        PROVE  i = j
    <3>1. j + d \in 1 .. Len(govQ) /\ DisburseAt(j + d)
      BY <2>3 DEF OldDisburse
    <3>2. i + d = j + d
      BY <2>1, <3>1 DEF AgeInv
    <3>3. i \in Int /\ j \in Int /\ d \in Int
      OBVIOUS
    <3>4. QED
      BY <3>2, <3>3
  <2>4. QED
    BY <2>2, <2>3
<1>4. QED
  BY <1>1, <1>2, <1>3 DEF AgeInv

\* Steps that leave the activations alone except for one with nothing under
\* way to Governance that does not disburse.
LEMMA OldDisburseSame ==
  ASSUME TypeOK, NEW p \in Proc, \A i \in 1 .. Len(govQ) : govQ[i] # p,
         \A q \in Proc : q # p => act'[q] = act[q],
         act'[p].pc # "disburse",
         govQ' = govQ \/ govQ' = Append(govQ, p)
  PROVE  OldDisburse(0)
<1> USE DEF TypeOK, LocalTypeOK
<1>1. SUFFICES ASSUME NEW i \in 1 .. Len(govQ'), DisburseAt(i)'
               PROVE  /\ i + 0 \in 1 .. Len(govQ) /\ DisburseAt(i + 0)
                      /\ AgeSeconds(govQ[i])' = AgeSeconds(govQ[i + 0])
  BY DEF OldDisburse
<1>2. i + 0 = i
  OBVIOUS
<1>3. govQ'[i] # p
  BY <1>1 DEF DisburseAt
<1>4. i \in 1 .. Len(govQ) /\ govQ'[i] = govQ[i] /\ govQ[i] \in Proc
  <2>1. CASE govQ' = govQ
    BY <2>1
  <2>2. CASE govQ' = Append(govQ, p)
    BY <1>3, <2>2
  <2>3. QED
    BY <2>1, <2>2
<1>5. act'[govQ[i]] = act[govQ[i]]
  BY <1>4
<1>6. QED
  BY <1>1, <1>2, <1>4, <1>5 DEF DisburseAt, AgeSeconds

LEMMA AgeCallback ==
  ASSUME TypeOK, LeaseInv, MoneyInv, QueueInv, AgeInv, FeeInv, NEW p \in Proc,
         Callback(p)
  PROVE  AgeInv'
<1> USE DEF TypeOK, LocalTypeOK
<1>1. /\ Shape(p) /\ Moves(p)
      /\ \A i \in 1 .. Len(govQ) : govQ[i] # p
  BY CallbackShape, CallbackMoves, CallbackNotQueued
<1>2. /\ \A q \in Proc : q # p => act'[q] = act[q]
      /\ now' = now /\ disb' = disb /\ act[p].pc # "idle"
  BY <1>1 DEF Moves, Shape, gov
<1>3. /\ Sending(p)' => Sends(p)
      /\ KnowsBalance(p)' => GoesOn(p) /\ act'[p].pc = "fee"
      /\ \/ Ends(p) /\ act'[p] = Idle
         \/ /\ InitiateDisbursement(p) /\ PaysOut(p)
            /\ act'[p] = Await(p, "disburse")
         \/ GoesOn(p) \/ Sends(p)
  BY <1>1, ShapeAwaits
<1>4. KnowsBalance(p) \/ Sending(p) => PastNeuron(p)
  BY DEF KnowsBalance, Sending, PastNeuron, LedgerCalls
<1>5. Judged(p) => payout_plan # NoPlan
  BY DEF Judged, MoneyInv, SendingOK
<1>6. Idle.pc = "idle" /\ Await(p, "disburse").pc = "disburse"
      /\ Await(p, "disburse").start = act[p].start
  BY DEF Idle, Await
<1>7. CASE /\ InitiateDisbursement(p) /\ PaysOut(p)
           /\ act'[p] = Await(p, "disburse")
  <2>1. Live(p) /\ PastNeuron(p) /\ payout_plan' = NoPlan
    BY <1>4, <1>7 DEF PaysOut, Judged
  <2>2. Quiesced
    BY <2>1 DEF AgeInv
  <2>3. staged' = {}
    <3>1. staged \subseteq act[p].seen \/ ~KnowsBalance(p)
      BY <2>1 DEF AgeInv
    <3>2. payout_plan # NoPlan => staged \subseteq planCover
      BY DEF AgeInv
    <3>3. QED
      BY <1>5, <1>7, <3>1, <3>2 DEF PaysOut
  <2>4. \A q \in Proc : ~(Live(q)' /\ (PastNeuron(q)' \/ KnowsBalance(q)'))
    <3>1. SUFFICES ASSUME NEW q \in Proc, Live(q)'
                   PROVE  ~PastNeuron(q)' /\ ~KnowsBalance(q)'
      OBVIOUS
    <3>2. q = p
      BY <1>2, <2>1, <3>1 DEF LeaseInv, Live
    <3>3. QED
      BY <1>6, <1>7, <3>2 DEF PastNeuron, KnowsBalance, LedgerCalls
  <2>5. prev_age' = AgeSeconds(p) /\ govQ' = Append(govQ, p)
    BY <1>7 DEF InitiateDisbursement
  <2>6. AgeSeconds(p)' = AgeSeconds(p)
    BY <1>6, <1>7 DEF AgeSeconds
  <2>7. ASSUME NEW i \in 1 .. Len(govQ'), DisburseAt(i)'
        PROVE  govQ'[i] = p /\ i = Len(govQ) + 1
    <3>1. i \in 1 .. Len(govQ) => govQ'[i] = govQ[i] /\ govQ[i] \in Proc
      BY <2>5
    <3>2. i \in 1 .. Len(govQ) => act'[govQ[i]] = act[govQ[i]]
      BY <1>1, <1>2, <3>1
    <3>3. i \notin 1 .. Len(govQ)
      BY <2>2, <2>7, <3>1, <3>2 DEF Quiesced, DisburseAt
    <3>4. QED
      BY <2>5, <3>3
  <2>8. disb' = <<>>
    BY <1>2, <2>2 DEF Quiesced
  <2>9. AgeSnapshot'
    BY <2>3, <2>8 DEF AgeSnapshot
  <2>10. ASSUME NEW i \in 1 .. Len(govQ'), DisburseAt(i)'
         PROVE  AgeSeconds(govQ[i])' = prev_age'
    <3>1. govQ'[i] = p
      BY <2>7, <2>10
    <3>2. AgeSeconds(govQ[i])' = AgeSeconds(p)'
      BY <3>1 DEF AgeSeconds
    <3>3. QED
      BY <2>5, <2>6, <3>2
  <2>11. QED
    BY <2>1, <2>4, <2>7, <2>8, <2>9, <2>10 DEF AgeInv
<1>8. CASE (Ends(p) /\ act'[p] = Idle) \/ GoesOn(p) \/ Sends(p)
  <2>1. act'[p].pc # "disburse" /\ prev_age' = prev_age
    BY <1>6, <1>8 DEF Ends, GoesOn, Sends
  <2>2. govQ' = govQ \/ govQ' = Append(govQ, p)
    BY <1>1 DEF Moves
  <2>3. OldDisburse(0)
    BY <1>1, <1>2, <2>1, <2>2, OldDisburseSame
  <2>4. staged' \subseteq staged
    BY <1>1 DEF Shape, KeepsPlan, ClearsIt, Marks, PaysOut, Plans
  <2>5. payout_plan' # NoPlan => staged' \subseteq planCover' /\ Quiesced
    <3>1. CASE KeepsPlan(p)
      BY <3>1 DEF KeepsPlan, AgeInv
    <3>2. CASE Marks(p)
      BY <1>5, <3>2 DEF Marks, AgeInv
    <3>3. CASE Plans(p)
      BY <1>4, <3>3 DEF Plans, Sends, AgeInv
    <3>4. QED
      BY <1>1, <3>1, <3>2, <3>3 DEF Shape, ClearsIt, PaysOut
  <2>6. ASSUME NEW q \in Proc, Live(q)', PastNeuron(q)'
        PROVE  Quiesced
    <3>1. CASE q # p
      BY <1>2, <2>6, <3>1 DEF AgeInv, Live, PastNeuron
    <3>2. CASE q = p /\ GoesOn(p)
      <4>1. Live(p) /\ PastNeuron(p)
        BY <2>6, <3>2 DEF GoesOn, PastNeuron, LedgerCalls
      <4>2. QED
        BY <4>1 DEF AgeInv
    <3>3. CASE q = p /\ Sends(p)
      <4>1. Live(p) /\ act'[p].pc = "transfer"
        BY <3>3 DEF Sends
      <4>2. KnowsBalance(p) \/ Sending(p)
        BY <1>1, <1>6, <4>1
           DEF Moves, LedgerCalls, GovCalls
      <4>3. QED
        BY <1>4, <4>1, <4>2 DEF AgeInv
    <3>4. CASE q = p /\ act'[p] = Idle
      BY <1>6, <2>6, <3>4 DEF Live
    <3>5. QED
      BY <1>8, <3>1, <3>2, <3>3, <3>4
  <2>7. ASSUME NEW q \in Proc, Live(q)', KnowsBalance(q)'
        PROVE  staged' \subseteq act'[q].seen
    <3>1. CASE q # p
      BY <1>2, <2>4, <2>7, <3>1 DEF AgeInv, Live, KnowsBalance
    <3>2. CASE q = p
      BY <1>3, <2>4, <2>7, <3>2 DEF GoesOn, AgeInv, KnowsBalance
    <3>3. QED
      BY <3>1, <3>2
  <2>8. QED
    BY <1>2, <2>1, <2>3, <2>4, <2>5, <2>6, <2>7, AgeKeep
<1>9. QED
  BY <1>3, <1>7, <1>8

\* Governance answers.  A disbursement it executes carries the snapshot that
\* was persisted before the request was sent.
LEMMA AgeGov ==
  ASSUME TypeOK, QueueInv, AgeInv, GovServe
  PROVE  AgeInv'
<1> USE DEF TypeOK, LocalTypeOK
<1>1. PICK p \in Proc : p = Head(govQ)
  BY DEF GovServe
<1>2. /\ Answers(p) /\ govQ # <<>> /\ govQ' = Tail(govQ)
      /\ act[p].pc \in GovCalls /\ UNCHANGED <<ledger, history>>
  BY <1>1, GovAnswers
<1>3. UNCHANGED <<now, payout_plan, prev_age, staged, planCover>>
  BY <1>2 DEF Answers, persisted, history
<1>4. /\ p = govQ[1] /\ 1 \in 1 .. Len(govQ)
      /\ \A i \in 1 .. Len(Tail(govQ)) :
           /\ Tail(govQ)[i] = govQ[i + 1] /\ i + 1 \in 1 .. Len(govQ)
           /\ i + 1 # 1 /\ govQ[i + 1] \in Proc
  BY <1>1, <1>2, TailEntries
<1>5. OldDisburse(1)
  <2>1. \A i \in 1 .. Len(govQ') : DisburseAt(i)' => DisburseAt(i + 1)
    BY <1>2, <1>4 DEF DisburseAt, Answers
  <2>2. \A i \in 1 .. Len(govQ') :
          AgeSeconds(govQ[i])' = AgeSeconds(govQ[i + 1])
    BY <1>2, <1>4 DEF AgeSeconds, Answers
  <2>3. QED
    BY <1>2, <1>4, <2>1, <2>2 DEF OldDisburse
<1>6. ASSUME NEW q \in Proc, q # p \/ act[p].pc # "neuron",
             Live(q)', PastNeuron(q)'
      PROVE  Live(q) /\ PastNeuron(q)
  BY <1>2, <1>6 DEF Answers, Live, PastNeuron, LedgerCalls, GovCalls
<1>7. ASSUME NEW q \in Proc, Live(q)', KnowsBalance(q)'
      PROVE  staged' \subseteq act'[q].seen
  <2>1. q # p
    BY <1>2, <1>7 DEF Answers, KnowsBalance, GovCalls
  <2>2. QED
    BY <1>2, <1>3, <1>7, <2>1 DEF AgeInv, Answers, Live, KnowsBalance
<1>8. payout_plan' # NoPlan => staged' \subseteq planCover' /\ Quiesced
  BY <1>3 DEF AgeInv
<1>9. CASE ServeNeuron(p)
  <2>1. disb' = disb /\ act[p].pc = "neuron"
    BY <1>9 DEF ServeNeuron, gov
  <2>2. ASSUME NEW q \in Proc, Live(q)', PastNeuron(q)'
        PROVE  Quiesced
    <3>1. CASE q # p
      BY <1>6, <2>2, <3>1 DEF AgeInv
    <3>2. CASE q = p
      <4>1. act'[p].inflight = (disb # <<>>)
        BY <1>9 DEF ServeNeuron, Activations
      <4>2. act'[p].inflight = FALSE
        BY <1>2, <2>1, <2>2, <3>2 DEF PastNeuron, Answers, LedgerCalls
      <4>3. disb = <<>>
        BY <4>1, <4>2
      <4>4. now < act[govQ[1]].expiry
        BY <1>2, <1>3, <1>4, <2>2, <3>2 DEF Live, Answers
      <4>5. Len(govQ) = 1
        BY <1>4, <4>4 DEF QueueInv, QueueOK
      <4>6. \A i \in 1 .. Len(govQ) : i = 1
        BY <4>5
      <4>7. QED
        BY <1>4, <2>1, <4>3, <4>6 DEF Quiesced, DisburseAt
    <3>3. QED
      BY <3>1, <3>2
  <2>3. 1 \in {0, 1} /\ staged' \subseteq staged
    BY <1>3
  <2>4. QED
    BY <1>3, <1>5, <1>7, <1>8, <2>1, <2>2, <2>3, AgeKeep
<1>10. CASE ServeDisburse(p)
  <2>1. DisburseAt(1)
    BY <1>4, <1>10 DEF ServeDisburse, DisburseAt
  <2>2. disb = <<>> /\ AgeSeconds(p) = prev_age /\ ~Quiesced
        /\ \A i \in 1 .. Len(govQ) : DisburseAt(i) => i = 1
    BY <1>4, <2>1 DEF AgeInv, Quiesced
  <2>3. \A i \in 1 .. Len(govQ') : ~DisburseAt(i)'
    BY <1>2, <1>4, <1>5, <2>2 DEF OldDisburse
  <2>4. disb' = <<>> \/ disb' = Append(<<>>, prev_age)
    BY <1>10, <2>2 DEF ServeDisburse, gov
  <2>5. AgeSnapshot'
    <3>1. prev_age \in Nat /\ staged \subseteq {prev_age}
      BY DEF AgeInv, AgeSnapshot, PersistedTypeOK
    <3>2. CASE disb' = <<>>
      BY <1>3, <3>1, <3>2 DEF AgeSnapshot
    <3>3. CASE disb' = Append(<<>>, prev_age)
      <4>1. Len(disb') = 1 /\ disb'[1] = prev_age
        BY <3>1, <3>3
      <4>2. \A i \in 1 .. Len(disb') : i = 1
        BY <4>1
      <4>3. QED
        BY <1>3, <3>1, <4>1, <4>2 DEF AgeSnapshot
    <3>4. QED
      BY <2>4, <3>2, <3>3
  <2>6. payout_plan' = NoPlan
    BY <1>3, <2>2 DEF AgeInv
  <2>7. \A q \in Proc : ~(Live(q) /\ PastNeuron(q))'
    <3>1. act[p].pc # "neuron"
      BY <1>10 DEF ServeDisburse
    <3>2. QED
      BY <1>6, <2>2, <3>1 DEF AgeInv
  <2>8. QED
    BY <1>7, <2>3, <2>5, <2>6, <2>7 DEF AgeInv
<1>11. QED
  BY <1>1, <1>9, <1>10 DEF GovServe

\* A queue of one element.
LEMMA ShortQueue ==
  ASSUME NEW s \in Seq(Nat), s # <<>>, Len(s) <= 1
  PROVE  /\ Head(s) = s[1] /\ 1 \in 1 .. Len(s)
         /\ Len(Tail(s)) = 0 /\ \A i \in 1 .. Len(Tail(s)) : FALSE
<1>1. Len(s) \in Nat /\ Len(s) # 0
  OBVIOUS
<1>2. Len(s) = 1
  <2>1. \A n \in Nat : n # 0 /\ n <= 1 => n = 1
    OBVIOUS
  <2>2. QED
    BY <1>1, <2>1, Zenon
<1>3. Len(Tail(s)) = 0
  BY <1>2
<1>4. 1 .. Len(Tail(s)) = 1 .. 0
  BY <1>3
<1>5. \A i \in 1 .. 0 : FALSE
  OBVIOUS
<1>6. Head(s) = s[1] /\ 1 \in 1 .. Len(s)
  BY <1>2
<1>7. QED
  BY <1>3, <1>4, <1>5, <1>6

\* Every step keeps the age snapshot true.
LEMMA AgeNext ==
  ASSUME TypeOK, LeaseInv, MoneyInv, QueueInv, AgeInv, FeeInv, [Next]_vars
  PROVE  AgeInv'
<1> USE DEF TypeOK, LocalTypeOK, PersistedTypeOK
<1>0. /\ \A q \in Proc : act[q].expiry \in Nat
      /\ \A i \in 1 .. Len(govQ) : govQ[i] \in Proc /\ i + 0 = i
      /\ 0 \in {0, 1} /\ 1 \in {0, 1}
  BY DEF Activations
<1>1. ASSUME UNCHANGED <<act, payout_plan, prev_age, disb, staged, planCover>>,
             now' \in Nat, now <= now', NEW d \in {0, 1}, OldDisburse(d)
      PROVE  AgeInv'
  <2>1. \A q \in Proc : /\ Live(q)' => Live(q)
                        /\ PastNeuron(q)' => PastNeuron(q)
                        /\ KnowsBalance(q)' => KnowsBalance(q)
    BY <1>0, <1>1 DEF Live, PastNeuron, KnowsBalance
  <2>2. /\ payout_plan' # NoPlan => staged' \subseteq planCover' /\ Quiesced
        /\ \A q \in Proc : (Live(q) /\ PastNeuron(q))' => Quiesced
        /\ \A q \in Proc : (Live(q) /\ KnowsBalance(q))' =>
             staged' \subseteq act'[q].seen
    BY <1>1, <2>1 DEF AgeInv
  <2>3. QED
    BY <1>1, <2>2, AgeKeep
<1>2. CASE Tick \/ FeeChange \/ Deposit \/ MainDeferred \/ ResumeBusy
           \/ Upgrade \/ UNCHANGED vars
  <2>1. UNCHANGED <<act, govQ, payout_plan, prev_age, disb, staged, planCover>>
    BY <1>2 DEF Tick, FeeChange, Deposit, MainDeferred, ResumeBusy, Upgrade,
       vars, persisted, gov, history
  <2>2. now' \in Nat /\ now <= now'
    BY <1>2 DEF Tick, FeeChange, Deposit, MainDeferred, ResumeBusy, Upgrade,
       vars
  <2>3. OldDisburse(0)
    BY <1>0, <2>1 DEF OldDisburse, DisburseAt, AgeSeconds
  <2>4. QED
    BY <1>0, <1>1, <2>1, <2>2, <2>3
<1>3. CASE DropRequest
  <2>1. UNCHANGED <<now, act, payout_plan, prev_age, disb, staged, planCover>>
    BY <1>3 DEF DropRequest, persisted, gov, history
  <2>2. CASE govQ' = govQ
    <3>1. OldDisburse(0)
      BY <1>0, <2>1, <2>2 DEF OldDisburse, DisburseAt, AgeSeconds
    <3>2. QED
      BY <1>0, <1>1, <2>1, <3>1
  <2>3. CASE govQ # <<>> /\ govQ' = Tail(govQ)
    <3>1. \A i \in 1 .. Len(govQ') :
            govQ'[i] = govQ[i + 1] /\ i + 1 \in 1 .. Len(govQ)
      BY <2>3, TailEntries
    <3>2. OldDisburse(1)
      BY <2>1, <3>1 DEF OldDisburse, DisburseAt, AgeSeconds
    <3>3. QED
      BY <1>0, <1>1, <2>1, <3>2
  <2>4. QED
    BY <1>3, <2>2, <2>3 DEF DropRequest
<1>4. CASE Finalize
  <2>1. /\ disb # <<>> /\ disb' = Tail(disb)
        /\ staged' = staged \cup {Head(disb)}
        /\ UNCHANGED <<now, act, govQ, payout_plan, prev_age, planCover>>
    BY <1>4 DEF Finalize, persisted
  <2>2. ~Quiesced /\ \A i \in 1 .. Len(govQ) : ~DisburseAt(i)
    BY <2>1 DEF Quiesced, AgeInv
  <2>3. disb \in Seq(Nat) /\ Len(disb) <= 1
    BY DEF WorldTypeOK, AgeInv, AgeSnapshot
  <2>4. /\ Head(disb) = disb[1] /\ 1 \in 1 .. Len(disb)
        /\ Len(Tail(disb)) = 0 /\ \A i \in 1 .. Len(Tail(disb)) : FALSE
    BY <2>1, <2>3, ShortQueue, Zenon
  <2>5. Head(disb) = prev_age
    BY <2>4 DEF AgeInv, AgeSnapshot
  <2>6. AgeSnapshot'
    <3>1. staged' \subseteq {prev_age'}
      BY <2>1, <2>5 DEF AgeInv, AgeSnapshot
    <3>2. Len(disb') <= 1
      BY <2>1, <2>4
    <3>3. \A i \in 1 .. Len(disb') : disb'[i] = prev_age'
      BY <2>1, <2>4, Zenon
    <3>4. QED
      BY <3>1, <3>2, <3>3 DEF AgeSnapshot
  <2>7. payout_plan' = NoPlan /\ \A q \in Proc : ~(Live(q) /\ PastNeuron(q))
    BY <2>1, <2>2 DEF AgeInv
  <2>8. \A q \in Proc : /\ Live(q)' => Live(q)
                        /\ PastNeuron(q)' => PastNeuron(q)
                        /\ KnowsBalance(q)' => PastNeuron(q)
    BY <2>1 DEF Live, PastNeuron, KnowsBalance, LedgerCalls
  <2>9. \A i \in 1 .. Len(govQ') : ~DisburseAt(i)'
    BY <2>1, <2>2 DEF DisburseAt
  <2>10. QED
    BY <2>6, <2>7, <2>8, <2>9 DEF AgeInv
<1>5. CASE LedgerServe
  <2>1. PICK p \in Proc : p = Head(ledgerQ)
    BY <1>5 DEF LedgerServe
  <2>2. /\ Answers(p) /\ govQ' = govQ /\ act[p].pc \in LedgerCalls
        /\ act[p].pc # "balance" => act'[p].seen = act[p].seen
    BY <1>5, <2>1, LedgerAnswers
  <2>3. UNCHANGED <<now, payout_plan, prev_age, disb, staged, planCover>>
    BY <1>5 DEF LedgerServe, persisted, gov, history
  <2>4. \A i \in 1 .. Len(govQ) : govQ[i] # p
    BY <2>2 DEF QueueInv, QueueOK, LedgerCalls, GovCalls
  <2>5. OldDisburse(0)
    BY <2>2, <2>4, OldDisburseSame DEF Answers, LedgerCalls
  <2>6. \A q \in Proc : (Live(q) /\ PastNeuron(q))' => Quiesced
    BY <2>2, <2>3 DEF Answers, Live, PastNeuron, LedgerCalls, AgeInv
  <2>7. ASSUME NEW q \in Proc, Live(q)', KnowsBalance(q)'
        PROVE  staged' \subseteq act'[q].seen
    <3>1. CASE q # p
      BY <2>2, <2>3, <2>7, <3>1 DEF Answers, Live, KnowsBalance, AgeInv
    <3>2. CASE q = p /\ act[p].pc = "balance"
      <4>1. ServeBalance(p)
        BY <1>5, <2>1, <3>2 DEF LedgerServe, ServeFee, ServeTransfer
      <4>2. act'[p].seen = staged
        BY <4>1 DEF ServeBalance, Activations
      <4>3. QED
        BY <2>3, <3>2, <4>2
    <3>3. CASE q = p /\ act[p].pc # "balance"
      BY <2>2, <2>3, <2>7, <3>3 DEF Answers, Live, KnowsBalance, AgeInv
    <3>4. QED
      BY <3>1, <3>2, <3>3
  <2>8. /\ payout_plan' # NoPlan => staged' \subseteq planCover' /\ Quiesced
        /\ staged' \subseteq staged
    BY <2>3 DEF AgeInv
  <2>9. QED
    BY <1>0, <2>3, <2>5, <2>6, <2>7, <2>8, AgeKeep
<1>6. CASE GovServe
  BY <1>6, AgeGov
<1>7. CASE \E p \in Proc : MainStart(p) \/ PokeStart(p)
  <2>1. PICK p \in Proc : Starts(p)
    BY <1>7, StartForm
  <2>2. UNCHANGED <<now, payout_plan, prev_age, disb, staged, planCover>>
    BY <2>1 DEF Starts, gov, history
  <2>3. \A i \in 1 .. Len(govQ) : govQ[i] # p
    BY <2>1 DEF QueueInv, QueueOK, GovCalls, Starts
  <2>4. OldDisburse(0)
    BY <2>1, <2>3, OldDisburseSame DEF Starts
  <2>5. \A q \in Proc : /\ (Live(q) /\ PastNeuron(q))' => Live(q) /\ PastNeuron(q)
                        /\ (Live(q) /\ KnowsBalance(q))' =>
                             /\ Live(q) /\ KnowsBalance(q) /\ act'[q] = act[q]
    BY <2>1 DEF Starts, Live, PastNeuron, KnowsBalance, LedgerCalls
  <2>6. /\ payout_plan' # NoPlan => staged' \subseteq planCover' /\ Quiesced
        /\ \A q \in Proc : (Live(q) /\ PastNeuron(q))' => Quiesced
        /\ \A q \in Proc : (Live(q) /\ KnowsBalance(q))' =>
             staged' \subseteq act'[q].seen
        /\ staged' \subseteq staged
    BY <2>2, <2>5 DEF AgeInv
  <2>7. QED
    BY <1>0, <2>2, <2>4, <2>6, AgeKeep
<1>8. CASE \E p \in Proc : Callback(p)
  BY <1>8, AgeCallback
<1>9. QED
  BY <1>2, <1>3, <1>4, <1>5, <1>6, <1>7, <1>8 DEF Next

-----------------------------------------------------------------------------
(* What late callbacks write.                                                *)

\* A step that writes none of the times and starts or ends nothing.
LEMMA StampStutter ==
  ASSUME TypeOK, StampInv, now' \in Nat, now <= now',
         UNCHANGED <<payout_plan, last_success, last_main_run>>,
         \A q \in Proc : /\ act'[q].pc = act[q].pc
                         /\ act'[q].start = act[q].start
                         /\ act'[q].expiry = act[q].expiry
                         /\ act'[q].plan = act[q].plan
  PROVE  StampInv'
<1> USE DEF TypeOK, LocalTypeOK, PersistedTypeOK
<1>1. \A q \in Proc : act[q].expiry \in Nat /\ act[q].start \in Nat
  BY DEF Activations
<1>2. \A q \in Proc : Live(q)' => Live(q)
  BY <1>1 DEF Live
<1>3. /\ last_success' <= now' /\ last_main_run' <= now'
      /\ \A q \in Proc : act'[q].start <= now'
  BY <1>1 DEF StampInv
<1>4. \A q \in Proc : Live(q)' =>
        /\ last_success' <= act'[q].start /\ last_main_run' <= act'[q].start
        /\ \A r \in Proc : act'[r].start <= act'[q].start
  BY <1>2 DEF StampInv
<1>5. QED
  BY <1>3, <1>4 DEF StampInv, Sending

\* A callback writes only the start of its own activation, and only where
\* that is no earlier than what it replaces.
LEMMA StampCallback ==
  ASSUME TypeOK, MoneyInv, StampInv, NEW p \in Proc, Callback(p)
  PROVE  /\ StampInv'
         /\ last_success' >= last_success /\ last_main_run' >= last_main_run
<1> USE DEF TypeOK, LocalTypeOK, PersistedTypeOK
<1>0. FeeInv
  BY DEF StampInv, FeeInv
<1>1. Shape(p) /\ Moves(p)
  BY <1>0, CallbackShape, CallbackMoves
<1>2. /\ \A q \in Proc : q # p => act'[q] = act[q]
      /\ now' = now /\ act[p].pc # "idle"
  BY <1>1 DEF Moves
<1>3. /\ Sending(p)' => Sends(p)
      /\ \/ Ends(p) /\ act'[p] = Idle
         \/ /\ InitiateDisbursement(p) /\ PaysOut(p)
            /\ act'[p] = Await(p, "disburse")
         \/ GoesOn(p) \/ Sends(p)
  BY <1>1, ShapeAwaits
<1>4. /\ Idle.pc = "idle" /\ Idle.start = 0
      /\ Await(p, "disburse").pc = "disburse"
      /\ Await(p, "disburse").start = act[p].start
      /\ Await(p, "disburse").expiry = act[p].expiry
  BY DEF Idle, Await
<1>5. \A q \in Proc : act[q].expiry \in Nat /\ act[q].start \in Nat
  BY DEF Activations
<1>6. \/ act'[p].pc = "idle" /\ act'[p].start = 0
      \/ act'[p].start = act[p].start /\ act'[p].expiry = act[p].expiry
  BY <1>3, <1>4 DEF GoesOn, Sends
<1>7. \A q \in Proc : Live(q)' => Live(q) /\ act'[q].start = act[q].start
  BY <1>2, <1>6 DEF Live
<1>8. \A q \in Proc : act'[q].start = 0 \/ act'[q].start = act[q].start
  BY <1>2, <1>6
<1>9. \/ last_success' = last_success
      \/ last_success' = act[p].start /\ Judged(p)
  BY <1>1 DEF Shape, KeepsPlan, ClearsIt, Marks, PaysOut, Plans
<1>10. \/ last_main_run' = last_main_run
       \/ last_main_run' = act[p].start /\ IsCurrent(p)
  BY <1>3 DEF Ends, InitiateDisbursement, GoesOn, Sends
<1>11. Judged(p) => last_success <= act[p].start
  BY DEF Judged, StampInv
<1>12. IsCurrent(p) => last_main_run <= act[p].start
  BY <1>2, CurrentIsLive DEF StampInv
<1>13. last_success' >= last_success /\ last_main_run' >= last_main_run
  BY <1>5, <1>9, <1>10, <1>11, <1>12
<1>14. /\ last_success' <= now' /\ last_main_run' <= now'
       /\ \A q \in Proc : act'[q].start <= now'
  BY <1>2, <1>8, <1>9, <1>10 DEF StampInv
<1>15. ASSUME NEW q \in Proc, Live(q)'
       PROVE  /\ last_success' <= act'[q].start
              /\ last_main_run' <= act'[q].start
              /\ \A r \in Proc : act'[r].start <= act'[q].start
  <2>1. Live(q) /\ act'[q].start = act[q].start
    BY <1>7, <1>15
  <2>2. /\ last_success <= act[q].start /\ last_main_run <= act[q].start
        /\ \A r \in Proc : act[r].start <= act[q].start
    BY <2>1 DEF StampInv
  <2>3. \A r \in Proc : act'[r].start <= act'[q].start
    BY <1>5, <1>8, <2>1, <2>2
  <2>4. QED
    BY <1>9, <1>10, <2>1, <2>2, <2>3
<1>16. Judged(p) => /\ MarkSent(p).id = payout_plan.id /\ payout_plan # NoPlan
                    /\ MarkSent(p).sent =
                         payout_plan.sent \cup {NextIdx(payout_plan)}
                    /\ NextIdx(payout_plan) \notin payout_plan.sent
  BY MarkSentFields DEF Judged, MoneyInv, Pending
<1>17. Plans(p) => \A q \in Proc : Sending(q) => act[q].plan.id # NewPlan(p).id
  <2>1. \A q \in Proc : Sending(q) => /\ act[q].plan.id < payout_nonce
                                      /\ act[q].plan.id \in Nat
    <3>1. \A q \in Proc : Sending(q) => act[q].plan \in PlanSet
      BY DEF MoneyInv, SendingOK, Activations
    <3>2. QED
      BY <3>1 DEF MoneyInv, IdInv, OwnsId, PlanSet
  <2>2. Plans(p) => NewPlan(p).id = payout_nonce
    BY DEF Plans, GenerationMatches, NewPlan
  <2>3. QED
    BY <2>1, <2>2
<1>18. ASSUME NEW q \in Proc, Sending(q)', payout_plan' # NoPlan,
              act'[q].plan.id = payout_plan'.id
       PROVE  act'[q].plan.sent \subseteq payout_plan'.sent
  <2>1. CASE q = p
    BY <1>3, <1>18, <2>1 DEF Sends
  <2>2. CASE q # p
    <3>1. act'[q] = act[q] /\ Sending(q)
      BY <1>2, <1>18, <2>2 DEF Sending
    <3>2. CASE payout_plan' = payout_plan
      BY <1>18, <3>1, <3>2 DEF StampInv
    <3>3. CASE Marks(p)
      <4>1. /\ payout_plan # NoPlan /\ act[q].plan.id = payout_plan.id
            /\ payout_plan.sent \subseteq payout_plan'.sent
        BY <1>16, <1>18, <3>1, <3>3 DEF Marks
      <4>2. act[q].plan.sent \subseteq payout_plan.sent
        BY <3>1, <4>1 DEF StampInv
      <4>3. QED
        BY <3>1, <4>1, <4>2
    <3>4. CASE Plans(p)
      BY <1>17, <1>18, <3>1, <3>4 DEF Plans
    <3>5. QED
      BY <1>1, <1>18, <3>2, <3>3, <3>4 DEF Shape, KeepsPlan, ClearsIt, PaysOut
  <2>3. QED
    BY <2>1, <2>2
<1>19. ASSUME NEW q \in Proc, Sending(q)', act'[q].plan = payout_plan'
       PROVE  last_success' <= act'[q].start
  <2>1. CASE q = p
    <3>1. Sends(p)
      BY <1>3, <1>19, <2>1
    <3>2. last_success <= act[p].start /\ act'[p].start = act[p].start
      BY <3>1 DEF Sends, StampInv
    <3>3. QED
      BY <1>5, <1>9, <2>1, <3>2
  <2>2. CASE q # p
    <3>1. act'[q] = act[q] /\ Sending(q) /\ act[q].plan # NoPlan
      BY <1>2, <1>19, <2>2 DEF Sending, MoneyInv, SendingOK
    <3>2. CASE KeepsPlan(p)
      BY <1>19, <3>1, <3>2 DEF KeepsPlan, StampInv
    <3>3. CASE Marks(p)
      <4>1. act[q].plan = MarkSent(p) /\ Judged(p)
        BY <1>19, <3>1, <3>3 DEF Marks
      <4>2. act[q].plan.sent \subseteq payout_plan.sent
        BY <1>16, <3>1, <4>1 DEF StampInv
      <4>3. QED
        BY <1>16, <4>1, <4>2
    <3>4. CASE Plans(p)
      BY <1>17, <1>19, <3>1, <3>4 DEF Plans
    <3>5. QED
      BY <1>1, <1>19, <3>1, <3>2, <3>3, <3>4 DEF Shape, ClearsIt, PaysOut
  <2>3. QED
    BY <2>1, <2>2
<1>20. ASSUME NEW q \in Proc, act'[q].pc = "fee"
       PROVE  act'[q].plan = NoPlan
  <2>1. CASE q # p
    BY <1>2, <1>20, <2>1 DEF StampInv
  <2>2. CASE q = p
    BY <1>3, <1>4, <1>20, <2>2 DEF GoesOn, Sends
  <2>3. QED
    BY <2>1, <2>2
<1>21. StampInv'
  BY <1>14, <1>15, <1>18, <1>19, <1>20 DEF StampInv
<1>22. QED
  BY <1>13, <1>21

\* Every step keeps the times in order.
LEMMA StampNext ==
  ASSUME TypeOK, LeaseInv, MoneyInv, StampInv, [Next]_vars
  PROVE  StampInv'
<1> USE DEF TypeOK, LocalTypeOK, PersistedTypeOK
<1>0. \A q \in Proc : act[q].expiry \in Nat /\ act[q].start \in Nat
  BY DEF Activations
<1>1. CASE Tick \/ FeeChange \/ Deposit \/ Finalize \/ DropRequest
           \/ MainDeferred \/ ResumeBusy \/ Upgrade \/ UNCHANGED vars
  <2>1. UNCHANGED <<act, payout_plan, last_success, last_main_run>>
    BY <1>1 DEF Tick, FeeChange, Deposit, Finalize, DropRequest, MainDeferred,
       ResumeBusy, Upgrade, vars, persisted
  <2>2. now' \in Nat /\ now <= now'
    BY <1>1 DEF Tick, FeeChange, Deposit, Finalize, DropRequest, MainDeferred,
       ResumeBusy, Upgrade, vars
  <2>3. QED
    BY <2>1, <2>2, StampStutter
<1>2. ASSUME NEW p \in Proc, Answers(p)
      PROVE  StampInv'
  <2>1. UNCHANGED <<now, payout_plan, last_success, last_main_run>>
    BY <1>2 DEF Answers, persisted
  <2>2. \A q \in Proc : /\ act'[q].pc = act[q].pc
                        /\ act'[q].start = act[q].start
                        /\ act'[q].expiry = act[q].expiry
                        /\ act'[q].plan = act[q].plan
    BY <1>2 DEF Answers
  <2>3. now <= now
    OBVIOUS
  <2>4. QED
    BY <2>1, <2>2, <2>3, StampStutter
<1>3. CASE LedgerServe
  <2>1. Head(ledgerQ) \in Proc
    BY <1>3 DEF LedgerServe
  <2>2. QED
    BY <1>2, <1>3, <2>1, LedgerAnswers
<1>4. CASE GovServe
  <2>1. Head(govQ) \in Proc
    BY <1>4 DEF GovServe
  <2>2. QED
    BY <1>2, <1>4, <2>1, GovAnswers
<1>5. CASE \E p \in Proc : MainStart(p) \/ PokeStart(p)
  <2>1. PICK p \in Proc : Starts(p)
    BY <1>5, StartForm
  <2>2. /\ UNCHANGED <<now, payout_plan, last_success, last_main_run>>
        /\ \A q \in Proc : q # p => act'[q] = act[q]
        /\ act'[p].start = now /\ act'[p].pc \in {"claim", "neuron"}
    BY <2>1 DEF Starts
  <2>3. \A q \in Proc : ~Live(q)
    BY <1>0, <2>1 DEF Starts, LeaseInv, CanAcquire, Live
  <2>4. \A q \in Proc : Live(q)' => q = p
    BY <2>2, <2>3 DEF Live
  <2>5. \A q \in Proc : act'[q].start <= now'
    BY <2>2 DEF StampInv
  <2>6. \A q \in Proc : Sending(q)' => act'[q] = act[q] /\ Sending(q)
    BY <2>2 DEF Sending
  <2>7. \A q \in Proc : act'[q].pc = "fee" => act'[q].plan = NoPlan
    BY <2>2 DEF StampInv
  <2>8. last_success' <= now' /\ last_main_run' <= now'
    BY <2>2 DEF StampInv
  <2>9. QED
    BY <2>2, <2>4, <2>5, <2>6, <2>7, <2>8 DEF StampInv
<1>6. CASE \E p \in Proc : Callback(p)
  BY <1>6, StampCallback
<1>7. QED
  BY <1>1, <1>3, <1>4, <1>5, <1>6 DEF Next

\* The four invariants hold initially.
LEMMA InitFull == Init => FullInv
<1> SUFFICES ASSUME Init PROVE FullInv
  OBVIOUS
<1>1. IInv
  BY InitIInv
<1>2. /\ \A p \in Proc : act[p] = Idle
      /\ ledgerQ = <<>> /\ govQ = <<>> /\ disb = <<>> /\ staged = {}
      /\ payout_plan = NoPlan
  BY DEF Init
<1>3. Idle.pc = "idle" /\ Idle.start = 0
  BY DEF Idle
<1>4. \A p \in Proc : ~Live(p) /\ ~Sending(p) /\ act[p].start = 0
                      /\ act[p].pc # "fee"
  BY <1>2, <1>3 DEF Live, Sending
<1>5. \A i \in 1 .. Len(<<>>) : FALSE
  OBVIOUS
<1>6. QueueInv
  BY <1>2, <1>4, <1>5 DEF QueueInv, QueueOK
<1>7. FundInv
  BY <1>2, <1>4, <1>5 DEF FundInv, PlanFunded
<1>8. AgeInv
  <2>1. AgeSnapshot
    BY <1>2 DEF AgeSnapshot
  <2>2. QED
    BY <1>2, <1>4, <1>5, <2>1 DEF AgeInv
<1>9. StampInv
  <2>1. last_success = 0 /\ last_main_run = 0 /\ now = StartTime
    BY DEF Init
  <2>2. now \in Nat
    BY <2>1, TimeAssumption
  <2>3. QED
    BY <1>2, <1>4, <2>1, <2>2 DEF StampInv
<1>10. QED
  BY <1>1, <1>6, <1>7, <1>8, <1>9 DEF FullInv

LEMMA NextFull == FullInv /\ [Next]_vars => FullInv'
<1> SUFFICES ASSUME FullInv, [Next]_vars PROVE FullInv'
  OBVIOUS
<1>1. TypeOK /\ LeaseInv /\ MoneyInv /\ FeeInv
      /\ QueueInv /\ FundInv /\ AgeInv /\ StampInv
  BY DEF FullInv, IInv, MoneyInv, StampInv, FeeInv
<1>2. IInv'
  BY NextIInv DEF FullInv
<1>3. QED
  BY <1>1, <1>2, QueueNext, FundNext, AgeNext, StampNext DEF FullInv

\* What is under way to the ledger and Governance, the funds of the plan, the
\* age snapshot and the stored times stay consistent with each other.
THEOREM FullInvariance == Spec => []FullInv
  BY InitFull, NextFull, PTL DEF Spec

\* The staging account always covers what the stored plan still owes, however
\* leases expire, requests are dropped, replies are lost and deposits arrive.
THEOREM PlanIsFunded == Spec => []PlanFunded
<1>1. FullInv => PlanFunded
  BY DEF FullInv, FundInv
<1>2. QED
  BY <1>1, FullInvariance, PTL

\* One maturity disbursement at a time, and the persisted age is that of every
\* disbursement in flight or staged: no cycle is paid out with another's age.
THEOREM AgeIsSnapshot == Spec => []AgeSnapshot
<1>1. FullInv => AgeSnapshot
  BY DEF FullInv, AgeInv
<1>2. QED
  BY <1>1, FullInvariance, PTL

\* No step gives up a plan that is not paid or refused, and no late callback
\* moves a stored time backwards.
LEMMA StepAdvances ==
  ASSUME FullInv, [Next]_vars
  PROVE  /\ PlanStep
         /\ last_success' >= last_success /\ last_main_run' >= last_main_run
<1> USE DEF TypeOK, LocalTypeOK, PersistedTypeOK
<1>1. TypeOK /\ MoneyInv /\ FeeInv /\ StampInv
  BY DEF FullInv, IInv, MoneyInv, StampInv, FeeInv
<1>2. CASE UNCHANGED <<payout_plan, last_success, last_main_run>>
  BY <1>1, <1>2 DEF PlanStep
<1>3. CASE \E p \in Proc : Callback(p)
  <2>1. PICK p \in Proc : Callback(p)
    BY <1>3
  <2>2. /\ Shape(p)
        /\ last_success' >= last_success /\ last_main_run' >= last_main_run
    BY <1>1, <2>1, CallbackShape, StampCallback
  <2> SUFFICES PlanStep
    BY <2>2
  <2>3. Judged(p) =>
          /\ NextIdx(act[p].plan) \in Pending(payout_plan)
          /\ MarkSent(p).amt = payout_plan.amt
          /\ MarkSent(p).sent = payout_plan.sent \cup {NextIdx(act[p].plan)}
          /\ MarkSent(p) =
               [payout_plan EXCEPT !.sent = @ \cup {NextIdx(act[p].plan)}]
    BY <1>1, MarkSentFields DEF Judged, MoneyInv, MarkSent
  <2>4. CASE KeepsPlan(p)
    BY <2>4 DEF KeepsPlan, PlanStep
  <2>5. CASE ClearsIt(p)
    BY <2>5 DEF ClearsIt, PlanStep, Judged, Sending, Holder, Live
  <2>6. CASE Marks(p)
    BY <2>3, <2>6 DEF Marks, PlanStep
  <2>7. CASE PaysOut(p)
    <3>1. CASE payout_plan = NoPlan \/ Pending(payout_plan) = {}
      BY <2>7, <3>1 DEF PaysOut, PlanStep
    <3>2. CASE Judged(p) /\ Pending(MarkSent(p)) = {}
      <4>1. Pending(payout_plan) = {NextIdx(act[p].plan)}
        BY <2>3, <3>2 DEF Pending
      <4>2. Holder(p) /\ payout_plan' = NoPlan
        BY <2>7 DEF PaysOut, Holder, Live
      <4>3. QED
        BY <3>2, <4>1, <4>2 DEF PlanStep, Judged, Sending
    <3>3. QED
      BY <2>7, <3>1, <3>2 DEF PaysOut
  <2>8. CASE Plans(p)
    BY <2>8 DEF Plans, PlanStep
  <2>9. QED
    BY <2>2, <2>4, <2>5, <2>6, <2>7, <2>8 DEF Shape
<1>4. CASE Tick \/ FeeChange \/ Deposit \/ Finalize \/ LedgerServe
           \/ GovServe \/ DropRequest \/ MainDeferred \/ ResumeBusy \/ Upgrade
           \/ UNCHANGED vars
  <2>1. UNCHANGED <<payout_plan, last_success, last_main_run>>
    BY <1>4 DEF Tick, FeeChange, Deposit, Finalize, LedgerServe, GovServe,
       DropRequest, MainDeferred, ResumeBusy, Upgrade, vars, persisted
  <2>2. QED
    BY <1>2, <2>1
<1>5. CASE \E p \in Proc : MainStart(p) \/ PokeStart(p)
  <2>1. UNCHANGED <<payout_plan, last_success, last_main_run>>
    BY <1>5 DEF MainStart, PokeStart
  <2>2. QED
    BY <1>2, <2>1
<1>6. QED
  BY <1>3, <1>4, <1>5 DEF Next

\* A stored plan only advances, and the times from which the rescue policy
\* and the cadence are derived never move backwards, for any overlap of stale
\* and current activations.
THEOREM PlanAlwaysAdvances == Spec => PlanOnlyAdvances
<1>1. FullInv /\ [Next]_vars =>
        [/\ PlanStep
         /\ last_success' >= last_success /\ last_main_run' >= last_main_run]_vars
  BY StepAdvances
<1>2. QED
  BY <1>1, FullInvariance, PTL DEF Spec, PlanOnlyAdvances

-----------------------------------------------------------------------------
(* The timers of the two ticks (module DisburserTimers).  Their state is on  *)
(* the heap, apart from that of the payout above: the reservation discipline *)
(* of MainRetry for any number of refused ticks, retries, main runs, pokes   *)
(* and upgrades; the hints of PokeCoalescer for every interval and any       *)
(* number of hints; and that beside the scheduled ticks hints and deferred   *)
(* timers behave as PokeCoalescer says, and beside the hints the ticks as    *)
(* MainRetry says, so that what is proved of each alone holds of the two.    *)

(* The scheduled ticks and their retry (MainRetry).                         *)

\* Nothing is reserved at first.
LEMMA RetryInit == MarkerInit => MarkerInv
<1> SUFFICES ASSUME MarkerInit PROVE MarkerInv
  OBVIOUS
<1>1. /\ early \in BOOLEAN /\ armed \in BOOLEAN
      /\ waiting \in BOOLEAN /\ ~waiting
  BY Zenon DEF MarkerInit
<1>2. QED
  BY <1>1, BoundAssumption, NoRetryAssumption DEF MarkerInit, MarkerInv,
       MarkerTypeOK, Reserved, Markers, NoTimers

\* The types of the variables outside the reservation discipline.
LEMMA RetryTypeNext ==
  ASSUME MarkerInv, [MarkerNext]_(markerVars)
  PROVE  /\ holder' \in {"free", "main", "poke"}
         /\ early' \in BOOLEAN /\ armed' \in BOOLEAN /\ waiting' \in BOOLEAN
         /\ ticks' \in 0 .. MaxTicks
<1>1. /\ holder' \in {"free", "main", "poke"}
      /\ early' \in BOOLEAN /\ armed' \in BOOLEAN /\ waiting' \in BOOLEAN
  BY ZenonT(60) DEF MarkerInv, MarkerTypeOK, MarkerNext, markerVars,
       IntervalTick, RetryTick, ResumeTick,
       PokeTakes, PokeEnd, MainFinish,
       LeaseExpires, CadenceElapses, HeapReset,
       Admit, AdvanceMarker
<1>2. ticks' \in 0 .. MaxTicks
  BY BoundAssumption DEF MarkerInv, MarkerTypeOK, MarkerNext, markerVars,
       IntervalTick, RetryTick, ResumeTick,
       PokeTakes, PokeEnd, MainFinish,
       LeaseExpires, CadenceElapses, HeapReset
<1>3. QED
  BY <1>1, <1>2

\* What the marker, the reservation and the timers do in a step.
LEMMA ReservedNext ==
  ASSUME MarkerInv, [MarkerNext]_(markerVars)
  PROVE  /\ marker' \in Markers
         /\ pending' \in Markers \cup {NoRetry}
         /\ timers' \in [Markers -> Nat]
         /\ Reserved'
<1> USE BoundAssumption, NoRetryAssumption DEF MarkerInv, MarkerTypeOK,
     Reserved, Markers, NoTimers
<1>1. ASSUME AdvanceMarker, marker < MaxMarker,
             holder' = "main" => marker + 1 < MaxMarker,
             \/ UNCHANGED timers
             \/ \E r \in Markers : /\ timers[r] > 0
                                   /\ timers' = [timers EXCEPT ![r] = @ - 1]
      PROVE  /\ marker' \in Markers
             /\ pending' \in Markers \cup {NoRetry}
             /\ timers' \in [Markers -> Nat]
             /\ Reserved'
  <2>1. marker' = marker + 1 /\ pending' = NoRetry /\ ~waiting'
    BY <1>1 DEF AdvanceMarker
  <2>2. timers' \in [Markers -> Nat]
    BY <1>1
  <2>3. \A m \in Markers : m > marker => timers'[m] = 0
    BY <1>1
  <2>4. QED
    BY <1>1, <2>1, <2>2, <2>3
<1>2. CASE IntervalTick
  <2>1. CASE Refused /\ Reserve(timers) /\ UNCHANGED <<marker, holder>>
    BY <2>1 DEF Reserve
  <2>2. CASE Admit /\ UNCHANGED timers
    BY <1>1, <2>2 DEF Admit
  <2>3. QED
    BY <1>2, <2>1, <2>2 DEF IntervalTick
<1>3. CASE \E r \in Markers : RetryTick(r)
  <2>1. PICK r \in Markers : RetryTick(r)
    BY <1>3
  <2>2. timers[r] > 0
    BY <2>1 DEF RetryTick
  <2>3. CASE Owns(r) /\ RetryRefused(r) /\ UNCHANGED <<marker, holder>>
    <3>1. r = marker /\ pending = marker /\ pending' = marker
      BY <2>3 DEF Owns, RetryRefused
    <3>2. timers' = timers
      BY <2>3, <3>1 DEF RetryRefused
    <3>3. QED
      BY <2>3, <3>1, <3>2
  <2>4. CASE Admit /\ timers' = [timers EXCEPT ![r] = @ - 1]
    <3>1. AdvanceMarker /\ marker < MaxMarker /\ marker + 1 < MaxMarker
      BY <2>4 DEF Admit
    <3>2. \E m \in Markers : /\ timers[m] > 0
                             /\ timers' = [timers EXCEPT ![m] = @ - 1]
      BY <2>2, <2>4
    <3>3. QED
      BY <1>1, <3>1, <3>2
  <2>5. CASE /\ ~Owns(r) /\ timers' = [timers EXCEPT ![r] = @ - 1]
             /\ pending' = IF pending = r THEN NoRetry ELSE pending
             /\ UNCHANGED <<marker, holder, waiting>>
    <3>1. pending # r /\ r # marker
      BY <2>2, <2>5 DEF Owns
    <3>2. QED
      BY <2>2, <2>5, <3>1
  <2>6. QED
    BY <2>1, <2>3, <2>4, <2>5 DEF RetryTick
<1>4. CASE ResumeTick
  BY <1>1, <1>4 DEF ResumeTick, Admit
<1>5. CASE MainFinish
  BY <1>1, <1>5 DEF MainFinish
<1>6. CASE PokeTakes \/ PokeEnd \/ LeaseExpires \/ CadenceElapses
  BY <1>6 DEF PokeTakes, PokeEnd, LeaseExpires,
       CadenceElapses
<1>7. CASE HeapReset
  BY <1>7 DEF HeapReset
<1>8. CASE UNCHANGED markerVars
  BY <1>8 DEF markerVars
<1>9. QED
  BY <1>2, <1>3, <1>4, <1>5, <1>6, <1>7, <1>8 DEF MarkerNext

LEMMA RetryNext == MarkerInv /\ [MarkerNext]_(markerVars) => MarkerInv'
  BY RetryTypeNext, ReservedNext DEF MarkerInv, MarkerTypeOK, Markers

\* The inductive invariant holds in every reachable state.
THEOREM RetryInvariance == MarkerSpec => []MarkerInv
  BY RetryInit, RetryNext, PTL DEF MarkerSpec

\* At most one retry timer can start a main run.
THEOREM LiveRetryIsUnique == MarkerSpec => []OneLiveRetry
<1>1. MarkerInv => OneLiveRetry
  BY DEF MarkerInv, Reserved, OneLiveRetry
<1>2. QED
  BY <1>1, RetryInvariance, PTL

\* A refused tick keeps a live retry until a main run makes up for it.
THEOREM RefusedKeepsRetry == MarkerSpec => []RefusedHasRetry
<1>1. MarkerInv => RefusedHasRetry
  BY DEF MarkerInv, Reserved, RefusedHasRetry
<1>2. QED
  BY <1>1, RetryInvariance, PTL

-----------------------------------------------------------------------------
(* The hints (PokeCoalescer).                                               *)

\* Initially no hint is waiting.
LEMMA HintsInit == Hints!Init => Hints!IInv
<1> SUFFICES ASSUME Hints!Init PROVE Hints!IInv
  OBVIOUS
<1>1. ~hintPending /\ hintPending \in BOOLEAN
  BY Zenon DEF Hints!Init
<1>2. clock = 1 /\ due = 0 /\ allowed = 0 /\ hintTimers = 0 /\ lastHint = 0
      /\ lastTry = 0 /\ refused = 0
  BY DEF Hints!Init, Hints!NotDue
<1>3. QED
  BY <1>1, <1>2, IntervalAssumption DEF Hints!IInv, Hints!TypeOK,
       Hints!OneTimer, Hints!Waiting,
       Hints!TrailingAdmitted, Hints!NoStarvation,
       Hints!NotDue

\* The newest hint, the deadline and the gate stay related through every
\* order of hints, timer callbacks and upgrades.
LEMMA HintsNext ==
  Hints!IInv /\ [Hints!Next]_(Hints!vars)
    => Hints!IInv'
<1> SUFFICES ASSUME Hints!IInv, [Hints!Next]_(Hints!vars)
             PROVE  Hints!IInv'
  OBVIOUS
<1> USE IntervalAssumption DEF Hints!IInv, Hints!TypeOK,
     Hints!OneTimer, Hints!Waiting,
     Hints!TrailingAdmitted, Hints!NoStarvation,
     Hints!NotDue
<1>1. CASE Hints!Hint
  <2>1. CASE allowed > clock
    BY <1>1, <2>1 DEF Hints!Hint, Hints!AdmitAttempt,
         Hints!DueAfterHint
  <2>2. CASE ~(allowed > clock)
    BY <1>1, <2>2 DEF Hints!Hint, Hints!AdmitAttempt,
         Hints!DueAfterHint
  <2>3. QED
    BY <2>1, <2>2
<1>2. CASE Hints!DeferredTimer
  <2>1. CASE due > clock
    BY <1>2, <2>1 DEF Hints!DeferredTimer, Hints!runtime
  <2>2. CASE ~(due > clock)
    <3>1. due # Hints!NotDue /\ allowed <= clock
      BY <1>2, <2>2 DEF Hints!DeferredTimer
    <3>2. ~hintPending' /\ hintPending' \in BOOLEAN
      BY <1>2, <2>2, Zenon DEF Hints!DeferredTimer,
           Hints!PendingAfterFire
    <3>3. refused' = 0
      BY <1>2, <2>2, <3>1 DEF Hints!DeferredTimer
    <3>4. /\ due' = 0 /\ hintTimers' = hintTimers - 1 /\ lastTry' = clock
          /\ allowed' = clock + Interval /\ clock' = clock /\ lastHint' = lastHint
      BY <1>2, <2>2, <3>1 DEF Hints!DeferredTimer,
           Hints!AdmitAttempt
    <3>5. hintTimers > 0
      BY <1>2 DEF Hints!DeferredTimer
    <3>6. QED
      BY <3>2, <3>3, <3>4, <3>5
  <2>3. QED
    BY <2>1, <2>2
<1>3. CASE Hints!Tick
  BY <1>3 DEF Hints!Tick, Hints!runtime
<1>4. CASE Hints!Upgrade
  <2>1. ~hintPending' /\ hintPending' \in BOOLEAN
    BY <1>4, Zenon DEF Hints!Upgrade
  <2>2. /\ due' = 0 /\ allowed' = 0 /\ hintTimers' = 0 /\ lastHint' = 0
        /\ lastTry' = 0 /\ refused' = 0 /\ clock' = clock
    BY <1>4 DEF Hints!Upgrade
  <2>3. QED
    BY <2>1, <2>2
<1>5. CASE UNCHANGED Hints!vars
  BY <1>5 DEF Hints!vars, Hints!runtime
<1>6. QED
  BY <1>1, <1>2, <1>3, <1>4, <1>5 DEF Hints!Next

\* The inductive invariant of the hints holds in every reachable state.
THEOREM HintsInvariance == Hints!Spec => []Hints!IInv
  BY HintsInit, HintsNext, PTL DEF Hints!Spec

\* The trailing attempt passes admit_attempt, for every interval, hint pattern
\* and timer delay.
THEOREM TrailingIsAdmitted == Hints!Spec => []Hints!TrailingAdmitted
<1>1. Hints!IInv => Hints!TrailingAdmitted
  BY DEF Hints!IInv
<1>2. QED
  BY <1>1, HintsInvariance, PTL

\* Hints cannot starve the worker by postponing the trailing attempt.
THEOREM WorkerNotStarved == Hints!Spec => []Hints!NoStarvation
<1>1. Hints!IInv => Hints!NoStarvation
  BY DEF Hints!IInv
<1>2. QED
  BY <1>1, HintsInvariance, PTL

\* Attempts are at least Interval apart, over immediate and trailing ones.
THEOREM AttemptsAreSpaced == Hints!Spec => Hints!AttemptsSpaced
<1>1. Hints!IInv /\ [Hints!Next]_(Hints!vars)
        => [\/ lastTry' \in {0, lastTry} \/ lastTry = 0
            \/ lastTry' >= lastTry + Interval]_(Hints!vars)
  BY IntervalAssumption DEF Hints!IInv, Hints!TypeOK,
       Hints!Waiting, Hints!Next, Hints!vars,
       Hints!runtime, Hints!Hint, Hints!DeferredTimer,
       Hints!Tick, Hints!Upgrade, Hints!AdmitAttempt
<1>2. QED
  BY <1>1, HintsInvariance, PTL DEF Hints!Spec,
       Hints!AttemptsSpaced

-----------------------------------------------------------------------------
(* The two together.                                                        *)

\* Every step of the composition is a step of the coalescer or leaves it alone.
LEMMA StepOfHints ==
  [TimersNext]_<<markerVars, hintVars>>
    => [Hints!Next]_(Hints!vars)
<1> SUFFICES ASSUME [TimersNext]_<<markerVars, hintVars>>
             PROVE  Hints!Next \/ UNCHANGED Hints!vars
  OBVIOUS
<1>1. CASE \/ HintStep(Hints!Hint)
           \/ HintStep(Hints!DeferredTimer)
           \/ HintTick
           \/ Hints!Upgrade
  BY <1>1 DEF HintStep, HintTick, Hints!Next
<1>2. CASE UNCHANGED hintVars
  BY <1>2 DEF hintVars, Hints!vars, Hints!runtime
<1>3. QED
  BY <1>1, <1>2 DEF TimersNext, MainStep

\* However main runs, retries and hints compete for the lease, the trailing
\* attempt passes admit_attempt, for every interval and any number of ticks.
THEOREM TrailingIsAdmittedBesideTicks ==
  TimersSpec => []TrailingAdmitted
<1>1. TimersInit => Hints!Init
  BY DEF TimersInit
<1>2. Hints!TrailingAdmitted => TrailingAdmitted
  BY DEF TrailingAdmitted
<1>3. QED
  BY <1>1, <1>2, TrailingIsAdmitted, StepOfHints, PTL DEF TimersSpec,
       Hints!Spec

\* A hint that takes the lease does to the scheduled side what a poke does.
LEMMA StepOfTicks ==
  [TimersNext]_<<markerVars, hintVars>>
    => [MarkerNext]_(markerVars)
  BY DEF TimersNext, HintStep, Worker, HintTick,
       MainStep, MarkerNext, markerVars

\* No refused tick is lost, although hints keep taking the lease: it keeps its
\* retry until a main run makes up for it.
THEOREM RefusedKeepsRetryBesideHints ==
  TimersSpec => []RefusedHasRetry
<1>1. TimersInit => MarkerInit
  BY DEF TimersInit
<1>2. QED
  BY <1>1, StepOfTicks, RefusedKeepsRetry, PTL DEF TimersSpec,
       MarkerSpec
=============================================================================

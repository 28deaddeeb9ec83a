------------------------ MODULE FaucetPayoutProofs ------------------------
(* Theorems about the faucet's payout for every history, page size, fee,     *)
(* tranche, lease length and number of activations.                          *)
EXTENDS FaucetPayout, FiniteSetTheorems, NaturalsInduction, TLAPS

-----------------------------------------------------------------------------
(* The inductive invariant.                                                  *)

N == NItems

\* What the transfer request of a asks for, and the requests on their way.
Request(a) == Tx(a.job, a.pend)
InFlight(a) == a.pc = "transfer" /\ a.got = FALSE
Flights(S) == {Request(act[q]) : q \in {r \in S : InFlight(act[r])}}

\* All transfers that were executed or may yet be, and those that are not p's
\* own request.
Wild == blocks \cup late \cup Flights(Proc)
Others(p) == blocks \cup late \cup Flights(Proc \ {p})

\* What a transfer takes from the payout account in the end.
Net(tx) == IF tx \in refunded THEN 4 * Fee ELSE tx.amt + Fee
Total(V) == SumFunctionOnSet([tx \in V |-> Net(tx)], V)
OfJob(V, id) == {tx \in V : tx.job = id}

\* The pending transfer, the transfers made before it, and what is booked for
\* those.
Pending(j) == Tx(j.id, j.pending)
Waits(j) == j.pending # NoPending
IsAccepted(j) == Waits(j) /\ j.pending.phase = "accepted"
Rest(V, j) == IF Waits(j) THEN V \ {Pending(j)} ELSE V
Spent(j) == j.gross - (IF IsAccepted(j) THEN j.pending.share ELSE 0)

WeightUpTo(k) == SumFunctionOnSet(Weight, 1 .. k)

\* The denominator is that of the records scanned, and nothing is paid before
\* it is complete; the payout scan pays nobody beyond its cursor.
ScanOK(j, V) ==
  /\ j.pot = Pot
  /\ j.denomDone => j.denom = WeightUpTo(N)
  /\ ~j.denomDone => /\ j.denom = WeightUpTo(j.next) /\ j.gross = 0
                     /\ ~j.scanned /\ ~Waits(j)
                     /\ OfJob(V, j.id) = {}
  /\ j.scanned => j.denomDone /\ j.next = N
  /\ \A tx \in OfJob(V, j.id) : tx.item <= j.next /\ (tx.item = 0 => j.scanned)

\* The pending transfer is that of the cursor's record, or of the remainder;
\* it is the only one with its creation time, and the only one for its record
\* beside refunded ones.
PendingOK(j, V) ==
  Waits(j) =>
    /\ j.pending.share > Fee /\ j.pending.cat < j.cat
    /\ IsAccepted(j) => Pending(j) \in blocks /\ j.pending.share <= j.gross
    /\ \/ /\ j.pending.item = 0 /\ j.pending.kind = "remainder"
          /\ j.scanned /\ Committed(j) = Pot
       \/ /\ j.pending.item # 0 /\ j.pending.kind # "remainder"
          /\ ~j.scanned /\ j.pending.item = j.next
    /\ \A tx \in V : tx.cat = j.pending.cat => tx = Pending(j)
    /\ \A tx \in OfJob(V, j.id) :
         tx.item = j.pending.item => tx = Pending(j) \/ tx \in refunded

\* A second remainder is not due.
RemainderOK(j, V) ==
  ~Waits(j) /\ (\E tx \in OfJob(V, j.id) : tx.item = 0 /\ tx \notin refunded)
    => j.remSent \/ j.gross = Pot

\* closedJobs tranches were spent before.
MoneyOK(j, V, closedJobs) ==
  /\ Committed(j) <= Pot
  /\ ~j.scanned => Committed(j) * j.denom <= Pot * WeightUpTo(j.next)
  /\ Total(OfJob(Rest(V, j), j.id)) <= Spent(j)
  /\ Total(Rest(V, j)) <= Pot * closedJobs + Spent(j)

\* Creation times grow, by one for each transfer since n, when the newest
\* activation began.
TimesOK(j, V, n) ==
  /\ \A tx \in V : tx.cat < j.cat
  /\ ~j.denomDone => j.cat <= n
  /\ ~j.scanned => j.cat <= n + 2 * j.next
  /\ Waits(j) /\ j.pending.kind = "topup" => j.cat < n + 2 * j.next
  /\ j.scanned => j.cat <= n + 2 * N + 1

OutcomesOK(j, V) ==
  /\ \A i \in Items : j.outcome[i] = "paid" =>
       \E b \in blocks : b.job = j.id /\ b.item = i /\ (b.kind = "topup" => b \in minted)
  /\ \A i \in Items : j.outcome[i] = "failed" /\ ~BeingPaid(j, i) =>
       \A tx \in OfJob(V, j.id) :
         tx.item = i => tx.kind = "topup" /\ tx \in refunded \cup rejected

PassedOK(j) ==
  j.denomDone => \A i \in 1 .. j.next :
    Share(j, i) > Fee => j.outcome[i] # "none" \/ BeingPaid(j, i)

JobOK(j, V, closedJobs, n) ==
  /\ j \in Jobs
  /\ ScanOK(j, V) /\ PendingOK(j, V) /\ RemainderOK(j, V)
  /\ MoneyOK(j, V, closedJobs) /\ TimesOK(j, V, n)
  /\ OutcomesOK(j, V) /\ PassedOK(j)

ClosedOK(k, V, nonce) ==
  /\ closed[k] \in Jobs /\ closed[k].id < nonce /\ closed[k].tranche = k
  /\ closed[k].pot = Pot /\ closed[k].gross <= Pot /\ ~Waits(closed[k])
  /\ Total(OfJob(V, closed[k].id)) <= closed[k].gross
  /\ OutcomesOK(closed[k], V)
  /\ \A i \in Items : Share(closed[k], i) > Fee => closed[k].outcome[i] # "none"

\* The canister state s beside the transfers V.
Stores == [lock : Nat, nonce : Nat, processed : Nat, job : Jobs \cup {NoJob},
           dispatch : Dispatches \cup {NoDispatch}, forced : {"none"}]

JobBase(s, V, n) ==
  /\ JobOK(s.job, V, Len(closed), n)
  /\ s.job.id < s.nonce /\ s.job.tranche = Len(closed) + 1
  /\ s.job.tranche <= funded
  /\ \A k \in 1 .. Len(closed) : closed[k].id < s.job.id

BaseOK(s, V, n) ==
  /\ s \in Stores
  /\ s.lock \in {Unlocked, LeaseExpiry(n, Lease)}
  /\ s.processed = Len(closed)
  /\ s.dispatch # NoDispatch => s.dispatch.pending.phase = "awaiting"
  /\ s.job = NoJob => Total(V) <= Pot * Len(closed)
  /\ s.job # NoJob => JobBase(s, V, n)
  /\ \A k \in 1 .. Len(closed) : ClosedOK(k, V, s.nonce)
  /\ \A tx \in V : tx.job < s.nonce

\* What may have been dispatched is recorded.
DispatchOK(s) == s.job # NoJob /\ Waits(s.job) => MayHaveDispatched(s)

StoreOK(s, V, n) == BaseOK(s, V, n) /\ DispatchOK(s)

\* A creation time belongs to one transfer, and a record of a job to one that
\* was not refunded.
WildOK(V, n) ==
  /\ V \in SUBSET Txs /\ IsFiniteSet(V)
  /\ \A tx \in V : tx.cat <= n + 2 * N
  /\ \A tx, u \in V : tx.cat = u.cat => tx = u
  /\ \A tx, u \in V : tx.job = u.job /\ tx.item = u.item =>
       tx = u \/ tx \in refunded \/ u \in refunded

CmcOK ==
  /\ minted \subseteq blocks /\ refunded \subseteq blocks /\ rejected \subseteq blocks
  /\ \A b \in refunded : b.kind = "topup" /\ Credit(b.amt) > 0 /\ b \notin minted
  /\ \A b \in rejected : b.kind = "topup" /\ b \notin minted

LedgerOK ==
  /\ funded \in Nat /\ balance \in Nat /\ Len(closed) <= funded
  /\ Pot * funded <= balance + Total(blocks)

ClockOK ==
  /\ now \in Nat /\ lastStart \in Nat
  /\ lastStart = now \/ lastStart + Stride <= now

\* What holds of activation a whether or not its lease is current.
OwnOK(a, n) ==
  /\ a.pc # "idle" => a.start <= n /\ a.expiry = LeaseExpiry(a.start, Lease)
  /\ a.pc = "discover" => a.got = FALSE
  /\ a.pc = "claim" => a.pend # NoPending
  /\ a.pc = "transfer" =>
       /\ a.pend # NoPending /\ a.attempt \in {1, 2}
       /\ a.got => /\ a.verdict \in {"accepted", "unusable", "refused", "unavailable"}
                   /\ a.verdict \in {"accepted", "unusable"} => Request(a) \in blocks
  /\ a.pc = "notify" =>
       /\ a.pend # NoPending /\ a.attempt \in {1, 2}
       /\ a.pend.kind = "topup" /\ Request(a) \in blocks
       /\ a.terminal => Request(a) \in rejected
       /\ a.got => /\ a.verdict \in {"minted", "refund", "terminal", "transient"}
                   /\ a.verdict = "minted" => Request(a) \in minted
                   /\ a.verdict = "refund" => Request(a) \in refunded
                   /\ a.verdict = "terminal" => Request(a) \in rejected

\* Where the driver returns to when the pending transfer is done.
PlaceOK(a, j) ==
  /\ a.mode \in {"top", "page", "remainder"}
  /\ a.mode = "page" => /\ a.pos = j.next /\ a.cursor = j.next /\ a.pos <= a.end /\ ~j.scanned
  /\ a.mode = "remainder" => j.scanned

\* What the holder of the lease knows of the store s, V being the transfers
\* that are not its own request.
HolderOK(a, s, V, n) ==
  /\ a.pc \in {"balance", "discover", "reread"} =>
       s.job = NoJob /\ \A tx \in V : tx.cat < n
  /\ a.pc = "reread" => /\ s.processed < funded
                        /\ a.got => Pot <= a.bal
  /\ a.pc \in {"index", "subaccount", "status"} =>
       s.job # NoJob /\ ~Waits(s.job)
  /\ a.pc = "index" => a.mode \in {"denom", "page"}
  /\ a.pc = "status" => s.job.scanned
  /\ a.pc = "subaccount" =>
       /\ a.mode = "page" /\ s.job.denomDone /\ a.cursor = s.job.next
       /\ a.cursor < a.pos /\ a.pos <= a.end /\ Share(s.job, a.pos) > Fee
       /\ Kind[a.pos] = "stake"
       /\ \A i \in a.cursor + 1 .. a.pos - 1 :
            Share(s.job, i) > Fee => s.job.outcome[i] # "none"
  /\ a.pc \in {"transfer", "notify", "claim"} /\ s.job # NoJob
     /\ s.job.id = a.job /\ s.job.pending = a.pend /\ a.pend # NoPending =>
       /\ PlaceOK(a, s.job)
       /\ a.pc = "transfer" =>
            /\ a.pend.phase = "awaiting"
            /\ a.mode = "top" /\ a.pend.item = 0 => a.prior
            /\ ~a.prior /\ (a.got => a.verdict \notin {"accepted", "unusable"})
                 => Request(a) \notin V
       /\ a.pc = "notify" => a.pend.phase = "accepted"
       /\ a.pc = "claim" => a.pend.phase = "accepted" /\ a.pend.kind = "stake"

Holds(p) == act[p].pc # "idle" /\ Current(p)

IInv ==
  /\ round \in Rounds /\ act \in [Proc -> Activations] /\ late \subseteq Txs
  /\ blocks \subseteq Txs /\ closed \in Seq(Jobs)
  /\ ClockOK /\ LedgerOK /\ CmcOK
  /\ WildOK(Wild, lastStart) /\ StoreOK(st, Wild, lastStart)
  /\ \A p \in Proc : OwnOK(act[p], lastStart)
  /\ \A p, q \in Proc : p # q /\ act[p].pc # "idle" /\ act[q].pc # "idle" =>
       act[p].start # act[q].start
  /\ \A p \in Proc : Holds(p) => HolderOK(act[p], st, Others(p), lastStart)
-----------------------------------------------------------------------------
(* Least elements, and sums over finite sets.  Induction is by a least or a   *)
(* smallest counterexample.                                                  *)

Pick(s) == CHOOSE x \in s : TRUE

\* g adds up f over every set of D.
Adds(f, D, g) ==
  g = [s \in D |-> IF s = {} THEN 0 ELSE f[Pick(s)] + g[s \ {Pick(s)}]]

UpTo(S, n) == {s \in SUBSET S : Cardinality(s) <= n}

\* The order of the natural numbers, as a relation.
Less == {x \in Nat \X Nat : x[1] < x[2]}

LEMMA LeastExists ==
  ASSUME NEW S \in SUBSET Nat, S # {}
  PROVE  \E x \in S : \A y \in S : x <= y
<1>1. OpToRel(<, Nat) = Less
  BY DEF OpToRel, Less
<1>2. IsWellFoundedOn(Less, Nat)
  BY <1>1, NatLessThanWellFounded
<1>3. PICK x \in S : \A y \in S : ~(<<y, x>> \in Less)
  BY <1>2, WFMin
<1>4. \A y \in S : x <= y
  <2> TAKE y \in S
  <2>1. x \in Nat /\ y \in Nat /\ ~(y < x)
    BY <1>3 DEF Less
  <2> QED
    BY <2>1
<1> QED
  BY <1>4

LEMMA PickIn == \A s : s # {} => Pick(s) \in s
  BY DEF Pick

LEMMA AddsExists ==
  ASSUME NEW f, NEW S, IsFiniteSet(S)
  PROVE  \E g : Adds(f, SUBSET S, g)
<1> DEFINE Good(n) == \E g : Adds(f, UpTo(S, n), g)
           Bad == {n \in Nat : ~Good(n)}
<1>1. \A s \in SUBSET S : /\ IsFiniteSet(s) /\ Cardinality(s) \in Nat
                          /\ Cardinality(s) <= Cardinality(S)
  BY FS_CardinalityType, FS_Subset
<1>2. \A s \in SUBSET S : s # {} => Cardinality(s \ {Pick(s)}) = Cardinality(s) - 1
  BY <1>1, PickIn, FS_RemoveElement
<1>3. \A s \in SUBSET S : Cardinality(s) = 0 <=> s = {}
  BY <1>1, FS_EmptySet
<1>4. Good(0)
  <2> DEFINE g == [s \in UpTo(S, 0) |-> 0]
  <2>1. \A s \in UpTo(S, 0) : s = {}
    BY <1>1, <1>3 DEF UpTo
  <2>2. g = [s \in UpTo(S, 0) |-> IF s = {} THEN 0 ELSE f[Pick(s)] + g[s \ {Pick(s)}]]
    BY <2>1
  <2> QED
    BY <2>2, Zenon DEF Adds
<1>5. ASSUME NEW n \in Nat, Good(n) PROVE Good(n + 1)
  <2>1. PICK g : Adds(f, UpTo(S, n), g)
    BY <1>5
  <2> DEFINE h == [s \in UpTo(S, n + 1) |->
                     IF s = {} THEN 0 ELSE f[Pick(s)] + g[s \ {Pick(s)}]]
  <2>2. \A s \in UpTo(S, n + 1) : s # {} => s \ {Pick(s)} \in UpTo(S, n)
    BY <1>1, <1>2 DEF UpTo
  <2>3. UpTo(S, n) \subseteq UpTo(S, n + 1)
    BY <1>1 DEF UpTo
  <2>4. \A s \in UpTo(S, n) : g[s] = IF s = {} THEN 0 ELSE f[Pick(s)] + g[s \ {Pick(s)}]
    <3>1. g = [s \in UpTo(S, n) |-> IF s = {} THEN 0 ELSE f[Pick(s)] + g[s \ {Pick(s)}]]
      BY <2>1 DEF Adds
    <3> DEFINE k == [s \in UpTo(S, n) |-> IF s = {} THEN 0 ELSE f[Pick(s)] + g[s \ {Pick(s)}]]
    <3>2. g = k
      BY <3>1
    <3>3. \A s \in UpTo(S, n) : k[s] = IF s = {} THEN 0 ELSE f[Pick(s)] + g[s \ {Pick(s)}]
      OBVIOUS
    <3> QED
      BY <3>2, <3>3, Zenon
  <2>5. \A s \in UpTo(S, n) : h[s] = g[s]
    BY <2>3, <2>4
  <2>6. \A s \in UpTo(S, n + 1) : s # {} => h[s \ {Pick(s)}] = g[s \ {Pick(s)}]
    BY <2>2, <2>5
  <2>7. h = [s \in UpTo(S, n + 1) |-> IF s = {} THEN 0 ELSE f[Pick(s)] + h[s \ {Pick(s)}]]
    BY <2>6
  <2> QED
    BY <2>7, Zenon DEF Adds
<1>6. Bad = {}
  <2> SUFFICES ASSUME Bad # {} PROVE FALSE
    OBVIOUS
  <2>1. PICK n \in Bad : \A m \in Bad : n <= m
    BY LeastExists
  <2>2. n \in Nat /\ n # 0 /\ ~Good(n)
    BY <1>4, <2>1
  <2>3. n - 1 \in Nat /\ ~(n <= n - 1)
    BY <2>2
  <2> HIDE DEF Good
  <2>4. Good(n - 1)
    BY <2>1, <2>3
  <2>5. (n - 1) + 1 = n
    BY <2>2
  <2> QED
    BY <1>5, <2>2, <2>3, <2>4, <2>5
<1>7. Cardinality(S) \in Nat /\ UpTo(S, Cardinality(S)) = SUBSET S
  BY <1>1 DEF UpTo
<1>8. Good(Cardinality(S))
  BY <1>6, <1>7
<1> QED
  BY <1>7, <1>8

\* What Adds says of each set.
LEMMA AddsEach ==
  ASSUME NEW f, NEW D, NEW g, Adds(f, D, g)
  PROVE  \A s \in D : g[s] = IF s = {} THEN 0 ELSE f[Pick(s)] + g[s \ {Pick(s)}]
<1> DEFINE k == [t \in D |-> IF t = {} THEN 0 ELSE f[Pick(t)] + g[t \ {Pick(t)}]]
<1>1. g = k
  BY DEF Adds
<1>2. \A s \in D : k[s] = IF s = {} THEN 0 ELSE f[Pick(s)] + g[s \ {Pick(s)}]
  OBVIOUS
<1> QED
  BY <1>1, <1>2, Zenon

LEMMA SumUnfold ==
  ASSUME NEW f, NEW S, IsFiniteSet(S)
  PROVE  \E h : Adds(f, SUBSET S, h) /\ SumFunctionOnSet(f, S) = h[S]
<1> DEFINE iter == CHOOSE h : h = [s \in SUBSET S |-> IF s = {} THEN 0
                      ELSE LET x == CHOOSE x \in s : TRUE IN f[x] + h[s \ {x}]]
<1>1. SumFunctionOnSet(f, S) = iter[S]
  BY Zenon DEF SumFunctionOnSet, FoldFunctionOnSet, MapThenFoldSet
<1>2. \E h : h = [s \in SUBSET S |-> IF s = {} THEN 0
                      ELSE LET x == CHOOSE x \in s : TRUE IN f[x] + h[s \ {x}]]
  <2>1. \E h : Adds(f, SUBSET S, h)
    BY AddsExists
  <2> QED
    BY <2>1, Zenon DEF Adds, Pick
<1>3. iter = [s \in SUBSET S |-> IF s = {} THEN 0
                      ELSE LET x == CHOOSE x \in s : TRUE IN f[x] + iter[s \ {x}]]
  BY <1>2, Zenon
<1>4. Adds(f, SUBSET S, iter)
  BY <1>3, Zenon DEF Adds, Pick
<1> QED
  BY <1>1, <1>4, Zenon

Agree(e, f, T) == \A x \in T : e[x] = f[x]

\* Every function that adds up f over the subsets of S has the sums as values;
\* values of f on S that agree give the same sums.
LEMMA AddsUnique ==
  ASSUME NEW e, NEW f, NEW S, NEW T, NEW g, NEW h, IsFiniteSet(S), T \subseteq S,
         Adds(e, SUBSET S, g), Adds(f, SUBSET T, h), Agree(e, f, T)
  PROVE  \A U \in SUBSET T : g[U] = h[U]
<1> DEFINE Bad == {U \in SUBSET T : g[U] # h[U]}
<1>1. SUFFICES ASSUME Bad # {} PROVE FALSE
  OBVIOUS
<1>0. IsFiniteSet(T)
  BY FS_Subset
<1>2. IsWellFoundedOn(StrictSubsetOrdering(T), SUBSET T)
  BY <1>0, FS_StrictSubsetOrderingWellFounded, FS_FiniteSubsetsOfFinite
<1>3. Bad \subseteq SUBSET T
  OBVIOUS
<1> HIDE DEF Bad
<1>4. PICK U \in Bad : \A V \in Bad : ~(<<V, U>> \in StrictSubsetOrdering(T))
  BY <1>1, <1>2, <1>3, WFMin
<1>5. U \in SUBSET T /\ U \in SUBSET S /\ g[U] # h[U]
  BY <1>4 DEF Bad
<1>6. /\ g[U] = IF U = {} THEN 0 ELSE e[Pick(U)] + g[U \ {Pick(U)}]
      /\ h[U] = IF U = {} THEN 0 ELSE f[Pick(U)] + h[U \ {Pick(U)}]
  <2> DEFINE D == SUBSET S
             E == SUBSET T
  <2>0. Adds(e, D, g) /\ Adds(f, E, h)
    OBVIOUS
  <2> HIDE DEF D, E
  <2>1. \A s \in D : g[s] = IF s = {} THEN 0 ELSE e[Pick(s)] + g[s \ {Pick(s)}]
    BY ONLY <2>0, AddsEach
  <2>2. \A s \in E : h[s] = IF s = {} THEN 0 ELSE f[Pick(s)] + h[s \ {Pick(s)}]
    BY ONLY <2>0, AddsEach
  <2>3. U \in D /\ U \in E
    BY <1>5 DEF D, E
  <2> QED
    BY <2>1, <2>2, <2>3
<1>7. U # {}
  BY <1>5, <1>6
<1> DEFINE V == U \ {Pick(U)}
<1>8. Pick(U) \in U /\ V \in SUBSET T /\ V # U /\ V \subseteq U
  BY <1>5, <1>7, PickIn
<1>9. <<V, U>> \in StrictSubsetOrdering(T)
  BY <1>5, <1>8 DEF StrictSubsetOrdering
<1>10. g[V] = h[V]
  BY <1>4, <1>8, <1>9 DEF Bad
<1>11. e[Pick(U)] = f[Pick(U)]
  BY <1>5, <1>8 DEF Agree
<1> QED
  BY <1>5, <1>6, <1>7, <1>10, <1>11

LEMMA SumEmpty == \A f : SumFunctionOnSet(f, {}) = 0
<1> TAKE f
<1>1. IsFiniteSet({})
  BY FS_EmptySet
<1>2. PICK h : Adds(f, SUBSET {}, h) /\ SumFunctionOnSet(f, {}) = h[{}]
  BY <1>1, SumUnfold
<1> QED
  BY <1>2, AddsEach

LEMMA SumSame ==
  ASSUME NEW e, NEW f, NEW S, IsFiniteSet(S), \A x \in S : e[x] = f[x]
  PROVE  SumFunctionOnSet(e, S) = SumFunctionOnSet(f, S)
<1>1. PICK g : Adds(e, SUBSET S, g) /\ SumFunctionOnSet(e, S) = g[S]
  BY SumUnfold
<1>2. PICK h : Adds(f, SUBSET S, h) /\ SumFunctionOnSet(f, S) = h[S]
  BY SumUnfold
<1>3. S \subseteq S /\ S \in SUBSET S /\ Agree(e, f, S)
  BY DEF Agree
<1> QED
  BY <1>1, <1>2, <1>3, AddsUnique

\* The sums over all subsets of S, and how they go together.
LEMMA SumSteps ==
  ASSUME NEW f, NEW S, IsFiniteSet(S), NEW T \in SUBSET S, T # {}
  PROVE  SumFunctionOnSet(f, T)
           = f[Pick(T)] + SumFunctionOnSet(f, T \ {Pick(T)})
<1>1. IsFiniteSet(T) /\ IsFiniteSet(T \ {Pick(T)})
  BY FS_Subset
<1>2. PICK g : Adds(f, SUBSET T, g) /\ SumFunctionOnSet(f, T) = g[T]
  BY <1>1, SumUnfold
<1> DEFINE V == T \ {Pick(T)}
<1>3. PICK h : Adds(f, SUBSET V, h) /\ SumFunctionOnSet(f, V) = h[V]
  BY <1>1, SumUnfold
<1>4. g[T] = f[Pick(T)] + g[V]
  BY <1>2, AddsEach
<1>5. V \subseteq T /\ V \in SUBSET V
  OBVIOUS
<1>6. g[V] = h[V]
  <2>1. Agree(f, f, V)
    BY DEF Agree
  <2> HIDE DEF V
  <2>2. V \subseteq T /\ IsFiniteSet(T) /\ Adds(f, SUBSET T, g) /\ Adds(f, SUBSET V, h)
    BY <1>1, <1>2, <1>3, <1>5
  <2>3. \A W \in SUBSET V : g[W] = h[W]
    BY <2>1, <2>2, AddsUnique
  <2> QED
    BY <1>5, <2>3
<1> QED
  BY <1>2, <1>3, <1>4, <1>6

\* A sum of integers does not depend on the order of its terms.
LEMMA SumRemove ==
  ASSUME NEW f, NEW S, IsFiniteSet(S), \A x \in S : f[x] \in Int
  PROVE  \A T \in SUBSET S : /\ SumFunctionOnSet(f, T) \in Int
                             /\ \A x \in T : SumFunctionOnSet(f, T)
                                   = f[x] + SumFunctionOnSet(f, T \ {x})
<1> DEFINE Sum(T) == SumFunctionOnSet(f, T)
           Good(T) == Sum(T) \in Int /\ \A x \in T : Sum(T) = f[x] + Sum(T \ {x})
           Bad == {T \in SUBSET S : ~Good(T)}
<1>1. SUFFICES ASSUME Bad # {} PROVE FALSE
  OBVIOUS
<1>2. IsWellFoundedOn(StrictSubsetOrdering(S), SUBSET S)
  BY FS_StrictSubsetOrderingWellFounded, FS_FiniteSubsetsOfFinite
<1>3. Bad \subseteq SUBSET S
  OBVIOUS
<1> HIDE DEF Bad
<1>4. PICK T \in Bad : \A V \in Bad : ~(<<V, T>> \in StrictSubsetOrdering(S))
  BY <1>1, <1>2, <1>3, WFMin
<1>5. T \in SUBSET S /\ ~Good(T)
  BY <1>4 DEF Bad
<1>6. \A V \in SUBSET S : V \subseteq T /\ V # T => Good(V)
  BY <1>4, <1>5 DEF Bad, StrictSubsetOrdering
<1>7. T # {}
  BY <1>5, SumEmpty
<1> DEFINE y == Pick(T)
<1>8. y \in T /\ y \in S /\ f[y] \in Int
  BY <1>5, <1>7, PickIn
<1>9. Sum(T) = f[y] + Sum(T \ {y})
  BY <1>5, <1>7, SumSteps
<1>10. Good(T \ {y})
  BY <1>5, <1>6, <1>8
<1>11. Sum(T) \in Int
  BY <1>8, <1>9, <1>10
<1>12. PICK x \in T : Sum(T) # f[x] + Sum(T \ {x})
  BY <1>5, <1>11
<1>13. x # y /\ f[x] \in Int
  BY <1>5, <1>9, <1>12
<1>14. x \in T \ {y} /\ y \in T \ {x}
  BY <1>8, <1>12, <1>13
<1>15. Good(T \ {x})
  BY <1>5, <1>6, <1>12
<1>16. (T \ {y}) \ {x} = (T \ {x}) \ {y}
  OBVIOUS
<1>17. Good((T \ {x}) \ {y})
  BY <1>5, <1>6, <1>12
<1> DEFINE V == (T \ {x}) \ {y}
<1>18. Sum(T \ {y}) = f[x] + Sum(V)
  BY <1>10, <1>14, <1>16
<1>19. Sum(T \ {x}) = f[y] + Sum(V)
  BY <1>15, <1>14
<1>20. Sum(V) \in Int
  BY <1>17
<1> HIDE DEF Sum, V, y
<1> QED
  BY <1>8, <1>9, <1>12, <1>13, <1>18, <1>19, <1>20

LEMMA SumAdd ==
  ASSUME NEW f, NEW S, IsFiniteSet(S), NEW x, x \notin S,
         \A z \in S \cup {x} : f[z] \in Int
  PROVE  /\ SumFunctionOnSet(f, S) \in Int
         /\ SumFunctionOnSet(f, S \cup {x}) = SumFunctionOnSet(f, S) + f[x]
<1> DEFINE U == S \cup {x}
<1>1. IsFiniteSet(U)
  BY FS_AddElement
<1>2. U \ {x} = S /\ S \in SUBSET U /\ U \in SUBSET U /\ x \in U
  OBVIOUS
<1>3. SumFunctionOnSet(f, U) = f[x] + SumFunctionOnSet(f, U \ {x})
  BY <1>1, <1>2, SumRemove
<1>4. SumFunctionOnSet(f, S) \in Int
  BY <1>1, <1>2, SumRemove
<1>5. f[x] \in Int
  OBVIOUS
<1> HIDE DEF U
<1>6. SumFunctionOnSet(f, U) = f[x] + SumFunctionOnSet(f, S)
  BY <1>2, <1>3
<1>7. SumFunctionOnSet(f, U) = SumFunctionOnSet(f, S) + f[x]
  BY <1>4, <1>5, <1>6
<1> QED
  BY <1>4, <1>7 DEF U
\* A sum of natural numbers is one, and smaller over fewer terms.
LEMMA SumSubset ==
  ASSUME NEW f, NEW S, IsFiniteSet(S), \A x \in S : f[x] \in Nat,
         NEW T \in SUBSET S
  PROVE  SumFunctionOnSet(f, T) <= SumFunctionOnSet(f, S)
<1> DEFINE Bad == {U \in SUBSET S : T \subseteq U /\
                     ~(SumFunctionOnSet(f, T) <= SumFunctionOnSet(f, U))}
<1>1. SUFFICES ASSUME Bad # {} PROVE FALSE
  OBVIOUS
<1>2. IsWellFoundedOn(StrictSubsetOrdering(S), SUBSET S)
  BY FS_StrictSubsetOrderingWellFounded, FS_FiniteSubsetsOfFinite
<1>3. Bad \subseteq SUBSET S
  OBVIOUS
<1> HIDE DEF Bad
<1>4. PICK U \in Bad : \A V \in Bad : ~(<<V, U>> \in StrictSubsetOrdering(S))
  BY <1>1, <1>2, <1>3, WFMin
<1>5. U \in SUBSET S /\ T \subseteq U /\ ~(SumFunctionOnSet(f, T) <= SumFunctionOnSet(f, U))
  BY <1>4 DEF Bad
<1>6. \A x \in S : f[x] \in Int
  OBVIOUS
<1>7. SumFunctionOnSet(f, T) \in Int /\ SumFunctionOnSet(f, U) \in Int
  BY <1>5, <1>6, SumRemove
<1>8. U # T
  BY <1>5, <1>7
<1>9. PICK x \in U : x \notin T
  BY <1>5, <1>8
<1> DEFINE V == U \ {x}
<1>10. V \in SUBSET S /\ T \subseteq V /\ V \subseteq U /\ V # U
  BY <1>5, <1>9
<1>11. SumFunctionOnSet(f, U) = f[x] + SumFunctionOnSet(f, V)
  BY <1>5, <1>6, <1>9, SumRemove
<1>12. SumFunctionOnSet(f, V) \in Int
  BY <1>6, <1>10, SumRemove
<1>13. SumFunctionOnSet(f, T) <= SumFunctionOnSet(f, V)
  BY <1>4, <1>5, <1>10 DEF Bad, StrictSubsetOrdering
<1>14. f[x] \in Nat
  BY <1>5, <1>9
<1> HIDE DEF V
<1> QED
  BY <1>5, <1>7, <1>11, <1>12, <1>13, <1>14

LEMMA SumIsNat ==
  ASSUME NEW f, NEW S, IsFiniteSet(S), \A x \in S : f[x] \in Nat
  PROVE  SumFunctionOnSet(f, S) \in Nat
<1>1. {} \in SUBSET S /\ S \in SUBSET S
  OBVIOUS
<1>2. SumFunctionOnSet(f, {}) <= SumFunctionOnSet(f, S)
  BY <1>1, SumSubset
<1>3. SumFunctionOnSet(f, {}) = 0
  BY SumEmpty
<1>4. \A x \in S : f[x] \in Int
  OBVIOUS
<1>5. SumFunctionOnSet(f, S) \in Int
  BY <1>1, <1>4, SumRemove
<1> QED
  BY <1>2, <1>3, <1>5

\* A sum over two sets that have no element in common.
LEMMA SumDisjoint ==
  ASSUME NEW f, NEW S, IsFiniteSet(S), \A x \in S : f[x] \in Int,
         NEW T \in SUBSET S, NEW U \in SUBSET S, T \cap U = {}
  PROVE  SumFunctionOnSet(f, T \cup U)
           = SumFunctionOnSet(f, T) + SumFunctionOnSet(f, U)
<1> DEFINE Sum(V) == SumFunctionOnSet(f, V)
           Good(V) == Sum(T \cup V) = Sum(T) + Sum(V)
           Bad == {V \in SUBSET U : ~Good(V)}
<1>1. SUFFICES ASSUME Bad # {} PROVE FALSE
  OBVIOUS
<1>0. IsFiniteSet(U)
  BY FS_Subset
<1>2. IsWellFoundedOn(StrictSubsetOrdering(U), SUBSET U)
  BY <1>0, FS_StrictSubsetOrderingWellFounded, FS_FiniteSubsetsOfFinite
<1>3. Bad \subseteq SUBSET U
  OBVIOUS
<1> HIDE DEF Bad
<1>4. PICK V \in Bad : \A W \in Bad : ~(<<W, V>> \in StrictSubsetOrdering(U))
  BY <1>1, <1>2, <1>3, WFMin
<1>5. V \in SUBSET U /\ ~Good(V)
  BY <1>4 DEF Bad
<1>6. \A W \in SUBSET S : Sum(W) \in Int /\ \A x \in W : Sum(W) = f[x] + Sum(W \ {x})
  BY SumRemove
<1>7. V # {}
  <2>1. SUFFICES ASSUME V = {} PROVE Good(V)
    BY <1>5
  <2>2. T \cup V = T /\ Sum(V) = 0
    BY <2>1, SumEmpty
  <2>3. Sum(T) \in Int /\ Sum(T \cup V) = Sum(T)
    BY <1>6, <2>2
  <2> HIDE DEF Sum
  <2> QED
    BY <2>2, <2>3
<1>8. PICK x \in V : TRUE
  BY <1>7
<1> DEFINE W == V \ {x}
<1>9. W \in SUBSET U /\ W \subseteq V /\ W # V
  BY <1>5, <1>8
<1>10. Good(W)
  BY <1>4, <1>5, <1>9 DEF Bad, StrictSubsetOrdering
<1>11. (T \cup V) \ {x} = T \cup W /\ x \in T \cup V /\ f[x] \in Int
  BY <1>5, <1>8
<1>12. T \cup V \in SUBSET S /\ V \in SUBSET S /\ T \cup W \in SUBSET S /\ W \in SUBSET S
  BY <1>5, <1>9
<1>13. Sum(T \cup V) = f[x] + Sum(T \cup W)
  BY <1>6, <1>11, <1>12
<1>14. Sum(V) = f[x] + Sum(W)
  BY <1>6, <1>8, <1>12
<1>15. Sum(T) \in Int /\ Sum(W) \in Int
  BY <1>6, <1>12
<1> HIDE DEF Sum, W
<1> QED
  BY <1>5, <1>10, <1>11, <1>13, <1>14, <1>15

LEMMA ProductGrows ==
  ASSUME NEW a \in Nat, NEW b \in Nat, NEW c \in Nat, a <= b
  PROVE  a * c <= b * c
  OBVIOUS

LEMMA ProductNat == \A a, b \in Nat : a * b \in Nat
  OBVIOUS

\* A factor that is not zero can be dropped from both sides.
LEMMA FactorDropped ==
  ASSUME NEW a \in Nat, NEW b \in Nat, NEW d \in Nat \ {0}, a * d <= b * d
  PROVE  a <= b
<1>1. SUFFICES ASSUME b + 1 <= a PROVE FALSE
  OBVIOUS
<1>2. (b + 1) * d <= a * d
  BY <1>1, ProductGrows
<1>3. (b + 1) * d = b * d + d /\ b * d \in Nat /\ a * d \in Nat
  OBVIOUS
<1> QED
  BY <1>2, <1>3

LEMMA QuotientBelow ==
  ASSUME NEW a \in Nat, NEW d \in Nat \ {0}
  PROVE  a \div d \in Nat /\ (a \div d) * d <= a
  OBVIOUS

-----------------------------------------------------------------------------
(* The history, the weights of its records, and their shares.                *)

LEMMA RoundIs ==
  ASSUME round \in Rounds
  PROVE  /\ N \in Nat /\ 2 * N < Stride /\ 2 * N <= Skew
         /\ \A i \in 1 .. N : Kind[i] \in {"topup", "raw", "stake"}
         /\ Weight \in [1 .. N -> Nat]
         /\ NoJob \notin Jobs /\ NoPending \notin Pendings
         /\ NoDispatch \notin Dispatches
<1>1. round.kind \in Seq({"topup", "raw", "stake"})
      /\ round.weight \in [1 .. Len(round.kind) -> Nat]
  BY RoundAssumption
<1>2. Len(round.kind) \in Nat
      /\ \A i \in 1 .. Len(round.kind) : round.kind[i] \in {"topup", "raw", "stake"}
  BY <1>1
<1>3. 2 * Len(round.kind) < Stride /\ 2 * Len(round.kind) <= Skew
  BY PaceAssumption
<1>4. /\ NoJob \notin JobsOf(Len(round.kind))
      /\ NoPending \notin PendingsOf(Len(round.kind))
      /\ NoDispatch \notin DispatchesOf(Len(round.kind))
  BY NoneAssumption
<1> QED
  BY <1>1, <1>2, <1>3, <1>4
  DEF N, NItems, Kind, Weight, Jobs, Pendings, Dispatches

LEMMA Consts ==
  /\ Fee \in Nat \ {0} /\ Pot \in Nat /\ Pot > Fee
  /\ Stride \in Nat \ {0} /\ Lease \in Nat \ {0} /\ MaxAge \in Nat /\ Skew \in Nat
  /\ PageSize \in Nat \ {0}
  BY AmountAssumption, TimeAssumption, RoundAssumption

LEMMA UpToFinite ==
  ASSUME NEW k \in Nat
  PROVE  IsFiniteSet(1 .. k)
  BY FS_Interval

\* A page adds its weights to those of the records before it.
LEMMA WeightPage ==
  ASSUME round \in Rounds, NEW k \in Nat, NEW m \in 0 .. N, k <= m
  PROVE  /\ WeightUpTo(k) \in Nat /\ WeightUpTo(m) \in Nat
         /\ SumFunctionOnSet(Weight, k + 1 .. m) \in Nat
         /\ WeightUpTo(m) = WeightUpTo(k) + SumFunctionOnSet(Weight, k + 1 .. m)
         /\ WeightUpTo(k) <= WeightUpTo(m)
<1>1. N \in Nat /\ Weight \in [1 .. N -> Nat]
  BY RoundIs
<1>2. IsFiniteSet(1 .. m) /\ IsFiniteSet(1 .. k) /\ IsFiniteSet(k + 1 .. m)
  BY FS_Interval
<1>3. \A x \in 1 .. m : Weight[x] \in Nat
  BY <1>1
<1>4. 1 .. k \in SUBSET (1 .. m) /\ k + 1 .. m \in SUBSET (1 .. m)
      /\ (1 .. k) \cap (k + 1 .. m) = {} /\ (1 .. k) \cup (k + 1 .. m) = 1 .. m
  BY <1>1
<1>5. \A x \in 1 .. m : Weight[x] \in Int
  BY <1>3
<1> DEFINE A == 1 .. k
           B == k + 1 .. m
           S == 1 .. m
<1>6. SumFunctionOnSet(Weight, S) = SumFunctionOnSet(Weight, A) + SumFunctionOnSet(Weight, B)
  <2> HIDE DEF A, B, S
  <2>1. IsFiniteSet(S) /\ A \in SUBSET S /\ B \in SUBSET S /\ A \cap B = {}
        /\ A \cup B = S /\ \A x \in S : Weight[x] \in Int
    BY <1>2, <1>4, <1>5 DEF A, B, S
  <2>2. SumFunctionOnSet(Weight, A \cup B)
          = SumFunctionOnSet(Weight, A) + SumFunctionOnSet(Weight, B)
    BY <2>1, SumDisjoint
  <2> QED
    BY <2>1, <2>2
<1>7. SumFunctionOnSet(Weight, A) \in Nat
      /\ SumFunctionOnSet(Weight, B) \in Nat
      /\ SumFunctionOnSet(Weight, S) \in Nat
  <2>1. (\A x \in 1 .. k : Weight[x] \in Nat) /\ \A x \in k + 1 .. m : Weight[x] \in Nat
    BY <1>3, <1>4
  <2> QED
    BY <1>2, <1>3, <2>1, SumIsNat
<1>8. WeightUpTo(k) = SumFunctionOnSet(Weight, A) /\ WeightUpTo(m) = SumFunctionOnSet(Weight, S)
  BY DEF WeightUpTo
<1>9. B = k + 1 .. m
  OBVIOUS
<1> HIDE DEF A, B, S
<1> QED
  BY <1>6, <1>7, <1>8, <1>9

LEMMA WeightNone == WeightUpTo(0) = 0
<1>1. 1 .. 0 = {}
  OBVIOUS
<1> QED
  BY <1>1, SumEmpty DEF WeightUpTo

\* The record after others adds at least its own weight.
LEMMA WeightNext ==
  ASSUME round \in Rounds, NEW k \in Nat, NEW i \in 1 .. N, k < i
  PROVE  WeightUpTo(k) + Weight[i] <= WeightUpTo(i)
<1>1. N \in Nat /\ Weight \in [1 .. N -> Nat]
  BY RoundIs
<1>2. i \in 0 .. N /\ i - 1 \in Nat /\ i - 1 \in 0 .. N /\ k <= i - 1 /\ i - 1 <= i
  BY <1>1
<1>3. WeightUpTo(k) <= WeightUpTo(i - 1) /\ WeightUpTo(k) \in Nat
      /\ WeightUpTo(i - 1) \in Nat
  BY <1>2, WeightPage
<1>4. WeightUpTo(i) = WeightUpTo(i - 1) + SumFunctionOnSet(Weight, (i - 1) + 1 .. i)
  BY <1>2, WeightPage
<1>5. (i - 1) + 1 .. i = {} \cup {i}
  BY <1>1
<1>6. SumFunctionOnSet(Weight, {} \cup {i}) = SumFunctionOnSet(Weight, {}) + Weight[i]
  <2>1. IsFiniteSet({}) /\ i \notin {} /\ \A z \in {} \cup {i} : Weight[z] \in Int
    BY <1>1, FS_EmptySet
  <2> QED
    BY <2>1, SumAdd
<1>7. Weight[i] \in Nat
  BY <1>1
<1> QED
  BY <1>3, <1>4, <1>5, <1>6, <1>7, SumEmpty

\* A share in the tranche is no more than its weight's part of it.
LEMMA ShareBelow ==
  ASSUME round \in Rounds, NEW j, j.pot = Pot, j.denom \in Nat, NEW i \in 1 .. N
  PROVE  /\ Share(j, i) \in Nat
         /\ Share(j, i) * j.denom <= Pot * Weight[i]
         /\ Share(j, i) > Fee => j.denom # 0
<1>1. Weight[i] \in Nat /\ Pot \in Nat /\ Fee \in Nat
  BY RoundIs, Consts
<1>2. CASE j.denom = 0
  BY <1>1, <1>2 DEF Share
<1>3. CASE j.denom # 0
  <2>1. Share(j, i) = (Weight[i] * Pot) \div j.denom
    BY <1>3 DEF Share
  <2>2. Weight[i] * Pot \in Nat /\ j.denom \in Nat \ {0} /\ Weight[i] * Pot = Pot * Weight[i]
    BY <1>1, <1>3
  <2> DEFINE a == Weight[i] * Pot
             d == j.denom
  <2>3. a \div d \in Nat /\ (a \div d) * d <= a
    <3> HIDE DEF a, d
    <3>1. a \in Nat /\ d \in Nat \ {0}
      BY <2>2 DEF a, d
    <3> QED
      BY <3>1, QuotientBelow
  <2> QED
    BY <1>3, <2>1, <2>2, <2>3
<1> QED
  BY <1>2, <1>3

\* A commitment after the records paid so far fits into the tranche, and what
\* is booked with it stays below the weight of the records up to it.
LEMMA ShareFits ==
  ASSUME round \in Rounds, NEW j, j.pot = Pot, j.denom = WeightUpTo(N),
         NEW g \in Nat, NEW k \in Nat, g * j.denom <= Pot * WeightUpTo(k),
         NEW i \in 1 .. N, k < i, Share(j, i) > Fee
  PROVE  /\ (g + Share(j, i)) * j.denom <= Pot * WeightUpTo(i)
         /\ g + Share(j, i) <= Pot
<1>1. N \in Nat /\ Pot \in Nat /\ Weight[i] \in Nat /\ Fee \in Nat
  BY RoundIs, Consts
<1>2. i \in Nat /\ N \in 0 .. N /\ i <= N /\ i \in 0 .. N /\ k <= i
  BY <1>1
<1>3. WeightUpTo(k) \in Nat /\ WeightUpTo(i) \in Nat /\ WeightUpTo(N) \in Nat
      /\ WeightUpTo(i) <= WeightUpTo(N)
  BY <1>2, WeightPage
<1>4. Share(j, i) \in Nat /\ Share(j, i) * j.denom <= Pot * Weight[i] /\ j.denom # 0
  BY <1>3, ShareBelow
<1>5. WeightUpTo(k) + Weight[i] <= WeightUpTo(i)
  BY WeightNext
<1> DEFINE s == Share(j, i)
           d == j.denom
           w == Weight[i]
           wk == WeightUpTo(k)
           wi == WeightUpTo(i)
           wn == WeightUpTo(N)
<1>6. /\ s \in Nat /\ d \in Nat \ {0} /\ w \in Nat /\ wk \in Nat /\ wi \in Nat
      /\ wn \in Nat /\ d = wn /\ wi <= wn /\ wk + w <= wi /\ s * d <= Pot * w
      /\ g * d <= Pot * wk
  BY <1>1, <1>3, <1>4, <1>5
<1> HIDE DEF s, d, w, wk, wi, wn
<1>7. (g + s) * d <= Pot * wi
  <2>1. (g + s) * d = g * d + s * d /\ g * d \in Nat /\ s * d \in Nat
    BY <1>6
  <2>2. Pot * (wk + w) = Pot * wk + Pot * w /\ Pot * wk \in Nat /\ Pot * w \in Nat
    BY <1>1, <1>6
  <2>3. Pot * (wk + w) <= Pot * wi /\ Pot * wi \in Nat
    <3>1. (wk + w) * Pot <= wi * Pot
      BY <1>1, <1>6, ProductGrows
    <3>2. (wk + w) * Pot = Pot * (wk + w) /\ wi * Pot = Pot * wi /\ Pot * wi \in Nat
      BY <1>1, <1>6
    <3> QED
      BY <3>1, <3>2
  <2> QED
    BY <1>6, <2>1, <2>2, <2>3
<1>8. g + s <= Pot
  <2>1. wi * Pot <= d * Pot
    BY <1>1, <1>6, ProductGrows
  <2>2. wi * Pot = Pot * wi /\ d * Pot = Pot * d /\ (g + s) * d \in Nat /\ Pot * wi \in Nat
        /\ Pot * d \in Nat
    BY <1>1, <1>6
  <2>3. (g + s) * d <= Pot * d
    BY <1>7, <2>1, <2>2
  <2>4. g + s \in Nat
    BY <1>6
  <2> QED
    BY <1>1, <1>6, <2>3, <2>4, FactorDropped
<1> QED
  BY <1>7, <1>8 DEF s, d, wi

-----------------------------------------------------------------------------
(* What transfers take from the payout account.                              *)

LEMMA NetIsNat == \A tx \in Txs : Net(tx) \in Nat /\ tx.amt \in Nat
  BY Consts DEF Txs, Net

LEMMA TotalNone == Total({}) = 0
  BY SumEmpty DEF Total

\* The total of a part is a sum over the whole.
LEMMA TotalPart ==
  ASSUME NEW V \in SUBSET Txs, IsFiniteSet(V), NEW T \in SUBSET V
  PROVE  /\ IsFiniteSet(T)
         /\ Total(T) = SumFunctionOnSet([tx \in V |-> Net(tx)], T)
         /\ Total(T) \in Nat /\ Total(V) \in Nat /\ Total(T) <= Total(V)
<1> DEFINE f == [tx \in V |-> Net(tx)]
           g == [tx \in T |-> Net(tx)]
<1>1. IsFiniteSet(T)
  BY FS_Subset
<1>2. \A x \in V : f[x] \in Nat
  BY NetIsNat
<1>3. \A x \in T : f[x] = g[x] /\ g[x] = f[x]
  OBVIOUS
<1>4. \A x \in T : g[x] \in Nat
  BY <1>2, <1>3
<1>5. Total(V) = SumFunctionOnSet(f, V) /\ Total(T) = SumFunctionOnSet(g, T)
  BY DEF Total
<1> HIDE DEF f, g
<1>6. SumFunctionOnSet(g, T) = SumFunctionOnSet(f, T)
  BY <1>1, <1>3, SumSame
<1>7. SumFunctionOnSet(f, T) <= SumFunctionOnSet(f, V)
  BY <1>2, SumSubset
<1>8. SumFunctionOnSet(g, T) \in Nat /\ SumFunctionOnSet(f, V) \in Nat
  BY <1>1, <1>2, <1>4, SumIsNat
<1> QED
  BY <1>1, <1>5, <1>6, <1>7, <1>8 DEF f

LEMMA TotalAdd ==
  ASSUME NEW V \in SUBSET Txs, IsFiniteSet(V), NEW x \in Txs, x \notin V
  PROVE  Total(V \cup {x}) = Total(V) + Net(x)
<1> DEFINE U == V \cup {x}
           f == [tx \in U |-> Net(tx)]
<1>1. U \in SUBSET Txs /\ IsFiniteSet(U) /\ V \in SUBSET U
  BY FS_AddElement
<1>2. Total(V) = SumFunctionOnSet(f, V)
  BY <1>1, TotalPart
<1>3. Total(U) = SumFunctionOnSet(f, U)
  BY DEF Total
<1>4. \A z \in V \cup {x} : f[z] \in Int
  BY NetIsNat
<1>5. f[x] = Net(x)
  OBVIOUS
<1> HIDE DEF f
<1>6. SumFunctionOnSet(f, V \cup {x}) = SumFunctionOnSet(f, V) + f[x]
  BY <1>4, SumAdd
<1> QED
  BY <1>2, <1>3, <1>5, <1>6

\* All transfers but the pending one, and with it.
LEMMA TotalRest ==
  ASSUME NEW V \in SUBSET Txs, IsFiniteSet(V), NEW x \in V
  PROVE  /\ Total(V \ {x}) \in Nat /\ Total(V) \in Nat
         /\ Total(V) = Total(V \ {x}) + Net(x)
<1> DEFINE W == V \ {x}
<1>1. W \in SUBSET V /\ x \in Txs /\ x \notin W /\ W \cup {x} = V
  OBVIOUS
<1>2. W \in SUBSET Txs /\ IsFiniteSet(W) /\ Total(W) \in Nat /\ Total(V) \in Nat
  BY <1>1, TotalPart
<1> HIDE DEF W
<1>3. Total(W \cup {x}) = Total(W) + Net(x)
  BY <1>1, <1>2, TotalAdd
<1> QED
  BY <1>1, <1>2, <1>3 DEF W

LEMMA OfJobPart ==
  ASSUME NEW V \in SUBSET Txs, IsFiniteSet(V), NEW id
  PROVE  /\ OfJob(V, id) \in SUBSET V /\ OfJob(V, id) \in SUBSET Txs
         /\ IsFiniteSet(OfJob(V, id))
         /\ Total(OfJob(V, id)) \in Nat
<1>1. OfJob(V, id) \in SUBSET V
  BY DEF OfJob
<1> QED
  BY <1>1, TotalPart

\* Fewer transfers take less, of each job and together.
LEMMA TotalFewer ==
  ASSUME NEW V \in SUBSET Txs, IsFiniteSet(V), NEW T \in SUBSET V, NEW id
  PROVE  /\ Total(T) <= Total(V) /\ Total(T) \in Nat /\ Total(V) \in Nat
         /\ Total(OfJob(T, id)) <= Total(OfJob(V, id))
         /\ Total(OfJob(T, id)) \in Nat /\ Total(OfJob(V, id)) \in Nat
<1>1. OfJob(T, id) \in SUBSET OfJob(V, id)
  BY DEF OfJob
<1>2. OfJob(V, id) \in SUBSET Txs /\ IsFiniteSet(OfJob(V, id))
  BY OfJobPart
<1> QED
  BY <1>1, <1>2, TotalPart

\* What the transfer of share takes in the end is at most its share.
LEMMA NetBelowShare ==
  ASSUME CmcOK, blocks \subseteq Txs, NEW tx, tx.amt \in Nat
  PROVE  Net(tx) \in Nat /\ Net(tx) <= tx.amt + Fee
<1>1. CASE tx \in refunded
  <2>1. tx.amt - 3 * Fee > 0
    BY <1>1 DEF CmcOK, Credit
  <2> QED
    BY <1>1, <2>1, Consts DEF Net
<1>2. CASE tx \notin refunded
  BY <1>2, Consts DEF Net
<1> QED
  BY <1>1, <1>2

-----------------------------------------------------------------------------
(* The job, beside the transfers V and since n.                              *)

Setting(V, n) ==
  /\ round \in Rounds /\ n \in Nat /\ blocks \subseteq V
  /\ CmcOK /\ WildOK(V, n) /\ closed \in Seq(Jobs)

LEMMA SettingIs ==
  ASSUME NEW V, NEW n, Setting(V, n)
  PROVE  /\ V \in SUBSET Txs /\ IsFiniteSet(V) /\ n \in Nat /\ N \in Nat
         /\ round \in Rounds /\ blocks \subseteq Txs /\ CmcOK
         /\ Len(closed) \in Nat
  BY RoundIs DEF Setting, WildOK

LEMMA JobIs ==
  ASSUME round \in Rounds, NEW j \in Jobs
  PROVE  /\ j.id \in Nat /\ j.tranche \in Nat /\ j.pot \in Nat /\ j.gross \in Nat
         /\ j.denom \in Nat /\ j.denomDone \in BOOLEAN /\ j.next \in 0 .. N
         /\ j.scanned \in BOOLEAN /\ j.cat \in Nat /\ j.remSent \in BOOLEAN
         /\ j.pending \in Pendings \cup {NoPending}
         /\ j.outcome \in [Items -> {"none", "paid", "failed", "ambiguous"}]
         /\ Items = 1 .. N /\ N \in Nat /\ j.next \in Nat
  BY RoundIs DEF Jobs, JobsOf, Pendings, Items, N

LEMMA PendingIs ==
  ASSUME round \in Rounds, NEW pend \in Pendings
  PROVE  /\ pend.kind \in Kinds /\ pend.item \in 0 .. N /\ pend.item \in Nat
         /\ pend.share \in Nat /\ pend.cat \in Nat
         /\ pend.phase \in {"awaiting", "accepted"} /\ pend # NoPending
  BY RoundIs DEF Pendings, PendingsOf, N

\* The transfer the pending record of j stands for.
LEMMA PendingTx ==
  ASSUME NEW V, NEW n, Setting(V, n), NEW k \in Nat,
         NEW j, JobOK(j, V, k, n), Waits(j)
  PROVE  /\ j \in Jobs /\ j.pending \in Pendings
         /\ Pending(j) \in Txs
         /\ Pending(j).job = j.id /\ Pending(j).item = j.pending.item
         /\ Pending(j).kind = j.pending.kind /\ Pending(j).cat = j.pending.cat
         /\ Pending(j).amt = j.pending.share - Fee /\ j.pending.share > Fee
         /\ Pending(j).amt \in Nat
         /\ Net(Pending(j)) \in Nat /\ Net(Pending(j)) <= j.pending.share
<1>1. round \in Rounds /\ j \in Jobs /\ CmcOK /\ blocks \subseteq Txs
  BY SettingIs DEF JobOK
<1>2. j.pending \in Pendings
  BY <1>1, JobIs DEF Waits
<1>3. j.pending.share > Fee /\ j.pending.share \in Nat /\ Fee \in Nat
  BY <1>1, <1>2, PendingIs, Consts DEF JobOK, PendingOK
<1>4. j.pending.kind \in Kinds /\ j.pending.item \in 0 .. N /\ j.pending.cat \in Nat
      /\ j.id \in Nat
  BY <1>1, <1>2, PendingIs, JobIs
<1>5. j.pending.share - Fee \in Nat
  BY <1>3
<1>6. Pending(j) \in Txs
  BY <1>4, <1>5 DEF Pending, Tx, Txs, N
<1>7. /\ Pending(j).job = j.id /\ Pending(j).item = j.pending.item
      /\ Pending(j).kind = j.pending.kind /\ Pending(j).cat = j.pending.cat
      /\ Pending(j).amt = j.pending.share - Fee
  BY DEF Pending, Tx
<1>8. Net(Pending(j)) \in Nat /\ Net(Pending(j)) <= Pending(j).amt + Fee
  BY <1>1, <1>5, <1>7, NetBelowShare
<1> QED
  BY <1>1, <1>2, <1>3, <1>5, <1>6, <1>7, <1>8

\* The pending transfer is sent.
LEMMA JobSent ==
  ASSUME NEW V, NEW n, Setting(V, n), NEW k \in Nat,
         NEW j, JobOK(j, V, k, n), Waits(j)
  PROVE  /\ JobOK(j, V \cup {Pending(j)}, k, n)
         /\ Setting(V \cup {Pending(j)}, n)
<1> DEFINE P == Pending(j)
           U == V \cup {P}
<1>1. V \in SUBSET Txs /\ IsFiniteSet(V) /\ round \in Rounds /\ n \in Nat /\ N \in Nat
  BY SettingIs
<1>2. /\ j \in Jobs /\ j.pending \in Pendings /\ P \in Txs
      /\ P.job = j.id /\ P.item = j.pending.item /\ P.cat = j.pending.cat
  BY PendingTx
<1>3. /\ j.next \in 0 .. N /\ j.cat \in Nat /\ j.pending.item \in Nat
      /\ j.pending.cat \in Nat /\ Items = 1 .. N /\ j.denomDone \in BOOLEAN
      /\ j.scanned \in BOOLEAN
  BY <1>1, <1>2, JobIs, PendingIs
<1>4. OfJob(U, j.id) = OfJob(V, j.id) \cup {P}
  BY <1>2 DEF OfJob
<1>5. Rest(U, j) = Rest(V, j)
  BY DEF Rest
<1> HIDE DEF P
<1>6. PendingOK(j, V) /\ ScanOK(j, V) /\ MoneyOK(j, V, k) /\ TimesOK(j, V, n)
      /\ OutcomesOK(j, V) /\ PassedOK(j)
  BY DEF JobOK
<1>7. ScanOK(j, U)
  <2>1. j.denomDone
    BY <1>6 DEF ScanOK
  <2>2. P.item <= j.next /\ (P.item = 0 => j.scanned)
    <3>1. (j.pending.item = 0 /\ j.scanned) \/ (j.pending.item = j.next /\ j.pending.item # 0)
      BY <1>6 DEF PendingOK
    <3> QED
      BY <1>2, <1>3, <3>1
  <2> QED
    BY <1>4, <1>6, <2>1, <2>2 DEF ScanOK
<1>8. PendingOK(j, U)
  <2>1. P = Pending(j)
    BY DEF P
  <2> QED
    BY <1>4, <1>6, <2>1 DEF PendingOK
<1>9. RemainderOK(j, U)
  BY DEF RemainderOK
<1>10. MoneyOK(j, U, k)
  BY <1>5, <1>6 DEF MoneyOK
<1>11. TimesOK(j, U, n)
  <2>1. P.cat < j.cat
    BY <1>2, <1>6 DEF PendingOK
  <2> QED
    BY <1>6, <2>1 DEF TimesOK
<1>12. OutcomesOK(j, U)
  <2>1. \A i \in Items : ~BeingPaid(j, i) => P.item # i
    BY <1>2 DEF BeingPaid, Waits
  <2> QED
    BY <1>4, <1>6, <2>1 DEF OutcomesOK
<1>13. JobOK(j, U, k, n)
  BY <1>2, <1>6, <1>7, <1>8, <1>9, <1>10, <1>11, <1>12 DEF JobOK
<1>14. WildOK(U, n)
  <2>1. WildOK(V, n)
    BY DEF Setting
  <2>2. U \in SUBSET Txs /\ IsFiniteSet(U)
    BY <1>1, <1>2, FS_AddElement
  <2>3. P.cat <= n + 2 * N
    <3>1. j.pending.cat < j.cat
      BY <1>6 DEF PendingOK
    <3>2. j.cat <= n + 2 * N + 1
      <4>1. j.scanned => j.cat <= n + 2 * N + 1
        BY <1>6 DEF TimesOK
      <4>2. ~j.scanned => j.cat <= n + 2 * j.next
        BY <1>6 DEF TimesOK
      <4> QED
        BY <1>1, <1>3, <4>1, <4>2
    <3> QED
      BY <1>1, <1>2, <1>3, <3>1, <3>2
  <2>4. \A tx \in V : tx.cat = P.cat => tx = P
    BY <1>2, <1>6 DEF PendingOK, P
  <2>5. \A tx \in V : tx.job = P.job /\ tx.item = P.item => tx = P \/ tx \in refunded
    BY <1>2, <1>6 DEF PendingOK, P, OfJob
  <2>6. \A tx \in U : tx.cat <= n + 2 * N
    BY <2>1, <2>3 DEF WildOK
  <2>7. \A tx, u \in U : tx.cat = u.cat => tx = u
    BY <2>1, <2>4 DEF WildOK
  <2>8. \A tx, u \in U : tx.job = u.job /\ tx.item = u.item =>
          tx = u \/ tx \in refunded \/ u \in refunded
    BY <2>1, <2>5 DEF WildOK
  <2> QED
    BY <2>2, <2>6, <2>7, <2>8 DEF WildOK
<1> QED
  BY <1>13, <1>14 DEF Setting, P

\* The bounds on creation times are weaker for a newer activation.
LEMMA JobLater ==
  ASSUME NEW V, NEW n, Setting(V, n), NEW m \in Nat, n <= m, NEW k \in Nat,
         NEW j, JobOK(j, V, k, n)
  PROVE  JobOK(j, V, k, m) /\ Setting(V, m)
<1>1. n \in Nat /\ N \in Nat /\ j \in Jobs /\ round \in Rounds
  BY SettingIs DEF JobOK
<1>2. j.cat \in Nat /\ j.next \in Nat
  BY <1>1, JobIs
<1>3. TimesOK(j, V, m)
  <2>1. TimesOK(j, V, n)
    BY DEF JobOK
  <2>2. n + 2 * j.next <= m + 2 * j.next /\ n + 2 * N + 1 <= m + 2 * N + 1
    BY <1>1, <1>2
  <2> QED
    BY <1>1, <1>2, <2>1, <2>2 DEF TimesOK
<1>4. WildOK(V, m)
  <2>1. WildOK(V, n) /\ \A tx \in V : tx.cat \in Nat
    BY DEF Setting, WildOK, Txs
  <2>2. \A tx \in V : tx.cat <= m + 2 * N
    BY <1>1, <2>1 DEF WildOK
  <2> QED
    BY <2>1, <2>2 DEF WildOK
<1> QED
  BY <1>3, <1>4 DEF JobOK, Setting

\* What was booked before the pending transfer, and what it adds.
LEMMA MoneyIs ==
  ASSUME NEW V, NEW n, Setting(V, n), NEW k \in Nat,
         NEW j, JobOK(j, V, k, n), Waits(j)
  PROVE  /\ Spent(j) \in Nat /\ Committed(j) \in Nat
         /\ Committed(j) = Spent(j) + j.pending.share
         /\ ~IsAccepted(j) => Spent(j) = j.gross
         /\ IsAccepted(j) => Committed(j) = j.gross
         /\ \A d \in Nat : (Pending(j) \in V => Net(Pending(j)) <= d) =>
              /\ Total(OfJob(V, j.id)) <= Spent(j) + d
              /\ Total(V) <= Pot * k + Spent(j) + d
<1>1. V \in SUBSET Txs /\ IsFiniteSet(V) /\ round \in Rounds
  BY SettingIs
<1>2. /\ j \in Jobs /\ j.pending \in Pendings /\ Pending(j) \in Txs
      /\ Pending(j).job = j.id /\ Net(Pending(j)) \in Nat
  BY PendingTx
<1>3. j.gross \in Nat /\ j.pending.share \in Nat /\ j.pending # NoPending
      /\ j.pending.phase \in {"awaiting", "accepted"}
  BY <1>1, <1>2, JobIs, PendingIs
<1>4. IsAccepted(j) => j.pending.share <= j.gross
  BY DEF JobOK, PendingOK
<1>5. /\ Spent(j) \in Nat /\ Committed(j) \in Nat
      /\ Committed(j) = Spent(j) + j.pending.share
      /\ ~IsAccepted(j) => Spent(j) = j.gross
      /\ IsAccepted(j) => Committed(j) = j.gross
  BY <1>3, <1>4 DEF Spent, Committed, IsAccepted, Waits
<1>6. ASSUME NEW d \in Nat, Pending(j) \in V => Net(Pending(j)) <= d
      PROVE  /\ Total(OfJob(V, j.id)) <= Spent(j) + d
             /\ Total(V) <= Pot * k + Spent(j) + d
  <2> DEFINE P == Pending(j)
             O == OfJob(V, j.id)
  <2>1. /\ Total(OfJob(V \ {P}, j.id)) <= Spent(j)
        /\ Total(V \ {P}) <= Pot * k + Spent(j)
    BY DEF JobOK, MoneyOK, Rest
  <2>2. OfJob(V \ {P}, j.id) = O \ {P} /\ (P \in V <=> P \in O)
    BY <1>2 DEF OfJob
  <2>3. O \in SUBSET Txs /\ IsFiniteSet(O)
    BY <1>1, OfJobPart
  <2>4. Pot * k \in Nat
    BY Consts
  <2> DEFINE tv == Total(V)
             tr == Total(V \ {P})
             ov == Total(O)
             or == Total(O \ {P})
             sp == Spent(j)
             m == Pot * k
             nt == Net(P)
  <2>5. tr \in Nat /\ or \in Nat /\ or <= sp /\ tr <= m + sp /\ m \in Nat /\ sp \in Nat
    <3>1. V \ {P} \in SUBSET V /\ O \ {P} \in SUBSET O
      OBVIOUS
    <3> QED
      BY <1>1, <1>5, <2>1, <2>2, <2>3, <2>4, <3>1, TotalPart
  <2>6. (tv = tr /\ ov = or) \/ (tv = tr + nt /\ ov = or + nt /\ nt <= d /\ nt \in Nat)
    <3>1. CASE P \notin V
      <4>1. V \ {P} = V /\ O \ {P} = O
        BY <2>2, <3>1
      <4> QED
        BY <4>1
    <3>2. CASE P \in V
      <4>1. tv = tr + nt
        BY <1>1, <3>2, TotalRest
      <4>2. ov = or + nt
        BY <2>2, <2>3, <3>2, TotalRest
      <4> QED
        BY <1>2, <1>6, <3>2, <4>1, <4>2
    <3> QED
      BY <3>1, <3>2
  <2>7. ov <= sp + d /\ tv <= m + sp + d
    <3> HIDE DEF tv, tr, ov, or, sp, m, nt
    <3> QED
      BY <2>5, <2>6
  <2> QED
    BY <2>7
<1> QED
  BY <1>5, <1>6

LEMMA JobWith ==
  ASSUME round \in Rounds, NEW j \in Jobs, NEW g \in Nat,
         NEW pend \in Pendings \cup {NoPending}
  PROVE  [j EXCEPT !.gross = g, !.pending = pend] \in Jobs
  BY DEF Jobs, JobsOf, Pendings

\* The ledger has accepted the pending transfer.
WithAccepted(j) ==
  [j EXCEPT !.gross = j.gross + j.pending.share,
            !.pending = [j.pending EXCEPT !.phase = "accepted"]]

LEMMA JobAccepted ==
  ASSUME NEW V, NEW n, Setting(V, n), NEW k \in Nat,
         NEW j, JobOK(j, V, k, n), Waits(j), j.pending.phase = "awaiting",
         Pending(j) \in blocks,
         NEW i, i = WithAccepted(j)
  PROVE  /\ JobOK(i, V, k, n) /\ Waits(i) /\ IsAccepted(i) /\ i.id = j.id
         /\ i.next = j.next /\ i.scanned = j.scanned /\ i.tranche = j.tranche
         /\ i.pending = [j.pending EXCEPT !.phase = "accepted"]
         /\ Pending(i) = Pending(j)
<1> DEFINE q == [j.pending EXCEPT !.phase = "accepted"]
<1>1. V \in SUBSET Txs /\ IsFiniteSet(V) /\ round \in Rounds
  BY SettingIs
<1>2. j \in Jobs /\ j.pending \in Pendings
  BY PendingTx
<1>3. j.gross \in Nat /\ j.pending.share \in Nat
  BY <1>1, <1>2, JobIs, PendingIs
<1>4. /\ q \in Pendings /\ q.kind = j.pending.kind /\ q.item = j.pending.item
      /\ q.share = j.pending.share /\ q.cat = j.pending.cat /\ q.phase = "accepted"
  BY <1>2 DEF Pendings, PendingsOf
<1>5. q # NoPending /\ j.pending # NoPending
  BY <1>1, <1>2, <1>4, PendingIs
<1>6. i \in Jobs
  <2>1. j.gross + j.pending.share \in Nat
    BY <1>3
  <2>2. i = [j EXCEPT !.gross = j.gross + j.pending.share, !.pending = q]
    BY DEF WithAccepted
  <2> HIDE DEF q
  <2>3. [j EXCEPT !.gross = j.gross + j.pending.share, !.pending = q] \in Jobs
    BY <1>1, <1>2, <1>4, <2>1, JobWith
  <2> QED
    BY <2>2, <2>3
<1>7. /\ i.id = j.id /\ i.next = j.next /\ i.scanned = j.scanned
      /\ i.tranche = j.tranche /\ i.pot = j.pot /\ i.denom = j.denom
      /\ i.denomDone = j.denomDone /\ i.cat = j.cat /\ i.remSent = j.remSent
      /\ i.outcome = j.outcome /\ i.gross = j.gross + j.pending.share
      /\ i.pending = q
  BY <1>2 DEF WithAccepted, Jobs, JobsOf
<1> HIDE DEF q
<1>8. Waits(i) /\ IsAccepted(i) /\ ~IsAccepted(j)
  BY <1>4, <1>5, <1>7 DEF Waits, IsAccepted
<1>9. Pending(i) = Pending(j) /\ Rest(V, i) = Rest(V, j)
  BY <1>4, <1>7, <1>8 DEF Pending, Tx, Rest
<1>10. Committed(i) = Committed(j) /\ Spent(i) = Spent(j)
  BY <1>3, <1>4, <1>5, <1>7, <1>8 DEF Committed, Spent
<1>11. PendingOK(j, V) /\ ScanOK(j, V) /\ MoneyOK(j, V, k) /\ TimesOK(j, V, n)
      /\ OutcomesOK(j, V) /\ PassedOK(j)
  BY DEF JobOK
<1>12. ScanOK(i, V)
  BY <1>7, <1>11 DEF ScanOK, Waits
<1>13. PendingOK(i, V)
  <2>1. i.pending.share <= i.gross
    BY <1>3, <1>4, <1>7
  <2> QED
    BY <1>4, <1>7, <1>9, <1>10, <1>11, <2>1 DEF PendingOK
<1>14. RemainderOK(i, V)
  BY <1>8 DEF RemainderOK
<1>15. MoneyOK(i, V, k)
  BY <1>7, <1>9, <1>10, <1>11 DEF MoneyOK
<1>16. TimesOK(i, V, n)
  BY <1>4, <1>7, <1>11 DEF TimesOK
<1>17. \A x : BeingPaid(i, x) <=> BeingPaid(j, x)
  BY <1>4, <1>5, <1>7 DEF BeingPaid
<1>18. OutcomesOK(i, V)
  BY <1>7, <1>11, <1>17 DEF OutcomesOK
<1>19. PassedOK(i)
  BY <1>7, <1>11, <1>17 DEF PassedOK, Share
<1> QED
  BY <1>6, <1>7, <1>8, <1>9, <1>12, <1>13, <1>14, <1>15, <1>16, <1>18, <1>19
  DEF JobOK, q

LEMMA JobBooked ==
  ASSUME round \in Rounds, NEW j \in Jobs, NEW g \in Nat, NEW r \in BOOLEAN,
         NEW o \in [Items -> {"none", "paid", "failed", "ambiguous"}]
  PROVE  [j EXCEPT !.gross = g, !.outcome = o, !.remSent = r, !.pending = NoPending]
           \in Jobs
  BY DEF Jobs, JobsOf, Items

\* The pending transfer is done with: what it may take in the end, d, is booked.
Booked(j, g, status) ==
  [j EXCEPT !.gross = g, !.outcome = Count(j, j.pending.item, status),
            !.remSent = j.remSent \/ (j.pending.item = 0 /\ status = "paid"),
            !.pending = NoPending]

LEMMA JobCleared ==
  ASSUME NEW V, NEW n, Setting(V, n), NEW k \in Nat,
         NEW j, JobOK(j, V, k, n), Waits(j),
         NEW d \in Nat, d <= j.pending.share,
         Pending(j) \in V => Net(Pending(j)) <= d,
         NEW status \in {"paid", "failed", "ambiguous"},
         status = "paid" => /\ Pending(j) \in blocks
                            /\ j.pending.kind = "topup" => Pending(j) \in minted,
         status = "failed" =>
           \A tx \in OfJob(V, j.id) : tx.item = j.pending.item =>
             tx.kind = "topup" /\ tx \in refunded \cup rejected,
         j.pending.item = 0 =>
           status = "paid" \/ d = j.pending.share \/ Pending(j) \notin V,
         NEW i, i = Booked(j, Spent(j) + d, status)
  PROVE  /\ JobOK(i, V, k, n) /\ ~Waits(i) /\ i.id = j.id /\ i.next = j.next
         /\ i.scanned = j.scanned /\ i.tranche = j.tranche
         /\ i.denomDone
         /\ \A x \in 1 .. i.next : Share(i, x) > Fee => i.outcome[x] # "none"
         /\ i.scanned /\ (status = "paid" \/ d = j.pending.share) =>
              i.remSent \/ i.gross = Pot
<1> DEFINE P == Pending(j)
           g == Spent(j) + d
           o == Count(j, j.pending.item, status)
           r == j.remSent \/ (j.pending.item = 0 /\ status = "paid")
<1>1. V \in SUBSET Txs /\ IsFiniteSet(V) /\ round \in Rounds
  BY SettingIs
<1>2. /\ j \in Jobs /\ j.pending \in Pendings /\ P \in Txs
      /\ P.job = j.id /\ P.item = j.pending.item /\ P.kind = j.pending.kind
  BY PendingTx
<1>3. /\ j.gross \in Nat /\ j.pending.share \in Nat /\ j.pending # NoPending
      /\ j.pending.item \in 0 .. N /\ j.outcome \in [Items -> {"none", "paid", "failed", "ambiguous"}]
      /\ Items = 1 .. N /\ N \in Nat /\ j.next \in 0 .. N /\ j.denom \in Nat
      /\ j.denomDone \in BOOLEAN /\ j.scanned \in BOOLEAN /\ j.remSent \in BOOLEAN
  BY <1>1, <1>2, JobIs, PendingIs
<1>4. /\ Spent(j) \in Nat /\ Committed(j) \in Nat
      /\ Committed(j) = Spent(j) + j.pending.share
      /\ Total(OfJob(V, j.id)) <= g /\ Total(V) <= Pot * k + g
  <2>1. /\ Spent(j) \in Nat /\ Committed(j) \in Nat
        /\ Committed(j) = Spent(j) + j.pending.share
    BY MoneyIs
  <2>2. Total(OfJob(V, j.id)) <= Spent(j) + d /\ Total(V) <= Pot * k + Spent(j) + d
    BY MoneyIs
  <2>3. Pot * k \in Nat
    BY Consts
  <2>4. Pot * k + Spent(j) + d = Pot * k + (Spent(j) + d)
    BY <2>1, <2>3
  <2> QED
    BY <2>1, <2>2, <2>4
<1>5. g \in Nat /\ g <= Committed(j) /\ (d = j.pending.share => g = Committed(j))
  BY <1>3, <1>4
<1>6. o \in [Items -> {"none", "paid", "failed", "ambiguous"}]
      /\ \A x \in Items : o[x] = IF x = j.pending.item THEN status ELSE j.outcome[x]
  BY <1>3 DEF Count
<1>7. r \in BOOLEAN
  BY <1>3
<1> HIDE DEF P, g, o, r
<1>8. i = [j EXCEPT !.gross = g, !.outcome = o, !.remSent = r, !.pending = NoPending]
  BY DEF Booked, g, o, r
<1>9. i \in Jobs
  <2>1. [j EXCEPT !.gross = g, !.outcome = o, !.remSent = r, !.pending = NoPending] \in Jobs
    BY <1>1, <1>2, <1>5, <1>6, <1>7, JobBooked
  <2> QED
    BY ONLY <1>8, <2>1
<1>10. /\ i.id = j.id /\ i.next = j.next /\ i.scanned = j.scanned
       /\ i.tranche = j.tranche /\ i.pot = j.pot /\ i.denom = j.denom
       /\ i.denomDone = j.denomDone /\ i.cat = j.cat /\ i.remSent = r
       /\ i.outcome = o /\ i.gross = g /\ i.pending = NoPending
  BY <1>2, <1>8 DEF Jobs, JobsOf
<1>11. ~Waits(i) /\ ~IsAccepted(i) /\ Rest(V, i) = V /\ Spent(i) = g /\ Committed(i) = g
  <2>1. i.pending = NoPending /\ i.gross = g
    BY <1>10
  <2> QED
    BY <1>5, <2>1 DEF Waits, IsAccepted, Rest, Spent, Committed
<1>12. PendingOK(j, V) /\ ScanOK(j, V) /\ MoneyOK(j, V, k) /\ TimesOK(j, V, n)
      /\ OutcomesOK(j, V) /\ PassedOK(j)
  BY DEF JobOK
<1>13. j.denomDone
  BY <1>12 DEF ScanOK
<1>14. ScanOK(i, V)
  BY <1>10, <1>12, <1>13 DEF ScanOK
<1>15. PendingOK(i, V)
  BY <1>11 DEF PendingOK
<1>16. (j.pending.item = 0 /\ Committed(j) = Pot /\ j.scanned)
       \/ (j.pending.item # 0 /\ ~j.scanned)
  BY <1>12 DEF PendingOK
<1>17. RemainderOK(i, V)
  <2>1. SUFFICES ASSUME NEW tx \in OfJob(V, i.id), tx.item = 0, tx \notin refunded
                 PROVE  i.remSent \/ i.gross = Pot
    BY DEF RemainderOK
  <2>2. tx \in OfJob(V, j.id)
    BY <1>10, <2>1
  <2>3. j.scanned
    BY <1>12, <2>1, <2>2 DEF ScanOK
  <2>4. j.pending.item = 0 /\ Committed(j) = Pot
    BY <1>16, <2>3
  <2>5. tx = P
    BY <1>12, <2>1, <2>2, <2>4 DEF PendingOK, P
  <2>6. status = "paid" \/ d = j.pending.share
    BY <2>2, <2>4, <2>5 DEF P, OfJob
  <2> QED
    BY <1>5, <1>10, <2>4, <2>6 DEF r
<1>18. MoneyOK(i, V, k)
  <2>1. g <= Pot
    BY <1>4, <1>5, <1>12, Consts DEF MoneyOK
  <2>2. ~i.scanned => g * i.denom <= Pot * WeightUpTo(i.next)
    <3>1. SUFFICES ASSUME ~j.scanned PROVE g * j.denom <= Pot * WeightUpTo(j.next)
      BY <1>10
    <3>2. Committed(j) * j.denom <= Pot * WeightUpTo(j.next)
      BY <1>12, <3>1 DEF MoneyOK
    <3>3. g * j.denom <= Committed(j) * j.denom
      BY <1>3, <1>4, <1>5, ProductGrows
    <3>4. WeightUpTo(j.next) \in Nat
      <4>1. j.next \in Nat /\ j.next <= j.next
        BY <1>3
      <4> QED
        BY ONLY <1>1, <1>3, <4>1, WeightPage
    <3>5. g * j.denom \in Nat /\ Committed(j) * j.denom \in Nat /\ Pot * WeightUpTo(j.next) \in Nat
      BY <1>3, <1>4, <1>5, <3>4, Consts, ProductNat
    <3> QED
      BY <3>2, <3>3, <3>5
  <2> QED
    BY <1>4, <1>10, <1>11, <2>1, <2>2 DEF MoneyOK
<1>19. TimesOK(i, V, n)
  BY <1>10, <1>11, <1>12, <1>13 DEF TimesOK
<1>20. OutcomesOK(i, V)
  <2>1. \A x \in Items : o[x] = "paid" =>
          \E b \in blocks : b.job = j.id /\ b.item = x /\ (b.kind = "topup" => b \in minted)
    <3> TAKE x \in Items
    <3>1. CASE x = j.pending.item
      <4> HAVE o[x] = "paid"
      <4>1. status = "paid"
        BY <1>6, <3>1
      <4>2. P \in blocks /\ P.job = j.id /\ P.item = x /\ (P.kind = "topup" => P \in minted)
        BY <1>2, <3>1, <4>1 DEF P
      <4> QED
        BY <4>2
    <3>2. CASE x # j.pending.item
      BY <1>6, <1>12, <3>2 DEF OutcomesOK
    <3> QED
      BY <3>1, <3>2
  <2>2. \A x \in Items : o[x] = "failed" =>
          \A tx \in OfJob(V, j.id) :
            tx.item = x => tx.kind = "topup" /\ tx \in refunded \cup rejected
    <3> TAKE x \in Items
    <3>1. CASE x = j.pending.item
      BY <1>6, <3>1
    <3>2. CASE x # j.pending.item
      <4>1. ~BeingPaid(j, x)
        BY <3>2 DEF BeingPaid
      <4> QED
        BY <1>6, <1>12, <3>2, <4>1 DEF OutcomesOK
    <3> QED
      BY <3>1, <3>2
  <2> QED
    BY <1>10, <2>1, <2>2 DEF OutcomesOK
<1>21. \A x \in 1 .. i.next : Share(i, x) > Fee => i.outcome[x] # "none"
  <2> TAKE x \in 1 .. i.next
  <2>1. x \in Items /\ x \in 1 .. j.next /\ Share(i, x) = Share(j, x)
    BY <1>3, <1>10 DEF Share
  <2>2. CASE x = j.pending.item
    BY <1>6, <1>10, <2>1, <2>2
  <2>3. CASE x # j.pending.item
    <3>1. ~BeingPaid(j, x)
      BY <2>3 DEF BeingPaid
    <3> QED
      BY <1>6, <1>10, <1>12, <1>13, <2>1, <2>3, <3>1 DEF PassedOK
  <2> QED
    BY <2>2, <2>3
<1>22. PassedOK(i)
  BY <1>21 DEF PassedOK
<1>23. i.scanned /\ (status = "paid" \/ d = j.pending.share) => i.remSent \/ i.gross = Pot
  BY <1>5, <1>10, <1>16 DEF r
<1> QED
  BY <1>9, <1>10, <1>11, <1>13, <1>14, <1>15, <1>17, <1>18, <1>19, <1>20, <1>21, <1>22, <1>23
  DEF JobOK

\* The creation time a job allocates is new, and one the ledger takes.
LEMMA Allocated ==
  ASSUME NEW j \in Jobs, round \in Rounds, NEW n \in Nat, j.cat <= n + 2 * N
  PROVE  /\ AllocatedAt(j, n) \in Nat /\ j.cat <= AllocatedAt(j, n)
         /\ AllocatedAt(j, n) = j.cat \/ AllocatedAt(j, n) = n
         /\ CreatedAtValid(AllocatedAt(j, n), n)
         /\ \A c \in Nat : c < j.cat => FreshAt(j, n, c) = AllocatedAt(j, n)
<1>1. j.cat \in Nat /\ N \in Nat /\ 2 * N <= Skew /\ Skew \in Nat /\ MaxAge \in Nat
  BY JobIs, RoundIs, Consts
<1>2. j.cat <= n + Skew
  BY <1>1
<1>3. CASE CreatedAtValid(j.cat, n)
  <2>1. AllocatedAt(j, n) = j.cat
    BY <1>3 DEF AllocatedAt
  <2> QED
    BY <1>1, <1>3, <2>1 DEF FreshAt
<1>4. CASE ~CreatedAtValid(j.cat, n)
  <2>1. AllocatedAt(j, n) = n
    BY <1>4 DEF AllocatedAt
  <2>2. j.cat < n
    BY <1>1, <1>2, <1>4 DEF CreatedAtValid
  <2>3. CreatedAtValid(n, n)
    BY <1>1 DEF CreatedAtValid
  <2> QED
    BY <1>1, <2>1, <2>2, <2>3 DEF FreshAt
<1> QED
  BY <1>3, <1>4

\* A record with a new pending transfer.
Fresh(kind, item, share, cat) ==
  [kind |-> kind, item |-> item, share |-> share, cat |-> cat, phase |-> "awaiting"]

LEMMA FreshIs ==
  ASSUME round \in Rounds, NEW kind \in Kinds, NEW item \in 0 .. N,
         NEW share \in Nat, NEW cat \in Nat
  PROVE  /\ Fresh(kind, item, share, cat) \in Pendings
         /\ Fresh(kind, item, share, cat) # NoPending
         /\ Fresh(kind, item, share, cat).kind = kind
         /\ Fresh(kind, item, share, cat).item = item
         /\ Fresh(kind, item, share, cat).share = share
         /\ Fresh(kind, item, share, cat).cat = cat
         /\ Fresh(kind, item, share, cat).phase = "awaiting"
<1>1. Fresh(kind, item, share, cat) \in Pendings
  BY DEF Fresh, Pendings, PendingsOf, N
<1>2. Fresh(kind, item, share, cat) # NoPending
  BY <1>1, RoundIs
<1> QED
  BY <1>1, <1>2 DEF Fresh

LEMMA JobStagedIn ==
  ASSUME round \in Rounds, NEW j \in Jobs, NEW g \in Nat, NEW c \in Nat,
         NEW m \in 0 .. N, NEW pend \in Pendings
  PROVE  /\ [j EXCEPT !.gross = g, !.next = m, !.cat = c, !.pending = pend] \in Jobs
  BY DEF Jobs, JobsOf, Pendings, N

\* What a newly staged transfer shares with every other: nobody has made it.
LEMMA StagedIsNew ==
  ASSUME NEW V, NEW j, NEW i, i.id = j.id,
         \A tx \in V : tx.cat < j.cat /\ tx.cat \in Nat,
         j.cat \in Nat, i.pending.cat \in Nat, j.cat <= i.pending.cat
  PROVE  /\ Pending(i) \notin V
         /\ \A tx \in V : tx.cat # i.pending.cat
<1>1. \A tx \in V : tx.cat # i.pending.cat
  OBVIOUS
<1>2. Pending(i).cat = i.pending.cat
  BY DEF Pending, Tx
<1> QED
  BY <1>1, <1>2

\* The transfer for record m of the page is staged.
WithItem(j, m, c) ==
  [j EXCEPT !.next = m, !.cat = c + 1,
            !.pending = Fresh(Kind[m], m, Share(j, m), c)]

LEMMA JobStaged ==
  ASSUME NEW V, NEW n, Setting(V, n), NEW k \in Nat,
         NEW j, JobOK(j, V, k, n), ~Waits(j), j.denomDone, ~j.scanned,
         NEW m \in 1 .. N, j.next < m, Share(j, m) > Fee,
         \A x \in 1 .. m - 1 : Share(j, x) > Fee => j.outcome[x] # "none",
         NEW c, c = AllocatedAt(j, n),
         NEW i, i = WithItem(j, m, c)
  PROVE  /\ JobOK(i, V, k, n) /\ Waits(i) /\ i.pending.phase = "awaiting"
         /\ i.id = j.id /\ i.next = m /\ ~i.scanned /\ i.tranche = j.tranche
         /\ i.pending = Fresh(Kind[m], m, Share(j, m), c)
         /\ i.pending.item = m
         /\ Pending(i) \notin V
<1> DEFINE q == Fresh(Kind[m], m, Share(j, m), c)
           w == Share(j, m)
<1>1. V \in SUBSET Txs /\ IsFiniteSet(V) /\ round \in Rounds /\ n \in Nat /\ N \in Nat
  BY SettingIs
<1>2. j \in Jobs
  BY DEF JobOK
<1>3. /\ j.gross \in Nat /\ j.next \in 0 .. N /\ j.denom \in Nat /\ j.cat \in Nat
      /\ Items = 1 .. N /\ j.pot = Pot /\ j.next \in Nat
  BY <1>1, <1>2, JobIs DEF JobOK, ScanOK
<1>4. PendingOK(j, V) /\ ScanOK(j, V) /\ MoneyOK(j, V, k) /\ TimesOK(j, V, n)
      /\ OutcomesOK(j, V) /\ PassedOK(j)
  BY DEF JobOK
<1>5. j.denom = WeightUpTo(N)
  BY <1>4 DEF ScanOK
<1>6. w \in Nat /\ w > Fee
  BY <1>1, <1>3, ShareBelow
<1>7. j.cat <= n + 2 * j.next
  BY <1>4 DEF TimesOK
<1>8. j.cat <= n + 2 * N
  BY <1>1, <1>3, <1>7
<1>9. c \in Nat /\ j.cat <= c /\ (c = j.cat \/ c = n)
  BY <1>1, <1>2, <1>8, Allocated
<1>10. Kind[m] \in {"topup", "raw", "stake"} /\ Kind[m] \in Kinds /\ m \in 0 .. N
  BY <1>1, RoundIs DEF Kinds
<1>11. /\ q \in Pendings /\ q # NoPending /\ q.kind = Kind[m] /\ q.item = m
       /\ q.share = w /\ q.cat = c /\ q.phase = "awaiting"
  BY <1>1, <1>6, <1>9, <1>10, FreshIs
<1> HIDE DEF q, w
<1>12. i = [j EXCEPT !.next = m, !.cat = c + 1, !.pending = q]
  BY DEF WithItem, q, w
<1>13. i \in Jobs
  <2>1. j.gross \in Nat /\ c + 1 \in Nat /\ [j EXCEPT !.gross = j.gross] = j
    BY <1>2, <1>3, <1>9 DEF Jobs, JobsOf
  <2>2. [j EXCEPT !.gross = j.gross, !.next = m, !.cat = c + 1, !.pending = q] \in Jobs
    BY <1>1, <1>2, <1>10, <1>11, <2>1, JobStagedIn
  <2> QED
    BY ONLY <1>12, <2>1, <2>2
<1>14. /\ i.id = j.id /\ i.next = m /\ i.scanned = j.scanned
       /\ i.tranche = j.tranche /\ i.pot = j.pot /\ i.denom = j.denom
       /\ i.denomDone = j.denomDone /\ i.cat = c + 1 /\ i.remSent = j.remSent
       /\ i.outcome = j.outcome /\ i.gross = j.gross /\ i.pending = q
  BY <1>2, <1>12 DEF Jobs, JobsOf
<1>15. Waits(i) /\ ~IsAccepted(i) /\ ~IsAccepted(j)
       /\ Spent(i) = j.gross /\ Committed(i) = j.gross + w
       /\ Spent(j) = j.gross /\ Committed(j) = j.gross
  <2>1. i.pending = q /\ q # NoPending /\ q.phase = "awaiting" /\ q.share = w /\ i.gross = j.gross
    BY <1>11, <1>14
  <2>2. j.pending = NoPending
    BY DEF Waits
  <2> QED
    BY <1>3, <2>1, <2>2 DEF Waits, IsAccepted, Spent, Committed
<1>16. /\ Pending(i) \notin V
       /\ \A tx \in V : tx.cat # c
  <2>1. \A tx \in V : tx.cat < j.cat /\ tx.cat \in Nat
    BY <1>1, <1>4 DEF TimesOK, Txs
  <2>2. i.pending.cat = c
    BY <1>11, <1>14
  <2>3. i.id = j.id /\ j.cat \in Nat /\ i.pending.cat \in Nat /\ j.cat <= i.pending.cat
    BY <1>3, <1>9, <1>14, <2>2
  <2>4. Pending(i) \notin V /\ \A tx \in V : tx.cat # i.pending.cat
    BY ONLY <2>1, <2>3, StagedIsNew
  <2> QED
    BY ONLY <2>2, <2>4
<1>17. Rest(V, i) = V /\ Rest(V, j) = V
  BY <1>16 DEF Rest
<1>18. \A tx \in OfJob(V, j.id) : tx.item <= j.next /\ tx.item # 0 /\ tx.item \in Nat
  <2>1. \A tx \in OfJob(V, j.id) : tx \in Txs
    BY <1>1 DEF OfJob
  <2>2. \A tx \in Txs : tx.item \in Nat
    BY RoundIs, <1>1 DEF Txs, N
  <2> QED
    BY <1>4, <2>1, <2>2 DEF ScanOK
<1>19. ScanOK(i, V)
  <2>1. \A tx \in OfJob(V, j.id) : tx.item <= m
    BY <1>3, <1>18
  <2> QED
    BY <1>4, <1>14, <1>18, <2>1 DEF ScanOK
<1>20. PendingOK(i, V)
  <2>1. \A tx \in OfJob(V, j.id) : tx.item # m
    BY <1>3, <1>18
  <2>2. m # 0 /\ Kind[m] # "remainder" /\ c < c + 1
    BY <1>9, <1>10
  <2> QED
    BY <1>6, <1>11, <1>14, <1>15, <1>16, <2>1, <2>2 DEF PendingOK
<1>21. RemainderOK(i, V)
  BY <1>15 DEF RemainderOK
<1>22. MoneyOK(i, V, k)
  <2>1. j.gross * j.denom <= Pot * WeightUpTo(j.next)
    BY <1>4, <1>15 DEF MoneyOK
  <2>2. (j.gross + w) * j.denom <= Pot * WeightUpTo(m) /\ j.gross + w <= Pot
    BY <1>1, <1>3, <1>5, <2>1, ShareFits DEF w
  <2> QED
    BY <1>4, <1>14, <1>15, <1>17, <2>2 DEF MoneyOK
<1>23. TimesOK(i, V, n)
  <2>1. c + 1 < n + 2 * m
    BY <1>1, <1>3, <1>7, <1>9
  <2>2. \A tx \in V : tx.cat < c + 1
    <3>1. \A tx \in V : tx.cat < j.cat /\ tx.cat \in Nat
      BY <1>1, <1>4 DEF TimesOK, Txs
    <3> QED
      BY <1>3, <1>9, <3>1
  <2>3. c + 1 <= n + 2 * m
    BY <1>1, <1>9, <2>1
  <2> QED
    BY <1>14, <2>1, <2>2, <2>3 DEF TimesOK
<1>24. OutcomesOK(i, V)
  <2>1. \A x \in Items : ~BeingPaid(j, x)
    BY DEF BeingPaid, Waits
  <2> QED
    BY <1>4, <1>14, <2>1 DEF OutcomesOK
<1>25. PassedOK(i)
  <2> SUFFICES ASSUME NEW x \in 1 .. m, Share(i, x) > Fee
               PROVE  i.outcome[x] # "none" \/ BeingPaid(i, x)
    BY <1>14 DEF PassedOK
  <2>1. Share(i, x) = Share(j, x)
    BY <1>14 DEF Share
  <2>2. CASE x = m
    BY <1>11, <1>14, <2>2 DEF BeingPaid
  <2>3. CASE x # m
    <3>1. x \in 1 .. m - 1
      BY <2>3
    <3> QED
      BY <1>14, <2>1, <3>1
  <2> QED
    BY <2>2, <2>3
<1> QED
  BY <1>11, <1>13, <1>14, <1>15, <1>16, <1>19, <1>20, <1>21, <1>22, <1>23, <1>24, <1>25
  DEF JobOK, q

LEMMA SameNext ==
  ASSUME round \in Rounds, NEW j \in Jobs
  PROVE  /\ [j EXCEPT !.next = j.next] = j
         /\ [j EXCEPT !.gross = j.gross] = j
  BY DEF Jobs, JobsOf

\* The rest of the tranche is staged for the Relay.
WithRemainder(j, c) ==
  [j EXCEPT !.cat = c + 1, !.pending = Fresh("remainder", 0, Remainder(j), c)]

LEMMA JobRemainder ==
  ASSUME NEW V, NEW n, Setting(V, n), NEW k \in Nat,
         NEW j, JobOK(j, V, k, n), ~Waits(j), j.scanned, ~j.remSent,
         Remainder(j) > Fee, j.cat <= n + 2 * N,
         NEW c, c = AllocatedAt(j, n),
         NEW i, i = WithRemainder(j, c)
  PROVE  /\ JobOK(i, V, k, n) /\ Waits(i) /\ i.pending.phase = "awaiting"
         /\ i.id = j.id /\ i.next = j.next /\ i.scanned /\ i.tranche = j.tranche
         /\ i.pending = Fresh("remainder", 0, Remainder(j), c)
         /\ Pending(i) \notin V
<1> DEFINE q == Fresh("remainder", 0, Remainder(j), c)
           w == Remainder(j)
<1>1. V \in SUBSET Txs /\ IsFiniteSet(V) /\ round \in Rounds /\ n \in Nat /\ N \in Nat
  BY SettingIs
<1>2. j \in Jobs
  BY DEF JobOK
<1>3. /\ j.gross \in Nat /\ j.next \in 0 .. N /\ j.denom \in Nat /\ j.cat \in Nat
      /\ Items = 1 .. N /\ j.pot = Pot /\ j.next \in Nat
  BY <1>1, <1>2, JobIs DEF JobOK, ScanOK
<1>4. PendingOK(j, V) /\ ScanOK(j, V) /\ MoneyOK(j, V, k) /\ TimesOK(j, V, n)
      /\ OutcomesOK(j, V) /\ PassedOK(j) /\ RemainderOK(j, V)
  BY DEF JobOK
<1>5. w \in Nat /\ w > Fee /\ j.gross + w = Pot /\ j.gross # Pot
  <2>1. Fee \in Nat /\ Pot \in Nat /\ w = Pot - j.gross /\ w > Fee
    BY <1>3, Consts DEF Remainder
  <2> HIDE DEF w
  <2> QED
    BY ONLY <1>3, <2>1
<1>9. c \in Nat /\ j.cat <= c /\ (c = j.cat \/ c = n)
  BY <1>1, <1>2, Allocated
<1>10. "remainder" \in Kinds /\ 0 \in 0 .. N
  BY <1>1 DEF Kinds
<1>11. /\ q \in Pendings /\ q # NoPending /\ q.kind = "remainder" /\ q.item = 0
       /\ q.share = w /\ q.cat = c /\ q.phase = "awaiting"
  BY <1>1, <1>5, <1>9, <1>10, FreshIs
<1> HIDE DEF q, w
<1>12. i = [j EXCEPT !.cat = c + 1, !.pending = q]
  BY DEF WithRemainder, q, w
<1>13. i \in Jobs
  <2>1. c + 1 \in Nat /\ [j EXCEPT !.gross = j.gross] = j /\ [j EXCEPT !.next = j.next] = j
    BY <1>1, <1>2, <1>9, SameNext
  <2>2. [j EXCEPT !.gross = j.gross, !.next = j.next, !.cat = c + 1, !.pending = q] \in Jobs
    BY <1>1, <1>2, <1>3, <1>11, <2>1, JobStagedIn
  <2> QED
    BY ONLY <1>12, <2>1, <2>2
<1>14. /\ i.id = j.id /\ i.next = j.next /\ i.scanned = j.scanned
       /\ i.tranche = j.tranche /\ i.pot = j.pot /\ i.denom = j.denom
       /\ i.denomDone = j.denomDone /\ i.cat = c + 1 /\ i.remSent = j.remSent
       /\ i.outcome = j.outcome /\ i.gross = j.gross /\ i.pending = q
  BY <1>2, <1>12 DEF Jobs, JobsOf
<1>15. Waits(i) /\ ~IsAccepted(i) /\ ~IsAccepted(j)
       /\ Spent(i) = j.gross /\ Committed(i) = Pot /\ Spent(j) = j.gross
  <2>1. i.pending = q /\ q # NoPending /\ q.phase = "awaiting" /\ q.share = w /\ i.gross = j.gross
    BY <1>11, <1>14
  <2>2. j.pending = NoPending
    BY DEF Waits
  <2> QED
    BY <1>3, <1>5, <2>1, <2>2 DEF Waits, IsAccepted, Spent, Committed
<1>16. /\ Pending(i) \notin V
       /\ \A tx \in V : tx.cat # c
  <2>1. \A tx \in V : tx.cat < j.cat /\ tx.cat \in Nat
    BY <1>1, <1>4 DEF TimesOK, Txs
  <2>2. i.pending.cat = c
    BY <1>11, <1>14
  <2>3. i.id = j.id /\ j.cat \in Nat /\ i.pending.cat \in Nat /\ j.cat <= i.pending.cat
    BY <1>3, <1>9, <1>14, <2>2
  <2>4. Pending(i) \notin V /\ \A tx \in V : tx.cat # i.pending.cat
    BY ONLY <2>1, <2>3, StagedIsNew
  <2> QED
    BY ONLY <2>2, <2>4
<1>17. Rest(V, i) = V /\ Rest(V, j) = V
  BY <1>16 DEF Rest, Waits
<1>18. \A tx \in OfJob(V, j.id) : tx.item = 0 => tx \in refunded
  BY <1>3, <1>5, <1>4 DEF RemainderOK
<1>19. ScanOK(i, V)
  BY <1>4, <1>14 DEF ScanOK
<1>20. PendingOK(i, V)
  <2>1. c < c + 1
    BY <1>9
  <2> QED
    BY <1>5, <1>11, <1>14, <1>15, <1>16, <1>18, <2>1 DEF PendingOK
<1>21. RemainderOK(i, V)
  BY <1>15 DEF RemainderOK
<1>22. MoneyOK(i, V, k)
  BY <1>4, <1>14, <1>15, <1>17, Consts DEF MoneyOK
<1>23. TimesOK(i, V, n)
  <2>1. c + 1 <= n + 2 * N + 1
    BY <1>1, <1>3, <1>9
  <2>2. \A tx \in V : tx.cat < c + 1
    <3>1. \A tx \in V : tx.cat < j.cat /\ tx.cat \in Nat
      BY <1>1, <1>4 DEF TimesOK, Txs
    <3> QED
      BY <1>3, <1>9, <3>1
  <2>3. j.denomDone
    BY <1>4 DEF ScanOK
  <2> QED
    BY <1>11, <1>14, <2>1, <2>2, <2>3 DEF TimesOK
<1>24. OutcomesOK(i, V)
  <2>1. \A x \in Items : ~BeingPaid(j, x)
    BY DEF BeingPaid, Waits
  <2> QED
    BY <1>4, <1>14, <2>1 DEF OutcomesOK
<1>25. PassedOK(i)
  <2>1. \A x \in Items : ~BeingPaid(j, x)
    BY DEF BeingPaid, Waits
  <2>2. \A x : Share(i, x) = Share(j, x)
    BY <1>14 DEF Share
  <2>3. \A x \in 1 .. j.next : x \in Items
    BY <1>1, <1>3
  <2> QED
    BY <1>4, <1>14, <2>1, <2>2, <2>3 DEF PassedOK
<1> QED
  BY <1>11, <1>13, <1>14, <1>15, <1>16, <1>19, <1>20, <1>21, <1>22, <1>23, <1>24, <1>25
  DEF JobOK, q

\* A top-up that was not made, or was refunded, is staged again as raw ICP.
WithFallback(j, g, w, c) ==
  [j EXCEPT !.gross = g, !.cat = c + 1,
            !.pending = Fresh("fallback", j.pending.item, w, c)]

LEMMA JobFallback ==
  ASSUME NEW V, NEW n, Setting(V, n), NEW k \in Nat,
         NEW j, JobOK(j, V, k, n), Waits(j), j.pending.kind = "topup",
         NEW w \in Nat, w > Fee, w <= j.pending.share,
         NEW g, g = Spent(j) + (j.pending.share - w),
         Pending(j) \in V =>
           Pending(j) \in refunded /\ Net(Pending(j)) <= j.pending.share - w,
         NEW c, c = AllocatedAt(j, n),
         NEW i, i = WithFallback(j, g, w, c)
  PROVE  /\ JobOK(i, V, k, n) /\ Waits(i) /\ i.pending.phase = "awaiting"
         /\ i.id = j.id /\ i.next = j.next /\ i.scanned = j.scanned
         /\ i.tranche = j.tranche
         /\ i.pending = Fresh("fallback", j.pending.item, w, c)
         /\ i.pending.item = j.pending.item /\ j.pending.item # 0
         /\ Pending(i) \notin V
<1> DEFINE q == Fresh("fallback", j.pending.item, w, c)
           P == Pending(j)
<1>1. V \in SUBSET Txs /\ IsFiniteSet(V) /\ round \in Rounds /\ n \in Nat /\ N \in Nat
  BY SettingIs
<1>2. j \in Jobs /\ j.pending \in Pendings
  BY PendingTx
<1>3. /\ j.gross \in Nat /\ j.next \in 0 .. N /\ j.denom \in Nat /\ j.cat \in Nat
      /\ Items = 1 .. N /\ j.pot = Pot /\ j.next \in Nat
      /\ j.pending.item \in 0 .. N /\ j.pending.share \in Nat
  BY <1>1, <1>2, JobIs, PendingIs DEF JobOK, ScanOK
<1>4. PendingOK(j, V) /\ ScanOK(j, V) /\ MoneyOK(j, V, k) /\ TimesOK(j, V, n)
      /\ OutcomesOK(j, V) /\ PassedOK(j) /\ RemainderOK(j, V)
  BY DEF JobOK
<1>5. /\ j.pending.item # 0 /\ ~j.scanned /\ j.pending.item = j.next
      /\ j.denomDone
  BY <1>4 DEF PendingOK, ScanOK
<1>6. j.cat < n + 2 * j.next
  BY <1>4 DEF TimesOK
<1>7. j.cat <= n + 2 * N
  BY <1>1, <1>3, <1>6
<1>8. /\ Spent(j) \in Nat /\ g \in Nat /\ Committed(j) = g + w
      /\ Total(OfJob(V, j.id)) <= g /\ Total(V) <= Pot * k + g
  <2> DEFINE d == j.pending.share - w
  <2>1. d \in Nat
    BY <1>3
  <2>2. Spent(j) \in Nat /\ Committed(j) = Spent(j) + j.pending.share
    BY MoneyIs
  <2>3. Total(OfJob(V, j.id)) <= Spent(j) + d /\ Total(V) <= Pot * k + Spent(j) + d
    BY <2>1, MoneyIs
  <2>4. Pot * k \in Nat
    BY Consts, ProductNat
  <2>5. g = Spent(j) + d /\ d + w = j.pending.share
    BY <1>3
  <2> HIDE DEF d
  <2>6. Pot * k + Spent(j) + d = Pot * k + g
    BY ONLY <2>1, <2>2, <2>4, <2>5
  <2>7. g \in Nat /\ Committed(j) = g + w
    BY ONLY <2>1, <2>2, <2>5, w \in Nat
  <2> QED
    BY ONLY <2>2, <2>3, <2>5, <2>6, <2>7
<1>9. c \in Nat /\ j.cat <= c /\ (c = j.cat \/ c = n)
  BY <1>1, <1>2, <1>7, Allocated
<1>10. "fallback" \in Kinds
  BY DEF Kinds
<1>11. /\ q \in Pendings /\ q # NoPending /\ q.kind = "fallback"
       /\ q.item = j.pending.item
       /\ q.share = w /\ q.cat = c /\ q.phase = "awaiting"
  <2>1. \A x \in 0 .. N : LET f == Fresh("fallback", x, w, c) IN
          /\ f \in Pendings /\ f # NoPending /\ f.kind = "fallback" /\ f.item = x
          /\ f.share = w /\ f.cat = c /\ f.phase = "awaiting"
    BY ONLY <1>1, <1>9, <1>10, w \in Nat, FreshIs
  <2> QED
    BY ONLY <1>3, <2>1
<1> HIDE DEF q, P
<1>12. i = [j EXCEPT !.gross = g, !.cat = c + 1, !.pending = q]
  BY DEF WithFallback, q
<1>13. i \in Jobs
  <2>1. c + 1 \in Nat /\ [j EXCEPT !.next = j.next] = j
    BY <1>1, <1>2, <1>9, SameNext
  <2>2. [j EXCEPT !.gross = g, !.next = j.next, !.cat = c + 1, !.pending = q] \in Jobs
    BY <1>1, <1>2, <1>3, <1>8, <1>11, <2>1, JobStagedIn
  <2>3. [j EXCEPT !.gross = g, !.next = j.next, !.cat = c + 1, !.pending = q] = i
    BY ONLY <1>2, <1>12 DEF Jobs, JobsOf
  <2> QED
    BY ONLY <2>2, <2>3
<1>14. /\ i.id = j.id /\ i.next = j.next /\ i.scanned = j.scanned
       /\ i.tranche = j.tranche /\ i.pot = j.pot /\ i.denom = j.denom
       /\ i.denomDone = j.denomDone /\ i.cat = c + 1 /\ i.remSent = j.remSent
       /\ i.outcome = j.outcome /\ i.gross = g /\ i.pending = q
  BY <1>2, <1>12 DEF Jobs, JobsOf
<1>15. Waits(i) /\ ~IsAccepted(i) /\ Spent(i) = g /\ Committed(i) = g + w
  <2>1. i.pending = q /\ q # NoPending /\ q.phase = "awaiting" /\ q.share = w /\ i.gross = g
    BY <1>11, <1>14
  <2> QED
    BY <1>8, <2>1 DEF Waits, IsAccepted, Spent, Committed
<1>16. /\ Pending(i) \notin V
       /\ \A tx \in V : tx.cat # c
  <2>1. \A tx \in V : tx.cat < j.cat /\ tx.cat \in Nat
    BY <1>1, <1>4 DEF TimesOK, Txs
  <2>2. i.pending.cat = c
    BY <1>11, <1>14
  <2>3. i.id = j.id /\ j.cat \in Nat /\ i.pending.cat \in Nat /\ j.cat <= i.pending.cat
    BY <1>3, <1>9, <1>14, <2>2
  <2>4. Pending(i) \notin V /\ \A tx \in V : tx.cat # i.pending.cat
    BY ONLY <2>1, <2>3, StagedIsNew
  <2> QED
    BY ONLY <2>2, <2>4
<1>17. Rest(V, i) = V
  BY <1>16 DEF Rest, Waits
<1>18. \A tx \in OfJob(V, j.id) : tx.item = j.pending.item => tx \in refunded
  BY <1>4 DEF PendingOK, OfJob
<1>19. ScanOK(i, V)
  BY <1>4, <1>5, <1>14 DEF ScanOK
<1>20. PendingOK(i, V)
  <2>1. c < c + 1
    BY <1>9
  <2> QED
    BY <1>5, <1>11, <1>14, <1>15, <1>16, <1>18, <2>1 DEF PendingOK
<1>21. RemainderOK(i, V)
  BY <1>15 DEF RemainderOK
<1>22. MoneyOK(i, V, k)
  BY <1>4, <1>8, <1>14, <1>15, <1>17 DEF MoneyOK
<1>23. TimesOK(i, V, n)
  <2>1. c + 1 <= n + 2 * j.next
    BY <1>1, <1>3, <1>5, <1>6, <1>9
  <2>2. \A tx \in V : tx.cat < c + 1
    <3>1. \A tx \in V : tx.cat < j.cat /\ tx.cat \in Nat
      BY <1>1, <1>4 DEF TimesOK, Txs
    <3> QED
      BY <1>3, <1>9, <3>1
  <2> QED
    BY <1>5, <1>11, <1>14, <2>1, <2>2 DEF TimesOK
<1>26. \A x : BeingPaid(i, x) <=> BeingPaid(j, x)
  BY <1>11, <1>14 DEF BeingPaid, Waits
<1>24. OutcomesOK(i, V)
  BY <1>4, <1>14, <1>26 DEF OutcomesOK
<1>25. PassedOK(i)
  <2>2. \A x : Share(i, x) = Share(j, x)
    BY <1>14 DEF Share
  <2> QED
    BY <1>4, <1>14, <1>26, <2>2 DEF PassedOK
<1> QED
  BY <1>5, <1>11, <1>13, <1>14, <1>15, <1>16, <1>19, <1>20, <1>21, <1>22, <1>23, <1>24, <1>25
  DEF JobOK, q

LEMMA JobPagedIn ==
  ASSUME round \in Rounds, NEW j \in Jobs, NEW m \in 0 .. N, NEW d \in Nat,
         NEW e \in BOOLEAN
  PROVE  [j EXCEPT !.denom = d, !.denomDone = e, !.next = m] \in Jobs
  BY DEF Jobs, JobsOf, N

LEMMA JobCountedIn ==
  ASSUME round \in Rounds, NEW j \in Jobs,
         NEW o \in [Items -> {"none", "paid", "failed", "ambiguous"}]
  PROVE  [j EXCEPT !.outcome = o] \in Jobs
  BY DEF Jobs, JobsOf, N, Items

\* The payout scan comes to the end of a page, m.
WithScan(j, m) == [j EXCEPT !.next = m, !.scanned = (m = N)]

LEMMA JobScans ==
  ASSUME NEW V, NEW n, Setting(V, n), NEW k \in Nat,
         NEW j, JobOK(j, V, k, n), ~Waits(j), j.denomDone, ~j.scanned,
         NEW m \in 0 .. N, j.next <= m,
         \A x \in 1 .. m : Share(j, x) > Fee => j.outcome[x] # "none",
         NEW i, i = WithScan(j, m)
  PROVE  /\ JobOK(i, V, k, n) /\ ~Waits(i) /\ i.id = j.id /\ i.tranche = j.tranche
         /\ i.denomDone /\ i.next = m /\ i.scanned = (m = N)
         /\ i.cat <= n + 2 * N
<1>1. V \in SUBSET Txs /\ IsFiniteSet(V) /\ round \in Rounds /\ n \in Nat /\ N \in Nat
  BY SettingIs
<1>2. j \in Jobs
  BY DEF JobOK
<1>3. /\ j.gross \in Nat /\ j.next \in 0 .. N /\ j.denom \in Nat /\ j.cat \in Nat
      /\ Items = 1 .. N /\ j.pot = Pot /\ j.next \in Nat /\ m \in Nat /\ m <= N
  BY <1>1, <1>2, JobIs DEF JobOK, ScanOK
<1>4. PendingOK(j, V) /\ ScanOK(j, V) /\ MoneyOK(j, V, k) /\ TimesOK(j, V, n)
      /\ OutcomesOK(j, V) /\ PassedOK(j)
  BY DEF JobOK
<1>5. i \in Jobs
  BY ONLY <1>2, m \in 0 .. N, i = WithScan(j, m) DEF WithScan, Jobs, JobsOf, N
<1>6. /\ i.id = j.id /\ i.next = m /\ i.scanned = (m = N)
      /\ i.tranche = j.tranche /\ i.pot = j.pot /\ i.denom = j.denom
      /\ i.denomDone = j.denomDone /\ i.cat = j.cat /\ i.remSent = j.remSent
      /\ i.outcome = j.outcome /\ i.gross = j.gross /\ i.pending = j.pending
  BY <1>2 DEF WithScan, Jobs, JobsOf
<1>7. ~Waits(i) /\ j.pending = NoPending /\ i.pending = NoPending
  BY <1>6 DEF Waits
<1>8. /\ Rest(V, i) = V /\ Rest(V, j) = V /\ Spent(i) = j.gross /\ Spent(j) = j.gross
      /\ Committed(i) = j.gross /\ Committed(j) = j.gross
  BY <1>3, <1>6, <1>7 DEF Rest, Waits, Spent, Committed, IsAccepted
<1>9. \A tx \in OfJob(V, j.id) : tx.item <= j.next /\ tx.item # 0 /\ tx.item \in Nat
  <2>1. \A tx \in OfJob(V, j.id) : tx \in Txs
    BY <1>1 DEF OfJob
  <2>2. \A tx \in Txs : tx.item \in Nat
    BY RoundIs, <1>1 DEF Txs, N
  <2> QED
    BY <1>4, <2>1, <2>2 DEF ScanOK
<1>10. ScanOK(i, V)
  <2>1. \A tx \in OfJob(V, j.id) : tx.item <= m
    BY <1>3, <1>9
  <2> QED
    BY <1>4, <1>6, <1>9, <2>1 DEF ScanOK
<1>11. PendingOK(i, V)
  BY <1>7 DEF PendingOK
<1>12. RemainderOK(i, V)
  BY <1>6, <1>9 DEF RemainderOK
<1>13. MoneyOK(i, V, k)
  <2>1. j.gross * j.denom <= Pot * WeightUpTo(j.next)
    BY <1>4, <1>8 DEF MoneyOK
  <2>2. WeightUpTo(j.next) <= WeightUpTo(m) /\ WeightUpTo(j.next) \in Nat
        /\ WeightUpTo(m) \in Nat
    BY <1>1, <1>3, WeightPage
  <2>3. Pot * WeightUpTo(j.next) <= Pot * WeightUpTo(m)
    <3> DEFINE x == WeightUpTo(j.next)
               y == WeightUpTo(m)
    <3>1. x \in Nat /\ y \in Nat /\ x <= y /\ Pot \in Nat
      BY <2>2, Consts
    <3> HIDE DEF x, y
    <3>2. x * Pot <= y * Pot /\ x * Pot = Pot * x /\ y * Pot = Pot * y
      BY <3>1, ProductGrows
    <3>3. Pot * x <= Pot * y
      BY ONLY <3>2
    <3> QED
      BY <3>3 DEF x, y
  <2>4. j.gross * j.denom \in Nat /\ Pot * WeightUpTo(j.next) \in Nat
        /\ Pot * WeightUpTo(m) \in Nat
    BY <1>3, <2>2, Consts, ProductNat
  <2>5. j.gross * j.denom <= Pot * WeightUpTo(m)
    BY ONLY <2>1, <2>3, <2>4
  <2> QED
    BY <1>4, <1>6, <1>8, <2>5 DEF MoneyOK
<1>14. j.cat <= n + 2 * m /\ j.cat <= n + 2 * N
  <2>1. j.cat <= n + 2 * j.next
    BY <1>4 DEF TimesOK
  <2> QED
    BY <1>1, <1>3, <2>1
<1>15. TimesOK(i, V, n)
  <2>1. j.cat <= n + 2 * N + 1
    BY <1>1, <1>3, <1>14
  <2> QED
    BY <1>4, <1>6, <1>7, <1>14, <2>1 DEF TimesOK
<1>16. OutcomesOK(i, V)
  <2>1. \A x : BeingPaid(i, x) <=> BeingPaid(j, x)
    BY <1>6 DEF BeingPaid
  <2> QED
    BY <1>4, <1>6, <2>1 DEF OutcomesOK
<1>17. PassedOK(i)
  <2>1. \A x : Share(i, x) = Share(j, x)
    BY <1>6 DEF Share
  <2> QED
    BY <1>6, <2>1 DEF PassedOK
<1> QED
  BY <1>5, <1>6, <1>7, <1>10, <1>11, <1>12, <1>13, <1>14, <1>15, <1>16, <1>17 DEF JobOK

\* A commitment beyond the cursor is counted as failed.
WithFailed(j, m) == [j EXCEPT !.outcome = Count(j, m, "failed")]

LEMMA JobFails ==
  ASSUME NEW V, NEW n, Setting(V, n), NEW k \in Nat,
         NEW j, JobOK(j, V, k, n), ~Waits(j), j.denomDone,
         NEW m \in 1 .. N, j.next < m,
         NEW i, i = WithFailed(j, m)
  PROVE  /\ JobOK(i, V, k, n) /\ ~Waits(i) /\ i.id = j.id /\ i.tranche = j.tranche
         /\ i.denomDone /\ i.next = j.next /\ i.scanned = j.scanned
         /\ \A x : Share(i, x) = Share(j, x)
         /\ i.outcome[m] = "failed"
         /\ \A x \in Items : x # m => i.outcome[x] = j.outcome[x]
<1> DEFINE o == Count(j, m, "failed")
<1>1. V \in SUBSET Txs /\ IsFiniteSet(V) /\ round \in Rounds /\ n \in Nat /\ N \in Nat
  BY SettingIs
<1>2. j \in Jobs
  BY DEF JobOK
<1>3. /\ j.gross \in Nat /\ j.next \in 0 .. N /\ Items = 1 .. N /\ j.next \in Nat
      /\ j.outcome \in [Items -> {"none", "paid", "failed", "ambiguous"}]
  BY <1>1, <1>2, JobIs
<1>4. PendingOK(j, V) /\ ScanOK(j, V) /\ MoneyOK(j, V, k) /\ TimesOK(j, V, n)
      /\ OutcomesOK(j, V) /\ PassedOK(j) /\ RemainderOK(j, V)
  BY DEF JobOK
<1>5. /\ o \in [Items -> {"none", "paid", "failed", "ambiguous"}]
      /\ \A x \in Items : o[x] = IF x = m THEN "failed" ELSE j.outcome[x]
  BY <1>1, <1>3 DEF Count
<1> HIDE DEF o
<1>6. i = [j EXCEPT !.outcome = o]
  BY DEF WithFailed, o
<1>7. i \in Jobs
  BY ONLY <1>1, <1>2, <1>5, <1>6, JobCountedIn
<1>8. /\ i.id = j.id /\ i.next = j.next /\ i.scanned = j.scanned
      /\ i.tranche = j.tranche /\ i.pot = j.pot /\ i.denom = j.denom
      /\ i.denomDone = j.denomDone /\ i.cat = j.cat /\ i.remSent = j.remSent
      /\ i.outcome = o /\ i.gross = j.gross /\ i.pending = j.pending
  BY <1>2, <1>6 DEF Jobs, JobsOf
<1>9. ~Waits(i) /\ j.pending = NoPending /\ i.pending = NoPending
  BY <1>8 DEF Waits
<1>10. /\ Rest(V, i) = Rest(V, j) /\ Spent(i) = Spent(j) /\ Committed(i) = Committed(j)
  BY <1>8, <1>9 DEF Rest, Waits, Spent, Committed, IsAccepted
<1>11. ScanOK(i, V)
  BY <1>4, <1>8 DEF ScanOK
<1>12. PendingOK(i, V)
  BY <1>9 DEF PendingOK
<1>13. RemainderOK(i, V)
  BY <1>4, <1>8, <1>9 DEF RemainderOK, Waits
<1>14. MoneyOK(i, V, k)
  BY <1>4, <1>8, <1>10 DEF MoneyOK
<1>15. TimesOK(i, V, n)
  BY <1>4, <1>8, <1>9 DEF TimesOK
<1>16. OutcomesOK(i, V)
  <2>1. \A x : ~BeingPaid(i, x) /\ ~BeingPaid(j, x)
    BY <1>9 DEF BeingPaid
  <2>2. \A tx \in OfJob(V, j.id) : tx.item # m
    <3>1. \A tx \in OfJob(V, j.id) : tx.item <= j.next
      BY <1>4 DEF ScanOK
    <3> QED
      BY <1>3, <3>1
  <2>3. m \in Items
    BY <1>3
  <2> QED
    BY <1>4, <1>5, <1>8, <2>1, <2>2, <2>3 DEF OutcomesOK
<1>17. \A x : Share(i, x) = Share(j, x)
  BY <1>8 DEF Share
<1>18. PassedOK(i)
  <2>1. \A x : ~BeingPaid(i, x) /\ ~BeingPaid(j, x)
    BY <1>9 DEF BeingPaid
  <2>2. \A x \in 1 .. j.next : x \in Items /\ x # m
    BY <1>1, <1>3
  <2> QED
    BY <1>4, <1>5, <1>8, <1>17, <2>1, <2>2 DEF PassedOK
<1>19. m \in Items
  BY <1>3
<1> QED
  BY <1>5, <1>7, <1>8, <1>9, <1>11, <1>12, <1>13, <1>14, <1>15, <1>16, <1>17, <1>18, <1>19
  DEF JobOK

\* A page of the denominator scan, up to record m.
WithPage(j, m) ==
  [j EXCEPT !.denom = Denominator(j, m), !.denomDone = (m = N),
            !.next = IF m = N THEN 0 ELSE m]

LEMMA JobPage ==
  ASSUME NEW V, NEW n, Setting(V, n), NEW k \in Nat,
         NEW j, JobOK(j, V, k, n), ~j.denomDone,
         NEW m \in 0 .. N, j.next <= m,
         NEW i, i = WithPage(j, m)
  PROVE  /\ JobOK(i, V, k, n) /\ ~Waits(i) /\ i.id = j.id /\ i.tranche = j.tranche
         /\ ~i.scanned
<1>1. V \in SUBSET Txs /\ IsFiniteSet(V) /\ round \in Rounds /\ n \in Nat /\ N \in Nat
  BY SettingIs
<1>2. j \in Jobs
  BY DEF JobOK
<1>3. /\ j.next \in Nat /\ m \in Nat /\ j.cat \in Nat /\ j.denom \in Nat
      /\ Items = 1 .. N
  BY <1>1, <1>2, JobIs
<1>4. PendingOK(j, V) /\ ScanOK(j, V) /\ MoneyOK(j, V, k) /\ TimesOK(j, V, n)
      /\ OutcomesOK(j, V) /\ PassedOK(j)
  BY DEF JobOK
<1>5. /\ j.denom = WeightUpTo(j.next) /\ j.gross = 0 /\ ~j.scanned /\ ~Waits(j)
      /\ OfJob(V, j.id) = {} /\ j.pot = Pot
  BY <1>4 DEF ScanOK
<1> DEFINE d == Denominator(j, m)
           e == IF m = N THEN 0 ELSE m
<1>6. d = WeightUpTo(m) /\ d \in Nat /\ WeightUpTo(m) \in Nat
  <2>1. d = WeightUpTo(j.next) + SumFunctionOnSet(Weight, j.next + 1 .. m)
    BY <1>5 DEF Denominator
  <2>2. /\ WeightUpTo(m) \in Nat
        /\ WeightUpTo(m) = WeightUpTo(j.next) + SumFunctionOnSet(Weight, j.next + 1 .. m)
    BY <1>1, <1>3, WeightPage
  <2> QED
    BY ONLY <2>1, <2>2
<1>7. e \in 0 .. N /\ (m = N => e = 0) /\ (m # N => e = m) /\ e \in Nat
  BY <1>1
<1> HIDE DEF d, e
<1>8. i = [j EXCEPT !.denom = d, !.denomDone = (m = N), !.next = e]
  BY DEF WithPage, d, e
<1>9. i \in Jobs
  BY ONLY <1>2, <1>6, <1>7, <1>8 DEF Jobs, JobsOf, N
<1>10. /\ i.id = j.id /\ i.next = e /\ i.scanned = j.scanned
       /\ i.tranche = j.tranche /\ i.pot = j.pot /\ i.denom = d
       /\ i.denomDone = (m = N) /\ i.cat = j.cat /\ i.remSent = j.remSent
       /\ i.outcome = j.outcome /\ i.gross = j.gross /\ i.pending = j.pending
  BY <1>2, <1>8 DEF Jobs, JobsOf
<1>11. ~Waits(i) /\ j.pending = NoPending /\ i.pending = NoPending
  BY <1>5, <1>10 DEF Waits
<1>12. /\ Rest(V, i) = V /\ Rest(V, j) = V /\ Spent(i) = 0 /\ Spent(j) = 0
       /\ Committed(i) = 0 /\ Committed(j) = 0
  BY <1>5, <1>10, <1>11 DEF Rest, Waits, Spent, Committed, IsAccepted
<1>13. ScanOK(i, V)
  <2>1. i.denomDone => i.denom = WeightUpTo(N)
    BY <1>6, <1>10
  <2>2. ~i.denomDone => i.denom = WeightUpTo(i.next)
    BY <1>6, <1>7, <1>10
  <2> QED
    BY <1>5, <1>10, <1>11, <2>1, <2>2 DEF ScanOK
<1>14. PendingOK(i, V)
  BY <1>11 DEF PendingOK
<1>15. RemainderOK(i, V)
  BY <1>5, <1>10 DEF RemainderOK
<1>16. MoneyOK(i, V, k)
  <2>1. WeightUpTo(e) \in Nat
    BY <1>1, <1>7, WeightPage
  <2>2. 0 * i.denom = 0 /\ Pot * WeightUpTo(e) \in Nat
    BY <1>6, <1>10, <2>1, Consts, ProductNat
  <2>3. Total(OfJob(V, j.id)) <= 0 /\ Total(V) <= Pot * k + 0
    BY <1>4, <1>12 DEF MoneyOK
  <2>4. 0 * i.denom <= Pot * WeightUpTo(i.next)
    BY <1>10, <2>2
  <2> QED
    BY <1>4, <1>10, <1>12, <2>3, <2>4 DEF MoneyOK
<1>17. TimesOK(i, V, n)
  <2>1. j.cat <= n
    BY <1>4, <1>5 DEF TimesOK, ScanOK
  <2>2. j.cat <= n + 2 * e
    BY <1>1, <1>3, <1>7, <2>1
  <2> QED
    BY <1>4, <1>5, <1>10, <1>11, <2>1, <2>2 DEF TimesOK
<1>18. OutcomesOK(i, V)
  <2>1. \A x : BeingPaid(i, x) <=> BeingPaid(j, x)
    BY <1>10 DEF BeingPaid
  <2> QED
    BY <1>4, <1>10, <2>1 DEF OutcomesOK
<1>19. PassedOK(i)
  <2>1. m = N => 1 .. i.next = {}
    BY <1>7, <1>10
  <2> QED
    BY <1>10, <2>1 DEF PassedOK
<1> QED
  BY <1>5, <1>9, <1>10, <1>11, <1>13, <1>14, <1>15, <1>16, <1>17, <1>18, <1>19 DEF JobOK

\* A job is created for the next tranche.
LEMMA JobNew ==
  ASSUME NEW V, NEW n, Setting(V, n), NEW k \in Nat, NEW id \in Nat,
         \A tx \in V : tx.job < id /\ tx.cat < n,
         Total(V) <= Pot * k,
         NEW i, i = NewJob(id, k + 1, n)
  PROVE  /\ JobOK(i, V, k, n) /\ ~Waits(i) /\ i.id = id /\ i.tranche = k + 1
         /\ ~i.scanned /\ i.next = 0
<1>1. V \in SUBSET Txs /\ IsFiniteSet(V) /\ round \in Rounds /\ n \in Nat /\ N \in Nat
  BY SettingIs
<1>2. 0 \in 0 .. N /\ Items = 1 .. N
  BY <1>1 DEF Items, N
<1>3. /\ i.id = id /\ i.next = 0 /\ i.scanned = FALSE
      /\ i.tranche = k + 1 /\ i.pot = Pot /\ i.denom = 0
      /\ i.denomDone = FALSE /\ i.cat = n /\ i.remSent = FALSE
      /\ i.outcome = [x \in Items |-> "none"] /\ i.gross = 0 /\ i.pending = NoPending
  BY DEF NewJob
<1>4. i \in Jobs
  <2>1. Pot \in Nat /\ 0 \in Nat /\ k + 1 \in Nat
    BY Consts
  <2> QED
    BY <1>1, <1>2, <2>1 DEF NewJob, Jobs, JobsOf, Items, N
<1>5. ~Waits(i) /\ Rest(V, i) = V /\ Spent(i) = 0 /\ Committed(i) = 0
  BY <1>3 DEF Waits, Rest, Spent, Committed, IsAccepted
<1>6. OfJob(V, id) = {}
  <2>1. \A tx \in V : tx.job # id
    BY <1>1 DEF Txs
  <2> QED
    BY <2>1 DEF OfJob
<1>7. ScanOK(i, V)
  BY <1>3, <1>5, <1>6, WeightNone DEF ScanOK
<1>8. PendingOK(i, V)
  BY <1>5 DEF PendingOK
<1>9. RemainderOK(i, V)
  BY <1>3, <1>6 DEF RemainderOK
<1>10. MoneyOK(i, V, k)
  <2>1. Pot * k \in Nat /\ Pot \in Nat
    BY Consts, ProductNat
  <2>2. Total(OfJob(V, id)) <= 0 /\ Total(V) <= Pot * k + 0
    BY <1>6, <2>1, TotalNone
  <2>3. 0 * 0 <= Pot * 0
    BY <2>1
  <2> QED
    BY <1>3, <1>5, <2>1, <2>2, <2>3, WeightNone DEF MoneyOK
<1>11. TimesOK(i, V, n)
  BY <1>1, <1>3, <1>5 DEF TimesOK
<1>12. OutcomesOK(i, V)
  <2>1. \A x \in Items : i.outcome[x] = "none"
    BY <1>3
  <2> QED
    BY <2>1 DEF OutcomesOK
<1>13. PassedOK(i)
  BY <1>3 DEF PassedOK
<1> QED
  BY <1>3, <1>4, <1>5, <1>7, <1>8, <1>9, <1>10, <1>11, <1>12, <1>13 DEF JobOK

-----------------------------------------------------------------------------
(* The canister state: s with the job j and the dispatch record d.           *)

Record(j, started) == [job |-> j.id, pending |-> j.pending, started |-> started]
With(s, j, d) == [s EXCEPT !.job = j, !.dispatch = d]

LEMMA StoreIs ==
  ASSUME NEW V, NEW n, Setting(V, n), NEW s, BaseOK(s, V, n), s.job # NoJob
  PROVE  /\ s \in Stores /\ s.job \in Jobs /\ s.job.pot = Pot
         /\ JobOK(s.job, V, Len(closed), n) /\ Len(closed) \in Nat
         /\ s.job.id \in Nat
<1>1. s \in Stores /\ JobOK(s.job, V, Len(closed), n) /\ Len(closed) \in Nat
  BY SettingIs DEF BaseOK, JobBase
<1>2. s.job \in Jobs /\ s.job.pot = Pot
  BY <1>1 DEF JobOK, ScanOK
<1> QED
  BY <1>1, <1>2, SettingIs, JobIs

LEMMA WithFields ==
  ASSUME NEW s \in Stores, NEW j, NEW d
  PROVE  /\ With(s, j, d).job = j /\ With(s, j, d).dispatch = d
         /\ With(s, j, d).lock = s.lock /\ With(s, j, d).nonce = s.nonce
         /\ With(s, j, d).processed = s.processed /\ With(s, j, d).forced = s.forced
  BY DEF With, Stores

LEMMA BaseWith ==
  ASSUME NEW V, NEW n, Setting(V, n), NEW s, BaseOK(s, V, n), s.job # NoJob,
         NEW j, JobOK(j, V, Len(closed), n), j.id = s.job.id,
         j.tranche = s.job.tranche,
         NEW d \in Dispatches \cup {NoDispatch},
         d # NoDispatch => d.pending.phase = "awaiting"
  PROVE  BaseOK(With(s, j, d), V, n) /\ j # NoJob
<1>1. s \in Stores /\ round \in Rounds
  BY SettingIs DEF BaseOK
<1>2. j \in Jobs /\ j # NoJob
  BY <1>1, RoundIs DEF JobOK
<1>3. With(s, j, d) \in Stores
  BY <1>1, <1>2 DEF With, Stores
<1>4. /\ With(s, j, d).job = j /\ With(s, j, d).dispatch = d
      /\ With(s, j, d).lock = s.lock /\ With(s, j, d).nonce = s.nonce
      /\ With(s, j, d).processed = s.processed
  BY <1>1, WithFields
<1> DEFINE t == With(s, j, d)
<1> HIDE DEF t
<1>5. JobBase(t, V, n)
  BY <1>4 DEF BaseOK, JobBase, t
<1> QED
  BY <1>2, <1>3, <1>4, <1>5 DEF BaseOK, t

\* The pending transfer is added to the transfers that may be executed.
LEMMA BaseSent ==
  ASSUME NEW V, NEW n, Setting(V, n), NEW s, BaseOK(s, V, n), s.job # NoJob,
         Waits(s.job)
  PROVE  /\ BaseOK(s, V \cup {Pending(s.job)}, n)
         /\ Setting(V \cup {Pending(s.job)}, n)
<1> DEFINE P == Pending(s.job)
           U == V \cup {P}
<1>1. /\ s \in Stores /\ s.job \in Jobs /\ JobOK(s.job, V, Len(closed), n)
      /\ Len(closed) \in Nat
  BY StoreIs
<1>2. JobOK(s.job, U, Len(closed), n) /\ Setting(U, n)
  BY <1>1, JobSent
<1>3. P.job = s.job.id
  BY DEF Pending, Tx
<1> HIDE DEF P
<1>4. JobBase(s, U, n)
  BY <1>2 DEF BaseOK, JobBase
<1>5. ASSUME NEW k \in 1 .. Len(closed) PROVE ClosedOK(k, U, s.nonce)
  <2>1. closed[k] \in Jobs /\ closed[k].id < s.job.id /\ ClosedOK(k, V, s.nonce)
    BY DEF BaseOK, JobBase, ClosedOK
  <2>2. closed[k].id \in Nat /\ s.job.id \in Nat
    BY <1>1, <2>1, SettingIs, JobIs
  <2>3. OfJob(U, closed[k].id) = OfJob(V, closed[k].id)
    BY <1>3, <2>1, <2>2 DEF OfJob
  <2> QED
    BY <2>1, <2>3 DEF ClosedOK, OutcomesOK
<1>6. \A tx \in U : tx.job < s.nonce
  BY <1>3 DEF BaseOK, JobBase
<1> QED
  BY <1>2, <1>4, <1>5, <1>6 DEF BaseOK, P

\* The updates of the code, as a new job and a new dispatch record.
LEMMA SetDispatchIs ==
  ASSUME NEW s \in Stores, NEW b
  PROVE  SetDispatch(s, b) = With(s, s.job, Record(s.job, b))
  BY DEF SetDispatch, With, Record, Stores

LEMMA StageRemainderIs ==
  ASSUME NEW s \in Stores, s.job \in Jobs, NEW cat,
         NEW j, j = WithRemainder(s.job, cat)
  PROVE  Stage(s, "remainder", 0, Remainder(s.job), cat) = With(s, j, Record(j, FALSE))
  BY DEF WithRemainder, Stage, SetDispatch, With, Record, Fresh, NextAt, Stores, Jobs, JobsOf

LEMMA StageItemIs ==
  ASSUME NEW s \in Stores, s.job \in Jobs, NEW cat, NEW m,
         NEW j, j = WithItem(s.job, m, cat)
  PROVE  Stage([s EXCEPT !.job.next = m], Kind[m], m, Share(s.job, m), cat)
           = With(s, j, Record(j, FALSE))
  BY DEF WithItem, Stage, SetDispatch, With, Record, Fresh, NextAt, Stores, Jobs, JobsOf

LEMMA StageFallbackIs ==
  ASSUME NEW s \in Stores, s.job \in Jobs, NEW cat, NEW g, NEW w,
         NEW j, j = WithFallback(s.job, g, w, cat)
  PROVE  Stage([s EXCEPT !.job.gross = g], "fallback", s.job.pending.item, w, cat)
           = With(s, j, Record(j, FALSE))
  BY DEF WithFallback, Stage, SetDispatch, With, Record, Fresh, NextAt, Stores, Jobs, JobsOf

LEMMA ClearedGrossIs ==
  ASSUME NEW s \in Stores, s.job \in Jobs, NEW status, NEW g
  PROVE  Cleared([s EXCEPT !.job.gross = g], status)
           = With(s, Booked(s.job, g, status), NoDispatch)
  BY DEF Cleared, With, Booked, Count, Stores, Jobs, JobsOf

LEMMA ClearedIs ==
  ASSUME NEW s \in Stores, s.job \in Jobs, NEW status
  PROVE  Cleared(s, status) = With(s, Booked(s.job, s.job.gross, status), NoDispatch)
<1>1. [s EXCEPT !.job.gross = s.job.gross] = s
  BY DEF Stores, Jobs, JobsOf
<1>2. Cleared([s EXCEPT !.job.gross = s.job.gross], status)
        = With(s, Booked(s.job, s.job.gross, status), NoDispatch)
  BY ClearedGrossIs
<1> QED
  BY <1>1, <1>2

LEMMA AcceptedIs ==
  ASSUME NEW s \in Stores, s.job \in Jobs, s.job.pending \in Pendings
  PROVE  Accepted(s) = With(s, WithAccepted(s.job), s.dispatch)
  BY DEF Accepted, WithAccepted, With, Stores, Jobs, JobsOf, Pendings, PendingsOf

-----------------------------------------------------------------------------
(* What the code between two awaits does.  Activation p, which began at n and *)
(* holds the lease, has reached the local state a and the canister state s;  *)
(* V are all the transfers that may be executed.                             *)

Holder(p, a, s, V, n) ==
  /\ p \in Proc /\ act \in [Proc -> Activations]
  /\ Setting(V, n) /\ BaseOK(s, V, n)
  /\ a \in Activations /\ a.start = n /\ a.expiry = LeaseExpiry(n, Lease)
  /\ s.lock = a.expiry

Flight(b) == IF InFlight(b) THEN {Request(b)} ELSE {}

\* A step ends well: b is what becomes of the activation.
EndsAs(b, s, V, n) ==
  /\ WildOK(V \cup Flight(b), n) /\ StoreOK(s, V \cup Flight(b), n)
  /\ OwnOK(b, n) /\ (b.pc # "idle" => b.start = n)
  /\ b.pc # "idle" /\ s.lock = LeaseExpiry(n, Lease) => HolderOK(b, s, V, n)

Outcome(p, V, n) ==
  \E b \in Activations : act' = [act EXCEPT ![p] = b] /\ EndsAs(b, st', V, n)

LEMMA AtIs ==
  ASSUME round \in Rounds, NEW a \in Activations, NEW pc \in Pcs
  PROVE  /\ Idle \in Activations /\ At(a, pc) \in Activations
         /\ Idle.pc = "idle" /\ At(a, pc).pc = pc
         /\ At(a, pc).start = a.start /\ At(a, pc).expiry = a.expiry
         /\ At(a, pc).got = FALSE /\ At(a, pc).mode = "top"
<1>1. 0 \in 0 .. NItems /\ 0 \in 0 .. 2 /\ 0 \in Nat
  BY RoundIs DEF N
<1>2. Idle \in Activations
  BY <1>1 DEF Idle, Activations, Pcs
<1>3. At(a, pc) \in Activations
  BY <1>2 DEF At, Activations
<1>4. /\ At(a, pc).pc = pc /\ At(a, pc).start = a.start /\ At(a, pc).expiry = a.expiry
      /\ At(a, pc).got = FALSE /\ At(a, pc).mode = "top"
  BY DEF At, Idle
<1> QED
  BY <1>2, <1>3, <1>4 DEF Idle

\* The lease is given back.
LEMMA BaseReleased ==
  ASSUME NEW V, NEW n, Setting(V, n), NEW s, BaseOK(s, V, n),
         NEW l \in {Unlocked, LeaseExpiry(n, Lease)},
         NEW t, t = [s EXCEPT !.lock = l]
  PROVE  /\ BaseOK(t, V, n) /\ t.lock = l /\ t.job = s.job /\ t.dispatch = s.dispatch
         /\ (DispatchOK(s) => DispatchOK(t))
<1>1. s \in Stores
  BY DEF BaseOK
<1>2. l \in Nat
  BY SettingIs, Consts DEF Unlocked, LeaseExpiry
<1>3. t \in Stores
  BY <1>1, <1>2 DEF Stores
<1>4. /\ t.lock = l /\ t.job = s.job /\ t.dispatch = s.dispatch
      /\ t.nonce = s.nonce /\ t.processed = s.processed
  BY <1>1 DEF Stores
<1>5. BaseOK(t, V, n)
  BY <1>3, <1>4 DEF BaseOK, JobBase
<1> QED
  BY <1>4, <1>5 DEF DispatchOK, MayHaveDispatched

LEMMA Returns ==
  ASSUME NEW p, NEW a, NEW s, NEW V, NEW n, Holder(p, a, s, V, n), DispatchOK(s),
         Return(p, a, s)
  PROVE  Outcome(p, V, n)
<1>1. round \in Rounds /\ n \in Nat /\ WildOK(V, n)
  BY SettingIs DEF Holder, Setting
<1>2. a \in Activations /\ s.lock = a.expiry /\ BaseOK(s, V, n) /\ a.start = n
      /\ a.expiry = LeaseExpiry(n, Lease)
  BY DEF Holder
<1>3. CASE Finish(p, a, s)
  <2>1. st' = [s EXCEPT !.lock = Unlocked]
    BY <1>2, <1>3 DEF Finish, Released, Stores, BaseOK
  <2>2. BaseOK(st', V, n) /\ DispatchOK(st')
    BY <1>2, <2>1, BaseReleased DEF Holder
  <2>3. Idle \in Activations /\ Idle.pc = "idle"
    BY <1>1, <1>2, AtIs DEF Pcs
  <2>4. V \cup Flight(Idle) = V
    BY <2>3 DEF Flight, InFlight
  <2>5. EndsAs(Idle, st', V, n)
    BY <1>1, <2>2, <2>3, <2>4 DEF EndsAs, StoreOK, OwnOK
  <2>6. act' = [act EXCEPT ![p] = Idle]
    BY <1>3 DEF Finish
  <2> QED
    BY <2>3, <2>5, <2>6 DEF Outcome
<1>4. CASE st' = s /\ act' = [act EXCEPT ![p] = At(a, "tail")]
  <2> DEFINE b == At(a, "tail")
  <2>1. b \in Activations /\ b.pc = "tail" /\ b.start = n /\ b.expiry = LeaseExpiry(n, Lease)
    BY <1>1, <1>2, AtIs DEF Pcs
  <2>2. act' = [act EXCEPT ![p] = b]
    BY <1>4
  <2> HIDE DEF b
  <2>3. V \cup Flight(b) = V
    BY <2>1 DEF Flight, InFlight
  <2>4. OwnOK(b, n) /\ HolderOK(b, st', V, n)
    BY <1>1, <2>1 DEF OwnOK, HolderOK
  <2>5. EndsAs(b, st', V, n)
    BY <1>1, <1>2, <1>4, <2>1, <2>3, <2>4 DEF EndsAs, StoreOK
  <2> QED
    BY <2>1, <2>2, <2>5 DEF Outcome
<1> QED
  BY <1>3, <1>4 DEF Return

\* A call is awaited: a with the job it is for.
Awaits(a, s) == [a EXCEPT !.job = s.job.id, !.got = FALSE, !.verdict = "none"]

LEMMA AwaitsIs ==
  ASSUME NEW a \in Activations, NEW s, s.job.id \in Nat
  PROVE  /\ Awaits(a, s) \in Activations
         /\ Awaits(a, s).job = s.job.id /\ Awaits(a, s).got = FALSE
         /\ Awaits(a, s).pc = a.pc /\ Awaits(a, s).start = a.start
         /\ Awaits(a, s).expiry = a.expiry /\ Awaits(a, s).mode = a.mode
         /\ Awaits(a, s).cursor = a.cursor /\ Awaits(a, s).pos = a.pos
         /\ Awaits(a, s).end = a.end /\ Awaits(a, s).pend = a.pend
         /\ Awaits(a, s).attempt = a.attempt /\ Awaits(a, s).prior = a.prior
         /\ Awaits(a, s).terminal = a.terminal
  BY DEF Awaits, Activations

LEMMA WaitEnds ==
  ASSUME NEW p, NEW a \in Activations, NEW s, NEW V, NEW n, s.job.id \in Nat,
         Wait(p, a, s), EndsAs(Awaits(a, s), s, V, n)
  PROVE  Outcome(p, V, n)
<1>1. Awaits(a, s) \in Activations
  BY AwaitsIs
<1>2. act' = [act EXCEPT ![p] = Awaits(a, s)] /\ st' = s
  BY DEF Wait, Awaits
<1> QED
  BY <1>1, <1>2 DEF Outcome

LEMMA RecordIs ==
  ASSUME round \in Rounds, NEW j \in Jobs, Waits(j), NEW b \in BOOLEAN
  PROVE  /\ Record(j, b) \in Dispatches /\ Record(j, b).pending = j.pending
         /\ Record(j, b).job = j.id /\ Record(j, b).started = b
         /\ Record(j, b) # NoDispatch
<1>1. j.pending \in Pendings /\ j.id \in Nat
  BY JobIs DEF Waits
<1>2. Record(j, b) \in Dispatches
  BY <1>1 DEF Record, Dispatches, DispatchesOf, Pendings
<1> QED
  BY <1>1, <1>2, RoundIs DEF Record

\* The pending transfer is sent.
SendFrom(a, s, k) ==
  [a EXCEPT !.pc = "transfer", !.pend = s.job.pending, !.attempt = k,
            !.prior = MayHaveDispatched(s), !.terminal = FALSE]

LEMMA SendFromIs ==
  ASSUME round \in Rounds, NEW a \in Activations, NEW s, s.job.pending \in Pendings,
         NEW k \in {1, 2}
  PROVE  /\ SendFrom(a, s, k) \in Activations
         /\ SendFrom(a, s, k).pc = "transfer" /\ SendFrom(a, s, k).pend = s.job.pending
         /\ SendFrom(a, s, k).attempt = k
         /\ SendFrom(a, s, k).prior <=> MayHaveDispatched(s)
         /\ SendFrom(a, s, k).start = a.start
         /\ SendFrom(a, s, k).expiry = a.expiry /\ SendFrom(a, s, k).mode = a.mode
         /\ SendFrom(a, s, k).cursor = a.cursor /\ SendFrom(a, s, k).pos = a.pos
         /\ SendFrom(a, s, k).end = a.end
<1> DEFINE m == MayHaveDispatched(s)
<1>1. m \in BOOLEAN
  BY DEF MayHaveDispatched
<1>2. k \in 0 .. 2 /\ "transfer" \in Pcs /\ FALSE \in BOOLEAN
  BY DEF Pcs
<1> HIDE DEF m
<1>3. SendFrom(a, s, k) = [a EXCEPT !.pc = "transfer", !.pend = s.job.pending,
                             !.attempt = k, !.prior = m, !.terminal = FALSE]
  BY DEF SendFrom, m
<1>4. SendFrom(a, s, k) \in Activations
  BY <1>1, <1>2, <1>3 DEF Activations
<1> QED
  BY <1>1, <1>3, <1>4 DEF Activations, m

LEMMA Sends ==
  ASSUME NEW p, NEW a, NEW s, NEW V, NEW n, Holder(p, a, s, V, n),
         s.job # NoJob, Waits(s.job), s.job.pending.phase = "awaiting",
         PlaceOK(a, s.job),
         a.mode = "top" /\ s.job.pending.item = 0 => MayHaveDispatched(s),
         ~MayHaveDispatched(s) => Pending(s.job) \notin V,
         NEW k \in {1, 2}, Send(p, a, s, k)
  PROVE  Outcome(p, V, n)
<1> DEFINE j == s.job
           b0 == SendFrom(a, s, k)
           t == With(s, j, Record(j, TRUE))
           b == Awaits(b0, t)
           U == V \cup {Pending(j)}
<1>1. /\ round \in Rounds /\ n \in Nat /\ WildOK(V, n) /\ Setting(V, n)
      /\ BaseOK(s, V, n) /\ a \in Activations /\ a.start = n
      /\ a.expiry = LeaseExpiry(n, Lease)
  BY SettingIs DEF Holder, Setting
<1>2. /\ s \in Stores /\ j \in Jobs /\ JobOK(j, V, Len(closed), n)
      /\ Len(closed) \in Nat /\ j.id \in Nat
  BY <1>1, StoreIs
<1>3. j.pending \in Pendings /\ j.pending # NoPending
  BY <1>1, <1>2, PendingTx DEF Waits
<1>4. Record(j, TRUE) \in Dispatches /\ Record(j, TRUE).pending = j.pending
      /\ Record(j, TRUE).job = j.id /\ Record(j, TRUE).started = TRUE
      /\ Record(j, TRUE) # NoDispatch
  BY <1>1, <1>2, RecordIs
<1>5. SetDispatch(s, TRUE) = t
  BY <1>2, SetDispatchIs
<1>6. t.job = j /\ t.dispatch = Record(j, TRUE) /\ t.lock = s.lock
  BY ONLY <1>2 DEF With, Stores
<1>7. BaseOK(t, V, n)
  BY <1>1, <1>2, <1>4, BaseWith
<1>8. Wait(p, b0, t)
  BY <1>5 DEF Send, SendFrom
<1>9. /\ b0 \in Activations /\ b0.pc = "transfer" /\ b0.pend = j.pending
      /\ b0.attempt = k /\ (b0.prior <=> MayHaveDispatched(s)) /\ b0.start = n
      /\ b0.expiry = LeaseExpiry(n, Lease) /\ b0.mode = a.mode /\ b0.cursor = a.cursor
      /\ b0.pos = a.pos /\ b0.end = a.end
  BY <1>1, <1>3, SendFromIs
<1> HIDE DEF j, b0, t
<1>10. /\ b \in Activations /\ b.pc = "transfer" /\ b.pend = j.pending
       /\ b.attempt = k /\ b.prior = b0.prior /\ b.start = n
       /\ b.expiry = LeaseExpiry(n, Lease) /\ b.mode = a.mode /\ b.cursor = a.cursor
       /\ b.pos = a.pos /\ b.end = a.end /\ b.got = FALSE /\ b.job = j.id
  <2>1. t.job.id \in Nat /\ t.job.id = j.id
    BY <1>2, <1>6
  <2> QED
    BY ONLY <1>9, <2>1, AwaitsIs
<1>11. Waits(t.job) /\ t.job # NoJob
  BY <1>6 DEF j
<1>12. BaseOK(t, U, n) /\ Setting(U, n)
  BY <1>1, <1>6, <1>7, <1>11, BaseSent
<1> HIDE DEF b
<1>13. Request(b) = Pending(j) /\ Flight(b) = {Pending(j)}
  BY <1>10 DEF Request, Pending, Flight, InFlight
<1>14. DispatchOK(t)
  BY <1>4, <1>6 DEF DispatchOK, MayHaveDispatched
<1>15. OwnOK(b, n)
  BY <1>1, <1>3, <1>10 DEF OwnOK
<1>16. PlaceOK(b, j)
  BY <1>10 DEF PlaceOK, j
<1>17. HolderOK(b, t, V, n)
  <2>1. t.job.pending.phase = "awaiting"
    BY <1>6 DEF j
  <2>2. b.mode = "top" /\ j.pending.item = 0 => b.prior
    BY <1>9, <1>10 DEF j
  <2>3. ~b.prior => Request(b) \notin V
    BY <1>9, <1>10, <1>13 DEF j
  <2> QED
    BY <1>6, <1>10, <1>16, <2>1, <2>2, <2>3 DEF HolderOK
<1>18. EndsAs(b, t, V, n)
  BY <1>10, <1>12, <1>13, <1>14, <1>15, <1>17 DEF EndsAs, StoreOK, Setting
<1>19. t.job.id \in Nat
  BY <1>2, <1>6
<1> QED
  BY <1>8, <1>9, <1>18, <1>19, WaitEnds DEF b

\* A call other than a transfer is awaited.
LEMMA Calls ==
  ASSUME NEW p, NEW a, NEW s, NEW V, NEW n, Holder(p, a, s, V, n),
         s.job # NoJob, DispatchOK(s),
         NEW c \in Activations, c.pc \notin {"idle", "transfer"}, c.start = n,
         OwnOK(Awaits(c, s), n), HolderOK(Awaits(c, s), s, V, n),
         Wait(p, c, s)
  PROVE  Outcome(p, V, n)
<1>1. /\ Setting(V, n) /\ WildOK(V, n) /\ BaseOK(s, V, n)
  BY DEF Holder, Setting
<1>2. s.job.id \in Nat
  BY <1>1, StoreIs
<1>3. Awaits(c, s).pc = c.pc /\ Awaits(c, s).start = n
  BY <1>2, AwaitsIs
<1>4. V \cup Flight(Awaits(c, s)) = V
  BY <1>3 DEF Flight, InFlight
<1>5. EndsAs(Awaits(c, s), s, V, n)
  BY <1>1, <1>3, <1>4 DEF EndsAs, StoreOK
<1> QED
  BY <1>2, <1>5, WaitEnds

LEMMA Finalizes ==
  ASSUME NEW p, NEW a, NEW s, NEW V, NEW n, Holder(p, a, s, V, n),
         s.job # NoJob, ~Waits(s.job), s.job.scanned,
         Finalize(p, a, s)
  PROVE  Outcome(p, V, n)
<1> DEFINE c == At(a, "status")
           b == Awaits(c, s)
<1>1. /\ Setting(V, n) /\ round \in Rounds /\ n \in Nat /\ BaseOK(s, V, n)
      /\ a \in Activations /\ a.start = n /\ a.expiry = LeaseExpiry(n, Lease)
  BY SettingIs DEF Holder
<1>2. s.job.id \in Nat
  BY <1>1, StoreIs
<1>3. /\ c \in Activations /\ c.pc = "status" /\ c.start = n
      /\ c.expiry = LeaseExpiry(n, Lease)
  BY <1>1, AtIs DEF Pcs
<1> HIDE DEF c
<1>4. b.pc = "status" /\ b.start = n /\ b.expiry = LeaseExpiry(n, Lease)
  BY <1>2, <1>3, AwaitsIs
<1> HIDE DEF b
<1>5. OwnOK(b, n)
  BY <1>1, <1>4 DEF OwnOK
<1>6. HolderOK(b, s, V, n)
  BY <1>4 DEF HolderOK
<1>7. DispatchOK(s)
  BY DEF DispatchOK
<1>8. Wait(p, c, s)
  BY DEF Finalize, c
<1> QED
  BY <1>3, <1>5, <1>6, <1>7, <1>8, Calls DEF b

\* An accepted transfer matches no dispatch record.
LEMMA AcceptedDispatch ==
  ASSUME NEW V, NEW n, NEW s, BaseOK(s, V, n), s.job # NoJob, IsAccepted(s.job)
  PROVE  DispatchOK(s)
  BY DEF DispatchOK, MayHaveDispatched, BaseOK, IsAccepted

LEMMA Notifies ==
  ASSUME NEW p, NEW a, NEW s, NEW V, NEW n, Holder(p, a, s, V, n),
         s.job # NoJob, IsAccepted(s.job), s.job.pending.kind = "topup",
         PlaceOK(a, s.job), NEW k \in {1, 2}, NEW t \in BOOLEAN,
         t => Pending(s.job) \in rejected, Notify(p, a, s, k, t)
  PROVE  Outcome(p, V, n)
<1> DEFINE j == s.job
           c == [a EXCEPT !.pc = "notify", !.pend = j.pending, !.attempt = k,
                          !.prior = FALSE, !.terminal = t]
           b == Awaits(c, s)
<1>1. /\ Setting(V, n) /\ round \in Rounds /\ n \in Nat /\ BaseOK(s, V, n)
      /\ a \in Activations /\ a.start = n /\ a.expiry = LeaseExpiry(n, Lease)
  BY SettingIs DEF Holder
<1>2. j.id \in Nat /\ JobOK(j, V, Len(closed), n) /\ Waits(j) /\ Len(closed) \in Nat
  BY <1>1, StoreIs DEF IsAccepted
<1>3. j.pending \in Pendings /\ j.pending # NoPending /\ j.pending.phase = "accepted"
      /\ Pending(j) \in blocks
  <2>1. j.pending \in Pendings
    BY <1>1, <1>2, PendingTx
  <2> QED
    BY <1>2, <2>1 DEF IsAccepted, JobOK, PendingOK, Waits
<1> HIDE DEF j
<1>4. /\ c \in Activations /\ c.pc = "notify" /\ c.start = n /\ c.pend = j.pending
      /\ c.attempt = k /\ (c.terminal <=> t) /\ c.mode = a.mode /\ c.cursor = a.cursor
      /\ c.pos = a.pos /\ c.end = a.end /\ c.expiry = LeaseExpiry(n, Lease)
  <2>1. k \in 0 .. 2 /\ "notify" \in Pcs
    BY DEF Pcs
  <2> QED
    BY <1>1, <1>3, <2>1 DEF Activations
<1>5. Wait(p, c, s)
  BY DEF Notify, j
<1> HIDE DEF c
<1>6. /\ b.pc = "notify" /\ b.start = n /\ b.pend = j.pending /\ b.job = j.id
      /\ b.attempt = k /\ (b.terminal <=> t) /\ b.mode = a.mode /\ b.cursor = a.cursor
      /\ b.pos = a.pos /\ b.end = a.end /\ b.expiry = LeaseExpiry(n, Lease)
      /\ b.got = FALSE
  <2>1. s.job.id \in Nat /\ s.job.id = j.id
    BY <1>2 DEF j
  <2>2. /\ b.pc = c.pc /\ b.start = c.start /\ b.pend = c.pend /\ b.job = s.job.id
        /\ b.attempt = c.attempt /\ b.terminal = c.terminal /\ b.mode = c.mode
        /\ b.cursor = c.cursor /\ b.pos = c.pos /\ b.end = c.end
        /\ b.expiry = c.expiry /\ b.got = FALSE
    <3>1. c \in Activations /\ s.job.id \in Nat
      BY <1>4, <2>1
    <3> QED
      BY ONLY <3>1, AwaitsIs
  <2>3. (b.terminal <=> t) /\ b.start = n /\ b.expiry = LeaseExpiry(n, Lease)
    BY ONLY <1>4, <2>2
  <2> HIDE DEF b
  <2> QED
    BY ONLY <1>4, <2>1, <2>2, <2>3
<1> HIDE DEF b
<1>7. Request(b) = Pending(j)
  BY <1>6 DEF Request, Pending
<1>8. OwnOK(b, n)
  BY <1>1, <1>3, <1>6, <1>7 DEF OwnOK, j
<1>9. PlaceOK(b, j)
  BY <1>6 DEF PlaceOK, j
<1>10. HolderOK(b, s, V, n)
  BY <1>3, <1>6, <1>9 DEF HolderOK, j
<1>11. DispatchOK(s)
  BY <1>1, AcceptedDispatch
<1> QED
  BY <1>4, <1>5, <1>8, <1>10, <1>11, Calls DEF b

LEMMA Claims ==
  ASSUME NEW p, NEW a, NEW s, NEW V, NEW n, Holder(p, a, s, V, n),
         s.job # NoJob, IsAccepted(s.job), s.job.pending.kind = "stake",
         PlaceOK(a, s.job),
         Wait(p, [a EXCEPT !.pc = "claim", !.pend = s.job.pending,
                           !.attempt = 0, !.prior = FALSE], s)
  PROVE  Outcome(p, V, n)
<1> DEFINE j == s.job
           c == [a EXCEPT !.pc = "claim", !.pend = j.pending, !.attempt = 0,
                          !.prior = FALSE]
           b == Awaits(c, s)
<1>1. /\ Setting(V, n) /\ round \in Rounds /\ n \in Nat /\ BaseOK(s, V, n)
      /\ a \in Activations /\ a.start = n /\ a.expiry = LeaseExpiry(n, Lease)
  BY SettingIs DEF Holder
<1>2. j.id \in Nat /\ JobOK(j, V, Len(closed), n) /\ Waits(j) /\ Len(closed) \in Nat
  BY <1>1, StoreIs DEF IsAccepted
<1>3. j.pending \in Pendings /\ j.pending # NoPending /\ j.pending.phase = "accepted"
  BY <1>1, <1>2, PendingTx DEF IsAccepted, Waits
<1> HIDE DEF j
<1>4. /\ c \in Activations /\ c.pc = "claim" /\ c.start = n /\ c.pend = j.pending
      /\ c.mode = a.mode /\ c.cursor = a.cursor
      /\ c.pos = a.pos /\ c.end = a.end /\ c.expiry = LeaseExpiry(n, Lease)
  <2>1. 0 \in 0 .. 2 /\ "claim" \in Pcs
    BY DEF Pcs
  <2> QED
    BY <1>1, <1>3, <2>1 DEF Activations
<1>5. Wait(p, c, s)
  BY DEF j
<1> HIDE DEF c
<1>6. /\ b.pc = "claim" /\ b.start = n /\ b.pend = j.pending /\ b.job = j.id
      /\ b.mode = a.mode /\ b.cursor = a.cursor
      /\ b.pos = a.pos /\ b.end = a.end /\ b.expiry = LeaseExpiry(n, Lease)
  <2>1. s.job.id \in Nat /\ s.job.id = j.id
    BY <1>2 DEF j
  <2> QED
    BY ONLY <1>4, <2>1, AwaitsIs
<1> HIDE DEF b
<1>8. OwnOK(b, n)
  BY <1>1, <1>3, <1>6 DEF OwnOK
<1>9. PlaceOK(b, j)
  BY <1>6 DEF PlaceOK, j
<1>10. HolderOK(b, s, V, n)
  BY <1>3, <1>6, <1>9 DEF HolderOK, j
<1>11. DispatchOK(s)
  BY <1>1, AcceptedDispatch
<1> QED
  BY <1>4, <1>5, <1>8, <1>10, <1>11, Calls DEF b

\* The holder goes on from c with the job i, whose transfer is to be sent.
LEMMA StagesOn ==
  ASSUME NEW p, NEW a, NEW s, NEW V, NEW n, Holder(p, a, s, V, n),
         s.job # NoJob,
         NEW c \in Activations, c.start = n, c.expiry = LeaseExpiry(n, Lease),
         NEW i, JobOK(i, V, Len(closed), n), i.id = s.job.id,
         i.tranche = s.job.tranche, Waits(i), i.pending.phase = "awaiting",
         Pending(i) \notin V, PlaceOK(c, i),
         c.mode = "top" => i.pending.item # 0,
         NEW k \in {1, 2}, Send(p, c, With(s, i, Record(i, FALSE)), k)
  PROVE  Outcome(p, V, n)
<1> DEFINE d == Record(i, FALSE)
           t == With(s, i, d)
<1>1. /\ Setting(V, n) /\ round \in Rounds /\ BaseOK(s, V, n) /\ s \in Stores
  BY SettingIs DEF Holder, BaseOK
<1>2. i \in Jobs
  BY DEF JobOK
<1>3. d \in Dispatches /\ d.pending = i.pending
  BY <1>1, <1>2, RecordIs
<1> HIDE DEF d
<1>4. BaseOK(t, V, n) /\ i # NoJob
  BY <1>1, <1>3, BaseWith
<1>5. t.job = i /\ t.lock = s.lock
  BY <1>1, WithFields
<1>6. Send(p, c, t, k)
  BY DEF d
<1> HIDE DEF t
<1>7. Holder(p, c, t, V, n)
  BY <1>4, <1>5 DEF Holder
<1> QED
  BY <1>4, <1>5, <1>6, <1>7, Sends

\* The job is ready for the main loop.
LoopReady(j, n) == j.scanned => j.cat <= n + 2 * N \/ j.remSent \/ j.gross = Pot

LEMMA Loops ==
  ASSUME NEW p, NEW a, NEW s, NEW V, NEW n, Holder(p, a, s, V, n),
         s.job # NoJob, ~Waits(s.job), LoopReady(s.job, n), Loop(p, a, s)
  PROVE  Outcome(p, V, n)
<1> DEFINE j == s.job
<1>1. /\ Setting(V, n) /\ round \in Rounds /\ n \in Nat /\ BaseOK(s, V, n)
      /\ a \in Activations /\ a.start = n /\ a.expiry = LeaseExpiry(n, Lease)
  BY SettingIs DEF Holder
<1>2. /\ s \in Stores /\ j \in Jobs /\ j.id \in Nat /\ JobOK(j, V, Len(closed), n)
      /\ Len(closed) \in Nat /\ j.pot = Pot
  BY <1>1, StoreIs
<1>3. /\ j.next \in 0 .. N /\ j.gross \in Nat /\ j.denomDone \in BOOLEAN /\ j.scanned \in BOOLEAN
  BY <1>1, <1>2, JobIs
<1>4. DispatchOK(s)
  BY DEF DispatchOK
<1>5. CASE ~j.scanned
  <2> DEFINE m == IF j.denomDone THEN "page" ELSE "denom"
             c == [At(a, "index") EXCEPT !.cursor = j.next, !.mode = m]
             b == Awaits(c, s)
  <2>1. Wait(p, c, s)
    BY <1>5 DEF Loop
  <2>2. At(a, "index") \in Activations /\ At(a, "index").pc = "index"
        /\ At(a, "index").start = n /\ At(a, "index").expiry = LeaseExpiry(n, Lease)
    BY <1>1, AtIs DEF Pcs
  <2>3. m \in {"denom", "page"}
    OBVIOUS
  <2> HIDE DEF m
  <2>4. /\ c \in Activations /\ c.pc = "index" /\ c.mode = m /\ c.start = n
        /\ c.expiry = LeaseExpiry(n, Lease)
    BY <1>3, <2>2, <2>3 DEF Activations, N
  <2> HIDE DEF c
  <2>5. b.pc = "index" /\ b.mode = m /\ b.start = n /\ b.expiry = LeaseExpiry(n, Lease)
    BY <1>2, <2>4, AwaitsIs
  <2> HIDE DEF b
  <2>6. OwnOK(b, n) /\ HolderOK(b, s, V, n)
    BY <1>1, <2>3, <2>5 DEF OwnOK, HolderOK
  <2> QED
    BY <1>4, <2>1, <2>4, <2>6, Calls DEF b
<1>6. CASE j.scanned /\ Remainder(j) > Fee /\ ~j.remSent
  <2> DEFINE c == [At(a, "transfer") EXCEPT !.mode = "remainder"]
  <2>1. PICK al : al = AllocatedAt(j, n)
    OBVIOUS
  <2>2. PICK i : i = WithRemainder(j, al)
    OBVIOUS
  <2>3. Send(p, c, Stage(s, "remainder", 0, Remainder(j), al), 1)
    BY <1>1, <1>6, <2>1 DEF Loop
  <2>4. Stage(s, "remainder", 0, Remainder(j), al) = With(s, i, Record(i, FALSE))
    BY <1>2, <2>2, StageRemainderIs
  <2>5. j.cat <= n + 2 * N
    <3>1. j.gross # Pot
      BY <1>2, <1>3, <1>6, Consts DEF Remainder
    <3> QED
      BY <1>6, <3>1 DEF LoopReady
  <2>6. ~Waits(j)
    OBVIOUS
  <2>7. /\ c \in Activations /\ c.mode = "remainder" /\ c.start = n
        /\ c.expiry = LeaseExpiry(n, Lease)
    <3>1. At(a, "transfer") \in Activations
          /\ At(a, "transfer").start = n /\ At(a, "transfer").expiry = LeaseExpiry(n, Lease)
      BY <1>1, AtIs DEF Pcs
    <3> QED
      BY <3>1 DEF Activations
  <2> HIDE DEF c
  <2>8. Send(p, c, With(s, i, Record(i, FALSE)), 1)
    BY <2>3, <2>4
  <2>9. /\ JobOK(i, V, Len(closed), n) /\ Waits(i) /\ i.pending.phase = "awaiting"
        /\ i.id = j.id /\ i.scanned /\ i.tranche = j.tranche
        /\ Pending(i) \notin V
    BY <1>1, <1>2, <1>6, <2>1, <2>2, <2>5, <2>6, JobRemainder
  <2>10. PlaceOK(c, i)
    BY <2>7, <2>9 DEF PlaceOK
  <2>11. c.mode # "top" /\ 1 \in {1, 2}
    BY <2>7
  <2> QED
    BY <2>7, <2>8, <2>9, <2>10, <2>11, StagesOn
<1>7. CASE j.scanned /\ ~(Remainder(j) > Fee /\ ~j.remSent)
  <2>1. Finalize(p, a, s)
    BY <1>7 DEF Loop
  <2> QED
    BY <1>7, <2>1, Finalizes
<1> QED
  BY <1>5, <1>6, <1>7

\* The transfer for record m of the page is staged and sent.
LEMMA StagesItem ==
  ASSUME NEW p, NEW a, NEW s, NEW V, NEW n, Holder(p, a, s, V, n),
         s.job # NoJob, ~Waits(s.job), s.job.denomDone, ~s.job.scanned,
         NEW m \in 1 .. N, s.job.next < m, m <= a.end, Share(s.job, m) > Fee,
         \A x \in 1 .. m - 1 : Share(s.job, x) > Fee => s.job.outcome[x] # "none",
         StageItem(p, a, s, m)
  PROVE  Outcome(p, V, n)
<1> DEFINE j == s.job
           c == [a EXCEPT !.mode = "page", !.pos = m, !.cursor = m]
<1>1. /\ Setting(V, n) /\ round \in Rounds /\ n \in Nat /\ BaseOK(s, V, n)
      /\ a \in Activations /\ a.start = n /\ a.expiry = LeaseExpiry(n, Lease)
  BY SettingIs DEF Holder
<1>2. /\ s \in Stores /\ j \in Jobs /\ j.id \in Nat /\ JobOK(j, V, Len(closed), n)
      /\ Len(closed) \in Nat /\ j.pot = Pot
  BY <1>1, StoreIs
<1>3. PICK al : al = AllocatedAt(j, n)
  OBVIOUS
<1>4. PICK i : i = WithItem(j, m, al)
  OBVIOUS
<1>5. Send(p, c, Stage([s EXCEPT !.job.next = m], Kind[m], m, Share(j, m), al), 1)
  BY <1>1, <1>3 DEF StageItem, CursorAt
<1>6. Stage([s EXCEPT !.job.next = m], Kind[m], m, Share(j, m), al)
        = With(s, i, Record(i, FALSE))
  BY <1>2, <1>4, StageItemIs
<1>7. /\ c \in Activations /\ c.mode = "page" /\ c.pos = m /\ c.cursor = m
      /\ c.start = n /\ c.expiry = LeaseExpiry(n, Lease) /\ c.end = a.end
  <2>1. m \in 0 .. NItems
    BY RoundIs, <1>1 DEF N
  <2> QED
    BY <1>1, <2>1 DEF Activations
<1> HIDE DEF c
<1>8. Send(p, c, With(s, i, Record(i, FALSE)), 1)
  BY <1>5, <1>6
<1>9. /\ JobOK(i, V, Len(closed), n) /\ Waits(i) /\ i.pending.phase = "awaiting"
      /\ i.id = j.id /\ i.next = m /\ ~i.scanned /\ i.tranche = j.tranche
      /\ Pending(i) \notin V
  BY <1>1, <1>2, <1>3, <1>4, JobStaged
<1>10. PlaceOK(c, i)
  BY <1>7, <1>9 DEF PlaceOK
<1>11. c.mode # "top" /\ 1 \in {1, 2}
  BY <1>7
<1> QED
  BY <1>7, <1>8, <1>9, <1>10, <1>11, StagesOn

LEMMA LeastIs ==
  ASSUME NEW D \in SUBSET Nat, D # {}
  PROVE  Min(D) \in D /\ \A x \in D : Min(D) <= x
<1>1. \E x \in D : \A y \in D : x <= y
  BY LeastExists
<1> QED
  BY <1>1 DEF Min

\* The rest of the page: every commitment up to a.pos has been dealt with.
LEMMA NextItems ==
  ASSUME NEW p, NEW a, NEW s, NEW V, NEW n, Holder(p, a, s, V, n),
         s.job # NoJob, ~Waits(s.job), s.job.denomDone, ~s.job.scanned,
         a.mode = "page", a.cursor = s.job.next, a.cursor <= a.pos, a.pos <= a.end,
         \A x \in 1 .. a.pos : Share(s.job, x) > Fee => s.job.outcome[x] # "none",
         NextItem(p, a, s)
  PROVE  Outcome(p, V, n)
<1> DEFINE j == s.job
           due == {x \in a.pos + 1 .. a.end : Share(j, x) > Fee}
           i == Min(due)
           s1 == [s EXCEPT !.job.next = a.end, !.job.scanned = (a.end = NItems)]
<1>1. /\ Setting(V, n) /\ round \in Rounds /\ n \in Nat /\ BaseOK(s, V, n) /\ N \in Nat
      /\ a \in Activations /\ a.start = n /\ a.expiry = LeaseExpiry(n, Lease)
      /\ s.lock = a.expiry
  BY SettingIs DEF Holder
<1>2. /\ s \in Stores /\ j \in Jobs /\ j.id \in Nat /\ JobOK(j, V, Len(closed), n)
      /\ Len(closed) \in Nat /\ j.pot = Pot
  BY <1>1, StoreIs
<1>3. /\ a.pos \in 0 .. N /\ a.end \in 0 .. N /\ a.pos \in Nat /\ a.end \in Nat
      /\ j.next \in Nat /\ Items = 1 .. N /\ j.gross \in Nat /\ j.denom \in Nat
  <2>1. a.pos \in 0 .. N /\ a.end \in 0 .. N
    BY ONLY <1>1 DEF Activations, N
  <2>2. j.next \in Nat /\ Items = 1 .. N /\ j.gross \in Nat /\ j.denom \in Nat
    BY <1>1, <1>2, JobIs
  <2> QED
    BY ONLY <1>1, <2>1, <2>2
<1>4. CASE due = {}
  <2>1. \A x \in 1 .. a.end : Share(j, x) > Fee => j.outcome[x] # "none"
    <3> TAKE x \in 1 .. a.end
    <3>1. x \in 1 .. a.pos \/ x \in a.pos + 1 .. a.end
      BY <1>3
    <3> QED
      BY <1>4, <3>1
  <2>2. PICK t : t = WithScan(j, a.end)
    OBVIOUS
  <2>3. s1 = With(s, t, s.dispatch)
    BY <1>2, <2>2 DEF WithScan, With, Stores, Jobs, JobsOf, N
  <2>4. j.next <= a.end /\ a.end \in 0 .. N
    BY <1>3
  <2>5. /\ JobOK(t, V, Len(closed), n) /\ ~Waits(t) /\ t.id = j.id /\ t.tranche = j.tranche
        /\ t.cat <= n + 2 * N
    BY <1>1, <1>2, <2>1, <2>2, <2>4, JobScans
  <2>6. PICK u : u = With(s, t, s.dispatch)
    OBVIOUS
  <2>7. s.dispatch \in Dispatches \cup {NoDispatch}
        /\ (s.dispatch # NoDispatch => s.dispatch.pending.phase = "awaiting")
    BY <1>1 DEF BaseOK, Stores
  <2>8. BaseOK(u, V, n) /\ t # NoJob
    BY <1>1, <2>5, <2>6, <2>7, BaseWith
  <2>9. u.job = t /\ u.lock = s.lock
    BY <1>2, <2>6, WithFields
  <2>10. Holder(p, a, u, V, n)
    BY <1>1, <2>8, <2>9 DEF Holder
  <2>11. LoopReady(u.job, n) /\ DispatchOK(u)
    BY <2>5, <2>9 DEF LoopReady, DispatchOK
  <2>12. Loop(p, a, u) \/ Return(p, a, u)
    BY <1>4, <2>3, <2>6 DEF NextItem
  <2>13. CASE Loop(p, a, u)
    BY <2>5, <2>8, <2>9, <2>10, <2>11, <2>13, Loops
  <2>14. CASE Return(p, a, u)
    BY <2>10, <2>11, <2>14, Returns
  <2> QED
    BY <2>12, <2>13, <2>14
<1>5. CASE due # {}
  <2>1. i \in due /\ \A x \in due : i <= x
    <3>1. due \in SUBSET Nat
      BY <1>3
    <3> HIDE DEF due
    <3> QED
      BY <1>5, <3>1, LeastIs
  <2> HIDE DEF i
  <2>2. i \in 1 .. N /\ j.next < i /\ Share(j, i) > Fee /\ i <= a.end /\ a.pos < i
    <3>1. i \in a.pos + 1 .. a.end /\ Share(j, i) > Fee
      BY <2>1
    <3>2. j.next <= a.pos /\ a.end <= N
      BY <1>1, <1>3
    <3> HIDE DEF j
    <3> QED
      BY ONLY <1>1, <1>3, <3>1, <3>2
  <2>3. \A x \in 1 .. i - 1 : Share(j, x) > Fee => j.outcome[x] # "none"
    <3> TAKE x \in 1 .. i - 1
    <3>1. x \in 1 .. a.pos \/ (x \in a.pos + 1 .. a.end /\ ~(i <= x))
      BY <1>3, <2>2
    <3> QED
      BY <2>1, <3>1
  <2>4. j.gross + Share(j, i) <= j.pot
    <3>1. j.denom = WeightUpTo(N) /\ j.gross * j.denom <= Pot * WeightUpTo(j.next)
      <4>1. Committed(j) = j.gross
        BY <1>3 DEF Committed, Waits
      <4>2. ScanOK(j, V) /\ MoneyOK(j, V, Len(closed))
        BY <1>2 DEF JobOK
      <4> QED
        BY <4>1, <4>2 DEF ScanOK, MoneyOK
    <3> QED
      BY <1>1, <1>2, <1>3, <2>2, <3>1, ShareFits
  <2>5. IF Kind[i] = "stake"
        THEN Wait(p, [a EXCEPT !.pc = "subaccount", !.pos = i,
                         !.pend = NoPending, !.attempt = 0,
                         !.prior = FALSE, !.terminal = FALSE], s)
        ELSE StageItem(p, a, s, i)
    BY <1>5, <2>4 DEF NextItem, i
  <2>6. CASE Kind[i] = "stake"
    <3> DEFINE c == [a EXCEPT !.pc = "subaccount", !.pos = i,
                         !.pend = NoPending, !.attempt = 0,
                         !.prior = FALSE, !.terminal = FALSE]
               b == Awaits(c, s)
    <3>1. Wait(p, c, s)
      BY <2>5, <2>6
    <3>2. /\ c \in Activations /\ c.pc = "subaccount" /\ c.pos = i /\ c.mode = a.mode
          /\ c.cursor = a.cursor /\ c.end = a.end
          /\ c.start = n /\ c.expiry = LeaseExpiry(n, Lease)
      <4>1. i \in 0 .. NItems /\ 0 \in 0 .. 2 /\ "subaccount" \in Pcs
        BY <1>1, <2>2 DEF N, Pcs
      <4> QED
        BY <1>1, <4>1 DEF Activations
    <3> HIDE DEF c
    <3>3. /\ b.pc = "subaccount" /\ b.pos = i /\ b.mode = a.mode
          /\ b.cursor = a.cursor /\ b.end = a.end
          /\ b.start = n /\ b.expiry = LeaseExpiry(n, Lease)
      <4>1. s.job.id \in Nat
        BY <1>2
      <4> QED
        BY ONLY <3>2, <4>1, AwaitsIs
    <3> HIDE DEF b
    <3>4. OwnOK(b, n)
      BY <1>1, <3>3 DEF OwnOK
    <3>5. \A x \in b.cursor + 1 .. b.pos - 1 : Share(j, x) > Fee => j.outcome[x] # "none"
      <4>1. \A x \in b.cursor + 1 .. b.pos - 1 : x \in 1 .. i - 1
        BY <1>3, <2>2, <3>3
      <4> QED
        BY <2>3, <4>1
    <3>6. HolderOK(b, s, V, n)
      BY <1>3, <2>2, <2>6, <3>3, <3>5 DEF HolderOK
    <3>7. DispatchOK(s)
      BY DEF DispatchOK
    <3> QED
      BY <3>1, <3>2, <3>4, <3>6, <3>7, Calls DEF b
  <2>7. CASE Kind[i] # "stake"
    <3>1. StageItem(p, a, s, i)
      BY <2>5, <2>7
    <3> QED
      BY <2>2, <2>3, <3>1, StagesItem
  <2> QED
    BY <2>6, <2>7
<1> QED
  BY <1>4, <1>5

\* The driver returns to where it was called.
LEMMA Drivens ==
  ASSUME NEW p, NEW a, NEW s, NEW V, NEW n, Holder(p, a, s, V, n),
         s.job # NoJob, ~Waits(s.job), s.job.denomDone, PlaceOK(a, s.job),
         a.mode = "top" => LoopReady(s.job, n),
         \A x \in 1 .. s.job.next : Share(s.job, x) > Fee => s.job.outcome[x] # "none",
         Driven(p, a, s)
  PROVE  Outcome(p, V, n)
<1>1. CASE a.mode = "page"
  <2>1. NextItem(p, a, s)
    BY <1>1 DEF Driven
  <2>2. /\ a.pos = s.job.next /\ a.cursor = s.job.next /\ a.pos <= a.end /\ ~s.job.scanned
    BY <1>1 DEF PlaceOK
  <2>3. a.cursor <= a.pos
    <3>1. a.pos \in Nat
      BY RoundIs, SettingIs DEF Holder, Activations, N
    <3> QED
      BY <2>2, <3>1
  <2> QED
    BY <1>1, <2>1, <2>2, <2>3, NextItems
<1>2. CASE a.mode = "remainder"
  <2>1. Finalize(p, a, s) /\ s.job.scanned
    BY <1>2 DEF Driven, PlaceOK
  <2> QED
    BY <2>1, Finalizes
<1>3. CASE a.mode = "top"
  <2>1. Loop(p, a, s)
    BY <1>3 DEF Driven
  <2> QED
    BY <1>3, <2>1, Loops
<1> QED
  BY <1>1, <1>2, <1>3 DEF PlaceOK

\* The pending transfer is done with, d being booked for it.
LEMMA Clears ==
  ASSUME NEW p, NEW a, NEW s, NEW V, NEW n, Holder(p, a, s, V, n),
         s.job # NoJob, Waits(s.job), PlaceOK(a, s.job),
         NEW d \in Nat, d <= s.job.pending.share,
         Pending(s.job) \in V => Net(Pending(s.job)) <= d,
         NEW status \in {"paid", "failed", "ambiguous"},
         status = "paid" => /\ Pending(s.job) \in blocks
                            /\ s.job.pending.kind = "topup" => Pending(s.job) \in minted,
         status = "failed" =>
           \A tx \in OfJob(V, s.job.id) : tx.item = s.job.pending.item =>
             tx.kind = "topup" /\ tx \in refunded \cup rejected,
         s.job.pending.item = 0 =>
           \/ status = "paid" \/ d = s.job.pending.share
           \/ Pending(s.job) \notin V /\ a.mode # "top",
         NEW g, g = Spent(s.job) + d,
         Driven(p, a, With(s, Booked(s.job, g, status), NoDispatch))
  PROVE  Outcome(p, V, n)
<1> DEFINE j == s.job
<1>1. /\ Setting(V, n) /\ round \in Rounds /\ n \in Nat /\ BaseOK(s, V, n)
      /\ a \in Activations /\ a.start = n /\ a.expiry = LeaseExpiry(n, Lease)
  BY SettingIs DEF Holder
<1>2. /\ s \in Stores /\ j \in Jobs /\ j.id \in Nat /\ JobOK(j, V, Len(closed), n)
      /\ Len(closed) \in Nat /\ j.pot = Pot
  BY <1>1, StoreIs
<1>3. PICK i : i = Booked(j, Spent(j) + d, status)
  OBVIOUS
<1>4. PICK t : t = With(s, i, NoDispatch)
  OBVIOUS
<1>5. /\ JobOK(i, V, Len(closed), n) /\ ~Waits(i) /\ i.id = j.id /\ i.next = j.next
      /\ i.scanned = j.scanned /\ i.tranche = j.tranche
      /\ i.denomDone
      /\ \A x \in 1 .. i.next : Share(i, x) > Fee => i.outcome[x] # "none"
      /\ i.scanned /\ (status = "paid" \/ d = j.pending.share) =>
              i.remSent \/ i.gross = Pot
  <2>1. Waits(j)
    OBVIOUS
  <2>2. j.pending.item = 0 =>
          status = "paid" \/ d = j.pending.share \/ Pending(j) \notin V
    OBVIOUS
  <2>3. /\ d <= j.pending.share
        /\ Pending(j) \in V => Net(Pending(j)) <= d
    OBVIOUS
  <2>4. status = "paid" => /\ Pending(j) \in blocks
                           /\ j.pending.kind = "topup" => Pending(j) \in minted
    OBVIOUS
  <2>5. status = "failed" =>
           \A tx \in OfJob(V, j.id) : tx.item = j.pending.item =>
             tx.kind = "topup" /\ tx \in refunded \cup rejected
    OBVIOUS
  <2> HIDE DEF j
  <2> QED
    BY ONLY <1>1, <1>2, <1>3, <2>1, <2>2, <2>3, <2>4, <2>5, d \in Nat,
            status \in {"paid", "failed", "ambiguous"}, JobCleared
<1>6. BaseOK(t, V, n) /\ i # NoJob
  BY <1>1, <1>4, <1>5, BaseWith
<1>7. t.job = i /\ t.lock = s.lock
  BY <1>2, <1>4, WithFields
<1>8. Holder(p, a, t, V, n)
  BY <1>6, <1>7 DEF Holder
<1>9. PlaceOK(a, i)
  BY <1>5 DEF PlaceOK
<1>10. a.mode = "top" => LoopReady(i, n)
  <2>1. j.scanned => j.pending.item = 0
    BY <1>2 DEF JobOK, PendingOK
  <2> QED
    BY <1>5, <2>1 DEF LoopReady
<1>11. Driven(p, a, t)
  BY <1>3, <1>4
<1> QED
  BY <1>5, <1>6, <1>7, <1>8, <1>9, <1>10, <1>11, Drivens

\* The transfer is on the ledger.
LEMMA Settles ==
  ASSUME NEW p, NEW a, NEW s, NEW V, NEW n, Holder(p, a, s, V, n),
         s.job # NoJob, IsAccepted(s.job), PlaceOK(a, s.job), Settle(p, a, s)
  PROVE  Outcome(p, V, n)
<1> DEFINE j == s.job
<1>1. /\ Setting(V, n) /\ round \in Rounds /\ n \in Nat /\ BaseOK(s, V, n)
  BY SettingIs DEF Holder
<1>2. /\ s \in Stores /\ j \in Jobs /\ j.id \in Nat /\ JobOK(j, V, Len(closed), n)
      /\ Len(closed) \in Nat /\ j.pot = Pot /\ Waits(j)
  BY <1>1, StoreIs DEF IsAccepted
<1>3. CASE j.pending.kind = "topup"
  <2>1. Notify(p, a, s, 1, FALSE)
    BY <1>3 DEF Settle
  <2>2. 1 \in {1, 2} /\ FALSE \in BOOLEAN
    OBVIOUS
  <2> QED
    BY <1>3, <2>1, <2>2, Notifies
<1>4. CASE j.pending.kind = "stake"
  <2>1. Wait(p, [a EXCEPT !.pc = "claim", !.pend = s.job.pending,
                           !.attempt = 0, !.prior = FALSE], s)
    BY <1>4 DEF Settle
  <2> QED
    BY <1>4, <2>1, Claims
<1>5. CASE j.pending.kind # "topup" /\ j.pending.kind # "stake"
  <2>1. Driven(p, a, Cleared(s, "paid"))
    BY <1>5 DEF Settle
  <2>2. Cleared(s, "paid") = With(s, Booked(j, j.gross, "paid"), NoDispatch)
    BY <1>2, ClearedIs
  <2>3. j.gross = Spent(j) + j.pending.share /\ j.pending.share \in Nat
        /\ Net(Pending(j)) <= j.pending.share /\ Pending(j) \in blocks
    <3>1. Committed(j) = Spent(j) + j.pending.share /\ Committed(j) = j.gross
      BY <1>1, <1>2, MoneyIs
    <3>2. j.pending \in Pendings /\ Net(Pending(j)) <= j.pending.share
      BY <1>1, <1>2, PendingTx
    <3>3. Pending(j) \in blocks
      BY <1>2 DEF JobOK, PendingOK
    <3> QED
      BY <1>1, <3>1, <3>2, <3>3, PendingIs
  <2>4. j.pending.share <= j.pending.share /\ "paid" # "failed"
        /\ "paid" \in {"paid", "failed", "ambiguous"}
    BY <2>3
  <2>5. Driven(p, a, With(s, Booked(j, j.gross, "paid"), NoDispatch))
    BY <2>1, <2>2
  <2> QED
    BY <1>2, <1>5, <2>3, <2>4, <2>5, Clears
<1> QED
  BY <1>3, <1>4, <1>5

\* A transfer of unknown fate is given up, its share booked as spent.
LEMMA Unresolveds ==
  ASSUME NEW p, NEW a, NEW s, NEW V, NEW n, Holder(p, a, s, V, n),
         s.job # NoJob, Waits(s.job), ~IsAccepted(s.job), PlaceOK(a, s.job),
         Unresolved(p, a, s)
  PROVE  Outcome(p, V, n)
<1> DEFINE j == s.job
<1>1. /\ Setting(V, n) /\ round \in Rounds /\ n \in Nat /\ BaseOK(s, V, n)
  BY SettingIs DEF Holder
<1>2. /\ s \in Stores /\ j \in Jobs /\ j.id \in Nat /\ JobOK(j, V, Len(closed), n)
      /\ Len(closed) \in Nat /\ j.pot = Pot
  BY <1>1, StoreIs
<1>3. /\ Committed(j) = Spent(j) + j.pending.share /\ Spent(j) = j.gross
      /\ Committed(j) <= Pot
  <2>1. Committed(j) = Spent(j) + j.pending.share /\ Spent(j) = j.gross
    BY <1>1, <1>2, MoneyIs
  <2> QED
    BY <1>2, <2>1 DEF JobOK, MoneyOK
<1>4. GrossFits(s)
  BY <1>2, <1>3 DEF GrossFits
<1>5. PICK g : g = j.gross + j.pending.share
  OBVIOUS
<1>6. Driven(p, a, Cleared([s EXCEPT !.job.gross = g], "ambiguous"))
  BY <1>4, <1>5 DEF Unresolved, Reserved
<1>7. Cleared([s EXCEPT !.job.gross = g], "ambiguous")
        = With(s, Booked(j, g, "ambiguous"), NoDispatch)
  BY <1>2, ClearedGrossIs
<1>8. Driven(p, a, With(s, Booked(j, g, "ambiguous"), NoDispatch))
  BY <1>6, <1>7
<1>9. j.pending.share \in Nat /\ Net(Pending(j)) <= j.pending.share
  <2>1. j.pending \in Pendings /\ Net(Pending(j)) <= j.pending.share
    BY <1>1, <1>2, PendingTx
  <2> QED
    BY <1>1, <2>1, PendingIs
<1>10. j.pending.share <= j.pending.share /\ "ambiguous" # "failed" /\ "ambiguous" # "paid"
       /\ "ambiguous" \in {"paid", "failed", "ambiguous"} /\ g = Spent(j) + j.pending.share
  BY <1>3, <1>5, <1>9
<1> QED
  BY <1>8, <1>9, <1>10, Clears

\* The main loop's first turn.
LEMMA Resumes ==
  ASSUME NEW p, NEW a, NEW s, NEW V, NEW n, Holder(p, a, s, V, n),
         s.job # NoJob, DispatchOK(s), LoopReady(s.job, n), a.mode = "top",
         Resume(p, a, s)
  PROVE  Outcome(p, V, n)
<1>1. /\ Setting(V, n) /\ BaseOK(s, V, n) /\ a.start = n /\ round \in Rounds
  BY SettingIs DEF Holder
<1>2. PlaceOK(a, s.job)
  BY DEF PlaceOK
<1>3. CASE s.job.pending = NoPending
  <2>1. Loop(p, a, s)
    BY <1>3 DEF Resume
  <2>2. ~Waits(s.job)
    BY <1>3 DEF Waits
  <2> QED
    BY <2>1, <2>2, Loops
<1>4. CASE s.job.pending # NoPending /\ s.job.pending.phase = "accepted"
  <2>1. Settle(p, a, s)
    BY <1>4 DEF Resume
  <2>2. IsAccepted(s.job)
    BY <1>4 DEF IsAccepted, Waits
  <2> QED
    BY <1>2, <2>1, <2>2, Settles
<1>5. CASE s.job.pending # NoPending /\ s.job.pending.phase = "awaiting"
  <2>1. Waits(s.job) /\ ~IsAccepted(s.job)
    BY <1>5 DEF Waits, IsAccepted
  <2>2. MayHaveDispatched(s)
    BY <2>1 DEF DispatchOK
  <2>3. CASE CreatedAtValid(s.job.pending.cat, a.start)
    <3>1. Send(p, a, s, 1) /\ 1 \in {1, 2}
      BY <1>5, <2>3 DEF Resume
    <3> QED
      BY <1>2, <1>5, <2>1, <2>2, <3>1, Sends
  <2>4. CASE ~CreatedAtValid(s.job.pending.cat, a.start)
    <3>1. Unresolved(p, a, s)
      BY <1>5, <2>4 DEF Resume
    <3> QED
      BY <1>2, <2>1, <3>1, Unresolveds
  <2> QED
    BY <2>3, <2>4
<1>6. s.job.pending # NoPending => s.job.pending.phase \in {"awaiting", "accepted"}
  BY <1>1, StoreIs, JobIs, PendingIs
<1> QED
  BY <1>3, <1>4, <1>5, <1>6

\* The other transfers for the pending transfer's record were refunded.
LEMMA OthersRefunded ==
  ASSUME NEW V, NEW n, Setting(V, n), NEW k, NEW j, JobOK(j, V, k, n), Waits(j),
         NEW tx \in OfJob(V, j.id), tx.item = j.pending.item
  PROVE  tx = Pending(j) \/ (tx \in refunded /\ tx.kind = "topup")
<1>1. tx = Pending(j) \/ tx \in refunded
  BY DEF JobOK, PendingOK
<1> QED
  BY <1>1, SettingIs DEF CmcOK

\* The creation time of a fallback.
LEMMA FallbackAt ==
  ASSUME NEW V, NEW n, Setting(V, n), NEW k \in Nat, NEW j, JobOK(j, V, k, n),
         Waits(j), j.pending.kind = "topup"
  PROVE  /\ FreshAt(j, n, j.pending.cat) = AllocatedAt(j, n)
         /\ CreatedAtValid(AllocatedAt(j, n), n)
         /\ j.pending.item # 0
<1>1. round \in Rounds /\ n \in Nat /\ N \in Nat /\ j \in Jobs
  BY SettingIs DEF JobOK
<1>2. j.pending \in Pendings
  BY PendingTx
<1>3. /\ j.pending.cat \in Nat /\ j.pending.cat < j.cat /\ j.cat \in Nat
      /\ j.next \in 0 .. N /\ j.next \in Nat
  BY <1>1, <1>2, PendingIs, JobIs DEF JobOK, PendingOK
<1>4. j.cat <= n + 2 * N
  <2>1. j.cat < n + 2 * j.next
    BY DEF JobOK, TimesOK
  <2> QED
    BY <1>1, <1>3, <2>1
<1>5. j.pending.item # 0
  BY DEF JobOK, PendingOK
<1> QED
  BY <1>1, <1>3, <1>4, <1>5, Allocated

LEMMA NotDebiteds ==
  ASSUME NEW p, NEW a, NEW s, NEW V, NEW n, Holder(p, a, s, V, n),
         s.job # NoJob, Waits(s.job), ~IsAccepted(s.job), PlaceOK(a, s.job),
         Pending(s.job) \notin V, s.job.pending.item = 0 => a.mode # "top",
         NotDebited(p, a, s)
  PROVE  Outcome(p, V, n)
<1> DEFINE j == s.job
<1>1. /\ Setting(V, n) /\ round \in Rounds /\ n \in Nat /\ BaseOK(s, V, n)
      /\ a \in Activations /\ a.start = n /\ a.expiry = LeaseExpiry(n, Lease)
  BY SettingIs DEF Holder
<1>2. /\ s \in Stores /\ j \in Jobs /\ j.id \in Nat /\ JobOK(j, V, Len(closed), n)
      /\ Len(closed) \in Nat /\ j.pot = Pot
  BY <1>1, StoreIs
<1>3. /\ Spent(j) = j.gross /\ j.gross \in Nat /\ j.pending.share \in Nat
      /\ j.pending.share > Fee
  <2>1. Spent(j) = j.gross
    BY <1>1, <1>2, MoneyIs
  <2>2. j.pending \in Pendings /\ j.pending.share > Fee
    BY <1>1, <1>2, PendingTx
  <2> QED
    BY <1>1, <1>2, <2>1, <2>2, PendingIs, JobIs
<1>4. CASE j.pending.kind = "topup"
  <2>1. PICK al : al = AllocatedAt(j, n)
    OBVIOUS
  <2>2. FreshAt(j, n, j.pending.cat) = al /\ CreatedAtValid(al, n) /\ j.pending.item # 0
    BY <1>1, <1>2, <1>4, <2>1, FallbackAt
  <2>3. Send(p, a, Stage(s, "fallback", j.pending.item, j.pending.share, al), 1)
    BY <1>1, <1>4, <2>2 DEF NotDebited
  <2>4. PICK i : i = WithFallback(j, j.gross, j.pending.share, al)
    OBVIOUS
  <2>5. [s EXCEPT !.job.gross = s.job.gross] = s
    BY ONLY <1>2 DEF Stores, Jobs, JobsOf
  <2>6. Stage([s EXCEPT !.job.gross = s.job.gross], "fallback", j.pending.item,
              j.pending.share, al) = With(s, i, Record(i, FALSE))
    BY <1>2, <2>4, StageFallbackIs
  <2>7. Send(p, a, With(s, i, Record(i, FALSE)), 1)
    BY <2>3, <2>5, <2>6
  <2>8. /\ JobOK(i, V, Len(closed), n) /\ Waits(i) /\ i.pending.phase = "awaiting"
        /\ i.id = j.id /\ i.next = j.next /\ i.scanned = j.scanned
        /\ i.tranche = j.tranche
        /\ i.pending.item = j.pending.item
        /\ Pending(i) \notin V
    <3>1. /\ j.pending.share <= j.pending.share
          /\ j.gross = Spent(j) + (j.pending.share - j.pending.share)
      BY <1>3
    <3>2. Waits(j) /\ Pending(j) \notin V
      OBVIOUS
    <3> HIDE DEF j
    <3> QED
      BY ONLY <1>1, <1>2, <1>3, <1>4, <2>1, <2>4, <3>1, <3>2, JobFallback
  <2>9. PlaceOK(a, i)
    BY <2>8 DEF PlaceOK
  <2>10. i.pending.item # 0 /\ 1 \in {1, 2}
    BY <2>2, <2>8
  <2> QED
    BY <1>1, <2>7, <2>8, <2>9, <2>10, StagesOn
<1>5. CASE j.pending.kind # "topup"
  <2>1. Driven(p, a, Cleared(s, "failed"))
    BY <1>5 DEF NotDebited
  <2>2. Cleared(s, "failed") = With(s, Booked(j, j.gross, "failed"), NoDispatch)
    BY <1>2, ClearedIs
  <2>3. Driven(p, a, With(s, Booked(j, j.gross, "failed"), NoDispatch))
    BY <2>1, <2>2
  <2>4. 0 \in Nat /\ 0 <= j.pending.share /\ "failed" \in {"paid", "failed", "ambiguous"}
        /\ "failed" # "paid" /\ j.gross = Spent(j) + 0
    BY <1>3
  <2>5. \A tx \in OfJob(V, j.id) : tx.item = j.pending.item =>
             tx.kind = "topup" /\ tx \in refunded \cup rejected
    <3> SUFFICES ASSUME NEW tx \in OfJob(V, j.id), tx.item = j.pending.item
                 PROVE  tx.kind = "topup" /\ tx \in refunded \cup rejected
      OBVIOUS
    <3>1. tx # Pending(j)
      BY DEF OfJob
    <3> QED
      BY <1>1, <1>2, <3>1, OthersRefunded
  <2> QED
    BY <2>3, <2>4, <2>5, Clears
<1> QED
  BY <1>4, <1>5

\* The CMC has refunded the pending top-up.
LEMMA Refundeds ==
  ASSUME NEW p, NEW a, NEW s, NEW V, NEW n, Holder(p, a, s, V, n),
         s.job # NoJob, IsAccepted(s.job), PlaceOK(a, s.job),
         s.job.pending.kind = "topup", Pending(s.job) \in refunded,
         Refunded(p, a, s)
  PROVE  Outcome(p, V, n)
<1> DEFINE j == s.job
           credit == Credit(j.pending.share - Fee)
<1>1. /\ Setting(V, n) /\ round \in Rounds /\ n \in Nat /\ BaseOK(s, V, n)
      /\ a \in Activations /\ a.start = n /\ a.expiry = LeaseExpiry(n, Lease) /\ CmcOK
  BY SettingIs DEF Holder
<1>2. /\ s \in Stores /\ j \in Jobs /\ j.id \in Nat /\ JobOK(j, V, Len(closed), n)
      /\ Len(closed) \in Nat /\ j.pot = Pot /\ Waits(j)
  BY <1>1, StoreIs DEF IsAccepted
<1>3. /\ j.gross = Spent(j) + j.pending.share /\ j.gross \in Nat /\ j.pending.share \in Nat
      /\ Spent(j) \in Nat /\ j.pending.share > Fee /\ Fee \in Nat \ {0}
      /\ Pending(j).amt = j.pending.share - Fee
  <2>1. Committed(j) = Spent(j) + j.pending.share /\ Committed(j) = j.gross
        /\ Spent(j) \in Nat
    BY <1>1, <1>2, MoneyIs
  <2>2. j.pending \in Pendings /\ j.pending.share > Fee
        /\ Pending(j).amt = j.pending.share - Fee
    BY <1>1, <1>2, PendingTx
  <2> QED
    BY <1>1, <1>2, <2>1, <2>2, PendingIs, JobIs, Consts
<1>4. credit > 0 /\ credit = j.pending.share - 4 * Fee
  <2>1. Credit(Pending(j).amt) > 0
    BY <1>1 DEF CmcOK
  <2>2. Credit(j.pending.share - Fee) > 0
    BY <1>3, <2>1
  <2> QED
    BY <1>3, <2>2 DEF Credit
<1>5. PICK d : d = 4 * Fee
  OBVIOUS
<1>6. PICK g : g = j.gross - credit
  OBVIOUS
<1> HIDE DEF credit
<1>7. /\ d \in Nat /\ d <= j.pending.share /\ credit \in Nat /\ g = Spent(j) + d
      /\ g \in Nat /\ credit <= j.pending.share /\ j.pending.share - credit = d
      /\ ~(credit < 0) /\ ~(g < 0)
  BY <1>3, <1>4, <1>5, <1>6
<1>8. Net(Pending(j)) = d
  BY <1>5 DEF Net
<1>9. PICK al : al = AllocatedAt(j, n)
  OBVIOUS
<1>10. FreshAt(j, n, j.pending.cat) = al /\ CreatedAtValid(al, n) /\ j.pending.item # 0
  BY <1>1, <1>2, <1>9, FallbackAt
<1>11. PICK s1 : s1 = [s EXCEPT !.job.gross = g]
  OBVIOUS
<1>12. s1.job.gross = g
  BY ONLY <1>2, <1>11 DEF Stores, Jobs, JobsOf
<1>13. \/ credit <= Fee /\ Driven(p, a, Cleared(s1, "failed"))
       \/ credit > Fee /\ Send(p, a, Stage(s1, "fallback", j.pending.item, credit, al), 1)
  BY <1>1, <1>6, <1>7, <1>10, <1>11, <1>12 DEF Refunded, credit
<1>14. CASE Driven(p, a, Cleared(s1, "failed"))
  <2>1. Cleared(s1, "failed") = With(s, Booked(j, g, "failed"), NoDispatch)
    BY <1>2, <1>11, ClearedGrossIs
  <2>2. Driven(p, a, With(s, Booked(j, g, "failed"), NoDispatch))
    BY <1>14, <2>1
  <2>3. "failed" \in {"paid", "failed", "ambiguous"} /\ "failed" # "paid"
        /\ Net(Pending(j)) <= d
    BY <1>7, <1>8
  <2>4. \A tx \in OfJob(V, j.id) : tx.item = j.pending.item =>
             tx.kind = "topup" /\ tx \in refunded \cup rejected
    <3> SUFFICES ASSUME NEW tx \in OfJob(V, j.id), tx.item = j.pending.item
                 PROVE  tx.kind = "topup" /\ tx \in refunded \cup rejected
      OBVIOUS
    <3>1. tx = Pending(j) \/ (tx \in refunded /\ tx.kind = "topup")
      BY <1>1, <1>2, OthersRefunded
    <3> QED
      BY <1>1, <3>1 DEF CmcOK
  <2> QED
    BY <1>2, <1>7, <1>10, <2>2, <2>3, <2>4, Clears
<1>15. CASE credit > Fee /\ Send(p, a, Stage(s1, "fallback", j.pending.item, credit, al), 1)
  <2>1. PICK i : i = WithFallback(j, g, credit, al)
    OBVIOUS
  <2>2. Stage(s1, "fallback", j.pending.item, credit, al) = With(s, i, Record(i, FALSE))
    BY <1>2, <1>11, <2>1, StageFallbackIs
  <2>3. Send(p, a, With(s, i, Record(i, FALSE)), 1)
    BY <1>15, <2>2
  <2>4. /\ JobOK(i, V, Len(closed), n) /\ Waits(i) /\ i.pending.phase = "awaiting"
        /\ i.id = j.id /\ i.next = j.next /\ i.scanned = j.scanned
        /\ i.tranche = j.tranche
        /\ i.pending.item = j.pending.item
        /\ Pending(i) \notin V
    <3>1. g = Spent(j) + (j.pending.share - credit)
      BY <1>7
    <3>2. Pending(j) \in V =>
            Pending(j) \in refunded /\ Net(Pending(j)) <= j.pending.share - credit
      BY <1>7, <1>8
    <3>3. j.pending.kind = "topup"
      OBVIOUS
    <3> HIDE DEF j
    <3> QED
      BY ONLY <1>1, <1>2, <1>7, <1>9, <1>15, <2>1, <3>1, <3>2, <3>3, JobFallback
  <2>5. PlaceOK(a, i)
    BY <2>4 DEF PlaceOK
  <2>6. i.pending.item # 0 /\ 1 \in {1, 2}
    BY <1>10, <2>4
  <2> QED
    BY <1>1, <2>3, <2>4, <2>5, <2>6, StagesOn
<1> QED
  BY <1>13, <1>14, <1>15

\* What is booked for a transfer on the ledger.
LEMMA AcceptedIsBooked ==
  ASSUME NEW V, NEW n, Setting(V, n), NEW k \in Nat, NEW j, JobOK(j, V, k, n),
         IsAccepted(j)
  PROVE  /\ Waits(j) /\ j.gross = Spent(j) + j.pending.share /\ j.pending.share \in Nat
         /\ j.pending.share <= j.pending.share
         /\ Net(Pending(j)) <= j.pending.share /\ Pending(j) \in blocks
<1>1. Waits(j) /\ j.pending.phase = "accepted" /\ round \in Rounds
  BY SettingIs DEF IsAccepted
<1>2. Committed(j) = Spent(j) + j.pending.share /\ Committed(j) = j.gross
  BY <1>1, MoneyIs
<1>3. j.pending \in Pendings /\ Net(Pending(j)) <= j.pending.share
  BY <1>1, PendingTx
<1>4. Pending(j) \in blocks
  BY <1>1 DEF JobOK, PendingOK
<1>5. j.pending.share \in Nat
  BY <1>1, <1>3, PendingIs
<1> QED
  BY <1>1, <1>2, <1>3, <1>4, <1>5

\* The CMC answered v to the notification of the pending top-up.
LEMMA Notifieds ==
  ASSUME NEW p, NEW V, NEW n, Holder(p, act[p], st, V, n),
         st.job # NoJob, IsAccepted(st.job), PlaceOK(act[p], st.job),
         st.job.pending.kind = "topup", act[p].attempt \in {1, 2},
         act[p].terminal => Pending(st.job) \in rejected,
         NEW v \in {"minted", "refund", "terminal", "transient"},
         v = "minted" => Pending(st.job) \in minted,
         v = "refund" => Pending(st.job) \in refunded,
         v = "terminal" => Pending(st.job) \in rejected,
         Notified(p, v)
  PROVE  Outcome(p, V, n)
<1> DEFINE j == st.job
<1>1. /\ Setting(V, n) /\ round \in Rounds /\ BaseOK(st, V, n) /\ CmcOK
      /\ act[p] \in Activations
  BY SettingIs DEF Holder
<1>2. /\ st \in Stores /\ j \in Jobs /\ JobOK(j, V, Len(closed), n)
      /\ Len(closed) \in Nat
  BY <1>1, StoreIs
<1>3. /\ Waits(j) /\ j.gross = Spent(j) + j.pending.share /\ j.pending.share \in Nat
      /\ j.pending.share <= j.pending.share
      /\ Net(Pending(j)) <= j.pending.share /\ Pending(j) \in blocks
  BY <1>1, <1>2, AcceptedIsBooked
<1>4. j.pending.item # 0
  BY <1>1, <1>2, <1>3, FallbackAt
<1>5. ASSUME NEW status \in {"paid", "failed", "ambiguous"},
             status = "paid" => Pending(j) \in minted,
             status = "failed" => Pending(j) \in rejected,
             Driven(p, act[p], Cleared(st, status))
      PROVE  Outcome(p, V, n)
  <2>1. Cleared(st, status) = With(st, Booked(j, j.gross, status), NoDispatch)
    BY <1>2, ClearedIs
  <2>2. Driven(p, act[p], With(st, Booked(j, j.gross, status), NoDispatch))
    BY <1>5, <2>1
  <2>3. status = "failed" => \A tx \in OfJob(V, j.id) : tx.item = j.pending.item =>
             tx.kind = "topup" /\ tx \in refunded \cup rejected
    <3> SUFFICES ASSUME status = "failed", NEW tx \in OfJob(V, j.id),
                        tx.item = j.pending.item
                 PROVE  tx.kind = "topup" /\ tx \in refunded \cup rejected
      OBVIOUS
    <3>1. tx = Pending(j) \/ (tx \in refunded /\ tx.kind = "topup")
      BY <1>1, <1>2, <1>3, OthersRefunded
    <3>2. Pending(j) \in rejected
      BY <1>5
    <3> QED
      BY <1>1, <3>1, <3>2 DEF CmcOK
  <2>4. status = "paid" => Pending(j) \in minted
    BY <1>5
  <2> QED
    BY <1>3, <1>4, <2>2, <2>3, <2>4, Clears
<1>6. CASE v = "minted" /\ Driven(p, act[p], Cleared(st, "paid"))
  <2>1. "paid" \in {"paid", "failed", "ambiguous"} /\ "paid" # "failed"
    OBVIOUS
  <2> QED
    BY <1>5, <1>6, <2>1
<1>7. CASE v = "refund" /\ Refunded(p, act[p], st)
  BY <1>7, Refundeds
<1>8. CASE Notify(p, act[p], st, NextAttempt(1), v = "terminal")
  <2>1. PICK t \in BOOLEAN : t = (v = "terminal")
    OBVIOUS
  <2>2. Notify(p, act[p], st, 2, t) /\ 2 \in {1, 2}
    BY <1>8, <2>1 DEF NextAttempt
  <2>3. t => Pending(st.job) \in rejected
    BY <2>1
  <2> QED
    BY <2>2, <2>3, Notifies
<1>9. CASE v \in {"terminal", "transient"}
           /\ Driven(p, act[p], Cleared(st, IF v = "terminal" /\ act[p].terminal
                                          THEN "failed" ELSE "ambiguous"))
  <2>1. PICK status : status = IF v = "terminal" /\ act[p].terminal
                                 THEN "failed" ELSE "ambiguous"
    OBVIOUS
  <2>2. status \in {"paid", "failed", "ambiguous"} /\ status # "paid"
        /\ (status = "failed" => v = "terminal")
    BY <2>1
  <2>3. Driven(p, act[p], Cleared(st, status))
    BY <1>9, <2>1
  <2> QED
    BY <1>5, <2>2, <2>3
<1> QED
  BY <1>6, <1>7, <1>8, <1>9 DEF Notified

\* The ledger has answered that it did not execute the request.
LEMMA Rejecteds ==
  ASSUME NEW p, NEW V, NEW n, Holder(p, act[p], st, V, n), DispatchOK(st),
         st.job # NoJob, Waits(st.job), ~IsAccepted(st.job),
         PlaceOK(act[p], st.job), act[p].attempt \in {1, 2},
         act[p].mode = "top" /\ st.job.pending.item = 0 => act[p].prior,
         ~act[p].prior => Pending(st.job) \notin V,
         Rejected(p)
  PROVE  Outcome(p, V, n)
<1> DEFINE j == st.job
<1>1. /\ Setting(V, n) /\ round \in Rounds /\ BaseOK(st, V, n)
      /\ act[p] \in Activations
  BY SettingIs DEF Holder
<1>2. /\ st \in Stores /\ j \in Jobs /\ JobOK(j, V, Len(closed), n)
      /\ Len(closed) \in Nat
  BY <1>1, StoreIs
<1>3. j.pending \in Pendings /\ j.pending.phase = "awaiting"
  <2>1. j.pending \in Pendings
    BY <1>1, <1>2, PendingTx
  <2> QED
    BY <1>1, <2>1, PendingIs DEF IsAccepted
<1>4. PICK s : s = IF act[p].prior THEN st ELSE SetDispatch(st, FALSE)
  OBVIOUS
<1>5. s = IF act[p].prior THEN st ELSE With(st, j, Record(j, FALSE))
  BY <1>2, <1>4, SetDispatchIs
<1>6. /\ s.job = j /\ s.lock = st.lock /\ BaseOK(s, V, n)
      /\ act[p].prior => MayHaveDispatched(s)
  <2>1. CASE act[p].prior
    BY <1>1, <1>5, <2>1 DEF DispatchOK
  <2>2. CASE ~act[p].prior
    <3>1. Record(j, FALSE) \in Dispatches /\ Record(j, FALSE).pending = j.pending
      BY <1>1, <1>2, RecordIs
    <3>2. BaseOK(With(st, j, Record(j, FALSE)), V, n)
      BY <1>1, <1>2, <1>3, <3>1, BaseWith
    <3>3. s = With(st, j, Record(j, FALSE))
      BY <1>5, <2>2
    <3>4. s.job = j /\ s.lock = st.lock
      BY ONLY <1>2, <3>3 DEF With, Stores
    <3>5. BaseOK(s, V, n)
      BY <3>2, <3>3
    <3> QED
      BY <2>2, <3>4, <3>5
  <2> QED
    BY <2>1, <2>2
<1>7. Holder(p, act[p], s, V, n)
  BY <1>6 DEF Holder
<1>8. \/ Send(p, act[p], s, NextAttempt(1))
      \/ act[p].prior /\ Unresolved(p, act[p], s)
      \/ ~act[p].prior /\ NotDebited(p, act[p], s)
  BY <1>4 DEF Rejected
<1>9. CASE Send(p, act[p], s, NextAttempt(1))
  <2>1. Send(p, act[p], s, 2) /\ 2 \in {1, 2}
    BY <1>9 DEF NextAttempt
  <2>2. act[p].mode = "top" /\ s.job.pending.item = 0 => MayHaveDispatched(s)
    BY <1>6
  <2>3. ~MayHaveDispatched(s) => Pending(s.job) \notin V
    BY <1>6
  <2> QED
    BY <1>3, <1>6, <1>7, <2>1, <2>2, <2>3, Sends
<1>10. CASE act[p].prior /\ Unresolved(p, act[p], s)
  BY <1>6, <1>7, <1>10, Unresolveds
<1>11. CASE ~act[p].prior /\ NotDebited(p, act[p], s)
  <2>1. s.job.pending.item = 0 => act[p].mode # "top"
    BY <1>6, <1>11
  <2>2. Pending(s.job) \notin V
    BY <1>6, <1>11
  <2> QED
    BY <1>6, <1>7, <1>11, <2>1, <2>2, NotDebiteds
<1> QED
  BY <1>8, <1>9, <1>10, <1>11

-----------------------------------------------------------------------------
(* The callbacks of the activation that holds the lease.                      *)

LEMMA InvIs ==
  ASSUME IInv
  PROVE  /\ round \in Rounds /\ lastStart \in Nat /\ act \in [Proc -> Activations]
         /\ Setting(Wild, lastStart) /\ BaseOK(st, Wild, lastStart) /\ DispatchOK(st)
         /\ WildOK(Wild, lastStart) /\ blocks \subseteq Wild /\ Wild \subseteq Txs
         /\ IsFiniteSet(Wild) /\ N \in Nat /\ Len(closed) \in Nat /\ st \in Stores
<1>1. /\ round \in Rounds /\ act \in [Proc -> Activations] /\ closed \in Seq(Jobs)
      /\ ClockOK /\ CmcOK /\ WildOK(Wild, lastStart) /\ StoreOK(st, Wild, lastStart)
  BY DEF IInv
<1>2. blocks \subseteq Wild /\ lastStart \in Nat
  BY <1>1 DEF Wild, ClockOK
<1>3. Setting(Wild, lastStart)
  BY <1>1, <1>2 DEF Setting
<1> QED
  BY <1>1, <1>2, <1>3, SettingIs DEF StoreOK, WildOK, BaseOK

LEMMA HolderIs ==
  ASSUME IInv, NEW p \in Proc, act[p].pc # "idle", Current(p)
  PROVE  /\ Holder(p, act[p], st, Wild, lastStart)
         /\ HolderOK(act[p], st, Others(p), lastStart)
         /\ OwnOK(act[p], lastStart)
<1>1. /\ Setting(Wild, lastStart) /\ BaseOK(st, Wild, lastStart) /\ lastStart \in Nat
      /\ act \in [Proc -> Activations]
  BY InvIs
<1>2. /\ OwnOK(act[p], lastStart) /\ HolderOK(act[p], st, Others(p), lastStart)
  BY DEF IInv, Holds
<1>3. act[p] \in Activations /\ act[p].start \in Nat
  BY <1>1 DEF Activations
<1>4. st.lock = LeaseExpiry(act[p].start, Lease) /\ act[p].expiry = st.lock
  BY <1>2 DEF OwnOK, Current
<1>5. st.lock \in {Unlocked, LeaseExpiry(lastStart, Lease)}
  BY <1>1 DEF BaseOK
<1>6. act[p].start = lastStart
  BY <1>1, <1>3, <1>4, <1>5, Consts DEF LeaseExpiry, Unlocked
<1> QED
  BY <1>1, <1>2, <1>3, <1>4, <1>6 DEF Holder

\* The requests that are not p's own.
LEMMA OthersIs ==
  ASSUME NEW p \in Proc
  PROVE  /\ ~InFlight(act[p]) => Others(p) = Wild
         /\ InFlight(act[p]) => Wild = Others(p) \cup {Request(act[p])}
  BY DEF Others, Wild, Flights

\* The job goes on without a new dispatch record.
LEMMA GoesOn ==
  ASSUME NEW p, NEW a, NEW s, NEW V, NEW n, Holder(p, a, s, V, n), s.job # NoJob,
         NEW j, JobOK(j, V, Len(closed), n), ~Waits(j), j.id = s.job.id,
         j.tranche = s.job.tranche, NEW t, t = With(s, j, s.dispatch)
  PROVE  Holder(p, a, t, V, n) /\ t.job = j /\ t.job # NoJob /\ DispatchOK(t)
<1>1. /\ Setting(V, n) /\ BaseOK(s, V, n) /\ s \in Stores
  BY DEF Holder, BaseOK
<1>2. s.dispatch \in Dispatches \cup {NoDispatch}
      /\ (s.dispatch # NoDispatch => s.dispatch.pending.phase = "awaiting")
  BY <1>1 DEF BaseOK, Stores
<1>3. BaseOK(t, V, n) /\ j # NoJob
  BY <1>1, <1>2, BaseWith
<1>4. t.job = j /\ t.lock = s.lock
  BY <1>1, WithFields
<1> QED
  BY <1>3, <1>4 DEF Holder, DispatchOK

LEMMA BalanceStep ==
  ASSUME IInv, NEW p \in Proc, Current(p), BalanceReply(p)
  PROVE  Outcome(p, Wild, lastStart)
<1> DEFINE n == lastStart
<1>1. act[p].pc = "balance"
  BY DEF BalanceReply
<1>2. /\ Holder(p, act[p], st, Wild, n) /\ HolderOK(act[p], st, Others(p), n)
      /\ DispatchOK(st)
  BY <1>1, HolderIs, InvIs
<1>3. Others(p) = Wild
  BY <1>1, OthersIs DEF InFlight
<1>4. CASE Return(p, act[p], st)
  BY <1>2, <1>4, Returns
<1>5. CASE ~Return(p, act[p], st)
  <2> DEFINE b == [At(act[p], "discover") EXCEPT !.bal = act[p].bal,
                     !.processed = st.processed, !.nonce = st.nonce]
  <2>1. act' = [act EXCEPT ![p] = b] /\ st' = st
    BY <1>5 DEF BalanceReply
  <2>2. /\ round \in Rounds /\ act[p] \in Activations /\ st \in Stores /\ act[p].start = n
        /\ act[p].expiry = LeaseExpiry(n, Lease) /\ WildOK(Wild, n) /\ n \in Nat
        /\ BaseOK(st, Wild, n)
    BY <1>2, InvIs DEF Holder
  <2>3. /\ At(act[p], "discover") \in Activations /\ At(act[p], "discover").pc = "discover"
        /\ At(act[p], "discover").start = n
        /\ At(act[p], "discover").expiry = LeaseExpiry(n, Lease)
        /\ At(act[p], "discover").got = FALSE
    <3>1. "discover" \in Pcs
      BY DEF Pcs
    <3> QED
      BY ONLY <2>2, <3>1, AtIs
  <2>4. act[p].bal \in Nat /\ st.processed \in Nat /\ st.nonce \in Nat
    BY <2>2 DEF Activations, Stores
  <2>5. /\ b \in Activations /\ b.pc = "discover" /\ b.start = n
        /\ b.expiry = LeaseExpiry(n, Lease) /\ b.got = FALSE
    BY <2>3, <2>4 DEF Activations
  <2> HIDE DEF b
  <2>6. Wild \cup Flight(b) = Wild
    BY <2>5 DEF Flight, InFlight
  <2>7. OwnOK(b, n)
    BY <2>2, <2>5 DEF OwnOK
  <2>8. HolderOK(b, st, Wild, n)
    BY <1>1, <1>2, <1>3, <2>5 DEF HolderOK
  <2>9. EndsAs(b, st', Wild, n)
    BY <1>2, <2>1, <2>2, <2>5, <2>6, <2>7, <2>8 DEF EndsAs, StoreOK
  <2> QED
    BY <2>1, <2>5, <2>9 DEF Outcome
<1> QED
  BY <1>4, <1>5

\* A job is created for the oldest tranche that has not been paid out.
LEMMA CreateStep ==
  ASSUME IInv, NEW p \in Proc, act[p].pc \in {"discover", "reread"}, MayCreate(p),
         act[p].processed < funded, CreateJob(p)
  PROVE  Outcome(p, Wild, lastStart)
<1> DEFINE n == lastStart
           V == Wild
<1>1. Current(p) /\ st.job = NoJob /\ st.processed = act[p].processed
  BY DEF MayCreate
<1>2. /\ Holder(p, act[p], st, V, n) /\ HolderOK(act[p], st, Others(p), n)
      /\ Setting(V, n) /\ BaseOK(st, V, n) /\ st \in Stores /\ Len(closed) \in Nat
      /\ n \in Nat /\ V \subseteq Txs
  BY <1>1, HolderIs, InvIs
<1>3. Others(p) = V
  BY OthersIs DEF InFlight
<1>4. \A tx \in V : tx.cat < n
  BY <1>2, <1>3 DEF HolderOK
<1>5. \A tx \in V : tx.job < st.nonce
  BY <1>2 DEF BaseOK
<1>6. st.nonce \in Nat /\ st.processed = Len(closed) /\ act[p].start = n
  BY <1>2 DEF Stores, BaseOK, Holder
<1>7. PICK i : i = NewJob(st.nonce, Len(closed) + 1, n)
  OBVIOUS
<1>8. Total(V) <= Pot * Len(closed)
  BY <1>1, <1>2 DEF BaseOK
<1>9. /\ JobOK(i, V, Len(closed), n) /\ ~Waits(i) /\ i.id = st.nonce
      /\ i.tranche = Len(closed) + 1 /\ ~i.scanned
  BY <1>2, <1>4, <1>5, <1>6, <1>7, <1>8, JobNew
<1>10. PICK s : s = [st EXCEPT !.nonce = @ + 1, !.job = i]
  OBVIOUS
<1>11. Loop(p, act[p], s)
  BY <1>1, <1>6, <1>7, <1>10 DEF CreateJob
<1>12. i \in Jobs /\ i # NoJob
  <2>1. i \in Jobs
    BY <1>9 DEF JobOK
  <2> QED
    BY <2>1, InvIs, RoundIs
<1>13. /\ s.job = i /\ s.nonce = st.nonce + 1 /\ s.lock = st.lock
       /\ s.processed = st.processed /\ s.dispatch = st.dispatch /\ s \in Stores
  <2>1. st \in Stores /\ st.nonce + 1 \in Nat
    BY <1>2, <1>6
  <2>2. PICK m : m = st.nonce + 1
    OBVIOUS
  <2>3. m \in Nat /\ s = [st EXCEPT !.nonce = m, !.job = i]
    BY <1>10, <2>1, <2>2
  <2>4. /\ s.job = i /\ s.nonce = m /\ s.lock = st.lock
        /\ s.processed = st.processed /\ s.dispatch = st.dispatch
    BY ONLY <2>1, <2>3 DEF Stores
  <2>5. s \in Stores
    BY ONLY <1>12, <2>1, <2>3 DEF Stores
  <2> QED
    BY <2>2, <2>4, <2>5
<1> HIDE DEF V
<1>14. BaseOK(s, V, n)
  <2>1. \A k \in 1 .. Len(closed) : ClosedOK(k, V, st.nonce)
    BY <1>2 DEF BaseOK
  <2>2. \A k \in 1 .. Len(closed) : closed[k].id \in Nat /\ closed[k].id < st.nonce
    BY <2>1, InvIs, JobIs DEF ClosedOK
  <2>3. \A k \in 1 .. Len(closed) : ClosedOK(k, V, s.nonce)
    BY <1>6, <1>13, <2>1, <2>2 DEF ClosedOK
  <2>4. \A tx \in V : tx.job < s.nonce
    BY <1>2, <1>5, <1>6, <1>13 DEF Txs
  <2>5. Len(closed) + 1 <= funded
    BY <1>1, <1>2, <1>6 DEF IInv, LedgerOK
  <2>6. JobBase(s, V, n)
    BY <1>6, <1>9, <1>13, <2>2, <2>5 DEF JobBase
  <2> QED
    BY <1>2, <1>12, <1>13, <2>3, <2>4, <2>6 DEF BaseOK
<1>15. Holder(p, act[p], s, V, n)
  BY <1>2, <1>13, <1>14 DEF Holder, V
<1>16. LoopReady(s.job, n)
  BY <1>9, <1>13 DEF LoopReady
<1> QED
  BY <1>9, <1>11, <1>12, <1>13, <1>15, <1>16, Loops DEF V

LEMMA DiscoverStep ==
  ASSUME IInv, NEW p \in Proc, Current(p), DiscoverReply(p)
  PROVE  Outcome(p, Wild, lastStart)
<1> DEFINE n == lastStart
<1>1. act[p].pc = "discover"
  BY DEF DiscoverReply
<1>2. /\ Holder(p, act[p], st, Wild, n) /\ HolderOK(act[p], st, Others(p), n)
      /\ OwnOK(act[p], n) /\ DispatchOK(st)
  BY <1>1, HolderIs, InvIs
<1>3. Others(p) = Wild
  BY <1>1, OthersIs DEF InFlight
<1>4. CASE Return(p, act[p], st)
  BY <1>2, <1>4, Returns
<1>5. CASE MayCreate(p) /\ funded > act[p].processed /\ CreateJob(p)
  <2>1. act[p].processed < funded
    BY <1>2, <1>5 DEF Holder, Activations, IInv, LedgerOK
  <2> QED
    BY <1>1, <1>5, <2>1, CreateStep
<1>6. CASE /\ MayCreate(p) /\ funded > act[p].processed
           /\ act' = [act EXCEPT ![p].pc = "reread"] /\ UNCHANGED st
  <2>1. PICK b : b = [act[p] EXCEPT !.pc = "reread"]
    OBVIOUS
  <2>2. /\ round \in Rounds /\ act[p] \in Activations /\ act[p].start = n
        /\ act[p].expiry = LeaseExpiry(n, Lease) /\ WildOK(Wild, n) /\ n \in Nat
        /\ BaseOK(st, Wild, n) /\ act \in [Proc -> Activations]
    BY <1>2, InvIs DEF Holder
  <2>3. act' = [act EXCEPT ![p] = b] /\ st' = st
    BY <1>6, <2>1, <2>2
  <2>4. b \in Activations
    BY ONLY <2>1, <2>2 DEF Activations, Pcs
  <2>5. b.pc = "reread" /\ b.start = n /\ b.expiry = LeaseExpiry(n, Lease)
        /\ b.got = act[p].got
    BY ONLY <2>1, <2>2 DEF Activations
  <2>6. b.got = FALSE
    BY <1>1, <1>2, <2>5 DEF OwnOK
  <2>7. Wild \cup Flight(b) = Wild
    BY <2>5 DEF Flight, InFlight
  <2>8. OwnOK(b, n)
    BY <2>2, <2>5 DEF OwnOK
  <2>9. st.job = NoJob /\ \A tx \in Wild : tx.cat < n
    BY <1>1, <1>2, <1>3 DEF HolderOK
  <2>10. st.processed < funded
    <3>1. act[p].processed \in Nat /\ funded \in Nat
      BY <2>2 DEF Activations, IInv, LedgerOK
    <3> QED
      BY <1>6, <3>1 DEF MayCreate
  <2>11. HolderOK(b, st, Wild, n)
    BY <2>5, <2>6, <2>9, <2>10 DEF HolderOK
  <2>12. EndsAs(b, st', Wild, n)
    BY <1>2, <2>2, <2>3, <2>5, <2>7, <2>8, <2>11 DEF EndsAs, StoreOK
  <2> QED
    BY <2>3, <2>4, <2>12 DEF Outcome
<1> QED
  BY <1>4, <1>5, <1>6 DEF DiscoverReply

LEMMA RereadStep ==
  ASSUME IInv, NEW p \in Proc, Current(p), RereadReply(p)
  PROVE  Outcome(p, Wild, lastStart)
<1> DEFINE n == lastStart
<1>1. act[p].pc = "reread" /\ act[p].got
  BY DEF RereadReply
<1>2. /\ Holder(p, act[p], st, Wild, n) /\ HolderOK(act[p], st, Others(p), n)
      /\ DispatchOK(st)
  BY <1>1, HolderIs, InvIs
<1>3. Pot <= act[p].bal /\ st.processed < funded
  BY <1>1, <1>2 DEF HolderOK
<1>4. ~(act[p].bal < Pot)
  BY <1>2, <1>3, Consts DEF Holder, Activations
<1>5. CASE Return(p, act[p], st)
  BY <1>2, <1>5, Returns
<1>6. CASE MayCreate(p) /\ CreateJob(p)
  <2>1. act[p].processed < funded
    BY <1>3, <1>6 DEF MayCreate
  <2> QED
    BY <1>1, <1>6, <2>1, CreateStep
<1> QED
  BY <1>4, <1>5, <1>6 DEF RereadReply

LEMMA PageEndIs ==
  ASSUME round \in Rounds, NEW c \in 0 .. N
  PROVE  PageEnd(c) \in 0 .. N /\ c <= PageEnd(c) /\ c \in Nat
<1>1. N \in Nat /\ PageSize \in Nat
  BY RoundIs, Consts
<1> QED
  BY <1>1 DEF PageEnd, N

LEMMA DenomStep ==
  ASSUME IInv, NEW p \in Proc, Current(p), DenomPage(p)
  PROVE  Outcome(p, Wild, lastStart)
<1> DEFINE n == lastStart
           V == Wild
           end == PageEnd(act[p].cursor)
<1>1. act[p].pc = "index"
  BY DEF DenomPage
<1>2. /\ Holder(p, act[p], st, V, n) /\ HolderOK(act[p], st, Others(p), n)
      /\ DispatchOK(st) /\ Setting(V, n) /\ BaseOK(st, V, n) /\ round \in Rounds
  BY <1>1, HolderIs, InvIs
<1>3. st.job # NoJob /\ ~Waits(st.job)
  BY <1>1, <1>2 DEF HolderOK
<1>4. CASE Return(p, act[p], st)
  BY <1>2, <1>4, Returns
<1>5. CASE ~Return(p, act[p], st)
  <2>1. PICK s : s = [st EXCEPT !.job.denom = Denominator(st.job, end),
                         !.job.denomDone = (end = NItems),
                         !.job.next = IF end = NItems THEN 0 ELSE end]
    OBVIOUS
  <2>2. /\ OwnsPage(p) /\ ~st.job.denomDone
        /\ Loop(p, act[p], s) \/ Return(p, act[p], s)
    BY <1>5, <2>1 DEF DenomPage
  <2>3. /\ st \in Stores /\ st.job \in Jobs /\ JobOK(st.job, V, Len(closed), n)
        /\ Len(closed) \in Nat
    BY <1>2, <1>3, StoreIs
  <2>4. st.job.next = act[p].cursor /\ st.job.next \in 0 .. N
    BY <1>2, <2>2, <2>3, JobIs DEF OwnsPage
  <2>5. end \in 0 .. N /\ st.job.next <= end
    BY <1>2, <2>4, PageEndIs
  <2> HIDE DEF end
  <2>6. PICK i : i = WithPage(st.job, end)
    OBVIOUS
  <2>7. s = With(st, i, st.dispatch)
    BY <2>1, <2>3, <2>6 DEF WithPage, With, Stores, Jobs, JobsOf, N
  <2>8. /\ JobOK(i, V, Len(closed), n) /\ ~Waits(i) /\ i.id = st.job.id
        /\ i.tranche = st.job.tranche /\ ~i.scanned
    BY <1>2, <1>3, <2>2, <2>3, <2>5, <2>6, JobPage
  <2>9. Holder(p, act[p], s, V, n) /\ s.job = i /\ s.job # NoJob /\ DispatchOK(s)
    BY <1>2, <1>3, <2>7, <2>8, GoesOn
  <2>10. LoopReady(s.job, n)
    BY <2>8, <2>9 DEF LoopReady
  <2>11. CASE Loop(p, act[p], s)
    BY <2>8, <2>9, <2>10, <2>11, Loops
  <2>12. CASE Return(p, act[p], s)
    BY <2>9, <2>12, Returns
  <2> QED
    BY <2>2, <2>11, <2>12
<1> QED
  BY <1>4, <1>5

LEMMA PayoutStep ==
  ASSUME IInv, NEW p \in Proc, Current(p), PayoutPage(p)
  PROVE  Outcome(p, Wild, lastStart)
<1> DEFINE n == lastStart
           V == Wild
<1>1. act[p].pc = "index" /\ act[p].mode = "page"
  BY DEF PayoutPage
<1>2. /\ Holder(p, act[p], st, V, n) /\ HolderOK(act[p], st, Others(p), n)
      /\ DispatchOK(st) /\ Setting(V, n) /\ BaseOK(st, V, n) /\ round \in Rounds
  BY <1>1, HolderIs, InvIs
<1>3. st.job # NoJob /\ ~Waits(st.job)
  BY <1>1, <1>2 DEF HolderOK
<1>4. CASE Return(p, act[p], st)
  BY <1>2, <1>4, Returns
<1>5. CASE ~Return(p, act[p], st)
  <2>1. PICK e : e = PageEnd(act[p].cursor)
    OBVIOUS
  <2>2. PICK a : a = [act[p] EXCEPT !.pos = act[p].cursor, !.end = e]
    OBVIOUS
  <2>3. OwnsPage(p) /\ st.job.denomDone /\ NextItem(p, a, st)
    BY <1>5, <2>1, <2>2 DEF PayoutPage
  <2>4. /\ act[p] \in Activations /\ act[p].cursor \in 0 .. N
    BY <1>2 DEF Holder, Activations, N
  <2>5. e \in 0 .. N /\ act[p].cursor <= e /\ act[p].cursor \in Nat
    BY <1>2, <2>1, <2>4, PageEndIs
  <2>6. a \in Activations
    BY ONLY <2>2, <2>4, <2>5 DEF Activations, N
  <2>7. /\ a.pos = act[p].cursor /\ a.end = e /\ a.cursor = act[p].cursor
        /\ a.mode = act[p].mode /\ a.start = act[p].start /\ a.expiry = act[p].expiry
    BY ONLY <2>2, <2>4 DEF Activations
  <2>8. Holder(p, a, st, V, n)
    BY <1>2, <2>6, <2>7 DEF Holder
  <2>9. st.job.next = act[p].cursor /\ ~st.job.scanned
    BY <2>3 DEF OwnsPage
  <2>10. \A x \in 1 .. a.pos : Share(st.job, x) > Fee => st.job.outcome[x] # "none"
    <3>1. PassedOK(st.job)
      BY <1>2, <1>3, StoreIs DEF JobOK
    <3> QED
      BY <1>3, <2>3, <2>7, <2>9, <3>1 DEF PassedOK, BeingPaid, Waits
  <2>11. /\ a.mode = "page" /\ a.cursor = st.job.next /\ a.cursor <= a.pos
         /\ a.pos <= a.end
    BY <1>1, <2>5, <2>7, <2>9
  <2> QED
    BY <1>3, <2>3, <2>8, <2>9, <2>10, <2>11, NextItems
<1> QED
  BY <1>4, <1>5

LEMMA SubaccountStep ==
  ASSUME IInv, NEW p \in Proc, Current(p), SubaccountReply(p)
  PROVE  Outcome(p, Wild, lastStart)
<1> DEFINE n == lastStart
           V == Wild
           j == st.job
<1>1. act[p].pc = "subaccount"
  BY DEF SubaccountReply
<1>2. /\ Holder(p, act[p], st, V, n) /\ HolderOK(act[p], st, Others(p), n)
      /\ DispatchOK(st) /\ Setting(V, n) /\ BaseOK(st, V, n) /\ round \in Rounds
      /\ N \in Nat
  BY <1>1, HolderIs, InvIs
<1>3. j # NoJob /\ ~Waits(j)
  BY <1>1, <1>2 DEF HolderOK
<1>4. /\ st \in Stores /\ j \in Jobs /\ JobOK(j, V, Len(closed), n) /\ Len(closed) \in Nat
  BY <1>2, <1>3, StoreIs
<1>5. PICK m : m = act[p].pos
  OBVIOUS
<1>6. /\ act[p].mode = "page" /\ j.denomDone /\ act[p].cursor = j.next
      /\ act[p].cursor < m /\ m <= act[p].end /\ Share(j, m) > Fee
      /\ \A i \in act[p].cursor + 1 .. m - 1 : Share(j, i) > Fee => j.outcome[i] # "none"
  BY <1>1, <1>2, <1>5 DEF HolderOK
<1>7. /\ m \in 0 .. N /\ act[p].cursor \in Nat /\ act[p].end \in 0 .. N
      /\ Items = 1 .. N
  BY <1>2, <1>4, <1>5, <1>6, JobIs DEF Holder, Activations, N
<1>8. m \in 1 .. N /\ j.next < m /\ act[p].cursor <= m
  BY <1>2, <1>6, <1>7
<1>9. \A x \in 1 .. m - 1 : Share(j, x) > Fee => j.outcome[x] # "none"
  <2>1. PassedOK(j)
    BY <1>4 DEF JobOK
  <2>2. \A x \in 1 .. j.next : Share(j, x) > Fee => j.outcome[x] # "none"
    BY <1>3, <1>6, <2>1 DEF PassedOK, BeingPaid, Waits
  <2> TAKE x \in 1 .. m - 1
  <2>3. x \in 1 .. j.next \/ x \in act[p].cursor + 1 .. m - 1
    BY <1>2, <1>6, <1>7, <1>8
  <2> QED
    BY <1>6, <2>2, <2>3
<1>10. CASE Return(p, act[p], st)
  BY <1>2, <1>10, Returns
<1>11. CASE OwnsPage(p) /\ StageItem(p, act[p], st, act[p].pos)
  <2>1. ~j.scanned /\ StageItem(p, act[p], st, m)
    BY <1>5, <1>11 DEF OwnsPage
  <2> QED
    BY <1>2, <1>3, <1>6, <1>8, <1>9, <2>1, StagesItem
<1>12. CASE ~Return(p, act[p], st) /\ ~StageItem(p, act[p], st, act[p].pos)
  <2>1. PICK s : s = [st EXCEPT !.job.outcome = Count(j, m, "failed")]
    OBVIOUS
  <2>2. OwnsPage(p) /\ NextItem(p, act[p], s)
    BY <1>5, <1>12, <2>1 DEF SubaccountReply
  <2>3. PICK i : i = WithFailed(j, m)
    OBVIOUS
  <2>4. s = With(st, i, st.dispatch)
    BY <1>4, <2>1, <2>3 DEF WithFailed, With, Stores, Jobs, JobsOf
  <2>5. /\ JobOK(i, V, Len(closed), n) /\ ~Waits(i) /\ i.id = j.id /\ i.tranche = j.tranche
        /\ i.denomDone /\ i.next = j.next /\ i.scanned = j.scanned
        /\ \A x : Share(i, x) = Share(j, x)
        /\ i.outcome[m] = "failed"
        /\ \A x \in Items : x # m => i.outcome[x] = j.outcome[x]
    BY <1>2, <1>3, <1>4, <1>6, <1>8, <2>3, JobFails
  <2>6. Holder(p, act[p], s, V, n) /\ s.job = i /\ s.job # NoJob
    BY <1>2, <1>3, <2>4, <2>5, GoesOn
  <2>7. ~i.scanned
    BY <2>2, <2>5 DEF OwnsPage
  <2>8. \A x \in 1 .. m : Share(i, x) > Fee => i.outcome[x] # "none"
    <3> TAKE x \in 1 .. m
    <3>1. x = m \/ (x \in 1 .. m - 1 /\ x # m)
      BY <1>7
    <3>2. x \in Items
      BY <1>2, <1>7
    <3> QED
      BY <1>9, <2>5, <3>1, <3>2
  <2>9. i.denomDone /\ act[p].cursor = i.next
    BY <1>6, <2>5
  <2> HIDE DEF j
  <2> QED
    BY <1>5, <1>6, <1>8, <2>2, <2>5, <2>6, <2>7, <2>8, <2>9, NextItems
<1> QED
  BY <1>10, <1>11, <1>12 DEF SubaccountReply

\* The pending transfer is the one p expects.
LEMMA MatchesIs ==
  ASSUME IInv, NEW p \in Proc, act[p].pc \in {"transfer", "notify", "claim"}, Matches(p)
  PROVE  /\ Holder(p, act[p], st, Wild, lastStart) /\ OwnOK(act[p], lastStart)
         /\ HolderOK(act[p], st, Others(p), lastStart)
         /\ st.job # NoJob /\ Waits(st.job) /\ PlaceOK(act[p], st.job)
         /\ st.job.pending = act[p].pend /\ Request(act[p]) = Pending(st.job)
         /\ st.job.id = act[p].job /\ act[p].pend # NoPending
<1>1. /\ Current(p) /\ st.job # NoJob /\ st.job.id = act[p].job
      /\ st.job.pending = act[p].pend
  BY DEF Matches
<1>2. /\ Holder(p, act[p], st, Wild, lastStart) /\ OwnOK(act[p], lastStart)
      /\ HolderOK(act[p], st, Others(p), lastStart)
  BY <1>1, HolderIs
<1>3. act[p].pend # NoPending
  BY <1>2 DEF OwnOK
<1>4. PlaceOK(act[p], st.job)
  BY <1>1, <1>2, <1>3 DEF HolderOK
<1> QED
  BY <1>1, <1>2, <1>3, <1>4 DEF Waits, Request, Pending

LEMMA TransferStep ==
  ASSUME IInv, NEW p \in Proc, Current(p), TransferReply(p)
  PROVE  Outcome(p, Wild, lastStart)
<1> DEFINE n == lastStart
           V == Wild
           j == st.job
<1>1. act[p].pc = "transfer" /\ act[p].got
  BY DEF TransferReply
<1>2. /\ Holder(p, act[p], st, V, n) /\ OwnOK(act[p], n)
      /\ DispatchOK(st) /\ Setting(V, n) /\ BaseOK(st, V, n) /\ round \in Rounds
      /\ st \in Stores /\ Len(closed) \in Nat /\ act[p] \in Activations
  BY <1>1, HolderIs, InvIs DEF Holder
<1>3. CASE Return(p, act[p], st)
  BY <1>2, <1>3, Returns
<1>4. CASE Matches(p) /\ act[p].verdict \in {"accepted", "unusable", "unavailable", "refused"}
  <2>1. /\ HolderOK(act[p], st, Others(p), n)
        /\ st.job # NoJob /\ Waits(st.job) /\ PlaceOK(act[p], st.job)
        /\ st.job.pending = act[p].pend /\ Request(act[p]) = Pending(st.job)
        /\ st.job.id = act[p].job /\ act[p].pend # NoPending
    BY <1>1, <1>4, MatchesIs
  <2>2. Others(p) = V
    BY <1>1, OthersIs DEF InFlight
  <2>3. /\ st.job.pending.phase = "awaiting"
        /\ act[p].mode = "top" /\ st.job.pending.item = 0 => act[p].prior
        /\ ~act[p].prior /\ (act[p].got => act[p].verdict \notin {"accepted", "unusable"})
                 => Request(act[p]) \notin V
    <3>1. /\ act[p].pend.phase = "awaiting"
          /\ act[p].mode = "top" /\ act[p].pend.item = 0 => act[p].prior
          /\ ~act[p].prior /\ (act[p].got => act[p].verdict \notin {"accepted", "unusable"})
                 => Request(act[p]) \notin Others(p)
      BY <1>1, <2>1 DEF HolderOK
    <3> QED
      BY <2>1, <2>2, <3>1
  <2>4. ~IsAccepted(st.job)
    BY <2>3 DEF IsAccepted
  <2>5. JobOK(j, V, Len(closed), n) /\ j \in Jobs
    BY <1>2, <2>1, StoreIs
  <2>6. CASE act[p].verdict = "accepted"
                /\ Settle(p, [act[p] EXCEPT !.pend = Accepted(st).job.pending], Accepted(st))
    <3>1. j.pending \in Pendings
      BY <1>2, <2>1, <2>5, PendingTx
    <3>2. PICK i : i = WithAccepted(j)
      OBVIOUS
    <3>3. PICK t : t = With(st, i, st.dispatch)
      OBVIOUS
    <3>4. Accepted(st) = t
      BY <1>2, <2>5, <3>1, <3>2, <3>3, AcceptedIs
    <3>5. Pending(j) \in blocks
      BY <1>1, <1>2, <2>1, <2>6 DEF OwnOK
    <3>6. /\ JobOK(i, V, Len(closed), n) /\ Waits(i) /\ IsAccepted(i) /\ i.id = j.id
          /\ i.next = j.next /\ i.scanned = j.scanned /\ i.tranche = j.tranche
          /\ i.pending = [j.pending EXCEPT !.phase = "accepted"]
      BY <1>2, <2>1, <2>3, <2>5, <3>2, <3>5, JobAccepted
    <3>7. st.dispatch \in Dispatches \cup {NoDispatch}
          /\ (st.dispatch # NoDispatch => st.dispatch.pending.phase = "awaiting")
      BY <1>2 DEF BaseOK, Stores
    <3>8. BaseOK(t, V, n) /\ i # NoJob
      BY <1>2, <2>1, <3>3, <3>6, <3>7, BaseWith
    <3>9. t.job = i /\ t.lock = st.lock
      BY ONLY <1>2, <3>3 DEF With, Stores
    <3>10. PICK c : c = [act[p] EXCEPT !.pend = i.pending]
      OBVIOUS
    <3>11. i.pending \in Pendings
      BY <1>2, <3>6, PendingTx
    <3>12. c \in Activations
      BY ONLY <1>2, <3>10, <3>11 DEF Activations
    <3>13. /\ c.start = act[p].start /\ c.expiry = act[p].expiry /\ c.mode = act[p].mode
           /\ c.pos = act[p].pos /\ c.cursor = act[p].cursor /\ c.end = act[p].end
      BY ONLY <1>2, <3>10 DEF Activations
    <3>14. Holder(p, c, t, V, n)
      BY <1>2, <3>8, <3>9, <3>12, <3>13 DEF Holder
    <3>15. PlaceOK(c, i)
      BY <2>1, <3>6, <3>13 DEF PlaceOK
    <3>16. Settle(p, c, t)
      BY <2>6, <3>4, <3>9, <3>10
    <3> QED
      BY <3>6, <3>8, <3>9, <3>14, <3>15, <3>16, Settles
  <2>7. CASE Unresolved(p, act[p], st)
    BY <1>2, <2>1, <2>4, <2>7, Unresolveds
  <2>8. CASE act[p].verdict \in {"unavailable", "refused"} /\ Rejected(p)
    <3>1. ~act[p].prior => Pending(st.job) \notin V
      BY <2>1, <2>3, <2>8
    <3>2. act[p].attempt \in {1, 2}
      BY <1>1, <1>2 DEF OwnOK
    <3> QED
      BY <1>2, <2>1, <2>3, <2>4, <2>8, <3>1, <3>2, Rejecteds
  <2>9. \/ Return(p, act[p], st)
        \/ act[p].verdict = "accepted"
             /\ Settle(p, [act[p] EXCEPT !.pend = Accepted(st).job.pending], Accepted(st))
        \/ Unresolved(p, act[p], st)
        \/ act[p].verdict \in {"unavailable", "refused"} /\ Rejected(p)
    BY DEF TransferReply
  <2> QED
    BY <1>3, <2>6, <2>7, <2>8, <2>9
<1> QED
  BY <1>3, <1>4 DEF TransferReply

LEMMA UnknownStep ==
  ASSUME IInv, NEW p \in Proc, Current(p), TransferUnknown(p)
  PROVE  Outcome(p, Wild, lastStart)
<1> DEFINE n == lastStart
           V == Wild
<1>1. act[p].pc = "transfer"
  BY DEF TransferUnknown
<1>2. /\ Holder(p, act[p], st, V, n) /\ DispatchOK(st)
  BY <1>1, HolderIs, InvIs
<1>3. CASE Return(p, act[p], st)
  BY <1>2, <1>3, Returns
<1>4. CASE Matches(p)
  <2>1. /\ HolderOK(act[p], st, Others(p), n)
        /\ st.job # NoJob /\ Waits(st.job) /\ PlaceOK(act[p], st.job)
        /\ st.job.pending = act[p].pend
        /\ st.job.id = act[p].job /\ act[p].pend # NoPending
    BY <1>1, <1>4, MatchesIs
  <2>2. st.job.pending.phase = "awaiting" /\ ~IsAccepted(st.job)
    BY <1>1, <2>1 DEF HolderOK, IsAccepted
  <2>3. MayHaveDispatched(st)
    BY <1>2, <2>1 DEF DispatchOK
  <2>4. CASE Send(p, act[p], st, NextAttempt(1))
    <3>1. Send(p, act[p], st, 2) /\ 2 \in {1, 2}
      BY <2>4 DEF NextAttempt
    <3> QED
      BY <1>2, <2>1, <2>2, <2>3, <3>1, Sends
  <2>5. CASE Unresolved(p, act[p], st)
    BY <1>2, <2>1, <2>2, <2>5, Unresolveds
  <2> QED
    BY <1>3, <2>4, <2>5 DEF TransferUnknown
<1> QED
  BY <1>3, <1>4 DEF TransferUnknown

LEMMA ClaimStep ==
  ASSUME IInv, NEW p \in Proc, Current(p), ClaimReply(p)
  PROVE  Outcome(p, Wild, lastStart)
<1> DEFINE n == lastStart
           V == Wild
           j == st.job
<1>1. act[p].pc = "claim"
  BY DEF ClaimReply
<1>2. /\ Holder(p, act[p], st, V, n) /\ DispatchOK(st) /\ Setting(V, n)
      /\ BaseOK(st, V, n) /\ st \in Stores /\ Len(closed) \in Nat
  BY <1>1, HolderIs, InvIs
<1>3. CASE Return(p, act[p], st)
  BY <1>2, <1>3, Returns
<1>4. CASE Matches(p) /\ Driven(p, act[p], Cleared(st, "paid"))
  <2>1. /\ HolderOK(act[p], st, Others(p), n)
        /\ st.job # NoJob /\ Waits(st.job) /\ PlaceOK(act[p], st.job)
        /\ st.job.pending = act[p].pend
        /\ st.job.id = act[p].job /\ act[p].pend # NoPending
    BY <1>1, <1>4, MatchesIs
  <2>2. act[p].pend.phase = "accepted" /\ act[p].pend.kind = "stake"
    BY <1>1, <2>1 DEF HolderOK
  <2>3. IsAccepted(j) /\ j.pending.kind # "topup"
    BY <2>1, <2>2 DEF IsAccepted
  <2>4. JobOK(j, V, Len(closed), n) /\ j \in Jobs
    BY <1>2, <2>1, StoreIs
  <2>5. /\ j.gross = Spent(j) + j.pending.share /\ j.pending.share \in Nat
        /\ j.pending.share <= j.pending.share
        /\ Net(Pending(j)) <= j.pending.share /\ Pending(j) \in blocks
    BY <1>2, <2>3, <2>4, AcceptedIsBooked
  <2>6. Cleared(st, "paid") = With(st, Booked(j, j.gross, "paid"), NoDispatch)
    BY <1>2, <2>4, ClearedIs
  <2>7. Driven(p, act[p], With(st, Booked(j, j.gross, "paid"), NoDispatch))
    BY <1>4, <2>6
  <2>8. "paid" # "failed" /\ "paid" \in {"paid", "failed", "ambiguous"}
    OBVIOUS
  <2> QED
    BY <1>2, <2>1, <2>3, <2>5, <2>7, <2>8, Clears
<1> QED
  BY <1>3, <1>4 DEF ClaimReply

LEMMA NotifyStep ==
  ASSUME IInv, NEW p \in Proc, Current(p), NotifyReply(p)
  PROVE  Outcome(p, Wild, lastStart)
<1> DEFINE n == lastStart
           V == Wild
<1>1. act[p].pc = "notify"
  BY DEF NotifyReply
<1>2. /\ Holder(p, act[p], st, V, n) /\ DispatchOK(st) /\ OwnOK(act[p], n)
  BY <1>1, HolderIs, InvIs
<1>3. CASE Return(p, act[p], st)
  BY <1>2, <1>3, Returns
<1>4. CASE Matches(p) /\ ~Return(p, act[p], st)
  <2>1. /\ HolderOK(act[p], st, Others(p), n)
        /\ st.job # NoJob /\ Waits(st.job) /\ PlaceOK(act[p], st.job)
        /\ st.job.pending = act[p].pend /\ Request(act[p]) = Pending(st.job)
        /\ st.job.id = act[p].job /\ act[p].pend # NoPending
    BY <1>1, <1>4, MatchesIs
  <2>2. act[p].pend.phase = "accepted"
    BY <1>1, <2>1 DEF HolderOK
  <2>3. /\ act[p].attempt \in {1, 2} /\ act[p].pend.kind = "topup"
        /\ (act[p].terminal => Request(act[p]) \in rejected)
        /\ (act[p].got =>
              /\ act[p].verdict \in {"minted", "refund", "terminal", "transient"}
              /\ (act[p].verdict = "minted" => Request(act[p]) \in minted)
              /\ (act[p].verdict = "refund" => Request(act[p]) \in refunded)
              /\ (act[p].verdict = "terminal" => Request(act[p]) \in rejected))
    BY <1>1, <1>2 DEF OwnOK
  <2>4. IsAccepted(st.job) /\ st.job.pending.kind = "topup"
    BY <2>1, <2>2, <2>3 DEF IsAccepted
  <2>5. PICK v : /\ v = "transient" \/ (act[p].got /\ v = act[p].verdict)
                 /\ Notified(p, v)
    BY <1>4 DEF NotifyReply
  <2>6. /\ v \in {"minted", "refund", "terminal", "transient"}
        /\ v = "minted" => Pending(st.job) \in minted
        /\ v = "refund" => Pending(st.job) \in refunded
        /\ v = "terminal" => Pending(st.job) \in rejected
    BY <2>1, <2>3, <2>5
  <2>7. act[p].terminal => Pending(st.job) \in rejected
    BY <2>1, <2>3
  <2>8. Notified(p, v)
    BY <2>5
  <2> QED
    BY <1>2, <2>1, <2>3, <2>4, <2>6, <2>7, <2>8, Notifieds
<1> QED
  BY <1>3, <1>4 DEF NotifyReply

\* An activation that only gives its lease back.
LEMMA FinishStep ==
  ASSUME IInv, NEW p \in Proc, act[p].pc # "idle", Current(p), Finish(p, act[p], st)
  PROVE  Outcome(p, Wild, lastStart)
<1>1. Holder(p, act[p], st, Wild, lastStart) /\ DispatchOK(st)
  BY HolderIs, InvIs
<1>2. Return(p, act[p], st)
  BY DEF Return
<1> QED
  BY <1>1, <1>2, Returns

-----------------------------------------------------------------------------
(* From what a step does to the invariant after it.  What the invariant says  *)
(* of given stores and transfers depends on these variables only.             *)

Kept == UNCHANGED <<blocks, minted, refunded, rejected, round>>
Same == Kept /\ UNCHANGED <<funded, closed>>

LEMMA TotalFrame ==
  ASSUME Kept, NEW V
  PROVE  Total(V)' = Total(V)
<1>1. \A tx : (IF tx \in refunded' THEN 4 * Fee ELSE tx.amt + Fee)
                = (IF tx \in refunded THEN 4 * Fee ELSE tx.amt + Fee)
  BY DEF Kept
<1> QED
  BY <1>1 DEF Total, Net

LEMMA WildFrame ==
  ASSUME Kept, NEW V, NEW n
  PROVE  WildOK(V, n)' <=> WildOK(V, n)
  BY DEF Kept, WildOK, Txs, N, NItems

LEMMA OutcomesFrame ==
  ASSUME Kept, NEW j, NEW V
  PROVE  OutcomesOK(j, V)' <=> OutcomesOK(j, V)
<1>1. Items' = Items
  BY DEF Kept, Items, NItems
<1>2. /\ \A id : OfJob(V, id)' = OfJob(V, id)
      /\ \A i : BeingPaid(j, i)' <=> BeingPaid(j, i)
  BY DEF OfJob, BeingPaid
<1> QED
  BY <1>1, <1>2 DEF OutcomesOK, Kept

LEMMA JobFrame ==
  ASSUME Same, NEW j, NEW V, NEW k, NEW n
  PROVE  JobOK(j, V, k, n)' <=> JobOK(j, V, k, n)
<1> USE DEF Same, Kept
<1>1. Jobs' = Jobs /\ N' = N /\ Items' = Items /\ Weight' = Weight
  BY DEF Jobs, N, NItems, Items, Weight
<1>2. \A m : WeightUpTo(m)' = WeightUpTo(m)
  BY <1>1 DEF WeightUpTo
<1>3. /\ \A id : OfJob(V, id)' = OfJob(V, id)
      /\ Pending(j)' = Pending(j) /\ (Waits(j)' <=> Waits(j))
      /\ (IsAccepted(j)' <=> IsAccepted(j)) /\ Rest(V, j)' = Rest(V, j)
      /\ Spent(j)' = Spent(j) /\ Committed(j)' = Committed(j)
      /\ \A i : BeingPaid(j, i)' <=> BeingPaid(j, i)
  BY DEF OfJob, Pending, Waits, IsAccepted, Rest, Spent, Committed, BeingPaid, Tx
<1>4. \A i : Share(j, i)' = Share(j, i)
  BY <1>1 DEF Share
<1>5. ScanOK(j, V)' <=> ScanOK(j, V)
  BY <1>1, <1>2, <1>3 DEF ScanOK
<1>6. PendingOK(j, V)' <=> PendingOK(j, V)
  BY <1>3 DEF PendingOK
<1>7. RemainderOK(j, V)' <=> RemainderOK(j, V)
  BY <1>3 DEF RemainderOK
<1>8. MoneyOK(j, V, k)' <=> MoneyOK(j, V, k)
  <2>1. Total(Rest(V, j))' = Total(Rest(V, j))
    <3>1. PICK R : R = Rest(V, j)
      OBVIOUS
    <3>2. Total(R)' = Total(R) /\ R = Rest(V, j)'
      BY <1>3, <3>1, TotalFrame
    <3> QED
      BY <3>1, <3>2
  <2>2. Total(OfJob(Rest(V, j), j.id))' = Total(OfJob(Rest(V, j), j.id))
    <3>1. PICK R : R = OfJob(Rest(V, j), j.id)
      OBVIOUS
    <3>2. OfJob(Rest(V, j), j.id)' = R
      BY <1>3, <3>1 DEF OfJob
    <3>3. Total(R)' = Total(R)
      BY TotalFrame
    <3> QED
      BY <3>1, <3>2, <3>3
  <2> QED
    BY <1>2, <1>3, <2>1, <2>2 DEF MoneyOK
<1>9. TimesOK(j, V, n)' <=> TimesOK(j, V, n)
  BY <1>1, <1>3 DEF TimesOK
<1>10. OutcomesOK(j, V)' <=> OutcomesOK(j, V)
  BY OutcomesFrame
<1>11. PassedOK(j)' <=> PassedOK(j)
  BY <1>3, <1>4 DEF PassedOK
<1> QED
  BY <1>1, <1>5, <1>6, <1>7, <1>8, <1>9, <1>10, <1>11 DEF JobOK

LEMMA ClosedFrame ==
  ASSUME Same, NEW V, NEW k, NEW nonce
  PROVE  ClosedOK(k, V, nonce)' <=> ClosedOK(k, V, nonce)
<1> USE DEF Same, Kept
<1>1. Jobs' = Jobs /\ Items' = Items /\ Weight' = Weight /\ closed' = closed
  BY DEF Jobs, NItems, Items, Weight
<1>2. PICK j : j = closed[k]
  OBVIOUS
<1>3. /\ \A id : OfJob(V, id)' = OfJob(V, id)
      /\ (Waits(j)' <=> Waits(j))
      /\ \A i : BeingPaid(j, i)' <=> BeingPaid(j, i)
  BY DEF OfJob, Waits, BeingPaid
<1>4. \A i : Share(j, i)' = Share(j, i)
  BY <1>1 DEF Share
<1>5. Total(OfJob(V, j.id))' = Total(OfJob(V, j.id))
  <2>1. PICK R : R = OfJob(V, j.id)
    OBVIOUS
  <2>2. OfJob(V, j.id)' = R
    BY <1>3, <2>1 DEF OfJob
  <2>3. Total(R)' = Total(R)
    BY TotalFrame
  <2> QED
    BY <2>1, <2>2, <2>3
<1>6. OutcomesOK(j, V)' <=> OutcomesOK(j, V)
  BY OutcomesFrame
<1>7. closed'[k] = j
  BY <1>1, <1>2
<1> QED
  BY <1>1, <1>2, <1>3, <1>4, <1>5, <1>6, <1>7 DEF ClosedOK

LEMMA StoreFrame ==
  ASSUME Same, NEW s, NEW V, NEW n
  PROVE  StoreOK(s, V, n)' <=> StoreOK(s, V, n)
<1> USE DEF Same, Kept
<1>1. Stores' = Stores
  BY DEF Stores, Jobs, Dispatches, NItems
<1>2. /\ JobOK(s.job, V, Len(closed), n)' <=> JobOK(s.job, V, Len(closed), n)
      /\ \A k : ClosedOK(k, V, s.nonce)' <=> ClosedOK(k, V, s.nonce)
      /\ Total(V)' = Total(V)
  BY JobFrame, ClosedFrame, TotalFrame
<1>3. JobBase(s, V, n)' <=> JobBase(s, V, n)
  BY <1>2 DEF JobBase
<1>4. DispatchOK(s)' <=> DispatchOK(s)
  BY DEF DispatchOK, Waits, MayHaveDispatched
<1> QED
  BY <1>1, <1>2, <1>3, <1>4 DEF StoreOK, BaseOK

LEMMA HolderFrame ==
  ASSUME Same, NEW a, NEW s, NEW V, NEW n
  PROVE  /\ HolderOK(a, s, V, n)' <=> HolderOK(a, s, V, n)
         /\ OwnOK(a, n)' <=> OwnOK(a, n)
<1> USE DEF Same, Kept
<1>1. /\ Request(a)' = Request(a) /\ (PlaceOK(a, s.job)' <=> PlaceOK(a, s.job))
      /\ (Waits(s.job)' <=> Waits(s.job)) /\ Kind' = Kind /\ Weight' = Weight
  BY DEF Request, Tx, PlaceOK, Waits, Kind, Weight
<1>2. \A i : Share(s.job, i)' = Share(s.job, i)
  BY <1>1 DEF Share
<1>3. HolderOK(a, s, V, n)' <=> HolderOK(a, s, V, n)
  BY <1>1, <1>2 DEF HolderOK
<1>4. OwnOK(a, n)' <=> OwnOK(a, n)
  BY <1>1 DEF OwnOK
<1> QED
  BY <1>3, <1>4

\* The parts of the invariant that no step of an activation touches.
LEMMA RestFrame ==
  ASSUME IInv, Same, UNCHANGED balance
  PROVE  /\ (round \in Rounds)' /\ (blocks \subseteq Txs)' /\ (closed \in Seq(Jobs))'
         /\ LedgerOK' /\ CmcOK' /\ Activations' = Activations /\ Txs' = Txs
<1>1. Txs' = Txs /\ Jobs' = Jobs /\ Activations' = Activations
  BY DEF Same, Kept, Txs, Jobs, Activations, Pendings, NItems
<1>2. CmcOK'
  BY DEF IInv, Same, Kept, CmcOK
<1>3. LedgerOK'
  <2>1. PICK R : R = blocks
    OBVIOUS
  <2>2. Total(R)' = Total(R)
    BY TotalFrame DEF Same
  <2>3. Total(blocks)' = Total(blocks)
    BY <2>1, <2>2 DEF Same, Kept
  <2> QED
    BY <2>3 DEF IInv, Same, Kept, LedgerOK
<1> QED
  BY <1>1, <1>2, <1>3 DEF IInv, Same, Kept

\* Activation p goes on.
LEMMA ActStep ==
  ASSUME IInv, NEW p \in Proc, Same, UNCHANGED balance, NEW n, lastStart' = n,
         ClockOK', late' = Abandoned(p), Outcome(p, Wild, n),
         \A q \in Proc \ {p} :
           /\ OwnOK(act[q], n)
           /\ act[q].pc # "idle" /\ act'[p].pc # "idle" => act[q].start # n
           /\ act[q].pc # "idle" /\ st'.lock = act[q].expiry =>
                HolderOK(act[q], st', Others(q)', n)
  PROVE  IInv'
<1>1. act \in [Proc -> Activations] /\ Wild \subseteq Txs
  BY InvIs
<1>3. PICK V : V = Wild
  OBVIOUS
<1>4. PICK b \in Activations : act' = [act EXCEPT ![p] = b] /\ EndsAs(b, st', V, n)
  BY <1>3 DEF Outcome
<1>5. PICK s : s = st'
  OBVIOUS
<1>6. act'[p] = b /\ \A q \in Proc : q # p => act'[q] = act[q]
  BY <1>1, <1>4
<1>7. /\ WildOK(V \cup Flight(b), n) /\ StoreOK(s, V \cup Flight(b), n)
      /\ OwnOK(b, n) /\ (b.pc # "idle" => b.start = n)
      /\ (b.pc # "idle" /\ s.lock = LeaseExpiry(n, Lease) => HolderOK(b, s, V, n))
  BY <1>4, <1>5 DEF EndsAs
<1>8. late' = late \cup Flight(act[p]) /\ blocks' = blocks /\ lastStart' = n
  BY DEF Abandoned, Flight, InFlight, Request, Same, Kept
<1>9. Flights(Proc)' = Flights(Proc \ {p}) \cup Flight(b)
  BY <1>6 DEF Flights, Flight, InFlight, Request, Tx
<1>10. Flights(Proc) = Flights(Proc \ {p}) \cup Flight(act[p])
  BY DEF Flights, Flight
<1>11. Flights(Proc \ {p})' = Flights(Proc \ {p})
  BY <1>6 DEF Flights, InFlight, Request, Tx
<1>12. Wild' = V \cup Flight(b) /\ Others(p)' = V
  BY <1>3, <1>8, <1>9, <1>10, <1>11 DEF Wild, Others
<1>13. /\ (round \in Rounds)' /\ (blocks \subseteq Txs)' /\ (closed \in Seq(Jobs))'
       /\ LedgerOK' /\ CmcOK' /\ Activations' = Activations /\ Txs' = Txs
  BY RestFrame
<1>14. (act \in [Proc -> Activations])' /\ (late \subseteq Txs)'
  <2>1. act' \in [Proc -> Activations]
    BY <1>1, <1>4
  <2>2. late' \subseteq Txs
    BY <1>1, <1>8, <1>10 DEF Wild
  <2> QED
    BY <1>13, <2>1, <2>2
<1>15. WildOK(Wild, lastStart)' /\ StoreOK(st, Wild, lastStart)'
  <2>1. PICK U : U = V \cup Flight(b)
    OBVIOUS
  <2>2. WildOK(U, n)' /\ StoreOK(s, U, n)'
    BY <1>7, <2>1, WildFrame, StoreFrame DEF Same
  <2> QED
    BY <1>5, <1>8, <1>12, <2>1, <2>2
<1>16. ASSUME NEW q \in Proc PROVE OwnOK(act[q], lastStart)'
  <2>1. PICK c : c = act'[q]
    OBVIOUS
  <2>2. OwnOK(c, n)
    <3>1. CASE q = p
      BY <1>6, <1>7, <2>1, <3>1
    <3>2. CASE q # p
      BY <1>6, <2>1, <3>2
    <3> QED
      BY <3>1, <3>2
  <2>3. OwnOK(c, n)'
    BY <2>2, HolderFrame
  <2> QED
    BY <1>8, <2>1, <2>3
<1>17. \A q, r \in Proc : q # r /\ act'[q].pc # "idle" /\ act'[r].pc # "idle" =>
         act'[q].start # act'[r].start
  <2> SUFFICES ASSUME NEW q \in Proc, NEW r \in Proc, q # r,
                      act'[q].pc # "idle", act'[r].pc # "idle"
               PROVE  act'[q].start # act'[r].start
    OBVIOUS
  <2>1. CASE q = p
    BY <1>6, <1>7, <2>1
  <2>2. CASE r = p
    BY <1>6, <1>7, <2>2
  <2>3. CASE q # p /\ r # p
    BY <1>6, <2>3 DEF IInv
  <2> QED
    BY <2>1, <2>2, <2>3
<1>18. ASSUME NEW q \in Proc, Holds(q)'
       PROVE  HolderOK(act[q], st, Others(q), lastStart)'
  <2>1. act'[q].pc # "idle" /\ s.lock = act'[q].expiry
    BY <1>5, <1>18 DEF Holds, Current
  <2>2. PICK c : c = act'[q]
    OBVIOUS
  <2>3. PICK W : W = Others(q)'
    OBVIOUS
  <2>4. HolderOK(c, s, W, n)
    <3>1. CASE q = p
      <4>1. b.pc # "idle" /\ b.expiry = LeaseExpiry(n, Lease) /\ c = b /\ W = V
        BY <1>6, <1>7, <1>12, <2>1, <2>2, <2>3, <3>1 DEF OwnOK
      <4> QED
        BY <1>6, <1>7, <2>1, <3>1, <4>1
    <3>2. CASE q # p
      BY <1>5, <1>6, <2>1, <2>2, <2>3, <3>2
    <3> QED
      BY <3>1, <3>2
  <2>5. HolderOK(c, s, W, n)'
    BY <2>4, HolderFrame
  <2> QED
    BY <1>5, <1>8, <2>2, <2>3, <2>5
<1> QED
  BY <1>13, <1>14, <1>15, <1>16, <1>17, <1>18 DEF IInv

\* The holder of the lease goes on.
LEMMA HeldStep ==
  ASSUME IInv, NEW p \in Proc, act[p].pc # "idle", Current(p),
         Same, UNCHANGED <<now, lastStart, balance>>,
         late' = Abandoned(p), Outcome(p, Wild, lastStart)
  PROVE  IInv'
<1>1. /\ act \in [Proc -> Activations] /\ lastStart \in Nat
      /\ act[p].start = lastStart
  BY InvIs, HolderIs DEF Holder
<1>2. PICK b \in Activations :
        act' = [act EXCEPT ![p] = b] /\ EndsAs(b, st', Wild, lastStart)
  BY DEF Outcome
<1>3. ClockOK' /\ lastStart' = lastStart
  BY DEF IInv, ClockOK
<1>4. st'.lock \in {Unlocked, LeaseExpiry(lastStart, Lease)}
  BY <1>2 DEF EndsAs, StoreOK, BaseOK
<1>5. ASSUME NEW q \in Proc, q # p, act[q].pc # "idle"
      PROVE  st'.lock # act[q].expiry /\ act[q].start # lastStart
  <2>1. act[q].start # act[p].start /\ act[q].expiry = LeaseExpiry(act[q].start, Lease)
    BY <1>5 DEF IInv, OwnOK
  <2>2. act[q].start \in Nat
    BY <1>1 DEF Activations
  <2> QED
    BY <1>1, <1>4, <2>1, <2>2, Consts DEF LeaseExpiry, Unlocked
<1>6. \A q \in Proc : OwnOK(act[q], lastStart)
  BY DEF IInv
<1> QED
  BY <1>3, <1>5, <1>6, ActStep

\* An activation that lost the lease ends.
LEMMA StaleStep ==
  ASSUME IInv, NEW p \in Proc, act[p].pc # "idle", ~Current(p),
         Same, UNCHANGED <<now, lastStart, balance>>,
         late' = Abandoned(p), Finish(p, act[p], st)
  PROVE  IInv'
<1>1. /\ act \in [Proc -> Activations] /\ lastStart \in Nat /\ st \in Stores
      /\ round \in Rounds /\ WildOK(Wild, lastStart) /\ BaseOK(st, Wild, lastStart)
      /\ DispatchOK(st)
  BY InvIs
<1>2. st' = st
  BY <1>1 DEF Finish, Released, Current, Stores
<1>3. Idle \in Activations /\ Idle.pc = "idle"
  <2>1. act[p] \in Activations
    BY <1>1
  <2> QED
    BY <1>1, <2>1, AtIs DEF Pcs
<1>4. act' = [act EXCEPT ![p] = Idle] /\ act'[p] = Idle
  BY <1>1 DEF Finish
<1>5. Wild \cup Flight(Idle) = Wild
  BY <1>3 DEF Flight, InFlight
<1>6. EndsAs(Idle, st', Wild, lastStart)
  BY <1>1, <1>2, <1>3, <1>5 DEF EndsAs, StoreOK, OwnOK
<1>7. Outcome(p, Wild, lastStart)
  BY <1>3, <1>4, <1>6 DEF Outcome
<1>8. ASSUME NEW q \in Proc, q # p, act[q].pc # "idle", st'.lock = act[q].expiry
      PROVE  HolderOK(act[q], st', Others(q)', lastStart)
  <2>1. HolderOK(act[q], st, Others(q), lastStart)
    BY <1>2, <1>8 DEF IInv, Holds, Current
  <2>2. /\ late' = late \cup Flight(act[p]) /\ blocks' = blocks
    BY DEF Abandoned, Flight, InFlight, Request, Same, Kept
  <2>3. \A r \in Proc : r # p => act'[r] = act[r]
    BY <1>1, <1>4
  <2>4. Flights(Proc \ {q})' = Flights(Proc \ {p, q})
    BY <1>3, <1>4, <1>8, <2>3 DEF Flights, InFlight, Request, Tx
  <2>5. Flights(Proc \ {q}) = Flights(Proc \ {p, q}) \cup Flight(act[p])
    BY <1>8 DEF Flights, Flight
  <2>6. Others(q)' = Others(q)
    BY <2>2, <2>4, <2>5 DEF Others
  <2> QED
    BY <1>2, <2>1, <2>6
<1>9. ClockOK' /\ lastStart' = lastStart /\ \A q \in Proc : OwnOK(act[q], lastStart)
  BY DEF IInv, ClockOK
<1> QED
  BY <1>3, <1>4, <1>7, <1>8, <1>9, ActStep

\* A callback that leaves the history of jobs alone.
LEMMA CallbackStep ==
  ASSUME IInv, NEW p \in Proc, act[p].pc # "idle",
         Same, UNCHANGED <<now, lastStart, balance>>, late' = Abandoned(p),
         Current(p) => Outcome(p, Wild, lastStart),
         ~Current(p) => Return(p, act[p], st) \/ Finish(p, act[p], st)
  PROVE  IInv'
<1>1. CASE Current(p)
  BY <1>1, HeldStep
<1>2. CASE ~Current(p)
  <2>1. Finish(p, act[p], st)
    BY <1>2 DEF Return, Current
  <2> QED
    BY <1>2, <2>1, StaleStep
<1> QED
  BY <1>1, <1>2

\* The job is closed.
LEMMA CloseStep ==
  ASSUME IInv, NEW p \in Proc, act[p].pc = "status", Current(p), st.job # NoJob,
         closed' = Append(closed, st.job), Kept,
         UNCHANGED <<now, lastStart, funded, balance, late>>,
         Return(p, act[p], [st EXCEPT !.job = NoJob, !.processed = st.job.tranche])
  PROVE  IInv'
<1>1. /\ Holder(p, act[p], st, Wild, lastStart)
      /\ HolderOK(act[p], st, Others(p), lastStart)
      /\ Setting(Wild, lastStart) /\ BaseOK(st, Wild, lastStart) /\ round \in Rounds
      /\ st \in Stores /\ Len(closed) \in Nat /\ act \in [Proc -> Activations]
      /\ lastStart \in Nat /\ WildOK(Wild, lastStart) /\ N \in Nat
      /\ closed \in Seq(Jobs) /\ act[p] \in Activations
  BY HolderIs, InvIs DEF IInv
<1>2. PICK n : n = lastStart
  OBVIOUS
<1>3. PICK V : V = Wild
  OBVIOUS
<1>4. PICK j : j = st.job
  OBVIOUS
<1>5. ~Waits(j) /\ j.scanned
  BY <1>1, <1>4 DEF HolderOK
<1>6. /\ j \in Jobs /\ JobOK(j, V, Len(closed), n) /\ j.id \in Nat /\ j.gross \in Nat
      /\ j.id < st.nonce /\ j.tranche = Len(closed) + 1 /\ j.tranche <= funded
      /\ \A k \in 1 .. Len(closed) : closed[k].id < j.id
  <2>1. j \in Jobs /\ JobOK(j, V, Len(closed), n)
    BY <1>1, <1>2, <1>3, <1>4, StoreIs
  <2>2. JobBase(st, Wild, lastStart)
    BY <1>1 DEF BaseOK
  <2> QED
    BY <1>1, <1>4, <2>1, <2>2, JobIs DEF JobBase
<1>7. PICK c : c = closed'
  OBVIOUS
<1>8. /\ Len(c) = Len(closed) + 1 /\ c[Len(closed) + 1] = j
      /\ \A k \in 1 .. Len(closed) : c[k] = closed[k]
      /\ c \in Seq(Jobs)
  BY <1>1, <1>4, <1>6, <1>7
<1>9. /\ Spent(j) = j.gross /\ Rest(V, j) = V /\ j.gross <= Pot
      /\ Total(V) <= Pot * Len(closed) + j.gross /\ Total(OfJob(V, j.id)) <= j.gross
  BY <1>5, <1>6 DEF Spent, IsAccepted, Rest, Committed, Waits, JobOK, MoneyOK
<1>10. Total(V) <= Pot * Len(c)
  <2>1. Total(V) \in Nat
    BY <1>1, <1>3, TotalPart DEF Setting, WildOK
  <2>2. Pot * Len(c) = Pot * Len(closed) + Pot /\ Pot * Len(closed) \in Nat /\ Pot \in Nat
    <3>1. Pot \in Nat /\ Len(closed) \in Nat /\ Len(c) = Len(closed) + 1
      BY <1>1, <1>8, Consts
    <3>2. \A a, b \in Nat : a * (b + 1) = a * b + a
      OBVIOUS
    <3>3. Pot * (Len(closed) + 1) = Pot * Len(closed) + Pot
      BY ONLY <3>1, <3>2
    <3> QED
      BY <3>1, <3>3, ProductNat
  <2> QED
    BY <1>6, <1>9, <2>1, <2>2
<1>11. PICK s : s = st'
  OBVIOUS
<1>12. PICK b \in Activations :
         /\ act' = [act EXCEPT ![p] = b]
         /\ b.pc \in {"idle", "tail"} /\ b.start \in Nat
         /\ b.pc = "tail" => b.start = n /\ b.expiry = LeaseExpiry(n, Lease)
  <2>1. Idle \in Activations /\ Idle.pc = "idle"
    BY <1>1, AtIs DEF Pcs
  <2>2. /\ At(act[p], "tail") \in Activations /\ At(act[p], "tail").pc = "tail"
        /\ At(act[p], "tail").start = n
        /\ At(act[p], "tail").expiry = LeaseExpiry(n, Lease)
    BY <1>1, <1>2, AtIs DEF Pcs, Holder
  <2>3. \A a \in Activations : a.start \in Nat
    BY DEF Activations
  <2>4. act' = [act EXCEPT ![p] = Idle] \/ act' = [act EXCEPT ![p] = At(act[p], "tail")]
    BY DEF Return, Finish
  <2>5. "idle" # "tail"
    OBVIOUS
  <2>6. CASE act' = [act EXCEPT ![p] = Idle]
    BY <2>1, <2>3, <2>5, <2>6
  <2>7. CASE act' = [act EXCEPT ![p] = At(act[p], "tail")]
    BY <2>2, <2>3, <2>7
  <2> QED
    BY <2>4, <2>6, <2>7
<1>13. /\ s \in Stores /\ s.job = NoJob /\ s.processed = j.tranche
       /\ s.nonce = st.nonce /\ s.dispatch = st.dispatch
       /\ s.lock \in {Unlocked, LeaseExpiry(n, Lease)}
  <2>1. PICK u : u = [st EXCEPT !.job = NoJob, !.processed = st.job.tranche]
    OBVIOUS
  <2>2. st.job.tranche \in Nat /\ st \in Stores /\ st.lock \in Nat
    BY <1>1, <1>4, <1>6, JobIs DEF Stores
  <2>3. /\ u \in Stores /\ u.job = NoJob /\ u.processed = j.tranche
        /\ u.nonce = st.nonce /\ u.dispatch = st.dispatch /\ u.lock = st.lock
    BY ONLY <1>4, <2>1, <2>2 DEF Stores
  <2>4. PICK l : s = [u EXCEPT !.lock = l] /\ l \in {Unlocked, st.lock}
    <3>1. CASE Finish(p, act[p], u)
      BY <1>11, <2>3, <3>1 DEF Finish, Released
    <3>2. CASE st' = u
      BY <1>11, <2>3, <3>2 DEF Stores
    <3> QED
      BY <2>1, <3>1, <3>2 DEF Return
  <2>5. l \in Nat
    BY <2>2, <2>4 DEF Unlocked
  <2>6. /\ s \in Stores /\ s.job = NoJob /\ s.processed = j.tranche
        /\ s.nonce = st.nonce /\ s.dispatch = st.dispatch /\ s.lock = l
    BY ONLY <2>3, <2>4, <2>5 DEF Stores
  <2>7. st.lock \in {Unlocked, LeaseExpiry(n, Lease)}
    BY <1>1, <1>2 DEF BaseOK
  <2> QED
    BY <2>4, <2>6, <2>7
<1>14. /\ Stores' = Stores /\ Jobs' = Jobs /\ Activations' = Activations /\ Txs' = Txs
       /\ Items' = Items
  BY DEF Kept, Stores, Jobs, Dispatches, Activations, Pendings, Txs, Items, NItems
<1>15. act'[p] = b /\ \A q \in Proc : q # p => act'[q] = act[q]
  BY <1>1, <1>12
<1>16. Wild' = V
  <2>1. \A q \in Proc : InFlight(act'[q]) <=> InFlight(act[q])
    BY <1>12, <1>15 DEF InFlight
  <2>2. \A q \in Proc : InFlight(act[q]) => act'[q] = act[q]
    BY <1>15 DEF InFlight
  <2>3. Flights(Proc)' = Flights(Proc)
    BY <2>1, <2>2 DEF Flights, InFlight, Request, Tx
  <2> QED
    BY <1>3, <2>3 DEF Wild, Kept
<1>17. WildOK(Wild, lastStart)'
  <2>1. WildOK(V, n)'
    BY <1>1, <1>2, <1>3, WildFrame
  <2> QED
    BY <1>2, <1>16, <2>1
<1>18. \A U : Total(U)' = Total(U)
  BY TotalFrame
<1>19. \A i, U : OutcomesOK(i, U)' <=> OutcomesOK(i, U)
  BY OutcomesFrame
<1>20. ASSUME NEW k \in 1 .. Len(c) PROVE ClosedOK(k, V, s.nonce)'
  <2>1. PICK i : i = c[k]
    OBVIOUS
  <2>2. closed'[k] = i
    BY <1>7, <2>1
  <2>3. /\ i \in Jobs /\ i.id < st.nonce /\ i.tranche = k
        /\ i.pot = Pot /\ i.gross <= Pot /\ ~Waits(i)
        /\ Total(OfJob(V, i.id)) <= i.gross
        /\ OutcomesOK(i, V)
        /\ \A x \in Items : Share(i, x) > Fee => i.outcome[x] # "none"
    <3>1. CASE k \in 1 .. Len(closed)
      <4>1. ClosedOK(k, V, st.nonce) /\ i = closed[k]
        BY <1>1, <1>2, <1>3, <1>8, <2>1, <3>1 DEF BaseOK
      <4> QED
        BY <4>1 DEF ClosedOK
    <3>2. CASE k = Len(closed) + 1
      <4>1. i = j
        BY <1>8, <2>1, <3>2
      <4>2. j.pot = Pot /\ OutcomesOK(j, V) /\ PassedOK(j) /\ j.denomDone /\ j.next = N
        BY <1>5, <1>6 DEF JobOK, ScanOK
      <4>3. \A x \in Items : Share(j, x) > Fee => j.outcome[x] # "none"
        BY <1>5, <4>2 DEF PassedOK, BeingPaid, Waits, Items, N
      <4> QED
        BY <1>5, <1>6, <1>9, <3>2, <4>1, <4>2, <4>3
    <3> QED
      BY <1>1, <1>8, <3>1, <3>2
  <2>4. PICK U : U = OfJob(V, i.id)
    OBVIOUS
  <2>5. OfJob(V, i.id)' = U /\ Total(U)' = Total(U) /\ Waits(i)' = Waits(i)
    BY <1>18, <2>4 DEF OfJob, Waits
  <2>6. \A x : Share(i, x)' = Share(i, x)
    BY DEF Share, Weight, Kept
  <2>7. OutcomesOK(i, V)'
    BY <1>19, <2>3
  <2> QED
    BY <1>13, <1>14, <2>2, <2>3, <2>4, <2>5, <2>6, <2>7 DEF ClosedOK
<1>21. StoreOK(st, Wild, lastStart)'
  <2>1. Total(V)' <= Pot * Len(c)
    BY <1>10, <1>18
  <2>2. /\ s.dispatch # NoDispatch => s.dispatch.pending.phase = "awaiting"
        /\ \A tx \in V : tx.job < s.nonce
    BY <1>1, <1>3, <1>13 DEF BaseOK
  <2>3. BaseOK(s, V, n)'
    BY <1>6, <1>7, <1>8, <1>13, <1>14, <1>20, <2>1, <2>2 DEF BaseOK
  <2>4. DispatchOK(s)'
    BY <1>13 DEF DispatchOK
  <2> QED
    BY <1>2, <1>11, <1>16, <2>3, <2>4 DEF StoreOK
<1>22. ASSUME NEW q \in Proc PROVE OwnOK(act[q], lastStart)'
  <2>1. PICK a : a = act'[q]
    OBVIOUS
  <2>2. OwnOK(a, n)
    <3>1. CASE q = p
      BY <1>1, <1>2, <1>12, <1>15, <2>1, <3>1 DEF OwnOK
    <3>2. CASE q # p
      BY <1>2, <1>15, <2>1, <3>2 DEF IInv
    <3> QED
      BY <3>1, <3>2
  <2>3. OwnOK(a, n)'
    BY <2>2 DEF OwnOK, Request, Tx, Kept
  <2> QED
    BY <1>2, <2>1, <2>3
<1>23. \A q, r \in Proc : q # r /\ act'[q].pc # "idle" /\ act'[r].pc # "idle" =>
         act'[q].start # act'[r].start
  <2>1. act'[p].pc # "idle" => act'[p].start = act[p].start /\ act[p].pc # "idle"
    BY <1>1, <1>2, <1>12, <1>15 DEF Holder
  <2> QED
    BY <1>15, <2>1 DEF IInv
<1>24. ASSUME NEW q \in Proc, Holds(q)'
       PROVE  HolderOK(act[q], st, Others(q), lastStart)'
  <2>1. q = p
    <3> SUFFICES ASSUME q # p PROVE FALSE
      OBVIOUS
    <3>1. act[q].pc # "idle" /\ s.lock = act[q].expiry
      BY <1>11, <1>15, <1>24 DEF Holds, Current
    <3>2. act[q].start # act[p].start /\ act[q].expiry = LeaseExpiry(act[q].start, Lease)
      BY <3>1 DEF IInv, OwnOK
    <3>3. act[q].start \in Nat /\ act[p].start = n
      BY <1>1, <1>2 DEF Activations, Holder
    <3>4. s.lock \in {Unlocked, LeaseExpiry(n, Lease)} /\ n \in Nat
      BY <1>1, <1>2, <1>13
    <3> QED
      BY ONLY <3>1, <3>2, <3>3, <3>4, Consts DEF LeaseExpiry, Unlocked
  <2>2. act'[q].pc = "tail"
    BY <1>12, <1>15, <1>24, <2>1 DEF Holds
  <2> QED
    BY <2>2 DEF HolderOK
<1>25. LedgerOK' /\ ClockOK' /\ CmcOK'
  <2>1. PICK U : U = blocks
    OBVIOUS
  <2>2. Total(blocks)' = Total(blocks)
    BY <1>18, <2>1 DEF Kept
  <2>3. Len(closed') <= funded
    BY <1>6, <1>7, <1>8
  <2> QED
    BY <2>2, <2>3 DEF IInv, LedgerOK, ClockOK, CmcOK, Kept
<1>26. /\ (round \in Rounds)' /\ (act \in [Proc -> Activations])' /\ (late \subseteq Txs)'
       /\ (blocks \subseteq Txs)' /\ (closed \in Seq(Jobs))'
  BY <1>1, <1>7, <1>8, <1>12, <1>14 DEF IInv, Kept
<1> QED
  BY <1>17, <1>21, <1>22, <1>23, <1>24, <1>25, <1>26 DEF IInv

LEMMA CallbackInv ==
  ASSUME IInv, NEW p \in Proc, Callback(p), UNCHANGED round
  PROVE  IInv'
<1> USE DEF Same, Kept, ledger, cmc
<1>1. CASE BalanceReply(p)
  <2>1. act[p].pc = "balance" /\ late' = Abandoned(p)
    BY <1>1 DEF BalanceReply, Abandoned
  <2>2. ~Current(p) => Return(p, act[p], st)
    BY <1>1 DEF BalanceReply
  <2>3. Same /\ UNCHANGED <<now, lastStart, balance>>
    BY <1>1 DEF BalanceReply
  <2>4. Current(p) => Outcome(p, Wild, lastStart)
    BY <1>1, BalanceStep
  <2>5. act[p].pc # "idle"
    BY <2>1
  <2> QED
    BY <2>1, <2>2, <2>3, <2>4, <2>5, CallbackStep
<1>2. CASE DiscoverReply(p)
  <2>1. act[p].pc = "discover" /\ late' = Abandoned(p)
    BY <1>2 DEF DiscoverReply, Abandoned
  <2>2. ~Current(p) => Return(p, act[p], st)
    BY <1>2 DEF DiscoverReply, MayCreate
  <2>3. Same /\ UNCHANGED <<now, lastStart, balance>>
    BY <1>2 DEF DiscoverReply
  <2>4. Current(p) => Outcome(p, Wild, lastStart)
    BY <1>2, DiscoverStep
  <2>5. act[p].pc # "idle"
    BY <2>1
  <2> QED
    BY <2>1, <2>2, <2>3, <2>4, <2>5, CallbackStep
<1>3. CASE RereadReply(p)
  <2>1. act[p].pc = "reread" /\ late' = Abandoned(p)
    BY <1>3 DEF RereadReply, Abandoned
  <2>2. ~Current(p) => Return(p, act[p], st)
    BY <1>3 DEF RereadReply, MayCreate
  <2>3. Same /\ UNCHANGED <<now, lastStart, balance>>
    BY <1>3 DEF RereadReply
  <2>4. Current(p) => Outcome(p, Wild, lastStart)
    BY <1>3, RereadStep
  <2>5. act[p].pc # "idle"
    BY <2>1
  <2> QED
    BY <2>1, <2>2, <2>3, <2>4, <2>5, CallbackStep
<1>4. CASE ReadFailed(p)
  <2>1. act[p].pc \in {"balance", "discover", "reread", "index"} /\ late' = Abandoned(p)
    BY <1>4 DEF ReadFailed, Abandoned
  <2>2. Finish(p, act[p], st)
    BY <1>4 DEF ReadFailed
  <2>3. Same /\ UNCHANGED <<now, lastStart, balance>>
    BY <1>4 DEF ReadFailed
  <2>4. act[p].pc # "idle"
    BY <2>1
  <2> QED
    BY <2>1, <2>2, <2>3, <2>4, FinishStep, CallbackStep
<1>5. CASE DenomPage(p)
  <2>1. act[p].pc = "index" /\ late' = Abandoned(p)
    BY <1>5 DEF DenomPage, Abandoned
  <2>2. ~Current(p) => Return(p, act[p], st)
    BY <1>5 DEF DenomPage, OwnsPage
  <2>3. Same /\ UNCHANGED <<now, lastStart, balance>>
    BY <1>5 DEF DenomPage
  <2>4. Current(p) => Outcome(p, Wild, lastStart)
    BY <1>5, DenomStep
  <2>5. act[p].pc # "idle"
    BY <2>1
  <2> QED
    BY <2>1, <2>2, <2>3, <2>4, <2>5, CallbackStep
<1>6. CASE PayoutPage(p)
  <2>1. act[p].pc = "index" /\ late' = Abandoned(p)
    BY <1>6 DEF PayoutPage, Abandoned
  <2>2. ~Current(p) => Return(p, act[p], st)
    BY <1>6 DEF PayoutPage, OwnsPage
  <2>3. Same /\ UNCHANGED <<now, lastStart, balance>>
    BY <1>6 DEF PayoutPage
  <2>4. Current(p) => Outcome(p, Wild, lastStart)
    BY <1>6, PayoutStep
  <2>5. act[p].pc # "idle"
    BY <2>1
  <2> QED
    BY <2>1, <2>2, <2>3, <2>4, <2>5, CallbackStep
<1>7. CASE SubaccountReply(p)
  <2>1. act[p].pc = "subaccount" /\ late' = Abandoned(p)
    BY <1>7 DEF SubaccountReply, Abandoned
  <2>2. ~Current(p) => Return(p, act[p], st)
    BY <1>7 DEF SubaccountReply, OwnsPage
  <2>3. Same /\ UNCHANGED <<now, lastStart, balance>>
    BY <1>7 DEF SubaccountReply
  <2>4. Current(p) => Outcome(p, Wild, lastStart)
    BY <1>7, SubaccountStep
  <2>5. act[p].pc # "idle"
    BY <2>1
  <2> QED
    BY <2>1, <2>2, <2>3, <2>4, <2>5, CallbackStep
<1>8. CASE TransferReply(p)
  <2>1. act[p].pc = "transfer" /\ late' = Abandoned(p)
    BY <1>8 DEF TransferReply, Abandoned
  <2>2. ~Current(p) => Return(p, act[p], st)
    BY <1>8 DEF TransferReply, Matches
  <2>3. Same /\ UNCHANGED <<now, lastStart, balance>>
    BY <1>8 DEF TransferReply
  <2>4. Current(p) => Outcome(p, Wild, lastStart)
    BY <1>8, TransferStep
  <2>5. act[p].pc # "idle"
    BY <2>1
  <2> QED
    BY <2>1, <2>2, <2>3, <2>4, <2>5, CallbackStep
<1>9. CASE TransferUnknown(p)
  <2>1. act[p].pc = "transfer" /\ late' = Abandoned(p)
    BY <1>9 DEF TransferUnknown
  <2>2. ~Current(p) => Return(p, act[p], st)
    BY <1>9 DEF TransferUnknown, Matches
  <2>3. Same /\ UNCHANGED <<now, lastStart, balance>>
    BY <1>9 DEF TransferUnknown
  <2>4. Current(p) => Outcome(p, Wild, lastStart)
    BY <1>9, UnknownStep
  <2>5. act[p].pc # "idle"
    BY <2>1
  <2> QED
    BY <2>1, <2>2, <2>3, <2>4, <2>5, CallbackStep
<1>10. CASE ClaimReply(p)
  <2>1. act[p].pc = "claim" /\ late' = Abandoned(p)
    BY <1>10 DEF ClaimReply, Abandoned
  <2>2. ~Current(p) => Return(p, act[p], st)
    BY <1>10 DEF ClaimReply, Matches
  <2>3. Same /\ UNCHANGED <<now, lastStart, balance>>
    BY <1>10 DEF ClaimReply
  <2>4. Current(p) => Outcome(p, Wild, lastStart)
    BY <1>10, ClaimStep
  <2>5. act[p].pc # "idle"
    BY <2>1
  <2> QED
    BY <2>1, <2>2, <2>3, <2>4, <2>5, CallbackStep
<1>11. CASE NotifyReply(p)
  <2>1. act[p].pc = "notify" /\ late' = Abandoned(p)
    BY <1>11 DEF NotifyReply, Abandoned
  <2>2. ~Current(p) => Return(p, act[p], st)
    BY <1>11 DEF NotifyReply, Matches
  <2>3. Same /\ UNCHANGED <<now, lastStart, balance>>
    BY <1>11 DEF NotifyReply
  <2>4. Current(p) => Outcome(p, Wild, lastStart)
    BY <1>11, NotifyStep
  <2>5. act[p].pc # "idle"
    BY <2>1
  <2> QED
    BY <2>1, <2>2, <2>3, <2>4, <2>5, CallbackStep
<1>12. CASE StatusReply(p)
  <2>1. act[p].pc = "status" /\ late' = Abandoned(p)
    BY <1>12 DEF StatusReply, Abandoned
  <2>2. UNCHANGED <<now, lastStart, balance, funded, late>> /\ Kept
    BY <1>12 DEF StatusReply
  <2>3. CASE Return(p, act[p], st) /\ UNCHANGED closed
    <3>1. Same
      BY <2>2, <2>3
    <3>2. Current(p) => Outcome(p, Wild, lastStart)
      BY <2>1, <2>3, HolderIs, InvIs, Returns
    <3>3. act[p].pc # "idle"
      BY <2>1
    <3> QED
      BY <2>1, <2>2, <2>3, <3>1, <3>2, <3>3, CallbackStep
  <2>4. CASE /\ Current(p) /\ st.job # NoJob
             /\ Return(p, act[p], [st EXCEPT !.job = NoJob,
                                             !.processed = st.job.tranche])
             /\ closed' = Append(closed, st.job)
    BY <2>1, <2>2, <2>4, CloseStep
  <2> QED
    BY <1>12, <2>3, <2>4 DEF StatusReply
<1>13. CASE TailEnds(p)
  <2>1. act[p].pc = "tail" /\ late' = Abandoned(p)
    BY <1>13 DEF TailEnds, Abandoned
  <2>2. Finish(p, act[p], st)
    BY <1>13 DEF TailEnds
  <2>3. Same /\ UNCHANGED <<now, lastStart, balance>>
    BY <1>13 DEF TailEnds
  <2>4. act[p].pc # "idle"
    BY <2>1
  <2> QED
    BY <2>1, <2>2, <2>3, <2>4, FinishStep, CallbackStep
<1> QED
  BY <1>1, <1>2, <1>3, <1>4, <1>5, <1>6, <1>7, <1>8, <1>9, <1>10, <1>11, <1>12, <1>13
  DEF Callback

\* A callback traps.
LEMMA TrapInv ==
  ASSUME IInv, NEW p \in Proc, Trap(p), UNCHANGED round
  PROVE  IInv'
<1>1. /\ act[p].pc # "idle" /\ Finish(p, act[p], st) /\ late' = Abandoned(p)
      /\ Same /\ UNCHANGED <<now, lastStart, balance>>
  BY DEF Trap, Same, Kept, ledger, cmc
<1> QED
  BY <1>1, FinishStep, CallbackStep

\* An activation begins.
LEMMA StartInv ==
  ASSUME IInv, NEW p \in Proc, Start(p), UNCHANGED round
  PROVE  IInv'
<1> DEFINE n == now
           V == Wild
<1>1. /\ act[p].pc = "idle" /\ lastStart < n /\ lastStart' = n
      /\ Same /\ UNCHANGED <<now, balance, late>>
  BY DEF Start, Same, Kept, ledger, cmc
<1>2. /\ round \in Rounds /\ lastStart \in Nat /\ act \in [Proc -> Activations]
      /\ Setting(V, lastStart) /\ BaseOK(st, V, lastStart) /\ DispatchOK(st)
      /\ N \in Nat /\ Len(closed) \in Nat /\ st \in Stores /\ n \in Nat
      /\ 2 * N < Stride /\ Stride \in Nat /\ lastStart + Stride <= n
      /\ V \subseteq Txs
  BY <1>1, InvIs, RoundIs, Consts DEF IInv, ClockOK
<1>3. ClockOK' /\ late' = Abandoned(p)
  BY <1>1, <1>2 DEF ClockOK, Abandoned
<1>4. PICK e : e = LeaseExpiry(n, Lease)
  OBVIOUS
<1>5. PICK s : s = [st EXCEPT !.lock = e]
  OBVIOUS
<1>6. PICK a : a = [Idle EXCEPT !.start = n, !.expiry = e]
  OBVIOUS
<1>7. \/ st.job = NoJob /\ st' = s /\ act' = [act EXCEPT ![p] = [a EXCEPT !.pc = "balance"]]
      \/ st.job # NoJob /\ Resume(p, a, s)
  BY <1>4, <1>5, <1>6 DEF Start
<1>8. /\ s \in Stores /\ s.lock = e /\ s.nonce = st.nonce /\ s.processed = st.processed
      /\ s.job = st.job /\ s.dispatch = st.dispatch
  <2>1. e \in Nat
    BY <1>2, <1>4, Consts DEF LeaseExpiry
  <2> QED
    BY ONLY <1>2, <1>5, <2>1 DEF Stores
<1>9. /\ a \in Activations /\ a.start = n /\ a.expiry = e /\ a.mode = "top"
      /\ a.pc = "idle" /\ a.got = FALSE
  <2>1. e \in Nat /\ n \in Nat /\ Idle \in Activations
    <3>1. act[p] \in Activations /\ "idle" \in Pcs
      BY <1>2 DEF Pcs
    <3>2. Idle \in Activations
      BY <1>2, <3>1, AtIs
    <3> QED
      BY <1>2, <1>4, <3>2, Consts DEF LeaseExpiry
  <2>2. a \in Activations
    BY ONLY <1>6, <2>1 DEF Activations
  <2>3. a.start = n /\ a.expiry = e /\ a.mode = "top" /\ a.pc = "idle" /\ a.got = FALSE
    BY ONLY <1>6 DEF Idle
  <2> QED
    BY <2>2, <2>3
<1> HIDE DEF n, V
<1>10. Setting(V, n) /\ WildOK(V, n)
  <2>1. WildOK(V, lastStart) /\ \A tx \in V : tx.cat \in Nat
    BY <1>2 DEF Setting, Txs
  <2>2. \A tx \in V : tx.cat <= n + 2 * N
    BY <1>1, <1>2, <2>1 DEF WildOK
  <2> QED
    BY <1>2, <2>1, <2>2 DEF WildOK, Setting
<1>11. BaseOK(s, V, n)
  <2>1. s.job # NoJob => JobBase(s, V, n)
    <3>1. SUFFICES ASSUME st.job # NoJob PROVE JobBase(s, V, n)
      BY <1>8
    <3>2. JobBase(st, V, lastStart)
      BY <1>2, <3>1 DEF BaseOK
    <3>3. JobOK(st.job, V, Len(closed), n)
      BY <1>1, <1>2, <3>2, JobLater DEF JobBase
    <3> QED
      BY <1>8, <3>2, <3>3 DEF JobBase
  <2> QED
    BY <1>2, <1>4, <1>8, <2>1 DEF BaseOK
<1>12. DispatchOK(s)
  BY <1>2, <1>8 DEF DispatchOK, MayHaveDispatched
<1>13. Outcome(p, V, n)
  <2>1. CASE st.job = NoJob
    <3>1. PICK b : b = [a EXCEPT !.pc = "balance"]
      OBVIOUS
    <3>2. /\ b \in Activations /\ b.pc = "balance" /\ b.start = n /\ b.expiry = e
          /\ b.got = FALSE
      BY ONLY <1>9, <3>1 DEF Activations, Pcs
    <3>3. act' = [act EXCEPT ![p] = b] /\ st' = s
      BY <1>7, <2>1, <3>1
    <3>4. V \cup Flight(b) = V
      BY <3>2 DEF Flight, InFlight
    <3>5. OwnOK(b, n)
      BY <1>2, <1>4, <3>2 DEF OwnOK
    <3>6. \A tx \in V : tx.cat < n
      <4>1. \A tx \in V : tx.cat \in Nat /\ tx.cat <= lastStart + 2 * N
        BY <1>2 DEF Setting, WildOK, Txs
      <4> QED
        BY <1>2, <4>1
    <3>7. HolderOK(b, s, V, n)
      BY <1>8, <2>1, <3>2, <3>6 DEF HolderOK
    <3>8. EndsAs(b, s, V, n)
      BY <1>10, <1>11, <1>12, <3>2, <3>4, <3>5, <3>7 DEF EndsAs, StoreOK
    <3> QED
      BY <3>2, <3>3, <3>8 DEF Outcome
  <2>2. CASE st.job # NoJob
    <3>1. LoopReady(s.job, n)
      <4>1. s.job \in Jobs /\ TimesOK(s.job, V, lastStart)
        BY <1>2, <1>8, <2>2, StoreIs DEF JobOK
      <4>2. s.job.cat \in Nat
        BY <1>2, <4>1, JobIs
      <4> QED
        BY <1>1, <1>2, <4>1, <4>2 DEF LoopReady, TimesOK
    <3>2. Holder(p, a, s, V, n)
      BY <1>2, <1>4, <1>8, <1>9, <1>10, <1>11 DEF Holder
    <3> QED
      BY <1>7, <1>8, <1>9, <1>12, <2>2, <3>1, <3>2, Resumes
  <2> QED
    BY <2>1, <2>2
<1>14. st'.lock \in {Unlocked, e}
  BY <1>4, <1>13 DEF Outcome, EndsAs, StoreOK, BaseOK
<1>15. ASSUME NEW q \in Proc, q # p
       PROVE  /\ OwnOK(act[q], n)
              /\ act[q].pc # "idle" => act[q].start # n /\ st'.lock # act[q].expiry
  <2>1. OwnOK(act[q], lastStart)
    BY DEF IInv
  <2>2. act[q].start \in Nat
    BY <1>2 DEF Activations
  <2>3. act[q].pc # "idle" => act[q].start <= lastStart /\ act[q].expiry = LeaseExpiry(act[q].start, Lease)
    BY <2>1 DEF OwnOK
  <2>4. act[q].pc # "idle" => act[q].start < n /\ act[q].start <= n
    BY <1>1, <1>2, <2>2, <2>3
  <2>5. OwnOK(act[q], n)
    BY <2>1, <2>4 DEF OwnOK
  <2>6. act[q].pc # "idle" => st'.lock # act[q].expiry
    BY <1>2, <1>4, <1>14, <2>2, <2>3, <2>4, Consts DEF LeaseExpiry, Unlocked
  <2> QED
    BY <1>2, <2>2, <2>4, <2>5, <2>6
<1> QED
  BY <1>1, <1>3, <1>13, <1>15, ActStep DEF V

-----------------------------------------------------------------------------
(* The environment: the ledger and the CMC move on, and of the transfers that *)
(* may be executed none is new.                                              *)

Later ==
  /\ blocks \subseteq blocks' /\ minted \subseteq minted'
  /\ refunded \subseteq refunded' /\ rejected \subseteq rejected'
  /\ UNCHANGED <<closed, round>>
  /\ funded \in Nat /\ funded' \in Nat /\ funded <= funded'
  /\ CmcOK'

\* A sum with smaller terms is smaller.
LEMMA SumLess ==
  ASSUME NEW f, NEW g, NEW S, IsFiniteSet(S),
         \A x \in S : f[x] \in Nat /\ g[x] \in Nat /\ f[x] <= g[x]
  PROVE  SumFunctionOnSet(f, S) <= SumFunctionOnSet(g, S)
<1> DEFINE Bad == {V \in SUBSET S : ~(SumFunctionOnSet(f, V) <= SumFunctionOnSet(g, V))}
<1>1. SUFFICES ASSUME Bad # {} PROVE FALSE
  OBVIOUS
<1>2. IsWellFoundedOn(StrictSubsetOrdering(S), SUBSET S)
  BY FS_StrictSubsetOrderingWellFounded, FS_FiniteSubsetsOfFinite
<1>3. Bad \subseteq SUBSET S
  OBVIOUS
<1> HIDE DEF Bad
<1>4. PICK V \in Bad : \A W \in Bad : ~(<<W, V>> \in StrictSubsetOrdering(S))
  BY <1>1, <1>2, <1>3, WFMin
<1>5. V \in SUBSET S /\ ~(SumFunctionOnSet(f, V) <= SumFunctionOnSet(g, V))
  BY <1>4 DEF Bad
<1>6. V # {}
  BY <1>5, SumEmpty
<1>7. PICK x \in V : TRUE
  BY <1>6
<1> DEFINE W == V \ {x}
<1>8. W \in SUBSET S /\ W \subseteq V /\ W # V
  BY <1>5, <1>7
<1>9. SumFunctionOnSet(f, W) <= SumFunctionOnSet(g, W)
  BY <1>4, <1>5, <1>8 DEF Bad, StrictSubsetOrdering
<1>10. \A y \in S : f[y] \in Int /\ g[y] \in Int
  OBVIOUS
<1>11. /\ SumFunctionOnSet(f, V) = f[x] + SumFunctionOnSet(f, W)
       /\ SumFunctionOnSet(f, W) \in Int
  <2>1. \A T \in SUBSET S : /\ SumFunctionOnSet(f, T) \in Int
                            /\ \A y \in T : SumFunctionOnSet(f, T)
                                  = f[y] + SumFunctionOnSet(f, T \ {y})
    BY <1>10, SumRemove
  <2> QED
    BY ONLY <1>5, <1>7, <1>8, <2>1
<1>12. /\ SumFunctionOnSet(g, V) = g[x] + SumFunctionOnSet(g, W)
       /\ SumFunctionOnSet(g, W) \in Int
  <2>1. \A T \in SUBSET S : /\ SumFunctionOnSet(g, T) \in Int
                            /\ \A y \in T : SumFunctionOnSet(g, T)
                                  = g[y] + SumFunctionOnSet(g, T \ {y})
    BY <1>10, SumRemove
  <2> QED
    BY ONLY <1>5, <1>7, <1>8, <2>1
<1>13. f[x] \in Int /\ g[x] \in Int /\ f[x] <= g[x]
  BY <1>5, <1>7
<1> HIDE DEF W
<1> QED
  BY <1>5, <1>9, <1>11, <1>12, <1>13

\* A refund returns less than the transfer took.
LEMMA NetLater ==
  ASSUME Later, NEW tx \in Txs
  PROVE  Net(tx)' \in Nat /\ Net(tx) \in Nat /\ Net(tx)' <= Net(tx)
<1>1. tx.amt \in Nat /\ Net(tx) \in Nat
  BY NetIsNat
<1>2. CASE tx \in refunded'
  <2>1. tx.amt - 3 * Fee > 0
    BY <1>2 DEF Later, CmcOK, Credit
  <2>2. Net(tx)' = 4 * Fee
    BY <1>2 DEF Net
  <2> QED
    BY <1>1, <2>1, <2>2, Consts DEF Net
<1>3. CASE tx \notin refunded'
  <2>1. tx \notin refunded
    BY <1>3 DEF Later
  <2>2. Net(tx)' = tx.amt + Fee /\ Net(tx) = tx.amt + Fee
    BY <1>3, <2>1 DEF Net
  <2> QED
    BY <1>1, <2>2
<1> QED
  BY <1>2, <1>3

LEMMA TotalLater ==
  ASSUME Later, NEW V \in SUBSET Txs, IsFiniteSet(V), NEW W \in SUBSET V
  PROVE  Total(W)' \in Nat /\ Total(V) \in Nat /\ Total(W)' <= Total(V)
<1>1. IsFiniteSet(W) /\ Total(W) \in Nat /\ Total(V) \in Nat /\ Total(W) <= Total(V)
  BY TotalPart
<1> DEFINE f == [tx \in W |-> Net(tx)']
           g == [tx \in W |-> Net(tx)]
<1>2. Total(W)' = SumFunctionOnSet(f, W) /\ Total(W) = SumFunctionOnSet(g, W)
  BY DEF Total
<1>3. \A x \in W : f[x] \in Nat /\ g[x] \in Nat /\ f[x] <= g[x]
  BY NetLater
<1> HIDE DEF f, g
<1>4. SumFunctionOnSet(f, W) <= SumFunctionOnSet(g, W)
  BY <1>1, <1>3, SumLess
<1>5. SumFunctionOnSet(f, W) \in Nat
  BY <1>1, <1>3, SumIsNat
<1> QED
  BY <1>1, <1>2, <1>4, <1>5

LEMMA WildLater ==
  ASSUME Later, NEW V, NEW n, WildOK(V, n), NEW W \in SUBSET V
  PROVE  WildOK(W, n)'
<1>1. Txs' = Txs /\ N' = N
  BY DEF Later, Txs, N, NItems
<1>2. IsFiniteSet(W)
  BY FS_Subset DEF WildOK
<1> QED
  BY <1>1, <1>2 DEF Later, WildOK

LEMMA OutcomesLater ==
  ASSUME Later, NEW V, NEW j, OutcomesOK(j, V), NEW W \in SUBSET V
  PROVE  OutcomesOK(j, W)'
<1>1. Items' = Items
  BY DEF Later, Items, NItems
<1>2. /\ OfJob(W, j.id)' \subseteq OfJob(V, j.id)
      /\ \A i : BeingPaid(j, i)' <=> BeingPaid(j, i)
  BY DEF OfJob, BeingPaid
<1>3. \A i \in Items : j.outcome[i] = "paid" =>
        \E b \in blocks' : b.job = j.id /\ b.item = i /\ (b.kind = "topup" => b \in minted')
  BY DEF Later, OutcomesOK
<1>4. \A i \in Items : j.outcome[i] = "failed" /\ ~BeingPaid(j, i) =>
        \A tx \in OfJob(W, j.id)' :
          tx.item = i => tx.kind = "topup" /\ tx \in refunded' \cup rejected'
  BY <1>2 DEF Later, OutcomesOK
<1> QED
  BY <1>1, <1>2, <1>3, <1>4 DEF OutcomesOK

LEMMA JobServed ==
  ASSUME Later, NEW V \in SUBSET Txs, IsFiniteSet(V), NEW n, NEW k, k \in Nat,
         NEW j, JobOK(j, V, k, n), round \in Rounds, NEW W \in SUBSET V
  PROVE  JobOK(j, W, k, n)'
<1>1. Jobs' = Jobs /\ N' = N /\ Items' = Items /\ Weight' = Weight
  BY DEF Later, Jobs, N, NItems, Items, Weight
<1>2. \A m : WeightUpTo(m)' = WeightUpTo(m)
  BY <1>1 DEF WeightUpTo
<1>3. /\ Pending(j)' = Pending(j) /\ (Waits(j)' <=> Waits(j))
      /\ (IsAccepted(j)' <=> IsAccepted(j))
      /\ Spent(j)' = Spent(j) /\ Committed(j)' = Committed(j)
      /\ \A i : BeingPaid(j, i)' <=> BeingPaid(j, i)
  BY DEF Pending, Waits, IsAccepted, Spent, Committed, BeingPaid, Tx
<1>4. \A i : Share(j, i)' = Share(j, i)
  BY <1>1 DEF Share
<1>5. OfJob(W, j.id)' = OfJob(W, j.id) /\ OfJob(W, j.id) \subseteq OfJob(V, j.id)
  BY DEF OfJob
<1>6. Rest(W, j)' = Rest(W, j) /\ Rest(W, j) \in SUBSET Rest(V, j)
      /\ Rest(V, j) \in SUBSET V
  BY <1>3 DEF Rest
<1>7. /\ ScanOK(j, V) /\ PendingOK(j, V) /\ RemainderOK(j, V) /\ MoneyOK(j, V, k)
      /\ TimesOK(j, V, n) /\ OutcomesOK(j, V) /\ PassedOK(j) /\ j \in Jobs
  BY DEF JobOK
<1>8. ScanOK(j, W)'
  BY <1>1, <1>2, <1>3, <1>5, <1>7 DEF ScanOK
<1>9. PendingOK(j, W)'
  BY <1>3, <1>5, <1>7 DEF PendingOK, Later
<1>10. RemainderOK(j, W)'
  BY <1>3, <1>5, <1>7 DEF RemainderOK, Later
<1>11. MoneyOK(j, W, k)'
  <2>1. PICK R : R = Rest(W, j)
    OBVIOUS
  <2>2. PICK T : T = Rest(V, j)
    OBVIOUS
  <2>3. R \in SUBSET T /\ T \in SUBSET Txs /\ IsFiniteSet(T) /\ Rest(W, j)' = R
    BY <1>6, <2>1, <2>2, FS_Subset
  <2>4. Total(R)' \in Nat /\ Total(T) \in Nat /\ Total(R)' <= Total(T)
    BY <2>3, TotalLater
  <2>5. PICK RJ : RJ = OfJob(R, j.id)
    OBVIOUS
  <2>6. PICK TJ : TJ = OfJob(T, j.id)
    OBVIOUS
  <2>7. /\ RJ \in SUBSET TJ /\ TJ \in SUBSET Txs /\ IsFiniteSet(TJ)
        /\ OfJob(Rest(W, j), j.id)' = RJ
    <3>1. RJ \in SUBSET TJ
      BY <2>3, <2>5, <2>6 DEF OfJob
    <3>2. TJ \in SUBSET T
      BY <2>6 DEF OfJob
    <3>3. OfJob(Rest(W, j), j.id)' = RJ
      BY <2>3, <2>5 DEF OfJob
    <3> QED
      BY <2>3, <3>1, <3>2, <3>3, FS_Subset
  <2>8. Total(RJ)' \in Nat /\ Total(TJ) \in Nat /\ Total(RJ)' <= Total(TJ)
    BY <2>7, TotalLater
  <2>9. /\ Total(TJ) <= Spent(j) /\ Total(T) <= Pot * k + Spent(j)
        /\ Committed(j) <= Pot
        /\ (~j.scanned => Committed(j) * j.denom <= Pot * WeightUpTo(j.next))
    BY <1>7, <2>2, <2>6 DEF MoneyOK
  <2>10. Spent(j) \in Int /\ Pot * k \in Nat
    <3>1. j.gross \in Nat /\ (IsAccepted(j) => j.pending.share \in Nat)
      BY <1>7, JobIs, PendingIs DEF IsAccepted, Waits
    <3>2. Spent(j) \in Int
      BY <3>1 DEF Spent
    <3> QED
      BY <3>2, Consts, ProductNat
  <2>11. Total(RJ)' <= Spent(j) /\ Total(R)' <= Pot * k + Spent(j)
    BY <2>4, <2>8, <2>9, <2>10
  <2>12. Total(Rest(W, j))' = Total(R)' /\ Total(OfJob(Rest(W, j), j.id))' = Total(RJ)'
    BY <2>3, <2>7
  <2> QED
    BY <1>2, <1>3, <2>9, <2>11, <2>12 DEF MoneyOK
<1>12. TimesOK(j, W, n)'
  BY <1>1, <1>3, <1>7 DEF TimesOK
<1>13. OutcomesOK(j, W)'
  BY <1>7, OutcomesLater
<1>14. PassedOK(j)'
  BY <1>3, <1>4, <1>7 DEF PassedOK
<1> QED
  BY <1>1, <1>7, <1>8, <1>9, <1>10, <1>11, <1>12, <1>13, <1>14 DEF JobOK

LEMMA ClosedLater ==
  ASSUME Later, NEW V \in SUBSET Txs, IsFiniteSet(V), NEW k, NEW nonce,
         ClosedOK(k, V, nonce), round \in Rounds, NEW W \in SUBSET V
  PROVE  ClosedOK(k, W, nonce)'
<1>1. Jobs' = Jobs /\ Items' = Items /\ Weight' = Weight /\ closed' = closed
  BY DEF Later, Jobs, NItems, Items, Weight
<1>2. PICK j : j = closed[k]
  OBVIOUS
<1>3. \A i : Share(j, i)' = Share(j, i)
  BY <1>1 DEF Share
<1>4. Waits(j)' <=> Waits(j)
  BY DEF Waits
<1>5. /\ j \in Jobs /\ j.id < nonce /\ j.tranche = k /\ j.pot = Pot /\ j.gross <= Pot
      /\ ~Waits(j) /\ Total(OfJob(V, j.id)) <= j.gross /\ OutcomesOK(j, V)
      /\ \A i \in Items : Share(j, i) > Fee => j.outcome[i] # "none"
  BY <1>2 DEF ClosedOK
<1>6. OutcomesOK(j, W)'
  BY <1>5, OutcomesLater
<1>7. Total(OfJob(W, j.id))' <= j.gross
  <2>1. PICK R : R = OfJob(W, j.id)
    OBVIOUS
  <2>2. PICK T : T = OfJob(V, j.id)
    OBVIOUS
  <2>3. R \in SUBSET T /\ T \in SUBSET V /\ OfJob(W, j.id)' = R
    BY <2>1, <2>2 DEF OfJob
  <2>4. T \in SUBSET Txs /\ IsFiniteSet(T)
    BY <2>3, FS_Subset
  <2>5. Total(R)' \in Nat /\ Total(T) \in Nat /\ Total(R)' <= Total(T)
    BY <2>3, <2>4, TotalLater
  <2>6. j.gross \in Nat /\ Total(T) <= j.gross /\ Total(OfJob(W, j.id))' = Total(R)'
    BY <1>5, <2>2, <2>3, JobIs
  <2> QED
    BY <2>5, <2>6
<1>8. closed'[k] = j
  BY <1>1, <1>2
<1> QED
  BY <1>1, <1>3, <1>4, <1>5, <1>6, <1>7, <1>8 DEF ClosedOK

LEMMA StoreLater ==
  ASSUME Later, NEW V, NEW n, WildOK(V, n), NEW s, StoreOK(s, V, n),
         round \in Rounds, closed \in Seq(Jobs), NEW W \in SUBSET V
  PROVE  StoreOK(s, W, n)'
<1>1. V \in SUBSET Txs /\ IsFiniteSet(V) /\ Len(closed) \in Nat /\ closed' = closed
  BY DEF WildOK, Later
<1>2. Stores' = Stores
  BY DEF Later, Stores, Jobs, Dispatches, NItems
<1>3. BaseOK(s, V, n) /\ DispatchOK(s) /\ s \in Stores
  BY DEF StoreOK, BaseOK
<1>4. s.job # NoJob => JobBase(s, W, n)'
  <2>1. SUFFICES ASSUME s.job # NoJob PROVE JobBase(s, W, n)'
    OBVIOUS
  <2>2. JobBase(s, V, n)
    BY <1>3, <2>1 DEF BaseOK
  <2>3. JobOK(s.job, W, Len(closed), n)'
    <3>1. PICK k : k = Len(closed)
      OBVIOUS
    <3>2. JobOK(s.job, V, k, n) /\ k \in Nat
      BY <1>1, <2>2, <3>1 DEF JobBase
    <3>3. JobOK(s.job, W, k, n)'
      BY <1>1, <3>2, JobServed
    <3> QED
      BY <1>1, <3>1, <3>3
  <2>4. s.job.tranche <= funded'
    <3>1. s.job \in Jobs /\ s.job.tranche <= funded
      BY <2>2 DEF JobBase, JobOK
    <3>2. s.job.tranche \in Nat
      BY <3>1, JobIs
    <3> QED
      BY <3>1, <3>2 DEF Later
  <2> QED
    BY <1>1, <2>2, <2>3, <2>4 DEF JobBase
<1>5. \A k \in 1 .. Len(closed) : ClosedOK(k, W, s.nonce)'
  BY <1>1, <1>3, ClosedLater DEF BaseOK
<1>6. s.job = NoJob => Total(W)' <= Pot * Len(closed)
  <2>1. Total(W)' \in Nat /\ Total(V) \in Nat /\ Total(W)' <= Total(V)
    BY <1>1, TotalLater
  <2>2. Pot * Len(closed) \in Nat
    BY <1>1, Consts, ProductNat
  <2> QED
    BY <1>3, <2>1, <2>2 DEF BaseOK
<1>7. DispatchOK(s)'
  BY <1>3 DEF DispatchOK, Waits, MayHaveDispatched
<1> QED
  BY <1>1, <1>2, <1>3, <1>4, <1>5, <1>6, <1>7 DEF StoreOK, BaseOK

LEMMA HolderLater ==
  ASSUME Later, NEW a, NEW s, s.processed \in Nat, NEW V, NEW n,
         HolderOK(a, s, V, n), NEW W \in SUBSET V
  PROVE  HolderOK(a, s, W, n)'
<1>1. /\ Request(a)' = Request(a) /\ (PlaceOK(a, s.job)' <=> PlaceOK(a, s.job))
      /\ (Waits(s.job)' <=> Waits(s.job)) /\ Kind' = Kind /\ Weight' = Weight
  BY DEF Request, Tx, PlaceOK, Waits, Kind, Weight, Later
<1>2. \A i : Share(s.job, i)' = Share(s.job, i)
  BY <1>1 DEF Share
<1>3. s.processed < funded => s.processed < funded'
  BY DEF Later
<1> QED
  BY <1>1, <1>2, <1>3 DEF HolderOK

LEMMA OwnLater ==
  ASSUME Later, NEW a, NEW n, OwnOK(a, n)
  PROVE  OwnOK(a, n)'
<1>1. Request(a)' = Request(a)
  BY DEF Request, Tx
<1> QED
  BY <1>1 DEF OwnOK, Later

\* No activation goes on, but some may have an answer now.
LEMMA ServeStep ==
  ASSUME IInv, Later, UNCHANGED <<lastStart, st>>, ClockOK', LedgerOK',
         blocks' \subseteq Txs, late' \subseteq Txs, Wild' \subseteq Wild,
         act' \in [Proc -> Activations],
         \A q \in Proc :
           /\ act'[q].pc = act[q].pc /\ act'[q].start = act[q].start
           /\ act'[q].expiry = act[q].expiry
           /\ OwnOK(act[q], lastStart)'
           /\ Holds(q) => HolderOK(act[q], st, Others(q), lastStart)'
  PROVE  IInv'
<1>1. /\ round \in Rounds /\ closed \in Seq(Jobs) /\ WildOK(Wild, lastStart)
      /\ StoreOK(st, Wild, lastStart)
  BY DEF IInv
<1>2. Txs' = Txs /\ Jobs' = Jobs /\ Activations' = Activations
  BY DEF Later, Txs, Jobs, Activations, Pendings, NItems
<1>3. WildOK(Wild, lastStart)' /\ StoreOK(st, Wild, lastStart)'
  <2>1. PICK W : W = Wild'
    OBVIOUS
  <2>2. PICK V : V = Wild
    OBVIOUS
  <2>3. PICK s : s = st
    OBVIOUS
  <2>4. PICK n : n = lastStart
    OBVIOUS
  <2>5. WildOK(V, n) /\ StoreOK(s, V, n) /\ W \in SUBSET V
    BY <1>1, <2>1, <2>2, <2>3, <2>4
  <2>6. WildOK(W, n)' /\ StoreOK(s, W, n)'
    BY <1>1, <2>5, WildLater, StoreLater
  <2> QED
    BY <2>1, <2>3, <2>4, <2>6
<1>4. ASSUME NEW q \in Proc
      PROVE  /\ OwnOK(act[q], lastStart)'
             /\ Holds(q)' => HolderOK(act[q], st, Others(q), lastStart)'
  <2>1. Holds(q)' <=> Holds(q)
    BY DEF Holds, Current
  <2> QED
    BY <2>1
<1>5. \A p, q \in Proc : p # q /\ act'[p].pc # "idle" /\ act'[q].pc # "idle" =>
        act'[p].start # act'[q].start
  BY DEF IInv
<1>6. CmcOK' /\ closed' = closed /\ round' = round
  BY DEF Later
<1> QED
  BY <1>1, <1>2, <1>3, <1>4, <1>5, <1>6 DEF IInv

\* An activation that has no new answer.
LEMMA UnmovedIs ==
  ASSUME IInv, Later, UNCHANGED <<lastStart, st>>, NEW q \in Proc,
         act'[q] = act[q], Others(q)' \subseteq Others(q)
  PROVE  /\ OwnOK(act[q], lastStart)'
         /\ Holds(q) => HolderOK(act[q], st, Others(q), lastStart)'
<1>1. PICK a : a = act[q]
  OBVIOUS
<1>2. PICK s : s = st
  OBVIOUS
<1>3. PICK n : n = lastStart
  OBVIOUS
<1>4. PICK V : V = Others(q)
  OBVIOUS
<1>5. PICK W : W = Others(q)'
  OBVIOUS
<1>6. /\ OwnOK(a, n) /\ (Holds(q) => HolderOK(a, s, V, n)) /\ W \in SUBSET V
      /\ s.processed \in Nat
  <2>1. st \in Stores
    BY InvIs
  <2>2. s.processed \in Nat
    BY <1>2, <2>1 DEF Stores
  <2> QED
    BY <1>1, <1>2, <1>3, <1>4, <1>5, <2>2 DEF IInv
<1>7. OwnOK(a, n)'
  BY <1>6, OwnLater
<1>8. Holds(q) => HolderOK(a, s, W, n)'
  BY <1>6, HolderLater
<1> QED
  BY <1>1, <1>2, <1>3, <1>5, <1>7, <1>8

\* No activation has an answer.
LEMMA QuietStep ==
  ASSUME IInv, Later, UNCHANGED <<lastStart, st, act>>, ClockOK', LedgerOK',
         blocks' \subseteq blocks \cup late, late' \subseteq late
  PROVE  IInv'
<1>1. /\ \A S : Flights(S)' = Flights(S)
      /\ blocks \subseteq Txs /\ late \subseteq Txs /\ act \in [Proc -> Activations]
  BY DEF Flights, InFlight, Request, Tx, IInv
<1>2. Wild' \subseteq Wild /\ \A q \in Proc : Others(q)' \subseteq Others(q)
  BY <1>1 DEF Wild, Others
<1>3. blocks' \subseteq Txs /\ late' \subseteq Txs
  BY <1>1
<1>4. \A q \in Proc : /\ OwnOK(act[q], lastStart)'
                      /\ Holds(q) => HolderOK(act[q], st, Others(q), lastStart)'
  BY <1>2, UnmovedIs
<1> QED
  BY <1>1, <1>2, <1>3, <1>4, ServeStep

\* Activation p has an answer.
LEMMA AnswerStep ==
  ASSUME IInv, Later, UNCHANGED <<now, lastStart, st, late>>, LedgerOK',
         NEW p \in Proc, NEW b \in Activations, act' = [act EXCEPT ![p] = b],
         b.pc = act[p].pc, b.start = act[p].start, b.expiry = act[p].expiry,
         ~InFlight(b), blocks' \subseteq blocks \cup late \cup Flight(act[p]),
         blocks' \subseteq Txs, OwnOK(b, lastStart)',
         NEW W, W = Others(p)', Holds(p) => HolderOK(b, st, W, lastStart)'
  PROVE  IInv'
<1>1. act \in [Proc -> Activations] /\ late' \subseteq Txs /\ ClockOK'
  BY DEF IInv, ClockOK
<1>2. act'[p] = b /\ \A q \in Proc : q # p => act'[q] = act[q]
  BY <1>1
<1>3. \A S : Flights(S)' = Flights(S \ {p})
  BY <1>1, <1>2 DEF Flights, InFlight, Request, Tx
<1>4. \A S : p \in S => Flights(S) = Flights(S \ {p}) \cup Flight(act[p])
  BY DEF Flights, Flight
<1>5. Wild' \subseteq Wild
  <2>1. /\ Flights(Proc)' = Flights(Proc \ {p})
        /\ Flights(Proc) = Flights(Proc \ {p}) \cup Flight(act[p])
    BY <1>3, <1>4
  <2>2. late' = late /\ blocks' \subseteq blocks \cup late \cup Flight(act[p])
    OBVIOUS
  <2> QED
    BY ONLY <2>1, <2>2 DEF Wild
<1>6. ASSUME NEW q \in Proc, q # p PROVE Others(q)' \subseteq Others(q)
  <2>1. /\ Flights(Proc \ {q})' = Flights((Proc \ {q}) \ {p})
        /\ Flights(Proc \ {q}) = Flights((Proc \ {q}) \ {p}) \cup Flight(act[p])
    BY <1>3, <1>4, <1>6
  <2> QED
    BY <2>1 DEF Others
<1>7. ASSUME NEW q \in Proc
      PROVE  /\ act'[q].pc = act[q].pc /\ act'[q].start = act[q].start
             /\ act'[q].expiry = act[q].expiry
             /\ OwnOK(act[q], lastStart)'
             /\ Holds(q) => HolderOK(act[q], st, Others(q), lastStart)'
  <2>1. CASE q = p
    BY <1>2, <2>1
  <2>2. CASE q # p
    BY <1>2, <1>6, <2>2, UnmovedIs
  <2> QED
    BY <2>1, <2>2
<1>8. act' \in [Proc -> Activations]
  BY <1>1
<1> QED
  BY <1>1, <1>5, <1>7, <1>8, ServeStep

\* The totals depend on what was refunded only.
LEMMA TotalRefunds ==
  ASSUME refunded' = refunded, NEW V
  PROVE  Total(V)' = Total(V)
<1>1. \A tx : (IF tx \in refunded' THEN 4 * Fee ELSE tx.amt + Fee)
                = (IF tx \in refunded THEN 4 * Fee ELSE tx.amt + Fee)
  OBVIOUS
<1> QED
  BY <1>1 DEF Total, Net

\* What a transfer takes from the account is added to the total.
LEMMA ExecuteLedger ==
  ASSUME IInv, UNCHANGED <<refunded, closed, minted, rejected, round>>,
         NEW tx \in Txs, tx \notin blocks, balance >= tx.amt + Fee, Execute(tx)
  PROVE  LedgerOK' /\ Later
<1>1. /\ funded \in Nat /\ balance \in Nat /\ Len(closed) <= funded
      /\ Pot * funded <= balance + Total(blocks)
      /\ blocks \subseteq Txs /\ CmcOK
  BY DEF IInv, LedgerOK
<1>2. blocks' = blocks \cup {tx} /\ balance' = balance - (tx.amt + Fee) /\ funded' = funded
  BY DEF Execute
<1>3. IsFiniteSet(blocks)
  BY InvIs, FS_Subset
<1>4. Total(blocks)' = Total(blocks) + Net(tx)
  <2>1. PICK R : R = blocks'
    OBVIOUS
  <2>2. Total(R)' = Total(R)
    BY TotalRefunds
  <2>3. Total(blocks)' = Total(R)'
    BY <2>1
  <2>4. Total(R) = Total(blocks) + Net(tx)
    BY <1>1, <1>2, <1>3, <2>1, TotalAdd
  <2> QED
    BY <2>2, <2>3, <2>4
<1>5. Net(tx) = tx.amt + Fee /\ tx.amt \in Nat
  BY <1>1 DEF Net, CmcOK, Txs
<1>6. Total(blocks) \in Nat /\ Pot * funded \in Nat
  BY <1>1, <1>3, TotalPart, Consts, ProductNat
<1>7. balance' \in Nat /\ Pot * funded <= balance' + Total(blocks)'
  <2>1. PICK x : x = Pot * funded
    OBVIOUS
  <2>2. PICK y : y = Total(blocks)
    OBVIOUS
  <2>3. x \in Nat /\ y \in Nat /\ x <= balance + y /\ Total(blocks)' = y + (tx.amt + Fee)
    BY <1>1, <1>4, <1>5, <1>6, <2>1, <2>2
  <2>4. Fee \in Nat
    BY Consts
  <2>5. balance' \in Nat /\ x <= balance' + Total(blocks)'
    <3>1. balance \in Nat /\ balance >= tx.amt + Fee
      BY <1>1
    <3> QED
      BY ONLY <1>2, <1>5, <2>3, <2>4, <3>1
  <2> QED
    BY <2>1, <2>5
<1>8. CmcOK'
  BY <1>1, <1>2 DEF CmcOK
<1>9. Later
  BY <1>1, <1>2, <1>8 DEF Later
<1> QED
  BY <1>1, <1>2, <1>7, <1>9 DEF LedgerOK

\* The ledger and the CMC stand still.
LEMMA StillIs ==
  ASSUME IInv, UNCHANGED <<ledger, cmc, closed, round>>
  PROVE  Later /\ LedgerOK'
<1>1. /\ blocks' = blocks /\ minted' = minted /\ refunded' = refunded
      /\ rejected' = rejected /\ funded' = funded /\ balance' = balance
      /\ closed' = closed /\ round' = round
  BY DEF ledger, cmc
<1>2. CmcOK' /\ funded \in Nat
  BY <1>1 DEF IInv, CmcOK, LedgerOK
<1>3. Total(blocks)' = Total(blocks)
  <2>1. PICK R : R = blocks
    OBVIOUS
  <2>2. Total(R)' = Total(R) /\ blocks' = R
    BY <1>1, <2>1, TotalRefunds
  <2> QED
    BY <2>1, <2>2
<1>4. LedgerOK'
  BY <1>1, <1>3 DEF IInv, LedgerOK
<1> QED
  BY <1>1, <1>2, <1>4 DEF Later

LEMMA TickInv ==
  ASSUME IInv, Tick, UNCHANGED round
  PROVE  IInv'
<1>1. /\ UNCHANGED <<lastStart, st, act, ledger, late, cmc, closed, round>>
      /\ now' = now + Stride
  BY DEF Tick
<1>2. Later /\ LedgerOK'
  BY <1>1, StillIs
<1>3. ClockOK'
  <2>1. ClockOK
    BY DEF IInv
  <2> QED
    BY <1>1, <2>1, Consts DEF ClockOK
<1>4. blocks' \subseteq blocks \cup late /\ late' \subseteq late
  BY <1>1 DEF ledger
<1> QED
  BY <1>1, <1>2, <1>3, <1>4, QuietStep

LEMMA FundInv ==
  ASSUME IInv, Fund, UNCHANGED round
  PROVE  IInv'
<1>1. /\ UNCHANGED <<now, lastStart, st, act, blocks, late, closed, round>>
      /\ minted' = minted /\ refunded' = refunded /\ rejected' = rejected
      /\ funded' = funded + 1 /\ balance' = balance + Pot
  BY DEF Fund, cmc
<1>2. /\ funded \in Nat /\ balance \in Nat /\ Len(closed) <= funded
      /\ Pot * funded <= balance + Total(blocks) /\ Pot \in Nat
      /\ ClockOK /\ CmcOK /\ Len(closed) \in Nat
  BY InvIs, Consts DEF IInv, LedgerOK
<1>3. Total(blocks)' = Total(blocks) /\ Total(blocks) \in Nat
  <2>1. PICK R : R = blocks
    OBVIOUS
  <2>2. Total(R)' = Total(R) /\ blocks' = R
    BY <1>1, <2>1, TotalRefunds
  <2>3. blocks \in SUBSET Txs /\ IsFiniteSet(blocks)
    BY InvIs, FS_Subset DEF IInv
  <2>4. Total(blocks) \in Nat
    BY <2>3, TotalPart
  <2> QED
    BY <2>1, <2>2, <2>4
<1>4. Pot * funded' <= balance' + Total(blocks)'
  <2>1. \A x, y \in Nat : x * (y + 1) = x * y + x /\ x * y \in Nat
    OBVIOUS
  <2>2. Pot * funded' = Pot * funded + Pot /\ Pot * funded \in Nat
    BY <1>1, <1>2, <2>1
  <2> QED
    BY <1>1, <1>2, <1>3, <2>2
<1>5. LedgerOK'
  BY <1>1, <1>2, <1>4 DEF LedgerOK
<1>6. Later
  BY <1>1, <1>2 DEF Later, CmcOK
<1>7. ClockOK'
  BY <1>1, <1>2 DEF ClockOK
<1> QED
  BY <1>1, <1>5, <1>6, <1>7, QuietStep

\* A transfer that is not on the ledger is none of the blocks.
LEMMA NotExecuted ==
  ASSUME NEW tx, ~Executed(tx)
  PROVE  tx \notin blocks
BY DEF Executed

LEMMA LateInv ==
  ASSUME IInv, LateExecute, UNCHANGED round
  PROVE  IInv'
<1>1. PICK tx \in late : CanExecute(tx) /\ Execute(tx) /\ late' = late \ {tx}
  BY DEF LateExecute
<1>2. /\ UNCHANGED <<now, lastStart, st, act, closed, round>>
      /\ minted' = minted /\ refunded' = refunded /\ rejected' = rejected
  BY DEF LateExecute, cmc
<1>3. tx \in Txs /\ tx \notin blocks /\ balance >= tx.amt + Fee
  BY <1>1, NotExecuted DEF IInv, CanExecute
<1>4. LedgerOK' /\ Later
  BY <1>1, <1>2, <1>3, ExecuteLedger
<1>5. ClockOK'
  BY <1>2 DEF IInv, ClockOK
<1>6. blocks' \subseteq blocks \cup late /\ late' \subseteq late
  BY <1>1 DEF Execute
<1> QED
  BY <1>2, <1>4, <1>5, <1>6, QuietStep

\* A balance was read.
LEMMA ReadIs ==
  ASSUME IInv, UNCHANGED <<now, lastStart, st, ledger, late, cmc, closed, round>>,
         NEW p \in Proc, act[p].pc \in {"balance", "reread"},
         act' = [act EXCEPT ![p].got = TRUE, ![p].bal = balance],
         Holds(p) /\ act[p].pc = "reread" => Pot <= balance
  PROVE  IInv'
<1>1. PICK x : x = balance
  OBVIOUS
<1>2. PICK b : b = [act[p] EXCEPT !.got = TRUE, !.bal = x]
  OBVIOUS
<1>3. act \in [Proc -> Activations] /\ x \in Nat /\ act[p] \in Activations
  BY <1>1 DEF IInv, LedgerOK
<1>4. act' = [act EXCEPT ![p] = b]
  BY <1>1, <1>2, <1>3 DEF Activations
<1>5. /\ b \in Activations /\ b.pc = act[p].pc /\ b.start = act[p].start
      /\ b.expiry = act[p].expiry /\ b.bal = x
  BY ONLY <1>2, <1>3 DEF Activations
<1>6. ~InFlight(b) /\ ~InFlight(act[p])
  BY <1>5 DEF InFlight
<1>7. Later /\ LedgerOK' /\ blocks' = blocks
  BY StillIs DEF ledger
<1>8. PICK n : n = lastStart
  OBVIOUS
<1>9. OwnOK(b, n)
  <2>1. OwnOK(act[p], n)
    BY <1>8 DEF IInv
  <2> QED
    BY <1>5, <2>1 DEF OwnOK
<1>10. OwnOK(b, n)'
  BY <1>7, <1>9, OwnLater
<1>11. PICK W : W = Others(p)'
  OBVIOUS
<1>12. W = Others(p)
  <2>1. \A q \in Proc \ {p} : act'[q] = act[q]
    BY <1>3, <1>4
  <2>2. Flights(Proc \ {p})' = Flights(Proc \ {p})
    BY <2>1 DEF Flights, InFlight, Request, Tx
  <2> QED
    BY <1>7, <1>11, <2>2 DEF Others
<1>13. PICK s : s = st
  OBVIOUS
<1>14. Holds(p) => HolderOK(b, s, W, n)'
  <2>1. SUFFICES ASSUME Holds(p) PROVE HolderOK(b, s, W, n)'
    OBVIOUS
  <2>2. HolderOK(act[p], s, W, n)
    BY <1>8, <1>12, <1>13, <2>1 DEF IInv
  <2>3. HolderOK(b, s, W, n)
    BY <1>1, <1>5, <2>1, <2>2 DEF HolderOK
  <2>4. s.processed \in Nat
    BY <1>13, InvIs DEF Stores
  <2> QED
    BY <1>7, <2>3, <2>4, HolderLater
<1>15. blocks' \subseteq Txs /\ lastStart' = n /\ st' = s
  BY <1>7, <1>8, <1>13 DEF IInv
<1>16. OwnOK(b, lastStart)' /\ (Holds(p) => HolderOK(b, st, W, lastStart)')
  BY <1>10, <1>14, <1>15
<1>17. blocks' \subseteq blocks \cup late \cup Flight(act[p]) /\ UNCHANGED <<now, lastStart, st, late>>
  BY <1>7
<1>18. IInv /\ Later /\ LedgerOK' /\ p \in Proc
  BY <1>7
<1> QED
  BY ONLY <1>4, <1>5, <1>6, <1>11, <1>15, <1>16, <1>17, <1>18, AnswerStep

LEMMA ReadBalanceInv ==
  ASSUME IInv, NEW p \in Proc, ReadBalance(p), UNCHANGED round
  PROVE  IInv'
<1>1. /\ act[p].pc \in {"balance", "reread"} /\ act[p].pc # "reread"
      /\ act' = [act EXCEPT ![p].got = TRUE, ![p].bal = balance]
      /\ UNCHANGED <<now, lastStart, st, ledger, late, cmc, closed, round>>
  BY DEF ReadBalance
<1> QED
  BY <1>1, ReadIs

\* The payout account holds what the tranche brought: whatever was taken from
\* it is within the tranches before.
LEMMA RereadServeInv ==
  ASSUME IInv, NEW p \in Proc, RereadServe(p), UNCHANGED round
  PROVE  IInv'
<1>1. /\ act[p].pc = "reread"
      /\ act' = [act EXCEPT ![p].got = TRUE, ![p].bal = balance]
      /\ UNCHANGED <<now, lastStart, st, ledger, late, cmc, closed, round>>
  BY DEF RereadServe
<1>2. ASSUME Holds(p) PROVE Pot <= balance
  <2>1. st.job = NoJob /\ st.processed < funded
    BY <1>1, <1>2 DEF IInv, HolderOK
  <2>2. /\ st.processed = Len(closed) /\ Total(Wild) <= Pot * Len(closed)
        /\ Len(closed) \in Nat
    BY <2>1, InvIs DEF BaseOK
  <2>3. Total(blocks) <= Total(Wild) /\ Total(blocks) \in Nat /\ Total(Wild) \in Nat
    BY InvIs, TotalPart
  <2>4. Pot * funded <= balance + Total(blocks) /\ funded \in Nat /\ balance \in Nat
    BY DEF IInv, LedgerOK
  <2>5. (Len(closed) + 1) * Pot <= funded * Pot
    BY <2>1, <2>2, <2>4, Consts, ProductGrows
  <2>6. \A a, b \in Nat : (a + 1) * b = b * a + b /\ a * b = b * a /\ b * a \in Nat
    OBVIOUS
  <2>7. Pot * Len(closed) + Pot <= Pot * funded /\ Pot * Len(closed) \in Nat
        /\ Pot * funded \in Nat /\ Pot \in Nat
    BY <2>2, <2>4, <2>5, <2>6, Consts
  <2> QED
    BY <2>2, <2>3, <2>4, <2>7
<1> QED
  BY <1>1, <1>2, ReadIs

\* A transfer on the ledger under the same key is the same transfer.
LEMMA SameKey ==
  ASSUME IInv, NEW tx \in Wild, NEW b \in blocks, Key(b) = Key(tx)
  PROVE  b = tx
<1>1. b \in Wild /\ b.cat = tx.cat
  BY InvIs DEF Key
<1> QED
  BY <1>1 DEF IInv, WildOK

LEMMA ServeTransferInv ==
  ASSUME IInv, NEW p \in Proc, ServeTransfer(p), UNCHANGED round
  PROVE  IInv'
<1>1. PICK tx : tx = Request(act[p])
  OBVIOUS
<1>2. PICK v \in VerdictsFor(tx) :
        /\ act' = [act EXCEPT ![p].got = TRUE, ![p].verdict = v]
        /\ IF v \in {"accepted", "unusable"} /\ ~Executed(tx)
           THEN Execute(tx) ELSE UNCHANGED ledger
  BY <1>1 DEF ServeTransfer, Request
<1>3. /\ act[p].pc = "transfer" /\ ~act[p].got
      /\ UNCHANGED <<now, lastStart, st, late, cmc, closed, round>>
  BY DEF ServeTransfer
<1>4. act \in [Proc -> Activations] /\ act[p] \in Activations /\ blocks \subseteq Txs
  BY DEF IInv
<1>5. InFlight(act[p]) /\ tx \in Wild /\ tx \in Txs
  <2>1. InFlight(act[p])
    BY <1>3, <1>4 DEF InFlight, Activations
  <2> QED
    BY <1>1, <2>1, OthersIs, InvIs
<1>6. v \in {"accepted", "unusable", "refused", "unavailable"}
  BY DEF VerdictsFor
<1>7. PICK b : b = [act[p] EXCEPT !.got = TRUE, !.verdict = v]
  OBVIOUS
<1>8. act' = [act EXCEPT ![p] = b]
  BY <1>2, <1>4, <1>7 DEF Activations
<1>9. /\ b \in Activations /\ b.pc = "transfer" /\ b.start = act[p].start
      /\ b.expiry = act[p].expiry /\ b.got = TRUE /\ b.verdict = v
      /\ b.pend = act[p].pend /\ b.job = act[p].job /\ b.attempt = act[p].attempt
      /\ b.prior = act[p].prior /\ b.mode = act[p].mode /\ b.pos = act[p].pos
      /\ b.end = act[p].end /\ b.cursor = act[p].cursor
  BY ONLY <1>3, <1>4, <1>6, <1>7 DEF Activations
<1>10. ~InFlight(b) /\ Request(b) = tx
  BY <1>1, <1>9 DEF InFlight, Request
<1>11. /\ Later /\ LedgerOK' /\ blocks' \subseteq blocks \cup {tx}
       /\ (v \in {"accepted", "unusable"} => tx \in blocks')
       /\ (v \notin {"accepted", "unusable"} => blocks' = blocks)
  <2>1. CASE v \in {"accepted", "unusable"} /\ ~Executed(tx)
    <3>1. CanExecute(tx) /\ Execute(tx)
      BY <1>2, <2>1 DEF VerdictsFor
    <3>2. tx \notin blocks /\ balance >= tx.amt + Fee
      BY <3>1, NotExecuted DEF CanExecute
    <3>3. LedgerOK' /\ Later
      BY <1>3, <1>5, <3>1, <3>2, ExecuteLedger DEF cmc
    <3> QED
      BY <2>1, <3>1, <3>3 DEF Execute
  <2>2. CASE ~(v \in {"accepted", "unusable"} /\ ~Executed(tx))
    <3>1. UNCHANGED ledger
      BY <1>2, <2>2
    <3>2. Later /\ LedgerOK' /\ blocks' = blocks
      BY <1>3, <3>1, StillIs DEF ledger
    <3>3. ASSUME v \in {"accepted", "unusable"} PROVE tx \in blocks
      <4>1. PICK c \in blocks : Key(c) = Key(tx)
        BY <2>2, <3>3 DEF Executed
      <4> QED
        BY <1>5, <4>1, SameKey
    <3> QED
      BY <3>2, <3>3
  <2> QED
    BY <2>1, <2>2
<1>12. PICK n : n = lastStart
  OBVIOUS
<1>13. OwnOK(b, n)'
  <2>1. OwnOK(act[p], n)
    BY <1>12 DEF IInv
  <2>2. Request(b)' = tx
    BY <1>10 DEF Request, Tx
  <2> QED
    BY <1>3, <1>6, <1>9, <1>11, <2>1, <2>2 DEF OwnOK
<1>14. PICK W : W = Others(p)'
  OBVIOUS
<1>15. W = blocks' \cup late \cup Flights(Proc \ {p})
  <2>1. \A q \in Proc \ {p} : act'[q] = act[q]
    BY <1>4, <1>8
  <2>2. Flights(Proc \ {p})' = Flights(Proc \ {p})
    BY <2>1 DEF Flights, InFlight, Request, Tx
  <2> QED
    BY <1>3, <1>14, <2>2 DEF Others
<1>16. PICK s : s = st
  OBVIOUS
<1>17. Holds(p) => HolderOK(b, s, W, n)'
  <2>1. SUFFICES ASSUME Holds(p) PROVE HolderOK(b, s, W, n)'
    OBVIOUS
  <2>2. HolderOK(act[p], s, Others(p), n)
    BY <1>12, <1>16, <2>1 DEF IInv
  <2>3. v \notin {"accepted", "unusable"} => W = Others(p)
    BY <1>11, <1>15 DEF Others
  <2>4. Request(act[p]) = tx
    BY <1>1
  <2>5. PlaceOK(act[p], s.job) => PlaceOK(b, s.job)
    BY <1>9 DEF PlaceOK
  <2>6. HolderOK(b, s, W, n)
    BY <1>3, <1>9, <1>10, <2>2, <2>3, <2>4, <2>5 DEF HolderOK
  <2>7. s.processed \in Nat
    BY <1>16, InvIs DEF Stores
  <2> QED
    BY <1>11, <2>6, <2>7, HolderLater
<1>18. /\ lastStart' = n /\ st' = s /\ blocks' \subseteq Txs
       /\ blocks' \subseteq blocks \cup late \cup Flight(act[p])
       /\ UNCHANGED <<now, lastStart, st, late>>
  BY <1>1, <1>3, <1>4, <1>5, <1>11, <1>12, <1>16 DEF Flight
<1>19. OwnOK(b, lastStart)' /\ (Holds(p) => HolderOK(b, st, W, lastStart)')
  BY <1>13, <1>17, <1>18
<1>20. IInv /\ Later /\ LedgerOK' /\ p \in Proc /\ b.pc = act[p].pc
  BY <1>3, <1>9, <1>11
<1> QED
  BY ONLY <1>8, <1>9, <1>10, <1>14, <1>18, <1>19, <1>20, AnswerStep

\* The CMC refunds a top-up: what it pays back the transfer does not take.
LEMMA RefundLedger ==
  ASSUME IInv, NEW b \in blocks, b \notin refunded,
         refunded' = refunded \cup {b}, UNCHANGED <<funded, blocks, closed>>,
         balance' = balance + Credit(b.amt), Credit(b.amt) > 0
  PROVE  LedgerOK'
<1>1. /\ funded \in Nat /\ balance \in Nat /\ Len(closed) <= funded
      /\ Pot * funded <= balance + Total(blocks)
      /\ blocks \in SUBSET Txs /\ IsFiniteSet(blocks) /\ Pot * funded \in Nat
  BY InvIs, FS_Subset, Consts, ProductNat DEF IInv, LedgerOK
<1> DEFINE W == blocks \ {b}
           f == [tx \in blocks |-> Net(tx)']
           g == [tx \in blocks |-> Net(tx)]
<1>2. b.amt \in Nat /\ Fee \in Nat
  BY <1>1, Consts DEF Txs
<1>3. f[b] = 4 * Fee /\ g[b] = b.amt + Fee
  BY DEF Net
<1>4. \A x \in W : f[x] = g[x]
  BY DEF Net
<1>5. /\ \A x \in blocks : f[x] \in Int /\ g[x] \in Int
      /\ \A x \in blocks : f[x] \in Nat
  <2>1. \A x \in blocks : g[x] \in Nat
    BY <1>1, NetIsNat
  <2> QED
    BY <1>2, <1>3, <1>4, <2>1
<1>6. W \in SUBSET blocks /\ blocks \in SUBSET blocks /\ b \in blocks
      /\ IsFiniteSet(W)
  BY <1>1, FS_Subset
<1>7. Total(blocks)' = SumFunctionOnSet(f, blocks) /\ Total(blocks) = SumFunctionOnSet(g, blocks)
  BY DEF Total
<1> HIDE DEF f, g
<1>8. /\ SumFunctionOnSet(f, blocks) = f[b] + SumFunctionOnSet(f, W)
      /\ SumFunctionOnSet(f, W) \in Int
  <2>1. IsFiniteSet(blocks) /\ \A x \in blocks : f[x] \in Int
    BY <1>1, <1>5
  <2>2. \A T \in SUBSET blocks : /\ SumFunctionOnSet(f, T) \in Int
                                 /\ \A x \in T : SumFunctionOnSet(f, T)
                                       = f[x] + SumFunctionOnSet(f, T \ {x})
    BY ONLY <2>1, SumRemove
  <2> QED
    BY ONLY <1>6, <2>2
<1>9. /\ SumFunctionOnSet(g, blocks) = g[b] + SumFunctionOnSet(g, W)
      /\ SumFunctionOnSet(g, W) \in Int
  <2>1. IsFiniteSet(blocks) /\ \A x \in blocks : g[x] \in Int
    BY <1>1, <1>5
  <2>2. \A T \in SUBSET blocks : /\ SumFunctionOnSet(g, T) \in Int
                                 /\ \A x \in T : SumFunctionOnSet(g, T)
                                       = g[x] + SumFunctionOnSet(g, T \ {x})
    BY ONLY <2>1, SumRemove
  <2> QED
    BY ONLY <1>6, <2>2
<1>10. SumFunctionOnSet(f, W) = SumFunctionOnSet(g, W)
  BY <1>4, <1>6, SumSame
<1> HIDE DEF W
<1>11. /\ Total(blocks)' = 4 * Fee + SumFunctionOnSet(g, W)
       /\ Total(blocks) = b.amt + Fee + SumFunctionOnSet(g, W)
  BY <1>2, <1>3, <1>7, <1>8, <1>9, <1>10
<1>12. balance' = balance + (b.amt - 3 * Fee) /\ b.amt - 3 * Fee > 0
  BY DEF Credit
<1>13. PICK x : x = Pot * funded
  OBVIOUS
<1>14. x <= balance' + Total(blocks)' /\ balance' \in Nat
  <2>1. x \in Nat /\ balance \in Nat /\ x <= balance + Total(blocks)
    BY ONLY <1>1, <1>13
  <2> QED
    BY ONLY <1>2, <1>9, <1>11, <1>12, <2>1
<1> QED
  BY <1>1, <1>13, <1>14 DEF LedgerOK

LEMMA ServeNotifyInv ==
  ASSUME IInv, NEW p \in Proc, ServeNotify(p), UNCHANGED round
  PROVE  IInv'
<1>1. PICK c \in blocks, v \in {"minted", "refund", "terminal", "transient"} :
        /\ Key(c) = Key(Request(act[p]))
        /\ v = "minted" => c \notin minted \cup refunded \cup rejected \/ c \in minted
        /\ v = "refund" => \/ c \notin minted \cup refunded \cup rejected /\ Credit(c.amt) > 0
                           \/ c \in refunded
        /\ v = "terminal" => c \notin minted \cup refunded \cup rejected \/ c \in rejected
        /\ act' = [act EXCEPT ![p].got = TRUE, ![p].verdict = v]
        /\ minted' = IF v = "minted" THEN minted \cup {c} ELSE minted
        /\ rejected' = IF v = "terminal" THEN rejected \cup {c} ELSE rejected
        /\ refunded' = IF v = "refund" THEN refunded \cup {c} ELSE refunded
        /\ balance' = IF v = "refund" /\ c \notin minted \cup refunded \cup rejected
                      THEN balance + Credit(c.amt) ELSE balance
  BY DEF ServeNotify, Request
<1>2. /\ act[p].pc = "notify" /\ ~act[p].got
      /\ UNCHANGED <<now, lastStart, st, funded, blocks, late, closed, round>>
  BY DEF ServeNotify
<1>3. act \in [Proc -> Activations] /\ act[p] \in Activations /\ blocks \subseteq Txs
      /\ CmcOK /\ funded \in Nat
  BY DEF IInv, LedgerOK
<1>4. c = Request(act[p]) /\ c.kind = "topup"
  <2>1. Request(act[p]) \in blocks /\ act[p].pend.kind = "topup"
    BY <1>2 DEF IInv, OwnOK
  <2>2. Request(act[p]).kind = "topup" /\ Request(act[p]) \in Wild
    BY <2>1, InvIs DEF Request, Tx
  <2> QED
    BY <1>1, <2>1, <2>2, SameKey
<1>5. PICK b : b = [act[p] EXCEPT !.got = TRUE, !.verdict = v]
  OBVIOUS
<1>6. act' = [act EXCEPT ![p] = b]
  BY <1>1, <1>3, <1>5 DEF Activations
<1>7. /\ b \in Activations /\ b.pc = "notify" /\ b.start = act[p].start
      /\ b.expiry = act[p].expiry /\ b.got = TRUE /\ b.verdict = v
      /\ b.pend = act[p].pend /\ b.job = act[p].job /\ b.attempt = act[p].attempt
      /\ b.terminal = act[p].terminal /\ b.mode = act[p].mode /\ b.pos = act[p].pos
      /\ b.end = act[p].end /\ b.cursor = act[p].cursor
  BY ONLY <1>1, <1>2, <1>3, <1>5 DEF Activations
<1>8. ~InFlight(b) /\ Request(b) = c
  BY <1>4, <1>7 DEF InFlight, Request
<1>9. CmcOK' /\ Later
  <2>1. minted' \subseteq blocks /\ refunded' \subseteq blocks /\ rejected' \subseteq blocks
    BY <1>1, <1>3 DEF CmcOK
  <2>2. \A d \in refunded' : d.kind = "topup" /\ Credit(d.amt) > 0 /\ d \notin minted'
    BY <1>1, <1>3, <1>4 DEF CmcOK
  <2>3. \A d \in rejected' : d.kind = "topup" /\ d \notin minted'
    BY <1>1, <1>3, <1>4 DEF CmcOK
  <2>4. CmcOK'
    BY <1>2, <2>1, <2>2, <2>3 DEF CmcOK
  <2> QED
    BY <1>1, <1>2, <1>3, <2>4 DEF Later
<1>10. LedgerOK'
  <2>1. CASE v = "refund" /\ c \notin minted \cup refunded \cup rejected
    BY <1>1, <1>2, <1>3, <2>1, RefundLedger DEF CmcOK
  <2>2. CASE ~(v = "refund" /\ c \notin minted \cup refunded \cup rejected)
    <3>1. refunded' = refunded /\ balance' = balance
      BY <1>1, <2>2
    <3>2. PICK R : R = blocks
      OBVIOUS
    <3>3. Total(R)' = Total(R) /\ blocks' = R
      BY <1>2, <3>1, <3>2, TotalRefunds
    <3>4. Total(blocks)' = Total(blocks)
      BY <3>2, <3>3
    <3> QED
      BY <1>2, <3>1, <3>4 DEF IInv, LedgerOK
  <2> QED
    BY <2>1, <2>2
<1>11. PICK n : n = lastStart
  OBVIOUS
<1>12. OwnOK(b, n)'
  <2>1. OwnOK(act[p], n)
    BY <1>11 DEF IInv
  <2>2. Request(b)' = c
    BY <1>8 DEF Request, Tx
  <2>3. /\ v = "minted" => c \in minted'
        /\ v = "refund" => c \in refunded'
        /\ v = "terminal" => c \in rejected'
        /\ c \in blocks' /\ (act[p].terminal => c \in rejected')
    BY <1>1, <1>2, <1>4, <2>1 DEF OwnOK
  <2> QED
    BY <1>1, <1>2, <1>7, <2>1, <2>2, <2>3 DEF OwnOK
<1>13. PICK W : W = Others(p)'
  OBVIOUS
<1>14. W = Others(p)
  <2>1. \A q \in Proc \ {p} : act'[q] = act[q]
    BY <1>3, <1>6
  <2>2. Flights(Proc \ {p})' = Flights(Proc \ {p})
    BY <2>1 DEF Flights, InFlight, Request, Tx
  <2> QED
    BY <1>2, <1>13, <2>2 DEF Others
<1>15. PICK s : s = st
  OBVIOUS
<1>16. Holds(p) => HolderOK(b, s, W, n)'
  <2>1. SUFFICES ASSUME Holds(p) PROVE HolderOK(b, s, W, n)'
    OBVIOUS
  <2>2. HolderOK(act[p], s, W, n)
    BY <1>11, <1>14, <1>15, <2>1 DEF IInv
  <2>3. PlaceOK(act[p], s.job) => PlaceOK(b, s.job)
    BY <1>7 DEF PlaceOK
  <2>4. HolderOK(b, s, W, n)
    BY <1>2, <1>7, <2>2, <2>3 DEF HolderOK
  <2>5. s.processed \in Nat
    BY <1>15, InvIs DEF Stores
  <2> QED
    BY <1>9, <2>4, <2>5, HolderLater
<1>17. /\ lastStart' = n /\ st' = s /\ blocks' \subseteq Txs
       /\ blocks' \subseteq blocks \cup late \cup Flight(act[p])
       /\ UNCHANGED <<now, lastStart, st, late>>
  BY <1>2, <1>3, <1>11, <1>15
<1>18. OwnOK(b, lastStart)' /\ (Holds(p) => HolderOK(b, st, W, lastStart)')
  BY <1>12, <1>16, <1>17
<1>19. IInv /\ Later /\ LedgerOK' /\ p \in Proc /\ b.pc = act[p].pc
  BY <1>2, <1>7, <1>9, <1>10
<1> QED
  BY ONLY <1>6, <1>7, <1>8, <1>13, <1>17, <1>18, <1>19, AnswerStep

\* The invariant holds initially.
LEMMA InitInv ==
  ASSUME Init
  PROVE  IInv
<1>1. /\ round \in Rounds /\ now = Stride /\ lastStart = 0
      /\ act = [p \in Proc |-> Idle]
      /\ funded = 0 /\ balance = round.dust /\ blocks = {} /\ late = {}
      /\ minted = {} /\ refunded = {} /\ rejected = {} /\ closed = <<>>
      /\ st = [lock |-> Unlocked, nonce |-> 1, processed |-> 0, job |-> NoJob,
               dispatch |-> NoDispatch, forced |-> "none"]
  BY DEF Init
<1>2. N \in Nat /\ round.dust \in Nat
  BY <1>1, RoundIs, RoundAssumption
<1>3. /\ Idle \in Activations /\ Idle.pc = "idle"
  <2>1. 0 \in 0 .. NItems /\ 0 \in 0 .. 2 /\ 0 \in Nat
    BY <1>2 DEF N
  <2> QED
    BY <2>1 DEF Idle, Activations, Pcs
<1>4. \A p \in Proc : act[p] = Idle
  BY <1>1
<1>5. Flights(Proc) = {} /\ Wild = {}
  BY <1>1, <1>3, <1>4 DEF Flights, InFlight, Wild
<1>6. act \in [Proc -> Activations]
  BY <1>1, <1>3
<1>7. closed \in Seq(Jobs) /\ Len(closed) = 0
  BY <1>1
<1>8. ClockOK /\ LedgerOK /\ CmcOK
  <2>1. Pot * 0 <= round.dust + 0
    BY <1>2, Consts
  <2> QED
    BY <1>1, <1>2, <1>7, <2>1, TotalNone, Consts DEF ClockOK, LedgerOK, CmcOK
<1>9. WildOK(Wild, lastStart)
  BY <1>5, FS_EmptySet DEF WildOK
<1>10. StoreOK(st, Wild, lastStart)
  <2>1. /\ st \in Stores /\ st.lock = Unlocked /\ st.processed = 0
        /\ st.dispatch = NoDispatch /\ st.job = NoJob
    BY <1>1 DEF Stores, Unlocked
  <2>2. Total(Wild) <= Pot * 0
    BY <1>5, TotalNone, Consts
  <2> QED
    BY <1>5, <1>7, <2>1, <2>2 DEF StoreOK, BaseOK, DispatchOK
<1>11. \A p \in Proc : OwnOK(act[p], lastStart) /\ ~Holds(p)
  BY <1>3, <1>4 DEF OwnOK, Holds
<1>12. late \subseteq Txs /\ blocks \subseteq Txs
  BY <1>1
<1> QED
  BY <1>1, <1>3, <1>4, <1>6, <1>7, <1>8, <1>9, <1>10, <1>11, <1>12 DEF IInv

\* Every step preserves it.
LEMMA NextInv ==
  ASSUME IInv, Next
  PROVE  IInv'
<1>1. UNCHANGED round
  BY DEF Next
<1>2. CASE Tick
  BY <1>1, <1>2, TickInv
<1>3. CASE Fund
  BY <1>1, <1>3, FundInv
<1>4. CASE LateExecute
  BY <1>1, <1>4, LateInv
<1>5. ASSUME NEW p \in Proc,
             \/ Start(p) \/ Callback(p) \/ Trap(p) \/ ReadBalance(p)
             \/ RereadServe(p) \/ ServeTransfer(p) \/ ServeNotify(p)
      PROVE  IInv'
  BY <1>1, <1>5, StartInv, CallbackInv, TrapInv, ReadBalanceInv, RereadServeInv,
     ServeTransferInv, ServeNotifyInv
<1> QED
  BY <1>2, <1>3, <1>4, <1>5 DEF Next

LEMMA StutterInv ==
  ASSUME IInv, UNCHANGED vars
  PROVE  IInv'
<1>1. UNCHANGED <<now, lastStart, st, act, ledger, late, cmc, closed, round>>
  BY DEF vars
<1>2. Later /\ LedgerOK' /\ blocks' = blocks
  BY <1>1, StillIs DEF ledger
<1>3. ClockOK'
  BY <1>1 DEF IInv, ClockOK
<1>4. UNCHANGED <<lastStart, st, act>> /\ late' \subseteq late /\ blocks' \subseteq blocks \cup late
  BY <1>1, <1>2
<1> QED
  BY <1>2, <1>3, <1>4, QuietStep

\* The inductive invariant holds in every state of every behaviour.
THEOREM Inductive == Spec => []IInv
<1>1. Init => IInv
  BY InitInv
<1>2. IInv /\ [Next]_vars => IInv'
  BY NextInv, StutterInv
<1> QED
  BY <1>1, <1>2, PTL DEF Spec

-----------------------------------------------------------------------------
(* What follows from the invariant.                                          *)

\* On S, h is f without g at the elements of R.
Without(f, g, h, R, S) ==
  \A x \in S : /\ f[x] \in Int /\ g[x] \in Int /\ h[x] \in Int
               /\ x \in R => h[x] = f[x] - g[x]
               /\ x \notin R => h[x] = f[x]

\* A difference of sums, term by term.
LEMMA SumMinus ==
  ASSUME NEW f, NEW g, NEW h, NEW R, NEW S, IsFiniteSet(S), Without(f, g, h, R, S)
  PROVE  SumFunctionOnSet(f, S) - SumFunctionOnSet(g, S \cap R) = SumFunctionOnSet(h, S)
<1> DEFINE Good(V) == SumFunctionOnSet(f, V) - SumFunctionOnSet(g, V \cap R)
                        = SumFunctionOnSet(h, V)
           Bad == {V \in SUBSET S : ~Good(V)}
<1>1. SUFFICES ASSUME Bad # {} PROVE FALSE
  OBVIOUS
<1>2. IsWellFoundedOn(StrictSubsetOrdering(S), SUBSET S)
  BY FS_StrictSubsetOrderingWellFounded, FS_FiniteSubsetsOfFinite
<1>3. Bad \subseteq SUBSET S
  OBVIOUS
<1> HIDE DEF Bad
<1>4. PICK V \in Bad : \A W \in Bad : ~(<<W, V>> \in StrictSubsetOrdering(S))
  BY <1>1, <1>2, <1>3, WFMin
<1>5. V \in SUBSET S /\ ~Good(V)
  BY <1>4 DEF Bad
<1>6. V # {}
  <2>1. SUFFICES ASSUME V = {} PROVE Good(V)
    BY <1>5
  <2>2. V \cap R = {}
    BY <2>1
  <2>3. SumFunctionOnSet(f, {}) = 0 /\ SumFunctionOnSet(g, {}) = 0 /\ SumFunctionOnSet(h, {}) = 0
    BY SumEmpty
  <2> QED
    BY <2>1, <2>2, <2>3
<1>7. PICK x \in V : TRUE
  BY <1>6
<1> DEFINE W == V \ {x}
<1>8. W \in SUBSET S /\ W \subseteq V /\ W # V /\ x \in S
  BY <1>5, <1>7
<1>9. Good(W)
  BY <1>4, <1>5, <1>8 DEF Bad, StrictSubsetOrdering
<1>10. \A y \in S : f[y] \in Int /\ g[y] \in Int /\ h[y] \in Int
  BY DEF Without
<1>11. /\ SumFunctionOnSet(f, V) = f[x] + SumFunctionOnSet(f, W)
       /\ SumFunctionOnSet(f, W) \in Int
  BY <1>5, <1>7, <1>8, <1>10, SumRemove
<1>12. /\ SumFunctionOnSet(h, V) = h[x] + SumFunctionOnSet(h, W)
       /\ SumFunctionOnSet(h, W) \in Int
  BY <1>5, <1>7, <1>8, <1>10, SumRemove
<1>13. /\ SumFunctionOnSet(g, W \cap R) \in Int
       /\ x \in R => SumFunctionOnSet(g, V \cap R) = g[x] + SumFunctionOnSet(g, W \cap R)
       /\ x \notin R => SumFunctionOnSet(g, V \cap R) = SumFunctionOnSet(g, W \cap R)
  <2>1. W \cap R = (V \cap R) \ {x} /\ V \cap R \in SUBSET S /\ W \cap R \in SUBSET S
    BY <1>5
  <2>2. \A T \in SUBSET S : /\ SumFunctionOnSet(g, T) \in Int
                            /\ \A y \in T : SumFunctionOnSet(g, T)
                                  = g[y] + SumFunctionOnSet(g, T \ {y})
    <3>1. IsFiniteSet(S) /\ \A y \in S : g[y] \in Int
      BY <1>10
    <3> QED
      BY ONLY <3>1, SumRemove
  <2>3. CASE x \in R
    <3>1. x \in V \cap R
      BY <1>7, <2>3
    <3> QED
      BY <2>1, <2>2, <2>3, <3>1
  <2>4. CASE x \notin R
    <3>1. W \cap R = V \cap R
      BY <2>4
    <3> QED
      BY <2>1, <2>2, <2>4, <3>1
  <2> QED
    BY <2>3, <2>4
<1>14. /\ f[x] \in Int /\ g[x] \in Int /\ (x \in R => h[x] = f[x] - g[x])
       /\ (x \notin R => h[x] = f[x])
  BY <1>8 DEF Without
<1> HIDE DEF W
<1> QED
  BY <1>5, <1>9, <1>11, <1>12, <1>13, <1>14

\* What left the account for a job is the total of its transfers.
LEMMA DebitedIs ==
  ASSUME CmcOK, blocks \in SUBSET Txs, IsFiniteSet(blocks), NEW id
  PROVE  Debited(id) = Total(OfJob(blocks, id))
<1> DEFINE S == OfJob(blocks, id)
           f == [b \in blocks |-> b.amt + Fee]
           g == [b \in blocks |-> Credit(b.amt)]
           h == [tx \in S |-> Net(tx)]
<1>1. S \in SUBSET blocks /\ IsFiniteSet(S) /\ BlocksOf(id) = S
  BY OfJobPart DEF OfJob, BlocksOf
<1>2. ASSUME NEW x \in S
      PROVE  /\ f[x] \in Int /\ g[x] \in Int /\ h[x] \in Int
             /\ x \in refunded => h[x] = f[x] - g[x]
             /\ x \notin refunded => h[x] = f[x]
  <2>1. x.amt \in Nat /\ Fee \in Nat /\ x \in blocks
    BY <1>1, Consts DEF Txs
  <2>2. f[x] = x.amt + Fee /\ g[x] = x.amt - 3 * Fee /\ h[x] = Net(x)
    BY <2>1 DEF Credit
  <2>3. x \in refunded => Net(x) = 4 * Fee
    BY DEF Net
  <2>4. x \notin refunded => Net(x) = x.amt + Fee
    BY DEF Net
  <2> HIDE DEF f, g, h, S
  <2> QED
    BY <2>1, <2>2, <2>3, <2>4
<1>3. Debited(id) = SumFunctionOnSet(f, S) - SumFunctionOnSet(g, S \cap refunded)
  BY <1>1 DEF Debited
<1>4. Total(S) = SumFunctionOnSet(h, S)
  BY DEF Total
<1> HIDE DEF f, g, h, S
<1>5. SumFunctionOnSet(f, S) - SumFunctionOnSet(g, S \cap refunded) = SumFunctionOnSet(h, S)
  <2>1. Without(f, g, h, refunded, S)
    BY ONLY <1>2 DEF Without
  <2> QED
    BY ONLY <1>1, <2>1, SumMinus
<1> QED
  BY <1>3, <1>4, <1>5 DEF S

LEMMA AccountedIs == IInv => Accounted
<1> SUFFICES ASSUME IInv PROVE Accounted
  OBVIOUS
<1>1. /\ CmcOK /\ blocks \in SUBSET Txs /\ IsFiniteSet(blocks) /\ blocks \in SUBSET Wild
      /\ Wild \in SUBSET Txs /\ IsFiniteSet(Wild) /\ round \in Rounds
  BY InvIs, FS_Subset DEF IInv
<1>2. \A id : /\ Debited(id) <= Total(OfJob(Wild, id))
              /\ Debited(id) \in Nat /\ Total(OfJob(Wild, id)) \in Nat
  BY <1>1, DebitedIs, TotalFewer
<1>3. ASSUME st.job # NoJob
      PROVE  Debited(st.job.id) <= Committed(st.job) /\ Committed(st.job) <= st.job.pot
  <2>1. /\ JobOK(st.job, Wild, Len(closed), lastStart) /\ Setting(Wild, lastStart)
        /\ Len(closed) \in Nat /\ st.job.pot = Pot /\ st.job \in Jobs
    BY <1>3, InvIs, StoreIs
  <2>2. Committed(st.job) <= st.job.pot
    BY <2>1 DEF JobOK, MoneyOK
  <2>3. Total(OfJob(Wild, st.job.id)) <= Committed(st.job) /\ Committed(st.job) \in Nat
    <3>1. CASE Waits(st.job)
      <4>1. /\ Net(Pending(st.job)) <= st.job.pending.share
            /\ st.job.pending \in Pendings
        BY <2>1, <3>1, PendingTx
      <4>2. st.job.pending.share \in Nat
        BY <1>1, <4>1, PendingIs
      <4>3. /\ Committed(st.job) = Spent(st.job) + st.job.pending.share
            /\ Committed(st.job) \in Nat
            /\ Total(OfJob(Wild, st.job.id)) <= Spent(st.job) + st.job.pending.share
        BY <2>1, <3>1, <4>1, <4>2, MoneyIs
      <4> QED
        BY <4>3
    <3>2. CASE ~Waits(st.job)
      <4>1. Total(OfJob(Wild, st.job.id)) <= Spent(st.job)
        BY <2>1, <3>2 DEF JobOK, MoneyOK, Rest
      <4>2. st.job.gross \in Nat
        BY <1>1, <2>1, JobIs
      <4>3. Spent(st.job) = st.job.gross /\ Committed(st.job) = st.job.gross
        BY <3>2, <4>2 DEF Spent, IsAccepted, Waits, Committed
      <4> QED
        BY <4>1, <4>2, <4>3
    <3> QED
      BY <3>1, <3>2
  <2> QED
    BY <1>2, <2>2, <2>3
<1>4. ASSUME NEW k \in 1 .. Len(closed)
      PROVE  Debited(closed[k].id) <= closed[k].gross /\ closed[k].gross <= closed[k].pot
  <2>1. ClosedOK(k, Wild, st.nonce)
    BY InvIs DEF BaseOK
  <2>2. /\ Total(OfJob(Wild, closed[k].id)) <= closed[k].gross
        /\ closed[k].gross <= closed[k].pot /\ closed[k].gross \in Nat
    BY <1>1, <2>1, JobIs DEF ClosedOK
  <2> QED
    BY <1>2, <2>2
<1> QED
  BY <1>3, <1>4 DEF Accounted

\* What is counted for the jobs, the active one and those closed.
LEMMA AllOutcomes ==
  ASSUME IInv, NEW j \in AllJobs
  PROVE  OutcomesOK(j, Wild) /\ j \in Jobs
<1>1. CASE j = st.job /\ st.job # NoJob
  <2>1. JobOK(st.job, Wild, Len(closed), lastStart)
    BY <1>1, InvIs, StoreIs
  <2> QED
    BY <1>1, <2>1 DEF JobOK
<1>2. ASSUME NEW k \in 1 .. Len(closed), j = closed[k]
      PROVE  OutcomesOK(j, Wild) /\ j \in Jobs
  <2>1. ClosedOK(k, Wild, st.nonce)
    BY InvIs DEF BaseOK
  <2> QED
    BY <1>2, <2>1 DEF ClosedOK
<1> QED
  BY <1>1, <1>2 DEF AllJobs

LEMMA OutcomesTrueIs == IInv => OutcomesTrue
<1> SUFFICES ASSUME IInv PROVE OutcomesTrue
  OBVIOUS
<1>1. CountedIsPaid
  <2> SUFFICES ASSUME NEW j \in AllJobs, NEW i \in Items, j.outcome[i] = "paid"
               PROVE  \E b \in BlocksOf(j.id) : b.item = i /\ (b.kind = "topup" => b \in minted)
    BY DEF CountedIsPaid
  <2>1. PICK b \in blocks : b.job = j.id /\ b.item = i /\ (b.kind = "topup" => b \in minted)
    BY AllOutcomes DEF OutcomesOK
  <2> QED
    BY <2>1 DEF BlocksOf
<1>2. FailedIsUnpaid
  <2> SUFFICES ASSUME NEW j \in AllJobs, NEW i \in Items, j.outcome[i] = "failed",
                      ~BeingPaid(j, i),
                      NEW b \in BlocksOf(j.id) \cup {tx \in late \ blocks : tx.job = j.id},
                      b.item = i
               PROVE  b.kind = "topup" /\ b \in blocks \ minted
    BY DEF FailedIsUnpaid
  <2>1. b \in OfJob(Wild, j.id)
    BY DEF BlocksOf, OfJob, Wild
  <2>2. b.kind = "topup" /\ b \in refunded \cup rejected
    BY <2>1, AllOutcomes DEF OutcomesOK
  <2> QED
    BY <2>2 DEF IInv, CmcOK
<1> QED
  BY <1>1, <1>2 DEF OutcomesTrue

\* Every variable keeps its type: no amount, gross total or balance is ever
\* negative, and no cursor leaves the history.
THEOREM Types == Spec => []TypeOK
<1>1. IInv => TypeOK
  <2> SUFFICES ASSUME IInv PROVE TypeOK
    OBVIOUS
  <2>1. /\ now \in Nat /\ lastStart \in Nat /\ act \in [Proc -> Activations]
        /\ funded \in Nat /\ balance \in Nat /\ blocks \subseteq Txs /\ late \subseteq Txs
        /\ minted \subseteq blocks /\ refunded \subseteq blocks /\ rejected \subseteq blocks
        /\ closed \in Seq(Jobs) /\ round \in Rounds
    BY DEF IInv, ClockOK, LedgerOK, CmcOK
  <2>2. st \in [lock : Nat, nonce : Nat, processed : Nat,
                job : Jobs \cup {NoJob}, dispatch : Dispatches \cup {NoDispatch},
                forced : {"none", "AccountingInvariantBroken",
                          "FundingTrancheBalanceMismatch"}]
    <3>1. st \in Stores
      BY InvIs
    <3> QED
      BY ONLY <3>1 DEF Stores
  <2> QED
    BY <2>1, <2>2 DEF TypeOK
<1> QED
  BY <1>1, Inductive, PTL

\* What left the payout account for a job is within what the job has booked,
\* and that is within its tranche, while the job runs and after it is closed.
THEOREM TranchesSpentOnce == Spec => []Accounted
  BY AccountedIs, Inductive, PTL

\* A second transfer for a commitment exists only if the first was refunded.
THEOREM CommitmentsPaidOnce == Spec => []PaidOnce
<1>1. IInv => PaidOnce
  <2> SUFFICES ASSUME IInv, NEW b \in blocks, NEW c \in blocks,
                      b.job = c.job, b.item = c.item
               PROVE  b = c \/ {b, c} \cap refunded # {}
    BY DEF PaidOnce
  <2>1. b \in Wild /\ c \in Wild /\ WildOK(Wild, lastStart)
    BY InvIs
  <2>2. b = c \/ b \in refunded \/ c \in refunded
    BY <2>1 DEF WildOK
  <2> QED
    BY <2>2
<1> QED
  BY <1>1, Inductive, PTL

\* What a job counts as paid was paid, what it counts as failed reached
\* nobody and never will.
THEOREM CountsAreTrue == Spec => []OutcomesTrue
  BY OutcomesTrueIs, Inductive, PTL

\* A finalised job passed over no commitment whose share exceeds the fee.
THEOREM NobodyPassedOver == Spec => []NoneSkipped
<1>1. IInv => NoneSkipped
  <2> SUFFICES ASSUME IInv, NEW k \in 1 .. Len(closed), NEW i \in Items,
                      Share(closed[k], i) > Fee
               PROVE  closed[k].outcome[i] # "none"
    BY DEF NoneSkipped
  <2>1. ClosedOK(k, Wild, st.nonce)
    BY InvIs DEF BaseOK
  <2> QED
    BY <2>1 DEF ClosedOK
<1> QED
  BY <1>1, Inductive, PTL

\* The accounting checks of the code never trip, and the payout account covers
\* the tranche of each new job.
THEOREM ChecksNeverTrip == Spec => []NoFalseRescue
<1>1. IInv => NoFalseRescue
  BY InvIs DEF Stores, NoFalseRescue
<1> QED
  BY <1>1, Inductive, PTL

\* Tranches are paid out one at a time, in order, each by one job.
THEOREM OneTrancheAtATime == Spec => []TranchesInOrder
<1>1. IInv => TranchesInOrder
  <2> SUFFICES ASSUME IInv PROVE TranchesInOrder
    OBVIOUS
  <2>1. BaseOK(st, Wild, lastStart)
    BY InvIs
  <2>2. \A k \in 1 .. Len(closed) : closed[k].tranche = k
    BY <2>1 DEF BaseOK, ClosedOK
  <2>3. st.job # NoJob => st.job.tranche = Len(closed) + 1 /\ st.job.tranche <= funded
    BY <2>1 DEF BaseOK, JobBase
  <2> QED
    BY <2>1, <2>2, <2>3 DEF BaseOK, TranchesInOrder
<1> QED
  BY <1>1, Inductive, PTL
=============================================================================

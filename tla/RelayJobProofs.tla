--------------------------- MODULE RelayJobProofs ---------------------------
(***************************************************************************)
(* Theorems about the Relay's allocation job, for every number of           *)
(* activations, targets and recipients, every fee, rate and budget the      *)
(* assumptions allow.                                                       *)
(***************************************************************************)
EXTENDS RelayJob, FiniteSetTheorems, NaturalsInduction, TLAPS

-----------------------------------------------------------------------------
(* The inductive invariant.  Its parts are operators of the state they speak *)
(* of: j is the job, nid the next job's id, mt what the CMC minted, exec the  *)
(* executed identities, lt the late requests and db the doubtful ones.       *)

Busy(a) == a.pc \in Sends \cup Asks

MintOf(mt, id) == IF id \in DOMAIN mt THEN {mt[id]} ELSE {}

\* Every observed target has its item, and what an item counts as minted was
\* minted under its identity; an item that was not dispatched counts nothing.
ItemsOK(j, mt) ==
  /\ DOMAIN j.items = Observed(j.seen)
  /\ \A i \in DOMAIN j.items :
       /\ j.items[i].t = Targets[i]
       /\ j.items[i].minted \in {0} \cup MintOf(mt, <<j.id, "topup", i>>)
       /\ i >= j.next => j.items[i].minted = 0

\* The pending transfer is that of the last index; surplus is pending only
\* after all top-ups were minted in full.
PendingOK(j) ==
  /\ j.pending.id[1] = j.id
  /\ j.pending.id[2] = "topup" =>
       /\ j.pending.id[3] \in DOMAIN j.items /\ j.pending.id[3] < j.next
       /\ j.items[j.pending.id[3]].minted = 0
  /\ j.pending.id[2] = "surplus" =>
       /\ j.pending.id[3] < j.snext /\ ~j.pending.accepted
       /\ \A i \in DOMAIN j.items : j.items[i].minted >= j.items[i].need

JobOK(j, nid, mt) ==
  /\ j.id < nid /\ j.next \in 1 .. End /\ j.snext \in 1 .. Len(j.surplus) + 1
  /\ ~j.planned => Raw /\ j.surplus = <<>> /\ j.snext = 1
  /\ ItemsOK(j, mt)
  /\ j.pending # None => PendingOK(j)

\* Identities that may have been dispatched.
Used(id, j, nid) ==
  /\ id[1] < nid
  /\ j # None /\ id[1] = j.id =>
       /\ id[2] = "topup" => id[3] < j.next
       /\ id[2] = "surplus" => id[3] < j.snext

Unsent(id, exec, lt) == /\ id \notin exec
                        /\ \A r \in lt : r.tx.id = id => r.kind # "send"

\* What an activation knows: its sample, its transfer, and that the CMC minted
\* what it says it did; while its first attempt is open or was refused, nobody
\* has executed its transfer unless a successor dispatched it as well.
ActOK(a, j, nid, mt, exec, lt, db) ==
  /\ a.pc \in {"balance", "quote"} => a.seen \in Samples
  /\ Busy(a) => /\ a.tx \in Txs /\ Used(a.tx.id, j, nid)
                /\ a.pc \in Asks <=> a.tx.accepted
  /\ a.pc \in Asks /\ a.reply = "ok" => a.tx.id \in DOMAIN mt
  /\ a.pc = "send1" /\ a.reply \in {"none", "badfee", "failed"} /\ a.tx.id \notin db =>
       Unsent(a.tx.id, exec, lt)

\* The holder of the lease resolves the recipients of a job without a transfer.
Quiet == \A p \in Proc : act[p].pc = "resolve" /\ lease = p =>
                           job = None \/ job.pending = None

\* Who shares a transfer with another has it in doubt.
Alone == \A p, q \in Proc : p # q /\ Busy(act[p]) /\ Busy(act[q])
                             /\ act[p].tx.id = act[q].tx.id => act[p].tx.id \in doubt

\* A transfer given up as failed is over.
FailedOK == \A id \in failedTx \ doubt :
              /\ Unsent(id, executed, late)
              /\ \A p \in Proc : Busy(act[p]) => act[p].tx.id # id

History == \A id \in executed \cup failedTx \cup {r.tx.id : r \in late} :
             Used(id, job, nextId)

IInv == /\ TypeOK
        /\ job # None => JobOK(job, nextId, mint)
        /\ \A p \in Proc : ActOK(act[p], job, nextId, mint, executed, late, doubt)
        /\ Quiet /\ Alone /\ FailedOK /\ History

-----------------------------------------------------------------------------
(* Least elements, and sums over finite sets.  Induction is by a least or a   *)
(* smallest counterexample.                                                  *)

Pick(s) == CHOOSE x \in s : TRUE

\* g adds up f over every set of D.
Adds(f, D, g) ==
  g = [s \in D |-> IF s = {} THEN 0 ELSE f[Pick(s)] + g[s \ {Pick(s)}]]

UpTo(S, n) == {s \in SUBSET S : Cardinality(s) <= n}

\* The order of the natural numbers, as a relation.
Less == {x \in Nat \X Nat : x[1] < x[2]}

LEMMA LeastExists ==
  ASSUME NEW S \in SUBSET Nat, S # {}
  PROVE  \E x \in S : \A y \in S : x <= y
<1>1. OpToRel(<, Nat) = Less
  BY DEF OpToRel, Less
<1>2. IsWellFoundedOn(Less, Nat)
  BY <1>1, NatLessThanWellFounded
<1>3. PICK x \in S : \A y \in S : ~(<<y, x>> \in Less)
  BY <1>2, WFMin
<1>4. \A y \in S : x <= y
  <2> TAKE y \in S
  <2>1. x \in Nat /\ y \in Nat /\ ~(y < x)
    BY <1>3 DEF Less
  <2> QED
    BY <2>1
<1> QED
  BY <1>4

LEMMA PickIn == \A s : s # {} => Pick(s) \in s
  BY DEF Pick

LEMMA AddsExists ==
  ASSUME NEW f, NEW S, IsFiniteSet(S)
  PROVE  \E g : Adds(f, SUBSET S, g)
<1> DEFINE Good(n) == \E g : Adds(f, UpTo(S, n), g)
           Bad == {n \in Nat : ~Good(n)}
<1>1. \A s \in SUBSET S : /\ IsFiniteSet(s) /\ Cardinality(s) \in Nat
                          /\ Cardinality(s) <= Cardinality(S)
  BY FS_CardinalityType, FS_Subset
<1>2. \A s \in SUBSET S : s # {} => Cardinality(s \ {Pick(s)}) = Cardinality(s) - 1
  BY <1>1, PickIn, FS_RemoveElement
<1>3. \A s \in SUBSET S : Cardinality(s) = 0 <=> s = {}
  BY <1>1, FS_EmptySet
<1>4. Good(0)
  <2> DEFINE g == [s \in UpTo(S, 0) |-> 0]
  <2>1. \A s \in UpTo(S, 0) : s = {}
    BY <1>1, <1>3 DEF UpTo
  <2>2. g = [s \in UpTo(S, 0) |-> IF s = {} THEN 0 ELSE f[Pick(s)] + g[s \ {Pick(s)}]]
    BY <2>1
  <2> QED
    BY <2>2, Zenon DEF Adds
<1>5. ASSUME NEW n \in Nat, Good(n) PROVE Good(n + 1)
  <2>1. PICK g : Adds(f, UpTo(S, n), g)
    BY <1>5
  <2> DEFINE h == [s \in UpTo(S, n + 1) |->
                     IF s = {} THEN 0 ELSE f[Pick(s)] + g[s \ {Pick(s)}]]
  <2>2. \A s \in UpTo(S, n + 1) : s # {} => s \ {Pick(s)} \in UpTo(S, n)
    BY <1>1, <1>2 DEF UpTo
  <2>3. UpTo(S, n) \subseteq UpTo(S, n + 1)
    BY <1>1 DEF UpTo
  <2>4. \A s \in UpTo(S, n) : g[s] = IF s = {} THEN 0 ELSE f[Pick(s)] + g[s \ {Pick(s)}]
    <3>1. g = [s \in UpTo(S, n) |-> IF s = {} THEN 0 ELSE f[Pick(s)] + g[s \ {Pick(s)}]]
      BY <2>1 DEF Adds
    <3> DEFINE k == [s \in UpTo(S, n) |-> IF s = {} THEN 0 ELSE f[Pick(s)] + g[s \ {Pick(s)}]]
    <3>2. g = k
      BY <3>1
    <3>3. \A s \in UpTo(S, n) : k[s] = IF s = {} THEN 0 ELSE f[Pick(s)] + g[s \ {Pick(s)}]
      OBVIOUS
    <3> QED
      BY <3>2, <3>3, Zenon
  <2>5. \A s \in UpTo(S, n) : h[s] = g[s]
    BY <2>3, <2>4
  <2>6. \A s \in UpTo(S, n + 1) : s # {} => h[s \ {Pick(s)}] = g[s \ {Pick(s)}]
    BY <2>2, <2>5
  <2>7. h = [s \in UpTo(S, n + 1) |-> IF s = {} THEN 0 ELSE f[Pick(s)] + h[s \ {Pick(s)}]]
    BY <2>6
  <2> QED
    BY <2>7, Zenon DEF Adds
<1>6. Bad = {}
  <2> SUFFICES ASSUME Bad # {} PROVE FALSE
    OBVIOUS
  <2>1. PICK n \in Bad : \A m \in Bad : n <= m
    BY LeastExists
  <2>2. n \in Nat /\ n # 0 /\ ~Good(n)
    BY <1>4, <2>1
  <2>3. n - 1 \in Nat /\ ~(n <= n - 1)
    BY <2>2
  <2> HIDE DEF Good
  <2>4. Good(n - 1)
    BY <2>1, <2>3
  <2>5. (n - 1) + 1 = n
    BY <2>2
  <2> QED
    BY <1>5, <2>2, <2>3, <2>4, <2>5
<1>7. Cardinality(S) \in Nat /\ UpTo(S, Cardinality(S)) = SUBSET S
  BY <1>1 DEF UpTo
<1>8. Good(Cardinality(S))
  BY <1>6, <1>7
<1> QED
  BY <1>7, <1>8

\* What Adds says of each set.
LEMMA AddsEach ==
  ASSUME NEW f, NEW D, NEW g, Adds(f, D, g)
  PROVE  \A s \in D : g[s] = IF s = {} THEN 0 ELSE f[Pick(s)] + g[s \ {Pick(s)}]
<1> DEFINE k == [t \in D |-> IF t = {} THEN 0 ELSE f[Pick(t)] + g[t \ {Pick(t)}]]
<1>1. g = k
  BY DEF Adds
<1>2. \A s \in D : k[s] = IF s = {} THEN 0 ELSE f[Pick(s)] + g[s \ {Pick(s)}]
  OBVIOUS
<1> QED
  BY <1>1, <1>2, Zenon

LEMMA SumUnfold ==
  ASSUME NEW f, IsFiniteSet(DOMAIN f)
  PROVE  \E h : Adds(f, SUBSET DOMAIN f, h) /\ SumOf(f) = h[DOMAIN f]
<1> DEFINE S == DOMAIN f
<1> DEFINE iter == CHOOSE h : h = [s \in SUBSET S |-> IF s = {} THEN 0
                      ELSE LET x == CHOOSE x \in s : TRUE IN f[x] + h[s \ {x}]]
<1>1. SumOf(f) = iter[S]
  BY Zenon DEF SumOf, MapThenSumSet, MapThenFoldSet
<1>2. \E h : h = [s \in SUBSET S |-> IF s = {} THEN 0
                      ELSE LET x == CHOOSE x \in s : TRUE IN f[x] + h[s \ {x}]]
  <2>1. \E h : Adds(f, SUBSET S, h)
    BY AddsExists
  <2> QED
    BY <2>1, Zenon DEF Adds, Pick
<1>3. iter = [s \in SUBSET S |-> IF s = {} THEN 0
                      ELSE LET x == CHOOSE x \in s : TRUE IN f[x] + iter[s \ {x}]]
  BY <1>2, Zenon
<1>4. Adds(f, SUBSET S, iter)
  BY <1>3, Zenon DEF Adds, Pick
<1> QED
  BY <1>1, <1>4, Zenon

\* A sum of natural numbers is one.
LEMMA SumIsNat ==
  ASSUME NEW f, IsFiniteSet(DOMAIN f), \A x \in DOMAIN f : f[x] \in Nat
  PROVE  SumOf(f) \in Nat
<1> DEFINE S == DOMAIN f
<1>1. PICK h : Adds(f, SUBSET S, h) /\ SumOf(f) = h[S]
  BY SumUnfold
<1> DEFINE Bad == {T \in SUBSET S : h[T] \notin Nat}
<1>2. SUFFICES ASSUME Bad # {} PROVE FALSE
  BY <1>1
<1>3. IsWellFoundedOn(StrictSubsetOrdering(S), SUBSET S)
  BY FS_StrictSubsetOrderingWellFounded, FS_FiniteSubsetsOfFinite
<1>4. Bad \subseteq SUBSET S
  OBVIOUS
<1> HIDE DEF Bad
<1>5. PICK T \in Bad : \A V \in Bad : ~(<<V, T>> \in StrictSubsetOrdering(S))
  BY <1>2, <1>3, <1>4, WFMin
<1>6. T \in SUBSET S /\ h[T] \notin Nat
  BY <1>5 DEF Bad
<1>7. h[T] = IF T = {} THEN 0 ELSE f[Pick(T)] + h[T \ {Pick(T)}]
  <2> DEFINE D == SUBSET S
  <2>1. Adds(f, D, h)
    BY <1>1
  <2>2. T \in D
    BY <1>6
  <2> HIDE DEF D
  <2> QED
    BY <2>1, <2>2, AddsEach
<1>8. T # {} /\ Pick(T) \in T /\ f[Pick(T)] \in Nat
  BY <1>6, <1>7, PickIn
<1> DEFINE V == T \ {Pick(T)}
<1>9. V \in SUBSET S /\ <<V, T>> \in StrictSubsetOrdering(S)
  BY <1>6, <1>8 DEF StrictSubsetOrdering
<1>10. h[V] \in Nat
  BY <1>5, <1>9 DEF Bad
<1> QED
  BY <1>6, <1>7, <1>8, <1>10

-----------------------------------------------------------------------------
(* How the ICP is divided.                                                  *)

LEMMA MonusNat == \A a, b \in Int : Monus(a, b) \in Nat /\ Monus(a, b) >= a - b
  BY DEF Monus

LEMMA DivNat == \A a \in Nat, b \in Nat \ {0} : a \div b \in Nat
  OBVIOUS

LEMMA ProductNat == \A a, b \in Nat : a * b \in Nat
  OBVIOUS

LEMMA CeilDivNat ==
  ASSUME NEW n \in Nat, NEW d \in Nat \ {0}
  PROVE  CeilDiv(n, d) \in Nat /\ CeilDiv(n, d) * d >= n
<1>1. n + d - 1 \in Nat
  OBVIOUS
<1>2. CeilDiv(n, d) \in Nat
  BY <1>1, DivNat DEF CeilDiv
<1> DEFINE q == CeilDiv(n, d)
<1>3. n + d - 1 = d * q + ((n + d - 1) % d) /\ (n + d - 1) % d \in 0 .. d - 1
  BY <1>1 DEF CeilDiv
<1> HIDE DEF q
<1>4. q \in Nat /\ d * q = q * d /\ d * q \in Nat
  BY <1>2 DEF q
<1>5. q * d >= n
  BY <1>3, <1>4
<1> QED
  BY <1>2, <1>5 DEF q

\* Headroom never makes less of a burn.
LEMMA HeadroomCovers ==
  ASSUME NEW b \in Nat
  PROVE  /\ CeilDiv(b * HeadroomNum, HeadroomDen) \in Nat
         /\ CeilDiv(b * HeadroomNum, HeadroomDen) >= b
<1> DEFINE n == b * HeadroomNum
           q == CeilDiv(n, HeadroomDen)
<1>1. HeadroomNum \in Nat /\ HeadroomDen \in Nat \ {0} /\ HeadroomNum >= HeadroomDen
  BY AllocationAssumption
<1>2. n \in Nat /\ n >= b * HeadroomDen
  BY <1>1
<1>3. q \in Nat /\ q * HeadroomDen >= n
  BY <1>1, <1>2, CeilDivNat
<1> HIDE DEF n, q
<1>4. q * HeadroomDen >= b * HeadroomDen
  BY <1>1, <1>2, <1>3
<1>5. q >= b
  <2>1. SUFFICES ASSUME q < b PROVE FALSE
    BY <1>3
  <2>2. q + 1 <= b
    BY <1>3, <2>1
  <2>3. (q + 1) * HeadroomDen <= b * HeadroomDen
    BY <1>1, <1>3, <2>2
  <2>4. (q + 1) * HeadroomDen = q * HeadroomDen + HeadroomDen
    BY <1>1, <1>3
  <2> QED
    BY <1>1, <1>3, <1>4, <2>3, <2>4
<1> QED
  BY <1>3, <1>5 DEF n, q

\* What a target needs makes up for what the sample forgets.
LEMMA NeedCovers ==
  ASSUME NEW raw \in BOOLEAN, NEW b \in Int, NEW s \in Nat, NEW c \in Int, NEW d \in Nat
  PROVE  /\ TargetTopup(raw, ComputeBurn(b, s, c), d) \in Nat
         /\ c + TargetTopup(raw, ComputeBurn(b, s, c), d) >= b + s + d
<1> DEFINE burn == ComputeBurn(b, s, c)
           up == IF raw THEN CeilDiv(burn * HeadroomNum, HeadroomDen) ELSE burn
<1>1. burn \in Nat /\ burn >= b + s - c
  BY MonusNat DEF ComputeBurn
<1>2. up \in Nat /\ up >= burn
  BY <1>1, HeadroomCovers
<1>3. TargetTopup(raw, burn, d) = d + up
  BY DEF TargetTopup
<1> HIDE DEF burn, up
<1> QED
  BY <1>1, <1>2, <1>3 DEF burn

LEMMA DesiredNat ==
  ASSUME NEW D, NEW need \in [D -> Nat], NEW f \in Nat, NEW rate \in Nat \ {0}
  PROVE  Desired(need, f, rate) \in [D -> Nat]
<1>1. \A i \in D : CeilDiv(need[i], rate) \in Nat
  BY CeilDivNat
<1> QED
  BY <1>1 DEF Desired

LEMMA ProportionalNat ==
  ASSUME NEW D, IsFiniteSet(D), NEW want \in [D -> Nat], NEW bal \in Nat, SumOf(want) # 0
  PROVE  Proportional(want, bal) \in [D -> Nat]
<1> DEFINE total == SumOf(want)
           floor == [i \in D |-> (bal * want[i]) \div total]
<1>1. total \in Nat \ {0}
  BY SumIsNat
<1>2. \A i \in D : (bal * want[i]) \div total \in Nat
  <2> TAKE i \in D
  <2>1. bal * want[i] \in Nat
    BY ProductNat
  <2> HIDE DEF total
  <2> QED
    BY <1>1, <2>1, DivNat
<1> DEFINE W == Proportional(want, bal)
<1>3. /\ W = [i \in D |-> W[i]]
      /\ \A i \in D : W[i] = floor[i] + 1 \/ W[i] = floor[i]
  BY Zenon DEF Proportional
<1>4. \A i \in D : floor[i] \in Nat
  BY <1>2
<1> HIDE DEF W, floor
<1>5. \A i \in D : W[i] \in Nat
  BY <1>3, <1>4
<1>6. W \in [D -> Nat]
  BY <1>3, <1>5
<1> QED
  BY <1>6 DEF W

\* Both plans give every need a share and an amount.
LEMMA PlanNat ==
  ASSUME NEW D, IsFiniteSet(D), NEW need \in [D -> Nat], NEW bal \in Nat, NEW f \in Nat,
         NEW rate \in Nat \ {0}
  PROVE  \A i \in D : /\ AllocationPlan(need, bal, f, rate).gross[i] \in Nat
                      /\ AllocationPlan(need, bal, f, rate).amount[i] \in Nat
                      /\ SpendAllPlan(need, bal, f).gross[i] \in Nat
                      /\ SpendAllPlan(need, bal, f).amount[i] \in Nat
<1> DEFINE want == Desired(need, f, rate)
           share == IF SumOf(want) <= bal THEN want ELSE Proportional(want, bal)
           gross == [i \in D |-> IF share[i] > f THEN share[i] ELSE 0]
           total == SumOf(need)
           part == [i \in D |-> IF total = 0 THEN 0 ELSE (bal * need[i]) \div total]
<1>1. want \in [D -> Nat]
  BY DesiredNat
<1>2. SumOf(want) \in Nat /\ total \in Nat
  BY <1>1, SumIsNat
<1>3. share \in [D -> Nat]
  <2> HIDE DEF want
  <2>1. CASE SumOf(want) <= bal
    BY <1>1, <2>1
  <2>2. CASE ~(SumOf(want) <= bal)
    <3>1. SumOf(want) # 0
      BY <1>2, <2>2
    <3> QED
      BY <1>1, <2>2, <3>1, ProportionalNat
  <2> QED
    BY <2>1, <2>2
<1>4. gross \in [D -> Nat]
  <2> HIDE DEF share
  <2> QED
    BY <1>3
<1>5. part \in [D -> Nat]
  <2>1. \A i \in D : bal * need[i] \in Nat
    BY ProductNat
  <2> HIDE DEF total
  <2>2. \A i \in D : total # 0 => (bal * need[i]) \div total \in Nat
    BY <1>2, <2>1, DivNat
  <2> QED
    BY <2>2
<1>6. AllocationPlan(need, bal, f, rate).gross = gross
  BY DEF AllocationPlan
<1>7. AllocationPlan(need, bal, f, rate).amount = [i \in D |-> Monus(gross[i], f)]
  BY DEF AllocationPlan
<1>8. SpendAllPlan(need, bal, f).gross = part
  BY DEF SpendAllPlan
<1>9. SpendAllPlan(need, bal, f).amount
        = [i \in D |-> IF part[i] < 2 * f \/ part[i] <= f THEN 0 ELSE part[i] - f]
  BY DEF SpendAllPlan
<1> HIDE DEF gross, part
<1> TAKE i \in D
<1>10. gross[i] \in Nat /\ part[i] \in Nat
  BY <1>4, <1>5
<1>11. Monus(gross[i], f) \in Nat
  <2>1. gross[i] \in Int /\ f \in Int
    BY <1>10
  <2> QED
    BY <2>1, MonusNat
<1>12. (IF part[i] < 2 * f \/ part[i] <= f THEN 0 ELSE part[i] - f) \in Nat
  BY <1>10
<1> QED
  BY <1>6, <1>7, <1>8, <1>9, <1>10, <1>11, <1>12

LEMMA ShareNat ==
  ASSUME NEW n \in Nat \ {0}, NEW bal \in Nat, NEW f \in Nat
  PROVE  SurplusShare(n, bal, f).gross \in Nat /\ SurplusShare(n, bal, f).amount \in Nat
<1>1. bal \div n \in Nat
  BY DivNat
<1> QED
  BY <1>1, AllocationAssumption DEF SurplusShare

-----------------------------------------------------------------------------
(* The job, and what the steps make of it.                                  *)

LEMMA Fields ==
  ASSUME NEW j, IsJob(j)
  PROVE  /\ j.id \in Nat /\ j.fee \in Nat /\ j.bal \in Nat /\ j.seen \in Samples
         /\ j.next \in Nat /\ j.surplus \in Seq(Share) /\ j.snext \in Nat
         /\ j.planned \in BOOLEAN /\ j.pending \in Txs \cup {None} /\ j.dirty \in BOOLEAN
         /\ DOMAIN j.items \subseteq DOMAIN Targets
         /\ \A i \in DOMAIN j.items : j.items[i] \in Item
  BY DEF IsJob, Jobs

\* Job k is job j with other items, indices, shares or flags.
Built(k, j, its, nx, sh, snx, pl, pd, di) ==
  /\ k.id = j.id /\ k.fee = j.fee /\ k.bal = j.bal /\ k.seen = j.seen
  /\ k.items = its /\ k.next = nx /\ k.surplus = sh /\ k.snext = snx
  /\ k.planned = pl /\ k.pending = pd /\ k.dirty = di

LEMMA AcceptedIs ==
  ASSUME NEW j, IsJob(j), j.pending \in Txs
  PROVE  /\ Built(Accepted(j), j, j.items, j.next, j.surplus, j.snext, j.planned,
                  [j.pending EXCEPT !.accepted = TRUE], j.dirty)
         /\ IsJob(Accepted(j))
  BY DEF IsJob, Jobs, Built, Accepted, Txs

LEMMA CompletedIs ==
  ASSUME NEW j, IsJob(j)
  PROVE  /\ Built(Completed(j), j, j.items, j.next, j.surplus, j.snext, j.planned,
                  None, j.dirty)
         /\ IsJob(Completed(j))
  BY DEF IsJob, Jobs, Built, Completed

LEMMA UncleanIs ==
  ASSUME NEW j, IsJob(j)
  PROVE  /\ Built(Unclean(j), j, j.items, j.next, j.surplus, j.snext, j.planned,
                  None, TRUE)
         /\ IsJob(Unclean(j))
  BY DEF IsJob, Jobs, Built, Unclean

LEMMA ReplannedIs ==
  ASSUME NEW j, IsJob(j), NEW sh \in Seq(Share), NEW pl \in BOOLEAN, NEW k,
         k = [j EXCEPT !.surplus = sh, !.snext = 1, !.planned = pl]
  PROVE  /\ Built(k, j, j.items, j.next, sh, 1, pl, j.pending, j.dirty)
         /\ IsJob(k)
<1>1. Built(k, j, j.items, j.next, sh, 1, pl, j.pending, j.dirty)
  BY DEF IsJob, Jobs, Built
<1>2. IsJob(k)
  BY DEF IsJob, Jobs
<1> QED
  BY <1>1, <1>2

LEMMA DisabledIs ==
  ASSUME NEW j, IsJob(j)
  PROVE  /\ Built(Disabled(j), j, j.items, j.next, <<>>, 1, TRUE, j.pending, j.dirty)
         /\ IsJob(Disabled(j))
<1>1. <<>> \in Seq(Share) /\ TRUE \in BOOLEAN
  OBVIOUS
<1>2. Disabled(j) = [j EXCEPT !.surplus = <<>>, !.snext = 1, !.planned = TRUE]
  BY DEF Disabled
<1> QED
  BY <1>1, <1>2, ReplannedIs

LEMMA MintedIs ==
  ASSUME NEW j, IsJob(j), NEW i \in DOMAIN j.items, NEW m \in Nat
  PROVE  /\ Built(Minted(j, i, m), j, [j.items EXCEPT ![i].minted = @ + m], j.next,
                  j.surplus, j.snext, j.planned, None, j.dirty)
         /\ IsJob(Minted(j, i, m))
<1> DEFINE its == [j.items EXCEPT ![i].minted = @ + m]
<1>1. DOMAIN its = DOMAIN j.items
  OBVIOUS
<1>2. its \in [DOMAIN j.items -> Item]
  <2> DEFINE x == [j.items[i] EXCEPT !.minted = @ + m]
  <2>1. j.items[i] \in Item /\ j.items \in [DOMAIN j.items -> Item]
    BY DEF IsJob, Jobs
  <2>2. x \in Item
    BY <2>1 DEF Item
  <2>3. its = [j.items EXCEPT ![i] = x]
    OBVIOUS
  <2> HIDE DEF its, x
  <2> QED
    BY <2>1, <2>2, <2>3
<1>3. Minted(j, i, m) = [j EXCEPT !.pending = None, !.items = its]
  BY DEF Minted, IsJob, Jobs
<1> HIDE DEF its
<1>4. /\ Built(Minted(j, i, m), j, its, j.next, j.surplus, j.snext, j.planned, None, j.dirty)
      /\ IsJob(Minted(j, i, m))
  BY <1>1, <1>2, <1>3 DEF IsJob, Jobs, Built
<1> QED
  BY <1>4 DEF its

LEMMA NextTopupIs ==
  ASSUME NEW j, IsJob(j), NEW nx \in Nat, NEW x \in Txs, NEW k,
         k = [j EXCEPT !.next = nx, !.pending = x]
  PROVE  /\ Built(k, j, j.items, nx, j.surplus, j.snext, j.planned, x, j.dirty)
         /\ IsJob(k)
<1>1. Built(k, j, j.items, nx, j.surplus, j.snext, j.planned, x, j.dirty)
  BY DEF IsJob, Jobs, Built
<1>2. IsJob(k)
  BY DEF IsJob, Jobs
<1> QED
  BY <1>1, <1>2

LEMMA NextSurplusIs ==
  ASSUME NEW j, IsJob(j), NEW nx \in Nat, NEW sx \in Nat, NEW x \in Txs, NEW k,
         k = [j EXCEPT !.next = nx, !.snext = sx, !.pending = x]
  PROVE  /\ Built(k, j, j.items, nx, j.surplus, sx, j.planned, x, j.dirty)
         /\ IsJob(k)
<1>1. Built(k, j, j.items, nx, j.surplus, sx, j.planned, x, j.dirty)
  BY DEF IsJob, Jobs, Built
<1>2. IsJob(k)
  BY DEF IsJob, Jobs
<1> QED
  BY <1>1, <1>2

LEMMA NothingLeftIs ==
  ASSUME NEW j, IsJob(j), NEW nx \in Nat, NEW sx \in Nat, NEW k,
         k = [j EXCEPT !.next = nx, !.snext = sx]
  PROVE  /\ Built(k, j, j.items, nx, j.surplus, sx, j.planned, j.pending, j.dirty)
         /\ IsJob(k)
<1>1. Built(k, j, j.items, nx, j.surplus, sx, j.planned, j.pending, j.dirty)
  BY DEF IsJob, Jobs, Built
<1>2. IsJob(k)
  BY DEF IsJob, Jobs
<1> QED
  BY <1>1, <1>2

\* A transfer of an item or a share.
LEMMA TxIs ==
  ASSUME NEW id \in Nat, NEW kind \in Kinds, NEW i \in Nat \ {0},
         NEW item, item.t \in Accounts, item.gross \in Nat, item.amount \in Nat
  PROVE  /\ Tx(id, kind, i, item) \in Txs
         /\ Tx(id, kind, i, item).id = <<id, kind, i>>
         /\ ~Tx(id, kind, i, item).accepted
<1>1. <<id, kind, i>> \in Ids
  BY DEF Ids
<1> QED
  BY <1>1 DEF Tx, Txs

\* Job k is job j further on.
Follows(k, j) == k.id = j.id /\ k.next >= j.next /\ k.snext >= j.snext

\* What stays true of the books while a job is driven.
SameItems(k, j) == k.items = j.items /\ k.seen = j.seen

LEMMA DomainTargets == DOMAIN Targets = 1 .. Len(Targets) /\ Len(Targets) \in Nat
  BY JobAssumption

LEMMA EndNat == End \in Nat /\ End >= 1 /\ \A i \in DOMAIN Targets : i \in Nat \ {0} /\ i + 1 <= End
  BY DomainTargets DEF End

\* The first index that is still to be paid.
LEMMA FirstIs ==
  ASSUME NEW S \in SUBSET Nat, S # {}
  PROVE  First(S) \in S
<1>1. \E x \in S : \A y \in S : x <= y
  BY LeastExists
<1> QED
  BY <1>1 DEF First

\* A job that is done with, as to its transfers, keeps its invariant.
LEMMA CompletedOK ==
  ASSUME NEW j, IsJob(j), NEW nid, NEW mt, JobOK(j, nid, mt)
  PROVE  /\ JobOK(Completed(j), nid, mt) /\ JobOK(Unclean(j), nid, mt)
         /\ Follows(Completed(j), j) /\ Follows(Unclean(j), j)
         /\ SameItems(Completed(j), j) /\ SameItems(Unclean(j), j)
         /\ IsJob(Completed(j)) /\ IsJob(Unclean(j))
         /\ Completed(j).pending = None /\ Unclean(j).pending = None
<1>1. /\ Built(Completed(j), j, j.items, j.next, j.surplus, j.snext, j.planned, None, j.dirty)
      /\ IsJob(Completed(j))
  BY CompletedIs
<1>2. /\ Built(Unclean(j), j, j.items, j.next, j.surplus, j.snext, j.planned, None, TRUE)
      /\ IsJob(Unclean(j))
  BY UncleanIs
<1>3. j.next \in Nat /\ j.snext \in Nat
  BY Fields
<1>4. ASSUME NEW k, k.id = j.id, k.seen = j.seen, k.items = j.items, k.next = j.next,
             k.surplus = j.surplus, k.snext = j.snext, k.planned = j.planned,
             k.pending = None
      PROVE  JobOK(k, nid, mt) /\ Follows(k, j) /\ SameItems(k, j)
  BY <1>3, <1>4 DEF JobOK, ItemsOK, Follows, SameItems
<1>5. JobOK(Completed(j), nid, mt) /\ Follows(Completed(j), j) /\ SameItems(Completed(j), j)
  BY <1>1, <1>4 DEF Built
<1>6. JobOK(Unclean(j), nid, mt) /\ Follows(Unclean(j), j) /\ SameItems(Unclean(j), j)
  BY <1>2, <1>4 DEF Built
<1> QED
  BY <1>1, <1>2, <1>5, <1>6 DEF Built

LEMMA JobIsSome ==
  ASSUME NEW j, IsJob(j)
  PROVE  j # None
<1>1. j.items \in UNION {[D -> Item] : D \in SUBSET DOMAIN Targets}
  <2>1. j.items \in [DOMAIN j.items -> Item] /\ DOMAIN j.items \in SUBSET DOMAIN Targets
    BY DEF IsJob
  <2> QED
    BY <2>1
<1> DEFINE I == UNION {[D -> Item] : D \in SUBSET DOMAIN Targets}
<1>2. j.items \in I
  BY <1>1
<1>3. None \notin Jobs(I)
  BY NoneAssumption
<1> HIDE DEF I
<1>4. j \in Jobs(I)
  BY <1>2 DEF IsJob, Jobs
<1> QED
  BY <1>3, <1>4

-----------------------------------------------------------------------------
(* The books.                                                               *)

BookOf(j, b, s, d, t) ==
  LET mine == IF j = None THEN {} ELSE {i \in DOMAIN j.items : j.items[i].t = t}
  IN  IF mine = {} THEN b[t] + s[t] + d[t]
      ELSE LET i == CHOOSE k \in mine : TRUE
           IN  j.seen[t] + s[t] + Monus(j.items[i].need, j.items[i].minted)

LEMMA TargetAt == \A t \in Target : \E i \in DOMAIN Targets : Targets[i] = t
  BY DEF Target

LEMMA OneItem ==
  ASSUME NEW j, IsJob(j), NEW mt, ItemsOK(j, mt), NEW i \in DOMAIN j.items
  PROVE  /\ Targets[i] \in Target /\ j.seen[Targets[i]] >= 0
         /\ \A k \in DOMAIN j.items : j.items[k].t = Targets[i] <=> k = i
<1>1. DOMAIN j.items = Observed(j.seen) /\ \A k \in DOMAIN j.items : j.items[k].t = Targets[k]
  BY DEF ItemsOK
<1>2. i \in DOMAIN Targets /\ j.seen[Targets[i]] >= 0 /\ DOMAIN j.items \subseteq DOMAIN Targets
  BY <1>1 DEF Observed
<1>3. \A a, b \in DOMAIN Targets : Targets[a] = Targets[b] => a = b
  BY JobAssumption DEF IsInjective
<1> QED
  BY <1>1, <1>2, <1>3 DEF Target

\* The books of an observed target are the job's.
LEMMA BookOn ==
  ASSUME NEW j, IsJob(j), NEW mt, ItemsOK(j, mt), NEW i \in DOMAIN j.items,
         NEW b, NEW s, NEW d
  PROVE  BookOf(j, b, s, d, Targets[i])
           = j.seen[Targets[i]] + s[Targets[i]] + Monus(j.items[i].need, j.items[i].minted)
<1> DEFINE t == Targets[i]
           mine == {k \in DOMAIN j.items : j.items[k].t = t}
<1>1. mine = {i}
  BY OneItem
<1>2. (CHOOSE k \in mine : TRUE) = i /\ mine # {}
  BY <1>1
<1>3. j # None
  BY JobIsSome
<1> HIDE DEF t
<1>4. BookOf(j, b, s, d, t)
           = j.seen[t] + s[t] + Monus(j.items[i].need, j.items[i].minted)
  BY <1>2, <1>3, Zenon DEF BookOf
<1> QED
  BY <1>4 DEF t

InItem(j, i, b, s, d) ==
  BookOf(j, b, s, d, Targets[i])
    = j.seen[Targets[i]] + s[Targets[i]] + Monus(j.items[i].need, j.items[i].minted)

LEMMA BookInItem ==
  ASSUME NEW j, IsJob(j), NEW mt, ItemsOK(j, mt), NEW i \in DOMAIN j.items
  PROVE  \A b, s, d : InItem(j, i, b, s, d)
  BY BookOn, Zenon DEF InItem

\* Those of the others are in the samples.
LEMMA BookOff ==
  ASSUME NEW j, NEW t \in Target, NEW b, NEW s, NEW d, NEW mt,
         j = None \/ (IsJob(j) /\ ItemsOK(j, mt) /\ ~(j.seen[t] >= 0))
  PROVE  BookOf(j, b, s, d, t) = b[t] + s[t] + d[t]
<1>1. CASE j = None
  BY <1>1 DEF BookOf
<1>2. CASE IsJob(j) /\ ItemsOK(j, mt) /\ ~(j.seen[t] >= 0)
  <2>1. \A k \in DOMAIN j.items : j.items[k].t # t
    BY <1>2 DEF ItemsOK, Observed
  <2> QED
    BY <2>1 DEF BookOf
<1> QED
  BY <1>1, <1>2

\* Every target is observed, and then has an item, or is not.
LEMMA OnOrOff ==
  ASSUME NEW j, NEW mt, ItemsOK(j, mt), NEW t \in Target
  PROVE  ~(j.seen[t] >= 0) \/ \E i \in DOMAIN j.items : Targets[i] = t
  BY TargetAt DEF ItemsOK, Observed

LEMMA ItemFields ==
  ASSUME NEW j, IsJob(j), NEW i \in DOMAIN j.items
  PROVE  /\ j.items[i].need \in Nat /\ j.items[i].minted \in Nat
         /\ j.items[i].gross \in Nat /\ j.items[i].amount \in Nat
         /\ j.items[i].t \in Target
  BY Fields DEF Item

-----------------------------------------------------------------------------
(* How a driven activation goes on.                                         *)

\* It waits for the ledger or the CMC with the pending transfer of j, or with
\* one that nobody dispatched before.
Takes(a, j, nid) ==
  /\ a.tx \in Txs /\ a.reply = "none"
  /\ a.pc = (IF a.tx.accepted THEN "notify1" ELSE "send1")
  /\ Used(a.tx.id, job', nid)
  /\ a.tx = j.pending \/ (~a.tx.accepted /\ ~Used(a.tx.id, j, nid))

SameBooks(j) == \A s, t : t \in Target =>
                  BookOf(job', base', s, debt', t) = BookOf(j, base, s, debt, t)

Ends(p, j, nid) ==
  \E a \in Acts :
    /\ act' = [act EXCEPT ![p] = a]
    /\ lease' = lease \/ (lease = p /\ lease' = None)
    /\ a.pc = "resolve" => job' = None \/ job'.pending = None
    /\ job' # None => IsJob(job') /\ JobOK(job', nid, mint) /\ Follows(job', j)
    /\ a.pc \in {"idle", "resolve"} \/ Takes(a, j, nid)
    /\ base' \in Samples /\ debt' \in [Target -> Nat] /\ SameBooks(j)

Typed == act \in [Proc -> Acts] /\ base \in Samples /\ debt \in [Target -> Nat]

LEMMA IdleIs == Idle \in Acts /\ Idle.pc = "idle" /\ Idle.reply = "none"
  BY DEF Idle, Acts, Sends, Asks

LEMMA FinishIs ==
  ASSUME NEW p \in Proc, Finish(p)
  PROVE  act' = [act EXCEPT ![p] = Idle] /\ (lease' = lease \/ (lease = p /\ lease' = None))
  BY DEF Finish

LEMMA SameItemsBooks ==
  ASSUME NEW j, NEW k, IsJob(j), IsJob(k), SameItems(k, j)
  PROVE  \A b, s, d, t : BookOf(k, b, s, d, t) = BookOf(j, b, s, d, t)
<1>1. j # None /\ k # None
  BY JobIsSome
<1> QED
  BY <1>1 DEF BookOf, SameItems

LEMMA FollowsItself == \A j : IsJob(j) => Follows(j, j) /\ SameItems(j, j)
<1> TAKE j
<1> HAVE IsJob(j)
<1>1. j.next \in Nat /\ j.snext \in Nat
  BY Fields
<1> QED
  BY <1>1 DEF Follows, SameItems

LEMMA KeptBooks ==
  ASSUME NEW j, NEW k, IsJob(j), IsJob(k), SameItems(k, j), job' = k, KeepSamples
  PROVE  SameBooks(j)
<1>1. base' = base /\ debt' = debt
  BY DEF KeepSamples
<1>2. \A b, s, d, t : BookOf(k, b, s, d, t) = BookOf(j, b, s, d, t)
  BY SameItemsBooks
<1> QED
  BY <1>1, <1>2 DEF SameBooks

LEMMA StopEnds ==
  ASSUME NEW p \in Proc, NEW j, IsJob(j), NEW nid, JobOK(j, nid, mint), Typed,
         job' = j, KeepSamples, Finish(p)
  PROVE  Ends(p, j, nid)
<1>1. Follows(j, j) /\ SameItems(j, j)
  BY FollowsItself
<1>2. SameBooks(j)
  BY <1>1, KeptBooks
<1>3. base' \in Samples /\ debt' \in [Target -> Nat]
  BY DEF Typed, KeepSamples
<1> QED
  BY <1>1, <1>2, <1>3, IdleIs, FinishIs DEF Ends

LEMMA ResolveEnds ==
  ASSUME NEW p \in Proc, NEW j, NEW k, IsJob(j), IsJob(k), NEW nid, JobOK(k, nid, mint),
         Typed, NEW n \in Nat,
         Follows(k, j), SameItems(k, j), k.pending = None, job' = k, KeepSamples,
         Wait(p, [act[p] EXCEPT !.pc = "resolve", !.id = k.id, !.n = n,
                     !.seen = None, !.tx = None, !.reply = "none"])
  PROVE  Ends(p, j, nid)
<1> DEFINE a == [act[p] EXCEPT !.pc = "resolve", !.id = k.id, !.n = n,
                     !.seen = None, !.tx = None, !.reply = "none"]
<1>1. act[p] \in Acts /\ k.id \in Nat
  BY Fields DEF Typed
<1>2. a \in Acts /\ a.pc = "resolve"
  BY <1>1 DEF Acts, Sends, Asks
<1>3. act' = [act EXCEPT ![p] = a] /\ lease' = lease
  BY DEF Wait
<1>4. SameBooks(j)
  BY KeptBooks
<1>5. base' \in Samples /\ debt' \in [Target -> Nat]
  BY DEF Typed, KeepSamples
<1> HIDE DEF a
<1> QED
  BY <1>2, <1>3, <1>4, <1>5 DEF Ends

\* The pending transfer of a job is one of its used identities.
LEMMA PendingUsed ==
  ASSUME NEW j, IsJob(j), NEW nid, NEW mt, JobOK(j, nid, mt), j.pending # None
  PROVE  j.pending \in Txs /\ Used(j.pending.id, j, nid)
  BY Fields DEF JobOK, PendingOK, Used

LEMMA DispatchEnds ==
  ASSUME NEW p \in Proc, NEW j, NEW k, IsJob(j), IsJob(k), NEW nid, JobOK(k, nid, mint),
         Typed, NEW n \in Nat, Follows(k, j), SameItems(k, j), k.pending # None,
         k.pending = j.pending \/ (~k.pending.accepted /\ ~Used(k.pending.id, j, nid)),
         Dispatch(p, k, n)
  PROVE  Ends(p, j, nid)
<1> DEFINE c == IF k.pending.accepted THEN "notify1" ELSE "send1"
           x == k.pending
           a == [act[p] EXCEPT !.pc = c, !.id = k.id, !.tx = x, !.n = n, !.seen = None,
                   !.reply = "none"]
<1>1. act[p] \in Acts /\ k.id \in Nat
  BY Fields DEF Typed
<1>2. x \in Txs /\ Used(x.id, k, nid)
  BY PendingUsed
<1>3. act' = [act EXCEPT ![p] = a] /\ lease' = lease /\ job' = k /\ KeepSamples
  BY DEF Dispatch, Wait
<1>4. c \in Sends \cup Asks /\ c # "resolve"
  BY DEF Sends, Asks
<1>5. c = IF x.accepted THEN "notify1" ELSE "send1"
  OBVIOUS
<1> HIDE DEF c, x
<1>6. a \in Acts /\ a.pc = c /\ a.tx = x /\ a.reply = "none"
  BY <1>1, <1>2, <1>4 DEF Acts, Sends, Asks
<1>7. SameBooks(j)
  BY <1>3, KeptBooks
<1>8. base' \in Samples /\ debt' \in [Target -> Nat]
  BY <1>3 DEF Typed, KeepSamples
<1> HIDE DEF a
<1>9. Takes(a, j, nid)
  BY <1>2, <1>3, <1>5, <1>6 DEF Takes, x
<1> QED
  BY <1>3, <1>4, <1>6, <1>7, <1>8, <1>9 DEF Ends

\* What complete_job writes down is what the job held.
LEMMA CompleteEnds ==
  ASSUME NEW p \in Proc, NEW j, NEW k, IsJob(j), IsJob(k), NEW nid, NEW mt, ItemsOK(j, mt),
         SameItems(k, j), Typed, CompleteJob(p, k)
  PROVE  Ends(p, j, nid)
<1> DEFINE newDebt(t) ==
       IF \E i \in DOMAIN k.items : k.items[i].t = t
       THEN LET i == CHOOSE m \in DOMAIN k.items : k.items[m].t = t
            IN  Monus(k.items[i].need, k.items[i].minted)
       ELSE debt[t]
<1>1. /\ job' = None /\ Finish(p)
      /\ base' = [t \in Target |-> IF k.seen[t] >= 0 THEN k.seen[t] ELSE base[t]]
      /\ debt' = [t \in Target |-> newDebt(t)]
  BY DEF CompleteJob
<1>2. k.items = j.items /\ k.seen = j.seen /\ j.seen \in [Target -> Int]
  BY Fields DEF SameItems, Samples
<1>3. ASSUME NEW i \in DOMAIN j.items
      PROVE  newDebt(Targets[i]) = Monus(j.items[i].need, j.items[i].minted)
  <2> DEFINE t == Targets[i]
  <2>1. \A m \in DOMAIN j.items : j.items[m].t = t <=> m = i
    BY OneItem
  <2> HIDE DEF t
  <2>2. (CHOOSE m \in DOMAIN k.items : k.items[m].t = t) = i
    BY <1>2, <2>1
  <2>3. \E m \in DOMAIN k.items : k.items[m].t = t
    BY <1>2, <2>1
  <2> QED
    BY <1>2, <2>2, <2>3 DEF t
<1>4. ASSUME NEW t \in Target, ~(j.seen[t] >= 0)
      PROVE  newDebt(t) = debt[t]
  <2>0. \A i \in DOMAIN j.items : j.items[i].t # t
    <3>1. \A i \in DOMAIN j.items : j.items[i].t = Targets[i] /\ j.seen[Targets[i]] >= 0
      BY DEF ItemsOK, Observed
    <3> QED
      BY <1>4, <3>1
  <2>1. \A i \in DOMAIN k.items : k.items[i].t # t
    BY <1>2, <2>0
  <2>2. ~\E i \in DOMAIN k.items : k.items[i].t = t
    BY <2>1
  <2> QED
    BY <2>2, Zenon
<1> HIDE DEF newDebt
<1>5. base' \in Samples
  BY <1>1, <1>2 DEF Typed, Samples
<1>6. \A t \in Target : newDebt(t) \in Nat
  <2> TAKE t \in Target
  <2>1. CASE ~(j.seen[t] >= 0)
    BY <1>4, <2>1 DEF Typed
  <2>2. CASE \E i \in DOMAIN j.items : Targets[i] = t
    <3>1. PICK i \in DOMAIN j.items : Targets[i] = t
      BY <2>2
    <3>2. j.items[i].need \in Int /\ j.items[i].minted \in Int
      BY ItemFields
    <3> QED
      BY <1>3, <3>1, <3>2, MonusNat
  <2> QED
    BY <2>1, <2>2, OnOrOff
<1>7. debt' \in [Target -> Nat]
  BY <1>1, <1>6
<1>8. SameBooks(j)
  <2> SUFFICES ASSUME NEW s, NEW t \in Target
               PROVE  BookOf(job', base', s, debt', t) = BookOf(j, base, s, debt, t)
    BY DEF SameBooks
  <2>1. BookOf(job', base', s, debt', t) = base'[t] + s[t] + debt'[t]
    BY <1>1 DEF BookOf
  <2>2. CASE ~(j.seen[t] >= 0)
    <3>1. BookOf(j, base, s, debt, t) = base[t] + s[t] + debt[t]
      BY <2>2, BookOff
    <3>2. base'[t] = base[t] /\ debt'[t] = debt[t]
      BY <1>1, <1>2, <1>4, <2>2
    <3> QED
      BY <2>1, <3>1, <3>2
  <2>3. CASE \E i \in DOMAIN j.items : Targets[i] = t
    <3>1. PICK i \in DOMAIN j.items : Targets[i] = t
      BY <2>3
    <3>2. BookOf(j, base, s, debt, t)
            = j.seen[t] + s[t] + Monus(j.items[i].need, j.items[i].minted)
      BY <3>1, BookOn
    <3>3. j.seen[t] >= 0
      BY <3>1, OneItem
    <3>4. base'[t] = j.seen[t] /\ debt'[t] = Monus(j.items[i].need, j.items[i].minted)
      BY <1>1, <1>2, <1>3, <3>1, <3>3
    <3> QED
      BY <2>1, <3>2, <3>4
  <2> QED
    BY <2>2, <2>3, OnOrOff
<1> QED
  BY <1>1, <1>5, <1>7, <1>8, IdleIs, FinishIs DEF Ends

LEMMA PlanSurplusEnds ==
  ASSUME NEW p \in Proc, NEW j, NEW k, IsJob(j), IsJob(k), NEW nid, JobOK(k, nid, mint),
         JobOK(j, nid, mint), Typed, NEW n \in Nat, Follows(k, j), SameItems(k, j),
         k.pending = None, PlanSurplus(p, k, n)
  PROVE  Ends(p, j, nid)
<1>1. CASE SurplusAllowed(k)
  <2>1. /\ job' = k /\ KeepSamples
        /\ Wait(p, [act[p] EXCEPT !.pc = "resolve", !.id = k.id, !.n = n,
                     !.seen = None, !.tx = None, !.reply = "none"])
    BY <1>1 DEF PlanSurplus
  <2> QED
    BY <2>1, ResolveEnds
<1>2. CASE ~SurplusAllowed(k)
  <2>1. CompleteJob(p, Disabled(k))
    BY <1>2 DEF PlanSurplus
  <2>2. /\ Built(Disabled(k), k, k.items, k.next, <<>>, 1, TRUE, k.pending, k.dirty)
        /\ IsJob(Disabled(k))
    BY DisabledIs
  <2>3. SameItems(Disabled(k), j)
    BY <2>2 DEF SameItems, Built
  <2>4. ItemsOK(j, mint)
    BY DEF JobOK
  <2> QED
    BY <2>1, <2>2, <2>3, <2>4, CompleteEnds
<1> QED
  BY <1>1, <1>2

\* A job whose transfers are all dispatched.
LEMMA NothingLeft ==
  ASSUME NEW j, IsJob(j), NEW nid, JobOK(j, nid, mint), j.pending = None, NEW k,
         k = [j EXCEPT !.next = End, !.snext = Len(j.surplus) + 1]
  PROVE  /\ IsJob(k) /\ JobOK(k, nid, mint) /\ Follows(k, j) /\ SameItems(k, j)
         /\ k.pending = None
<1>1. Len(j.surplus) \in Nat /\ j.next \in Nat /\ j.snext \in Nat
  BY Fields
<1>2. End \in Nat /\ End >= 1
  BY EndNat
<1>3. /\ Built(k, j, j.items, End, j.surplus, Len(j.surplus) + 1, j.planned, j.pending, j.dirty)
      /\ IsJob(k)
  <2>1. Len(j.surplus) + 1 \in Nat
    BY <1>1
  <2> QED
    BY <1>2, <2>1, NothingLeftIs
<1>4. j.next <= End /\ j.snext <= Len(j.surplus) + 1
  BY <1>1, <1>2 DEF JobOK
<1>5. Follows(k, j) /\ SameItems(k, j) /\ k.pending = None
  BY <1>1, <1>2, <1>3, <1>4 DEF Built, Follows, SameItems
<1>6. ItemsOK(k, mint)
  <2>1. \A i \in DOMAIN j.items : i \in DOMAIN Targets
    BY Fields
  <2>2. \A i \in DOMAIN j.items : ~(i >= End)
    BY <1>2, <2>1, EndNat
  <2> QED
    BY <1>3, <2>2 DEF Built, ItemsOK, JobOK
<1>7. ~k.planned => Raw /\ k.surplus = <<>> /\ k.snext = 1
  <2>1. Len(<<>>) = 0
    OBVIOUS
  <2> QED
    BY <1>3, <2>1 DEF JobOK, Built
<1>8. k.id < nid /\ k.next \in 1 .. End /\ k.snext \in 1 .. Len(k.surplus) + 1
  BY <1>1, <1>2, <1>3 DEF Built, JobOK
<1> QED
  BY <1>3, <1>5, <1>6, <1>7, <1>8 DEF JobOK

LEMMA NextTopup ==
  ASSUME NEW j, IsJob(j), NEW nid, JobOK(j, nid, mint), NEW i \in Payable(j.items, j.next),
         NEW k, k = [j EXCEPT !.next = i + 1, !.pending = Tx(j.id, "topup", i, j.items[i])]
  PROVE  /\ IsJob(k) /\ JobOK(k, nid, mint) /\ Follows(k, j) /\ SameItems(k, j)
         /\ k.pending # None /\ ~k.pending.accepted /\ ~Used(k.pending.id, j, nid)
<1> DEFINE x == Tx(j.id, "topup", i, j.items[i])
<1>1. i \in DOMAIN j.items /\ i \in DOMAIN Targets /\ i >= j.next
  BY Fields DEF Payable
<1>2. i \in Nat \ {0} /\ i + 1 <= End /\ i + 1 \in Nat /\ End \in Nat
  BY <1>1, EndNat
<1>3. x \in Txs /\ x.id = <<j.id, "topup", i>> /\ ~x.accepted
  <2>1. j.id \in Nat /\ "topup" \in Kinds
    BY Fields DEF Kinds
  <2>2. /\ j.items[i].t \in Accounts /\ j.items[i].gross \in Nat
        /\ j.items[i].amount \in Nat
    BY <1>1, ItemFields DEF Accounts
  <2> QED
    BY <1>2, <2>1, <2>2, TxIs
<1> HIDE DEF x
<1>4. /\ Built(k, j, j.items, i + 1, j.surplus, j.snext, j.planned, x, j.dirty)
      /\ IsJob(k)
  <2>1. k = [j EXCEPT !.next = i + 1, !.pending = x]
    BY DEF x
  <2> QED
    BY <1>2, <1>3, <2>1, NextTopupIs
<1>5. j.next \in Nat /\ j.snext \in Nat /\ j.id \in Nat
  BY Fields
<1>6. Follows(k, j) /\ SameItems(k, j)
  BY <1>1, <1>2, <1>4, <1>5 DEF Built, Follows, SameItems
<1>7. k.pending = x /\ x # None
  BY <1>3, <1>4, NoneAssumption DEF Built
<1>8. ~Used(x.id, j, nid)
  <2>1. j # None
    BY JobIsSome
  <2> QED
    BY <1>1, <1>2, <1>3, <1>5, <2>1 DEF Used
<1>9. ItemsOK(k, mint)
  <2>1. \A m \in DOMAIN j.items : m \in Nat
    BY Fields, EndNat
  <2>2. \A m \in DOMAIN j.items : m >= i + 1 => m >= j.next
    BY <1>1, <1>2, <1>5, <2>1
  <2> QED
    BY <1>4, <2>2 DEF ItemsOK, Built, JobOK
<1>10. PendingOK(k)
  <2>1. j.items[i].minted = 0
    BY <1>1 DEF JobOK, ItemsOK
  <2>2. i < i + 1
    BY <1>2
  <2> QED
    BY <1>1, <1>3, <1>4, <2>1, <2>2 DEF PendingOK, Built
<1>11. JobOK(k, nid, mint)
  <2>1. k.next \in 1 .. End
    BY <1>2, <1>4 DEF Built
  <2> QED
    BY <1>4, <1>9, <1>10, <2>1 DEF JobOK, Built
<1> QED
  BY <1>3, <1>4, <1>6, <1>7, <1>8, <1>11

LEMMA NextSurplus ==
  ASSUME NEW j, IsJob(j), NEW nid, JobOK(j, nid, mint),
         NEW i \in Payable(j.surplus, j.snext), SurplusAllowed(j), NEW k,
         k = [j EXCEPT !.next = End, !.snext = i + 1,
                       !.pending = Tx(j.id, "surplus", i, j.surplus[i])]
  PROVE  /\ IsJob(k) /\ JobOK(k, nid, mint) /\ Follows(k, j) /\ SameItems(k, j)
         /\ k.pending # None /\ ~k.pending.accepted /\ ~Used(k.pending.id, j, nid)
<1> DEFINE x == Tx(j.id, "surplus", i, j.surplus[i])
<1>1. /\ j.next \in Nat /\ j.snext \in Nat /\ j.id \in Nat
      /\ j.surplus \in Seq(Share)
  BY Fields
<1>2. i \in 1 .. Len(j.surplus) /\ i >= j.snext /\ j.surplus[i] \in Share
  BY <1>1 DEF Payable
<1>3. i \in Nat \ {0} /\ i + 1 \in Nat /\ End \in Nat /\ End >= 1 /\ Len(j.surplus) \in Nat
  BY <1>1, <1>2, EndNat
<1>4. x \in Txs /\ x.id = <<j.id, "surplus", i>> /\ ~x.accepted
  <2>1. "surplus" \in Kinds
    BY DEF Kinds
  <2>2. /\ j.surplus[i].t \in Accounts /\ j.surplus[i].gross \in Nat
        /\ j.surplus[i].amount \in Nat
    BY <1>2 DEF Share
  <2> QED
    BY <1>1, <1>3, <2>1, <2>2, TxIs, SMTT(30)
<1> HIDE DEF x
<1>5. /\ Built(k, j, j.items, End, j.surplus, i + 1, j.planned, x, j.dirty)
      /\ IsJob(k)
  <2>1. k = [j EXCEPT !.next = End, !.snext = i + 1, !.pending = x]
    BY DEF x
  <2> QED
    BY <1>3, <1>4, <2>1, NextSurplusIs
<1>6. Follows(k, j) /\ SameItems(k, j)
  <2>1. j.next <= End
    BY <1>1, <1>3 DEF JobOK
  <2> QED
    BY <1>1, <1>2, <1>3, <1>5, <2>1 DEF Built, Follows, SameItems
<1>7. k.pending = x /\ x # None
  BY <1>4, <1>5, NoneAssumption DEF Built
<1>8. ~Used(x.id, j, nid)
  <2>1. j # None
    BY JobIsSome
  <2> QED
    BY <1>1, <1>2, <1>3, <1>4, <2>1 DEF Used
<1>9. ItemsOK(k, mint)
  <2>1. \A m \in DOMAIN j.items : ~(m >= End)
    <3>1. \A m \in DOMAIN j.items : m \in DOMAIN Targets
      BY Fields
    <3> QED
      BY <1>3, <3>1, EndNat
  <2> QED
    BY <1>5, <2>1 DEF ItemsOK, Built, JobOK
<1>10. PendingOK(k)
  <2>1. i < i + 1
    BY <1>3
  <2>2. \A m \in DOMAIN j.items : j.items[m].minted >= j.items[m].need
    BY DEF SurplusAllowed
  <2>3. ~k.pending.accepted /\ k.pending.id[1] = k.id /\ k.pending.id[2] = "surplus"
        /\ k.pending.id[3] = i
    BY <1>4, <1>5 DEF Built
  <2> QED
    BY <1>5, <2>1, <2>2, <2>3 DEF PendingOK, Built
<1>11. JobOK(k, nid, mint)
  <2>1. k.next \in 1 .. End /\ k.snext \in 1 .. Len(k.surplus) + 1
    BY <1>1, <1>2, <1>3, <1>5 DEF Built
  <2>2. j.planned
    <3>1. Len(<<>>) = 0
      OBVIOUS
    <3>2. j.surplus # <<>>
      BY <1>2, <3>1
    <3> QED
      BY <3>2 DEF JobOK
  <2> QED
    BY <1>5, <1>9, <1>10, <2>1, <2>2 DEF JobOK, Built
<1> QED
  BY <1>4, <1>5, <1>6, <1>7, <1>8, <1>11

LEMMA PlanNextEnds ==
  ASSUME NEW p \in Proc, NEW j, IsJob(j), NEW nid, JobOK(j, nid, mint), Typed,
         NEW n \in Nat, j.pending = None, PlanNext(p, j, n)
  PROVE  Ends(p, j, nid)
<1> DEFINE topups == Payable(j.items, j.next)
           surplus == Payable(j.surplus, j.snext)
           d == [j EXCEPT !.next = End, !.snext = Len(j.surplus) + 1]
           up == First(topups)
           pay == First(surplus)
           u == [j EXCEPT !.next = up + 1, !.pending = Tx(j.id, "topup", up, j.items[up])]
           v == [j EXCEPT !.next = End, !.snext = pay + 1,
                          !.pending = Tx(j.id, "surplus", pay, j.surplus[pay])]
<1>1. /\ topups \cup surplus = {} /\ d.planned => CompleteJob(p, d)
      /\ topups \cup surplus = {} /\ ~d.planned => PlanSurplus(p, d, n)
      /\ topups \cup surplus # {} /\ n >= MaxPerTick =>
           job' = j /\ KeepSamples /\ Finish(p)
      /\ topups # {} /\ ~(n >= MaxPerTick) => Dispatch(p, u, n + 1)
      /\ topups = {} /\ surplus # {} /\ ~(n >= MaxPerTick) /\ SurplusAllowed(j) =>
           Dispatch(p, v, n + 1)
      /\ topups = {} /\ surplus # {} /\ ~(n >= MaxPerTick) /\ ~SurplusAllowed(j) =>
           CompleteJob(p, Disabled(j))
  BY Zenon DEF PlanNext
<1>2. /\ IsJob(d) /\ JobOK(d, nid, mint) /\ Follows(d, j) /\ SameItems(d, j)
      /\ d.pending = None
  <2>1. d = [j EXCEPT !.next = End, !.snext = Len(j.surplus) + 1]
    OBVIOUS
  <2> HIDE DEF d
  <2> QED
    BY <2>1, NothingLeft
<1>3. ItemsOK(j, mint)
  BY DEF JobOK
<1>4. n + 1 \in Nat
  OBVIOUS
<1>5. topups \in SUBSET Nat /\ surplus \in SUBSET Nat
  BY Fields, EndNat DEF Payable
<1>6. topups # {} => up \in topups
  BY <1>5, FirstIs
<1>7. surplus # {} => pay \in surplus
  BY <1>5, FirstIs
<1>8. topups # {} =>
        /\ IsJob(u) /\ JobOK(u, nid, mint) /\ Follows(u, j) /\ SameItems(u, j)
        /\ u.pending # None /\ ~u.pending.accepted /\ ~Used(u.pending.id, j, nid)
  BY <1>6, NextTopup
<1>9. surplus # {} /\ SurplusAllowed(j) =>
        /\ IsJob(v) /\ JobOK(v, nid, mint) /\ Follows(v, j) /\ SameItems(v, j)
        /\ v.pending # None /\ ~v.pending.accepted /\ ~Used(v.pending.id, j, nid)
  BY <1>7, NextSurplus
<1>10. IsJob(Disabled(j)) /\ SameItems(Disabled(j), j)
  BY DisabledIs DEF Built, SameItems
<1> HIDE DEF topups, surplus, d, up, pay, u, v
<1>11. CASE topups \cup surplus = {} /\ d.planned
  BY <1>1, <1>2, <1>3, <1>11, CompleteEnds
<1>12. CASE topups \cup surplus = {} /\ ~d.planned
  BY <1>1, <1>2, <1>12, PlanSurplusEnds
<1>13. CASE topups \cup surplus # {} /\ n >= MaxPerTick
  BY <1>1, <1>13, StopEnds
<1>14. CASE topups # {} /\ ~(n >= MaxPerTick)
  BY <1>1, <1>4, <1>8, <1>14, DispatchEnds
<1>15. CASE topups = {} /\ surplus # {} /\ ~(n >= MaxPerTick) /\ SurplusAllowed(j)
  BY <1>1, <1>4, <1>9, <1>15, DispatchEnds
<1>16. CASE topups = {} /\ surplus # {} /\ ~(n >= MaxPerTick) /\ ~SurplusAllowed(j)
  BY <1>1, <1>3, <1>10, <1>16, CompleteEnds
<1> QED
  BY <1>11, <1>12, <1>13, <1>14, <1>15, <1>16

LEMMA DriveEnds ==
  ASSUME NEW p \in Proc, NEW j, IsJob(j), NEW nid, JobOK(j, nid, mint), Typed,
         NEW n \in Nat, Drive(p, j, n)
  PROVE  Ends(p, j, nid)
<1>1. Follows(j, j) /\ SameItems(j, j)
  BY FollowsItself
<1>2. CASE j.pending # None
  <2>1. Dispatch(p, j, n)
    BY <1>2 DEF Drive
  <2> QED
    BY <1>1, <1>2, <2>1, DispatchEnds
<1>3. CASE j.pending = None /\ TopupsDone(j) /\ ~j.planned
  <2>1. PlanSurplus(p, j, n)
    BY <1>3 DEF Drive
  <2> QED
    BY <1>1, <1>3, <2>1, PlanSurplusEnds
<1>4. CASE j.pending = None /\ ~(TopupsDone(j) /\ ~j.planned)
  <2>1. PlanNext(p, j, n)
    BY <1>4 DEF Drive
  <2> QED
    BY <1>4, <2>1, PlanNextEnds
<1> QED
  BY <1>2, <1>3, <1>4

LEMMA SettleEnds ==
  ASSUME NEW p \in Proc, NEW j, IsJob(j), NEW nid, JobOK(j, nid, mint), Typed, Settle(p, j)
  PROVE  Ends(p, j, nid)
<1>1. act[p].n \in Nat
  BY DEF Typed, Acts
<1>2. CASE Holds(p)
  BY <1>1, <1>2, DriveEnds DEF Settle
<1>3. CASE ~Holds(p)
  BY <1>3, StopEnds DEF Settle
<1> QED
  BY <1>2, <1>3

-----------------------------------------------------------------------------
(* What the activations and the world do to the invariant.                  *)

Core ==
  /\ lease \in Proc \cup {None} /\ act \in [Proc -> Acts]
  /\ job # None => IsJob(job) /\ JobOK(job, nextId, mint)
  /\ \A p \in Proc : ActOK(act[p], job, nextId, mint, executed, late, doubt)
  /\ Quiet /\ Alone /\ FailedOK /\ History

Data ==
  /\ nextId \in Nat
  /\ base \in Samples /\ since \in [Target -> Nat] /\ debt \in [Target -> Nat]
  /\ fails \in [Target -> Nat] /\ estimate \in Nat /\ feeCache \in Nat \cup {None}
  /\ fee \in Nat /\ balance \in Nat /\ executed \subseteq Ids /\ aged \subseteq Ids
  /\ DOMAIN mint \subseteq Ids /\ mint \in [DOMAIN mint -> Nat] /\ refused \subseteq Ids
  /\ cycles \in [Target -> Nat]
  /\ late \subseteq [kind : {"send", "notify"}, tx : Txs]
  /\ left \in BudgetSet /\ failedTx \subseteq Ids /\ doubt \subseteq Ids

LEMMA Parts == IInv <=> Core /\ Data
  BY DEF IInv, Core, Data, TypeOK

LEMMA IdsAre ==
  ASSUME NEW id \in Ids
  PROVE  id[1] \in Nat /\ id[2] \in Kinds /\ id[3] \in Nat \ {0}
  BY DEF Ids

\* Used identities stay used while the job moves on or is replaced.
LEMMA UsedOn ==
  ASSUME NEW id \in Ids, NEW m \in Nat, NEW n \in Nat, n >= m, NEW j, NEW k,
         Used(id, j, m), IsJob(k), j # None => IsJob(j),
         (j # None /\ Follows(k, j)) \/ k.id >= m
  PROVE  Used(id, k, n)
<1>1. id[1] \in Nat /\ id[3] \in Nat
  BY IdsAre
<1>2. k.id \in Nat /\ k.next \in Nat /\ k.snext \in Nat
  BY Fields
<1>3. id[1] < m /\ id[1] < n
  BY <1>1 DEF Used
<1>4. CASE k.id >= m
  BY <1>1, <1>2, <1>3, <1>4 DEF Used
<1>5. CASE j # None /\ Follows(k, j)
  <2>1. j.next \in Nat /\ j.snext \in Nat
    BY <1>5, Fields
  <2> QED
    BY <1>1, <1>2, <1>3, <1>5, <2>1 DEF Used, Follows
<1> QED
  BY <1>4, <1>5

\* The identities the invariant knows of are used and well formed.
LEMMA Known ==
  ASSUME IInv
  PROVE  /\ \A id \in executed \cup failedTx : id \in Ids /\ Used(id, job, nextId)
         /\ \A r \in late : r.tx.id \in Ids /\ Used(r.tx.id, job, nextId)
         /\ \A p \in Proc : Busy(act[p]) =>
              act[p].tx.id \in Ids /\ Used(act[p].tx.id, job, nextId)
<1>1. executed \subseteq Ids /\ failedTx \subseteq Ids
  BY DEF IInv, TypeOK
<1>2. \A id \in executed \cup failedTx \cup {r.tx.id : r \in late} : Used(id, job, nextId)
  BY DEF IInv, History
<1>3. \A r \in late : r.tx.id \in Ids
  BY DEF IInv, TypeOK, Txs
<1>4. \A p \in Proc : Busy(act[p]) => act[p].tx.id \in Ids /\ Used(act[p].tx.id, job, nextId)
  BY DEF IInv, ActOK, Txs
<1> QED
  BY <1>1, <1>2, <1>3, <1>4

\* An activation goes on with job j, which it made out of the stored one.
LEMMA EndsStep ==
  ASSUME IInv, NEW p \in Proc, NEW j, IsJob(j), Ends(p, j, nextId'),
         nextId' \in Nat, nextId' >= nextId,
         (job # None /\ Follows(j, job)) \/ j.id >= nextId,
         lease = p \/ (job # None /\ job.pending # None),
         j.pending # None => \/ j.pending.id \in doubt'
                             \/ /\ j.pending.accepted /\ Busy(act[p])
                                /\ act[p].tx.id = j.pending.id,
         \A id \in failedTx' : id \notin failedTx =>
           /\ Busy(act[p]) /\ id = act[p].tx.id /\ j.pending = None
           /\ id \notin doubt' => Unsent(id, executed, late),
         executed' = executed, late' = late, mint' = mint, doubt \subseteq doubt'
  PROVE  Core'
<1>1. PICK a \in Acts :
    /\ act' = [act EXCEPT ![p] = a]
    /\ lease' = lease \/ (lease = p /\ lease' = None)
    /\ a.pc = "resolve" => job' = None \/ job'.pending = None
    /\ job' # None => IsJob(job') /\ JobOK(job', nextId', mint) /\ Follows(job', j)
    /\ a.pc \in {"idle", "resolve"} \/ Takes(a, j, nextId')
  BY Zenon DEF Ends
<1>2. /\ lease \in Proc \cup {None} /\ act \in [Proc -> Acts] /\ nextId \in Nat
      /\ job # None => IsJob(job)
  BY DEF IInv, TypeOK
<1>3. act' \in [Proc -> Acts] /\ act'[p] = a /\ \A q \in Proc : q # p => act'[q] = act[q]
  BY <1>1, <1>2
<1>4. \A id \in Ids : Used(id, job, nextId) => Used(id, j, nextId')
  BY <1>2, UsedOn
<1>5. \A id \in Ids : Used(id, job, nextId) => Used(id, job', nextId')
  <2> TAKE id \in Ids
  <2> HAVE Used(id, job, nextId)
  <2>1. id[1] \in Nat /\ id[1] < nextId'
    BY <1>2, IdsAre DEF Used
  <2>2. CASE job' = None
    BY <2>1, <2>2 DEF Used
  <2>3. CASE job' # None
    <3>1. IsJob(job') /\ Follows(job', j) /\ j # None
      BY <1>1, <2>3, JobIsSome
    <3>2. Used(id, j, nextId')
      BY <1>4
    <3>3. nextId' >= nextId'
      OBVIOUS
    <3> QED
      BY <3>1, <3>2, <3>3, UsedOn
  <2> QED
    BY <2>2, <2>3
<1>6. Busy(a) => /\ Takes(a, j, nextId') /\ a.tx \in Txs /\ a.tx.id \in Ids
                 /\ \/ a.tx = j.pending
                    \/ ~a.tx.accepted /\ ~Used(a.tx.id, j, nextId')
  <2>1. Busy(a) => a.pc \notin {"idle", "resolve"}
    BY DEF Busy, Sends, Asks
  <2> QED
    BY <1>1, <2>1 DEF Takes, Txs
<1>7. Busy(a) /\ a.tx = j.pending =>
        \/ a.tx.id \in doubt'
        \/ a.tx.accepted /\ Busy(act[p]) /\ act[p].tx.id = a.tx.id
  BY <1>6, NoneAssumption
<1>8. /\ \A id \in executed \cup failedTx : id \in Ids /\ Used(id, job, nextId)
      /\ \A r \in late : r.tx.id \in Ids /\ Used(r.tx.id, job, nextId)
      /\ \A q \in Proc : Busy(act[q]) =>
              act[q].tx.id \in Ids /\ Used(act[q].tx.id, job, nextId)
  BY Known
<1>9. \A q \in Proc : ActOK(act[q], job, nextId, mint, executed, late, doubt)
  BY DEF IInv
<1>10. \A q \in Proc : ActOK(act[q], job, nextId, mint, executed, late, doubt)'
  <2> SUFFICES ASSUME NEW q \in Proc
               PROVE  ActOK(act'[q], job', nextId', mint, executed, late, doubt')
    BY Zenon
  <2>1. CASE q # p
    <3>1. act'[q] = act[q]
      BY <1>3, <2>1
    <3>2. Busy(act[q]) => Used(act[q].tx.id, job', nextId')
      BY <1>5, <1>8
    <3> QED
      BY <1>9, <3>1, <3>2 DEF ActOK
  <2>2. CASE q = p
    <3>1. a.pc \notin {"balance", "quote"}
      BY <1>1 DEF Takes
    <3>2. Busy(a) => /\ a.tx \in Txs /\ Used(a.tx.id, job', nextId')
                     /\ a.pc \in Asks <=> a.tx.accepted
      BY <1>6 DEF Takes, Sends, Asks
    <3>3. ~(a.pc \in Asks /\ a.reply = "ok")
      BY <1>6 DEF Takes, Busy
    <3>4. a.pc = "send1" /\ a.tx.id \notin doubt' => Unsent(a.tx.id, executed, late)
      <4>1. SUFFICES ASSUME a.pc = "send1", a.tx.id \notin doubt'
                     PROVE  Unsent(a.tx.id, executed, late)
        OBVIOUS
      <4>2. Busy(a) /\ ~a.tx.accepted
        BY <1>1, <4>1 DEF Busy, Sends, Takes
      <4>3. ~Used(a.tx.id, j, nextId')
        BY <1>6, <1>7, <4>1, <4>2
      <4> QED
        BY <1>4, <1>8, <4>3 DEF Unsent
    <3>5. ActOK(a, job', nextId', mint, executed, late, doubt')
      BY <3>1, <3>2, <3>3, <3>4 DEF ActOK
    <3> QED
      BY <1>3, <2>2, <3>5
  <2> QED
    BY <2>1, <2>2
<1>11. Alone'
  <2>1. ASSUME NEW q \in Proc, q # p, Busy(a), Busy(act[q]), act[q].tx.id = a.tx.id
        PROVE  a.tx.id \in doubt'
    <3>1. act[q].tx.id \in Ids /\ Used(act[q].tx.id, job, nextId)
      BY <1>8, <2>1
    <3>2. Used(a.tx.id, j, nextId')
      BY <1>4, <2>1, <3>1
    <3>3. a.tx = j.pending
      BY <1>6, <2>1, <3>2
    <3>4. Busy(act[p]) /\ act[p].tx.id = a.tx.id => a.tx.id \in doubt
      BY <2>1 DEF IInv, Alone
    <3> QED
      BY <1>7, <2>1, <3>3, <3>4
  <2>2. ASSUME NEW q \in Proc, NEW r \in Proc, q # r, Busy(act'[q]), Busy(act'[r]),
               act'[q].tx.id = act'[r].tx.id
        PROVE  act'[q].tx.id \in doubt'
    <3>1. CASE q = p
      BY <1>3, <2>1, <2>2, <3>1
    <3>2. CASE r = p
      BY <1>3, <2>1, <2>2, <3>2
    <3>3. CASE q # p /\ r # p
      BY <1>3, <2>2, <3>3 DEF IInv, Alone
    <3> QED
      BY <3>1, <3>2, <3>3
  <2> QED
    BY <2>2 DEF Alone, Busy
<1>12. FailedOK'
  <2> SUFFICES ASSUME NEW id \in failedTx', id \notin doubt'
               PROVE  /\ Unsent(id, executed, late)
                      /\ \A q \in Proc : Busy(act'[q]) => act'[q].tx.id # id
    BY DEF FailedOK, Busy, Unsent
  <2>1. CASE id \in failedTx
    <3>1. /\ Unsent(id, executed, late)
          /\ \A q \in Proc : Busy(act[q]) => act[q].tx.id # id
      BY <2>1 DEF IInv, FailedOK
    <3>2. Busy(a) => a.tx.id # id
      <4>1. Used(id, j, nextId')
        BY <1>4, <1>8, <2>1
      <4> QED
        BY <1>6, <1>7, <3>1, <4>1
    <3> QED
      BY <1>3, <3>1, <3>2
  <2>2. CASE id \notin failedTx
    <3>1. /\ Busy(act[p]) /\ id = act[p].tx.id /\ j.pending = None
          /\ Unsent(id, executed, late)
      BY <2>2
    <3>2. Busy(a) => a.tx.id # id
      <4>1. Used(id, j, nextId')
        BY <1>4, <1>8, <3>1
      <4> QED
        BY <1>6, <3>1, <4>1, NoneAssumption
    <3>3. \A q \in Proc : q # p /\ Busy(act[q]) => act[q].tx.id # id
      BY <3>1 DEF IInv, Alone
    <3> QED
      BY <1>3, <3>1, <3>2, <3>3
  <2> QED
    BY <2>1, <2>2
<1>13. History'
  <2> SUFFICES ASSUME NEW id \in executed \cup failedTx' \cup {r.tx.id : r \in late}
               PROVE  Used(id, job', nextId')
    BY DEF History
  <2>1. id \in Ids /\ Used(id, job, nextId)
    BY <1>8
  <2> QED
    BY <1>5, <2>1
<1>14. Quiet'
  <2> SUFFICES ASSUME NEW q \in Proc, act'[q].pc = "resolve", lease' = q
               PROVE  job' = None \/ job'.pending = None
    BY DEF Quiet
  <2>1. CASE q = p
    BY <1>1, <1>3, <2>1
  <2>2. CASE q # p
    <3>1. lease = q /\ act[q].pc = "resolve"
      BY <1>1, <1>3, <2>2, JobAssumption
    <3> QED
      BY <2>2, <3>1 DEF IInv, Quiet
  <2> QED
    BY <2>1, <2>2
<1>15. lease' \in Proc \cup {None}
  BY <1>1, <1>2
<1>16. job' # None => IsJob(job') /\ JobOK(job', nextId', mint')
  BY <1>1
<1> QED
  BY <1>3, <1>10, <1>11, <1>12, <1>13, <1>14, <1>15, <1>16 DEF Core

\* An activation waits for another answer, leaves or starts: the job stays.
LEMMA WaitStep ==
  ASSUME IInv, NEW p \in Proc, NEW a \in Acts, act' = [act EXCEPT ![p] = a],
         lease' \in {lease, None, p}, a.pc # "resolve",
         ActOK(a, job, nextId, mint, executed, late, doubt),
         Busy(a) => Busy(act[p]) /\ a.tx.id = act[p].tx.id,
         UNCHANGED <<job, nextId, failedTx, doubt, executed, late, mint>>
  PROVE  Core'
<1>1. /\ lease \in Proc \cup {None} /\ act \in [Proc -> Acts]
      /\ job # None => IsJob(job) /\ JobOK(job, nextId, mint)
  BY DEF IInv, TypeOK
<1>2. act' \in [Proc -> Acts] /\ act'[p] = a /\ \A q \in Proc : q # p => act'[q] = act[q]
  BY <1>1
<1>3. \A q \in Proc : Busy(act'[q]) => Busy(act[q]) /\ act'[q].tx.id = act[q].tx.id
  BY <1>2
<1>4. \A q \in Proc : ActOK(act'[q], job, nextId, mint, executed, late, doubt)
  BY <1>2 DEF IInv
<1>5. Alone'
  BY <1>3 DEF IInv, Alone, Busy
<1>6. FailedOK'
  BY <1>3 DEF IInv, FailedOK, Busy
<1>7. History'
  BY DEF IInv, History
<1>8. Quiet'
  <2> SUFFICES ASSUME NEW q \in Proc, act'[q].pc = "resolve", lease' = q
               PROVE  job = None \/ job.pending = None
    BY DEF Quiet
  <2>1. q # p /\ q # None
    BY <1>2, JobAssumption
  <2> QED
    BY <1>2, <2>1 DEF IInv, Quiet
<1>9. lease' \in Proc \cup {None}
  BY <1>1
<1> QED
  BY <1>1, <1>2, <1>4, <1>5, <1>6, <1>7, <1>8, <1>9, Zenon DEF Core

\* An idle activation has nothing to answer for.
LEMMA IdleOK == ActOK(Idle, job, nextId, mint, executed, late, doubt)
  BY DEF Idle, ActOK, Busy, Sends, Asks

LEMMA LeaveStep ==
  ASSUME IInv, NEW p \in Proc, Finish(p),
         UNCHANGED <<job, nextId, failedTx, doubt, executed, late, mint>>
  PROVE  Core'
<1>1. act' = [act EXCEPT ![p] = Idle] /\ lease' \in {lease, None, p}
  BY FinishIs
<1>2. Idle \in Acts /\ Idle.pc # "resolve" /\ ~Busy(Idle)
  BY IdleIs DEF Busy, Sends, Asks
<1> QED
  BY <1>1, <1>2, IdleOK, WaitStep

\* Nothing that was minted is taken back.
Extends(m, n) == DOMAIN n \subseteq DOMAIN m /\ \A id \in DOMAIN n : m[id] = n[id]

LEMMA MintGrows ==
  ASSUME NEW j, NEW nid, NEW m, NEW n, JobOK(j, nid, n), Extends(m, n)
  PROVE  JobOK(j, nid, m)
<1>1. \A id : MintOf(n, id) \subseteq MintOf(m, id)
  BY DEF MintOf, Extends
<1>2. ItemsOK(j, m)
  BY <1>1 DEF JobOK, ItemsOK
<1> QED
  BY <1>2 DEF JobOK

SameButReply(a, b) == a.pc = b.pc /\ a.tx = b.tx /\ a.seen = b.seen

Open == {"none", "badfee", "failed"}

\* Ledger and CMC answer, or take up a request: at most transfer x is touched.
LEMMA WorldStep ==
  ASSUME IInv, act' \in [Proc -> Acts], UNCHANGED <<lease, job, nextId, failedTx, doubt>>,
         Extends(mint', mint), NEW x,
         \A q \in Proc : /\ SameButReply(act'[q], act[q])
                         /\ act[q].pc = "send1" /\ act'[q].reply \in Open =>
                              act[q].reply \in Open /\ (act[q].tx.id = x => x \in doubt)
                         /\ act[q].pc \in Asks /\ act'[q].reply = "ok" =>
                              act[q].tx.id \in DOMAIN mint',
         x \notin failedTx \ doubt,
         \A id : id # x /\ Unsent(id, executed, late) => Unsent(id, executed', late'),
         \A id \in executed' \cup {r.tx.id : r \in late'} : Used(id, job, nextId)
  PROVE  Core'
<1>1. /\ lease \in Proc \cup {None} /\ act \in [Proc -> Acts]
      /\ job # None => IsJob(job) /\ JobOK(job, nextId, mint)
  BY DEF IInv, TypeOK
<1>2. job # None => JobOK(job, nextId, mint')
  BY <1>1, MintGrows
<1>3. \A q \in Proc : act'[q].pc = act[q].pc /\ act'[q].tx = act[q].tx /\ act'[q].seen = act[q].seen
  BY DEF SameButReply
<1>4. \A q \in Proc : ActOK(act'[q], job, nextId, mint', executed', late', doubt)
  <2> TAKE q \in Proc
  <2>1. ActOK(act[q], job, nextId, mint, executed, late, doubt)
    BY DEF IInv
  <2>2. Busy(act'[q]) <=> Busy(act[q])
    BY <1>3 DEF Busy
  <2>3. act[q].pc = "send1" /\ act'[q].reply \in Open /\ act[q].tx.id \notin doubt =>
          Unsent(act[q].tx.id, executed', late')
    BY <2>1 DEF ActOK, Open
  <2> QED
    BY <1>3, <2>1, <2>2, <2>3 DEF ActOK, Open
<1>5. \A q \in Proc : (Busy(act'[q]) <=> Busy(act[q])) /\ act'[q].tx.id = act[q].tx.id
  BY <1>3 DEF Busy
<1>6. Alone'
  BY <1>5 DEF IInv, Alone, Busy
<1>7. FailedOK'
  <2> SUFFICES ASSUME NEW id \in failedTx, id \notin doubt
               PROVE  /\ Unsent(id, executed', late')
                      /\ \A q \in Proc : Busy(act'[q]) => act'[q].tx.id # id
    BY DEF FailedOK, Busy, Unsent
  <2>1. /\ Unsent(id, executed, late)
        /\ \A q \in Proc : Busy(act[q]) => act[q].tx.id # id
    BY DEF IInv, FailedOK
  <2> QED
    BY <1>5, <2>1
<1>8. History'
  BY DEF IInv, History
<1>9. Quiet'
  BY <1>3 DEF IInv, Quiet
<1> QED
  BY <1>1, <1>2, <1>4, <1>6, <1>7, <1>8, <1>9, Zenon DEF Core

-----------------------------------------------------------------------------
(* The actions.                                                             *)

Remembers == \A t \in Target : base[t] >= 0 => Book(t)' >= Book(t)

Sound == Core' /\ Data' /\ Remembers

LEMMA BookIs == \A t : /\ Book(t) = BookOf(job, base, since, debt, t)
                       /\ Book(t)' = BookOf(job', base', since', debt', t)
  BY Zenon DEF Book, BookOf

LEMMA BookInt ==
  ASSUME IInv, NEW t \in Target
  PROVE  Book(t) \in Int
<1>1. base[t] \in Int /\ since[t] \in Nat /\ debt[t] \in Nat
  BY DEF IInv, TypeOK, Samples
<1>2. CASE job = None
  <2>1. Book(t) = base[t] + since[t] + debt[t]
    BY <1>2, Zenon DEF Book
  <2> QED
    BY <1>1, <2>1
<1>3. CASE job # None
  <2>1. IsJob(job) /\ ItemsOK(job, mint)
    BY <1>3 DEF IInv, TypeOK, JobOK
  <2>2. CASE ~(job.seen[t] >= 0)
    BY <1>1, <2>1, <2>2, BookIs, BookOff
  <2>3. CASE \E i \in DOMAIN job.items : Targets[i] = t
    <3>1. PICK i \in DOMAIN job.items : Targets[i] = t
      BY <2>3
    <3>2. Book(t) = job.seen[t] + since[t] + Monus(job.items[i].need, job.items[i].minted)
      BY <2>1, <3>1, BookIs, BookOn
    <3>3. Monus(job.items[i].need, job.items[i].minted) \in Int
      <4>1. job.items[i].need \in Int /\ job.items[i].minted \in Int
        BY <2>1, ItemFields
      <4> QED
        BY <4>1 DEF Monus
    <3>4. job.seen[t] \in Int
      BY <2>1, Fields DEF Samples
    <3> QED
      BY <1>1, <3>2, <3>3, <3>4
  <2> QED
    BY <2>1, <2>2, <2>3, OnOrOff
<1> QED
  BY <1>2, <1>3

LEMMA BooksKept ==
  ASSUME IInv, UNCHANGED <<job, accounting>>
  PROVE  Remembers
<1>1. base' = base /\ since' = since /\ debt' = debt /\ job' = job
  BY DEF accounting
<1>2. \A t \in Target : Book(t)' = Book(t)
  BY <1>1, BookIs
<1> QED
  BY <1>2, BookInt DEF Remembers

LEMMA Nums ==
  ASSUME IInv, NEW p \in Proc
  PROVE  /\ act[p] \in Acts /\ act[p].id \in Nat /\ act[p].n \in Nat /\ act[p].bal \in Nat
         /\ act[p].own \in Nat /\ act \in [Proc -> Acts] /\ Typed /\ Data /\ Core
         /\ job # None => IsJob(job) /\ JobOK(job, nextId, mint)
         /\ ActOK(act[p], job, nextId, mint, executed, late, doubt)
  BY Parts DEF IInv, TypeOK, Acts, Typed

LEMMA IdentIn == IInv => Ident \in SUBSET Ids
  BY Fields DEF IInv, TypeOK, Ident, Txs

LEMMA StartStep ==
  ASSUME IInv, NEW p \in Proc, Start(p)
  PROVE  Sound
<1>1. PICK main \in BOOLEAN :
       act' = [act EXCEPT ![p] = [Idle EXCEPT !.pc = "stage", !.main = main,
                 !.id = nextId, !.own = cycles[Self], !.expired = Ident \cap aged]]
  BY DEF Start
<1> DEFINE a == [Idle EXCEPT !.pc = "stage", !.main = main,
                 !.id = nextId, !.own = cycles[Self], !.expired = Ident \cap aged]
<1>2. nextId \in Nat /\ cycles[Self] \in Nat /\ Ident \cap aged \in SUBSET Ids /\ Data
  BY IdentIn, JobAssumption, Parts DEF IInv, TypeOK
<1>3. a \in Acts /\ a.pc = "stage"
  BY <1>2 DEF Acts, Idle
<1>4. UNCHANGED <<nextId, job, accounting, fails, estimate, feeCache, ledger, cmc,
                 late, failedTx, doubt>> /\ lease' = p
  BY DEF Start
<1>5. left' \in BudgetSet
  BY <1>2 DEF Start, Data, BudgetSet
<1>6. act' = [act EXCEPT ![p] = a]
  BY <1>1
<1> HIDE DEF a
<1>7. ~Busy(a) /\ ActOK(a, job, nextId, mint, executed, late, doubt)
  BY <1>3 DEF Busy, ActOK, Sends, Asks
<1>8. Core'
  BY <1>3, <1>4, <1>6, <1>7, WaitStep DEF ledger, cmc
<1>9. Data'
  BY <1>2, <1>4, <1>5 DEF Data, accounting, ledger, cmc
<1> QED
  BY <1>4, <1>8, <1>9, BooksKept DEF Sound

\* Everything but the activations and the lease stays.
LEMMA QuietStep ==
  ASSUME IInv, NEW p \in Proc, NEW a \in Acts, a.pc # "resolve",
         act' = [act EXCEPT ![p] = a], lease' \in {lease, None, p},
         ActOK(a, job, nextId, mint, executed, late, doubt),
         Busy(a) => Busy(act[p]) /\ a.tx.id = act[p].tx.id,
         UNCHANGED <<nextId, job, accounting, fails, estimate, feeCache, ledger, cmc,
                 late, failedTx, doubt>>, left' \in BudgetSet
  PROVE  Sound
<1>1. Core'
  BY WaitStep DEF ledger, cmc
<1>2. Data'
  BY Nums DEF Data, accounting, ledger, cmc
<1> QED
  BY <1>1, <1>2, BooksKept DEF Sound

LEMMA FinishStep ==
  ASSUME IInv, NEW p \in Proc, Finish(p), left' \in BudgetSet,
         UNCHANGED <<nextId, job, accounting, fails, estimate, feeCache, ledger, cmc,
                 late, failedTx, doubt>>
  PROVE  Sound
<1>1. act' = [act EXCEPT ![p] = Idle] /\ lease' \in {lease, None, p}
  BY FinishIs
<1>2. Idle \in Acts /\ Idle.pc # "resolve" /\ ~Busy(Idle)
  BY IdleIs DEF Busy, Sends, Asks
<1> QED
  BY <1>1, <1>2, IdleOK, QuietStep

LEMMA LeftTyped == IInv => left \in BudgetSet
  BY DEF IInv, TypeOK

LEMMA TrapStep ==
  ASSUME IInv, NEW p \in Proc, Trap(p)
  PROVE  Sound
<1>1. left' \in BudgetSet
  BY LeftTyped DEF Trap, Fault, BudgetSet
<1>2. Finish(p) /\ UNCHANGED <<nextId, job, accounting, fails, estimate, feeCache, ledger, cmc,
                 late, failedTx, doubt>>
  BY DEF Trap
<1> QED
  BY <1>1, <1>2, FinishStep

LEMMA LeaveIs ==
  ASSUME IInv, NEW p \in Proc, Leave(p)
  PROVE  Sound
<1>1. left' \in BudgetSet /\ Finish(p)
      /\ UNCHANGED <<nextId, job, accounting, fails, estimate, feeCache, ledger, cmc,
                 late, failedTx, doubt>>
  BY LeftTyped DEF Leave
<1> QED
  BY <1>1, FinishStep

LEMMA BalanceStep ==
  ASSUME IInv, NEW p \in Proc, BalanceReply(p)
  PROVE  Sound
<1>1. CASE Leave(p)
  BY <1>1, LeaveIs
<1>2. CASE /\ Wait(p, [act[p] EXCEPT !.pc = "quote", !.bal = balance])
           /\ UNCHANGED <<nextId, job, accounting, fails, estimate, feeCache, ledger,
                       cmc, late, left, failedTx, doubt>>
  <2> DEFINE a == [act[p] EXCEPT !.pc = "quote", !.bal = balance]
  <2>1. act[p] \in Acts /\ balance \in Nat
    BY Nums DEF Data
  <2>2. a \in Acts /\ a.pc = "quote" /\ a.seen = act[p].seen
    BY <2>1 DEF Acts
  <2>3. a.seen \in Samples
    BY <2>2, Nums DEF ActOK, BalanceReply
  <2>4. act' = [act EXCEPT ![p] = a] /\ lease' = lease
    BY <1>2 DEF Wait
  <2> HIDE DEF a
  <2>5. ~Busy(a) /\ ActOK(a, job, nextId, mint, executed, late, doubt)
    BY <2>2, <2>3 DEF Busy, ActOK, Sends, Asks
  <2> QED
    BY <1>2, <2>2, <2>4, <2>5, LeftTyped, QuietStep
<1> QED
  BY <1>1, <1>2 DEF BalanceReply

\* A driven job keeps its books, whether it is stored, completed or given up.
LEMMA DriveStep ==
  ASSUME IInv, NEW p \in Proc, NEW j, IsJob(j), Ends(p, j, nextId), job # None,
         Follows(j, job), SameItems(j, job),
         lease = p \/ job.pending # None,
         j.pending # None => \/ j.pending.id \in doubt'
                             \/ /\ j.pending.accepted /\ Busy(act[p])
                                /\ act[p].tx.id = j.pending.id,
         \A id \in failedTx' : id \notin failedTx =>
           /\ Busy(act[p]) /\ id = act[p].tx.id /\ j.pending = None
           /\ id \notin doubt' => Unsent(id, executed, late),
         UNCHANGED <<nextId, since, fails, estimate, ledger, cmc, late, left>>,
         feeCache' \in Nat \cup {None}, failedTx' \in SUBSET Ids, doubt' \in SUBSET Ids,
         doubt \subseteq doubt'
  PROVE  Sound
<1>1. base' \in Samples /\ debt' \in [Target -> Nat] /\ SameBooks(j)
  BY Zenon DEF Ends
<1>2. Data /\ IsJob(job)
  BY Nums
<1>3. Data'
  BY <1>1, <1>2 DEF Data, ledger, cmc
<1>4. nextId' \in Nat /\ nextId' >= nextId /\ nextId' = nextId
  BY <1>2 DEF Data
<1>5. executed' = executed /\ late' = late /\ mint' = mint
  BY DEF ledger, cmc
<1>6. Core'
  BY <1>4, <1>5, EndsStep
<1>7. Remembers
  <2>1. since' = since
    OBVIOUS
  <2>2. \A t \in Target : Book(t)' = Book(t)
    BY <1>1, <1>2, <2>1, SameItemsBooks, BookIs DEF SameBooks
  <2> QED
    BY <2>2, BookInt DEF Remembers
<1> QED
  BY <1>3, <1>6, <1>7 DEF Sound

LEMMA StageDoneStep ==
  ASSUME IInv, NEW p \in Proc, StageDone(p)
  PROVE  Sound
<1>1. CASE Leave(p)
  BY <1>1, LeaveIs
<1>2. CASE /\ Wait(p, [act[p] EXCEPT !.pc = "probe", !.id = nextId])
           /\ UNCHANGED <<nextId, job, accounting, fails, estimate, feeCache, ledger,
                       cmc, late, left, failedTx, doubt>>
  <2> DEFINE a == [act[p] EXCEPT !.pc = "probe", !.id = nextId]
  <2>1. act[p] \in Acts /\ nextId \in Nat
    BY Nums DEF Data
  <2>2. a \in Acts /\ a.pc = "probe"
    BY <2>1 DEF Acts
  <2>4. act' = [act EXCEPT ![p] = a] /\ lease' = lease
    BY <1>2 DEF Wait
  <2> HIDE DEF a
  <2>5. ~Busy(a) /\ ActOK(a, job, nextId, mint, executed, late, doubt)
    BY <2>2 DEF Busy, ActOK, Sends, Asks
  <2> QED
    BY <1>2, <2>2, <2>4, <2>5, LeftTyped, QuietStep
<1>3. CASE /\ lease = p /\ job # None
           /\ Drive(p, Unclean(job), 0) \/ Drive(p, job, 0)
           /\ doubt' = doubt \cup Ident
           /\ UNCHANGED <<nextId, since, fails, estimate, feeCache, ledger, cmc,
                       late, left, failedTx>>
  <2>1. IsJob(job) /\ JobOK(job, nextId, mint) /\ Typed /\ Data
    BY <1>3, Nums
  <2>2. doubt' \in SUBSET Ids /\ doubt \subseteq doubt'
    BY <1>3, <2>1, IdentIn DEF Data
  <2>3. feeCache' \in Nat \cup {None} /\ failedTx' \in SUBSET Ids
    BY <1>3, <2>1 DEF Data
  <2>4. job.pending # None => job.pending.id \in doubt'
    BY <1>3 DEF Ident
  <2>5. CASE Drive(p, Unclean(job), 0)
    <3>1. /\ JobOK(Unclean(job), nextId, mint) /\ IsJob(Unclean(job))
          /\ Follows(Unclean(job), job) /\ SameItems(Unclean(job), job)
          /\ Unclean(job).pending = None
      BY <2>1, CompletedOK
    <3>2. Ends(p, Unclean(job), nextId)
      BY <2>1, <2>5, <3>1, DriveEnds
    <3> QED
      BY <1>3, <2>2, <2>3, <3>1, <3>2, DriveStep
  <2>6. CASE Drive(p, job, 0)
    <3>1. Ends(p, job, nextId)
      BY <2>1, <2>6, DriveEnds
    <3>2. Follows(job, job) /\ SameItems(job, job)
      BY <2>1, FollowsItself
    <3> QED
      BY <1>3, <2>1, <2>2, <2>3, <2>4, <3>1, <3>2, DriveStep
  <2> QED
    BY <1>3, <2>5, <2>6
<1> QED
  BY <1>1, <1>2, <1>3, Zenon DEF StageDone

\* A job that planned its surplus, or gave it up, is the same job.
LEMMA ReplannedOK ==
  ASSUME NEW j, IsJob(j), NEW nid, NEW mt, JobOK(j, nid, mt), ~j.planned, j.pending = None,
         NEW sh \in Seq(Share), NEW k,
         k = [j EXCEPT !.surplus = sh, !.snext = 1, !.planned = TRUE]
  PROVE  /\ JobOK(k, nid, mt) /\ IsJob(k) /\ Follows(k, j) /\ SameItems(k, j)
         /\ k.pending = None
<1>1. TRUE \in BOOLEAN
  OBVIOUS
<1>2. Built(k, j, j.items, j.next, sh, 1, TRUE, j.pending, j.dirty) /\ IsJob(k)
  BY <1>1, ReplannedIs
<1>3. j.next \in Nat /\ j.snext = 1 /\ Len(sh) \in Nat
  BY Fields DEF JobOK
<1>4. JobOK(k, nid, mt)
  BY <1>2, <1>3 DEF JobOK, ItemsOK, Built
<1> QED
  BY <1>2, <1>3, <1>4 DEF Built, Follows, SameItems

LEMMA TargetsFinite == IsFiniteSet(DOMAIN Targets)
<1>1. DOMAIN Targets = 1 .. Len(Targets) /\ 1 \in Int /\ Len(Targets) \in Int
  BY DomainTargets
<1>2. IsFiniteSet(1 .. Len(Targets))
  BY <1>1, FS_Interval
<1> QED
  BY <1>1, <1>2

LEMMA RetainedNat ==
  ASSUME NEW j, IsJob(j)
  PROVE  Retained(j) \in Nat
<1>2. Gross(j.items) \in Nat
  <2> DEFINE f == [i \in DOMAIN j.items |->
                     IF j.items[i].amount > 0 THEN j.items[i].gross ELSE 0]
  <2>1. f \in [DOMAIN j.items -> Nat]
    BY ItemFields
  <2>2. IsFiniteSet(DOMAIN j.items)
    <3>1. DOMAIN j.items \in SUBSET DOMAIN Targets
      BY Fields
    <3> QED
      BY <3>1, TargetsFinite, FS_Subset
  <2>3. Gross(j.items) = SumOf(f)
    BY DEF Gross
  <2> HIDE DEF f
  <2> QED
    BY <2>1, <2>2, <2>3, SumIsNat
<1>3. Gross(j.surplus) \in Nat
  <2> DEFINE f == [i \in DOMAIN j.surplus |->
                     IF j.surplus[i].amount > 0 THEN j.surplus[i].gross ELSE 0]
  <2>1. j.surplus \in Seq(Share)
    BY Fields
  <2>2. \A i \in DOMAIN j.surplus : j.surplus[i] \in Share
    BY <2>1
  <2>3. f \in [DOMAIN j.surplus -> Nat]
    BY <2>2 DEF Share
  <2>4. IsFiniteSet(DOMAIN j.surplus)
    BY <2>1, FS_Interval
  <2>5. Gross(j.surplus) = SumOf(f)
    BY DEF Gross
  <2> HIDE DEF f
  <2> QED
    BY <2>3, <2>4, <2>5, SumIsNat
<1>4. j.bal \in Nat
  BY Fields
<1> QED
  BY <1>2, <1>3, <1>4 DEF Retained, Monus

\* Everybody gets the same share.
LEMMA SharesTyped ==
  ASSUME NEW j, IsJob(j), Raw, NEW s, s = SurplusShare(Len(Recipients), Retained(j), j.fee)
  PROVE  [i \in DOMAIN Recipients |-> [t |-> Recipients[i], gross |-> s.gross,
                                       amount |-> s.amount]] \in Seq(Share)
<1>1. Recipients \in Seq(Accounts) /\ Recipients # <<>>
  BY JobAssumption DEF Raw
<1>2. Len(Recipients) \in Nat \ {0} /\ DOMAIN Recipients = 1 .. Len(Recipients)
  BY <1>1
<1>3. s.gross \in Nat /\ s.amount \in Nat
  BY <1>2, RetainedNat, Fields, ShareNat
<1>4. \A i \in DOMAIN Recipients : Recipients[i] \in Accounts
  BY <1>1
<1> DEFINE c(i) == [t |-> Recipients[i], gross |-> s.gross, amount |-> s.amount]
<1>5. \A i \in DOMAIN Recipients : c(i) \in Share
  BY <1>3, <1>4 DEF Share
<1> HIDE DEF c
<1>6. [i \in 1 .. Len(Recipients) |-> c(i)] \in Seq(Share)
  BY <1>2, <1>5
<1> QED
  BY <1>2, <1>6 DEF c

LEMMA ResolveStep ==
  ASSUME IInv, NEW p \in Proc, ResolveReply(p)
  PROVE  Sound
<1>1. /\ act[p].pc = "resolve"
      /\ UNCHANGED <<nextId, since, fails, estimate, feeCache, ledger, cmc, late, left,
                 failedTx, doubt>>
  BY DEF ResolveReply
<1>2. CASE Finish(p) /\ KeepSamples /\ UNCHANGED job
  BY <1>1, <1>2, LeftTyped, FinishStep DEF KeepSamples, accounting
<1>3. ASSUME lease = p, NEW j, IsJob(j), JobOK(j, nextId, mint), Drive(p, j, act[p].n),
             job # None, Follows(j, job), SameItems(j, job), j.pending = None
      PROVE  Sound
  <2>1. Typed /\ Data /\ act[p].n \in Nat
    BY Nums
  <2>2. Ends(p, j, nextId)
    BY <1>3, <2>1, DriveEnds
  <2>3. /\ feeCache' \in Nat \cup {None} /\ failedTx' \in SUBSET Ids
        /\ doubt' \in SUBSET Ids /\ doubt \subseteq doubt' /\ failedTx' = failedTx
    BY <1>1, <2>1 DEF Data
  <2> QED
    BY <1>1, <1>3, <2>2, <2>3, DriveStep
<1>4. ASSUME Holds(p), job # None, Drive(p, job, act[p].n)
      PROVE  Sound
  <2>1. IsJob(job) /\ JobOK(job, nextId, mint) /\ job.pending = None
    BY <1>1, <1>4, Nums DEF IInv, Quiet, Holds
  <2> QED
    BY <1>3, <1>4, <2>1, FollowsItself DEF Holds
<1>5. ASSUME Holds(p), job # None, ~job.planned, NEW sh \in Seq(Share), NEW k,
             k = [job EXCEPT !.surplus = sh, !.snext = 1, !.planned = TRUE],
             Drive(p, k, act[p].n)
      PROVE  Sound
  <2>1. IsJob(job) /\ JobOK(job, nextId, mint) /\ job.pending = None
    BY <1>1, <1>5, Nums DEF IInv, Quiet, Holds
  <2>2. /\ JobOK(k, nextId, mint) /\ IsJob(k) /\ Follows(k, job) /\ SameItems(k, job)
        /\ k.pending = None
    BY <1>5, <2>1, ReplannedOK
  <2> QED
    BY <1>3, <1>5, <2>2 DEF Holds
<1>6. CASE Holds(p) /\ job # None /\ ~job.planned /\ Drive(p, Disabled(job), act[p].n)
  <2>1. <<>> \in Seq(Share)
    OBVIOUS
  <2>2. Disabled(job) = [job EXCEPT !.surplus = <<>>, !.snext = 1, !.planned = TRUE]
    BY DEF Disabled
  <2> QED
    BY <1>5, <1>6, <2>1, <2>2
<1> DEFINE s == SurplusShare(Len(Recipients), Retained(job), job.fee)
           sh == [i \in DOMAIN Recipients |->
                          [t |-> Recipients[i], gross |-> s.gross,
                           amount |-> s.amount]]
           k == [job EXCEPT !.planned = TRUE, !.snext = 1, !.surplus = sh]
<1>7. CASE Holds(p) /\ job # None /\ ~job.planned /\ Drive(p, k, act[p].n)
  <2>1. IsJob(job) /\ Raw
    BY <1>7, Nums DEF JobOK
  <2>2. sh \in Seq(Share)
    <3> HIDE DEF s
    <3>1. s = SurplusShare(Len(Recipients), Retained(job), job.fee)
      BY DEF s
    <3> QED
      BY <2>1, <3>1, SharesTyped
  <2> HIDE DEF sh
  <2>3. k = [job EXCEPT !.surplus = sh, !.snext = 1, !.planned = TRUE]
    BY <2>1 DEF IsJob, Jobs
  <2> HIDE DEF k
  <2> QED
    BY <1>5, <1>7, <2>2, <2>3
<1>8. \/ Finish(p) /\ KeepSamples /\ UNCHANGED job
      \/ Holds(p) /\ job # None /\ Drive(p, job, act[p].n)
      \/ Holds(p) /\ job # None /\ ~job.planned /\ Drive(p, Disabled(job), act[p].n)
      \/ Holds(p) /\ job # None /\ ~job.planned /\ Drive(p, k, act[p].n)
  BY Zenon DEF ResolveReply
<1> QED
  <2> HIDE DEF k
  <2> QED
    BY <1>2, <1>4, <1>6, <1>7, <1>8

LEMMA BookNone ==
  ASSUME NEW t \in Target
  PROVE  /\ job = None => Book(t) = base[t] + since[t] + debt[t]
         /\ job' = None => Book(t)' = base'[t] + since'[t] + debt'[t]
<1>1. \A b, s, d : BookOf(None, b, s, d, t) = b[t] + s[t] + d[t]
  BY BookOff
<1> QED
  BY <1>1, BookIs

\* The probe writes a baseline only where there is none.
LEMMA ProbeStep ==
  ASSUME IInv, NEW p \in Proc, ProbeReply(p)
  PROVE  Sound
<1>1. /\ act[p].pc = "probe"
      /\ UNCHANGED <<nextId, job, estimate, feeCache, ledger, cmc, late, left, failedTx,
                 doubt>>
  BY DEF ProbeReply
<1> DEFINE Seen(up) ==
       [t \in Target |-> IF t \in up \cup {Self} THEN IF t = Self THEN act[p].own ELSE cycles[t]
                                     ELSE -1]
<1>2. PICK up \in SUBSET Target :
     IF ~Current(p) THEN Finish(p) /\ UNCHANGED <<accounting, fails>>
     ELSE
     /\ fails' = [t \in Target |->
                    IF Counted(Seen(up))[t] > Threshold THEN Threshold
                    ELSE Counted(Seen(up))[t]]
     /\ \/ Finish(p) /\ UNCHANGED accounting
        \/ /\ base' = [t \in Target |-> IF BaselineMissing(t, Seen(up)) THEN Seen(up)[t]
                                        ELSE base[t]]
           /\ since' = [t \in Target |-> IF BaselineMissing(t, Seen(up)) THEN 0
                                         ELSE since[t]]
           /\ Finish(p) /\ UNCHANGED debt
        \/ /\ Wait(p, [act[p] EXCEPT !.pc = "balance", !.seen = Seen(up)])
           /\ UNCHANGED accounting
  BY Zenon DEF ProbeReply
<1> DEFINE seen == Seen(up)
<1>3. Data /\ act[p].own \in Nat /\ act[p] \in Acts
  BY Nums
<1>4. seen \in Samples
  BY <1>3 DEF Data, Samples
<1> HIDE DEF seen, Seen
<1>5. fails' \in [Target -> Nat]
  <2>1. CASE ~Current(p)
    BY <1>2, <1>3, <2>1 DEF Data
  <2>2. CASE Current(p)
    <3>1. Counted(seen) \in [Target -> Nat]
      BY <1>3, <1>4 DEF Counted, Data, Samples
    <3>2. fails' = [t \in Target |->
                    IF Counted(seen)[t] > Threshold THEN Threshold
                    ELSE Counted(seen)[t]]
      BY <1>2, <2>2 DEF seen
    <3> QED
      BY <3>1, <3>2, JobAssumption
  <2> QED
    BY <2>1, <2>2
<1>6. CASE Finish(p) /\ UNCHANGED accounting
  <2>1. Core'
    BY <1>1, <1>6, LeaveStep DEF ledger, cmc
  <2>2. Data'
    BY <1>1, <1>3, <1>5, <1>6 DEF Data, accounting, ledger, cmc
  <2> QED
    BY <1>1, <1>6, <2>1, <2>2, BooksKept DEF Sound
<1>7. CASE Wait(p, [act[p] EXCEPT !.pc = "balance", !.seen = seen]) /\ UNCHANGED accounting
  <2> DEFINE a == [act[p] EXCEPT !.pc = "balance", !.seen = seen]
  <2>1. a \in Acts /\ a.pc = "balance" /\ a.seen = seen
    BY <1>3, <1>4 DEF Acts
  <2>2. act' = [act EXCEPT ![p] = a] /\ lease' = lease
    BY <1>7 DEF Wait
  <2> HIDE DEF a
  <2>3. ~Busy(a) /\ ActOK(a, job, nextId, mint, executed, late, doubt) /\ a.pc # "resolve"
    BY <1>4, <2>1 DEF Busy, ActOK, Sends, Asks
  <2>4. Core'
    BY <1>1, <2>1, <2>2, <2>3, WaitStep DEF ledger, cmc
  <2>5. Data'
    BY <1>1, <1>3, <1>5, <1>7 DEF Data, accounting, ledger, cmc
  <2> QED
    BY <1>1, <1>7, <2>4, <2>5, BooksKept DEF Sound
<1>8. CASE /\ Current(p)
           /\ base' = [t \in Target |-> IF BaselineMissing(t, seen) THEN seen[t]
                                        ELSE base[t]]
           /\ since' = [t \in Target |-> IF BaselineMissing(t, seen) THEN 0
                                         ELSE since[t]]
           /\ Finish(p) /\ UNCHANGED debt
  <2>1. Core'
    BY <1>1, <1>8, LeaveStep DEF ledger, cmc
  <2>2. base' \in Samples /\ since' \in [Target -> Nat]
    BY <1>3, <1>4, <1>8 DEF Data, Samples
  <2>3. Data'
    BY <1>1, <1>3, <1>5, <1>8, <2>2 DEF Data, ledger, cmc
  <2>4. Remembers
    <3> SUFFICES ASSUME NEW t \in Target, base[t] >= 0
                 PROVE  Book(t)' >= Book(t)
      BY DEF Remembers
    <3>1. base'[t] = base[t] /\ since'[t] = since[t] /\ debt' = debt
      <4>1. base[t] # -1
        BY <1>3 DEF Data, Samples
      <4> QED
        BY <1>8, <4>1 DEF BaselineMissing
    <3>2. job = None /\ job' = None
      BY <1>1, <1>8 DEF Current
    <3>3. Book(t)' = Book(t)
      BY <3>1, <3>2, BookNone
    <3> QED
      BY <3>3, BookInt
  <2> QED
    BY <2>1, <2>3, <2>4 DEF Sound
<1> QED
  BY <1>2, <1>6, <1>7, <1>8 DEF seen

\* What a sampled target needs makes up for what its books lose.
LEMMA NeedIs ==
  ASSUME IInv, NEW seen \in Samples, NEW t \in Target
  PROVE  /\ Need(t, seen) \in Nat
         /\ seen[t] + Need(t, seen) >= base[t] + since[t] + debt[t]
<1>1. base[t] \in Int /\ since[t] \in Nat /\ debt[t] \in Nat /\ seen[t] \in Int
  BY DEF IInv, TypeOK, Samples
<1>2. Raw \in BOOLEAN
  BY DEF Raw
<1> QED
  BY <1>1, <1>2, NeedCovers DEF Need

\* A new job owes every observed target what it needs.
LEMMA NewJobIs ==
  ASSUME IInv, NEW seen \in Samples, NEW bal \in Nat, NEW f \in Nat, NEW rate \in Nat \ {0},
         NEW j, j = NewJob(seen, bal, f, rate)
  PROVE  /\ IsJob(j) /\ JobOK(j, nextId + 1, mint) /\ j.id = nextId /\ j.pending = None
         /\ j.seen = seen
         /\ \A i \in DOMAIN j.items : j.items[i].need = Need(Targets[i], seen)
                                      /\ j.items[i].minted = 0
<1> DEFINE D == Observed(seen)
           need == [i \in D |-> Need(Targets[i], seen)]
           plan == IF Raw THEN AllocationPlan(need, bal, f, rate)
                   ELSE SpendAllPlan(need, bal, f)
           item(i) == [t |-> Targets[i], need |-> need[i], gross |-> plan.gross[i],
                       amount |-> plan.amount[i], minted |-> 0]
           items == [i \in D |-> item(i)]
           pl == ~Raw \/ ~plan.funded
<1>1. D \in SUBSET DOMAIN Targets /\ \A i \in DOMAIN Targets : Targets[i] \in Target
  BY DEF Observed, Target
<1>2. IsFiniteSet(D)
  BY <1>1, TargetsFinite, FS_Subset
<1>3. need \in [D -> Nat] /\ DOMAIN need = D
  BY <1>1, NeedIs
<1>4. NewJob(seen, bal, f, rate) =
        [id |-> nextId, fee |-> f, bal |-> bal, seen |-> seen, items |-> items,
         next |-> 1, surplus |-> <<>>, snext |-> 1, planned |-> pl, pending |-> None,
         dirty |-> FALSE]
  BY Zenon, <1>3 DEF NewJob
<1>5. \A i \in D : need[i] = Need(Targets[i], seen)
  OBVIOUS
<1>6. pl \in BOOLEAN /\ (~pl => Raw)
  OBVIOUS
<1> HIDE DEF D, need, pl
<1>7. \A i \in D : plan.gross[i] \in Nat /\ plan.amount[i] \in Nat
  <2>1. \A i \in D : /\ AllocationPlan(need, bal, f, rate).gross[i] \in Nat
                     /\ AllocationPlan(need, bal, f, rate).amount[i] \in Nat
                     /\ SpendAllPlan(need, bal, f).gross[i] \in Nat
                     /\ SpendAllPlan(need, bal, f).amount[i] \in Nat
    BY <1>2, <1>3, PlanNat
  <2> QED
    BY <2>1
<1> HIDE DEF plan
<1>8. \A i \in D : item(i) \in Item /\ item(i).t = Targets[i]
                   /\ item(i).need = Need(Targets[i], seen) /\ item(i).minted = 0
  BY <1>1, <1>3, <1>5, <1>7 DEF Item
<1> HIDE DEF item
<1>9. /\ items \in [D -> Item] /\ DOMAIN items = D
      /\ \A i \in D : /\ items[i].t = Targets[i] /\ items[i].minted = 0
                      /\ items[i].need = Need(Targets[i], seen)
  BY <1>8
<1> HIDE DEF items
<1>10. nextId \in Nat /\ <<>> \in Seq(Share) /\ Len(<<>>) = 0
  BY DEF IInv, TypeOK
<1>11. /\ j.id = nextId /\ j.fee = f /\ j.bal = bal /\ j.seen = seen /\ j.items = items
       /\ j.next = 1 /\ j.surplus = <<>> /\ j.snext = 1 /\ j.planned = pl
       /\ j.pending = None /\ j.dirty = FALSE
  BY <1>4
<1>12. IsJob(j)
  BY <1>1, <1>4, <1>6, <1>9, <1>10 DEF IsJob, Jobs
<1>13. ItemsOK(j, mint)
  BY <1>9, <1>11 DEF ItemsOK, D
<1>14. JobOK(j, nextId + 1, mint)
  BY <1>6, <1>10, <1>11, <1>13, EndNat DEF JobOK
<1> QED
  BY <1>9, <1>11, <1>12, <1>14

\* The books of the sampled targets start from the new sample.
LEMMA SampledBooks ==
  ASSUME IInv, NEW seen \in Samples, job = None,
         since' = [t \in Target |-> IF seen[t] >= 0 THEN 0 ELSE since[t]],
         \A t \in Target :
           Book(t)' = IF seen[t] >= 0 THEN seen[t] + since'[t] + Need(t, seen)
                      ELSE base[t] + since'[t] + debt[t]
  PROVE  Remembers
<1> SUFFICES ASSUME NEW t \in Target PROVE Book(t)' >= Book(t)
  BY DEF Remembers
<1>1. base[t] \in Int /\ since[t] \in Nat /\ debt[t] \in Nat /\ seen[t] \in Int
  BY DEF IInv, TypeOK, Samples
<1>2. Book(t) = base[t] + since[t] + debt[t]
  BY BookNone
<1>3. CASE seen[t] >= 0
  <2>1. since'[t] = 0 /\ Book(t)' = seen[t] + since'[t] + Need(t, seen)
    BY <1>3
  <2> QED
    BY <1>1, <1>2, <2>1, NeedIs
<1>4. CASE ~(seen[t] >= 0)
  <2>1. since'[t] = since[t] /\ Book(t)' = base[t] + since'[t] + debt[t]
    BY <1>4
  <2> QED
    BY <1>1, <1>2, <2>1
<1> QED
  BY <1>3, <1>4

LEMMA QuoteStep ==
  ASSUME IInv, NEW p \in Proc, QuoteReply(p)
  PROVE  Sound
<1> DEFINE seen == act[p].seen
           newSince == [t \in Target |-> IF seen[t] >= 0 THEN 0 ELSE since[t]]
<1>1. /\ act[p].pc = "quote"
      /\ UNCHANGED <<fails, ledger, cmc, late, left, failedTx, doubt>>
  BY DEF QuoteReply
<1>2. PICK live \in BOOLEAN, r \in Rates \cup {estimate} :
     /\ feeCache' = IF live THEN fee ELSE feeCache
     /\ IF ~Current(p)
        THEN Finish(p) /\ UNCHANGED <<nextId, job, accounting, estimate>>
        ELSE
        /\ \/ /\ act[p].bal = 0 /\ Finish(p)
              /\ base' = [t \in Target |-> IF seen[t] >= 0 THEN seen[t] ELSE base[t]]
              /\ debt' = [t \in Target |-> IF seen[t] >= 0 THEN Need(t, seen)
                                           ELSE debt[t]]
              /\ UNCHANGED <<nextId, job, estimate>>
           \/ /\ act[p].bal # 0
              /\ estimate' = IF Raw THEN r ELSE estimate
              /\ nextId' = nextId + 1
              /\ \E rate \in {estimate', Bootstrap} \ {0} :
                   Drive(p, NewJob(seen, act[p].bal, IF feeCache' = None THEN BootstrapFee
                                                     ELSE feeCache', rate), 0)
        /\ since' = newSince
  BY Zenon DEF QuoteReply
<1>3. Data /\ Typed /\ act[p].bal \in Nat /\ seen \in Samples
  BY <1>1, Nums DEF ActOK
<1>4. feeCache' \in Nat \cup {None}
  BY <1>2, <1>3 DEF Data
<1>5. newSince \in [Target -> Nat]
  BY <1>3 DEF Data, Samples
<1>6. CASE Finish(p) /\ UNCHANGED <<nextId, job, accounting, estimate>>
  <2>1. Core'
    BY <1>1, <1>6, LeaveStep DEF ledger, cmc
  <2>2. Data'
    BY <1>1, <1>3, <1>4, <1>6 DEF Data, accounting, ledger, cmc
  <2> QED
    BY <1>6, <2>1, <2>2, BooksKept DEF Sound
<1> HIDE DEF seen
<1>7. CASE /\ Current(p) /\ Finish(p)
           /\ base' = [t \in Target |-> IF seen[t] >= 0 THEN seen[t] ELSE base[t]]
           /\ debt' = [t \in Target |-> IF seen[t] >= 0 THEN Need(t, seen)
                                        ELSE debt[t]]
           /\ since' = newSince
           /\ UNCHANGED <<nextId, job, estimate>>
  <2>1. Core'
    BY <1>1, <1>7, LeaveStep DEF ledger, cmc
  <2>2. base' \in Samples
    BY <1>3, <1>7 DEF Data, Samples
  <2>3. debt' \in [Target -> Nat]
    BY <1>3, <1>7, NeedIs DEF Data
  <2>4. Data'
    BY <1>1, <1>3, <1>4, <1>5, <1>7, <2>2, <2>3 DEF Data, ledger, cmc
  <2>5. job = None /\ job' = None
    BY <1>7 DEF Current
  <2>6. \A t \in Target :
           Book(t)' = IF seen[t] >= 0 THEN seen[t] + since'[t] + Need(t, seen)
                      ELSE base[t] + since'[t] + debt[t]
    BY <1>7, <2>5, BookNone
  <2>7. Remembers
    BY <1>3, <1>7, <2>5, <2>6, SampledBooks
  <2> QED
    BY <2>1, <2>4, <2>7 DEF Sound
<1>8. ASSUME Current(p), NEW rate \in Nat \ {0}, NEW f \in Nat, estimate' \in Nat,
             nextId' = nextId + 1, since' = newSince,
             Drive(p, NewJob(seen, act[p].bal, f, rate), 0)
      PROVE  Sound
  <2> DEFINE j == NewJob(seen, act[p].bal, f, rate)
  <2>1. /\ IsJob(j) /\ JobOK(j, nextId + 1, mint) /\ j.id = nextId /\ j.pending = None
        /\ j.seen = seen
        /\ \A i \in DOMAIN j.items : j.items[i].need = Need(Targets[i], seen)
                                     /\ j.items[i].minted = 0
    BY <1>3, NewJobIs
  <2>2. Drive(p, j, 0) /\ 0 \in Nat
    BY <1>8
  <2> HIDE DEF j
  <2>3. Ends(p, j, nextId')
    BY <1>3, <1>8, <2>1, <2>2, DriveEnds
  <2>4. nextId \in Nat /\ nextId' \in Nat /\ nextId' >= nextId /\ j.id >= nextId
    BY <1>3, <1>8, <2>1 DEF Data
  <2>5. lease = p /\ job = None
    BY <1>8 DEF Current
  <2>6. Core'
    BY <1>1, <2>1, <2>3, <2>4, <2>5, EndsStep DEF ledger, cmc
  <2>7. base' \in Samples /\ debt' \in [Target -> Nat] /\ SameBooks(j)
    BY <2>3, Zenon DEF Ends
  <2>8. Data'
    BY <1>1, <1>3, <1>4, <1>5, <1>8, <2>4, <2>7 DEF Data, ledger, cmc
  <2>9. ItemsOK(j, mint)
    BY <2>1 DEF JobOK
  <2>10. \A t \in Target :
           Book(t)' = IF seen[t] >= 0 THEN seen[t] + since'[t] + Need(t, seen)
                      ELSE base[t] + since'[t] + debt[t]
    <3> TAKE t \in Target
    <3>1. Book(t)' = BookOf(j, base, since', debt, t)
      BY <2>7, BookIs DEF SameBooks
    <3>2. CASE ~(seen[t] >= 0)
      BY <2>1, <2>9, <3>1, <3>2, BookOff
    <3>3. CASE seen[t] >= 0
      <4>1. PICK i \in DOMAIN j.items : Targets[i] = t
        BY <2>1, <2>9, <3>3, OnOrOff
      <4>2. Book(t)' = j.seen[t] + since'[t] + Monus(j.items[i].need, j.items[i].minted)
        <5>1. IsJob(j) /\ ItemsOK(j, mint)
          BY <2>1, <2>9
        <5>2. \A s : BookOf(j, base, s, debt, Targets[i])
                = j.seen[Targets[i]] + s[Targets[i]]
                    + Monus(j.items[i].need, j.items[i].minted)
          BY <5>1, BookOn
        <5> QED
          BY <3>1, <4>1, <5>2
      <4>3. Need(t, seen) \in Nat
        BY <1>3, NeedIs
      <4>4. Monus(j.items[i].need, j.items[i].minted) = Need(t, seen)
        BY <2>1, <4>1, <4>3 DEF Monus
      <4> QED
        BY <2>1, <3>3, <4>2, <4>4
    <3> QED
      BY <3>2, <3>3
  <2>11. Remembers
    BY <1>3, <1>8, <2>5, <2>10, SampledBooks
  <2> QED
    BY <2>6, <2>8, <2>11 DEF Sound
<1>9. CASE /\ Current(p)
           /\ estimate' = IF Raw THEN r ELSE estimate
           /\ nextId' = nextId + 1
           /\ \E rate \in {estimate', Bootstrap} \ {0} :
                Drive(p, NewJob(seen, act[p].bal, IF feeCache' = None THEN BootstrapFee
                                                     ELSE feeCache', rate), 0)
           /\ since' = newSince
  <2> DEFINE f == IF feeCache' = None THEN BootstrapFee ELSE feeCache'
  <2>1. estimate' \in Nat
    BY <1>2, <1>3, <1>9, JobAssumption DEF Data
  <2>2. f \in Nat
    BY <1>4, JobAssumption
  <2>3. PICK rate \in {estimate', Bootstrap} \ {0} :
                Drive(p, NewJob(seen, act[p].bal, f, rate), 0)
    BY <1>9
  <2>4. rate \in Nat \ {0}
    BY <2>1, JobAssumption
  <2> HIDE DEF f
  <2> QED
    BY <1>8, <1>9, <2>1, <2>2, <2>3, <2>4
<1> HIDE DEF newSince
<1> QED
  BY <1>2, <1>6, <1>7, <1>9, Zenon DEF seen

\* The answer is about the pending transfer.
LEMMA MatchedIs ==
  ASSUME IInv, NEW p \in Proc, Busy(act[p]), Matches(p)
  PROVE  /\ job # None /\ IsJob(job) /\ JobOK(job, nextId, mint)
         /\ job.pending = act[p].tx /\ job.pending # None
         /\ act[p].tx \in Txs /\ act[p].tx.id \in Ids
<1>1. act[p].tx \in Txs /\ job # None /\ job.pending = act[p].tx
  BY Nums DEF ActOK, Matches
<1>2. act[p].tx \in Txs /\ act[p].tx.id \in Ids /\ act[p].tx # None
  BY <1>1, NoneAssumption DEF Txs
<1> QED
  BY <1>1, <1>2, Nums

LEMMA AcceptedOK ==
  ASSUME NEW j, IsJob(j), NEW nid, NEW mt, JobOK(j, nid, mt), j.pending # None,
         j.pending.id[2] = "topup", NEW k, k = Accepted(j)
  PROVE  /\ JobOK(k, nid, mt) /\ IsJob(k) /\ Follows(k, j) /\ SameItems(k, j)
         /\ k.pending # None /\ k.pending.accepted /\ k.pending.id = j.pending.id
<1>1. j.pending \in Txs /\ j.next \in Nat /\ j.snext \in Nat
  BY Fields
<1> DEFINE x == [j.pending EXCEPT !.accepted = TRUE]
<1>2. x \in Txs /\ x.id = j.pending.id /\ x.accepted
  BY <1>1 DEF Txs
<1>3. Built(k, j, j.items, j.next, j.surplus, j.snext, j.planned, x, j.dirty) /\ IsJob(k)
  BY <1>1, AcceptedIs
<1> HIDE DEF x
<1>4. x # None
  BY <1>2, NoneAssumption
<1>5. PendingOK(k)
  BY <1>2, <1>3 DEF PendingOK, JobOK, Built
<1>6. JobOK(k, nid, mt)
  BY <1>3, <1>5 DEF JobOK, ItemsOK, Built
<1> QED
  BY <1>1, <1>2, <1>3, <1>4, <1>6 DEF Built, Follows, SameItems

LEMMA SendStep ==
  ASSUME IInv, NEW p \in Proc, NEW k \in 1 .. 2, SendReply(p, k)
  PROVE  Sound
<1> DEFINE r == act[p].reply
<1>1. /\ act[p].pc = (IF k = 1 THEN "send1" ELSE "send2") /\ r # "none"
      /\ UNCHANGED since /\ SamplesKept
  BY DEF SendReply
<1>2. Busy(act[p]) /\ Data /\ Typed /\ act[p] \in Acts
      /\ ActOK(act[p], job, nextId, mint, executed, late, doubt) /\ act[p].n \in Nat
  BY <1>1, Nums DEF Busy, Sends
<1>3. /\ UNCHANGED <<nextId, since, fails, estimate, ledger, cmc, late, left>>
      /\ doubt' \in SUBSET Ids /\ doubt \subseteq doubt' /\ doubt' = doubt
  BY <1>1, <1>2 DEF SamplesKept, Data
<1>4. CASE Finish(p) /\ KeepSamples /\ UNCHANGED <<job, feeCache, failedTx>>
  BY <1>3, <1>4, LeftTyped, FinishStep DEF KeepSamples, accounting
<1>5. ASSUME Matches(p), feeCache' \in Nat \cup {None}, NEW j, IsJob(j),
             Ends(p, j, nextId), Follows(j, job), SameItems(j, job), j.pending = None,
             failedTx' = failedTx \/
               /\ failedTx' = failedTx \cup {act[p].tx.id}
               /\ act[p].tx.id \notin doubt => Unsent(act[p].tx.id, executed, late)
      PROVE  Sound
  <2>1. job # None /\ job.pending # None /\ act[p].tx.id \in Ids
    BY <1>2, <1>5, MatchedIs
  <2>2. failedTx' \in SUBSET Ids
    BY <1>2, <1>5, <2>1 DEF Data
  <2>3. \A id \in failedTx' : id \notin failedTx =>
           /\ Busy(act[p]) /\ id = act[p].tx.id /\ j.pending = None
           /\ id \notin doubt' => Unsent(id, executed, late)
    BY <1>2, <1>3, <1>5
  <2> QED
    BY <1>3, <1>5, <2>1, <2>2, <2>3, DriveStep
<1>6. CASE Matches(p) /\ Dispatch(p, Accepted(job), act[p].n)
           /\ act[p].tx.id[2] = "topup" /\ UNCHANGED <<feeCache, failedTx>>
  <2> DEFINE j == Accepted(job)
  <2>1. /\ job # None /\ IsJob(job) /\ JobOK(job, nextId, mint)
        /\ job.pending = act[p].tx /\ job.pending # None
    BY <1>2, <1>6, MatchedIs
  <2>2. /\ JobOK(j, nextId, mint) /\ IsJob(j) /\ Follows(j, job) /\ SameItems(j, job)
        /\ j.pending # None /\ j.pending.accepted /\ j.pending.id = job.pending.id
    BY <1>6, <2>1, AcceptedOK
  <2>3. Dispatch(p, j, act[p].n)
    BY <1>6
  <2> HIDE DEF j
  <2>4. Follows(j, j) /\ SameItems(j, j)
    BY <2>2, FollowsItself
  <2>5. Ends(p, j, nextId)
    BY <1>2, <2>2, <2>3, <2>4, DispatchEnds
  <2>6. feeCache' \in Nat \cup {None} /\ failedTx' \in SUBSET Ids /\ failedTx' = failedTx
    BY <1>2, <1>6 DEF Data
  <2> QED
    BY <1>2, <1>3, <2>1, <2>2, <2>5, <2>6, DriveStep
<1>7. CASE Matches(p) /\ Settle(p, Completed(job)) /\ UNCHANGED <<feeCache, failedTx>>
  <2>1. IsJob(job) /\ JobOK(job, nextId, mint)
    BY <1>2, <1>7, MatchedIs
  <2>2. /\ JobOK(Completed(job), nextId, mint) /\ IsJob(Completed(job))
        /\ Follows(Completed(job), job) /\ SameItems(Completed(job), job)
        /\ Completed(job).pending = None
    BY <2>1, CompletedOK
  <2>3. Ends(p, Completed(job), nextId)
    BY <1>2, <1>7, <2>2, SettleEnds
  <2>4. feeCache' \in Nat \cup {None}
    BY <1>2, <1>7 DEF Data
  <2> QED
    BY <1>5, <1>7, <2>2, <2>3, <2>4
<1>8. CASE /\ k = 1 /\ Wait(p, [act[p] EXCEPT !.pc = "send2", !.reply = "none"])
           /\ KeepSamples /\ UNCHANGED <<job, feeCache, failedTx>>
  <2> DEFINE a == [act[p] EXCEPT !.pc = "send2", !.reply = "none"]
  <2>1. /\ a \in Acts /\ a.pc = "send2" /\ a.tx = act[p].tx
    BY <1>2 DEF Acts, Sends
  <2>2. act' = [act EXCEPT ![p] = a] /\ lease' = lease
    BY <1>8 DEF Wait
  <2> HIDE DEF a
  <2>3. ActOK(a, job, nextId, mint, executed, late, doubt)
    BY <1>1, <1>2, <1>8, <2>1 DEF ActOK, Busy, Sends, Asks
  <2>4. UNCHANGED accounting
    BY <1>3, <1>8 DEF KeepSamples, accounting
  <2> QED
    BY <1>2, <1>3, <1>8, <2>1, <2>2, <2>3, <2>4, LeftTyped, QuietStep
<1>9. ASSUME r = "badfee" \/ r = "failed" \/ k = 2, NoteVerdict(p, Verdict(k))
      PROVE  failedTx' = failedTx \/
               /\ failedTx' = failedTx \cup {act[p].tx.id}
               /\ act[p].tx.id \notin doubt => Unsent(act[p].tx.id, executed, late)
  <2>1. CASE k = 2
    BY <1>9, <2>1 DEF NoteVerdict, Verdict, SecondVerdict
  <2>2. CASE k = 1
    BY <1>1, <1>2, <1>9, <2>2 DEF NoteVerdict, Verdict, ActOK
  <2> QED
    BY <2>1, <2>2
<1>10. CASE /\ Matches(p) /\ r = "badfee" /\ feeCache' = fee
            /\ NoteVerdict(p, Verdict(k)) /\ StopForFee(p, job)
  <2>1. IsJob(job) /\ JobOK(job, nextId, mint)
    BY <1>2, <1>10, MatchedIs
  <2>2. /\ JobOK(Completed(job), nextId, mint) /\ IsJob(Completed(job))
        /\ Follows(Completed(job), job) /\ SameItems(Completed(job), job)
        /\ Completed(job).pending = None
    BY <2>1, CompletedOK
  <2>3. CompleteJob(p, Completed(job))
    BY <1>10 DEF StopForFee, Completed
  <2>4. SameItems(Completed(job), Completed(job)) /\ ItemsOK(Completed(job), mint)
    BY <2>2, FollowsItself DEF JobOK
  <2>5. Ends(p, Completed(job), nextId)
    BY <1>2, <2>2, <2>3, <2>4, CompleteEnds
  <2>6. feeCache' \in Nat \cup {None}
    BY <1>2, <1>10 DEF Data
  <2> QED
    BY <1>5, <1>9, <1>10, <2>2, <2>5, <2>6
<1>11. CASE /\ Matches(p) /\ (r = "failed" \/ (r = "retry" /\ k = 2))
            /\ NoteVerdict(p, Verdict(k)) /\ Settle(p, Unclean(job))
            /\ UNCHANGED feeCache
  <2>1. IsJob(job) /\ JobOK(job, nextId, mint)
    BY <1>2, <1>11, MatchedIs
  <2>2. /\ JobOK(Unclean(job), nextId, mint) /\ IsJob(Unclean(job))
        /\ Follows(Unclean(job), job) /\ SameItems(Unclean(job), job)
        /\ Unclean(job).pending = None
    BY <2>1, CompletedOK
  <2>3. Ends(p, Unclean(job), nextId)
    BY <1>2, <1>11, <2>2, SettleEnds
  <2>4. feeCache' \in Nat \cup {None}
    BY <1>2, <1>11 DEF Data
  <2> QED
    BY <1>5, <1>9, <1>11, <2>2, <2>3, <2>4
<1> QED
  BY <1>4, <1>6, <1>7, <1>8, <1>10, <1>11, Zenon DEF SendReply

\* Minted cycles move from what the job owes to what was minted since the sample.
LEMMA MintedOK ==
  ASSUME NEW j, IsJob(j), NEW nid, NEW mt, JobOK(j, nid, mt), NEW i \in DOMAIN j.items,
         j.items[i].minted = 0, i < j.next, NEW m \in Nat,
         m \in MintOf(mt, <<j.id, "topup", i>>), NEW k, k = Minted(j, i, m)
  PROVE  /\ JobOK(k, nid, mt) /\ IsJob(k) /\ Follows(k, j) /\ k.pending = None
         /\ k.seen = j.seen /\ DOMAIN k.items = DOMAIN j.items
         /\ k.items[i].minted = m
         /\ \A n \in DOMAIN j.items : /\ k.items[n].need = j.items[n].need
                                      /\ n # i => k.items[n].minted = j.items[n].minted
<1> DEFINE its == [j.items EXCEPT ![i].minted = @ + m]
<1>1. Built(k, j, its, j.next, j.surplus, j.snext, j.planned, None, j.dirty) /\ IsJob(k)
  BY MintedIs
<1>2. j.next \in Nat /\ j.snext \in Nat /\ i \in Nat
  BY Fields, EndNat
<1>3. j.items \in [DOMAIN j.items -> Item] /\ j.items[i] \in Item
  BY DEF IsJob
<1>4. DOMAIN its = DOMAIN j.items /\ \A n \in DOMAIN j.items : n # i => its[n] = j.items[n]
  BY <1>3
<1>5. /\ its[i].minted = m /\ its[i].need = j.items[i].need /\ its[i].t = j.items[i].t
  BY <1>3 DEF Item
<1> HIDE DEF its
<1>6. ItemsOK(j, mt)
  BY DEF JobOK
<1>7. ItemsOK(k, mt)
  <2>1. DOMAIN k.items = Observed(k.seen)
    BY <1>1, <1>4, <1>6 DEF ItemsOK, Built
  <2>2. ASSUME NEW n \in DOMAIN k.items
        PROVE  /\ k.items[n].t = Targets[n]
               /\ k.items[n].minted \in {0} \cup MintOf(mt, <<k.id, "topup", n>>)
               /\ n >= k.next => k.items[n].minted = 0
    <3>1. CASE n = i
      BY <1>1, <1>2, <1>4, <1>5, <1>6, <3>1 DEF ItemsOK, Built
    <3>2. CASE n # i
      BY <1>1, <1>4, <1>6, <2>2, <3>2 DEF ItemsOK, Built
    <3> QED
      BY <3>1, <3>2
  <2> QED
    BY <2>1, <2>2 DEF ItemsOK
<1>8. JobOK(k, nid, mt)
  BY <1>1, <1>7 DEF JobOK, Built
<1> QED
  BY <1>1, <1>2, <1>4, <1>5, <1>8 DEF Built, Follows

LEMMA MintedBooks ==
  ASSUME IInv, job # None, NEW i \in DOMAIN job.items, job.items[i].minted = 0,
         NEW m \in Nat, NEW k, IsJob(k), NEW mt, ItemsOK(k, mt), SameBooks(k),
         k.seen = job.seen, DOMAIN k.items = DOMAIN job.items, k.items[i].minted = m,
         \A n \in DOMAIN job.items :
           /\ k.items[n].need = job.items[n].need
           /\ n # i => k.items[n].minted = job.items[n].minted,
         since' = Corrected(job.items[i].t, m)
  PROVE  Remembers
<1> SUFFICES ASSUME NEW t \in Target PROVE Book(t)' >= Book(t)
  BY DEF Remembers
<1>1. IsJob(job) /\ ItemsOK(job, mint) /\ since \in [Target -> Nat]
  BY DEF IInv, TypeOK, JobOK
<1>2. job.items[i].t = Targets[i] /\ Targets[i] \in Target /\ job.seen[Targets[i]] >= 0
  BY <1>1, OneItem DEF ItemsOK
<1>3. /\ since'[Targets[i]] = since[Targets[i]] + m
      /\ \A u \in Target : u # Targets[i] => since'[u] = since[u]
  BY <1>1, <1>2 DEF Corrected
<1>4. Book(t)' = BookOf(k, base, since', debt, t)
  BY BookIs DEF SameBooks
<1>5. Book(t) = BookOf(job, base, since, debt, t) /\ Book(t) \in Int
  BY BookIs, BookInt
<1>6. CASE ~(job.seen[t] >= 0)
  <2>1. t # Targets[i]
    BY <1>2, <1>6
  <2>2. \A s : BookOf(k, base, s, debt, t) = base[t] + s[t] + debt[t]
    BY <1>6, BookOff
  <2>3. \A s : BookOf(job, base, s, debt, t) = base[t] + s[t] + debt[t]
    BY <1>1, <1>6, BookOff
  <2> QED
    BY <1>3, <1>4, <1>5, <2>1, <2>2, <2>3
<1>7. CASE \E n \in DOMAIN job.items : Targets[n] = t
  <2>1. PICK n \in DOMAIN job.items : Targets[n] = t
    BY <1>7
  <2>2. \A s : BookOf(k, base, s, debt, t)
                 = k.seen[t] + s[t] + Monus(k.items[n].need, k.items[n].minted)
    <3>1. n \in DOMAIN k.items
      OBVIOUS
    <3>2. \A s : InItem(k, n, base, s, debt)
      BY <3>1, BookInItem, Zenon
    <3> QED
      BY <2>1, <3>2, Zenon DEF InItem
  <2>3. \A s : BookOf(job, base, s, debt, t)
                 = job.seen[t] + s[t] + Monus(job.items[n].need, job.items[n].minted)
    <3>1. \A s : InItem(job, n, base, s, debt)
      BY <1>1, <2>1, BookInItem, Zenon
    <3> QED
      BY <2>1, <3>1, Zenon DEF InItem
  <2>4. CASE n # i
    <3>1. t # Targets[i]
      <4>1. job.items[n].t = Targets[n]
        BY <1>1, <2>1 DEF ItemsOK
      <4> QED
        BY <1>1, <2>1, <2>4, <4>1, OneItem
    <3>2. since'[t] = since[t]
      BY <1>3, <3>1
    <3>3. /\ k.seen[t] = job.seen[t] /\ k.items[n].need = job.items[n].need
          /\ k.items[n].minted = job.items[n].minted
      BY <2>1, <2>4
    <3>4. Book(t)' = Book(t)
      BY <1>4, <1>5, <2>2, <2>3, <3>2, <3>3, Zenon
    <3> QED
      BY <1>5, <3>4
  <2>5. CASE n = i
    <3> DEFINE need == job.items[i].need
    <3>1. need \in Nat
      BY <1>1, ItemFields
    <3>2. /\ Book(t) = job.seen[t] + since[t] + Monus(need, 0)
          /\ Book(t)' = job.seen[t] + since[t] + m + Monus(need, m)
      <4>1. Book(t)' = job.seen[t] + (since[t] + m) + Monus(need, m)
        BY <1>3, <1>4, <2>1, <2>2, <2>5
      <4>2. job.seen[t] \in Int /\ since[t] \in Nat /\ Monus(need, m) \in Int
        BY <1>1, <3>1, Fields DEF Samples, Monus
      <4> HIDE DEF need
      <4>3. Book(t) = job.seen[t] + since[t] + Monus(need, 0)
        BY <1>5, <2>3, <2>5 DEF need
      <4> QED
        BY <4>1, <4>2, <4>3
    <3>3. job.seen[t] \in Int /\ since[t] \in Nat
      BY <1>1, Fields DEF Samples
    <3> HIDE DEF need
    <3> QED
      BY <3>1, <3>2, <3>3 DEF Monus
  <2> QED
    BY <2>4, <2>5
<1> QED
  BY <1>1, <1>6, <1>7, OnOrOff

LEMMA NotifyStep ==
  ASSUME IInv, NEW p \in Proc, NEW k \in 1 .. 2, NotifyReply(p, k)
  PROVE  Sound
<1> DEFINE r == act[p].reply
           i == act[p].tx.id[3]
           m == mint[act[p].tx.id]
<1>1. /\ act[p].pc = (IF k = 1 THEN "notify1" ELSE "notify2") /\ r # "none"
      /\ UNCHANGED <<feeCache, failedTx>> /\ SamplesKept
  BY DEF NotifyReply
<1>2. Busy(act[p]) /\ Data /\ Typed /\ act[p] \in Acts /\ act[p].pc \in Asks
      /\ ActOK(act[p], job, nextId, mint, executed, late, doubt) /\ act[p].n \in Nat
  BY <1>1, Nums DEF Busy, Asks
<1>3. /\ UNCHANGED <<nextId, fails, estimate, ledger, cmc, late, left>>
      /\ feeCache' \in Nat \cup {None} /\ failedTx' \in SUBSET Ids
      /\ doubt' \in SUBSET Ids /\ doubt \subseteq doubt' /\ doubt' = doubt
      /\ failedTx' = failedTx /\ feeCache' = feeCache
  BY <1>1, <1>2 DEF SamplesKept, Data
<1>4. CASE Finish(p) /\ KeepSamples /\ UNCHANGED <<job, since>>
  BY <1>3, <1>4, LeftTyped, FinishStep DEF KeepSamples, accounting
<1>5. CASE /\ k = 1 /\ Wait(p, [act[p] EXCEPT !.pc = "notify2", !.reply = "none"])
           /\ KeepSamples /\ UNCHANGED <<job, since>>
  <2> DEFINE a == [act[p] EXCEPT !.pc = "notify2", !.reply = "none"]
  <2>1. a \in Acts /\ a.pc = "notify2" /\ a.tx = act[p].tx /\ a.reply = "none"
    BY <1>2 DEF Acts, Asks
  <2>2. act' = [act EXCEPT ![p] = a] /\ lease' = lease
    BY <1>5 DEF Wait
  <2> HIDE DEF a
  <2>3. ActOK(a, job, nextId, mint, executed, late, doubt)
    BY <1>1, <1>2, <1>5, <2>1 DEF ActOK, Busy, Sends, Asks
  <2>4. UNCHANGED accounting
    BY <1>5 DEF KeepSamples, accounting
  <2> QED
    BY <1>2, <1>3, <1>5, <2>1, <2>2, <2>3, <2>4, LeftTyped, QuietStep
<1>6. CASE Matches(p) /\ Settle(p, Unclean(job)) /\ UNCHANGED since
  <2>1. IsJob(job) /\ JobOK(job, nextId, mint) /\ job # None /\ job.pending # None
    BY <1>2, <1>6, MatchedIs
  <2>2. /\ JobOK(Unclean(job), nextId, mint) /\ IsJob(Unclean(job))
        /\ Follows(Unclean(job), job) /\ SameItems(Unclean(job), job)
        /\ Unclean(job).pending = None
    BY <2>1, CompletedOK
  <2>3. Ends(p, Unclean(job), nextId)
    BY <1>2, <1>6, <2>2, SettleEnds
  <2> QED
    BY <1>3, <1>6, <2>1, <2>2, <2>3, DriveStep
<1>7. CASE /\ Matches(p) /\ r = "ok" /\ Settle(p, Minted(job, i, m))
           /\ since' = Corrected(job.items[i].t, m)
  <2>1. /\ IsJob(job) /\ JobOK(job, nextId, mint) /\ job # None /\ job.pending # None
        /\ job.pending = act[p].tx /\ act[p].tx.id \in Ids /\ act[p].tx.accepted
    BY <1>2, <1>7, MatchedIs DEF ActOK
  <2>2. /\ act[p].tx.id[1] = job.id /\ act[p].tx.id[2] = "topup" /\ i \in DOMAIN job.items
        /\ i < job.next /\ job.items[i].minted = 0
    <3>1. PendingOK(job) /\ act[p].tx.id[2] \in Kinds
      BY <2>1, IdsAre DEF JobOK
    <3> QED
      BY <2>1, <3>1 DEF PendingOK, Kinds
  <2>3. act[p].tx.id = <<job.id, "topup", i>>
    BY <2>1, <2>2 DEF Ids
  <2>4. act[p].tx.id \in DOMAIN mint /\ m \in Nat
    BY <1>2, <1>7 DEF ActOK, Data
  <2>5. m \in MintOf(mint, <<job.id, "topup", i>>)
    BY <2>3, <2>4 DEF MintOf
  <2> DEFINE j == Minted(job, i, m)
  <2>6. Settle(p, j) /\ j = Minted(job, i, m)
    BY <1>7
  <2> HIDE DEF j, i, m
  <2>7. /\ JobOK(j, nextId, mint) /\ IsJob(j) /\ Follows(j, job) /\ j.pending = None
        /\ j.seen = job.seen /\ DOMAIN j.items = DOMAIN job.items
        /\ j.items[i].minted = m
        /\ \A n \in DOMAIN job.items :
             /\ j.items[n].need = job.items[n].need
             /\ n # i => j.items[n].minted = job.items[n].minted
    BY <2>1, <2>2, <2>4, <2>5, <2>6, MintedOK
  <2>8. Ends(p, j, nextId) /\ nextId' = nextId
    BY <1>2, <1>3, <2>6, <2>7, SettleEnds
  <2>9. nextId' \in Nat /\ nextId' >= nextId
    BY <1>2, <2>8 DEF Data
  <2>10. Core'
    BY <1>3, <2>1, <2>7, <2>8, <2>9, EndsStep DEF ledger, cmc
  <2>11. base' \in Samples /\ debt' \in [Target -> Nat] /\ SameBooks(j)
    BY <2>8, Zenon DEF Ends
  <2>12. since' \in [Target -> Nat]
    <3>1. job.items[i].t \in Target
      BY <2>1, <2>2, ItemFields
    <3> QED
      BY <1>2, <1>7, <2>4, <3>1 DEF Corrected, Data
  <2>13. Data'
    BY <1>2, <1>3, <2>11, <2>12 DEF Data, ledger, cmc
  <2>14. ItemsOK(j, mint)
    BY <2>7 DEF JobOK
  <2>15. Remembers
    BY <1>7, <2>1, <2>2, <2>4, <2>7, <2>11, <2>14, MintedBooks
  <2> QED
    BY <2>10, <2>13, <2>15 DEF Sound
<1> QED
  BY <1>4, <1>5, <1>6, <1>7, Zenon DEF NotifyReply

\* No identity is this one.
Nobody == <<0, "topup", 0>>

LEMMA NobodyIs == IInv => /\ Nobody \notin Ids /\ Nobody \notin failedTx
                          /\ \A q \in Proc : Busy(act[q]) => act[q].tx.id # Nobody
<1>1. Nobody \notin Ids
  BY IdsAre DEF Nobody
<1> QED
  BY <1>1, Known DEF IInv, TypeOK

LEMMA AnswerIs ==
  ASSUME IInv, NEW p \in Proc,
         NEW y \in {"none", "ok", "retry", "badfee", "failed", "terminal"}, Answer(p, y)
  PROVE  /\ act' \in [Proc -> Acts]
         /\ act'[p].reply = y /\ \A q \in Proc : SameButReply(act'[q], act[q])
         /\ \A q \in Proc : q # p => act'[q] = act[q]
<1>1. act \in [Proc -> Acts] /\ act[p] \in Acts
  BY Nums
<1> DEFINE a == [act[p] EXCEPT !.reply = y]
<1>2. a \in Acts /\ SameButReply(a, act[p]) /\ a.reply = y
  BY <1>1 DEF Acts, SameButReply
<1>3. act' = [act EXCEPT ![p] = a]
  BY DEF Answer
<1> HIDE DEF a
<1> QED
  BY <1>1, <1>2, <1>3 DEF SameButReply

\* The transfer of a waiting activation is known, and not given up as failed.
LEMMA WaitingIs ==
  ASSUME IInv, NEW p \in Proc, Busy(act[p])
  PROVE  /\ act[p].tx \in Txs /\ act[p].tx.id \in Ids /\ Used(act[p].tx.id, job, nextId)
         /\ act[p].tx.gross \in Nat /\ act[p].tx.amount \in Nat
         /\ act[p].tx.id \notin failedTx \ doubt
         /\ \A q \in Proc : q # p /\ Busy(act[q]) /\ act[q].tx.id = act[p].tx.id =>
              act[p].tx.id \in doubt
<1>1. act[p].tx \in Txs /\ Used(act[p].tx.id, job, nextId)
  BY Nums DEF ActOK
<1>2. act[p].tx.id \notin failedTx \ doubt
  BY DEF IInv, FailedOK
<1>3. \A q \in Proc : q # p /\ Busy(act[q]) /\ act[q].tx.id = act[p].tx.id =>
              act[p].tx.id \in doubt
  BY DEF IInv, Alone
<1> QED
  BY <1>1, <1>2, <1>3 DEF Txs

\* The ledger or the CMC answers p; it may have taken up or kept the transfer of
\* p, and then does not call it refused.
LEMMA ReplyStep ==
  ASSUME IInv, NEW p \in Proc, Busy(act[p]), act[p].reply = "none",
         NEW y \in {"none", "ok", "retry", "badfee", "failed", "terminal"}, Answer(p, y),
         UNCHANGED <<lease, job, nextId, failedTx, doubt>>, Extends(mint', mint),
         act[p].pc \in Asks /\ y = "ok" => act[p].tx.id \in DOMAIN mint',
         NEW x \in {act[p].tx.id, Nobody},
         x # Nobody => y \notin Open \/ act[p].pc # "send1",
         \A id : id # x /\ Unsent(id, executed, late) => Unsent(id, executed', late'),
         executed' \subseteq executed \cup {act[p].tx.id},
         \A r \in late' : r \in late \/ r.tx = act[p].tx
  PROVE  Core'
<1>1. /\ act' \in [Proc -> Acts] /\ act'[p].reply = y
      /\ \A q \in Proc : SameButReply(act'[q], act[q])
      /\ \A q \in Proc : q # p => act'[q] = act[q]
  BY AnswerIs
<1>2. x \notin failedTx \ doubt
  BY WaitingIs, NobodyIs
<1>3. \A id \in executed' \cup {r.tx.id : r \in late'} : Used(id, job, nextId)
  BY WaitingIs, Known
<1>4. ASSUME NEW q \in Proc
      PROVE  /\ SameButReply(act'[q], act[q])
             /\ act[q].pc = "send1" /\ act'[q].reply \in Open =>
                  act[q].reply \in Open /\ (act[q].tx.id = x => x \in doubt)
             /\ act[q].pc \in Asks /\ act'[q].reply = "ok" =>
                  act[q].tx.id \in DOMAIN mint'
  <2>1. ActOK(act[q], job, nextId, mint, executed, late, doubt)
    BY DEF IInv
  <2>2. act[q].pc = "send1" => Busy(act[q])
    BY DEF Busy, Sends
  <2>3. CASE q = p
    BY <1>1, <2>2, <2>3, NobodyIs DEF Open
  <2>4. CASE q # p
    <3>1. act'[q] = act[q]
      BY <1>1, <2>4
    <3>2. act[q].pc = "send1" /\ act[q].tx.id = x => x \in doubt
      BY <2>2, <2>4, WaitingIs, NobodyIs
    <3>3. act[q].pc \in Asks /\ act[q].reply = "ok" => act[q].tx.id \in DOMAIN mint'
      BY <2>1 DEF ActOK, Extends
    <3> QED
      BY <1>1, <3>1, <3>2, <3>3
  <2> QED
    BY <2>3, <2>4
<1> QED
  BY <1>1, <1>2, <1>3, <1>4, WorldStep

LEMMA LeftFault == IInv /\ Fault => left' \in BudgetSet
  BY LeftTyped DEF Fault, BudgetSet

LEMMA MineIs ==
  ASSUME IInv, UNCHANGED Mine
  PROVE  /\ UNCHANGED <<lease, job, nextId, failedTx, doubt>> /\ Remembers
         /\ UNCHANGED <<base, since, debt, fails, estimate, feeCache>>
<1>1. UNCHANGED <<job, accounting>>
  BY DEF Mine
<1> QED
  BY <1>1, BooksKept DEF Mine, accounting

\* What the CMC does with a request: the cycles are minted under its identity.
LEMMA MintIs ==
  ASSUME IInv, NEW x \in Txs, MintCycles(x)
  PROVE  /\ Extends(mint', mint) /\ x.id \in DOMAIN mint'
         /\ DOMAIN mint' \subseteq Ids /\ mint' \in [DOMAIN mint' -> Nat]
         /\ cycles' \in [Target -> Nat] /\ refused' = refused
<1>1. PICK r \in Rates :
       /\ mint' = [i \in DOMAIN mint \cup {x.id} |->
                     IF i = x.id THEN x.amount * r ELSE mint[i]]
       /\ cycles' = [cycles EXCEPT ![x.t] = @ + x.amount * r]
  BY DEF MintCycles
<1> DEFINE m == x.amount * r
<1>2. m \in Nat
  <2>1. x.amount \in Nat /\ r \in Nat
    BY JobAssumption DEF Txs
  <2> QED
    BY <2>1, ProductNat
<1>3. mint' = [i \in DOMAIN mint \cup {x.id} |-> IF i = x.id THEN m ELSE mint[i]]
      /\ cycles' = [cycles EXCEPT ![x.t] = @ + m]
  BY <1>1
<1> HIDE DEF m
<1>4. DOMAIN mint \subseteq Ids /\ mint \in [DOMAIN mint -> Nat] /\ cycles \in [Target -> Nat]
      /\ x.id \in Ids /\ x.id \notin DOMAIN mint /\ refused' = refused
  BY DEF IInv, TypeOK, Txs, MintCycles
<1>5. cycles' \in [Target -> Nat]
  <2>1. CASE x.t \in Target
    BY <1>2, <1>3, <1>4, <2>1
  <2>2. CASE x.t \notin Target
    <3>1. cycles' = cycles
      BY <1>3, <1>4, <2>2
    <3> QED
      BY <1>4, <3>1
  <2> QED
    BY <2>1, <2>2
<1>6. DOMAIN mint' = DOMAIN mint \cup {x.id} /\ \A i \in DOMAIN mint' : mint'[i] \in Nat
  BY <1>2, <1>3, <1>4
<1>7. \A i \in DOMAIN mint : mint'[i] = mint[i]
  BY <1>3, <1>4
<1>8. mint' \in [DOMAIN mint' -> Nat]
  BY <1>3, <1>6
<1> QED
  BY <1>4, <1>5, <1>6, <1>7, <1>8 DEF Extends

LEMMA DebitIs ==
  ASSUME IInv, NEW x \in Txs, Debit(x)
  PROVE  /\ executed' = executed \cup {x.id} /\ executed' \subseteq Ids
         /\ balance' \in Nat /\ fee' = fee /\ aged' = aged
  BY DEF IInv, TypeOK, Txs, Debit

LEMMA SameMint == Extends(mint, mint)
  BY DEF Extends

LEMMA LedgerStep ==
  ASSUME IInv, NEW p \in Proc, LedgerReply(p)
  PROVE  Sound
<1> DEFINE x == act[p].tx
<1>1. /\ Busy(act[p]) /\ act[p].reply = "none" /\ act[p].pc \notin Asks
      /\ UNCHANGED Mine /\ UNCHANGED cmc
  BY DEF LedgerReply, Sending, Busy, Sends, Asks
<1>2. /\ UNCHANGED <<lease, job, nextId, failedTx, doubt>> /\ Remembers /\ Data
      /\ UNCHANGED <<base, since, debt, fails, estimate, feeCache, mint, refused, cycles>>
      /\ x \in Txs /\ Extends(mint', mint)
  BY <1>1, MineIs, Nums, WaitingIs, SameMint DEF cmc
<1>3. ASSUME NEW y \in {"badfee", "failed", "ok"}, Answer(p, y), UNCHANGED <<ledger, late, left>>
      PROVE  Sound
  <2>1. executed' = executed /\ late' = late
    BY <1>3 DEF ledger
  <2>2. Core'
    BY <1>1, <1>2, <1>3, <2>1, ReplyStep
  <2>3. Data'
    BY <1>2, <1>3 DEF Data, ledger
  <2> QED
    BY <1>2, <2>2, <2>3 DEF Sound
<1>4. CASE Debit(x) /\ Answer(p, "ok") /\ UNCHANGED <<late, left>>
  <2>1. /\ executed' = executed \cup {x.id} /\ executed' \subseteq Ids
        /\ balance' \in Nat /\ fee' = fee /\ aged' = aged
    BY <1>2, <1>4, DebitIs
  <2>2. \A id : id # x.id /\ Unsent(id, executed, late) => Unsent(id, executed', late')
    BY <1>4, <2>1 DEF Unsent
  <2>3. "ok" \notin Open /\ x.id \in {act[p].tx.id, Nobody}
    BY DEF Open
  <2>4. Core'
    BY <1>1, <1>2, <1>4, <2>1, <2>2, <2>3, ReplyStep
  <2>5. Data'
    BY <1>2, <1>4, <2>1 DEF Data
  <2> QED
    BY <1>2, <2>4, <2>5 DEF Sound
<1>5. CASE /\ Fault /\ Answer(p, "retry") /\ UNCHANGED ledger
           /\ late' \in {late, late \cup {[kind |-> "send", tx |-> x]}}
  <2> DEFINE r == [kind |-> "send", tx |-> x]
  <2>1. left' \in BudgetSet /\ executed' = executed
    BY <1>5, LeftFault DEF ledger
  <2>2. r.tx = x /\ r \in [kind : {"send", "notify"}, tx : Txs]
    BY <1>2
  <2>3. late' \in {late, late \cup {r}}
    BY <1>5
  <2> HIDE DEF r
  <2>4. \A id : id # x.id /\ Unsent(id, executed, late) => Unsent(id, executed', late')
    BY <2>1, <2>2, <2>3 DEF Unsent
  <2>5. "retry" \notin Open /\ x.id \in {act[p].tx.id, Nobody}
    BY DEF Open
  <2>6. \A s \in late' : s \in late \/ s.tx = act[p].tx
    BY <2>2, <2>3
  <2>7. Core'
    BY <1>1, <1>2, <1>5, <2>1, <2>4, <2>5, <2>6, ReplyStep
  <2>8. late' \subseteq [kind : {"send", "notify"}, tx : Txs]
    BY <1>2, <2>2, <2>3 DEF Data
  <2>9. Data'
    BY <1>2, <1>5, <2>1, <2>8 DEF Data, ledger
  <2> QED
    BY <1>2, <2>7, <2>9 DEF Sound
<1> QED
  BY <1>3, <1>4, <1>5, Zenon DEF LedgerReply

LEMMA CmcStep ==
  ASSUME IInv, NEW p \in Proc, CmcReply(p)
  PROVE  Sound
<1> DEFINE x == act[p].tx
<1>1. /\ Busy(act[p]) /\ act[p].reply = "none" /\ act[p].pc # "send1"
      /\ UNCHANGED Mine /\ UNCHANGED ledger
  BY DEF CmcReply, Asking, Busy, Sends, Asks
<1>2. /\ UNCHANGED <<lease, job, nextId, failedTx, doubt>> /\ Remembers /\ Data
      /\ UNCHANGED <<base, since, debt, fails, estimate, feeCache>>
      /\ UNCHANGED <<fee, balance, executed, aged>> /\ x \in Txs /\ x.id \in Ids
  BY <1>1, MineIs, Nums, WaitingIs DEF ledger
<1>3. ASSUME NEW y \in {"ok", "terminal", "retry"}, Answer(p, y), Extends(mint', mint),
             y = "ok" => x.id \in DOMAIN mint',
             DOMAIN mint' \subseteq Ids, mint' \in [DOMAIN mint' -> Nat],
             cycles' \in [Target -> Nat], refused' \in SUBSET Ids, left' \in BudgetSet,
             \A r \in late' : r \in late \/ r = [kind |-> "notify", tx |-> x]
      PROVE  Sound
  <2> DEFINE n == [kind |-> "notify", tx |-> x]
  <2>1. n.kind = "notify" /\ n.tx = x /\ n \in [kind : {"send", "notify"}, tx : Txs]
    BY <1>2
  <2>2. \A r \in late' : r \in late \/ r = n
    BY <1>3
  <2> HIDE DEF n
  <2>3. \A r \in late' : r \in late \/ (r.kind # "send" /\ r.tx = x)
    BY <2>1, <2>2
  <2>4. \A id : Unsent(id, executed, late) => Unsent(id, executed', late')
    BY <1>2, <2>3 DEF Unsent
  <2>5. Core'
    BY <1>1, <1>2, <1>3, <2>3, <2>4, ReplyStep
  <2>6. late' \subseteq [kind : {"send", "notify"}, tx : Txs]
    BY <1>2, <2>1, <2>2 DEF Data
  <2>7. Data'
    BY <1>2, <1>3, <2>6 DEF Data
  <2> QED
    BY <1>2, <2>5, <2>7 DEF Sound
<1>4. /\ DOMAIN mint \subseteq Ids /\ mint \in [DOMAIN mint -> Nat] /\ refused \subseteq Ids
      /\ cycles \in [Target -> Nat] /\ left \in BudgetSet
  BY <1>2 DEF Data
<1>5. CASE x.id \in DOMAIN mint /\ Answer(p, "ok") /\ UNCHANGED <<cmc, late, left>>
  BY <1>3, <1>4, <1>5, SameMint DEF cmc
<1>6. CASE MintCycles(x) /\ Answer(p, "ok") /\ UNCHANGED <<late, left>>
  <2>1. /\ Extends(mint', mint) /\ x.id \in DOMAIN mint'
        /\ DOMAIN mint' \subseteq Ids /\ mint' \in [DOMAIN mint' -> Nat]
        /\ cycles' \in [Target -> Nat] /\ refused' = refused
    BY <1>2, <1>6, MintIs
  <2> QED
    BY <1>3, <1>4, <1>6, <2>1
<1>7. CASE Answer(p, "terminal") /\ UNCHANGED <<cmc, late, left>>
  BY <1>3, <1>4, <1>7, SameMint DEF cmc
<1>8. CASE /\ Fault /\ refused' = refused \cup {x.id}
           /\ Answer(p, "terminal") /\ UNCHANGED <<mint, cycles, late>>
  BY <1>2, <1>3, <1>4, <1>8, SameMint, LeftFault
<1>9. CASE /\ Fault /\ Answer(p, "retry") /\ UNCHANGED cmc
           /\ late' \in {late, late \cup {[kind |-> "notify", tx |-> x]}}
  <2>1. left' \in BudgetSet
    BY <1>9, LeftFault
  <2>2. \A r \in late' : r \in late \/ r = [kind |-> "notify", tx |-> x]
    BY <1>9
  <2> QED
    BY <1>3, <1>4, <1>9, <2>1, <2>2, SameMint DEF cmc
<1> QED
  BY <1>5, <1>6, <1>7, <1>8, <1>9, Zenon DEF CmcReply

\* No activation is involved; at most the transfer x is executed.
LEMMA SilentStep ==
  ASSUME IInv, UNCHANGED Mine, UNCHANGED act, Extends(mint', mint), NEW x,
         x \notin failedTx \ doubt,
         \A q \in Proc : act[q].pc = "send1" /\ act[q].reply \in Open /\ act[q].tx.id = x =>
                           x \in doubt,
         \A id : id # x /\ Unsent(id, executed, late) => Unsent(id, executed', late'),
         \A id \in executed' \cup {r.tx.id : r \in late'} : Used(id, job, nextId)
  PROVE  Core'
<1>1. UNCHANGED <<lease, job, nextId, failedTx, doubt>>
  BY MineIs
<1>2. act' \in [Proc -> Acts]
  BY DEF IInv, TypeOK
<1>3. ASSUME NEW q \in Proc
      PROVE  /\ SameButReply(act'[q], act[q])
             /\ act[q].pc = "send1" /\ act'[q].reply \in Open =>
                  act[q].reply \in Open /\ (act[q].tx.id = x => x \in doubt)
             /\ act[q].pc \in Asks /\ act'[q].reply = "ok" =>
                  act[q].tx.id \in DOMAIN mint'
  BY DEF SameButReply, IInv, ActOK, Extends
<1> QED
  BY <1>1, <1>2, <1>3, WorldStep

LEMMA LateStep ==
  ASSUME IInv, LateRequest
  PROVE  Sound
<1>1. UNCHANGED Mine /\ UNCHANGED act /\ UNCHANGED left
  BY DEF LateRequest
<1>2. /\ UNCHANGED <<lease, job, nextId, failedTx, doubt>> /\ Remembers
      /\ UNCHANGED <<base, since, debt, fails, estimate, feeCache>>
  BY <1>1, MineIs
<1>3. PICK r \in late :
       /\ late' = late \ {r}
       /\ \/ r.kind = "send" /\ Debit(r.tx) /\ UNCHANGED cmc
          \/ r.kind = "notify" /\ MintCycles(r.tx) /\ UNCHANGED ledger
  BY DEF LateRequest
<1>4. Data /\ r.tx \in Txs
  BY Parts DEF Data
<1>5. \A id \in executed \cup {s.tx.id : s \in late} : Used(id, job, nextId)
  BY Known
<1>6. late' \subseteq [kind : {"send", "notify"}, tx : Txs]
  BY <1>3, <1>4 DEF Data
<1>7. CASE r.kind = "send" /\ Debit(r.tx) /\ UNCHANGED cmc
  <2>1. /\ executed' = executed \cup {r.tx.id} /\ executed' \subseteq Ids
        /\ balance' \in Nat /\ fee' = fee /\ aged' = aged
    BY <1>4, <1>7, DebitIs
  <2>2. ~Unsent(r.tx.id, executed, late)
    BY <1>7 DEF Unsent
  <2>3. r.tx.id \notin failedTx \ doubt
    BY <2>2 DEF IInv, FailedOK
  <2>4. \A q \in Proc : act[q].pc = "send1" /\ act[q].reply \in Open /\ act[q].tx.id = r.tx.id =>
                           r.tx.id \in doubt
    BY <2>2 DEF IInv, ActOK, Open
  <2>5. \A id : id # r.tx.id /\ Unsent(id, executed, late) => Unsent(id, executed', late')
    BY <1>3, <2>1 DEF Unsent
  <2>6. \A id \in executed' \cup {s.tx.id : s \in late'} : Used(id, job, nextId)
    BY <1>3, <1>5, <2>1
  <2>7. mint' = mint /\ Extends(mint', mint)
    BY <1>7, SameMint DEF cmc
  <2>8. Core'
    BY <1>1, <2>3, <2>4, <2>5, <2>6, <2>7, SilentStep
  <2>9. Data'
    BY <1>1, <1>2, <1>4, <1>6, <1>7, <2>1 DEF Data, cmc
  <2> QED
    BY <1>2, <2>8, <2>9 DEF Sound
<1>8. CASE r.kind = "notify" /\ MintCycles(r.tx) /\ UNCHANGED ledger
  <2>1. /\ Extends(mint', mint) /\ DOMAIN mint' \subseteq Ids
        /\ mint' \in [DOMAIN mint' -> Nat]
        /\ cycles' \in [Target -> Nat] /\ refused' = refused
    BY <1>4, <1>8, MintIs
  <2>2. /\ Nobody \notin failedTx \ doubt
        /\ \A q \in Proc : act[q].pc = "send1" /\ act[q].reply \in Open /\ act[q].tx.id = Nobody =>
                             Nobody \in doubt
    BY NobodyIs DEF Busy, Sends
  <2>3. executed' = executed
    BY <1>8 DEF ledger
  <2>4. \A id : Unsent(id, executed, late) => Unsent(id, executed', late')
    BY <1>3, <2>3 DEF Unsent
  <2>5. \A id \in executed' \cup {s.tx.id : s \in late'} : Used(id, job, nextId)
    BY <1>3, <1>5, <2>3
  <2>6. Core'
    BY <1>1, <2>1, <2>2, <2>4, <2>5, SilentStep
  <2>7. Data'
    BY <1>1, <1>2, <1>4, <1>6, <1>8, <2>1 DEF Data, ledger
  <2> QED
    BY <1>2, <2>6, <2>7 DEF Sound
<1> QED
  BY <1>3, <1>7, <1>8

\* Time, deposits, fees and burning touch neither transfers nor books.
LEMMA OutsideStep ==
  ASSUME IInv, Age \/ Deposit \/ FeeChange \/ Burn
  PROVE  Sound
<1>1. /\ UNCHANGED Mine /\ UNCHANGED act /\ executed' = executed /\ late' = late
      /\ mint' = mint /\ refused' = refused
  BY DEF Age, Deposit, FeeChange, Burn, cmc, ledger
<1>2. /\ UNCHANGED <<lease, job, nextId, failedTx, doubt>> /\ Remembers
      /\ UNCHANGED <<base, since, debt, fails, estimate, feeCache>>
  BY <1>1, MineIs
<1>3. Data /\ left \in BudgetSet
  BY Parts DEF Data
<1>4. /\ Nobody \notin failedTx \ doubt
      /\ \A q \in Proc : act[q].pc = "send1" /\ act[q].reply \in Open /\ act[q].tx.id = Nobody =>
                           Nobody \in doubt
  BY NobodyIs DEF Busy, Sends
<1>5. \A id \in executed \cup {s.tx.id : s \in late} : Used(id, job, nextId)
  BY Known
<1>6. Core'
  BY <1>1, <1>4, <1>5, SameMint, SilentStep
<1>7. CASE Age
  <2>1. aged' \subseteq Ids /\ left' \in BudgetSet /\ UNCHANGED <<fee, balance, cycles>>
    BY <1>3, <1>7, IdentIn, LeftFault DEF Age, Data, cmc
  <2>2. Data'
    BY <1>1, <1>2, <1>3, <2>1 DEF Data
  <2> QED
    BY <1>2, <1>6, <2>2 DEF Sound
<1>8. CASE Deposit
  <2>1. left' \in BudgetSet
    BY <1>3, <1>8 DEF Deposit, BudgetSet
  <2>2. balance' \in Nat /\ UNCHANGED <<fee, aged, cycles>>
    <3>1. balance' = balance + DepositAmount /\ UNCHANGED <<fee, aged, cycles>>
      BY <1>8 DEF Deposit, cmc
    <3>2. balance \in Nat /\ DepositAmount \in Nat
      BY <1>3, JobAssumption DEF Data
    <3> QED
      BY <3>1, <3>2
  <2>3. Data'
    BY <1>1, <1>2, <1>3, <2>1, <2>2 DEF Data
  <2> QED
    BY <1>2, <1>6, <2>3 DEF Sound
<1>9. CASE FeeChange
  <2>1. left' \in BudgetSet /\ fee' \in Nat /\ UNCHANGED <<balance, aged, cycles>>
    BY <1>9, LeftFault, JobAssumption DEF FeeChange, cmc
  <2>2. Data'
    BY <1>1, <1>2, <1>3, <2>1 DEF Data
  <2> QED
    BY <1>2, <1>6, <2>2 DEF Sound
<1>10. CASE Burn
  <2>1. left' \in BudgetSet
    BY <1>3, <1>10 DEF Burn, BudgetSet
  <2>2. PICK S \in SUBSET {t \in Target : cycles[t] > 0} :
          cycles' = [t \in Target |-> IF t \in S THEN cycles[t] - 1 ELSE cycles[t]]
    BY <1>10 DEF Burn
  <2>3. cycles' \in [Target -> Nat]
    BY <1>3, <2>2 DEF Data
  <2>4. UNCHANGED <<fee, balance, aged>>
    BY <1>10 DEF Burn, ledger
  <2>5. Data'
    BY <1>1, <1>2, <1>3, <2>1, <2>3, <2>4 DEF Data
  <2> QED
    BY <1>2, <1>6, <2>5 DEF Sound
<1> QED
  BY <1>7, <1>8, <1>9, <1>10

LEMMA InitInv == Init => IInv
<1> SUFFICES ASSUME Init PROVE IInv
  OBVIOUS
<1>1. /\ lease = None /\ act = [p \in Proc |-> Idle] /\ nextId = 1 /\ job = None
      /\ executed = {} /\ failedTx = {} /\ late = {} /\ mint = <<>>
  BY DEF Init
<1>2. act \in [Proc -> Acts] /\ \A p \in Proc : act[p] = Idle
  BY <1>1, IdleIs
<1>3. \A p \in Proc : ~Busy(act[p]) /\ act[p].pc = "idle"
  BY <1>2, IdleIs DEF Busy, Sends, Asks
<1>4. \A p \in Proc : ActOK(act[p], job, nextId, mint, executed, late, doubt)
  BY <1>2, IdleOK
<1>5. Quiet /\ Alone /\ FailedOK /\ History
  BY <1>1, <1>3 DEF Quiet, Alone, FailedOK, History
<1>6. Core
  BY <1>1, <1>2, <1>4, <1>5, Zenon DEF Core
<1>7. /\ base \in Samples /\ since \in [Target -> Nat] /\ debt \in [Target -> Nat]
      /\ fails \in [Target -> Nat] /\ cycles \in [Target -> Nat]
  BY JobAssumption DEF Init, Samples
<1>8. DOMAIN mint = {} /\ mint \in [DOMAIN mint -> Nat]
  BY <1>1
<1>9. fee \in Nat /\ left \in BudgetSet
  BY JobAssumption DEF Init
<1>10. Data
  BY <1>1, <1>7, <1>8, <1>9 DEF Data, Init
<1> QED
  BY <1>6, <1>10, Parts

LEMMA StutterStep ==
  ASSUME IInv, UNCHANGED vars
  PROVE  IInv'
<1>1. /\ UNCHANGED <<lease, act, nextId, job, fails, estimate, feeCache, late, left, failedTx,
                     doubt>>
      /\ UNCHANGED <<base, since, debt, fee, balance, executed, aged, mint, refused, cycles>>
  BY DEF vars, accounting, ledger, cmc
<1> QED
  BY <1>1, Zenon DEF IInv, TypeOK, Quiet, Alone, FailedOK, History

LEMMA NextSound == IInv /\ Next => Sound
<1> SUFFICES ASSUME IInv, Next PROVE Sound
  OBVIOUS
<1>1. ASSUME NEW p \in Proc, Start(p) \/ Replies(p) \/ Outside(p) \/ Trap(p) PROVE Sound
  BY <1>1, StartStep, StageDoneStep, ProbeStep, BalanceStep, QuoteStep, ResolveStep,
     SendStep, NotifyStep, LedgerStep, CmcStep, TrapStep, Zenon DEF Replies, Outside
<1> QED
  BY <1>1, LateStep, OutsideStep DEF Next

LEMMA NextInv == IInv /\ [Next]_vars => IInv'
<1> SUFFICES ASSUME IInv, [Next]_vars PROVE IInv'
  OBVIOUS
<1>1. CASE Next
  <2>1. Core' /\ Data'
    BY <1>1, NextSound DEF Sound
  <2>2. IInv' <=> Core' /\ Data'
    BY DEF IInv, Core, Data, TypeOK
  <2> QED
    BY <2>1, <2>2
<1>2. CASE UNCHANGED vars
  BY <1>2, StutterStep
<1> QED
  BY <1>1, <1>2

-----------------------------------------------------------------------------
(* The theorems.                                                            *)

\* Whatever overlaps, expires, is lost, late or answered twice, the job, its
\* activations, the requests on their way and the identities used agree.
THEOREM AllocationIsSafe == Spec => []IInv
  BY InitInv, NextInv, PTL DEF Spec

\* Every variable keeps its type; balances, debts and minted cycles stay
\* natural numbers.
THEOREM TypesHold == Spec => []TypeOK
<1>1. IInv => TypeOK
  BY DEF IInv
<1> QED
  BY <1>1, AllocationIsSafe, PTL

\* What the job counts as minted for a target was minted for it, once, however
\* many activations dispatched the notification (mark_pending_completed).
THEOREM MintedAtMostOnce == Spec => []MintedOnce
<1>1. IInv => MintedOnce
  BY DEF IInv, JobOK, ItemsOK, MintOf, MintedOnce
<1> QED
  BY <1>1, AllocationIsSafe, PTL

\* Surplus is dispatched only after every observed target was minted what it
\* needed, also by a successor that took the job over (plan_surplus_phase).
THEOREM SurplusWaitsForRecovery == Spec => []SurplusAfterRecovery
<1>1. IInv => SurplusAfterRecovery
  <2> SUFFICES ASSUME IInv, job # None, job.pending # None, job.pending.id[2] = "surplus",
                      NEW i \in DOMAIN job.items
               PROVE  LET id == <<job.id, "topup", i>>
                      IN  (IF id \in DOMAIN mint THEN mint[id] ELSE 0) >= job.items[i].need
    BY DEF SurplusAfterRecovery
  <2> DEFINE id == <<job.id, "topup", i>>
  <2>1. IsJob(job) /\ JobOK(job, nextId, mint) /\ mint \in [DOMAIN mint -> Nat]
    BY DEF IInv, TypeOK
  <2>2. job.items[i].need \in Nat
    BY <2>1, ItemFields
  <2>3. job.items[i].minted \in {0} \cup MintOf(mint, id)
    BY <2>1 DEF JobOK, ItemsOK
  <2>4. job.items[i].minted >= job.items[i].need
    BY <2>1 DEF JobOK, PendingOK
  <2> HIDE DEF id
  <2>5. (IF id \in DOMAIN mint THEN mint[id] ELSE 0) >= job.items[i].need
    BY <2>1, <2>2, <2>3, <2>4 DEF MintOf
  <2> QED
    BY <2>5 DEF id
<1> QED
  BY <1>1, AllocationIsSafe, PTL

\* A transfer counted as failed, and so as unspent, was not executed and never
\* will be, unless two activations had dispatched it (mark_pending_failed).
THEOREM FailedStaysUnspent == Spec => []FailedIsUnspent
<1>1. IInv => FailedIsUnspent
  BY DEF IInv, FailedOK, Unsent, FailedIsUnspent
<1> QED
  BY <1>1, AllocationIsSafe, PTL

\* No step lets the books of a sampled target shrink: what a target burned, or
\* is owed, survives failed, partial and superseded jobs (complete_job,
\* complete_no_funds_sample, complete_baseline_sample).
THEOREM DebtIsRemembered == Spec => DebtRemembered
<1>1. IInv /\ [Next]_vars => [\A t \in Target : base[t] >= 0 => Book(t)' >= Book(t)]_vars
  BY NextSound DEF Sound, Remembers
<1> QED
  BY <1>1, AllocationIsSafe, PTL DEF Spec, DebtRemembered

=============================================================================
